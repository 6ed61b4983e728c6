--------------------------- MODULE SocketLauncher ---------------------------
(***************************************************************************)
(* One launcher that serves several process managers: QSocketLauncher      *)
(* (qsocketlauncher.cpp) with one QLauncherClient per connection, and on   *)
(* the other side the QSocketProcessBackendFactory of each manager, which  *)
(* may give up its connection and open another one.                        *)
(*                                                                         *)
(* All factories number their backends alike (from 100), so that a         *)
(* message's id means something only on its connection.  The processes of  *)
(* the launcher follow ProcessLifecycle, as its standard backends do       *)
(* (UnixBackend).  Priorities, input and output are left out, and so is a  *)
(* setSocketName that an owner calls from inside of readyRead.             *)
(***************************************************************************)
EXTENDS Naturals, SequencesExt, FiniteSetsExt

CONSTANTS
    Factories,      \* socket factories, one per manager
    Connections,    \* connections, each opened once
    Ids,            \* ids of backends, the same for every factory
    None,
    MaxChanges,     \* bound: how many times clients call start and stop, a manager's memory
                    \* restriction changes, the launcher's factories change their mind about
                    \* idle CPU by themselves, or its idle delegate is set or removed
    MaxLeaves,      \* bound: how many times a connection ends
    MaxUnderWay     \* bound: managers and processes act while no more messages are
                    \* under way on their connection

ASSUME SocketAssumption ==
    /\ None \notin Factories \cup Connections
    /\ MaxChanges \in Nat /\ MaxLeaves \in Nat /\ MaxUnderWay \in Nat

VARIABLES
    \* each factory
    m_socket,            \* its connection, or None
    m_buffer,            \* messages that were read and not yet handled
    garbled,             \* behind these, a part of a message whose connection has ended
    reading,             \* it is in readyRead
    m_memoryRestricted, m_idleCpuRequest,
    m_state,             \* of each backend
    \* each connection
    owner,               \* the factory that opened it, or None
    up, down,            \* messages under way to the launcher and back
    \* the launcher
    clients,             \* connections that have a QLauncherClient
    removed,             \* those that had one
    stage,               \* per connection and id: what was sent of the process
    restricted, requested,  \* its memory restriction and its idle request
    delegate,            \* it has an idle delegate of its own
    \* observations
    informed,            \* clients told of the request since the delegate last changed
    host,                \* the connection that was sent the backend's start, or None
    seen,                \* what the client received: a stage of ProcessLifecycle
    changes

sockets   == <<m_socket, m_buffer, garbled, reading>>
told      == <<m_idleCpuRequest, m_state, seen>>
idle      == <<requested, delegate, informed>>
launcher  == <<clients, removed, stage, restricted, idle>>
vars == <<sockets, told, m_memoryRestricted, owner, up, down, launcher, host, changes>>

P == INSTANCE RemoteProtocol WITH launcher <- up
Life(f, i) == INSTANCE ProcessLifecycle WITH stage <- seen[f][i]

\* A definition marked 'mutant' is a plausible bug that takes the place of the
\* one that follows it.

Each(value) == [f \in Factories |-> [i \in Ids |-> value]]

NewLauncher ==
    /\ clients = {} /\ removed = {}
    /\ stage = [k \in Connections |-> [i \in Ids |-> "fresh"]]
    /\ restricted = FALSE /\ requested = FALSE /\ delegate = FALSE /\ informed = {}

Init ==
    /\ m_socket = [f \in Factories |-> None] /\ m_buffer = [f \in Factories |-> <<>>]
    /\ garbled = [f \in Factories |-> FALSE] /\ reading = [f \in Factories |-> FALSE]
    /\ m_memoryRestricted = [f \in Factories |-> FALSE]
    /\ m_idleCpuRequest = [f \in Factories |-> FALSE]
    /\ m_state = Each("NotRunning")
    /\ owner = [k \in Connections |-> None]
    /\ up = [k \in Connections |-> <<>>] /\ down = [k \in Connections |-> <<>>]
    /\ NewLauncher
    /\ host = Each(None) /\ seen = Each("fresh")
    /\ changes = 0

---------------------------------------------------------------------------
(* The factory. *)

IsOpen(k) == owner[k] # None /\ m_socket[owner[k]] = k

\* send: nothing leaves without a valid socket.
Message(command, id) == [command |-> command, id |-> id]
Memory(value) == [command |-> "memory", value |-> value]
send(f, m) == IF m_socket[f] = None THEN UNCHANGED up
              ELSE up' = [up EXCEPT ![m_socket[f]] = Append(@, m)]

\* handleConnected tells the launcher about memory.
connected(f) == <<Memory(m_memoryRestricted[f])>>

\* setSocketName, with a socket that is not connected: a local socket connects at once.
\* The buffer is left as it is.
Connect(f, k) ==
    /\ m_socket[f] = None /\ owner[k] = None /\ ~reading[f]
    /\ m_socket' = [m_socket EXCEPT ![f] = k]
    /\ owner' = [owner EXCEPT ![k] = f]
    /\ up' = [up EXCEPT ![k] = connected(f)]
    /\ UNCHANGED <<m_buffer, garbled, reading, told, m_memoryRestricted, down, launcher, host,
                   changes>>

\* The connection ends, by setSocketName's abort() or by itself: what was under way
\* may be lost, and a message may have come in part.  disconnected() only warns.
Disconnect(f) ==
    /\ m_socket[f] # None
    /\ Cardinality({k \in Connections : owner[k] # None /\ ~IsOpen(k)}) < MaxLeaves
    /\ LET k == m_socket[f] IN
        /\ \E arrived \in Prefixes(up[k]) : up' = [up EXCEPT ![k] = arrived]
        /\ down' = [down EXCEPT ![k] = <<>>]
        /\ garbled' \in {garbled, [garbled EXCEPT ![f] = @ \/ down[k] # <<>>]}
    /\ m_socket' = [m_socket EXCEPT ![f] = None]
    /\ UNCHANGED <<m_buffer, reading, told, m_memoryRestricted, owner, launcher,
                   host, changes>>

\* readyRead: one message has come, or all that were sent.  Behind a part of an old one
\* they make no sense.
ReadyRead(f) ==
    /\ m_socket[f] # None /\ ~reading[f]
    /\ LET k == m_socket[f] IN
       \E n \in {1, Len(down[k])} :
          /\ down[k] # <<>>
          /\ down' = [down EXCEPT ![k] = SubSeq(@, n + 1, Len(@))]
          /\ IF garbled[f] THEN UNCHANGED <<m_buffer, reading>>
             ELSE /\ m_buffer' = [m_buffer EXCEPT ![f] = @ \o SubSeq(down[k], 1, n)]
                  /\ reading' = [reading EXCEPT ![f] = TRUE]
    /\ UNCHANGED <<m_socket, garbled, told, m_memoryRestricted, owner, up, launcher, host,
                   changes>>

\* The loop goes on while there is a whole message.
ReadsOn(rest) == rest # <<>>

States == {"Starting", "Running", "NotRunning"}

\* QRemoteProcessBackendFactory::receive and QRemoteProcessBackend::receive, for one
\* message in the loop.
receive(f) ==
    /\ reading[f]
    /\ LET m == Head(m_buffer[f])
           rest == Tail(m_buffer[f])
       IN  /\ m_buffer' = [m_buffer EXCEPT ![f] = rest]
           /\ reading' = [reading EXCEPT ![f] = ReadsOn(rest)]
           /\ IF m.event = "idlecpurequested"
              THEN /\ m_idleCpuRequest' = [m_idleCpuRequest EXCEPT ![f] = m.value]
                   /\ UNCHANGED <<m_state, seen>>
              ELSE /\ seen' = [seen EXCEPT ![f][m.id] = Life(f, m.id)!After(@, m.event)]
                   /\ m_state' = [m_state EXCEPT ![f][m.id] =
                                     IF m.event \in States THEN m.event ELSE @]
                   /\ UNCHANGED m_idleCpuRequest
    /\ UNCHANGED <<m_socket, garbled, m_memoryRestricted, owner, up, down, launcher, host,
                   changes>>

\* A bound, not a condition of the code.
Quiet(f) == m_socket[f] # None => Len(up[m_socket[f]]) <= MaxUnderWay

setMemoryRestricted(f) ==
    /\ Quiet(f)
    /\ changes < MaxChanges /\ changes' = changes + 1
    /\ m_memoryRestricted' = [m_memoryRestricted EXCEPT ![f] = ~@]
    /\ send(f, Memory(~m_memoryRestricted[f]))
    /\ UNCHANGED <<sockets, told, owner, down, launcher, host>>

\* The manager's idle delegate has found idle CPU and the factory wants it.
idleCpuAvailable(f) ==
    /\ m_idleCpuRequest[f] /\ m_socket[f] # None /\ Quiet(f)
    /\ \A j \in DOMAIN up[m_socket[f]] : up[m_socket[f]][j].command # "idlecpuavailable"
    /\ send(f, [command |-> "idlecpuavailable"])
    /\ UNCHANGED <<sockets, told, m_memoryRestricted, owner, down, launcher, host, changes>>

---------------------------------------------------------------------------
(* Clients of the factory.  A process may be started again as long as nothing was     *)
(* heard of it and the connection of the first attempt is gone.                       *)

start(f, i) ==
    /\ m_socket[f] # None /\ m_state[f][i] = "NotRunning"
    /\ seen[f][i] = "fresh" /\ host[f][i] # m_socket[f]
    /\ Quiet(f) /\ changes < MaxChanges /\ changes' = changes + 1
    /\ send(f, Message("start", i))
    /\ host' = [host EXCEPT ![f][i] = m_socket[f]]
    /\ UNCHANGED <<sockets, told, m_memoryRestricted, owner, down, launcher>>

stop(f, i) ==
    /\ host[f][i] # None /\ Quiet(f) /\ changes < MaxChanges
    /\ changes' = changes + 1
    /\ send(f, Message("stop", i))
    /\ UNCHANGED <<sockets, told, m_memoryRestricted, owner, down, launcher, host>>

---------------------------------------------------------------------------
(* The launcher. *)

\* What is sent on a connection that its factory has left goes nowhere.
Sent(k, messages) == IF IsOpen(k) THEN down[k] \o messages ELSE down[k]

Request(value) == [event |-> "idlecpurequested", value |-> value]
Events(i, r) == [j \in DOMAIN r |-> [event |-> r[j], id |-> i]]

\* mutant: an event of a process goes to all clients
sendBroadcast(k, messages) == [j \in Connections |-> IF j \in clients THEN Sent(j, messages)
                                                                      ELSE down[j]]

\* QSocketLauncher::send looks up the connection of the QLauncherClient that speaks.
sendToClient(k, messages) == [down EXCEPT ![k] = Sent(k, messages)]

broadcast(messages) == [j \in Connections |-> IF j \in clients THEN Sent(j, messages)
                                                               ELSE down[j]]

\* mutant: a new client hears of the next change
GreetingNone == <<>>

\* With a delegate of its own the launcher says nothing of idle CPU.
Greeting == IF delegate THEN <<>> ELSE <<Request(requested)>>

connectionAdded(k) ==
    /\ owner[k] # None /\ k \notin clients \cup removed
    /\ clients' = clients \cup {k}
    /\ down' = [down EXCEPT ![k] = Sent(k, Greeting)]
    /\ informed' = IF delegate THEN informed ELSE informed \cup {k}
    /\ UNCHANGED <<sockets, told, m_memoryRestricted, owner, up, removed, stage, restricted,
                   requested, delegate, host, changes>>

\* mutant: the QLauncherClient is forgotten and not deleted
DeletedNone(stages) == stages

\* delete client: its backends are its children, and theirs the processes.
Deleted(stages) == [i \in Ids |-> IF stages[i] = "fresh" THEN "fresh" ELSE "gone"]

\* The server has read all that came before the end of the connection.
connectionRemoved(k) ==
    /\ k \in clients /\ ~IsOpen(k) /\ up[k] = <<>>
    /\ clients' = clients \ {k} /\ removed' = removed \cup {k}
    /\ stage' = [stage EXCEPT ![k] = Deleted(@)]
    /\ informed' = informed \ {k}
    /\ UNCHANGED <<sockets, told, m_memoryRestricted, owner, up, down, restricted, requested,
                   delegate, host, changes>>

\* Process i of connection k changes, and its QLauncherClient reports the signals r.
Report(k, i, r) ==
    LET g == P!Life!Reached(stage[k][i], r) IN
    /\ stage' = [stage EXCEPT ![k][i] = g]
    /\ down' = sendToClient(k, Events(i, r))

\* QLauncherClient::receive.  A record that no factory takes is dropped without an answer.
LauncherStarts(k, i) ==
    \/ UNCHANGED <<stage, down>>
    \/ \E r \in P!StartReports : Report(k, i, r)

\* A process that this client has started is told; what comes of it ProcessChanges reports.
LauncherStops(k, i) == UNCHANGED <<stage, down>>

\* The clients are told, unless the launcher has a delegate.
handleIdleCpuRequest(value) ==
    IF delegate THEN UNCHANGED <<down, informed>>
    ELSE down' = broadcast(<<Request(value)>>) /\ informed' = clients

\* The launcher's own factories have been polled, and value is what came of it.
updateIdleCpuRequest(value) ==
    /\ requested' = value
    /\ IF value = requested THEN UNCHANGED <<down, informed>> ELSE handleIdleCpuRequest(value)

\* Prelaunch factories want no idle CPU while memory is restricted, and may want it again
\* after; others do not mind.
LauncherRestricts(value) ==
    /\ restricted' = value
    /\ \E wish \in {requested} \cup (IF value = restricted THEN {} ELSE {~value}) :
          updateIdleCpuRequest(wish)

\* Idle CPU goes to the first factory that wants it.  Another one may still want it.
LauncherIdles ==
    \E wish \in {requested} \cup (IF delegate THEN {} ELSE {FALSE}) : updateIdleCpuRequest(wish)

messageReceived(k) ==
    /\ k \in clients /\ up[k] # <<>>
    /\ up' = [up EXCEPT ![k] = Tail(@)]
    /\ LET m == Head(up[k]) IN
       \/ m.command = "memory" /\ LauncherRestricts(m.value) /\ UNCHANGED stage
       \/ m.command = "idlecpuavailable" /\ LauncherIdles
          /\ UNCHANGED <<stage, restricted>>
       \/ m.command = "start" /\ LauncherStarts(k, m.id)
          /\ UNCHANGED <<restricted, requested, informed>>
       \/ m.command = "stop" /\ LauncherStops(k, m.id)
          /\ UNCHANGED <<restricted, requested, informed>>
    /\ UNCHANGED <<sockets, told, m_memoryRestricted, owner, clients, removed, delegate, host,
                   changes>>

\* The launcher's factories begin to want idle CPU, or its delegate has found them some.
FactoriesChange ==
    /\ changes < MaxChanges /\ changes' = changes + 1
    /\ updateIdleCpuRequest(~requested)
    /\ UNCHANGED <<sockets, told, m_memoryRestricted, owner, up, clients, removed, stage,
                   restricted, delegate, host>>

\* The launcher's owner gives it a delegate or takes that away.  The request counts as
\* FALSE and is computed anew, so without a delegate clients hear only of TRUE.
setIdleDelegate ==
    /\ changes < MaxChanges /\ changes' = changes + 1
    /\ delegate' = ~delegate
    /\ IF delegate /\ requested THEN down' = broadcast(<<Request(TRUE)>>) /\ informed' = clients
       ELSE informed' = {} /\ UNCHANGED down
    /\ UNCHANGED <<sockets, told, m_memoryRestricted, owner, up, clients, removed, stage,
                   restricted, requested, host>>

ProcessChanges(k, i) ==
    /\ k \in clients /\ Len(down[k]) <= MaxUnderWay
    /\ \E r \in P!Reports(stage[k][i]) \ {<<>>} : Report(k, i, r)
    /\ UNCHANGED <<sockets, told, m_memoryRestricted, owner, up, clients, removed, restricted,
                   idle, host, changes>>

Next ==
    \/ \E f \in Factories :
          \/ \E k \in Connections : Connect(f, k)
          \/ Disconnect(f) \/ ReadyRead(f) \/ receive(f)
          \/ setMemoryRestricted(f) \/ idleCpuAvailable(f)
          \/ \E i \in Ids : start(f, i) \/ stop(f, i)
    \/ \E k \in Connections :
          \/ connectionAdded(k) \/ connectionRemoved(k) \/ messageReceived(k)
          \/ \E i \in Ids : ProcessChanges(k, i)
    \/ FactoriesChange \/ setIdleDelegate

Spec == Init /\ [][Next]_vars

---------------------------------------------------------------------------
(* Properties *)

Stages == Life(CHOOSE f \in Factories : TRUE, CHOOSE i \in Ids : TRUE)!Stages

\* Type correctness, and the loop in readyRead runs exactly while there is a message.
TypeOK ==
    /\ m_socket \in [Factories -> Connections \cup {None}]
    /\ garbled \in [Factories -> BOOLEAN]
    /\ \A f \in Factories : reading[f] <=> m_buffer[f] # <<>>
    /\ m_memoryRestricted \in [Factories -> BOOLEAN]
    /\ m_idleCpuRequest \in [Factories -> BOOLEAN]
    /\ m_state \in [Factories -> [Ids -> States]]
    /\ owner \in [Connections -> Factories \cup {None}]
    /\ clients \cup removed \subseteq Connections /\ clients \cap removed = {}
    /\ \A k \in Connections, i \in Ids : stage[k][i] \in Stages
    /\ restricted \in BOOLEAN /\ requested \in BOOLEAN /\ delegate \in BOOLEAN
    /\ informed \subseteq clients
    /\ host \in [Factories -> [Ids -> Connections \cup {None}]]
    /\ \A f \in Factories, i \in Ids : seen[f][i] \in Stages \cup {"broken"}

\* What the factory has not handled yet, in order, where the launcher speaks of idle CPU
\* in it, and where of process i.
Coming(f) == m_buffer[f] \o down[m_socket[f]]
Understood(f) == m_socket[f] # None /\ ~garbled[f]
News(f) == {j \in DOMAIN Coming(f) : Coming(f)[j].event = "idlecpurequested"}
About(f, i) == {j \in DOMAIN Coming(f) \ News(f) : Coming(f)[j].id = i}

\* Two managers whose processes have the same id are told of their own: what the client
\* has seen of a process started over the present connection, followed by what is
\* under way, is what the launcher has to say of it.  (The last signal under way tells
\* the stage; that the others fit is OneLifecycle.)
SeenIsReported ==
    \A f \in Factories, i \in Ids :
       Understood(f) /\ host[f][i] = m_socket[f] =>
          LET last == IF About(f, i) = {} THEN <<>> ELSE <<Coming(f)[Max(About(f, i))].event>>
          IN  Life(f, i)!Reached(seen[f][i], last) = stage[m_socket[f]][i]

\* Whatever connections come and go, a connected factory knows, or is about to read,
\* whether the launcher wants idle CPU, unless a delegate keeps the launcher from saying
\* so: then factories keep what they heard last, over whichever connection, and when the
\* delegate is removed until the request changes or they connect again.
IdleAgrees ==
    \A f \in Factories : Understood(f) /\ m_socket[f] \in informed =>
       requested = IF News(f) = {} THEN m_idleCpuRequest[f] ELSE Coming(f)[Max(News(f))].value

\* A manager that leaves takes its processes along: the launcher runs none without a
\* client (qsocketlauncher.cpp:137, the QLauncherClient is the backends' parent).
NoOrphans ==
    \A k \in Connections, i \in Ids : stage[k][i] \in {"starting", "up"} => k \in clients

\* While no connection has ended, managers that agree about memory are heard: once all
\* messages are read, the launcher's restriction is theirs.  A manager that leaves may
\* leave its own setting behind.
RestrictionReached ==
    LET open == {f \in Factories : m_socket[f] # None} IN
    \A v \in BOOLEAN :
       /\ open # {} /\ \A f \in open : m_memoryRestricted[f] = v
       /\ \A k \in Connections : owner[k] # None => k \in clients /\ IsOpen(k) /\ up[k] = <<>>
       => restricted = v

\* One life cycle per process, for each client of each manager, also when it had to
\* start its process again over a new connection; and nobody hears of a process that
\* was not started.
OneLifecycle ==
    \A f \in Factories, i \in Ids :
       /\ seen[f][i] # "broken"
       /\ host[f][i] = None => seen[f][i] = "fresh"

\* Each client hears of its own process, one life cycle, and what was said of it.
ClientsHearTheirs == TypeOK /\ SeenIsReported /\ OneLifecycle

\* Both ends of every connection agree about idle CPU and about memory.
EndsAgree == IdleAgrees /\ RestrictionReached
=============================================================================
