-------------------------- MODULE ProcessRegistry --------------------------
(***************************************************************************)
(* QProcessManager (qprocessmanager.cpp) and QDeclarativeProcessManager,   *)
(* its subclass for QML: the list of frontends and what a client can learn *)
(* or change through it -- by name, by pid, and by the priority of a       *)
(* process that may run behind a launcher.                                 *)
(*                                                                         *)
(* Frontends are numbered as their backends are (backend_count).  A local  *)
(* backend asks its QProcess for the pid; a remote one keeps the pid of    *)
(* the last "started" message.  All processes get their pids from one      *)
(* kernel, which gives a pid away again as soon as it has been reaped.     *)
(* The priority stands for the oom adjustment, too, which every backend    *)
(* sets, sends and reads the same way.                                     *)
(* Start-up failures and stops are the subject of UnixBackend and          *)
(* RemoteBackend and are left out; an end of a process is an end.          *)
(***************************************************************************)
EXTENDS Integers, Sequences, FiniteSets, SequencesExt

CONSTANTS
    MaxCreated,     \* how many frontends are created
    Pids,           \* the kernel's pids
    Identifiers,    \* identifiers of records; "" is none
    Priorities,     \* priorities that clients ask for
    MaxStarts,      \* how often a client calls start()
    MaxSets         \* how often a client calls setPriority()

ASSUME RegistryAssumption ==
    /\ MaxCreated \in Nat
    /\ MaxStarts \in Nat
    /\ MaxSets \in Nat
    /\ Pids \subseteq Nat \ {0}
    /\ Priorities \subseteq Int
    /\ 0 \in Priorities

VARIABLES
    \* QProcessManager
    m_processlist,  \* the frontends, in order of creation
    backend_count,  \* how many backends have been created
    dying,          \* the frontends whose destroyed() is being emitted, innermost last
    ended,          \* the frontend whose QProcess tells of the end of its process, or None
    announced,      \* the name in the signal emitted in this step, if any
    \* a frontend and its backend, by number
    identifier, remote, state, pid, desired, created,
    \* the operating system: pid and priority of the process behind a frontend, and how the
    \* priority came about
    proc, nice, fate,
    \* the pipe to the launcher and back
    commands, events,
    \* observations: frontends that are no more, the priority asked for last, whether it
    \* was asked for in vain, calls counted
    destroyed, asked, unsent, starts, sets

slots == <<dying, ended>>
manager == <<m_processlist, backend_count, slots>>
record == <<identifier, remote>>
backend == <<record, state, pid, desired, created>>
priority == <<nice, fate>>
kernel == <<proc, priority>>
pipe == <<commands, events>>
calls == <<starts, sets>>
client == <<destroyed, asked, unsent, calls>>
vars == <<manager, announced, backend, kernel, pipe, client>>

Frontends == 1 .. MaxCreated
None == 0               \* the NULL frontend
NoName == <<"", 0>>
Unknown == -1           \* m_pid before the first "started"

---------------------------------------------------------------------------
(* Lookups. *)

\* mutant: only records without an identifier get the number
nameShort(f) == IF identifier[f] = "" THEN <<"process", f>> ELSE <<identifier[f], 0>>

\* QProcessBackend::createName: NAME-ID, where the number makes up for equal names.
name(f) == <<IF identifier[f] = "" THEN "process" ELSE identifier[f], f>>

\* A local backend asks its QProcess, a remote one has 0 until a pid is known.
pidLocal(f) == IF created[f] THEN pid[f] ELSE 0
pidRemote(f) == IF pid[f] = Unknown THEN 0 ELSE pid[f]
pidOf(f) == IF remote[f] THEN pidRemote(f) ELSE pidLocal(f)

\* The first of these frontends in the list, or NULL.
FirstOf(those) ==
    LET i == SelectInSeq(m_processlist, LAMBDA f : f \in those)
    IN  IF i = 0 THEN None ELSE m_processlist[i]

names == [i \in DOMAIN m_processlist |-> name(m_processlist[i])]

processForName(n) == FirstOf({f \in Frontends : name(f) = n})

processForPID(p) == IF p = 0 THEN None ELSE FirstOf({f \in Frontends : pidOf(f) = p})

\* actualPriority(): what the kernel says of the process under the pid, or 0.
getpriority(p) == LET owner == {f \in Frontends : proc[f] = p /\ p # 0}
                  IN  IF owner = {} THEN 0 ELSE nice[CHOOSE f \in owner : TRUE]
actualLocal(f) == IF created[f] THEN getpriority(pid[f]) ELSE 0
actualRemote(f) == IF pid[f] # Unknown THEN getpriority(pid[f]) ELSE 0
actualPriority(f) == IF remote[f] THEN actualRemote(f) ELSE actualLocal(f)

Living == (1 .. backend_count) \ (destroyed \cup ToSet(dying))
FreePids == Pids \ {proc[f] : f \in Frontends}
InLoop == dying = <<>> /\ ended = None

---------------------------------------------------------------------------
(* The client's calls.  They come from the event loop or from a slot on a  *)
(* signal of the manager, the one on a frontend's destruction included, or *)
(* half-way through the end of a process.                                  *)

Init ==
    /\ m_processlist = <<>> /\ backend_count = 0 /\ dying = <<>> /\ ended = None
    /\ announced = NoName
    /\ identifier = [f \in Frontends |-> ""]
    /\ remote = [f \in Frontends |-> FALSE]
    /\ state = [f \in Frontends |-> "NotRunning"]
    /\ pid = [f \in Frontends |-> 0]
    /\ desired = [f \in Frontends |-> 0]
    /\ created = [f \in Frontends |-> FALSE]
    /\ proc = [f \in Frontends |-> 0]
    /\ nice = [f \in Frontends |-> 0]
    /\ fate = [f \in Frontends |-> "set"]
    /\ commands = <<>> /\ events = <<>>
    /\ asked = [f \in Frontends |-> 0]
    /\ unsent = [f \in Frontends |-> FALSE]
    /\ destroyed = {} /\ starts = 0 /\ sets = 0

\* QDeclarativeProcessManager passes on the frontend's signals under its name.
announce(f) == announced' = name(f)
Quiet == announced' = NoName

\* The backend takes the next number and with it its name; a remote one has no pid.
newBackend(f, i) ==
    /\ backend_count' = f
    /\ identifier' = [identifier EXCEPT ![f] = i]
newRemoteBackend(f, r) ==
    /\ remote' = [remote EXCEPT ![f] = r]
    /\ pid' = [pid EXCEPT ![f] = IF r THEN Unknown ELSE 0]

create(i, r) ==
    /\ backend_count < MaxCreated
    /\ LET f == backend_count + 1
       IN  /\ newBackend(f, i) /\ newRemoteBackend(f, r)
           /\ m_processlist' = Append(m_processlist, f)
    /\ Quiet
    /\ UNCHANGED <<slots, state, desired, created, kernel, pipe, client>>

send(c) == commands' = Append(commands, c)

\* A new process asks for its priority, or its manager does; refused it has the inherited
\* one, and nothing but a warning tells.
born(f, v) ==
    \/ nice' = [nice EXCEPT ![f] = v] /\ fate' = [fate EXCEPT ![f] = "set"]
    \/ v # 0 /\ nice' = [nice EXCEPT ![f] = 0] /\ fate' = [fate EXCEPT ![f] = "refused"]

\* A local backend creates its QProcess once (createProcess refuses a second time); how
\* its process comes to run is in UnixBackend.
\* A remote start waits for the launcher, so that state() stays NotRunning; clients
\* here wait for the answer (RemoteBackend shows what happens if they do not).
Answered(f) == \A i \in DOMAIN commands : commands[i].id = f => commands[i].cmd # "start"

start(f) ==
    /\ f \in Living /\ state[f] = "NotRunning" /\ starts < MaxStarts
    /\ starts' = starts + 1
    /\ announce(f)
    /\ IF remote[f]
       THEN /\ Answered(f) /\ proc[f] = 0 /\ \A i \in DOMAIN events : events[i].id # f
            /\ send([cmd |-> "start", id |-> f, value |-> desired[f]])
            /\ unsent' = [unsent EXCEPT ![f] = FALSE]
            /\ UNCHANGED <<state, pid, created, kernel>>
       ELSE /\ IF created[f] THEN UNCHANGED <<state, pid, created, kernel>>
               ELSE /\ \E p \in FreePids :
                        /\ proc' = [proc EXCEPT ![f] = p]
                        /\ pid' = [pid EXCEPT ![f] = p]
                    /\ born(f, desired[f])
                    /\ state' = [state EXCEPT ![f] = "Running"]
                    /\ created' = [created EXCEPT ![f] = TRUE]
            /\ UNCHANGED <<commands, unsent>>
    /\ UNCHANGED <<manager, record, desired, events, destroyed, asked, sets>>

\* mutant: a remote backend tells the launcher only once the process is known to run
PidKnownRunning(f) == pid[f] # Unknown /\ state[f] = "Running"

\* m_pid != -1, by which a remote backend judges whether there is a process.
PidKnown(f) == pid[f] # Unknown

\* setDesiredPriority: the record, then the process.
setDesired(f, v) == desired' = [desired EXCEPT ![f] = v]

\* A call under pid p that was meant for f: whoever has the pid gets the priority, unless
\* the kernel refuses, and nothing but a warning tells.
Has(g, p) == proc[g] = p /\ p # 0
setpriority(f, p, v) ==
    \/ /\ nice' = [g \in Frontends |-> IF Has(g, p) THEN v ELSE nice[g]]
       /\ fate' = [g \in Frontends |-> IF ~Has(g, p) THEN fate[g]
                                       ELSE IF g = f THEN "set" ELSE "strayed"]
    \/ /\ \E g \in Frontends : Has(g, p) /\ nice[g] # v
       /\ nice' = nice
       /\ fate' = [g \in Frontends |-> IF Has(g, p) /\ g = f THEN "refused" ELSE fate[g]]

setDesiredLocal(f, v) ==
    /\ setDesired(f, v)
    /\ IF created[f] THEN setpriority(f, pid[f], v) ELSE UNCHANGED priority
    /\ UNCHANGED <<commands, unsent>>

setDesiredRemote(f, v) ==
    /\ setDesired(f, v)
    /\ IF PidKnown(f) THEN send([cmd |-> "set", id |-> f, value |-> v])
                      ELSE UNCHANGED commands
    /\ unsent' = [unsent EXCEPT ![f] = pid[f] = Unknown /\ (~Answered(f) \/ proc[f] # 0)]
    /\ UNCHANGED priority

\* QProcessFrontend::setPriority.
setPriority(f, v) ==
    /\ f \in Living /\ sets < MaxSets
    /\ sets' = sets + 1
    /\ asked' = [asked EXCEPT ![f] = v]
    /\ IF v = desired[f] THEN UNCHANGED <<desired, commands, priority, unsent>>
       ELSE IF remote[f] THEN setDesiredRemote(f, v) ELSE setDesiredLocal(f, v)
    /\ Quiet
    /\ UNCHANGED <<manager, record, state, pid, created, proc, events, destroyed, starts>>

\* delete frontend, but for one whose QProcess is emitting: destroyed() reaches the manager,
\* whose subclass first says so to its clients.
Delete(f) ==
    /\ f \in Living /\ f # ended
    /\ dying' = Append(dying, f)
    /\ announce(f)
    /\ UNCHANGED <<m_processlist, backend_count, ended, backend, kernel, pipe, client>>

\* removeAll: the list has a frontend once, if at all (ListIsLiving).
Removed(f) == RemoveFirst(m_processlist, f)

\* The manager's slot, then the end of the backend: a local one kills its process,
\* a remote one leaves it to the launcher.
processFrontendDestroyed ==
    /\ dying # <<>>
    /\ LET f == Last(dying)
       IN  /\ m_processlist' = Removed(f)
           /\ dying' = Front(dying)
           /\ destroyed' = destroyed \cup {f}
           /\ proc' = [proc EXCEPT ![f] = IF remote[f] THEN @ ELSE 0]
           /\ pid' = [pid EXCEPT ![f] = IF remote[f] THEN @ ELSE 0]
    /\ Quiet
    /\ UNCHANGED <<backend_count, ended, record, state, desired, created, priority, pipe, asked,
                   unsent, calls>>

---------------------------------------------------------------------------
(* Processes and messages. *)

\* QProcess reaps its child and emits error(Crashed) if it crashed, stateChanged and
\* finished.  It has the pid until before the last of them.
NotRunning(f) == state' = [state EXCEPT ![f] = "NotRunning"]

Reaped(f) ==
    /\ InLoop /\ ~remote[f] /\ proc[f] # 0 /\ f \in Living
    /\ proc' = [proc EXCEPT ![f] = 0]
    /\ ended' = f
    /\ NotRunning(f) \/ UNCHANGED state
    /\ announce(f)
    /\ UNCHANGED <<m_processlist, backend_count, dying, record, pid, desired, created, priority,
                   pipe, client>>

CrashNoticed(f) ==
    /\ dying = <<>> /\ ended = f /\ state[f] = "Running"
    /\ NotRunning(f)
    /\ announce(f)
    /\ UNCHANGED <<manager, record, pid, desired, created, kernel, pipe, client>>

\* mutant: QProcess keeps the pid of a process it has reaped
PidAfterKept(f) == pid

PidAfter(f) == [pid EXCEPT ![f] = 0]

Finished(f) ==
    /\ dying = <<>> /\ ended = f /\ state[f] = "NotRunning"
    /\ pid' = PidAfter(f)
    /\ ended' = None
    /\ announce(f)
    /\ UNCHANGED <<m_processlist, backend_count, dying, record, state, desired, created, kernel,
                   pipe, client>>

\* The launcher takes a command; one for a process that it does not have is dropped.
LauncherStarts(c) ==
    /\ c.cmd = "start"
    /\ \E p \in FreePids :
          /\ proc' = [proc EXCEPT ![c.id] = p]
          /\ events' = Append(events, [event |-> "started", id |-> c.id, pid |-> p])
    /\ born(c.id, c.value)

LauncherSets(c) ==
    /\ c.cmd = "set"
    /\ setpriority(c.id, proc[c.id], c.value)
    /\ UNCHANGED <<proc, events>>

LauncherReads ==
    /\ commands # <<>>
    /\ LauncherStarts(Head(commands)) \/ LauncherSets(Head(commands))
    /\ commands' = Tail(commands)
    /\ Quiet
    /\ UNCHANGED <<manager, backend, client>>

\* The launcher reaps a child: its pid is free before the manager has read of it.
LauncherReaps(f) ==
    /\ remote[f] /\ proc[f] # 0
    /\ proc' = [proc EXCEPT ![f] = 0]
    /\ events' = Append(events, [event |-> "finished", id |-> f, pid |-> 0])
    /\ Quiet
    /\ UNCHANGED <<manager, backend, priority, commands, client>>

\* The factory passes an event on to the backend, if it still exists.
receive ==
    /\ InLoop /\ events # <<>>
    /\ events' = Tail(events)
    /\ LET e == Head(events)
       IN  IF e.id \in Living
           THEN /\ state' = [state EXCEPT ![e.id] =
                                IF e.event = "started" THEN "Running" ELSE "NotRunning"]
                /\ pid' = [pid EXCEPT ![e.id] = IF e.event = "started" THEN e.pid ELSE @]
                /\ announce(e.id)
           ELSE UNCHANGED <<state, pid>> /\ Quiet
    /\ UNCHANGED <<manager, record, desired, created, kernel, commands, client>>

Next ==
    \/ \E i \in Identifiers, r \in BOOLEAN : create(i, r)
    \/ \E f \in Frontends : start(f) \/ Delete(f) \/ LauncherReaps(f)
    \/ \E f \in Frontends : Reaped(f) \/ CrashNoticed(f) \/ Finished(f)
    \/ \E f \in Frontends, v \in Priorities : setPriority(f, v)
    \/ processFrontendDestroyed
    \/ LauncherReads
    \/ receive

Spec == Init /\ [][Next]_vars

---------------------------------------------------------------------------
(* Properties *)

\* Type correctness: pids are pids or the placeholder of their kind of backend, and
\* messages name frontends.
TypeOK ==
    /\ m_processlist \in Seq(Frontends) /\ backend_count \in 0 .. MaxCreated
    /\ dying \in Seq(Frontends) /\ ended \in Frontends \cup {None}
    /\ announced \in {NoName} \cup {name(f) : f \in Frontends}
    /\ identifier \in [Frontends -> Identifiers \cup {""}]
    /\ remote \in [Frontends -> BOOLEAN]
    /\ state \in [Frontends -> {"NotRunning", "Running"}]
    /\ \A f \in Frontends : pid[f] \in Pids \cup {IF remote[f] THEN Unknown ELSE 0}
    /\ desired \in [Frontends -> Priorities] /\ created \in [Frontends -> BOOLEAN]
    /\ proc \in [Frontends -> Pids \cup {0}]
    /\ nice \in [Frontends -> Priorities]
    /\ fate \in [Frontends -> {"set", "refused", "strayed"}]
    /\ commands \in Seq([cmd : {"start", "set"}, id : Frontends, value : Priorities])
    /\ events \in Seq([event : {"started", "finished"}, id : Frontends, pid : Pids \cup {0}])
    /\ destroyed \subseteq Frontends
    /\ asked \in [Frontends -> Priorities] /\ unsent \in [Frontends -> BOOLEAN]
    /\ starts \in 0 .. MaxStarts /\ sets \in 0 .. MaxSets

\* The list holds the frontends that have been created and not destroyed, each once and
\* in order of creation, although frontends are destroyed from slots on the
\* destruction of others (qprocessmanager.cpp:308).
ListIsLiving ==
    /\ \A i, j \in DOMAIN m_processlist : i < j => m_processlist[i] < m_processlist[j]
    /\ ToSet(m_processlist) = (1 .. backend_count) \ destroyed

\* processDestroyed, under the name of the frontend that is being deleted.
DestructionAnnounced == dying # <<>> /\ announced = name(Last(dying))

\* Each name is unique (qprocessmanager.cpp:139), and every signal under a name comes at a
\* time when processForName finds its frontend, and finds it alive, as the QML signals
\* promise (qdeclarativeprocessmanager.cpp:297): also when it is a late event of a process
\* whose frontend was deleted.  Excepted is processDestroyed, whose name is promised to be
\* of no use (line 356): there the frontend is still found, as it is being deleted.
AnnouncedCanBeFound ==
    /\ announced # NoName /\ ~DestructionAnnounced =>
          announced \in ToSet(names) /\ processForName(announced) \in Living
    /\ \A f \in Living : processForName(name(f)) = f

\* The list and the names that are announced are those of the living.
NamesHold == TypeOK /\ ListIsLiving /\ AnnouncedCanBeFound

\* processForPID (qprocessmanager.cpp:157) finds the frontend of a running local process
\* under its pid, and nothing under the pid 0.  Two cases are excepted, in which the pid
\* belonged to another process before: a remote backend claims it until the end of its own
\* has been read, and a QProcess until it emits finished, so that a process started from a
\* slot on error(Crashed) or stateChanged(NotRunning) may be taken for the one that ended.
OwnerFound ==
    /\ processForPID(0) = None
    /\ \A f \in Living : ~remote[f] /\ proc[f] # 0 =>
            LET g == processForPID(proc[f])
            IN  g # f => proc[g] # pid[g] /\ (remote[g] \/ g = ended)

\* Once the launcher has read all commands, a running process has the priority that was
\* asked for last.  Excepted are one that was asked for after start() and before the pid
\* was known, which QRemoteProcessBackend::setDesiredPriority does not send; one that the
\* kernel refused (qprocutils.cpp:432, qforklauncher.cpp:232, 416); and a process that a
\* call meant for the former owner of its pid has reached.  And once the launcher's news
\* has been read, what a client is shown is the priority of its own process, not that of
\* another one that got the pid of an earlier one.
PriorityReached ==
    \A f \in Living : proc[f] # 0 /\ (\A i \in DOMAIN commands : commands[i].id # f) =>
        /\ nice[f] = asked[f] \/ unsent[f] \/ fate[f] # "set"
        /\ (\A i \in DOMAIN events : events[i].id # f) => actualPriority(f) = nice[f]
=============================================================================
