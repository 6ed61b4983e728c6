--------------------------- MODULE RemoteBackend ---------------------------
(***************************************************************************)
(* Processes behind a launcher: the QRemoteProcessBackends of one          *)
(* QPipeProcessBackendFactory, the launchers it starts one after the       *)
(* other, and the clients that hold the backends.                          *)
(*                                                                         *)
(* Each launcher is a program that follows RemoteProtocol, and a QProcess  *)
(* of the factory.  setProcessInfo replaces the launcher, but the QProcess *)
(* of the old one stays connected to the factory's slots, which look at    *)
(* m_process and not at the sender.  Nor is m_buffer ever cleared: a part  *)
(* of a message that a former launcher left there is taken for the         *)
(* beginning of what its successor writes.                                 *)
(***************************************************************************)
EXTENDS Naturals, SequencesExt

CONSTANTS
    Ids,          \* ids of backends, each created once
    Launchers,    \* launchers that setProcessInfo starts, each once
    None,         \* NULL
    MaxStops,     \* bound: how many times clients call stop
    MaxChanges,   \* bound: how many times the memory restriction changes
    StartOnce     \* clients start a backend once

ASSUME ConstantsAssumption ==
    /\ None \notin Launchers
    /\ MaxStops \in Nat /\ MaxChanges \in Nat
    /\ StartOnce \in BOOLEAN

VARIABLES
    \* the factory
    m_process,           \* the current launcher, or None
    m_info,              \* there is a record of the launcher to run
    m_memoryRestricted,
    m_internalProcesses, \* the launchers whose pid is listed
    m_backendMap,        \* ids of the backends that exist
    m_buffer,            \* a former launcher that left a part of a message in it, or None
    destroyed,           \* the factory's destructor has run
    \* each launcher
    qproc,               \* unused, or the state of its QProcess
    launcher,            \* its program: a launcher of RemoteProtocol
    told,                \* the memory restriction it was sent last, or None
    \* each backend
    m_state,
    \* observations
    created,             \* ids handed out so far
    host,                \* the launcher that was sent the backend's start, or None
    asked,               \* ids of processes seen running and told to stop
    seen,                \* what the client received: a stage of ProcessLifecycle
    stops, changes,
    behind,              \* launchers that write behind a part of a former one's message
    crashed              \* a NULL or deleted m_process was used, or qFatal was called

factoryVars  == <<m_process, m_info, m_memoryRestricted, m_internalProcesses, m_buffer,
                  destroyed>>
launcherVars == <<qproc, launcher, told>>
backendVars  == <<m_backendMap, m_state>>
clientVars   == <<created, host, asked, seen, stops, changes, behind>>
vars == <<factoryVars, launcherVars, backendVars, clientVars, crashed>>

P == INSTANCE RemoteProtocol
Life(i) == INSTANCE ProcessLifecycle WITH stage <- seen[i]

\* A definition marked 'mutant' is a plausible bug that takes the place of the
\* one that follows it, to show that a property depends on it.

\* QRemoteProcessBackendFactory numbers its backends from 100.
NoBackends ==
    /\ m_backendMap = {} /\ created = {}
    /\ m_state = [i \in Ids |-> "NotRunning"]

Init ==
    /\ m_process = None /\ m_info = FALSE /\ m_memoryRestricted = FALSE
    /\ m_internalProcesses = {} /\ m_buffer = None /\ destroyed = FALSE
    /\ NoBackends
    /\ qproc = [l \in Launchers |-> "unused"]
    /\ launcher = [l \in Launchers |-> P!Fresh]
    /\ told = [l \in Launchers |-> None]
    /\ host = [i \in Ids |-> None] /\ asked = {}
    /\ seen = [i \in Ids |-> "fresh"]
    /\ stops = 0 /\ changes = 0 /\ behind = {} /\ crashed = FALSE

Works == ~crashed /\ ~destroyed      \* the manager and its factory are there

\* What is left of a launcher nobody looks at any more.
Dead == [P!Fresh EXCEPT !.up = FALSE]

\* The manager's program ends, and what its launchers do is out of sight.
Crash == /\ crashed' = TRUE
         /\ launcher' = [l \in Launchers |-> Dead]
         /\ UNCHANGED <<factoryVars, qproc, told, backendVars, clientVars>>

(***************************************************************************)
(* Messages to the launcher.                                               *)
(***************************************************************************)

running(q, l) == l # None /\ q[l] = "Running"

\* send: a message to a launcher that is not running is lost.
send(m) ==
    IF running(qproc, m_process)
    THEN launcher' = [launcher EXCEPT ![m_process].inbox = Append(@, m)]
    ELSE UNCHANGED launcher

\* handleMemoryRestrictionChange, once QProcess states are q.  Launchers take note
\* of the message and do nothing a property is about, so it is not queued.
tellRestricted(q, v) ==
    told' = IF running(q, m_process) THEN [told EXCEPT ![m_process] = v] ELSE told

localInternalProcesses(q, l) == IF running(q, l) THEN {l} ELSE {}

(***************************************************************************)
(* Calls of clients.                                                       *)
(***************************************************************************)

create(i) ==
    /\ Works
    /\ i \notin created
    /\ m_info /\ running(qproc, m_process)
    /\ created' = created \cup {i}
    /\ m_backendMap' = m_backendMap \cup {i}
    /\ UNCHANGED <<factoryVars, launcherVars, m_state, host, asked, seen, stops, changes, behind,
                   crashed>>

\* QProcessFrontend::start and the backend's start.
start(i) ==
    /\ Works
    /\ i \in m_backendMap /\ m_state[i] = "NotRunning"
    /\ StartOnce => host[i] = None
    /\ IF m_process = None THEN Crash
       ELSE /\ send([command |-> "start", id |-> i])
            /\ host' = [host EXCEPT ![i] =
                  IF running(qproc, m_process) THEN m_process ELSE @]
            /\ UNCHANGED <<factoryVars, qproc, told, backendVars, created, asked, seen,
                           stops, changes, behind, crashed>>

stop(i) ==
    /\ Works
    /\ i \in m_backendMap
    /\ stops < MaxStops
    /\ IF m_process = None THEN Crash
       ELSE /\ send([command |-> "stop", id |-> i])
            /\ stops' = stops + 1
            /\ asked' = IF seen[i] = "up" THEN asked \cup {i} ELSE asked
            /\ UNCHANGED <<factoryVars, qproc, told, backendVars, created, host, seen,
                           changes, behind, crashed>>

\* ~QRemoteProcessBackend, of a backend that may have outlived its factory.  The process
\* is left to its launcher.
DeleteBackend(i) ==
    /\ ~crashed
    /\ i \in m_backendMap
    /\ m_backendMap' = m_backendMap \ {i}
    /\ seen' = [seen EXCEPT ![i] = "gone"]
    /\ UNCHANGED <<factoryVars, launcherVars, m_state, created, host, asked, stops, changes,
                   behind, crashed>>

(***************************************************************************)
(* Calls of the factory's owner.                                           *)
(***************************************************************************)

setMemoryRestricted(v) ==
    /\ Works
    /\ changes < MaxChanges
    /\ m_memoryRestricted # v
    /\ IF m_process = None THEN Crash
       ELSE /\ m_memoryRestricted' = v
            /\ tellRestricted(qproc, v)
            /\ changes' = changes + 1
            /\ UNCHANGED <<m_process, m_info, m_internalProcesses, m_buffer, destroyed, qproc,
                           launcher, backendVars, created, host, asked, seen, stops, behind,
                           crashed>>

\* stopRemoteProcess: a running launcher is told to halt and forgotten; one that
\* is still starting is neither.
stopRemoteProcess == send([command |-> "halt"])
processLeft == IF running(qproc, m_process) THEN None ELSE m_process

\* What m_buffer may hold when the launcher is left, which neither setProcessInfo nor
\* pipeFinished clears: nothing, or a part of its last message, be it about a process or
\* not.  As long as a launcher is read from, the rest of each part follows, so that it is
\* not told apart from a message not yet read.
leftOver == IF m_buffer = None /\ running(qproc, m_process) THEN {None, m_process} ELSE {m_buffer}

\* A new record starts a new launcher; NULL only stops the old one.  QProcess
\* announces Starting at once, and pipeStateChanged lists the processes.
setProcessInfo(record) ==
    /\ Works
    /\ m_info \/ record
    /\ m_info' = record
    /\ stopRemoteProcess /\ m_buffer' \in leftOver
    /\ IF record
       THEN \E l \in {k \in Launchers : qproc[k] = "unused"} :
               /\ m_process' = l
               /\ qproc' = [qproc EXCEPT ![l] = "Starting"]
               /\ m_internalProcesses' = localInternalProcesses(qproc', l)
               /\ behind' = IF m_buffer' = None THEN behind ELSE behind \cup {l}
       ELSE /\ m_process' = processLeft
            /\ UNCHANGED <<qproc, m_internalProcesses, behind>>
    /\ UNCHANGED <<m_memoryRestricted, destroyed, told, backendVars, created, host, asked,
                   seen, stops, changes, crashed>>

\* ~QPipeProcessBackendFactory: the launcher is told to halt, and nobody is left who
\* would read from it.
leaveLauncher == launcher' = [l \in Launchers |-> Dead]

\* factoryDestroyed: a backend whose process was not known to have ended emits an error that
\* is part of no life cycle, and neither NotRunning nor finished.  The object lives on.
factoryDestroyed(backends) ==
    LET cut == {i \in backends : m_state[i] # "NotRunning"} IN
    /\ m_state' = [i \in Ids |-> IF i \in cut THEN "NotRunning" ELSE m_state[i]]
    /\ seen' = [i \in Ids |-> IF i \in cut THEN Life(i)!After(seen[i], "UnknownError")
                             ELSE seen[i]]

DestroyFactory ==
    /\ Works
    /\ destroyed' = TRUE
    /\ leaveLauncher
    /\ factoryDestroyed(m_backendMap)
    /\ UNCHANGED <<m_process, m_info, m_memoryRestricted, m_internalProcesses, m_buffer, qproc,
                   told, m_backendMap, created, host, asked, stops, changes, behind, crashed>>

(***************************************************************************)
(* Events of a launcher's QProcess, whichever launcher it is.              *)
(***************************************************************************)

\* stateChanged(Running), then started: pipeStateChanged, pipeStarted.
pipeStartedSilent(q) == UNCHANGED told                                  \* mutant
pipeStarted(q) == tellRestricted(q, m_memoryRestricted)

PipeRuns(l) ==
    /\ Works
    /\ qproc[l] = "Starting"
    /\ IF m_process = None THEN Crash
       ELSE /\ qproc' = [qproc EXCEPT ![l] = "Running"]
            /\ m_internalProcesses' = localInternalProcesses(qproc', m_process)
            /\ pipeStarted(qproc')
            /\ UNCHANGED <<m_process, m_info, m_memoryRestricted, m_buffer, destroyed, launcher,
                           backendVars, clientVars, crashed>>

\* stateChanged(NotRunning), error(FailedToStart): pipeError only warns.
PipeFails(l) ==
    /\ Works
    /\ qproc[l] = "Starting"
    /\ qproc' = [qproc EXCEPT ![l] = "NotRunning"]
    /\ m_internalProcesses' = localInternalProcesses(qproc', m_process)
    /\ UNCHANGED <<m_process, m_info, m_memoryRestricted, m_buffer, destroyed, launcher, told,
                   backendVars, clientVars, crashed>>

setState(i, s) ==
    m_state' = [m_state EXCEPT ![i] =
                   IF s \in {"Starting", "Running", "NotRunning"} THEN s ELSE @]

emitTwice(i, s) ==                                                      \* mutant
    seen' = [seen EXCEPT ![i] = Life(i)!After(Life(i)!After(@, s), s)]
emit(i, s) == seen' = [seen EXCEPT ![i] = Life(i)!After(@, s)]

existsRunning(i, s) == i \in m_backendMap /\ m_state[i] # "NotRunning"  \* mutant
existsUnfinished(i, s) ==                                               \* mutant
    i \in m_backendMap /\ (s = "finished" => m_state[i] # "NotRunning")
exists(i, s) == i \in m_backendMap

\* The factory's receive passes event s on to the backend of id i, if there is one.
receive(i, s) == IF exists(i, s) THEN setState(i, s) /\ emit(i, s)
                                 ELSE UNCHANGED <<m_state, seen>>

\* pipeReadyReadStandardOutput reads from m_process, whoever has something to say.
readMessage(l, i) ==
    /\ m_buffer = None
    /\ launcher' = [launcher EXCEPT ![l].out[i] = Tail(@)]
    /\ receive(i, Head(launcher[l].out[i]))
    /\ UNCHANGED m_buffer

\* Behind a part of another launcher's message, a message is taken for its rest.  What the
\* two make is no document and is passed on to nobody; it may end with this message or
\* need more.  If it ends within one, what follows does not begin like a document: qFatal.
readBehind(l, i) ==
    /\ m_buffer # None /\ m_buffer' \in {None, m_buffer}
    /\ launcher' = [launcher EXCEPT ![l].out[i] = Tail(@)]
    /\ UNCHANGED <<m_state, seen>>

PipeReadyRead(l) ==
    /\ Works
    /\ qproc[l] = "Running"
    /\ \E i \in Ids :
          /\ launcher[l].out[i] # <<>>
          /\ \/ (m_process = None \/ (m_process = l /\ m_buffer # None)) /\ Crash
             \/ /\ m_process = l
                /\ readMessage(l, i) \/ readBehind(l, i)
                /\ UNCHANGED <<m_process, m_info, m_memoryRestricted, m_internalProcesses,
                               destroyed, qproc, told, m_backendMap, created, host, asked,
                               stops, changes, behind, crashed>>

\* The launcher has exited and was read to its end.  pipeFinished deletes
\* m_process, whoever has finished; a QProcess that is deleted kills its program
\* and emits finished, whose slot deletes it again.
PipeFinished(l) ==
    /\ Works
    /\ qproc[l] = "Running" /\ ~launcher[l].up
    /\ m_process \in {l, None} => \A i \in Ids : launcher[l].out[i] = <<>>
    /\ LET q == [qproc EXCEPT ![l] = "NotRunning"]
           victim == m_process # None /\ q[m_process] \in {"Starting", "Running"}
       IN /\ qproc' = IF victim THEN [q EXCEPT ![m_process] = "NotRunning"] ELSE q
          /\ m_internalProcesses' = localInternalProcesses(qproc', m_process)
          /\ launcher' = [k \in Launchers |->
                IF k = l \/ (victim /\ k = m_process) THEN Dead ELSE launcher[k]]
          /\ told' = [told EXCEPT ![l] = None]
          /\ crashed' \in IF victim THEN BOOLEAN ELSE {FALSE}
    /\ m_process' = None /\ m_buffer' \in leftOver
    /\ UNCHANGED <<m_info, m_memoryRestricted, destroyed, backendVars, clientVars>>

\* The launcher's program, while it runs.
LauncherStep(l, successors) ==
    /\ Works /\ qproc[l] = "Running"
    /\ \E n \in successors : launcher' = [launcher EXCEPT ![l] = n]
    /\ UNCHANGED <<factoryVars, qproc, told, backendVars, clientVars, crashed>>

LauncherWorks(l) ==
    LauncherStep(l, P!Taken(launcher[l]) \cup P!Reported(launcher[l]) \cup P!Gone(launcher[l]))

PipeEvent(l) == PipeRuns(l) \/ PipeFails(l) \/ PipeReadyRead(l) \/ PipeFinished(l)

Next ==
    \/ \E i \in Ids : create(i) \/ start(i) \/ stop(i) \/ DeleteBackend(i)
    \/ \E v \in BOOLEAN : setMemoryRestricted(v) \/ setProcessInfo(v)
    \/ DestroyFactory
    \/ \E l \in Launchers : PipeEvent(l) \/ LauncherWorks(l)

\* What QProcess has to report is reported, and the launchers keep RemoteProtocol:
\* they read their commands, and what is starting or stopping gets somewhere.
Reads(l) == LauncherStep(l, P!Taken(launcher[l]))
Settles(l, i) ==
    /\ launcher[l].stage[i] = "starting" \/ i \in launcher[l].stopping
    /\ LauncherStep(l, {n \in P!Reported(launcher[l]) : n.stage[i] # launcher[l].stage[i]})

Fairness ==
    \A l \in Launchers :
       /\ WF_vars(PipeEvent(l))
       /\ WF_vars(Reads(l))
       /\ \A i \in Ids : WF_vars(Settles(l, i))

Safe == Init /\ [][Next]_vars
Spec == Safe /\ Fairness

(***************************************************************************)
(* Properties.                                                             *)
(***************************************************************************)

Stages == Life(CHOOSE i \in Ids : TRUE)!Stages \cup {"broken"}

TypeOK ==
    /\ m_process \in Launchers \cup {None} /\ m_info \in BOOLEAN
    /\ m_memoryRestricted \in BOOLEAN /\ m_internalProcesses \in SUBSET Launchers
    /\ m_backendMap \in SUBSET created /\ created \in SUBSET Ids /\ asked \in SUBSET Ids
    /\ destroyed \in BOOLEAN /\ crashed \in BOOLEAN
    /\ qproc \in [Launchers -> {"unused", "Starting", "Running", "NotRunning"}]
    /\ told \in [Launchers -> BOOLEAN \cup {None}]
    /\ \A l \in Launchers : launcher[l].stopping \in SUBSET Ids /\ launcher[l].up \in BOOLEAN
    /\ m_state \in [Ids -> {"NotRunning", "Starting", "Running"}]
    /\ host \in [Ids -> Launchers \cup {None}]
    /\ seen \in [Ids -> Stages]
    /\ stops \in 0..MaxStops /\ changes \in 0..MaxChanges
    /\ m_buffer \in Launchers \cup {None} /\ behind \in SUBSET Launchers

\* A client that starts its process once sees one life cycle of it, although the events
\* come from another program, which may end or be replaced on the way.  Two cases are
\* excepted.  A launcher that writes behind a part of a former one's message may not be
\* understood (qpipeprocessbackendfactory.cpp:222-231), and a backend that outlives its
\* factory has emitted error(UnknownError) (qremoteprocessbackend.cpp:295-302).
ImplementsLifecycle ==
    /\ \A i \in Ids : Life(i)!Init
    /\ [][\A i \in Ids : host[i] \in behind \/ destroyed' \/ [Life(i)!Next]_(seen[i])]_seen

\* Nothing a launcher reports is lost, repeated or changes its place: what the client has
\* seen, followed by what is still in the pipe, is what was reported.  Excepted is a launcher
\* that was started while m_buffer held a part of a former one's message, which nothing
\* ever clears (qpipeprocessbackendfactory.cpp:146, 258).
NothingLost ==
    \A i \in m_backendMap :
       Works /\ m_process # None /\ host[i] = m_process /\ launcher[m_process].up
             /\ m_process \notin behind =>
          Life(i)!Reached(seen[i], launcher[m_process].out[i]) = launcher[m_process].stage[i]

\* A running launcher works under the manager's memory restriction, also one that
\* was started, or was starting, when the restriction changed.
RestrictionTold ==
    running(qproc, m_process) => told[m_process] = m_memoryRestricted

\* The listed internal process is the launcher in use, exactly while it runs.
LauncherListed ==
    m_process # None /\ ~destroyed =>
       m_internalProcesses = {l \in {m_process} : qproc[l] = "Running"}

\* The launcher that was sent the start of i is gone, or not understood for what a former
\* one left in m_buffer.
Unheard(i) == m_process # host[i] \/ host[i] \in behind \/ crashed \/ destroyed

\* A start that went out is answered, unless the launcher ends, is replaced, or writes
\* behind a part of a former one's message.
StartAnswered ==
    \A i \in Ids : host[i] # None /\ seen[i] = "fresh" ~> seen[i] # "fresh" \/ Unheard(i)

\* A process seen running and told to stop ends, for its client too, with the same
\* exceptions.
StopEnds ==
    \A i \in Ids : i \in asked ~> seen[i] \in {"over", "gone"} \/ Unheard(i)

\* The manager's view of a launcher is true while it lives: of the processes, but for what
\* is still in the pipe.
ReportsArrive == TypeOK /\ NothingLost

\* And of the launcher itself: which one runs, and under which restriction.
LauncherKnown == RestrictionTold /\ LauncherListed

\* What the client asks for is done, as long as the launcher stays.
Answered == StartAnswered /\ StopEnds
=============================================================================
