----------------------------- MODULE Prelaunch -----------------------------
(***************************************************************************)
(* QPrelaunchProcessBackendFactory and its QPrelaunchProcessBackends: the  *)
(* factory keeps one process running before anyone asks for it, hands it   *)
(* to the next client that creates a process, gives it up when memory is   *)
(* restricted, and asks for idle CPU time to launch the next one.          *)
(*                                                                         *)
(* A backend here is a slot: it is free, belongs to the factory or to a    *)
(* client, or is doomed: deleteLater was called, and the event loop deletes*)
(* it before it polls again.  What happens inside one backend is the       *)
(* subject of UnixBackend; its QProcess appears here through the signals   *)
(* each of its events emits.                                               *)
(*                                                                         *)
(* Signals are emitted one by one, those of a QProcess (emitting, rest) as *)
(* well as those that start() has kept (m_queue), and clients may create,  *)
(* start and delete processes from the slots on each: also on the news that*)
(* the spare one is ready, which the factory passes on in the middle of the*)
(* signals of that process.  The factory's owner calls from the event loop.*)
(***************************************************************************)
EXTENDS Naturals, FiniteSets, Sequences

CONSTANTS
    Backends,     \* slots for backend objects
    Infos,        \* QProcessInfo records for setProcessInfo
    None,         \* NULL
    MaxClients,   \* bound: backends that clients hold at a time
    PromptStart   \* clients call start() in the handler that called create()

ASSUME ConstantsAssumption ==
    /\ None \notin Backends \cup Infos
    /\ MaxClients \in Nat
    /\ PromptStart \in BOOLEAN

VARIABLES
    \* the factory
    m_prelaunch,        \* the prelaunched backend, or None
    m_info,             \* the QProcessInfo to prelaunch with, or None
    m_prelaunchEnabled,
    m_memoryRestricted,
    idleCpuRequest,     \* what it presents to the manager: wants idle time
    internalProcesses,  \* and the backends whose pids it lists
    \* each backend
    owner,              \* free, factory, client or doomed
    wired,              \* its signals are connected to the factory's slots
    launchedWith,       \* the m_info the factory started its program with
    qstate,             \* the state of its QProcess
    m_started,          \* start() was called
    m_queue,            \* signals kept for start()
    seen,               \* what the client received: a stage of ProcessLifecycle
    \* the thread
    emitting,           \* the backend whose QProcess has more to emit, or None
    rest                \* what is still to be emitted of the event

factoryVars == <<m_prelaunch, m_info, m_prelaunchEnabled, m_memoryRestricted>>
shownVars   == <<idleCpuRequest, internalProcesses>>
backendVars == <<owner, wired, launchedWith, qstate, m_started, m_queue, seen>>
threadVars  == <<emitting, rest>>
vars        == <<factoryVars, shownVars, backendVars, threadVars>>

\* A definition marked 'mutant' is a plausible bug that takes the place of the
\* one that follows it, to show that a property depends on it.

Life == INSTANCE ProcessLifecycle WITH stage <- seen

Init ==
    /\ m_prelaunch = None /\ m_info = None
    /\ m_prelaunchEnabled = TRUE /\ m_memoryRestricted = FALSE
    /\ idleCpuRequest = FALSE /\ internalProcesses = {}
    /\ owner = [b \in Backends |-> "free"]
    /\ wired = [b \in Backends |-> FALSE]
    /\ launchedWith = [b \in Backends |-> None]
    /\ qstate = [b \in Backends |-> "NotRunning"]
    /\ m_started = [b \in Backends |-> FALSE]
    /\ m_queue = [b \in Backends |-> <<>>]
    /\ seen = [b \in Backends |-> "fresh"]
    /\ emitting = None /\ rest = <<>>

Held == {b \in Backends : owner[b] = "client"}

(***************************************************************************)
(* What the factory presents.                                              *)
(***************************************************************************)

isReady(b) == b # None /\ qstate[b] = "Running"

\* updateState, at the end of a slot or a call: every argument is a new value.
updateState(prelaunch, info, enabled, restricted, q) ==
    /\ idleCpuRequest' = (~restricted /\ enabled /\ prelaunch = None /\ info # None)
    /\ internalProcesses' =
          IF prelaunch # None /\ q[prelaunch] = "Running" THEN {prelaunch} ELSE {}

(***************************************************************************)
(* The creation of a backend, and where the thread is.                     *)
(***************************************************************************)

\* A new backend in slot b, prestarted: its program is being launched, or the
\* fork failed at once.  The factory may be connected to it; a client cannot be yet.
prestart(b, o, forked) ==
    /\ owner[b] = "free"
    /\ owner' = [owner EXCEPT ![b] = o]
    /\ wired' = [wired EXCEPT ![b] = o # "client"]
    /\ launchedWith' = [launchedWith EXCEPT ![b] = IF o = "client" THEN None ELSE m_info]
    /\ qstate' = [qstate EXCEPT ![b] = IF forked THEN "Starting" ELSE "NotRunning"]
    /\ m_started' = [m_started EXCEPT ![b] = FALSE]
    /\ m_queue' = [m_queue EXCEPT ![b] =
           IF forked THEN <<"Starting">> ELSE <<"Starting", "NotRunning", "FailedToStart">>]
    /\ seen' = [seen EXCEPT ![b] = "fresh"]

\* The slots of the signal emitted last have come back.  With PromptStart a client's
\* handler that calls create() ends with start(), and start() with its loop.
Returned == /\ \A b \in Backends : m_queue[b] = <<>> \/ ~m_started[b]
            /\ PromptStart => \A b \in Held : m_started[b]

InLoop == rest = <<>> /\ Returned

state(b) == IF m_started[b] THEN qstate[b] ELSE "NotRunning"

(***************************************************************************)
(* Calls of clients.                                                       *)
(***************************************************************************)

disconnectNever(b) == UNCHANGED wired                    \* mutant
disconnect(b) == wired' = [wired EXCEPT ![b] = FALSE]

CreateFromPrelaunch ==
    /\ m_info # None
    /\ Cardinality(Held) < MaxClients
    /\ isReady(m_prelaunch)
    /\ LET b == m_prelaunch IN
          /\ owner' = [owner EXCEPT ![b] = "client"]
          /\ disconnect(b)
          /\ launchedWith' = [launchedWith EXCEPT ![b] = None]
    /\ m_prelaunch' = None
    /\ updateState(None, m_info, m_prelaunchEnabled, m_memoryRestricted, qstate)
    /\ UNCHANGED <<m_info, m_prelaunchEnabled, m_memoryRestricted,
                   qstate, m_started, m_queue, seen, threadVars>>

CreateFromScratch ==
    /\ m_info # None
    /\ Cardinality(Held) < MaxClients
    /\ ~isReady(m_prelaunch)
    /\ \E b \in Backends, forked \in BOOLEAN : prestart(b, "client", forked)
    /\ UNCHANGED <<factoryVars, shownVars, threadVars>>

\* QProcessFrontend::start and the backend's start, whose loop then replays the
\* signals kept in m_queue; called again from a slot on one of them it does nothing.
start(b) ==
    /\ owner[b] = "client"
    /\ state(b) = "NotRunning" /\ ~m_started[b]
    /\ m_started' = [m_started EXCEPT ![b] = TRUE]
    /\ UNCHANGED <<factoryVars, shownVars, owner, wired, launchedWith, qstate,
                   m_queue, seen, threadVars>>

Replaying(b) == m_started[b] /\ m_queue[b] # <<>>

takeLast(b) ==                                           \* mutant
    /\ m_queue' = [m_queue EXCEPT ![b] = SubSeq(@, 1, Len(@) - 1)]
    /\ seen' = [seen EXCEPT ![b] = Life!After(@, m_queue[b][Len(m_queue[b])])]
takeFirst(b) ==
    /\ m_queue' = [m_queue EXCEPT ![b] = Tail(@)]
    /\ seen' = [seen EXCEPT ![b] = Life!After(@, Head(m_queue[b]))]

\* One turn of start()'s loop.  If a slot on one backend's signals starts another
\* backend, that one's loop ends first; here the two go on in any order.
Replay(b) ==
    /\ Replaying(b)
    /\ takeFirst(b)
    /\ UNCHANGED <<factoryVars, shownVars, owner, wired, launchedWith, qstate,
                   m_started, threadVars>>

\* Deleting a slot's backend kills its program.
clear(b) ==
    /\ owner' = [owner EXCEPT ![b] = "free"]
    /\ wired' = [wired EXCEPT ![b] = FALSE]
    /\ launchedWith' = [launchedWith EXCEPT ![b] = None]
    /\ qstate' = [qstate EXCEPT ![b] = "NotRunning"]
    /\ m_started' = [m_started EXCEPT ![b] = FALSE]
    /\ m_queue' = [m_queue EXCEPT ![b] = <<>>]
    /\ seen' = [seen EXCEPT ![b] = "fresh"]

\* A client deletes no process whose signals it is handling.
ClientDelete(b) ==
    /\ owner[b] = "client"
    /\ ~Replaying(b) /\ emitting # b
    /\ clear(b)
    /\ UNCHANGED <<factoryVars, shownVars, threadVars>>

(***************************************************************************)
(* Calls of the factory's owner.                                           *)
(***************************************************************************)

\* m_prelaunch->deleteLater()
doom(o) == IF m_prelaunch = None THEN o ELSE [o EXCEPT ![m_prelaunch] = "doomed"]

setPrelaunchEnabled(v) ==
    /\ InLoop /\ m_prelaunchEnabled # v
    /\ m_prelaunchEnabled' = v
    /\ updateState(m_prelaunch, m_info, v, m_memoryRestricted, qstate)
    /\ UNCHANGED <<m_prelaunch, m_info, m_memoryRestricted, backendVars, threadVars>>

\* NULL only forgets the record; a new one gives up a prelaunched process.
replacePrelaunchKeep(i) == UNCHANGED <<m_prelaunch, owner>>             \* mutant
replacePrelaunch(i) ==
    IF i = None THEN UNCHANGED <<m_prelaunch, owner>>
                ELSE m_prelaunch' = None /\ owner' = doom(owner)

setProcessInfo(i) ==
    /\ InLoop
    /\ i = None => m_info # None          \* equal pointers: nothing to do
    /\ m_info' = i
    /\ replacePrelaunch(i)
    /\ updateState(m_prelaunch', i, m_prelaunchEnabled, m_memoryRestricted, qstate)
    /\ UNCHANGED <<m_prelaunchEnabled, m_memoryRestricted, wired, launchedWith,
                   qstate, m_started, m_queue, seen, threadVars>>

\* setMemoryRestricted and handleMemoryRestrictionChange: delete, not deleteLater.
dropOnRestriction(v) ==
    IF v /\ m_prelaunch # None
    THEN m_prelaunch' = None /\ clear(m_prelaunch)
    ELSE UNCHANGED <<m_prelaunch, backendVars>>

setMemoryRestricted(v) ==
    /\ InLoop /\ m_memoryRestricted # v
    /\ m_memoryRestricted' = v
    /\ dropOnRestriction(v)
    /\ updateState(m_prelaunch', m_info, m_prelaunchEnabled, v, qstate')
    /\ UNCHANGED <<m_info, m_prelaunchEnabled, threadVars>>

(***************************************************************************)
(* Events.                                                                 *)
(***************************************************************************)

\* The manager offers idle time to a factory that has requested it.
wantsPrelaunchDisabled ==                                               \* mutant
    ~m_prelaunchEnabled /\ m_prelaunch = None /\ ~m_memoryRestricted /\ m_info # None
wantsPrelaunch ==
    m_prelaunchEnabled /\ m_prelaunch = None /\ ~m_memoryRestricted /\ m_info # None

idleCpuAvailable ==
    /\ InLoop /\ idleCpuRequest
    /\ IF wantsPrelaunch
       THEN \E b \in Backends :
               \/ /\ prestart(b, "factory", TRUE)
                  /\ m_prelaunch' = b
                  /\ UNCHANGED m_prelaunchEnabled
               \* prelaunchError runs inside prestart().
               \/ /\ prestart(b, "doomed", FALSE)
                  /\ m_prelaunchEnabled' = FALSE
                  /\ UNCHANGED m_prelaunch
       ELSE UNCHANGED <<m_prelaunch, m_prelaunchEnabled, backendVars>>
    /\ updateState(m_prelaunch', m_info, m_prelaunchEnabled', m_memoryRestricted, qstate')
    /\ UNCHANGED <<m_info, m_memoryRestricted, threadVars>>

\* A doomed backend still has an event that its process had ready in the same
\* round of the dispatcher; the idle timer fires after such events.
Alive(b) == \/ owner[b] \in {"factory", "client"}
            \/ owner[b] = "doomed" /\ m_prelaunch = None

\* The slots prelaunchError and prelaunchFinished give up m_prelaunch, whoever
\* sent the signal; a program that cannot start also disables prelaunching.
prelaunchGone(failed) ==
    /\ m_prelaunch' = None
    /\ owner' = doom(owner)
    /\ m_prelaunchEnabled' = (m_prelaunchEnabled /\ ~failed)
    /\ updateState(None, m_info, m_prelaunchEnabled', m_memoryRestricted, qstate')

States == {"Starting", "Running", "NotRunning"}

\* The factory's slots on signal s of a backend that is connected to it.
slots(b, s) ==
    \/ /\ wired[b] /\ s \in States
       /\ updateState(m_prelaunch, m_info, m_prelaunchEnabled, m_memoryRestricted, qstate')
       /\ UNCHANGED <<m_prelaunch, owner, m_prelaunchEnabled>>
    \/ /\ wired[b] /\ s \in {"FailedToStart", "Crashed", "finished"}
       /\ prelaunchGone(s = "FailedToStart")
    \/ /\ ~wired[b] \/ s = "started"
       /\ UNCHANGED <<m_prelaunch, owner, m_prelaunchEnabled, shownVars>>

\* b's QProcess emits s, and the backend: before start() it is kept, and emitted too.
emitSignal(b, s) ==
    /\ qstate' = IF s \in States THEN [qstate EXCEPT ![b] = s] ELSE qstate
    /\ m_queue' = IF m_started[b] THEN m_queue ELSE [m_queue EXCEPT ![b] = Append(@, s)]
    /\ seen' = IF owner[b] = "client" THEN [seen EXCEPT ![b] = Life!After(@, s)] ELSE seen
    /\ slots(b, s)
    /\ UNCHANGED <<m_info, m_memoryRestricted, wired, launchedWith, m_started>>

\* An event of b's QProcess in state q: it emits s, and then the signals 'more'.
Event(b, q, s, more) ==
    /\ InLoop /\ Alive(b) /\ qstate[b] = q
    /\ emitSignal(b, s)
    /\ emitting' = b /\ rest' = more

ProgramRuns(b) == Event(b, "Starting", "Running", <<"started">>)
ProgramFails(b) == Event(b, "Starting", "NotRunning", <<"FailedToStart">>)
ProgramEnds(b) == Event(b, "Running", "NotRunning", <<"finished">>)
ProgramCrashes(b) == Event(b, "Running", "Crashed", <<"NotRunning", "finished">>)

\* The next signal of the event, after the slots on the one before.
EmitNext ==
    /\ rest # <<>> /\ Returned
    /\ emitSignal(emitting, Head(rest))
    /\ rest' = Tail(rest)
    /\ emitting' = IF rest' = <<>> THEN None ELSE emitting

DeferredDelete(b) ==
    /\ InLoop /\ owner[b] = "doomed"
    /\ clear(b)
    /\ UNCHANGED <<factoryVars, shownVars, threadVars>>

Next ==
    \/ CreateFromPrelaunch \/ CreateFromScratch
    \/ \E b \in Backends : \/ start(b) \/ Replay(b) \/ ClientDelete(b)
                           \/ ProgramRuns(b) \/ ProgramFails(b)
                           \/ ProgramEnds(b) \/ ProgramCrashes(b)
                           \/ DeferredDelete(b)
    \/ EmitNext
    \/ \E v \in BOOLEAN : setPrelaunchEnabled(v) \/ setMemoryRestricted(v)
    \/ \E i \in Infos \cup {None} : setProcessInfo(i)
    \/ idleCpuAvailable

\* Handlers come back, however many processes they create and delete (EmitNext is
\* not enabled while a new one is unstarted), start()'s loop comes to its end, and a
\* handler that has to call start() gets there.  The event loop is entered again after
\* every handler, so the idle timer fires even if handlers keep running, and it carries
\* out deferred deletes.  Nothing else makes a client call, or a program run or end.
Fairness == /\ SF_vars(idleCpuAvailable) /\ SF_vars(EmitNext)
            /\ \A b \in Backends : /\ SF_vars(DeferredDelete(b)) /\ WF_vars(Replay(b))
                                   /\ PromptStart => WF_vars(start(b))

Spec == Init /\ [][Next]_vars /\ Fairness

(***************************************************************************)
(* Properties.                                                             *)
(***************************************************************************)

TypeOK ==
    /\ m_prelaunch \in Backends \cup {None} /\ m_info \in Infos \cup {None}
    /\ m_prelaunchEnabled \in BOOLEAN /\ m_memoryRestricted \in BOOLEAN
    /\ idleCpuRequest \in BOOLEAN /\ internalProcesses \in SUBSET Backends
    /\ owner \in [Backends -> {"free", "factory", "client", "doomed"}]
    /\ wired \in [Backends -> BOOLEAN]
    /\ launchedWith \in [Backends -> Infos \cup {None}]
    /\ qstate \in [Backends -> {"NotRunning", "Starting", "Running"}]
    /\ m_started \in [Backends -> BOOLEAN]
    /\ m_queue \in [Backends -> Seq(Life!Signals)]
    /\ seen \in [Backends -> Life!Stages \cup {"broken"}]
    /\ emitting \in Backends \cup {None} /\ rest \in Seq(Life!Signals)

\* Memory restriction and a prelaunched process exclude each other: the
\* assertion in updateState can never fail.
RestrictionHolds == m_memoryRestricted => m_prelaunch = None

\* Between calls the manager sees the truth: idle time is requested exactly when
\* a process is missing and allowed, and the listed process is the ready one.
PresentedState ==
    /\ idleCpuRequest = wantsPrelaunch
    /\ internalProcesses = {b \in Backends : b = m_prelaunch /\ qstate[b] = "Running"}

\* The factory owns one process at most, and never forgets one it owns.
OneSpare == {b \in Backends : owner[b] = "factory"} = {m_prelaunch} \ {None}

\* A client that creates a process is never handed one that was launched with a
\* record the factory no longer uses.
LaunchedWithCurrentInfo ==
    m_prelaunch # None /\ m_info # None => launchedWith[m_prelaunch] = m_info

\* Once handed over, a process is the client's business: none of its signals, not even
\* the rest of an event during whose signals it was handed over, changes anything in the
\* factory; in particular its failure or end neither drops the factory's next process
\* nor disables prelaunching.
HandedOverForGood ==
    [][\A b \in Backends :
          owner[b] = "client" /\ rest' # rest /\ b \in {emitting, emitting'}
             => UNCHANGED <<factoryVars, shownVars>>]_vars

\* A request for idle time leads to a prelaunched process unless it is withdrawn.
RequestServed == idleCpuRequest ~> (m_prelaunch # None \/ ~idleCpuRequest)

\* A client receives the signals of its process as one life cycle, although part of it
\* happened before start() and was kept for it, or is still being emitted when start()
\* replays what came before.
ClientSeesLifecycle == \A b \in Held : seen[b] # "broken"

\* The stage reached when sigs arrive at stage g, one after the other.
AfterAll(g, sigs) ==
    LET after[n \in 0 .. Len(sigs)] == IF n = 0 THEN g ELSE Life!After(after[n - 1], sigs[n])
    IN  after[Len(sigs)]

\* After start() the state of a client's process is the one it was told of; in the slots
\* on the signals that start() replays it is the one that the last of them will tell.
StateAgrees ==
    \A b \in Held : m_started[b] => state(b) = Life!StateAt(AfterAll(seen[b], m_queue[b]))

\* The spare is the right one at every moment, and the manager is told the truth of it: one
\* at most and never forgotten, launched with the record in use, none under memory
\* restriction, listed once it is ready, and asked for as long as it is missing.
SpareIsRight == OneSpare /\ LaunchedWithCurrentInfo /\ RestrictionHolds /\ PresentedState

\* A client that starts its process in the handler that created it cannot tell from the
\* signals that it ran before: they are one life cycle, whatever it does in the slots on
\* them.  state() is the one they announced, but while start() replays them it is ahead.
ClientSeesProcess == TypeOK /\ ClientSeesLifecycle /\ StateAgrees
=============================================================================
