---------------------------- MODULE UnixBackend ----------------------------
(***************************************************************************)
(* One process on its way through QProcessFrontend, QStandardProcessBackend*)
(* and QUnixProcessBackend: start, stop with its kill timer, priorities    *)
(* and the signals the client receives.                                    *)
(*                                                                         *)
(* QProcess emits its signals synchronously, one after the other, and the  *)
(* client's slots run inside each emission and may call the frontend from  *)
(* there.  'pc' is the point of such a sequence that the manager's thread  *)
(* has reached; a further event (start-up notification, child death, kill  *)
(* timer) is only dispatched when it is back in the event loop.            *)
(***************************************************************************)
EXTENDS Naturals

CONSTANTS
    Priorities,    \* nice values a client asks for
    Default,       \* QProcessInfo::priority() when the key is absent: 0
    MaxStops       \* bound: how many times a client calls stop

ASSUME ConstantsAssumption ==
    /\ Default \in Priorities
    /\ MaxStops \in Nat

VARIABLES
    \* the operating system's child process
    os,         \* none, forked (before exec), live, zombie, reaped
    execFailed, \* exec failed, and the start-up pipe says so
    dying,      \* a signal that will kill it has been sent
    stubborn,   \* the program ignores SIGTERM
    killed,     \* it died of a signal
    nice,       \* its priority
    \* QProcess, which the backend owns
    qstate,     \* NotRunning, Starting, Running
    pid,        \* QProcess::pid() is the child's, and not 0
    pc,         \* loop, the emission whose slots are running, or aborted
    \* QUnixProcessBackend
    created,    \* m_process is not NULL
    timer,      \* m_killTimer is active
    explicit,   \* m_info contains a priority
    desired,    \* m_info.priority()
    deleted,    \* the backend's destructor has run
    \* observations
    seen,       \* the client's view of the life cycle
    stops,      \* calls of stop so far
    stoppedIn,  \* QProcess state at the latest stop that signalled the child
    selfNice,   \* the priority of the process manager itself
    selfSignal, \* a signal was sent to the manager's own process group
    strayed,    \* what went to the number of a reaped child, and in which slots
    refused     \* the kernel refused the child the priority asked for last

osVars   == <<os, execFailed, dying, stubborn, killed, nice>>
qVars    == <<qstate, pid, pc>>
backVars == <<created, timer, explicit, desired, deleted>>
obsVars  == <<seen, stops, stoppedIn, selfNice, selfSignal, strayed, refused>>
vars     == <<osVars, qVars, backVars, obsVars>>

Lifecycle == INSTANCE ProcessLifecycle WITH stage <- seen

Emit(s) == seen' = Lifecycle!After(seen, s)

Init ==
    /\ os = "none" /\ execFailed = FALSE /\ dying = FALSE
    /\ stubborn = FALSE /\ killed = FALSE /\ nice = Default
    /\ qstate = "NotRunning" /\ pid = FALSE /\ pc = "loop"
    /\ created = FALSE /\ timer = FALSE /\ deleted = FALSE
    /\ explicit \in BOOLEAN
    /\ desired \in IF explicit THEN Priorities ELSE {Default}
    /\ seen = "fresh" /\ stops = 0 /\ stoppedIn = "none"
    /\ selfNice = Default /\ selfSignal = FALSE
    /\ strayed = {} /\ refused = FALSE

(***************************************************************************)
(* Calls of the client, from the event loop or from a slot.  A definition  *)
(* marked 'mutant' is a plausible bug that takes the place of the one that *)
(* follows it, to show that a property depends on it.                      *)
(***************************************************************************)

CanCall == ~deleted /\ pc # "aborted"

stateByPid == IF pid THEN qstate ELSE "NotRunning"      \* mutant
state == IF created THEN qstate ELSE "NotRunning"

handleProcessStateChangedTimerKept(s) == qstate' = s /\ UNCHANGED timer /\ Emit(s) \* mutant
\* QUnixProcessBackend::handleProcessStateChanged runs before the signal.
handleProcessStateChanged(s) ==
    /\ qstate' = s
    /\ timer' = FALSE
    /\ Emit(s)

\* m_process becomes a fresh QProcess; a second one is refused.
createProcessAgain == TRUE                              \* mutant
createProcess == ~created

\* QProcess::start announces Starting before it forks, so pid() is still 0.
Start ==
    /\ CanCall
    /\ state = "NotRunning"
    /\ IF createProcess
       THEN /\ created' = TRUE
            /\ handleProcessStateChanged("Starting")
            /\ pc' = "starting"
       ELSE UNCHANGED <<created, qstate, timer, seen, pc>>
    /\ UNCHANGED <<osVars, pid, explicit, desired, deleted,
                   stops, stoppedIn, selfNice, selfSignal, strayed, refused>>

Alive == os \in {"forked", "live"}

\* The number of a reaped child may be another process's, or another group's.
Stray(what) == strayed' = IF os = "reaped" THEN strayed \cup {<<what, pc>>} ELSE strayed

\* getpgid(0) is the caller's own group, and kill(0, sig) signals all of it.
sendSignalToProcess(sig) ==
    IF pid
    THEN /\ dying' = (dying \/ (Alive /\ (sig = "KILL" \/ ~stubborn)))
         /\ Stray("signal")
         /\ UNCHANGED selfSignal
    ELSE /\ selfSignal' = TRUE
         /\ UNCHANGED <<dying, strayed>>

StoppableAlways == TRUE                                 \* mutant
Stoppable == qstate # "NotRunning"

armKillTimerNever(timeout) == UNCHANGED timer           \* mutant
armKillTimer(timeout) == timer' = (timer \/ timeout > 0)

Stop(timeout) ==
    /\ CanCall /\ created
    /\ stops < MaxStops
    /\ stops' = stops + 1
    /\ IF Stoppable
       THEN /\ sendSignalToProcess(IF timeout > 0 THEN "TERM" ELSE "KILL")
            /\ armKillTimer(timeout)
            /\ stoppedIn' = IF pid THEN qstate ELSE stoppedIn
       ELSE UNCHANGED <<dying, selfSignal, strayed, timer, stoppedIn>>
    /\ UNCHANGED <<os, execFailed, stubborn, killed, nice, qVars, created,
                   explicit, desired, deleted, seen, selfNice, refused>>

\* Q_ASSERT(m_process) at the head of QUnixProcessBackend::stop.
StopAsserts ==
    /\ CanCall /\ ~created
    /\ pc' = "aborted"
    /\ UNCHANGED <<osVars, qstate, pid, backVars, obsVars>>

\* setpriority(PRIO_PROCESS, 0, p) is the caller's own priority.  The kernel may
\* refuse, as it does whoever lowers a nice value without the right to; that
\* leaves no more than a warning.
setPriorityOfPid(p) ==
    \/ /\ ~pid
       /\ selfNice' \in {selfNice, p}
       /\ UNCHANGED <<nice, strayed, refused>>
    \/ /\ pid /\ os # "reaped"
       /\ \/ nice' = p /\ refused' = FALSE
          \/ refused' = TRUE /\ UNCHANGED nice
       /\ UNCHANGED <<selfNice, strayed>>
    \/ /\ pid /\ os = "reaped"
       /\ Stray("priority")
       /\ UNCHANGED <<nice, selfNice, refused>>

SetPriority(p) ==
    /\ CanCall
    /\ p # desired
    /\ desired' = p
    /\ explicit' = TRUE
    /\ IF created THEN setPriorityOfPid(p)
       ELSE UNCHANGED <<nice, selfNice, strayed, refused>>
    /\ UNCHANGED <<os, execFailed, dying, stubborn, killed, qVars, created,
                   timer, deleted, seen, stops, stoppedIn, selfSignal>>

\* ~QUnixProcessBackend, then the kill timer and the QProcess it owns.
killInDestructor == created /\ qstate # "NotRunning"

Delete ==
    /\ ~deleted /\ pc = "loop"
    /\ deleted' = TRUE
    /\ timer' = FALSE
    /\ IF killInDestructor
       THEN sendSignalToProcess("KILL")
       ELSE UNCHANGED <<dying, selfSignal, strayed>>
    /\ seen' = "gone"
    /\ UNCHANGED <<os, execFailed, stubborn, killed, nice, qVars, created,
                   explicit, desired, stops, stoppedIn, selfNice, refused>>

(***************************************************************************)
(* The operating system.                                                   *)
(***************************************************************************)

\* fork() in QProcess::start.  The child inherits the manager's priority.
Fork ==
    /\ pc = "starting"
    /\ os' = "forked" /\ nice' = selfNice
    /\ pid' = TRUE /\ pc' = "loop"
    /\ UNCHANGED <<execFailed, dying, stubborn, killed, qstate, backVars, obsVars>>

\* fork() fails: NotRunning is announced at once, inside start().
ForkFails ==
    /\ pc = "starting"
    /\ qstate' = "NotRunning" /\ pc' = "failing"
    /\ timer' = FALSE
    /\ Emit("NotRunning")
    /\ UNCHANGED <<osVars, pid, created, explicit, desired, deleted,
                   stops, stoppedIn, selfNice, selfSignal, strayed, refused>>

Exec ==
    /\ os = "forked" /\ ~dying
    /\ \/ os' = "live" /\ UNCHANGED execFailed
       \/ os' = "zombie" /\ execFailed' = TRUE
    /\ UNCHANGED <<dying, stubborn, killed, nice, qVars, backVars, obsVars>>

IgnoreSigTerm ==
    /\ os = "live" /\ ~dying /\ ~stubborn
    /\ stubborn' = TRUE
    /\ UNCHANGED <<os, execFailed, dying, killed, nice, qVars, backVars, obsVars>>

Exit ==
    /\ os = "live" /\ ~dying
    /\ os' = "zombie"
    /\ UNCHANGED <<execFailed, dying, stubborn, killed, nice, qVars, backVars, obsVars>>

Killed ==
    /\ Alive /\ dying
    /\ os' = "zombie" /\ killed' = TRUE
    /\ UNCHANGED <<execFailed, dying, stubborn, nice, qVars, backVars, obsVars>>

(***************************************************************************)
(* Events QProcess and the timer deliver from the event loop, and the      *)
(* backend's handlers for them.                                            *)
(***************************************************************************)

InLoop == pc = "loop" /\ ~deleted

StartupNotification ==
    /\ InLoop /\ qstate = "Starting" /\ os \in {"live", "zombie"}
    /\ IF execFailed
       THEN handleProcessStateChanged("NotRunning") /\ pc' = "failing"
       ELSE handleProcessStateChanged("Running") /\ pc' = "running"
    /\ UNCHANGED <<osVars, pid, created, explicit, desired, deleted,
                   stops, stoppedIn, selfNice, selfSignal, strayed, refused>>

applyPriorityNever == UNCHANGED <<nice, selfNice, strayed, refused>> \* mutant
applyPriority ==
    IF explicit THEN setPriorityOfPid(desired)
    ELSE UNCHANGED <<nice, selfNice, strayed, refused>>

\* handleProcessStarted applies the priority of the info and emits started.
handleProcessStarted ==
    /\ pc = "running"
    /\ pc' = "loop"
    /\ Emit("started")
    /\ applyPriority
    /\ UNCHANGED <<os, execFailed, dying, stubborn, killed, qstate, pid,
                   backVars, stops, stoppedIn, selfSignal>>

handleStartFailure ==
    /\ pc = "failing"
    /\ pc' = "failed"
    /\ Emit("FailedToStart")
    /\ UNCHANGED <<osVars, qstate, pid, backVars, stops, stoppedIn,
                   selfNice, selfSignal, strayed, refused>>

CleanupAfterFailure ==
    /\ pc = "failed"
    /\ pc' = "loop"
    /\ pid' = FALSE
    /\ os' = IF os = "zombie" THEN "reaped" ELSE os
    /\ UNCHANGED <<execFailed, dying, stubborn, killed, nice, qstate,
                   backVars, obsVars>>

\* The child has died: QProcess reaps it and announces a crash first.
ChildDied ==
    /\ InLoop /\ qstate = "Running" /\ os = "zombie"
    /\ os' = "reaped"
    /\ IF killed
       THEN Emit("Crashed") /\ pc' = "crashed" /\ UNCHANGED <<qstate, timer>>
       ELSE handleProcessStateChanged("NotRunning") /\ pc' = "down"
    /\ UNCHANGED <<execFailed, dying, stubborn, killed, nice, pid, created,
                   explicit, desired, deleted, stops, stoppedIn, selfNice, selfSignal,
                   strayed, refused>>

handleCrash ==
    /\ pc = "crashed"
    /\ handleProcessStateChanged("NotRunning")
    /\ pc' = "down"
    /\ UNCHANGED <<osVars, pid, created, explicit, desired, deleted,
                   stops, stoppedIn, selfNice, selfSignal, strayed, refused>>

handleProcessFinished ==
    /\ pc = "down"
    /\ pc' = "loop"
    /\ pid' = FALSE
    /\ timer' = FALSE
    /\ Emit("finished")
    /\ UNCHANGED <<osVars, qstate, created, explicit, desired, deleted,
                   stops, stoppedIn, selfNice, selfSignal, strayed, refused>>

\* QTimer repeats, so the timer stays active.
killTimeout ==
    /\ InLoop /\ timer
    /\ created /\ qstate = "Running"
    /\ dying' = (dying \/ Alive)
    /\ Stray("signal")
    /\ UNCHANGED <<os, execFailed, stubborn, killed, nice, qVars, backVars, seen, stops,
                   stoppedIn, selfNice, selfSignal, refused>>

(***************************************************************************)
(* Specification.                                                          *)
(***************************************************************************)

Client == \/ Start
          \/ \E t \in {0, 1} : Stop(t)
          \/ StopAsserts
          \/ \E p \in Priorities : SetPriority(p)
          \/ Delete

Dispatch == \/ Fork \/ ForkFails
            \/ StartupNotification \/ handleProcessStarted
            \/ handleStartFailure \/ CleanupAfterFailure
            \/ ChildDied \/ handleCrash \/ handleProcessFinished

Next == Client \/ Dispatch \/ killTimeout
        \/ Exec \/ IgnoreSigTerm \/ Exit \/ Killed

\* The event loop dispatches what is pending and unwinds every emission, the
\* timer fires, and the kernel runs exec and delivers fatal signals.  Nothing
\* makes a client call or a program exit.
Fairness == /\ WF_vars(Dispatch)
            /\ WF_vars(killTimeout)
            /\ WF_vars(Exec) /\ WF_vars(Killed)

Safe == Init /\ [][Next]_vars
Spec == Safe /\ Fairness

(***************************************************************************)
(* Properties.                                                             *)
(***************************************************************************)

TypeOK ==
    /\ os \in {"none", "forked", "live", "zombie", "reaped"}
    /\ execFailed \in BOOLEAN /\ dying \in BOOLEAN
    /\ stubborn \in BOOLEAN /\ killed \in BOOLEAN
    /\ nice \in Priorities /\ desired \in Priorities /\ selfNice \in Priorities
    /\ qstate \in {"NotRunning", "Starting", "Running"}
    /\ pid \in BOOLEAN
    /\ pc \in {"loop", "starting", "running", "failing", "failed", "crashed", "down",
              "aborted"}
    /\ created \in BOOLEAN /\ timer \in BOOLEAN
    /\ explicit \in BOOLEAN /\ deleted \in BOOLEAN
    /\ seen \in Lifecycle!Stages
    /\ stops \in 0 .. MaxStops
    /\ stoppedIn \in {"none", "Starting", "Running"}
    /\ selfSignal \in BOOLEAN /\ refused \in BOOLEAN

\* Whatever the client calls from its slots, and whenever the program exits or
\* is killed, the signals it receives form one complete life cycle: in order,
\* none twice, none after finished, and every start answered.
ImplementsLifecycle == Lifecycle!Spec

\* Inside every slot and between events, state() is the state that the signals
\* received so far have announced.
StateAgrees == ~deleted => state = Lifecycle!StateAt(seen)

\* The kill timer never outlives its process: while it is active there is a
\* process to kill, and when it can fire that process has not been reaped (its
\* number may be another process's by then).
KillTimerHasTarget ==
    timer => /\ ~deleted /\ qstate # "NotRunning"
             /\ pc = "loop" => pid /\ os \notin {"none", "reaped"}

\* No signal goes to the process group of the manager itself, except from a
\* stop in a slot on stateChanged(Starting), when pid() is still 0: elsewhere a
\* state other than NotRunning means that there is a pid.
OwnGroupSpared == [][pc # "starting" => UNCHANGED selfSignal]_vars

\* From started on, the child runs at the priority its client asked for last,
\* whether that was before start, while it was starting or later, unless the
\* kernel has refused it that priority: what was asked for while there was no
\* child, or refused while it was starting, is asked of the kernel at started.
PriorityInForce == (seen = "up" /\ explicit /\ ~refused) => nice = desired

\* The only calls that reach for a child that has been reaped, and whose number
\* may be another process's, are made from slots on error(Crashed), where QProcess
\* is still Running, and, for a priority, from those on the change to NotRunning:
\* pid() is the child's until QProcess has cleaned up.  Nothing the backend does of
\* itself, its destructor and its kill timer included, and no call from elsewhere.
StraysInSlots ==
    strayed \subseteq {<<"signal", "crashed">>, <<"priority", "crashed">>, <<"priority", "down">>}

\* No child survives its backend: the destructor has killed it.
NoSurvivor == deleted => ~Alive \/ dying

\* A stop that finds the process running ends it, whatever the program does
\* with SIGTERM.
StopEndsRunning == stoppedIn = "Running" ~> ~Alive


(***************************************************************************)
(* The inductive invariant: where the operating system, QProcess and the   *)
(* client's view are at each point of the manager's thread.                *)
(***************************************************************************)

At(c, q, p, g, kids) ==
    created /\ pc = c /\ qstate = q /\ pid = p /\ seen = g /\ os \in kids

Unstarted == /\ ~created /\ pc \in {"loop", "aborted"} /\ qstate = "NotRunning"
             /\ ~pid /\ seen = "fresh" /\ os = "none"

\* QProcess, its child and the signals sent move together: in particular pid()
\* is 0 in a started process only inside the slots on Starting.
Coherent ==
    \/ ~deleted /\
        \/ Unstarted
        \/ At("starting", "Starting", FALSE, "starting", {"none"})
        \/ At("loop", "Starting", TRUE, "starting", {"forked", "live", "zombie"})
        \/ At("running", "Running", TRUE, "running", {"live", "zombie"})
        \/ At("loop", "Running", TRUE, "up", {"live", "zombie"})
        \/ At("crashed", "Running", TRUE, "crashed", {"reaped"})
        \/ At("down", "NotRunning", TRUE, "down", {"reaped"})
        \/ At("loop", "NotRunning", FALSE, "over", {"reaped"})
        \/ At("failing", "NotRunning", FALSE, "failing", {"none"})
        \/ At("failing", "NotRunning", TRUE, "failing", {"zombie"})
        \/ At("failed", "NotRunning", FALSE, "failed", {"none"})
        \/ At("failed", "NotRunning", TRUE, "failed", {"zombie"})
        \/ At("loop", "NotRunning", FALSE, "failed", {"none", "reaped"})
    \/ deleted /\ pc = "loop" /\ seen = "gone"

TimerBounded == timer => ~deleted /\ qstate # "NotRunning"

ExecFailureIsDeath == execFailed => os \in {"zombie", "reaped"}

IInv == Coherent /\ TimerBounded /\ ExecFailureIsDeath /\ NoSurvivor /\ PriorityInForce

\* The system's process, QProcess, the thread's position and what the client was told fit
\* together: one of the combinations in Coherent, state() the one announced last, in
\* every slot and between events.
Consistent == TypeOK /\ Coherent /\ StateAgrees

\* The backend kills its own child and no other: an active kill timer has, when it can fire,
\* a child that has not been reaped, the destructor leaves none behind, and what clients
\* call reaches no stranger, except from the slots of StraysInSlots.
ChildAccounted == KillTimerHasTarget /\ NoSurvivor /\ StraysInSlots
=============================================================================
