------------------------- MODULE UnixBackendProofs -------------------------
(***************************************************************************)
(* Proofs about UnixBackend for every set of priorities, every number of   *)
(* stops and every client, whether or not it calls stop at the wrong time, *)
(* and about DataPath for all bytes, capacities and ways.                  *)
(***************************************************************************)
EXTENDS UnixBackend, DataPath, SequenceTheorems, TLAPS

\* The stage each signal of a life cycle leads to.
LEMMA AfterSteps ==
    /\ Lifecycle!After("fresh", "Starting") = "starting"
    /\ Lifecycle!After("starting", "Running") = "running"
    /\ Lifecycle!After("running", "started") = "up"
    /\ Lifecycle!After("up", "Crashed") = "crashed"
    /\ Lifecycle!After("up", "NotRunning") = "down"
    /\ Lifecycle!After("crashed", "NotRunning") = "down"
    /\ Lifecycle!After("down", "finished") = "over"
    /\ Lifecycle!After("starting", "NotRunning") = "failing"
    /\ Lifecycle!After("failing", "FailedToStart") = "failed"
  BY DEF Lifecycle!After

(***************************************************************************)
(* The initial states.                                                     *)
(***************************************************************************)

\* The initial state is of the right type.
LEMMA InitType == Init => TypeOK
<1> SUFFICES ASSUME Init PROVE TypeOK
  OBVIOUS
<1>1. desired \in Priorities /\ stops \in 0 .. MaxStops
  BY ConstantsAssumption DEF Init
<1>2. seen \in Lifecycle!Stages
  BY DEF Init, Lifecycle!Stages
<1>3. nice \in Priorities /\ selfNice \in Priorities
  BY ConstantsAssumption DEF Init
<1>4. QED
  BY <1>1, <1>2, <1>3, Zenon DEF Init, TypeOK

\* The initial state has no process.
LEMMA InitInv == Init => IInv
<1>1. Init => Coherent
  BY DEF Init, Coherent, Unstarted
<1>2. Init => TimerBounded /\ ExecFailureIsDeath /\ NoSurvivor /\ PriorityInForce
  BY DEF Init, TimerBounded, ExecFailureIsDeath, NoSurvivor, PriorityInForce, Alive
<1>3. QED
  BY <1>1, <1>2 DEF IInv

(***************************************************************************)
(* Calls of the client.                                                    *)
(***************************************************************************)

\* start().
LEMMA StartStep == TypeOK /\ IInv /\ Start => TypeOK' /\ IInv'
<1> SUFFICES ASSUME TypeOK, IInv, Start PROVE TypeOK' /\ IInv'
  OBVIOUS
<1> USE DEF Start, state, createProcess, handleProcessStateChanged, Emit
<1>1. CASE created
  <2>1. UNCHANGED <<osVars, backVars, qVars, obsVars>>
    BY <1>1 DEF qVars, backVars, obsVars
  <2>2. TypeOK'
    BY <2>1 DEF TypeOK, osVars, backVars, qVars, obsVars
  <2>3. QED
    BY <2>1, <2>2 DEF IInv, Coherent, Unstarted, At, TimerBounded, ExecFailureIsDeath, NoSurvivor,
       Alive, PriorityInForce, osVars, backVars, qVars, obsVars
<1>2. CASE ~created
  <2>1. Unstarted /\ ~deleted
    BY <1>2 DEF IInv, Coherent, At, CanCall
  <2>2. seen' = "starting" /\ timer' = FALSE /\ created' /\ pc' = "starting"
    BY <1>2, <2>1, AfterSteps DEF Unstarted
  <2>3. qstate' = "Starting" /\ seen' \in Lifecycle!Stages
    BY <1>2, <2>2 DEF Lifecycle!Stages
  <2>4. TypeOK'
    <3>1. UNCHANGED <<osVars, pid, explicit, desired, deleted, stops, stoppedIn, selfNice,
                      selfSignal, strayed, refused>>
      OBVIOUS
    <3>2. created' \in BOOLEAN /\ timer' \in BOOLEAN
      BY <2>2
    <3> HIDE DEF Start, state, createProcess, handleProcessStateChanged, Emit
    <3>3. QED
      BY <2>2, <2>3, <3>1, <3>2 DEF TypeOK, osVars
  <2>5. QED
    BY <1>2, <2>1, <2>2, <2>4 DEF IInv, Coherent, Unstarted, At, TimerBounded, ExecFailureIsDeath,
       NoSurvivor, PriorityInForce, osVars
<1>3. QED
  BY <1>1, <1>2

\* stop(), with its kill timer.
LEMMA StopStep ==
    ASSUME NEW t \in {0, 1}, TypeOK, IInv, Stop(t)
    PROVE  TypeOK' /\ IInv'
<1> USE DEF Stop, qVars
<1>1. TypeOK'
  <2>1. stops' \in 0 .. MaxStops
    BY ConstantsAssumption DEF TypeOK
  <2>2. dying' \in BOOLEAN /\ selfSignal' \in BOOLEAN
    BY DEF TypeOK, sendSignalToProcess
  <2>3. timer' \in BOOLEAN
    BY DEF TypeOK, armKillTimer
  <2>4. stoppedIn' \in {"none", "Starting", "Running"}
    BY DEF TypeOK, Stoppable
  <2>5. QED
    BY <2>1, <2>2, <2>3, <2>4 DEF TypeOK
<1>2. Coherent'
  BY DEF IInv, Coherent, Unstarted, At
<1>3. TimerBounded'
  BY DEF IInv, TimerBounded, Stoppable, armKillTimer, CanCall
<1>4. ExecFailureIsDeath' /\ NoSurvivor' /\ PriorityInForce'
  BY DEF IInv, ExecFailureIsDeath, NoSurvivor, PriorityInForce, Alive, CanCall
<1>5. QED
  BY <1>1, <1>2, <1>3, <1>4 DEF IInv

\* stop() before start(), which meets an assertion.
LEMMA StopAssertsStep == TypeOK /\ IInv /\ StopAsserts => TypeOK' /\ IInv'
<1> SUFFICES ASSUME TypeOK, IInv, StopAsserts PROVE TypeOK' /\ IInv'
  OBVIOUS
<1> USE DEF StopAsserts, osVars, backVars, obsVars
<1>1. TypeOK'
  BY DEF TypeOK
<1>2. Coherent'
  BY DEF IInv, Coherent, Unstarted, At, CanCall
<1>3. TimerBounded' /\ ExecFailureIsDeath' /\ NoSurvivor' /\ PriorityInForce'
  BY DEF IInv, TimerBounded, ExecFailureIsDeath, NoSurvivor, Alive, PriorityInForce
<1>4. QED
  BY <1>1, <1>2, <1>3 DEF IInv

\* setDesiredPriority().
LEMMA SetPriorityStep ==
    ASSUME NEW p \in Priorities, TypeOK, IInv, SetPriority(p)
    PROVE  TypeOK' /\ IInv'
<1> USE DEF SetPriority, qVars
<1>1. nice' \in Priorities /\ selfNice' \in Priorities /\ refused' \in BOOLEAN
  BY DEF TypeOK, setPriorityOfPid
<1>2. TypeOK'
  BY <1>1 DEF TypeOK
<1>3. Coherent'
  BY DEF IInv, Coherent, Unstarted, At
<1>4. TimerBounded' /\ ExecFailureIsDeath' /\ NoSurvivor'
  BY DEF IInv, TimerBounded, ExecFailureIsDeath, NoSurvivor, Alive
<1>5. PriorityInForce'
  <2>1. seen = "up" => created /\ pid /\ os # "reaped"
    BY DEF IInv, Coherent, Unstarted, At
  <2>2. seen' = seen /\ desired' = p
    OBVIOUS
  <2>3. CASE seen = "up"
    <3>1. setPriorityOfPid(p)
      BY <2>1, <2>3
    <3>2. nice' = p \/ refused' = TRUE
      BY <2>1, <2>3, <3>1 DEF setPriorityOfPid
    <3>3. QED
      BY <2>2, <3>2 DEF PriorityInForce
  <2>4. QED
    BY <2>2, <2>3 DEF PriorityInForce
<1>6. QED
  BY <1>2, <1>3, <1>4, <1>5 DEF IInv

\* The backend is deleted.
LEMMA DeleteStep == TypeOK /\ IInv /\ Delete => TypeOK' /\ IInv'
<1> SUFFICES ASSUME TypeOK, IInv, Delete PROVE TypeOK' /\ IInv'
  OBVIOUS
<1> USE DEF Delete, killInDestructor, sendSignalToProcess, qVars
<1>1. TypeOK'
  <2>1. seen' \in Lifecycle!Stages
    BY DEF Lifecycle!Stages
  <2>2. dying' \in BOOLEAN /\ selfSignal' \in BOOLEAN
    BY DEF TypeOK
  <2>3. timer' \in BOOLEAN /\ deleted' \in BOOLEAN
    OBVIOUS
  <2>4. QED
    BY <2>1, <2>2, <2>3 DEF TypeOK
<1>2. Coherent' /\ TimerBounded' /\ ExecFailureIsDeath' /\ PriorityInForce'
  BY DEF IInv, Coherent, TimerBounded, ExecFailureIsDeath, PriorityInForce
<1>3. NoSurvivor'
  <2>1. CASE killInDestructor
    <3>1. pid
      BY <2>1 DEF IInv, Coherent, Unstarted, At
    <3>2. dying' = (dying \/ Alive) /\ os' = os
      BY <2>1, <3>1
    <3>3. Alive' => Alive
      BY <3>2 DEF Alive
    <3>4. Alive => dying'
      BY <3>2, Zenon
    <3>5. QED
      BY <3>3, <3>4, Zenon DEF NoSurvivor
  <2>2. CASE ~killInDestructor
    BY <2>2 DEF IInv, Coherent, Unstarted, At, NoSurvivor, Alive
  <2>3. QED
    BY <2>1, <2>2
<1>4. QED
  BY <1>1, <1>2, <1>3 DEF IInv

(***************************************************************************)
(* The manager's thread: forking, and the events it dispatches.            *)
(***************************************************************************)

\* The fork, done or failed.
LEMMA ForkStep == TypeOK /\ IInv /\ (Fork \/ ForkFails) => TypeOK' /\ IInv'
<1> SUFFICES ASSUME TypeOK, IInv, Fork \/ ForkFails PROVE TypeOK' /\ IInv'
  OBVIOUS
<1>1. pc = "starting" /\ ~deleted /\ ~pid /\ qstate = "Starting" /\ os = "none"
        /\ seen = "starting" /\ created
  BY DEF Fork, ForkFails, IInv, Coherent, Unstarted, At
<1>2. CASE Fork
  <2>1. TypeOK'
    BY <1>2 DEF Fork, TypeOK, backVars, obsVars
  <2>2. QED
    BY <1>1, <1>2, <2>1 DEF Fork, IInv, Coherent, Unstarted, At, TimerBounded, ExecFailureIsDeath,
       NoSurvivor, PriorityInForce, backVars, obsVars
<1>3. CASE ForkFails
  <2>1. seen' = "failing" /\ timer' = FALSE
    BY <1>1, <1>3, AfterSteps DEF ForkFails, Emit
  <2>2. seen' \in Lifecycle!Stages /\ timer' \in BOOLEAN
    BY <2>1 DEF Lifecycle!Stages
  <2>3. TypeOK'
    BY <1>3, <2>2 DEF ForkFails, TypeOK, osVars
  <2>4. QED
    BY <1>1, <1>3, <2>1, <2>3 DEF ForkFails, IInv, Coherent, At, TimerBounded, ExecFailureIsDeath,
       NoSurvivor, PriorityInForce, osVars
<1>4. QED
  BY <1>2, <1>3

\* QProcess hears from the child that exec went well.
LEMMA StartupStep == TypeOK /\ IInv /\ StartupNotification => TypeOK' /\ IInv'
<1> SUFFICES ASSUME TypeOK, IInv, StartupNotification PROVE TypeOK' /\ IInv'
  OBVIOUS
<1> USE DEF StartupNotification, handleProcessStateChanged
<1>1. created /\ ~deleted /\ pid /\ seen = "starting" /\ os \in {"live", "zombie"}
  BY DEF InLoop, IInv, Coherent, Unstarted, At
<1>2. CASE execFailed
  <2>1. os = "zombie" /\ seen' = "failing"
    BY <1>1, <1>2, AfterSteps DEF IInv, ExecFailureIsDeath, Emit
  <2>2. seen' \in Lifecycle!Stages /\ timer' \in BOOLEAN
    BY <1>2, <2>1 DEF Lifecycle!Stages
  <2>3. TypeOK'
    BY <1>2, <2>2 DEF TypeOK, osVars
  <2>4. QED
    BY <1>1, <1>2, <2>1, <2>3 DEF IInv, Coherent, At, TimerBounded,
       ExecFailureIsDeath, NoSurvivor, PriorityInForce, osVars
<1>3. CASE ~execFailed
  <2>1. seen' = "running"
    BY <1>1, <1>3, AfterSteps DEF Emit
  <2>2. seen' \in Lifecycle!Stages /\ timer' \in BOOLEAN
    BY <1>3, <2>1 DEF Lifecycle!Stages
  <2>3. TypeOK'
    BY <1>3, <2>2 DEF TypeOK, osVars
  <2>4. QED
    BY <1>1, <1>3, <2>1, <2>3 DEF IInv, Coherent, At, TimerBounded,
       ExecFailureIsDeath, NoSurvivor, PriorityInForce, osVars
<1>4. QED
  BY <1>2, <1>3

\* handleProcessStarted().
LEMMA StartedStep == TypeOK /\ IInv /\ handleProcessStarted => TypeOK' /\ IInv'
<1> SUFFICES ASSUME TypeOK, IInv, handleProcessStarted PROVE TypeOK' /\ IInv'
  OBVIOUS
<1> USE DEF handleProcessStarted, backVars
<1>1. created /\ ~deleted /\ pid /\ qstate = "Running" /\ seen = "running"
        /\ os \in {"live", "zombie"}
  BY DEF IInv, Coherent, Unstarted, At
<1>2. seen' = "up"
  BY <1>1, AfterSteps DEF Emit
<1>3. seen' \in Lifecycle!Stages
  BY <1>2 DEF Lifecycle!Stages
<1>4. /\ explicit => nice' = desired \/ refused' = TRUE
      /\ nice' \in Priorities /\ selfNice' \in Priorities /\ refused' \in BOOLEAN
  BY <1>1 DEF TypeOK, applyPriority, setPriorityOfPid
<1>5. TypeOK'
  BY <1>3, <1>4 DEF TypeOK
<1>6. QED
  BY <1>1, <1>2, <1>4, <1>5 DEF IInv, Coherent, At, TimerBounded,
     ExecFailureIsDeath, NoSurvivor, PriorityInForce

\* The start fails, and QProcess cleans up after it.
LEMMA FailureStep ==
    TypeOK /\ IInv /\ (handleStartFailure \/ CleanupAfterFailure) => TypeOK' /\ IInv'
<1> SUFFICES ASSUME TypeOK, IInv, handleStartFailure \/ CleanupAfterFailure
             PROVE  TypeOK' /\ IInv'
  OBVIOUS
<1>1. CASE handleStartFailure
  <2> USE <1>1 DEF handleStartFailure, osVars, backVars
  <2>1. created /\ ~deleted /\ qstate = "NotRunning" /\ seen = "failing"
          /\ os = (IF pid THEN "zombie" ELSE "none")
    BY DEF IInv, Coherent, Unstarted, At
  <2>2. seen' = "failed" /\ pc' = "failed"
    BY <2>1, AfterSteps DEF Emit
  <2>3. seen' \in Lifecycle!Stages
    BY <2>2 DEF Lifecycle!Stages
  <2>4. TypeOK'
    BY <2>3 DEF TypeOK
  <2>5. QED
    BY <2>1, <2>2, <2>4 DEF IInv, Coherent, At, TimerBounded,
       ExecFailureIsDeath, NoSurvivor, PriorityInForce
<1>2. CASE CleanupAfterFailure
  <2> USE <1>2 DEF CleanupAfterFailure, backVars, obsVars
  <2>1. created /\ ~deleted /\ qstate = "NotRunning" /\ seen = "failed"
          /\ os \in {"none", "zombie"}
    BY DEF IInv, Coherent, Unstarted, At
  <2>2. pid' \in BOOLEAN /\ os' \in {"none", "reaped"}
    BY <2>1
  <2>3. TypeOK'
    BY <2>2 DEF TypeOK
  <2>4. QED
    BY <2>1, <2>2, <2>3 DEF IInv, Coherent, At, TimerBounded,
       ExecFailureIsDeath, NoSurvivor, PriorityInForce
<1>3. QED
  BY <1>1, <1>2

\* QProcess hears of the death of the process.
LEMMA DeathStep ==
    TypeOK /\ IInv /\ (ChildDied \/ handleCrash) => TypeOK' /\ IInv'
<1> SUFFICES ASSUME TypeOK, IInv, ChildDied \/ handleCrash PROVE TypeOK' /\ IInv'
  OBVIOUS
<1>1. CASE ChildDied
  <2> USE <1>1 DEF ChildDied, handleProcessStateChanged
  <2>1. created /\ ~deleted /\ pid /\ seen = "up"
    BY DEF InLoop, IInv, Coherent, Unstarted, At
  <2>2. \/ killed /\ seen' = "crashed" /\ pc' = "crashed" /\ qstate' = "Running"
            /\ timer' = timer
        \/ seen' = "down" /\ pc' = "down" /\ qstate' = "NotRunning" /\ timer' = FALSE
    BY <2>1, AfterSteps DEF Emit
  <2>3. seen' \in Lifecycle!Stages /\ timer' \in BOOLEAN
    BY <2>2 DEF Lifecycle!Stages, TypeOK
  <2>4. TypeOK'
    BY <2>2, <2>3 DEF TypeOK
  <2>5. QED
    BY <2>1, <2>2, <2>4 DEF IInv, Coherent, At, TimerBounded,
       ExecFailureIsDeath, NoSurvivor, PriorityInForce, Alive
<1>2. CASE handleCrash
  <2> USE <1>2 DEF handleCrash, handleProcessStateChanged, osVars
  <2>1. created /\ ~deleted /\ pid /\ seen = "crashed" /\ os = "reaped"
    BY DEF IInv, Coherent, Unstarted, At
  <2>2. seen' = "down"
    BY <2>1, AfterSteps DEF Emit
  <2>3. seen' \in Lifecycle!Stages /\ timer' \in BOOLEAN
    BY <2>2 DEF Lifecycle!Stages
  <2>4. TypeOK'
    BY <2>3 DEF TypeOK
  <2>5. QED
    BY <2>1, <2>2, <2>4 DEF IInv, Coherent, At, TimerBounded,
       ExecFailureIsDeath, NoSurvivor, PriorityInForce
<1>3. QED
  BY <1>1, <1>2

\* handleProcessFinished().
LEMMA FinishedStep == TypeOK /\ IInv /\ handleProcessFinished => TypeOK' /\ IInv'
<1> SUFFICES ASSUME TypeOK, IInv, handleProcessFinished PROVE TypeOK' /\ IInv'
  OBVIOUS
<1> USE DEF handleProcessFinished, osVars
<1>1. created /\ ~deleted /\ qstate = "NotRunning" /\ seen = "down" /\ os = "reaped"
  BY DEF IInv, Coherent, Unstarted, At
<1>2. seen' = "over"
  BY <1>1, AfterSteps DEF Emit
<1>3. seen' \in Lifecycle!Stages /\ timer' \in BOOLEAN /\ pid' \in BOOLEAN
  BY <1>2 DEF Lifecycle!Stages
<1>4. TypeOK'
  BY <1>3 DEF TypeOK
<1>5. QED
  BY <1>1, <1>2, <1>4 DEF IInv, Coherent, At, TimerBounded,
     ExecFailureIsDeath, NoSurvivor, PriorityInForce

(***************************************************************************)
(* The operating system and the kill timer.                                *)
(***************************************************************************)

\* What the process, the kernel and the kill timer do on their own.
LEMMA KernelStep ==
    TypeOK /\ IInv /\ (Exec \/ IgnoreSigTerm \/ Exit \/ Killed \/ killTimeout)
      => TypeOK' /\ IInv'
<1> SUFFICES ASSUME TypeOK, IInv, Exec \/ IgnoreSigTerm \/ Exit \/ Killed \/ killTimeout
             PROVE  TypeOK' /\ IInv'
  OBVIOUS
<1> USE DEF qVars, backVars, obsVars
<1>1. CASE Exec
  <2>1. execFailed' \in BOOLEAN
    BY <1>1 DEF Exec, TypeOK
  <2>2. TypeOK'
    BY <1>1, <2>1 DEF Exec, TypeOK
  <2>3. QED
    BY <1>1, <2>2 DEF Exec, IInv, Coherent, Unstarted, At, TimerBounded,
       ExecFailureIsDeath, NoSurvivor, PriorityInForce, Alive
<1>2. CASE IgnoreSigTerm
  <2>1. stubborn' \in BOOLEAN
    BY <1>2 DEF IgnoreSigTerm
  <2>2. TypeOK'
    BY <1>2, <2>1 DEF IgnoreSigTerm, TypeOK
  <2>3. QED
    BY <1>2, <2>2 DEF IgnoreSigTerm, IInv, Coherent, Unstarted, At, TimerBounded,
       ExecFailureIsDeath, NoSurvivor, PriorityInForce, Alive
<1>3. CASE Exit
  <2>1. TypeOK'
    BY <1>3 DEF Exit, TypeOK
  <2>2. QED
    BY <1>3, <2>1 DEF Exit, IInv, Coherent, Unstarted, At, TimerBounded,
       ExecFailureIsDeath, NoSurvivor, PriorityInForce, Alive
<1>4. CASE Killed
  <2>1. killed' \in BOOLEAN
    BY <1>4 DEF Killed
  <2>2. TypeOK'
    BY <1>4, <2>1 DEF Killed, TypeOK
  <2>3. QED
    BY <1>4, <2>2 DEF Killed, IInv, Coherent, Unstarted, At, TimerBounded,
       ExecFailureIsDeath, NoSurvivor, PriorityInForce, Alive
<1>5. CASE killTimeout
  <2>1. dying' \in BOOLEAN
    BY <1>5 DEF killTimeout, TypeOK
  <2>2. TypeOK'
    BY <1>5, <2>1 DEF killTimeout, TypeOK
  <2>3. ~deleted
    BY <1>5 DEF killTimeout, InLoop
  <2>4. QED
    BY <1>5, <2>2, <2>3 DEF killTimeout, IInv, Coherent, Unstarted, At, TimerBounded,
       ExecFailureIsDeath, NoSurvivor, PriorityInForce
<1>6. QED
  BY <1>1, <1>2, <1>3, <1>4, <1>5

\* Nothing happens.
LEMMA StutterStep == TypeOK /\ IInv /\ UNCHANGED vars => TypeOK' /\ IInv'
  BY DEF vars, osVars, qVars, backVars, obsVars, TypeOK, IInv, Coherent, Unstarted,
     At, TimerBounded, ExecFailureIsDeath, NoSurvivor, PriorityInForce, Alive

(***************************************************************************)
(* The theorems.                                                           *)
(***************************************************************************)

\* The invariant is inductive.
LEMMA StepInv == TypeOK /\ IInv /\ [Next]_vars => TypeOK' /\ IInv'
  BY StartStep, StopStep, StopAssertsStep, SetPriorityStep, DeleteStep, ForkStep,
     StartupStep, StartedStep, FailureStep, DeathStep, FinishedStep, KernelStep,
     StutterStep DEF Next, Client, Dispatch

\* Whatever its client calls and however its program ends, a backend stays in
\* the states IInv describes.
THEOREM Invariance == Safe => [](TypeOK /\ IInv)
<1>1. Init => TypeOK /\ IInv
  BY InitType, InitInv
<1>2. QED
  BY <1>1, StepInv, PTL DEF Safe

\* Every variable keeps its type; in particular no signal ever reaches the
\* client at a point of the life cycle that does not contain it.
THEOREM TypeCorrect == Spec => []TypeOK
  BY Invariance, PTL DEF Spec

\* QProcess, its child and the signals the client has received move together.
THEOREM CoherentAlways == Spec => []Coherent
<1>1. IInv => Coherent
  BY DEF IInv
<1>2. QED
  BY <1>1, Invariance, PTL DEF Spec

\* An active kill timer has a process to kill, and can only fire while that
\* process has not been reaped.
THEOREM KillTimer == Spec => []KillTimerHasTarget
<1>1. IInv => KillTimerHasTarget
  BY DEF IInv, Coherent, Unstarted, At, TimerBounded, KillTimerHasTarget
<1>2. QED
  BY <1>1, Invariance, PTL DEF Spec

\* state() agrees with the signals, in every slot.
THEOREM StateReports == Spec => []StateAgrees
<1>1. /\ \A g \in {"running", "up", "crashed"} : Lifecycle!StateAt(g) = "Running"
      /\ \A g \in {"fresh", "down", "over", "failing", "failed"} :
            Lifecycle!StateAt(g) = "NotRunning"
      /\ Lifecycle!StateAt("starting") = "Starting"
  BY DEF Lifecycle!StateAt
<1>2. IInv => StateAgrees
  BY <1>1 DEF IInv, Coherent, Unstarted, At, StateAgrees, state
<1>3. QED
  BY <1>2, Invariance, PTL DEF Spec

\* The child runs at the priority its client asked for last, unless the kernel has
\* refused it that one.
THEOREM Priority == Spec => []PriorityInForce
<1>1. IInv => PriorityInForce
  BY DEF IInv
<1>2. QED
  BY <1>1, Invariance, PTL DEF Spec

\* The destructor leaves no child running.
THEOREM Destruction == Spec => []NoSurvivor
<1>1. IInv => NoSurvivor
  BY DEF IInv
<1>2. QED
  BY <1>1, Invariance, PTL DEF Spec

\* Consistent: what the system, QProcess and the client know fits together.
THEOREM Consistency == Spec => []Consistent
<1>1. TypeOK /\ Coherent /\ StateAgrees => Consistent
  BY DEF Consistent
<1>2. QED
  BY <1>1, TypeCorrect, CoherentAlways, StateReports, PTL

\* A step sends something to the number of a reaped child only in a slot on error(Crashed)
\* or, a priority, in one on the change to NotRunning.
LEMMA StrayStep == TypeOK /\ IInv /\ StraysInSlots /\ [Next]_vars => StraysInSlots'
<1> SUFFICES ASSUME TypeOK, IInv, StraysInSlots, [Next]_vars PROVE StraysInSlots'
  OBVIOUS
<1>1. ~deleted /\ os = "reaped" /\ pid =>
        \/ pc = "crashed" /\ qstate = "Running"
        \/ pc = "down" /\ qstate = "NotRunning"
  BY DEF TypeOK, IInv, Coherent, Unstarted, At
<1>2. ~deleted /\ pc = "loop" => ~(os = "reaped" /\ pid)
  BY <1>1
<1>3. ASSUME NEW t \in {0, 1}, Stop(t) PROVE StraysInSlots'
  <2>1. \/ strayed' = strayed
        \/ /\ ~deleted /\ os = "reaped" /\ pid /\ qstate # "NotRunning"
           /\ strayed' = strayed \cup {<<"signal", pc>>}
    BY <1>3 DEF Stop, CanCall, Stoppable, sendSignalToProcess, Stray
  <2>2. QED
    BY <1>1, <2>1 DEF StraysInSlots
<1>4. CASE Delete
  BY <1>2, <1>4 DEF Delete, sendSignalToProcess, Stray, StraysInSlots
<1>5. ASSUME NEW p \in Priorities, SetPriority(p) PROVE StraysInSlots'
  BY <1>1, <1>5 DEF SetPriority, CanCall, setPriorityOfPid, Stray, StraysInSlots
<1>6. CASE handleProcessStarted
  BY <1>1, <1>6 DEF handleProcessStarted, applyPriority, IInv, Coherent, setPriorityOfPid,
     StraysInSlots
<1>7. CASE killTimeout
  <2>1. os # "reaped"
    BY <1>7 DEF killTimeout, InLoop, IInv, Coherent, Unstarted, At
  <2>2. QED
    BY <1>7, <2>1 DEF killTimeout, Stray, StraysInSlots
<1>8. CASE \/ Start \/ StopAsserts \/ Fork \/ ForkFails \/ StartupNotification
           \/ handleStartFailure \/ CleanupAfterFailure \/ ChildDied \/ handleCrash
           \/ handleProcessFinished \/ Exec \/ IgnoreSigTerm \/ Exit \/ Killed
           \/ UNCHANGED vars
  <2>1. UNCHANGED strayed
    BY <1>8 DEF Start, StopAsserts, Fork, ForkFails, StartupNotification, handleStartFailure,
       CleanupAfterFailure, ChildDied, handleCrash, handleProcessFinished, Exec, IgnoreSigTerm,
       Exit, Killed, vars, obsVars
  <2>2. QED
    BY <2>1 DEF StraysInSlots
<1>9. QED
  BY <1>3, <1>4, <1>5, <1>6, <1>7, <1>8 DEF Next, Client, Dispatch

\* ChildAccounted: the backend kills its own child and no other, but for what clients call
\* from slots while QProcess still has the number of a reaped child.
THEOREM ChildAccounting == Spec => []ChildAccounted
<1>1. Init => StraysInSlots
  BY DEF Init, StraysInSlots
<1>2. Spec => []StraysInSlots
  BY <1>1, Invariance, StrayStep, PTL DEF Spec, Safe
<1>3. KillTimerHasTarget /\ NoSurvivor /\ StraysInSlots => ChildAccounted
  BY DEF ChildAccounted
<1>4. QED
  BY <1>2, <1>3, KillTimer, Destruction, PTL

\* A step outside the slots on stateChanged(Starting) signals nobody but the
\* child: OwnGroupSpared for every client.
THEOREM OwnGroup == Spec => OwnGroupSpared
<1>1. TypeOK /\ IInv /\ [Next]_vars => [pc # "starting" => UNCHANGED selfSignal]_vars
  <2> SUFFICES ASSUME TypeOK, IInv, [Next]_vars, pc # "starting"
               PROVE  UNCHANGED selfSignal
    BY Zenon
  <2>1. ASSUME NEW t \in {0, 1}, Stop(t) PROVE UNCHANGED selfSignal
    <3>1. qstate # "NotRunning" => pid
      BY <2>1 DEF Stop, CanCall, IInv, Coherent, Unstarted, At
    <3>2. QED
      BY <2>1, <3>1 DEF Stop, Stoppable, sendSignalToProcess
  <2>2. CASE Delete
    <3>1. qstate # "NotRunning" => pid
      BY <2>2 DEF Delete, IInv, Coherent, Unstarted, At
    <3>2. QED
      BY <2>2, <3>1 DEF Delete, killInDestructor, sendSignalToProcess
  <2>3. ASSUME NEW p \in Priorities, SetPriority(p) PROVE UNCHANGED selfSignal
    BY <2>3 DEF SetPriority
  <2>4. CASE Start \/ StopAsserts
    BY <2>4 DEF Start, StopAsserts, obsVars
  <2>5. CASE Dispatch
    BY <2>5 DEF Dispatch, Fork, ForkFails, StartupNotification, handleProcessStarted,
       handleStartFailure, CleanupAfterFailure, ChildDied, handleCrash,
       handleProcessFinished, obsVars
  <2>6. CASE Exec \/ IgnoreSigTerm \/ Exit \/ Killed \/ killTimeout \/ UNCHANGED vars
    BY <2>6 DEF Exec, IgnoreSigTerm, Exit, Killed, killTimeout, vars, obsVars
  <2>7. QED
    BY <2>1, <2>2, <2>3, <2>4, <2>5, <2>6 DEF Next, Client
<1>2. QED
  BY <1>1, Invariance, PTL DEF Spec, Safe, OwnGroupSpared

(***************************************************************************)
(* Refinement: what the client receives is one life cycle of               *)
(* ProcessLifecycle, step by step.                                         *)
(***************************************************************************)

\* A step that sends signal g, legal where the client is, is a step of the
\* abstract specification.
LEMMA SignalStep ==
    ASSUME NEW g \in Lifecycle!Signals, Emit(g), seen' \in Lifecycle!Stages
    PROVE  Lifecycle!Next
  BY DEF Emit, Lifecycle!Next, Lifecycle!Receive

\* A backend on this host gives its client one life cycle of a process, step by step.
THEOREM Implements == Safe => Lifecycle!Safe
<1>1. Init => Lifecycle!Init
  BY DEF Init, Lifecycle!Init
<1>2. TypeOK /\ IInv /\ [Next]_vars /\ TypeOK' => [Lifecycle!Next]_seen
  <2> SUFFICES ASSUME TypeOK, IInv, [Next]_vars, TypeOK'
               PROVE  [Lifecycle!Next]_seen
    OBVIOUS
  <2>1. seen' \in Lifecycle!Stages
    BY DEF TypeOK
  <2>2. CASE Start
    <3>1. "Starting" \in Lifecycle!Signals
      BY DEF Lifecycle!Signals
    <3>2. QED
      BY <2>1, <2>2, <3>1, SignalStep DEF Start, handleProcessStateChanged
  <2>3. CASE Delete
    BY <2>3 DEF Delete, Lifecycle!Next, Lifecycle!Destroy, IInv, Coherent, Unstarted, At
  <2>4. CASE ForkFails \/ handleCrash
    <3>1. "NotRunning" \in Lifecycle!Signals
      BY DEF Lifecycle!Signals
    <3>2. QED
      BY <2>1, <2>4, <3>1, SignalStep DEF ForkFails, handleCrash, handleProcessStateChanged
  <2>5. CASE StartupNotification
    <3>1. "NotRunning" \in Lifecycle!Signals /\ "Running" \in Lifecycle!Signals
      BY DEF Lifecycle!Signals
    <3>2. QED
      BY <2>1, <2>5, <3>1, SignalStep DEF StartupNotification, handleProcessStateChanged
  <2>6. CASE handleProcessStarted
    <3>1. "started" \in Lifecycle!Signals
      BY DEF Lifecycle!Signals
    <3>2. QED
      BY <2>1, <2>6, <3>1, SignalStep DEF handleProcessStarted
  <2>7. CASE handleStartFailure
    <3>1. "FailedToStart" \in Lifecycle!Signals
      BY DEF Lifecycle!Signals
    <3>2. QED
      BY <2>1, <2>7, <3>1, SignalStep DEF handleStartFailure
  <2>8. CASE ChildDied
    <3>1. "Crashed" \in Lifecycle!Signals /\ "NotRunning" \in Lifecycle!Signals
      BY DEF Lifecycle!Signals
    <3>2. QED
      BY <2>1, <2>8, <3>1, SignalStep DEF ChildDied, handleProcessStateChanged
  <2>9. CASE handleProcessFinished
    <3>1. "finished" \in Lifecycle!Signals
      BY DEF Lifecycle!Signals
    <3>2. QED
      BY <2>1, <2>9, <3>1, SignalStep DEF handleProcessFinished
  <2>10. CASE \/ \E t \in {0, 1} : Stop(t)
              \/ \E p \in Priorities : SetPriority(p)
    BY <2>10 DEF Stop, SetPriority
  <2>11. CASE \/ StopAsserts \/ Fork \/ CleanupAfterFailure \/ killTimeout
              \/ Exec \/ IgnoreSigTerm \/ Exit \/ Killed \/ UNCHANGED vars
    BY <2>11 DEF StopAsserts, Fork, CleanupAfterFailure, killTimeout, Exec,
       IgnoreSigTerm, Exit, Killed, vars, obsVars
  <2>12. QED
    BY <2>2, <2>3, <2>4, <2>5, <2>6, <2>7, <2>8, <2>9, <2>10, <2>11
       DEF Next, Client, Dispatch
<1>3. TypeOK /\ IInv /\ [Next]_vars => TypeOK'
  BY StepInv
<1>4. QED
  BY <1>1, <1>2, <1>3, Invariance, PTL DEF Safe, Lifecycle!Safe

(***************************************************************************)
(* DataPath: the inductive invariant.                                      *)
(***************************************************************************)

\* The bytes of s are those of the sequence 'all' from position 'base' on.
Part(s, base, all) == \A i \in DOMAIN s : base + i <= Len(all) /\ s[i] = all[base + i]

\* How much of what was sent has left the launcher's stream.
Held == Len(got) + Len(stdin) + Len(inbuf)

\* Behind the k-th command, those under way are what comes in 'all' behind what is held:
\* at[j] is how much there was up to the j-th.
Commands(k, commands, held, all) ==
    \E at \in [k .. Len(commands) -> Nat] :
       /\ at[k] = held /\ at[Len(commands)] = Len(all)
       /\ \A j \in k + 1 .. Len(commands) :
             at[j] = at[j - 1] + Len(commands[j]) /\ Part(commands[j], at[j - 1], all)

InputKept ==
    /\ Part(got, 0, sent)
    /\ child # "dead" => /\ Part(stdin, Len(got), sent)
                         /\ Part(inbuf, Len(got) + Len(stdin), sent)
    /\ child # "dead" /\ kind \notin Remote => Held = Len(sent)
    /\ child = "live" /\ kind \in Remote => Commands(0, down, Held, sent)
    /\ child = "none" /\ kind \in Remote /\ started =>
          \E k \in DOMAIN down :
             /\ down[k] = <<>> /\ \A j \in DOMAIN down : j # k => down[j] # <<>>
             /\ Commands(k, down, Held, sent)

\* What may arrive for the byte that was written at position p.
Fits(b, p) == b = p \/ (b = Broken /\ (p \in WideAt \/ p - 1 \in WideAt))

\* The messages u take what has been heard of channel c from one length to another: at[j]
\* is how long it is after the j-th.
Way(c, u, from, to) ==
    \E at \in [0 .. Len(u) -> 0 .. to] :
       /\ at[0] = from /\ at[Len(u)] = to
       /\ \A j \in DOMAIN u :
             /\ u[j].chan = c =>
                   /\ at[j] = at[j - 1] + Len(u[j].data)
                   /\ \A i \in DOMAIN u[j].data : Fits(u[j].data[i], at[j - 1] + i)
             /\ u[j].chan # c => at[j] = at[j - 1]

\* The fork launcher has deleted the child, with what it had not read.
Deleted == kind = "fork" /\ child = "dead" /\ ~running

\* What was written to c is what was received, is under way, and is in the pipe.
OutputKept(c) ==
    /\ \A i \in DOMAIN received[c] :
          received[c][i] = i \/ (kind \in Remote /\ Fits(received[c][i], i))
    /\ \E to \in Nat :
          /\ Way(c, up, Len(received[c]), to)
          /\ to + Len(pipe[c]) <= written[c]
          /\ ~Deleted => to + Len(pipe[c]) = written[c]
          /\ \A i \in DOMAIN pipe[c] : pipe[c][i] = to + i

OutputsKept == \A c \in Channels : OutputKept(c)

\* finished is the last that is said of a QProcess, and said when nothing is left to read.
FinishedLast ==
    kind # "fork" =>
       /\ ~running => \A c \in Channels : pipe[c] = <<>>
       /\ finished => child = "dead" /\ ~running /\ up = <<>>
       /\ \A j \in DOMAIN up :
             up[j] = FinishedMessage => j = Len(up) /\ child = "dead" /\ ~running

\* How far program, start and launcher are.
InStep ==
    /\ child = "live" => running
    /\ child = "none" => ~running /\ got = <<>> /\ stdin = <<>> /\ inbuf = <<>>
    /\ kind \notin Remote => down = <<>> /\ up = <<>>
    /\ kind = "prelaunch" => child # "none"
    /\ kind # "prelaunch" /\ ~started => child = "none"
    /\ kind = "local" /\ child = "none" => ~started
    /\ ~started /\ kind # "prelaunch" => sent = <<>>
    /\ (child # "none" \/ ~started) => \A j \in DOMAIN down : down[j] # <<>>
    /\ kind # "fork" => phase = "select"
    /\ phase = "blocked" => inbuf # <<>> /\ running

Bytes == 0 .. MaxIn

DataTypes ==
    /\ kind \in Kinds /\ child \in {"none", "live", "dead"} /\ wants \in Channels \cup {None}
    /\ stdin \in Seq(Bytes) /\ Len(stdin) <= InCapacity
    /\ got \in Seq(Bytes) /\ inbuf \in Seq(Bytes) /\ sent \in Seq(Bytes)
    /\ down \in Seq(Seq(Bytes)) /\ writes \in Bytes
    /\ up \in Seq([chan : Channels \cup {None}, data : Seq(Nat)])
    /\ pipe \in [Channels -> Seq(Nat)] /\ \A c \in Channels : Len(pipe[c]) <= OutCapacity
    /\ written \in [Channels -> Nat] /\ \A c \in Channels : written[c] <= Bound(c)
    /\ received \in [Channels -> Seq(Nat)]
    /\ running \in BOOLEAN /\ launcherUp \in BOOLEAN /\ canReap \in BOOLEAN
    /\ started \in BOOLEAN /\ finished \in BOOLEAN
    /\ phase \in {"select", "blocked", "read", "reap"}
    /\ m_echo \in {"None", "StdoutOnly", "StderrOnly", "StdoutStderr"}

DataInv == DataTypes /\ InStep /\ InputKept /\ OutputsKept /\ FinishedLast

(***************************************************************************)
(* Bytes of a sequence.                                                    *)
(***************************************************************************)

\* More bytes behind do not matter.
LEMMA PartStays ==
    ASSUME NEW S, NEW s \in Seq(S), NEW base \in Nat, NEW all \in Seq(S), NEW more \in Seq(S),
           Part(s, base, all)
    PROVE  Part(s, base, all \o more)
<1> SUFFICES ASSUME NEW i \in DOMAIN s
             PROVE  base + i <= Len(all \o more) /\ s[i] = (all \o more)[base + i]
  BY DEF Part
<1>1. i \in Nat /\ i >= 1 /\ base + i <= Len(all) /\ s[i] = all[base + i]
  BY DEF Part
<1>2. Len(all \o more) = Len(all) + Len(more) /\ Len(all) \in Nat /\ Len(more) \in Nat
  OBVIOUS
<1>3. base + i \in 1 .. Len(all)
  BY <1>1, <1>2
<1>4. (all \o more)[base + i] = all[base + i]
  BY <1>3
<1> QED
  BY <1>1, <1>2, <1>4

\* Two parts, one behind the other.
LEMMA PartsJoin ==
    ASSUME NEW S, NEW s \in Seq(S), NEW t \in Seq(S), NEW base \in Nat, NEW all \in Seq(S),
           Part(s, base, all), Part(t, base + Len(s), all)
    PROVE  Part(s \o t, base, all)
<1> SUFFICES ASSUME NEW i \in DOMAIN (s \o t)
             PROVE  base + i <= Len(all) /\ (s \o t)[i] = all[base + i]
  BY DEF Part
<1>1. Len(s) \in Nat /\ Len(t) \in Nat /\ i \in 1 .. Len(s) + Len(t)
  OBVIOUS
<1>2. CASE i <= Len(s)
  <2>1. i \in DOMAIN s /\ (s \o t)[i] = s[i]
    BY <1>1, <1>2
  <2> QED
    BY <2>1 DEF Part
<1>3. CASE i > Len(s)
  <2> DEFINE j == i - Len(s)
  <2>1. j \in DOMAIN t /\ (s \o t)[i] = t[j]
    BY <1>1, <1>3
  <2>2. (base + Len(s)) + j = base + i
    BY <1>1
  <2>3. (base + Len(s)) + j <= Len(all) /\ t[j] = all[(base + Len(s)) + j]
    BY <2>1 DEF Part
  <2> QED
    BY <2>1, <2>2, <2>3
<1> QED
  BY <1>1, <1>2, <1>3

\* A part is cut in two.
LEMMA PartsCut ==
    ASSUME NEW S, NEW s \in Seq(S), NEW n \in 0 .. Len(s), NEW base \in Nat, NEW all \in Seq(S),
           Part(s, base, all)
    PROVE  /\ Upto(s, n) \in Seq(S) /\ Len(Upto(s, n)) = n /\ Part(Upto(s, n), base, all)
           /\ After(s, n) \in Seq(S) /\ Len(After(s, n)) = Len(s) - n
           /\ Part(After(s, n), base + n, all)
<1>1. Len(s) \in Nat /\ n \in Nat /\ n <= Len(s)
  OBVIOUS
<1>2. Upto(s, n) = SubSeq(s, 1, n) /\ After(s, n) = SubSeq(s, n + 1, Len(s))
  BY <1>1 DEF Upto, After
<1>3. /\ SubSeq(s, 1, n) \in Seq(S) /\ Len(SubSeq(s, 1, n)) = n
      /\ \A i \in 1 .. n : SubSeq(s, 1, n)[i] = s[i]
  BY <1>1
<1>4. /\ SubSeq(s, n + 1, Len(s)) \in Seq(S) /\ Len(SubSeq(s, n + 1, Len(s))) = Len(s) - n
      /\ \A i \in 1 .. Len(s) - n : SubSeq(s, n + 1, Len(s))[i] = s[n + i]
  BY <1>1
<1>5. Part(SubSeq(s, 1, n), base, all)
  <2> SUFFICES ASSUME NEW i \in 1 .. n
               PROVE  base + i <= Len(all) /\ SubSeq(s, 1, n)[i] = all[base + i]
    BY <1>3 DEF Part
  <2>1. i \in DOMAIN s
    BY <1>1
  <2> QED
    BY <1>3, <2>1 DEF Part
<1>6. Part(SubSeq(s, n + 1, Len(s)), base + n, all)
  <2> SUFFICES ASSUME NEW i \in 1 .. Len(s) - n
               PROVE  /\ (base + n) + i <= Len(all)
                      /\ SubSeq(s, n + 1, Len(s))[i] = all[(base + n) + i]
    BY <1>4 DEF Part
  <2>1. n + i \in DOMAIN s /\ (base + n) + i = base + (n + i)
    BY <1>1
  <2> QED
    BY <1>4, <2>1 DEF Part
<1> QED
  BY <1>2, <1>3, <1>4, <1>5, <1>6

\* What was appended is a part.
LEMMA PartAtEnd ==
    ASSUME NEW S, NEW all \in Seq(S), NEW more \in Seq(S)
    PROVE  Part(more, Len(all), all \o more)
BY DEF Part

\* Nothing is a part of everything.
LEMMA NoPart == ASSUME NEW base, NEW all PROVE Part(<<>>, base, all)
BY DEF Part

(***************************************************************************)
(* Commands on their way to a launcher.                                    *)
(***************************************************************************)

\* One more write.
LEMMA CommandAdded ==
    ASSUME NEW S, NEW commands \in Seq(Seq(S)), NEW k \in 0 .. Len(commands), NEW held,
           NEW all \in Seq(S), NEW data \in Seq(S), Commands(k, commands, held, all)
    PROVE  Commands(k, Append(commands, data), held, all \o data)
<1> DEFINE n == Len(commands)
           more == Append(commands, data)
<1>1. PICK at \in [k .. n -> Nat] :
         /\ at[k] = held /\ at[n] = Len(all)
         /\ \A j \in k + 1 .. n :
               at[j] = at[j - 1] + Len(commands[j]) /\ Part(commands[j], at[j - 1], all)
  BY DEF Commands
<1> DEFINE next == [j \in k .. n + 1 |-> IF j <= n THEN at[j] ELSE Len(all) + Len(data)]
<1>2. n \in Nat /\ k \in Nat /\ k <= n /\ Len(all) \in Nat /\ Len(data) \in Nat
  OBVIOUS
<1>3. /\ Len(more) = n + 1 /\ more[n + 1] = data
      /\ \A j \in 1 .. n : more[j] = commands[j] /\ commands[j] \in Seq(S)
  OBVIOUS
<1>4. next \in [k .. n + 1 -> Nat] /\ next[k] = held
  BY <1>1, <1>2
<1>5. next[n + 1] = Len(all \o data)
  BY <1>2
<1>6. ASSUME NEW j \in k + 1 .. n + 1
      PROVE  next[j] = next[j - 1] + Len(more[j]) /\ Part(more[j], next[j - 1], all \o data)
  <2>1. CASE j <= n
    <3>1. /\ j \in k + 1 .. n /\ j - 1 \in k .. n /\ j \in 1 .. n
          /\ j \in k .. n + 1 /\ j - 1 \in k .. n + 1 /\ j - 1 <= n
      BY <1>2, <2>1
    <3>2. next[j] = at[j] /\ next[j - 1] = at[j - 1]
      BY <2>1, <3>1
    <3>a. at[j - 1] \in Nat
      BY <1>1, <3>1
    <3>3. at[j] = at[j - 1] + Len(commands[j]) /\ Part(commands[j], at[j - 1], all)
      BY <1>1, <3>1
    <3>4. more[j] = commands[j] /\ commands[j] \in Seq(S)
      BY <1>3, <3>1
    <3>5. Part(commands[j], at[j - 1], all \o data)
      BY <3>a, <3>3, <3>4, PartStays
    <3> QED
      BY <3>2, <3>3, <3>4, <3>5
  <2>2. CASE j = n + 1
    <3>1. next[j] = Len(all) + Len(data) /\ next[j - 1] = at[n] /\ at[n] = Len(all)
      BY <1>1, <1>2, <2>2
    <3>2. Part(data, Len(all), all \o data)
      BY PartAtEnd
    <3> QED
      BY <1>3, <2>2, <3>1, <3>2
  <2> QED
    BY <1>2, <2>1, <2>2
<1> HIDE DEF next, more
<1> QED
  BY <1>3, <1>4, <1>5, <1>6 DEF Commands, more

\* The launcher takes the first.
LEMMA CommandTaken ==
    ASSUME NEW S, NEW commands \in Seq(Seq(S)), commands # <<>>, NEW k \in 0 .. Len(commands),
           NEW held \in Nat, NEW all \in Seq(S), Commands(k, commands, held, all)
    PROVE  IF k = 0
           THEN /\ Part(Head(commands), held, all)
                /\ Commands(0, Tail(commands), held + Len(Head(commands)), all)
           ELSE Commands(k - 1, Tail(commands), held, all)
<1> DEFINE n == Len(commands)
           less == Tail(commands)
           first == IF k = 0 THEN 0 ELSE k - 1
<1>1. PICK at \in [k .. n -> Nat] :
         /\ at[k] = held /\ at[n] = Len(all)
         /\ \A j \in k + 1 .. n :
               at[j] = at[j - 1] + Len(commands[j]) /\ Part(commands[j], at[j - 1], all)
  BY DEF Commands
<1>2. /\ n \in Nat /\ n >= 1 /\ k \in Nat /\ k <= n
      /\ first \in Nat /\ first + 1 >= k /\ first <= n - 1
  OBVIOUS
<1>3. Len(less) = n - 1 /\ \A j \in 1 .. n - 1 : less[j] = commands[j + 1]
  OBVIOUS
<1> DEFINE next == [j \in first .. n - 1 |-> at[j + 1]]
<1> HIDE DEF first, less
<1>4. next \in [first .. n - 1 -> Nat] /\ next[n - 1] = Len(all)
  BY <1>1, <1>2
<1>5. ASSUME NEW j \in first + 1 .. n - 1
      PROVE  next[j] = next[j - 1] + Len(less[j]) /\ Part(less[j], next[j - 1], all)
  <2>1. /\ j \in first .. n - 1 /\ j - 1 \in first .. n - 1 /\ (j - 1) + 1 = j
        /\ j + 1 \in k + 1 .. n /\ (j + 1) - 1 = j /\ j \in 1 .. n - 1
    BY <1>2
  <2>2. next[j] = at[j + 1] /\ next[j - 1] = at[j] /\ less[j] = commands[j + 1]
    BY <1>3, <2>1
  <2> QED
    BY <1>1, <2>1, <2>2
<1>6. Commands(first, less, next[first], all)
  <2> HIDE DEF next
  <2> QED
    BY <1>3, <1>4, <1>5 DEF Commands
<1>7. CASE k = 0
  <2>1. first = 0 /\ 1 \in k + 1 .. n /\ 1 - 1 = 0
    BY <1>2, <1>7 DEF first
  <2>2. next[0] = at[1]
    BY <1>2, <2>1
  <2>3. at[1] = held + Len(commands[1]) /\ Part(commands[1], held, all)
    BY <1>1, <1>7, <2>1
  <2>4. Head(commands) = commands[1]
    OBVIOUS
  <2> QED
    BY <1>6, <1>7, <2>1, <2>2, <2>3, <2>4 DEF less
<1>8. CASE k # 0
  <2>1. first = k - 1 /\ first + 1 = k
    BY <1>2, <1>8 DEF first
  <2>2. next[first] = held
    BY <1>1, <1>2, <2>1
  <2> QED
    BY <1>6, <1>8, <2>1, <2>2 DEF less
<1> QED
  BY <1>7, <1>8

(***************************************************************************)
(* Output on its way to the client.                                        *)
(***************************************************************************)

\* No message, no way.
LEMMA WayStarts == ASSUME NEW c, NEW n \in Nat PROVE Way(c, <<>>, n, n)
<1> DEFINE at == [j \in 0 .. 0 |-> n]
<1>1. at \in [0 .. Len(<<>>) -> 0 .. n] /\ at[0] = n /\ at[Len(<<>>)] = n
  OBVIOUS
<1> HIDE DEF at
<1> QED
  BY <1>1 DEF Way

\* It does not lead back.
LEMMA WayBounds ==
    ASSUME NEW S, NEW u \in Seq(S), NEW c, NEW from, NEW to \in Nat, Way(c, u, from, to)
    PROVE  from \in 0 .. to
BY DEF Way

\* One more message.
LEMMA WayGrows ==
    ASSUME NEW S, NEW c, NEW u \in Seq(S), NEW m \in S, NEW from \in Nat, NEW to \in Nat,
           NEW more \in Nat, Way(c, u, from, to),
           m.chan = c => more = Len(m.data) /\ \A i \in DOMAIN m.data : Fits(m.data[i], to + i),
           m.chan # c => more = 0
    PROVE  Way(c, Append(u, m), from, to + more)
<1> DEFINE n == Len(u)
           longer == Append(u, m)
<1>1. PICK at \in [0 .. n -> 0 .. to] :
         /\ at[0] = from /\ at[n] = to
         /\ \A j \in DOMAIN u :
               /\ u[j].chan = c =>
                     /\ at[j] = at[j - 1] + Len(u[j].data)
                     /\ \A i \in DOMAIN u[j].data : Fits(u[j].data[i], at[j - 1] + i)
               /\ u[j].chan # c => at[j] = at[j - 1]
  BY DEF Way
<1> DEFINE next == [j \in 0 .. n + 1 |-> IF j <= n THEN at[j] ELSE to + more]
<1>2. n \in Nat
  OBVIOUS
<1>3. /\ Len(longer) = n + 1 /\ longer[n + 1] = m /\ DOMAIN longer = 1 .. n + 1
      /\ \A j \in 1 .. n : longer[j] = u[j]
  OBVIOUS
<1>4. next \in [0 .. n + 1 -> 0 .. to + more] /\ next[0] = from /\ next[n + 1] = to + more
  BY <1>1, <1>2
<1>5. ASSUME NEW j \in 1 .. n + 1
      PROVE  /\ longer[j].chan = c =>
                   /\ next[j] = next[j - 1] + Len(longer[j].data)
                   /\ \A i \in DOMAIN longer[j].data : Fits(longer[j].data[i], next[j - 1] + i)
             /\ longer[j].chan # c => next[j] = next[j - 1]
  <2>1. CASE j <= n
    <3>1. j \in 1 .. n /\ j \in 0 .. n + 1 /\ j - 1 \in 0 .. n + 1 /\ j - 1 <= n /\ j \in DOMAIN u
      BY <1>2, <2>1
    <3>2. next[j] = at[j] /\ next[j - 1] = at[j - 1] /\ longer[j] = u[j]
      BY <1>3, <2>1, <3>1
    <3> HIDE DEF next, longer
    <3> QED
      BY <1>1, <3>1, <3>2
  <2>2. CASE j = n + 1
    <3>1. j - 1 = n /\ n \in 0 .. n + 1 /\ n + 1 \in 0 .. n + 1 /\ ~(n + 1 <= n)
      BY <1>2, <2>2
    <3>2. next[j] = to + more /\ next[j - 1] = to /\ longer[j] = m
      BY <1>1, <1>3, <2>2, <3>1
    <3>3. to + 0 = to
      OBVIOUS
    <3> HIDE DEF next, longer
    <3>4. ASSUME longer[j].chan = c
          PROVE  /\ next[j] = next[j - 1] + Len(longer[j].data)
                 /\ \A i \in DOMAIN longer[j].data : Fits(longer[j].data[i], next[j - 1] + i)
      BY <3>2, <3>4
    <3>5. ASSUME longer[j].chan # c PROVE next[j] = next[j - 1]
      <4>1. more = 0
        BY <3>2, <3>5
      <4> QED
        BY <3>2, <3>3, <4>1
    <3> QED
      BY <3>4, <3>5
  <2>3. j <= n \/ j = n + 1
    BY <1>2
  <2> HIDE DEF next, longer
  <2> QED
    BY <2>1, <2>2, <2>3
<1> HIDE DEF next, longer
<1> QED
  BY <1>3, <1>4, <1>5 DEF Way, longer

\* The first message is heard.
LEMMA WayBegins ==
    ASSUME NEW S, NEW c, NEW u \in Seq(S), u # <<>>, NEW from \in Nat, NEW to \in Nat,
           NEW n \in Nat, Way(c, u, from, to),
           n = IF Head(u).chan = c THEN Len(Head(u).data) ELSE 0
    PROVE  /\ Way(c, Tail(u), from + n, to)
           /\ Head(u).chan = c =>
                 \A i \in DOMAIN Head(u).data : Fits(Head(u).data[i], from + i)
<1> DEFINE l == Len(u)
           less == Tail(u)
<1>1. PICK at \in [0 .. l -> 0 .. to] :
         /\ at[0] = from /\ at[l] = to
         /\ \A j \in DOMAIN u :
               /\ u[j].chan = c =>
                     /\ at[j] = at[j - 1] + Len(u[j].data)
                     /\ \A i \in DOMAIN u[j].data : Fits(u[j].data[i], at[j - 1] + i)
               /\ u[j].chan # c => at[j] = at[j - 1]
  BY DEF Way
<1>2. l \in Nat /\ l >= 1 /\ 1 \in DOMAIN u /\ Head(u) = u[1] /\ 1 - 1 = 0
  OBVIOUS
<1>3. Len(less) = l - 1 /\ DOMAIN less = 1 .. l - 1 /\ \A j \in 1 .. l - 1 : less[j] = u[j + 1]
  OBVIOUS
<1> DEFINE next == [j \in 0 .. l - 1 |-> at[j + 1]]
<1>4. next \in [0 .. l - 1 -> 0 .. to] /\ next[l - 1] = to /\ next[0] = at[1]
  BY <1>1, <1>2
<1>5. /\ at[1] = from + n
      /\ Head(u).chan = c => \A i \in DOMAIN Head(u).data : Fits(Head(u).data[i], from + i)
  <2>1. CASE Head(u).chan = c
    <3>1. at[1] = at[1 - 1] + Len(u[1].data)
          /\ \A i \in DOMAIN u[1].data : Fits(u[1].data[i], at[1 - 1] + i)
      BY <1>1, <1>2, <2>1
    <3> QED
      BY <1>1, <1>2, <2>1, <3>1
  <2>2. CASE Head(u).chan # c
    <3>1. at[1] = at[1 - 1]
      BY <1>1, <1>2, <2>2
    <3> QED
      BY <1>1, <1>2, <2>2, <3>1
  <2> QED
    BY <2>1, <2>2
<1>6. ASSUME NEW j \in 1 .. l - 1
      PROVE  /\ less[j].chan = c =>
                   /\ next[j] = next[j - 1] + Len(less[j].data)
                   /\ \A i \in DOMAIN less[j].data : Fits(less[j].data[i], next[j - 1] + i)
             /\ less[j].chan # c => next[j] = next[j - 1]
  <2>1. /\ j \in 0 .. l - 1 /\ j - 1 \in 0 .. l - 1 /\ (j - 1) + 1 = j
        /\ j + 1 \in DOMAIN u /\ (j + 1) - 1 = j
    BY <1>2
  <2>2. next[j] = at[j + 1] /\ next[j - 1] = at[j] /\ less[j] = u[j + 1]
    BY <1>3, <2>1
  <2> HIDE DEF next, less
  <2> QED
    BY <1>1, <2>1, <2>2
<1>7. next[0] = from + n
  BY <1>4, <1>5
<1> HIDE DEF next, less
<1>8. Way(c, less, from + n, to)
  BY <1>3, <1>4, <1>6, <1>7 DEF Way
<1> QED
  BY <1>5, <1>8 DEF less

Messages == [chan : Channels \cup {None}, data : Seq(Nat)]

\* Decoding keeps the length, and changes only halves of characters.
LEMMA Decoding ==
    ASSUME NEW data \in Seq(Nat), NEW base \in Nat
    PROVE  /\ decoded(data) \in Seq(Nat) /\ Len(decoded(data)) = Len(data)
           /\ DOMAIN decoded(data) = DOMAIN data
           /\ (\A i \in DOMAIN data : data[i] = base + i) =>
                 \A i \in DOMAIN data : Fits(decoded(data)[i], base + i)
<1>1. DOMAIN data = 1 .. Len(data) /\ Len(data) \in Nat
  OBVIOUS
<1>2. \A i \in DOMAIN data : decoded(data)[i] \in Nat
  BY DEF decoded, Broken
<1>3. DOMAIN decoded(data) = DOMAIN data
  BY DEF decoded
<1>4. decoded(data) = [i \in 1 .. Len(data) |-> decoded(data)[i]]
  BY <1>1 DEF decoded
<1>5. decoded(data) \in [1 .. Len(data) -> Nat]
  <2> DEFINE d == decoded(data)
  <2>1. d = [i \in 1 .. Len(data) |-> d[i]] /\ \A i \in 1 .. Len(data) : d[i] \in Nat
    BY <1>1, <1>2, <1>4
  <2> HIDE DEF d
  <2>2. d \in [1 .. Len(data) -> Nat]
    BY <2>1
  <2> QED
    BY <2>2 DEF d
<1>6. decoded(data) \in Seq(Nat) /\ Len(decoded(data)) = Len(data)
  BY <1>1, <1>5
<1>7. ASSUME \A i \in DOMAIN data : data[i] = base + i, NEW i \in DOMAIN data
      PROVE  Fits(decoded(data)[i], base + i)
  <2>1. decoded(data)[i] = Broken \/ decoded(data)[i] = base + i
    BY <1>7 DEF decoded
  <2>2. decoded(data)[i] # base + i => base + i \in WideAt \/ (base + i) - 1 \in WideAt
    BY <1>7 DEF decoded
  <2> QED
    BY <2>1, <2>2 DEF Fits
<1> QED
  BY <1>3, <1>6, <1>7

\* The message about one channel.
LEMMA MessageAdded ==
    ASSUME NEW u \in Seq(Messages), NEW c \in Channels, NEW d \in Channels, NEW data \in Seq(Nat),
           NEW from \in Nat, NEW to \in Nat, Way(c, u, from, to),
           c = d => \A i \in DOMAIN data : data[i] = to + i,
           NEW more \in Nat, more = IF c = d THEN Len(data) ELSE 0
    PROVE  /\ u \o copyToOutgoing(d, data) \in Seq(Messages)
           /\ Way(c, u \o copyToOutgoing(d, data), from, to + more)
<1>1. CASE data = <<>>
  <2>1. copyToOutgoing(d, data) = <<>> /\ u \o <<>> = u /\ more = 0 /\ to + 0 = to
    BY <1>1 DEF copyToOutgoing
  <2> QED
    BY <2>1
<1>2. CASE data # <<>>
  <2> DEFINE m == [chan |-> d, data |-> decoded(data)]
  <2>1. /\ decoded(data) \in Seq(Nat) /\ Len(decoded(data)) = Len(data)
        /\ DOMAIN decoded(data) = DOMAIN data
        /\ (\A i \in DOMAIN data : data[i] = to + i) =>
              \A i \in DOMAIN data : Fits(decoded(data)[i], to + i)
    BY Decoding
  <2>2. m \in Messages /\ m.chan = d /\ m.data = decoded(data)
    BY <2>1 DEF Messages
  <2> HIDE DEF m
  <2>3. u \o copyToOutgoing(d, data) = Append(u, m)
    BY <1>2, <2>2 DEF copyToOutgoing, m
  <2>4. m.chan = c => more = Len(m.data) /\ \A i \in DOMAIN m.data : Fits(m.data[i], to + i)
    BY <2>1, <2>2
  <2>5. m.chan # c => more = 0
    BY <2>2
  <2>6. Way(c, Append(u, m), from, to + more)
    BY <2>2, <2>4, <2>5, WayGrows
  <2> QED
    BY <2>2, <2>3, <2>6
<1> QED
  BY <1>1, <1>2

\* The messages about both, if anything was read.
LEMMA MessagesAdded ==
    ASSUME NEW u \in Seq(Messages), NEW c \in Channels, NEW data \in [Channels -> Seq(Nat)],
           NEW from \in Nat, NEW to \in Nat, Way(c, u, from, to),
           \A i \in DOMAIN data[c] : data[c][i] = to + i
    PROVE  LET next == u \o copyToOutgoing("out", data["out"]) \o copyToOutgoing("err", data["err"])
           IN  next \in Seq(Messages) /\ Way(c, next, from, to + Len(data[c]))
<1> DEFINE outs == IF c = "out" THEN Len(data["out"]) ELSE 0
           errs == IF c = "err" THEN Len(data["err"]) ELSE 0
           v    == u \o copyToOutgoing("out", data["out"])
<1>1. /\ "out" \in Channels /\ "err" \in Channels
      /\ data["out"] \in Seq(Nat) /\ data["err"] \in Seq(Nat)
  BY DEF Channels
<1>2. outs \in Nat /\ errs \in Nat /\ (to + outs) + errs = to + Len(data[c]) /\ to + outs \in Nat
  <2>1. CASE c = "out"
    BY <1>1, <2>1
  <2>2. CASE c = "err"
    BY <1>1, <2>2
  <2> QED
    BY <2>1, <2>2 DEF Channels
<1>3. c = "out" => \A i \in DOMAIN data["out"] : data["out"][i] = to + i
  OBVIOUS
<1>4. v \in Seq(Messages) /\ Way(c, v, from, to + outs)
  BY <1>1, <1>2, <1>3, MessageAdded
<1>5. c = "err" => to + outs = to /\ \A i \in DOMAIN data["err"] : data["err"][i] = to + i
  OBVIOUS
<1>6. c = "err" => \A i \in DOMAIN data["err"] : data["err"][i] = (to + outs) + i
  BY <1>5
<1> HIDE DEF v
<1>e. errs = IF c = "err" THEN Len(data["err"]) ELSE 0
  OBVIOUS
<1> HIDE DEF outs, errs
<1>7. /\ v \o copyToOutgoing("err", data["err"]) \in Seq(Messages)
      /\ Way(c, v \o copyToOutgoing("err", data["err"]), from, (to + outs) + errs)
  BY <1>1, <1>2, <1>4, <1>6, <1>e, MessageAdded
<1>8. /\ v \o copyToOutgoing("err", data["err"]) \in Seq(Messages)
      /\ Way(c, v \o copyToOutgoing("err", data["err"]), from, to + Len(data[c]))
  BY <1>2, <1>7
<1> QED
  BY <1>8 DEF v

\* None of them says that the program finished.
LEMMA NotSaidYet ==
    ASSUME NEW u \in Seq(Messages), NEW data \in [Channels -> Seq(Nat)]
    PROVE  LET next == u \o copyToOutgoing("out", data["out"]) \o copyToOutgoing("err", data["err"])
           IN  /\ next \in Seq(Messages) /\ Len(next) >= Len(u)
               /\ \A j \in DOMAIN next :
                     next[j] = FinishedMessage => j \in DOMAIN u /\ u[j] = FinishedMessage
<1>1. ASSUME NEW v \in Seq(Messages), NEW d \in Channels
      PROVE  LET next == v \o copyToOutgoing(d, data[d])
             IN  /\ next \in Seq(Messages) /\ Len(next) >= Len(v)
                 /\ \A j \in DOMAIN next :
                       next[j] = FinishedMessage => j \in DOMAIN v /\ v[j] = FinishedMessage
  <2> DEFINE next == v \o copyToOutgoing(d, data[d])
             m    == [chan |-> d, data |-> decoded(data[d])]
  <2>1. CASE data[d] = <<>>
    <3>1. next = v
      BY <2>1 DEF copyToOutgoing
    <3> QED
      BY <3>1
  <2>2. CASE data[d] # <<>>
    <3>1. data[d] \in Seq(Nat) /\ Len(data[d]) > 0
      BY <2>2
    <3>2. decoded(data[d]) \in Seq(Nat) /\ Len(decoded(data[d])) = Len(data[d])
      <4>1. 0 \in Nat
        OBVIOUS
      <4> QED
        BY <3>1, <4>1, Decoding
    <3>3. m \in Messages /\ m.data = decoded(data[d])
      BY <3>2 DEF Messages
    <3>4. m # FinishedMessage
      <4>1. FinishedMessage.data = <<>> /\ Len(<<>>) = 0
        BY DEF FinishedMessage
      <4> QED
        BY <3>1, <3>2, <3>3, <4>1
    <3> HIDE DEF m
    <3>5. next = Append(v, m)
      BY <2>2 DEF copyToOutgoing, m
    <3> HIDE DEF next
    <3>6. /\ next \in Seq(Messages) /\ Len(next) = Len(v) + 1 /\ next[Len(v) + 1] = m
          /\ DOMAIN next = 1 .. Len(v) + 1
          /\ \A j \in 1 .. Len(v) : next[j] = v[j]
      BY <3>3, <3>5
    <3>7. ASSUME NEW j \in DOMAIN next, next[j] = FinishedMessage
          PROVE  j \in DOMAIN v /\ v[j] = FinishedMessage
      <4>1. j # Len(v) + 1
        BY <3>4, <3>6, <3>7
      <4>2. j \in 1 .. Len(v) /\ DOMAIN v = 1 .. Len(v)
        BY <3>6, <4>1
      <4> QED
        BY <3>6, <3>7, <4>2
    <3>8. Len(next) >= Len(v)
      BY <3>6
    <3> QED
      BY <3>6, <3>7, <3>8 DEF next
  <2> QED
    BY <2>1, <2>2
<1> DEFINE v == u \o copyToOutgoing("out", data["out"])
           w == v \o copyToOutgoing("err", data["err"])
<1>2. "out" \in Channels /\ "err" \in Channels
  BY DEF Channels
<1>3. /\ v \in Seq(Messages) /\ Len(v) >= Len(u)
      /\ \A j \in DOMAIN v : v[j] = FinishedMessage => j \in DOMAIN u /\ u[j] = FinishedMessage
  BY <1>1, <1>2
<1> HIDE DEF v
<1>4. /\ w \in Seq(Messages) /\ Len(w) >= Len(v)
      /\ \A j \in DOMAIN w : w[j] = FinishedMessage => j \in DOMAIN v /\ v[j] = FinishedMessage
  BY <1>1, <1>2, <1>3
<1>5. Len(w) >= Len(u)
  <2>1. Len(w) \in Nat /\ Len(v) \in Nat /\ Len(u) \in Nat
    BY <1>3, <1>4
  <2> QED
    BY <2>1, <1>3, <1>4
<1> HIDE DEF w
<1>6. /\ w \in Seq(Messages) /\ Len(w) >= Len(u)
      /\ \A j \in DOMAIN w : w[j] = FinishedMessage => j \in DOMAIN u /\ u[j] = FinishedMessage
  BY <1>3, <1>4, <1>5
<1> QED
  BY <1>6 DEF v, w

\* finished may follow.
LEMMA ThenFinished ==
    ASSUME NEW u \in Seq(Messages), NEW c \in Channels, NEW from \in Nat, NEW to \in Nat,
           Way(c, u, from, to), NEW then, then = <<>> \/ then = <<FinishedMessage>>
    PROVE  u \o then \in Seq(Messages) /\ Way(c, u \o then, from, to)
<1>1. CASE then = <<>>
  <2>1. u \o then = u
    BY <1>1
  <2> QED
    BY <2>1
<1>2. CASE then = <<FinishedMessage>>
  <2>1. FinishedMessage \in Messages /\ FinishedMessage.data = <<>>
    BY DEF FinishedMessage, Messages
  <2> DEFINE m == FinishedMessage
  <2>2. m \in Messages /\ Len(m.data) = 0 /\ DOMAIN m.data = {}
    BY <2>1
  <2> HIDE DEF m
  <2>3. Way(c, Append(u, m), from, to + 0)
    <3>1. PICK n \in Nat : n = 0
      OBVIOUS
    <3>2. /\ m.chan = c => n = Len(m.data) /\ \A i \in DOMAIN m.data : Fits(m.data[i], to + i)
          /\ m.chan # c => n = 0
      BY <2>2, <3>1
    <3>3. Way(c, Append(u, m), from, to + n)
      BY <2>2, <3>2, WayGrows
    <3> QED
      BY <3>1, <3>3
  <2>4. u \o <<m>> = Append(u, m) /\ to + 0 = to /\ Append(u, m) \in Seq(Messages)
    BY <2>2
  <2>5. u \o then = Append(u, m)
    BY <1>2, <2>4 DEF m
  <2> QED
    BY <2>3, <2>4, <2>5
<1> QED
  BY <1>1, <1>2

\* What is read of a pipe, and what stays there.
Taken(data, left, all) ==
    /\ data \in Seq(Nat) /\ left \in Seq(Nat) /\ Len(data) + Len(left) = Len(all)
    /\ \A i \in DOMAIN data : data[i] = all[i]
    /\ \A i \in DOMAIN left : left[i] = all[Len(data) + i]

\* Nothing, everything, or as much as is asked for.
LEMMA TakeNothing == ASSUME NEW s \in Seq(Nat) PROVE Taken(<<>>, s, s)
BY DEF Taken

\* What is read is everything.
LEMMA TakeAll == ASSUME NEW s \in Seq(Nat) PROVE Taken(s, <<>>, s)
BY DEF Taken

\* What is read is a chunk, or less.
LEMMA TakeSome ==
    ASSUME NEW s \in Seq(Nat), NEW n \in Nat \ {0}
    PROVE  Taken(Upto(s, n), After(s, n), s)
<1>1. Len(s) \in Nat
  OBVIOUS
<1>2. CASE n < Len(s)
  <2>1. Upto(s, n) = SubSeq(s, 1, n) /\ After(s, n) = SubSeq(s, n + 1, Len(s))
    BY <1>2 DEF Upto, After
  <2>2. /\ SubSeq(s, 1, n) \in Seq(Nat) /\ Len(SubSeq(s, 1, n)) = n
        /\ \A i \in 1 .. n : SubSeq(s, 1, n)[i] = s[i]
    BY <1>1, <1>2
  <2>3. /\ SubSeq(s, n + 1, Len(s)) \in Seq(Nat) /\ Len(SubSeq(s, n + 1, Len(s))) = Len(s) - n
        /\ \A i \in 1 .. Len(s) - n : SubSeq(s, n + 1, Len(s))[i] = s[n + i]
    BY <1>1, <1>2
  <2> DEFINE head == Upto(s, n)
             tail == After(s, n)
  <2>4. /\ head \in Seq(Nat) /\ Len(head) = n /\ \A i \in 1 .. n : head[i] = s[i]
        /\ tail \in Seq(Nat) /\ Len(tail) = Len(s) - n
        /\ \A i \in 1 .. Len(s) - n : tail[i] = s[n + i]
    BY <2>1, <2>2, <2>3
  <2> HIDE DEF head, tail
  <2>5. Len(head) + Len(tail) = Len(s) /\ DOMAIN head = 1 .. n /\ DOMAIN tail = 1 .. Len(s) - n
    BY <1>1, <2>4
  <2>6. Taken(head, tail, s)
    BY <2>4, <2>5 DEF Taken
  <2> QED
    BY <2>6 DEF head, tail
<1>3. CASE ~(n < Len(s))
  <2>1. Upto(s, n) = SubSeq(s, 1, Len(s)) /\ After(s, n) = SubSeq(s, n + 1, Len(s))
    BY <1>3 DEF Upto, After
  <2>2. SubSeq(s, 1, Len(s)) = s
    OBVIOUS
  <2>3. SubSeq(s, n + 1, Len(s)) = <<>>
    BY <1>1, <1>3
  <2>4. Taken(s, <<>>, s)
    BY TakeAll
  <2>5. Upto(s, n) = s /\ After(s, n) = <<>>
    BY <2>1, <2>2, <2>3
  <2> QED
    BY <2>4, <2>5
<1> QED
  BY <1>2, <1>3

\* Output is sent on by a launcher.
LEMMA OutputSent ==
    ASSUME DataTypes, NEW c \in Channels, OutputKept(c), NEW data \in [Channels -> Seq(Nat)],
           NEW then, then = <<>> \/ then = <<FinishedMessage>>,
           UNCHANGED <<kind, received, written>>, Taken(data[c], pipe'[c], pipe[c]),
           up' = up \o copyToOutgoing("out", data["out"]) \o copyToOutgoing("err", data["err"])
                    \o then,
           Deleted => Deleted'
    PROVE  OutputKept(c)'
<1>1. PICK to \in Nat :
         /\ Way(c, up, Len(received[c]), to)
         /\ to + Len(pipe[c]) <= written[c]
         /\ ~Deleted => to + Len(pipe[c]) = written[c]
         /\ \A i \in DOMAIN pipe[c] : pipe[c][i] = to + i
  BY DEF OutputKept
<1>2. /\ up \in Seq(Messages) /\ Len(received[c]) \in Nat
      /\ pipe[c] \in Seq(Nat) /\ written[c] \in Nat
  BY DEF DataTypes, Messages
<1>3. /\ data[c] \in Seq(Nat) /\ pipe'[c] \in Seq(Nat)
      /\ Len(data[c]) + Len(pipe'[c]) = Len(pipe[c])
      /\ \A i \in DOMAIN data[c] : data[c][i] = pipe[c][i]
      /\ \A i \in DOMAIN pipe'[c] : pipe'[c][i] = pipe[c][Len(data[c]) + i]
  BY DEF Taken
<1>4. Len(data[c]) \in Nat /\ Len(pipe'[c]) \in Nat /\ Len(pipe[c]) \in Nat
  BY <1>2, <1>3
<1>5. \A i \in DOMAIN data[c] : data[c][i] = to + i
  <2> TAKE i \in DOMAIN data[c]
  <2>1. i \in DOMAIN pipe[c]
    BY <1>2, <1>3, <1>4
  <2> QED
    BY <1>1, <1>3, <2>1
<1> DEFINE next == up \o copyToOutgoing("out", data["out"]) \o copyToOutgoing("err", data["err"])
           from == Len(received[c])
           to1  == to + Len(data[c])
<1>6. next \in Seq(Messages) /\ Way(c, next, from, to1)
  BY <1>1, <1>2, <1>5, MessagesAdded
<1>a. up' = next \o then
  OBVIOUS
<1>b. from \in Nat /\ to1 \in Nat
  BY <1>2, <1>4
<1> HIDE DEF next, from
<1>7. Way(c, up', from, to1)
  <2> HIDE DEF to1
  <2> QED
    BY <1>6, <1>a, <1>b, ThenFinished
<1>8. Way(c, up', Len(received'[c]), to1)
  BY <1>7 DEF from
<1>9. \A i \in DOMAIN pipe'[c] : pipe'[c][i] = to1 + i
  <2> TAKE i \in DOMAIN pipe'[c]
  <2>1. i \in 1 .. Len(pipe'[c])
    BY <1>3
  <2>2. Len(data[c]) + i \in 1 .. Len(pipe[c])
    BY <1>3, <1>4, <2>1
  <2>3. Len(data[c]) + i \in DOMAIN pipe[c]
    BY <1>2, <2>2
  <2>4. pipe'[c][i] = to + (Len(data[c]) + i)
    BY <1>1, <1>3, <2>3
  <2>5. to + (Len(data[c]) + i) = to1 + i
    BY <1>4, <2>1
  <2> QED
    BY <2>4, <2>5
<1>10. to1 + Len(pipe'[c]) = to + Len(pipe[c])
  BY <1>3, <1>4
<1>11. /\ to1 + Len(pipe'[c]) <= written'[c]
       /\ ~Deleted' => to1 + Len(pipe'[c]) = written'[c]
  BY <1>1, <1>10
<1>12. \A i \in DOMAIN received'[c] :
          received'[c][i] = i \/ (kind' \in Remote /\ Fits(received'[c][i], i))
  BY DEF OutputKept
<1> HIDE DEF to1
<1> QED
  BY <1>b, <1>8, <1>9, <1>11, <1>12 DEF OutputKept

\* Output is handed to the client of a QProcess of its own.
LEMMA OutputShown ==
    ASSUME DataTypes, NEW c \in Channels, OutputKept(c), NEW data \in Seq(Nat),
           UNCHANGED <<kind, written, up>>, Taken(data, pipe'[c], pipe[c]),
           received'[c] = received[c] \o data, up = <<>>,
           Deleted => Deleted'
    PROVE  OutputKept(c)'
<1>1. PICK to \in Nat :
         /\ Way(c, up, Len(received[c]), to)
         /\ to + Len(pipe[c]) <= written[c]
         /\ ~Deleted => to + Len(pipe[c]) = written[c]
         /\ \A i \in DOMAIN pipe[c] : pipe[c][i] = to + i
  BY DEF OutputKept
<1>2. /\ received[c] \in Seq(Nat) /\ Len(received[c]) \in Nat
      /\ pipe[c] \in Seq(Nat) /\ written[c] \in Nat
  BY DEF DataTypes
<1>3. /\ pipe'[c] \in Seq(Nat)
      /\ Len(data) + Len(pipe'[c]) = Len(pipe[c])
      /\ \A i \in DOMAIN data : data[i] = pipe[c][i]
      /\ \A i \in DOMAIN pipe'[c] : pipe'[c][i] = pipe[c][Len(data) + i]
  BY DEF Taken
<1>4. Len(data) \in Nat /\ Len(pipe'[c]) \in Nat /\ Len(pipe[c]) \in Nat
  BY <1>2, <1>3
<1>5. to = Len(received[c])
  <2>1. Len(<<>>) = 0
    OBVIOUS
  <2> QED
    BY <1>1, <2>1 DEF Way
<1>6. \A i \in DOMAIN data : data[i] = to + i
  <2> TAKE i \in DOMAIN data
  <2>1. i \in DOMAIN pipe[c]
    BY <1>2, <1>3, <1>4
  <2> QED
    BY <1>1, <1>3, <2>1
<1>7. Len(received'[c]) = to + Len(data) /\ to + Len(data) \in Nat
  BY <1>2, <1>4, <1>5
<1>8. \A i \in DOMAIN received'[c] :
          received'[c][i] = i \/ (kind' \in Remote /\ Fits(received'[c][i], i))
  <2> TAKE i \in DOMAIN received'[c]
  <2>1. i \in 1 .. Len(received[c]) + Len(data)
    BY <1>2, <1>4
  <2>2. CASE i <= Len(received[c])
    <3>1. i \in DOMAIN received[c] /\ received'[c][i] = received[c][i]
      BY <1>2, <1>4, <2>1, <2>2
    <3> QED
      BY <3>1 DEF OutputKept
  <2>3. CASE i > Len(received[c])
    <3>1. i - to \in DOMAIN data /\ received'[c][i] = data[i - to]
      BY <1>2, <1>4, <1>5, <2>1, <2>3
    <3>2. to + (i - to) = i
      BY <2>1
    <3> QED
      BY <1>6, <3>1, <3>2
  <2> QED
    BY <1>2, <2>1, <2>2, <2>3
<1> DEFINE to1 == to + Len(data)
<1>9. Way(c, up', Len(received'[c]), to1)
  <2>1. to1 \in Nat /\ up' = <<>> /\ Len(received'[c]) = to1
    BY <1>7
  <2> HIDE DEF to1
  <2> QED
    BY <2>1, WayStarts
<1>10. \A i \in DOMAIN pipe'[c] : pipe'[c][i] = to1 + i
  <2> TAKE i \in DOMAIN pipe'[c]
  <2>1. i \in 1 .. Len(pipe'[c])
    BY <1>3
  <2>2. Len(data) + i \in 1 .. Len(pipe[c])
    BY <1>3, <1>4, <2>1
  <2>3. Len(data) + i \in DOMAIN pipe[c]
    BY <1>2, <2>2
  <2>4. pipe'[c][i] = to + (Len(data) + i)
    BY <1>1, <1>3, <2>3
  <2>5. to + (Len(data) + i) = to1 + i
    BY <1>4, <2>1
  <2> QED
    BY <2>4, <2>5
<1>11. to1 + Len(pipe'[c]) = to + Len(pipe[c])
  BY <1>3, <1>4
<1>12. /\ to1 \in Nat /\ to1 + Len(pipe'[c]) <= written'[c]
       /\ ~Deleted' => to1 + Len(pipe'[c]) = written'[c]
  BY <1>1, <1>7, <1>11
<1> HIDE DEF to1
<1> QED
  BY <1>8, <1>9, <1>10, <1>12 DEF OutputKept

(***************************************************************************)
(* What a step leaves alone.                                               *)
(***************************************************************************)

\* A step that touches no input keeps it.
LEMMA InputStill ==
    ASSUME InputKept, UNCHANGED <<kind, child, started, got, stdin, inbuf, sent, down>>
    PROVE  InputKept'
BY DEF InputKept, Held

\* Of a dead program only what it has read matters.
LEMMA InputDead ==
    ASSUME InputKept, UNCHANGED <<got, sent>>, child' = "dead"
    PROVE  InputKept'
BY DEF InputKept

\* A step that touches no output keeps it.
LEMMA OutputStill ==
    ASSUME OutputsKept, UNCHANGED <<kind, received, up, pipe, written>>, Deleted => Deleted'
    PROVE  OutputsKept'
BY DEF OutputsKept, OutputKept

\* A step that says nothing and does not revive the program keeps the end the last.
LEMMA FinishedStill ==
    ASSUME FinishedLast, UNCHANGED <<kind, pipe, finished, up>>,
           child = "dead" /\ ~running => child' = "dead" /\ ~running',
           ~running' => ~running
    PROVE  FinishedLast'
BY DEF FinishedLast

(***************************************************************************)
(* The steps of input.                                                     *)
(***************************************************************************)

\* The buffer of a program of the client's own machine gets what was sent.
LEMMA InputBuffered ==
    ASSUME DataTypes, InputKept, NEW data \in Seq(Bytes), kind \notin Remote,
           UNCHANGED <<kind, child, got, stdin>>, inbuf' = inbuf \o data, sent' = sent \o data
    PROVE  InputKept'
<1>1. got \in Seq(Bytes) /\ stdin \in Seq(Bytes) /\ inbuf \in Seq(Bytes) /\ sent \in Seq(Bytes)
  BY DEF DataTypes
<1>2. /\ Len(got) \in Nat /\ Len(stdin) \in Nat /\ Len(inbuf) \in Nat /\ Len(sent) \in Nat
      /\ Len(data) \in Nat /\ 0 \in Nat /\ Len(got) + Len(stdin) \in Nat
  BY <1>1
<1>3. Part(got, 0, sent \o data)
  BY <1>1, <1>2, PartStays DEF InputKept
<1>4. ASSUME child # "dead"
      PROVE  /\ Part(stdin, Len(got), sent \o data)
             /\ Part(inbuf \o data, Len(got) + Len(stdin), sent \o data)
             /\ Len(got) + Len(stdin) + Len(inbuf \o data) = Len(sent \o data)
  <2>1. /\ Part(stdin, Len(got), sent) /\ Part(inbuf, Len(got) + Len(stdin), sent)
        /\ Len(got) + Len(stdin) + Len(inbuf) = Len(sent)
    BY <1>4 DEF InputKept, Held
  <2>2. Part(stdin, Len(got), sent \o data)
    BY <1>1, <1>2, <2>1, PartStays
  <2>3. Part(inbuf, Len(got) + Len(stdin), sent \o data)
    BY <1>1, <1>2, <2>1, PartStays
  <2>4. Part(data, (Len(got) + Len(stdin)) + Len(inbuf), sent \o data)
    BY <1>1, <2>1, PartAtEnd
  <2>5. sent \o data \in Seq(Bytes)
    BY <1>1
  <2>6. Part(inbuf \o data, Len(got) + Len(stdin), sent \o data)
    BY <1>1, <1>2, <2>3, <2>4, <2>5, PartsJoin
  <2>7. Len(inbuf \o data) = Len(inbuf) + Len(data) /\ Len(sent \o data) = Len(sent) + Len(data)
    BY <1>1
  <2>8. Len(got) + Len(stdin) + Len(inbuf \o data) = Len(sent \o data)
    <3> DEFINE x == Len(inbuf \o data)
               y == Len(sent \o data)
    <3>1. x = Len(inbuf) + Len(data) /\ y = Len(sent) + Len(data)
      BY <2>7
    <3> HIDE DEF x, y
    <3>a. \A g, h, i, d \in Nat : g + h + (i + d) = (g + h + i) + d
      OBVIOUS
    <3>b. Len(got) + Len(stdin) + (Len(inbuf) + Len(data)) =
             (Len(got) + Len(stdin) + Len(inbuf)) + Len(data)
      BY <1>2, <3>a
    <3>2. Len(got) + Len(stdin) + x = y
      BY <2>1, <3>1, <3>b
    <3> QED
      BY <3>2 DEF x, y
  <2> QED
    BY <2>2, <2>6, <2>8
<1> QED
  BY <1>3, <1>4 DEF InputKept, Held

\* Bytes go from one place to the next.
LEMMA BytesMove ==
    ASSUME NEW S, NEW s \in Seq(S), NEW t \in Seq(S), NEW n \in 0 .. Len(t), NEW base \in Nat,
           NEW all \in Seq(S), Part(s, base, all), Part(t, base + Len(s), all)
    PROVE  LET s1 == s \o Upto(t, n)
               t1 == After(t, n)
           IN  /\ s1 \in Seq(S) /\ Len(s1) = Len(s) + n /\ Part(s1, base, all)
               /\ t1 \in Seq(S) /\ Len(t1) = Len(t) - n /\ Part(t1, base + Len(s1), all)
<1>1. Len(s) \in Nat /\ Len(t) \in Nat /\ n \in Nat /\ base + Len(s) \in Nat
  OBVIOUS
<1>2. /\ Upto(t, n) \in Seq(S) /\ Len(Upto(t, n)) = n /\ Part(Upto(t, n), base + Len(s), all)
      /\ After(t, n) \in Seq(S) /\ Len(After(t, n)) = Len(t) - n
      /\ Part(After(t, n), (base + Len(s)) + n, all)
  BY <1>1, PartsCut
<1>3. Part(s \o Upto(t, n), base, all)
  BY <1>2, PartsJoin
<1>4. s \o Upto(t, n) \in Seq(S) /\ Len(s \o Upto(t, n)) = Len(s) + n
  <2> DEFINE a == Upto(t, n)
  <2>1. a \in Seq(S) /\ Len(a) = n
    BY <1>2
  <2> HIDE DEF a
  <2>2. s \o a \in Seq(S) /\ Len(s \o a) = Len(s) + n
    BY <2>1, ConcatProperties
  <2> QED
    BY <2>2 DEF a
<1>5. base + Len(s \o Upto(t, n)) = (base + Len(s)) + n
  BY <1>1, <1>4
<1> QED
  BY <1>2, <1>3, <1>4, <1>5

\* From the buffer to the pipe, as much as fits.
LEMMA InputMoves ==
    ASSUME DataAssumption, DataTypes, InputKept, child = "live", Room > 0, MoveInput,
           UNCHANGED <<kind, child, started, got, sent, down>>
    PROVE  /\ InputKept'
           /\ stdin' \in Seq(Bytes) /\ Len(stdin') <= InCapacity /\ inbuf' \in Seq(Bytes)
<1>1. got \in Seq(Bytes) /\ stdin \in Seq(Bytes) /\ inbuf \in Seq(Bytes) /\ sent \in Seq(Bytes)
  BY DEF DataTypes
<1>2. /\ Len(got) \in Nat /\ Len(stdin) \in Nat /\ Len(inbuf) \in Nat
      /\ InCapacity \in Nat /\ Len(stdin) <= InCapacity
  BY <1>1 DEF DataTypes, DataAssumption
<1>3. fits \in 0 .. Len(inbuf) /\ Len(stdin) + fits <= InCapacity
  BY <1>2 DEF fits, Room
<1>4. Part(stdin, Len(got), sent) /\ Part(inbuf, Len(got) + Len(stdin), sent) /\ Part(got, 0, sent)
  BY DEF InputKept
<1>5. stdin' = stdin \o Upto(inbuf, fits) /\ inbuf' = After(inbuf, fits)
  BY DEF MoveInput
<1>6. PICK n \in 0 .. Len(inbuf) : n = fits
  BY <1>3
<1>7. /\ stdin \o Upto(inbuf, n) \in Seq(Bytes)
      /\ Len(stdin \o Upto(inbuf, n)) = Len(stdin) + n
      /\ Part(stdin \o Upto(inbuf, n), Len(got), sent)
      /\ After(inbuf, n) \in Seq(Bytes) /\ Len(After(inbuf, n)) = Len(inbuf) - n
      /\ Part(After(inbuf, n), Len(got) + Len(stdin \o Upto(inbuf, n)), sent)
  BY <1>1, <1>2, <1>4, BytesMove
<1>8. /\ stdin' \in Seq(Bytes) /\ Len(stdin') = Len(stdin) + n /\ Part(stdin', Len(got), sent)
      /\ inbuf' \in Seq(Bytes) /\ Len(inbuf') = Len(inbuf) - n
      /\ Part(inbuf', Len(got) + Len(stdin'), sent)
  BY <1>5, <1>6, <1>7
<1>9. Held' = Held
  <2>1. (Len(got) + (Len(stdin) + n)) + (Len(inbuf) - n) = (Len(got) + Len(stdin)) + Len(inbuf)
    BY <1>2
  <2>2. got' = got
    OBVIOUS
  <2> QED
    BY <1>8, <2>1, <2>2 DEF Held
<1>10. InputKept'
  BY <1>4, <1>8, <1>9 DEF InputKept
<1> QED
  BY <1>3, <1>6, <1>8, <1>10

(***************************************************************************)
(* Every step keeps the invariant.                                         *)
(***************************************************************************)

\* Deleted only says what it says.
LEMMA DeletedStays ==
    ASSUME UNCHANGED <<kind, child, running>> PROVE Deleted => Deleted'
BY DEF Deleted

\* Nothing has been sent or written at the start; a prelaunched program runs.
LEMMA InitKeeps == ASSUME DataAssumption, DataInit PROVE DataInv
<1>k. /\ kind \in Kinds /\ (child = IF kind = "prelaunch" THEN "live" ELSE "none")
      /\ running = (kind = "prelaunch")
      /\ wants = None /\ stdin = <<>> /\ got = <<>> /\ inbuf = <<>> /\ down = <<>> /\ up = <<>>
      /\ pipe = [c \in Channels |-> <<>>] /\ written = [c \in Channels |-> 0]
      /\ received = [c \in Channels |-> <<>>] /\ sent = <<>> /\ writes = 0
      /\ launcherUp \in BOOLEAN /\ phase = "select" /\ canReap = FALSE
      /\ m_echo = "StdoutStderr" /\ started = FALSE /\ finished = FALSE
  BY DEF DataInit
<1>c. \/ child = "live" /\ running = TRUE /\ kind = "prelaunch"
      \/ child = "none" /\ running = FALSE /\ kind # "prelaunch"
  BY <1>k
<1>e. DOMAIN down = {} /\ DOMAIN up = {}
  BY <1>k
<1>1. DataTypes
  <2>1. /\ <<>> \in Seq(Bytes) /\ <<>> \in Seq(Seq(Bytes)) /\ <<>> \in Seq(Nat) /\ Len(<<>>) = 0
        /\ <<>> \in Seq([chan : Channels \cup {None}, data : Seq(Nat)])
    OBVIOUS
  <2>2. {InCapacity, OutCapacity} \subseteq Nat /\ {MaxIn, MaxOut, MaxErr} \subseteq Nat
    BY DEF DataAssumption
  <2>3. writes \in Bytes /\ \A c \in Channels : 0 \in Nat /\ 0 <= Bound(c)
    BY <1>k, <2>2 DEF Bytes, Bound
  <2>4. /\ pipe \in [Channels -> Seq(Nat)] /\ written \in [Channels -> Nat]
        /\ received \in [Channels -> Seq(Nat)]
        /\ \A c \in Channels : Len(pipe[c]) <= OutCapacity /\ written[c] <= Bound(c)
    BY <1>k, <2>1, <2>2, <2>3
  <2>5. /\ child \in {"none", "live", "dead"} /\ running \in BOOLEAN
        /\ wants \in Channels \cup {None} /\ phase \in {"select", "blocked", "read", "reap"}
        /\ m_echo \in {"None", "StdoutOnly", "StderrOnly", "StdoutStderr"}
        /\ canReap \in BOOLEAN /\ started \in BOOLEAN /\ finished \in BOOLEAN
    BY <1>k, <1>c
  <2>6. /\ stdin \in Seq(Bytes) /\ got \in Seq(Bytes) /\ inbuf \in Seq(Bytes) /\ sent \in Seq(Bytes)
        /\ down \in Seq(Seq(Bytes)) /\ up \in Seq([chan : Channels \cup {None}, data : Seq(Nat)])
    BY <1>k, <2>1
  <2>7. Len(stdin) <= InCapacity
    BY <1>k, <2>1, <2>2
  <2> QED
    BY <1>k, <2>3, <2>4, <2>5, <2>6, <2>7 DEF DataTypes
<1>2. InStep
  BY <1>k, <1>c, <1>e DEF InStep, Remote
<1>3. InputKept
  <2>1. Part(<<>>, 0, <<>>) /\ Len(<<>>) = 0 /\ 0 + 0 = 0
    BY NoPart
  <2>2. /\ Part(got, 0, sent) /\ Part(stdin, Len(got), sent)
        /\ Part(inbuf, Len(got) + Len(stdin), sent)
    BY <1>k, <2>1
  <2>3. Held = 0 /\ Len(sent) = 0
    BY <1>k, <2>1 DEF Held
  <2>4. child = "live" => kind \notin Remote
    BY <1>c DEF Remote
  <2> QED
    BY <1>k, <2>2, <2>3, <2>4 DEF InputKept
<1>4. OutputsKept
  <2> SUFFICES ASSUME NEW c \in Channels PROVE OutputKept(c)
    BY DEF OutputsKept
  <2>1. Way(c, up, Len(received[c]), 0)
    <3>1. Way(c, <<>>, 0, 0)
      <4>1. 0 \in Nat
        OBVIOUS
      <4> QED
        BY <4>1, WayStarts
    <3> QED
      BY <1>k, <3>1
  <2>2. 0 \in Nat /\ 0 + Len(pipe[c]) = written[c] /\ 0 + Len(pipe[c]) <= written[c]
    BY <1>k
  <2>3. DOMAIN pipe[c] = {} /\ DOMAIN received[c] = {}
    BY <1>k
  <2> QED
    BY <2>1, <2>2, <2>3 DEF OutputKept
<1>5. FinishedLast
  BY <1>k, <1>e DEF FinishedLast
<1> QED
  BY <1>1, <1>2, <1>3, <1>4, <1>5 DEF DataInv

\* The echo has nothing to do with what arrives.
LEMMA SetEchoKeeps ==
    ASSUME DataInv, NEW echo \in {"None", "StdoutOnly", "StderrOnly", "StdoutStderr"}, SetEcho(echo)
    PROVE  DataInv'
<1> USE DEF SetEcho, program, launcher
<1>1. DataTypes'
  BY DEF DataInv, DataTypes
<1>2. InStep'
  BY DEF DataInv, InStep
<1>3. InputKept'
  BY InputStill DEF DataInv
<1>4. OutputsKept'
  BY OutputStill, DeletedStays DEF DataInv
<1>5. FinishedLast'
  BY FinishedStill DEF DataInv
<1> QED
  BY <1>1, <1>2, <1>3, <1>4, <1>5 DEF DataInv

\* A byte goes from the pipe to the program.
LEMMA ReadInputKeeps == ASSUME DataAssumption, DataInv, ReadInput PROVE DataInv'
<1> USE DEF ReadInput, launcher, client
<1>t. DataTypes
  BY DEF DataInv
<1>1. /\ got \in Seq(Bytes) /\ stdin \in Seq(Bytes) /\ inbuf \in Seq(Bytes) /\ sent \in Seq(Bytes)
      /\ Len(stdin) <= InCapacity /\ InCapacity \in Nat
  BY <1>t DEF DataTypes, DataAssumption
<1>2. /\ Len(got) \in Nat /\ Len(stdin) \in Nat /\ Len(stdin) >= 1 /\ 1 \in 0 .. Len(stdin)
      /\ 0 + Len(got) = Len(got)
  BY <1>1
<1>3. /\ Upto(stdin, 1) = <<Head(stdin)>> /\ After(stdin, 1) = Tail(stdin)
  <2>1. Upto(stdin, 1) = SubSeq(stdin, 1, 1)
    BY <1>1, <1>2 DEF Upto
  <2>2. SubSeq(stdin, 1, 1) = <<Head(stdin)>>
    <3> DEFINE a == SubSeq(stdin, 1, 1)
               b == <<Head(stdin)>>
    <3>1. a \in Seq(Bytes) /\ Len(a) = 1 /\ a[1] = stdin[1] /\ Head(stdin) = stdin[1]
      BY <1>1, <1>2
    <3>2. stdin[1] \in Bytes
      BY <1>1, <1>2
    <3>3. b \in Seq(Bytes) /\ Len(b) = 1 /\ b[1] = stdin[1]
      BY <3>1, <3>2
    <3> HIDE DEF a, b
    <3>4. \A i \in 1 .. Len(a) : a[i] = b[i]
      BY <3>1, <3>3
    <3>5. a = b
      BY <3>1, <3>3, <3>4, SeqEqual
    <3> QED
      BY <3>5 DEF a, b
  <2>3. SubSeq(stdin, 1 + 1, Len(stdin)) = Tail(stdin)
    <3>1. stdin # <<>>
      OBVIOUS
    <3>2. Tail(stdin) = SubSeq(stdin, 2, Len(stdin))
      BY <1>1, <3>1, TailIsSubSeq
    <3> QED
      BY <3>2
  <2> QED
    BY <2>1, <2>2, <2>3 DEF After
<1>4. Part(got, 0, sent) /\ Part(stdin, Len(got), sent) /\ Part(inbuf, Len(got) + Len(stdin), sent)
  BY DEF DataInv, InputKept
<1>5. /\ got \o <<Head(stdin)>> \in Seq(Bytes) /\ Len(got \o <<Head(stdin)>>) = Len(got) + 1
      /\ Part(got \o <<Head(stdin)>>, 0, sent)
      /\ Tail(stdin) \in Seq(Bytes) /\ Len(Tail(stdin)) = Len(stdin) - 1
      /\ Part(Tail(stdin), 0 + Len(got \o <<Head(stdin)>>), sent)
  <2>1. PICK n \in 0 .. Len(stdin) : n = 1
    BY <1>2
  <2>2. Part(stdin, 0 + Len(got), sent) /\ 0 \in Nat
    BY <1>2, <1>4
  <2>3. /\ got \o Upto(stdin, n) \in Seq(Bytes) /\ Len(got \o Upto(stdin, n)) = Len(got) + n
        /\ Part(got \o Upto(stdin, n), 0, sent)
        /\ After(stdin, n) \in Seq(Bytes) /\ Len(After(stdin, n)) = Len(stdin) - n
        /\ Part(After(stdin, n), 0 + Len(got \o Upto(stdin, n)), sent)
    BY <1>1, <1>4, <2>2, BytesMove
  <2> QED
    BY <1>3, <2>1, <2>3
<1>6. got \o <<Head(stdin)>> = got'
  BY <1>1
<1>7. /\ got' \in Seq(Bytes) /\ Len(got') = Len(got) + 1 /\ Part(got', 0, sent)
      /\ stdin' \in Seq(Bytes) /\ Len(stdin') = Len(stdin) - 1 /\ Part(stdin', Len(got'), sent)
  <2>1. 0 + Len(got') = Len(got')
    BY <1>2, <1>5, <1>6
  <2> QED
    BY <1>5, <1>6, <2>1
<1>8. Len(got') + Len(stdin') = Len(got) + Len(stdin)
  BY <1>2, <1>7
<1>9. DataTypes'
  <2>1. Len(stdin') <= InCapacity
    BY <1>1, <1>2, <1>7
  <2> QED
    BY <1>t, <1>7, <2>1 DEF DataTypes
<1>10. InStep'
  BY DEF DataInv, InStep
<1>11. InputKept'
  <2>1. Held' = Held
    BY <1>8 DEF Held
  <2> QED
    BY <1>4, <1>7, <1>8, <2>1 DEF DataInv, InputKept
<1>12. OutputsKept'
  BY OutputStill, DeletedStays DEF DataInv
<1>13. FinishedLast'
  BY FinishedStill DEF DataInv
<1> QED
  BY <1>9, <1>10, <1>11, <1>12, <1>13 DEF DataInv

\* What the program had not read is lost, and what it wrote stays in its pipes.
LEMMA DieKeeps == ASSUME DataAssumption, DataInv, Die PROVE DataInv'
<1> USE DEF Die, launcher, client
<1>1. DataTypes'
  <2>1. <<>> \in Seq(Bytes) /\ Len(<<>>) = 0 /\ InCapacity \in Nat
    BY DEF DataAssumption
  <2> QED
    BY <2>1 DEF DataInv, DataTypes
<1>2. InStep'
  BY DEF DataInv, InStep
<1>3. InputKept'
  BY InputDead DEF DataInv
<1>4. OutputsKept'
  BY OutputStill DEF DataInv, Deleted
<1>5. FinishedLast'
  BY DEF DataInv, FinishedLast
<1> QED
  BY <1>1, <1>2, <1>3, <1>4, <1>5 DEF DataInv

\* One more byte is written, to a pipe that has room, or the program waits.
LEMMA WriteOutputKeeps ==
    ASSUME DataAssumption, DataInv, NEW c \in Channels, WriteOutput(c)
    PROVE  DataInv'
<1> USE DEF WriteOutput, launcher, client
<1>t. DataTypes
  BY DEF DataInv
<1>1. /\ pipe \in [Channels -> Seq(Nat)] /\ written \in [Channels -> Nat]
      /\ \A d \in Channels : Len(pipe[d]) <= OutCapacity /\ written[d] <= Bound(d)
      /\ OutCapacity \in Nat /\ \A d \in Channels : Bound(d) \in Nat
  BY <1>t DEF DataTypes, DataAssumption, Bound
<1>2. \/ /\ pipe' = [pipe EXCEPT ![c] = Append(@, written[c] + 1)]
         /\ written' = [written EXCEPT ![c] = @ + 1]
         /\ Len(pipe[c]) < OutCapacity /\ wants' = None
      \/ UNCHANGED <<pipe, written>> /\ wants' = c
  OBVIOUS
<1>3. DataTypes'
  <2>1. CASE UNCHANGED <<pipe, written>> /\ wants' = c
    BY <1>t, <2>1 DEF DataTypes
  <2>2. CASE /\ pipe' = [pipe EXCEPT ![c] = Append(@, written[c] + 1)]
             /\ written' = [written EXCEPT ![c] = @ + 1]
             /\ Len(pipe[c]) < OutCapacity /\ wants' = None
    <3>1. /\ written[c] + 1 \in Nat /\ Append(pipe[c], written[c] + 1) \in Seq(Nat)
          /\ Len(Append(pipe[c], written[c] + 1)) = Len(pipe[c]) + 1 /\ Len(pipe[c]) \in Nat
      BY <1>1
    <3>2. /\ pipe' \in [Channels -> Seq(Nat)] /\ written' \in [Channels -> Nat]
      BY <1>1, <2>2, <3>1
    <3>3. \A d \in Channels : Len(pipe'[d]) <= OutCapacity /\ written'[d] <= Bound(d)
      <4> TAKE d \in Channels
      <4>1. CASE d = c
        BY <1>1, <2>2, <3>1, <4>1
      <4>2. CASE d # c
        BY <1>1, <2>2, <4>2
      <4> QED
        BY <4>1, <4>2
    <3> QED
      BY <1>t, <2>2, <3>2, <3>3 DEF DataTypes, Bound
  <2> QED
    BY <1>2, <2>1, <2>2
<1>4. InStep'
  BY DEF DataInv, InStep
<1>5. InputKept'
  BY InputStill DEF DataInv
<1>6. OutputsKept'
  <2> SUFFICES ASSUME NEW d \in Channels PROVE OutputKept(d)'
    BY DEF OutputsKept
  <2>k. OutputKept(d)
    BY DEF DataInv, OutputsKept
  <2>1. CASE pipe'[d] = pipe[d] /\ written'[d] = written[d]
    BY <2>k, <2>1 DEF OutputKept, Deleted
  <2>2. CASE /\ pipe'[d] = Append(pipe[d], written[d] + 1) /\ written'[d] = written[d] + 1
    <3>1. ~Deleted
      BY DEF Deleted
    <3>2. PICK to \in Nat :
             /\ Way(d, up, Len(received[d]), to)
             /\ to + Len(pipe[d]) = written[d]
             /\ \A i \in DOMAIN pipe[d] : pipe[d][i] = to + i
      BY <2>k, <3>1 DEF OutputKept
    <3>3. pipe[d] \in Seq(Nat) /\ written[d] \in Nat /\ Len(pipe[d]) \in Nat
      BY <1>1
    <3>4. /\ Len(pipe'[d]) = Len(pipe[d]) + 1 /\ DOMAIN pipe'[d] = 1 .. Len(pipe[d]) + 1
          /\ \A i \in 1 .. Len(pipe[d]) : pipe'[d][i] = pipe[d][i]
          /\ pipe'[d][Len(pipe[d]) + 1] = written[d] + 1
      BY <2>2, <3>3
    <3>5. to + Len(pipe'[d]) = written'[d]
      BY <2>2, <3>2, <3>3, <3>4
    <3>6. \A i \in DOMAIN pipe'[d] : pipe'[d][i] = to + i
      <4> TAKE i \in DOMAIN pipe'[d]
      <4>1. CASE i = Len(pipe[d]) + 1
        BY <3>2, <3>3, <3>4, <4>1
      <4>2. CASE i # Len(pipe[d]) + 1
        <5>0. i \in 1 .. Len(pipe[d]) + 1 /\ DOMAIN pipe[d] = 1 .. Len(pipe[d])
          BY <3>3, <3>4
        <5>1. i \in 1 .. Len(pipe[d]) /\ i \in DOMAIN pipe[d]
          BY <3>3, <4>2, <5>0
        <5> QED
          BY <3>2, <3>4, <5>1
      <4> QED
        BY <4>1, <4>2
    <3>7. Way(d, up', Len(received'[d]), to) /\ to + Len(pipe'[d]) <= written'[d]
      BY <2>2, <3>2, <3>3, <3>5
    <3>8. \A i \in DOMAIN received'[d] :
             received'[d][i] = i \/ (kind' \in Remote /\ Fits(received'[d][i], i))
      BY <2>k DEF OutputKept
    <3> QED
      BY <3>5, <3>6, <3>7, <3>8 DEF OutputKept
  <2>3. \/ pipe'[d] = pipe[d] /\ written'[d] = written[d]
        \/ pipe'[d] = Append(pipe[d], written[d] + 1) /\ written'[d] = written[d] + 1
    <3>1. CASE d = c
      BY <1>1, <1>2, <3>1
    <3>2. CASE d # c
      BY <1>1, <1>2, <3>2
    <3> QED
      BY <3>1, <3>2
  <2> QED
    BY <2>1, <2>2, <2>3
<1>7. FinishedLast'
  BY DEF DataInv, FinishedLast, InStep
<1> QED
  BY <1>3, <1>4, <1>5, <1>6, <1>7 DEF DataInv

\* Started: the program itself, its record, or the command that starts it.
LEMMA StartProgramKeeps == ASSUME DataAssumption, DataInv, StartProgram PROVE DataInv'
<1>t. DataTypes /\ InStep /\ InputKept /\ OutputsKept /\ FinishedLast
  BY DEF DataInv
<1>1. /\ ~started /\ ~finished /\ started' = TRUE
      /\ UNCHANGED <<kind, wants, stdin, pipe, written, got, launcherUp, phase, canReap, up,
                     m_echo, finished, writes, received, shown, due, echoes>>
  BY DEF StartProgram
<1>2. \/ /\ kind = "local" /\ child' = "live" /\ running' = TRUE
         /\ UNCHANGED <<inbuf, down, sent>>
      \/ /\ kind = "prelaunch" /\ inbuf' = Append(inbuf, Record) /\ sent' = Append(sent, Record)
         /\ UNCHANGED <<child, running, down>>
      \/ /\ kind \in Remote /\ down' = Append(down, <<>>)
         /\ UNCHANGED <<child, running, inbuf, sent>>
  <2>1. kind \in {"local", "prelaunch", "launcher", "fork"}
    BY <1>t DEF DataTypes, DataAssumption
  <2>2. CASE kind = "local"
    BY <2>2 DEF StartProgram
  <2>3. CASE kind = "prelaunch"
    BY <2>3 DEF StartProgram
  <2>4. CASE kind \in Remote
    BY <2>4 DEF StartProgram, Remote
  <2> QED
    BY <2>1, <2>2, <2>3, <2>4 DEF Remote
<1>3. Record \in Bytes
  BY DEF Record, Bytes, DataAssumption
<1>4. CASE kind = "local"
  <2>1. /\ child' = "live" /\ running' = TRUE
        /\ UNCHANGED <<inbuf, down, sent>> /\ kind \notin Remote
    BY <1>2, <1>4 DEF Remote
  <2>2. child = "none" /\ sent = <<>> /\ down = <<>> /\ up = <<>>
    BY <1>1, <1>4, <1>t, <2>1 DEF InStep
  <2>3. DataTypes'
    BY <1>t, <1>1, <2>1 DEF DataTypes
  <2>4. InStep'
    <3>1. DOMAIN <<>> = {}
      OBVIOUS
    <3> QED
      BY <1>t, <1>1, <1>4, <2>1, <2>2, <3>1 DEF InStep
  <2>5. InputKept'
    <3>1. Held = Len(sent)
      BY <1>t, <2>1, <2>2 DEF InputKept
    <3> QED
      BY <1>t, <1>1, <2>1, <2>2, <3>1 DEF InputKept, Held
  <2>6. OutputsKept'
    BY <1>t, <1>1, <1>4, <2>1, OutputStill DEF Deleted
  <2>7. FinishedLast'
    BY <1>t, <1>1, <2>1, <2>2, FinishedStill
  <2> QED
    BY <2>3, <2>4, <2>5, <2>6, <2>7 DEF DataInv
<1>5. CASE kind = "prelaunch"
  <2>1. /\ inbuf' = Append(inbuf, Record) /\ sent' = Append(sent, Record)
        /\ UNCHANGED <<child, running, down>> /\ kind \notin Remote
    BY <1>2, <1>5 DEF Remote
  <2>2. DataTypes'
    <3>1. Append(inbuf, Record) \in Seq(Bytes) /\ Append(sent, Record) \in Seq(Bytes)
      BY <1>t, <1>3 DEF DataTypes
    <3> QED
      BY <1>t, <1>1, <2>1, <3>1 DEF DataTypes
  <2>3. InStep'
    BY <1>t, <1>1, <1>5, <2>1 DEF InStep
  <2>4. InputKept'
    <3>1. inbuf \in Seq(Bytes) /\ sent \in Seq(Bytes)
      BY <1>t DEF DataTypes
    <3>2. inbuf' = inbuf \o <<Record>> /\ sent' = sent \o <<Record>> /\ <<Record>> \in Seq(Bytes)
      <4>1. <<Record>> \in Seq(Bytes)
        BY <1>3
      <4>2. \A s \in Seq(Bytes) : Append(s, Record) = s \o <<Record>>
        BY <1>3
      <4> QED
        BY <2>1, <3>1, <4>1, <4>2
    <3> QED
      BY <1>t, <1>1, <2>1, <3>2, InputBuffered
  <2>5. OutputsKept'
    BY <1>t, <1>1, <2>1, OutputStill, DeletedStays
  <2>6. FinishedLast'
    BY <1>t, <1>1, <2>1, FinishedStill
  <2> QED
    BY <2>2, <2>3, <2>4, <2>5, <2>6 DEF DataInv
<1>6. CASE kind \in Remote
  <2>1. /\ down' = Append(down, <<>>) /\ UNCHANGED <<child, running, inbuf, sent>>
        /\ kind # "local" /\ kind # "prelaunch"
    BY <1>2, <1>6 DEF Remote
  <2>2. /\ child = "none" /\ sent = <<>> /\ got = <<>> /\ stdin = <<>> /\ inbuf = <<>>
        /\ ~running /\ \A j \in DOMAIN down : down[j] # <<>>
    BY <1>1, <1>t, <2>1 DEF InStep
  <2>3. down \in Seq(Seq(Bytes)) /\ <<>> \in Seq(Bytes) /\ Len(down) \in Nat
    BY <1>t DEF DataTypes
  <2>4. DataTypes'
    <3>1. Append(down, <<>>) \in Seq(Seq(Bytes))
      BY <2>3
    <3> QED
      BY <1>t, <1>1, <2>1, <3>1 DEF DataTypes
  <2>5. InStep'
    BY <1>t, <1>1, <1>6, <2>1, <2>2 DEF InStep
  <2>6. InputKept'
    <3> DEFINE k == Len(down) + 1
    <3>1. /\ Len(down') = k /\ DOMAIN down' = 1 .. k /\ down'[k] = <<>>
          /\ \A j \in 1 .. k : j # k => j \in DOMAIN down /\ down'[j] = down[j]
      BY <2>1, <2>3
    <3>2. k \in DOMAIN down' /\ k \in Nat
      BY <2>3, <3>1
    <3>3. \A j \in DOMAIN down' : j # k => down'[j] # <<>>
      BY <2>2, <3>1
    <3> HIDE DEF k
    <3>4. Held' = 0 /\ Len(sent') = 0
      BY <1>1, <2>1, <2>2 DEF Held
    <3>5. Commands(k, down', Held', sent')
      <4> DEFINE at == [j \in k .. k |-> 0]
      <4>1. at \in [k .. Len(down') -> Nat] /\ at[k] = 0 /\ at[Len(down')] = 0
        BY <3>1, <3>2
      <4>2. k + 1 .. Len(down') = {}
        BY <3>1, <3>2
      <4> HIDE DEF at
      <4> QED
        BY <3>4, <4>1, <4>2 DEF Commands
    <3>6. \E l \in DOMAIN down' :
             /\ down'[l] = <<>> /\ \A j \in DOMAIN down' : j # l => down'[j] # <<>>
             /\ Commands(l, down', Held', sent')
      BY <3>1, <3>2, <3>3, <3>5
    <3>7. /\ Part(got', 0, sent') /\ Part(stdin', Len(got'), sent')
          /\ Part(inbuf', Len(got') + Len(stdin'), sent')
      BY <1>t, <1>1, <2>1, <2>2 DEF InputKept
    <3> QED
      BY <1>1, <1>6, <2>1, <2>2, <3>6, <3>7 DEF InputKept
  <2>7. OutputsKept'
    BY <1>t, <1>1, <2>1, OutputStill, DeletedStays
  <2>8. FinishedLast'
    BY <1>t, <1>1, <2>1, FinishedStill
  <2> QED
    BY <2>4, <2>5, <2>6, <2>7, <2>8 DEF DataInv
<1> QED
  BY <1>2, <1>4, <1>5, <1>6

\* What is written goes to the buffer, or into the command behind the others.
LEMMA WriteKeeps ==
    ASSUME DataAssumption, DataInv, NEW n \in 1 .. 2, Write(n)
    PROVE  DataInv'
<1>t. DataTypes /\ InStep /\ InputKept /\ OutputsKept /\ FinishedLast
  BY DEF DataInv
<1> DEFINE data == [i \in 1 .. n |-> writes + i]
<1>1. /\ writes + n <= MaxIn /\ writes' = writes + n
      /\ UNCHANGED <<kind, child, wants, stdin, pipe, written, got, running, launcherUp, phase,
                     canReap, up, m_echo, started, finished, received, shown, due, echoes>>
  BY DEF Write, program
<1>3. \/ /\ kind \in Remote /\ down' = Append(down, data) /\ inbuf' = inbuf
         /\ started => sent' = sent \o data
         /\ ~started => sent' = sent
      \/ /\ kind \notin Remote /\ running /\ inbuf' = inbuf \o data /\ down' = down
         /\ sent' = sent \o data
  BY DEF Write, buffered
<1>4. writes \in Nat /\ MaxIn \in Nat /\ writes' \in Bytes
  BY <1>t, <1>1 DEF DataTypes, Bytes, DataAssumption
<1>5. data \in Seq(Bytes) /\ Len(data) = n
  <2>1. \A i \in 1 .. n : writes + i \in Bytes
    BY <1>1, <1>4 DEF Bytes
  <2>2. data \in [1 .. n -> Bytes]
    BY <2>1
  <2> QED
    BY <2>2
<1>6. data # <<>>
  BY <1>5
<1> HIDE DEF data
<1>7. /\ inbuf \in Seq(Bytes) /\ sent \in Seq(Bytes) /\ down \in Seq(Seq(Bytes))
      /\ stdin \in Seq(Bytes) /\ got \in Seq(Bytes)
  BY <1>t DEF DataTypes
<1>8. /\ Len(got) \in Nat /\ Len(stdin) \in Nat /\ Len(got) + Len(stdin) \in Nat
      /\ Len(down) \in Nat /\ 0 \in Nat
  BY <1>7
<1>9. DataTypes'
  <2>1. inbuf' \in Seq(Bytes) /\ sent' \in Seq(Bytes) /\ down' \in Seq(Seq(Bytes))
    <3>1. inbuf \o data \in Seq(Bytes) /\ sent \o data \in Seq(Bytes)
      BY <1>5, <1>7, ConcatProperties
    <3>2. Append(down, data) \in Seq(Seq(Bytes))
      BY <1>5, <1>7
    <3> QED
      BY <1>3, <1>7, <3>1, <3>2
  <2> QED
    BY <1>t, <1>1, <1>4, <2>1 DEF DataTypes
<1>10. ASSUME kind \in Remote, down' = Append(down, data)
       PROVE  /\ DOMAIN down' = 1 .. Len(down) + 1 /\ down'[Len(down) + 1] = data
              /\ DOMAIN down = 1 .. Len(down) /\ \A j \in DOMAIN down : down'[j] = down[j]
  BY <1>7, <1>10
<1>11. InStep'
  <2>1. CASE kind \in Remote
    <3>1. /\ down' = Append(down, data) /\ inbuf' = inbuf
          /\ ~started => sent' = sent
      BY <1>3, <2>1
    <3>2. ASSUME \A j \in DOMAIN down : down[j] # <<>>
          PROVE  \A j \in DOMAIN down' : down'[j] # <<>>
      BY <1>6, <1>8, <1>10, <2>1, <3>1, <3>2
    <3> QED
      BY <1>t, <1>1, <2>1, <3>1, <3>2 DEF InStep
  <2>2. CASE kind \notin Remote
    <3>1. running /\ down' = down /\ sent' = sent \o data
      BY <1>3, <2>2
    <3>2. child # "none" /\ down = <<>> /\ DOMAIN <<>> = {}
      BY <1>t, <2>2, <3>1 DEF InStep
    <3>3. phase = "select"
      BY <1>t, <2>2 DEF InStep, Remote
    <3>4. kind # "prelaunch" => started
      BY <1>t, <3>2 DEF InStep
    <3> QED
      BY <1>t, <1>1, <2>2, <3>1, <3>2, <3>3, <3>4 DEF InStep
  <2> QED
    BY <2>1, <2>2
<1>12. InputKept'
  <2>1. CASE kind \notin Remote
    BY <1>t, <1>1, <1>3, <1>5, <2>1, InputBuffered
  <2>2. CASE kind \in Remote
    <3>1. /\ down' = Append(down, data) /\ inbuf' = inbuf
          /\ started => sent' = sent \o data
          /\ ~started => sent' = sent
      BY <1>3, <2>2
    <3>2. Part(got', 0, sent')
      BY <1>t, <1>1, <1>5, <1>7, <1>8, <3>1, PartStays DEF InputKept
    <3>3. ASSUME child # "dead"
          PROVE  Part(stdin', Len(got'), sent') /\ Part(inbuf', Len(got') + Len(stdin'), sent')
      <4>1. Part(stdin, Len(got), sent) /\ Part(inbuf, Len(got) + Len(stdin), sent)
        BY <1>t, <3>3 DEF InputKept
      <4>2. /\ Part(stdin, Len(got), sent \o data)
            /\ Part(inbuf, Len(got) + Len(stdin), sent \o data)
        BY <1>5, <1>7, <1>8, <4>1, PartStays
      <4> QED
        BY <1>1, <3>1, <4>1, <4>2
    <3>4. Held' = Held
      BY <1>1, <3>1 DEF Held
    <3>5. ASSUME child = "live"
          PROVE  Commands(0, down', Held', sent')
      <4>1. Commands(0, down, Held, sent) /\ started
        BY <1>t, <2>2, <3>5 DEF InputKept, InStep, Remote
      <4>2. 0 \in 0 .. Len(down)
        BY <1>8
      <4>3. Commands(0, Append(down, data), Held, sent \o data)
        BY <1>5, <1>7, <4>1, <4>2, CommandAdded
      <4> QED
        BY <3>1, <3>4, <4>1, <4>3
    <3>6. ASSUME child = "none", started
          PROVE  \E k \in DOMAIN down' :
                    /\ down'[k] = <<>> /\ \A j \in DOMAIN down' : j # k => down'[j] # <<>>
                    /\ Commands(k, down', Held', sent')
      <4>1. PICK k \in DOMAIN down :
               /\ down[k] = <<>> /\ \A j \in DOMAIN down : j # k => down[j] # <<>>
               /\ Commands(k, down, Held, sent)
        BY <1>t, <2>2, <3>6 DEF InputKept
      <4>2. k \in 0 .. Len(down)
        BY <1>7, <1>8
      <4>3. Commands(k, Append(down, data), Held, sent \o data)
        BY <1>5, <1>7, <4>1, <4>2, CommandAdded
      <4>4. k \in DOMAIN down' /\ down'[k] = <<>>
        BY <1>8, <1>10, <2>2, <3>1, <4>1
      <4>5. \A j \in DOMAIN down' : j # k => down'[j] # <<>>
        BY <1>6, <1>8, <1>10, <2>2, <3>1, <4>1
      <4> QED
        BY <3>1, <3>4, <3>6, <4>3, <4>4, <4>5
    <3> QED
      BY <1>1, <2>2, <3>2, <3>3, <3>5, <3>6 DEF InputKept
  <2> QED
    BY <2>1, <2>2
<1>13. OutputsKept'
  BY <1>t, <1>1, OutputStill, DeletedStays
<1>14. FinishedLast'
  BY <1>t, <1>1, FinishedStill
<1> QED
  BY <1>9, <1>11, <1>12, <1>13, <1>14 DEF DataInv

\* The launcher starts the program, or buffers what it is told to write.
LEMMA ReceiveCommandKeeps == ASSUME DataAssumption, DataInv, ReceiveCommand PROVE DataInv'
<1>t. DataTypes /\ InStep /\ InputKept /\ OutputsKept /\ FinishedLast
  BY DEF DataInv
<1>1. /\ phase = "select" /\ down # <<>> /\ down' = Tail(down)
      /\ UNCHANGED <<kind, wants, stdin, pipe, written, got, launcherUp, phase, canReap, up,
                     m_echo, started, finished, sent, writes, received, shown, due, echoes>>
  BY DEF ReceiveCommand, client
<1>2. /\ inbuf \in Seq(Bytes) /\ sent \in Seq(Bytes) /\ down \in Seq(Seq(Bytes))
      /\ stdin \in Seq(Bytes) /\ got \in Seq(Bytes)
  BY <1>t DEF DataTypes
<1>3. /\ Len(got) \in Nat /\ Len(stdin) \in Nat /\ Len(got) + Len(stdin) \in Nat
      /\ Len(inbuf) \in Nat /\ Held \in Nat
      /\ Held = (Len(got) + Len(stdin)) + Len(inbuf)
  BY <1>2 DEF Held
<1>4. /\ Len(down) \in Nat /\ Len(down) >= 1 /\ DOMAIN down = 1 .. Len(down)
      /\ Head(down) = down[1] /\ Head(down) \in Seq(Bytes) /\ 1 \in DOMAIN down
      /\ Tail(down) \in Seq(Seq(Bytes)) /\ Len(Tail(down)) = Len(down) - 1
      /\ DOMAIN Tail(down) = 1 .. Len(down) - 1
      /\ \A j \in 1 .. Len(down) - 1 : Tail(down)[j] = down[j + 1]
  BY <1>1, <1>2
<1>5. kind \in Remote
  BY <1>t, <1>1 DEF InStep
<1>6. \A j \in DOMAIN down' : j + 1 \in DOMAIN down /\ down'[j] = down[j + 1]
  BY <1>1, <1>4
<1>7. OutputsKept'
  <2>1. child = "dead" => UNCHANGED <<child, running>>
    <3>1. child = "dead" => Head(down) # <<>>
      BY <1>t, <1>4 DEF InStep
    <3> QED
      BY <3>1 DEF ReceiveCommand
  <2> QED
    BY <1>t, <1>1, <2>1, OutputStill DEF Deleted
<1>8. Part(got', 0, sent')
  BY <1>t, <1>1 DEF InputKept
<1>9. CASE Head(down) = <<>>
  <2>1. child' = "live" /\ running' = TRUE /\ inbuf' = inbuf
    BY <1>9 DEF ReceiveCommand
  <2>2. child = "none" /\ started /\ ~running
    BY <1>t, <1>4, <1>9 DEF InStep
  <2>3. PICK k \in DOMAIN down :
           /\ down[k] = <<>> /\ \A j \in DOMAIN down : j # k => down[j] # <<>>
           /\ Commands(k, down, Held, sent)
    BY <1>t, <1>5, <2>2 DEF InputKept
  <2>4. k = 1
    BY <1>4, <1>9, <2>3
  <2>5. Commands(0, down', Held, sent)
    <3>1. k \in 0 .. Len(down) /\ k # 0 /\ k - 1 = 0
      BY <1>4, <2>4
    <3>2. Commands(k - 1, Tail(down), Held, sent)
      BY <1>1, <1>2, <1>3, <2>3, <3>1, CommandTaken
    <3> QED
      BY <1>1, <3>1, <3>2
  <2>6. Held' = Held
    BY <1>1, <2>1 DEF Held
  <2>7. \A j \in DOMAIN down' : down'[j] # <<>>
    <3> TAKE j \in DOMAIN down'
    <3>1. j + 1 \in DOMAIN down /\ down'[j] = down[j + 1] /\ j + 1 # 1
      BY <1>1, <1>4, <1>6
    <3> QED
      BY <2>3, <2>4, <3>1
  <2>8. DataTypes'
    BY <1>t, <1>1, <1>4, <2>1 DEF DataTypes
  <2>9. InStep'
    BY <1>t, <1>1, <1>5, <2>1, <2>2, <2>7 DEF InStep, Remote
  <2>10. InputKept'
    BY <1>t, <1>1, <1>5, <1>8, <2>1, <2>2, <2>5, <2>6 DEF InputKept
  <2>11. FinishedLast'
    BY <1>t, <1>1, <2>1, <2>2 DEF FinishedLast
  <2> QED
    BY <1>7, <2>8, <2>9, <2>10, <2>11 DEF DataInv
<1>10. CASE Head(down) # <<>>
  <2>1. /\ UNCHANGED <<child, running>>
        /\ running => inbuf' = inbuf \o Head(down)
        /\ ~running => inbuf' = inbuf
    BY <1>10 DEF ReceiveCommand, buffered
  <2>2. /\ inbuf \o Head(down) \in Seq(Bytes)
        /\ Len(inbuf \o Head(down)) = Len(inbuf) + Len(Head(down))
    BY <1>2, <1>4, ConcatProperties
  <2>3. DataTypes'
    <3>1. inbuf' \in Seq(Bytes)
      BY <1>2, <2>1, <2>2
    <3> QED
      BY <1>t, <1>1, <1>4, <2>1, <3>1 DEF DataTypes
  <2>4. InStep'
    <3>1. ASSUME \A j \in DOMAIN down : down[j] # <<>>
          PROVE  \A j \in DOMAIN down' : down'[j] # <<>>
      BY <1>6, <3>1
    <3>2. child = "none" => inbuf' = inbuf
      BY <1>t, <2>1 DEF InStep
    <3> QED
      BY <1>t, <1>1, <1>5, <2>1, <3>1, <3>2 DEF InStep
  <2>5. FinishedLast'
    BY <1>t, <1>1, <2>1, FinishedStill
  <2>6. InputKept'
    <3>1. CASE child = "dead"
      BY <1>t, <1>1, <2>1, <3>1, InputDead
    <3>2. CASE child = "live"
      <4>1. running /\ Commands(0, down, Held, sent)
            /\ Part(stdin, Len(got), sent) /\ Part(inbuf, Len(got) + Len(stdin), sent)
        BY <1>t, <1>5, <3>2 DEF InputKept, InStep
      <4>2. /\ Part(Head(down), Held, sent)
            /\ Commands(0, Tail(down), Held + Len(Head(down)), sent)
        <5>1. PICK k \in 0 .. Len(down) : k = 0
          BY <1>4
        <5> QED
          BY <1>1, <1>2, <1>3, <4>1, <5>1, CommandTaken
      <4>3. Part(inbuf \o Head(down), Len(got) + Len(stdin), sent)
        BY <1>2, <1>3, <1>4, <4>1, <4>2, PartsJoin
      <4>4. Held' = Held + Len(Head(down))
        <5>1. PICK l \in Nat : l = Len(Head(down))
          BY <1>4
        <5>2. (Len(got) + Len(stdin)) + (Len(inbuf) + l) =
                 ((Len(got) + Len(stdin)) + Len(inbuf)) + l
          BY <1>3
        <5>3. Len(inbuf') = Len(inbuf) + Len(Head(down))
          BY <2>1, <2>2, <4>1
        <5> QED
          BY <1>1, <5>1, <5>2, <5>3 DEF Held
      <4> QED
        BY <1>1, <1>5, <1>8, <2>1, <3>2, <4>1, <4>2, <4>3, <4>4 DEF InputKept
    <3>3. CASE child = "none"
      <4>1. ~running /\ inbuf' = inbuf
        BY <1>t, <2>1, <3>3 DEF InStep
      <4>2. /\ Part(stdin', Len(got'), sent') /\ Part(inbuf', Len(got') + Len(stdin'), sent')
            /\ Held' = Held
        BY <1>t, <1>1, <3>3, <4>1 DEF InputKept, Held
      <4>3. ASSUME started
            PROVE  \E k \in DOMAIN down' :
                      /\ down'[k] = <<>> /\ \A j \in DOMAIN down' : j # k => down'[j] # <<>>
                      /\ Commands(k, down', Held', sent')
        <5>1. PICK k \in DOMAIN down :
                 /\ down[k] = <<>> /\ \A j \in DOMAIN down : j # k => down[j] # <<>>
                 /\ Commands(k, down, Held, sent)
          BY <1>t, <1>5, <3>3, <4>3 DEF InputKept
        <5>2. k # 1 /\ k \in 0 .. Len(down) /\ k # 0 /\ k - 1 \in DOMAIN down' /\ (k - 1) + 1 = k
          <6>1. k # 1
            BY <1>4, <1>10, <5>1
          <6>2. k \in 1 .. Len(down) /\ DOMAIN down' = 1 .. Len(down) - 1
            BY <1>1, <1>4
          <6> QED
            BY <1>4, <6>1, <6>2
        <5>3. Commands(k - 1, down', Held, sent)
          BY <1>1, <1>2, <1>3, <5>1, <5>2, CommandTaken
        <5>4. down'[k - 1] = <<>>
          BY <1>6, <5>1, <5>2
        <5>5. \A j \in DOMAIN down' : j # k - 1 => down'[j] # <<>>
          <6> TAKE j \in DOMAIN down'
          <6>1. j + 1 \in DOMAIN down /\ down'[j] = down[j + 1] /\ (j # k - 1 => j + 1 # k)
            BY <1>1, <1>4, <1>6, <5>2
          <6> QED
            BY <5>1, <6>1
        <5> QED
          BY <1>1, <4>2, <5>2, <5>3, <5>4, <5>5
      <4> QED
        BY <1>1, <1>5, <1>8, <2>1, <3>3, <4>2, <4>3 DEF InputKept
    <3> QED
      BY <1>t, <3>1, <3>2, <3>3 DEF DataTypes
  <2> QED
    BY <1>7, <2>3, <2>4, <2>5, <2>6 DEF DataInv
<1> QED
  BY <1>9, <1>10

\* A QProcess writes what fits.
LEMMA QProcessWritesKeeps == ASSUME DataAssumption, DataInv, QProcessWrites PROVE DataInv'
<1>t. DataTypes /\ InStep /\ InputKept /\ OutputsKept /\ FinishedLast
  BY DEF DataInv
<1>1. /\ kind # "fork" /\ running /\ child = "live" /\ Room > 0 /\ MoveInput
      /\ UNCHANGED <<kind, child, wants, pipe, written, got, running, launcherUp, phase, canReap,
                     down, up, m_echo, started, finished, sent, writes, received>>
  BY DEF QProcessWrites, QProcessKind, launcher, client
<1>2. /\ InputKept'
      /\ stdin' \in Seq(Bytes) /\ Len(stdin') <= InCapacity /\ inbuf' \in Seq(Bytes)
  BY <1>t, <1>1, InputMoves
<1>3. DataTypes'
  BY <1>t, <1>1, <1>2 DEF DataTypes
<1>4. InStep'
  BY <1>t, <1>1 DEF InStep
<1>5. OutputsKept'
  BY <1>t, <1>1, OutputStill, DeletedStays
<1>6. FinishedLast'
  BY <1>t, <1>1, FinishedStill
<1> QED
  BY <1>2, <1>3, <1>4, <1>5, <1>6 DEF DataInv

\* The fork launcher writes what fits and waits for the rest.
LEMMA ForkWriteKeeps == ASSUME DataAssumption, DataInv, ForkWrite PROVE DataInv'
<1>t. DataTypes /\ InStep /\ InputKept /\ OutputsKept /\ FinishedLast
  BY DEF DataInv
<1>1. /\ kind = "fork" /\ running /\ child = "live" /\ Room > 0 /\ MoveInput
      /\ UNCHANGED <<kind, child, wants, pipe, written, got, running, launcherUp, canReap,
                     down, up, m_echo, started, finished, sent, writes, received>>
  BY DEF ForkWrite, Listed, client
<1>2. /\ InputKept'
      /\ stdin' \in Seq(Bytes) /\ Len(stdin') <= InCapacity /\ inbuf' \in Seq(Bytes)
  BY <1>t, <1>1, InputMoves
<1>p. phase' = "read" \/ (phase' = "blocked" /\ inbuf' # <<>>)
  BY DEF ForkWrite
<1>3. DataTypes'
  BY <1>t, <1>1, <1>2, <1>p DEF DataTypes
<1>4. InStep'
  BY <1>t, <1>1, <1>p DEF InStep
<1>5. OutputsKept'
  BY <1>t, <1>1, OutputStill, DeletedStays
<1>6. FinishedLast'
  BY <1>t, <1>1, FinishedStill
<1> QED
  BY <1>2, <1>3, <1>4, <1>5, <1>6 DEF DataInv

\* What an interrupted write leaves stays in the buffer.
LEMMA ForkInterruptedKeeps == ASSUME DataInv, ForkInterrupted PROVE DataInv'
<1>t. DataTypes /\ InStep /\ InputKept /\ OutputsKept /\ FinishedLast
  BY DEF DataInv
<1>1. /\ kind = "fork" /\ phase' = "read"
      /\ UNCHANGED <<kind, child, wants, stdin, pipe, written, got, running, inbuf, launcherUp,
                     canReap, down, up, m_echo, started, finished, sent, writes, received>>
  BY DEF ForkInterrupted, Listed, rest, program, client
<1>2. DataTypes'
  BY <1>t, <1>1 DEF DataTypes
<1>3. InStep'
  BY <1>t, <1>1 DEF InStep
<1>4. InputKept'
  BY <1>t, <1>1, InputStill
<1>5. OutputsKept'
  BY <1>t, <1>1, OutputStill, DeletedStays
<1>6. FinishedLast'
  BY <1>t, <1>1, FinishedStill
<1> QED
  BY <1>2, <1>3, <1>4, <1>5, <1>6 DEF DataInv

\* The end of the launcher takes nothing away.
LEMMA ForkWriteToDeadKeeps == ASSUME DataInv, ForkWriteToDead PROVE DataInv'
<1>t. DataTypes /\ InStep /\ InputKept /\ OutputsKept /\ FinishedLast
  BY DEF DataInv
<1>1. /\ launcherUp' = FALSE
      /\ UNCHANGED <<kind, child, wants, stdin, pipe, written, got, running, inbuf, phase,
                     canReap, down, up, m_echo, started, finished, sent, writes, received>>
  BY DEF ForkWriteToDead, program, client
<1>2. DataTypes'
  BY <1>t, <1>1 DEF DataTypes
<1>3. InStep'
  BY <1>t, <1>1 DEF InStep
<1>4. InputKept'
  BY <1>t, <1>1, InputStill
<1>5. OutputsKept'
  BY <1>t, <1>1, OutputStill, DeletedStays
<1>6. FinishedLast'
  BY <1>t, <1>1, FinishedStill
<1> QED
  BY <1>2, <1>3, <1>4, <1>5, <1>6 DEF DataInv

\* What a QProcess hands on, in the manager or in a launcher.
LEMMA Passed ==
    ASSUME DataAssumption, DataTypes, InStep, OutputsKept, QProcessKind,
           NEW data \in [Channels -> Seq(Nat)], NEW then,
           then = <<>> \/ then = <<FinishedMessage>>, Pass(data, then), UNCHANGED <<kind, written>>,
           \A d \in Channels : Taken(data[d], pipe'[d], pipe[d])
    PROVE  /\ OutputsKept' /\ UNCHANGED <<m_echo, started, sent, writes>>
           /\ received' \in [Channels -> Seq(Nat)] /\ up' \in Seq(Messages)
           /\ kind # "launcher" =>
                 kind \notin Remote /\ up' = <<>> /\ finished' = (then # <<>>)
           /\ kind = "launcher" =>
                 /\ finished' = finished
                 /\ \A j \in DOMAIN up' : up'[j] = FinishedMessage =>
                       \/ j \in DOMAIN up /\ up[j] = FinishedMessage
                       \/ then # <<>> /\ j = Len(up')
<1>1. received \in [Channels -> Seq(Nat)] /\ up \in Seq(Messages)
  BY DEF DataTypes, Messages
<1>2. ~Deleted /\ ~Deleted'
  BY DEF Deleted, QProcessKind
<1>3. CASE kind = "launcher"
  <2>1. /\ up' = up \o copyToOutgoing("out", data["out"])
                    \o copyToOutgoing("err", data["err"]) \o then
        /\ UNCHANGED <<m_echo, started, finished, sent, writes, received>>
    BY <1>3 DEF Pass, client
  <2>2. OutputsKept'
    <3> SUFFICES ASSUME NEW d \in Channels PROVE OutputKept(d)'
      BY DEF OutputsKept
    <3> QED
      BY <1>2, <2>1, OutputSent DEF OutputsKept
  <2> DEFINE next == up \o copyToOutgoing("out", data["out"])
                        \o copyToOutgoing("err", data["err"])
  <2>3. /\ next \in Seq(Messages)
        /\ \A j \in DOMAIN next :
              next[j] = FinishedMessage => j \in DOMAIN up /\ up[j] = FinishedMessage
    BY <1>1, NotSaidYet
  <2>4. up' = next \o then
    BY <2>1
  <2> HIDE DEF next
  <2>5. /\ up' \in Seq(Messages)
        /\ \A j \in DOMAIN up' :
              (j \in DOMAIN next /\ up'[j] = next[j]) \/ (then # <<>> /\ j = Len(up'))
    <3>1. CASE then = <<>>
      <4>1. up' = next
        BY <2>3, <2>4, <3>1
      <4> QED
        BY <2>3, <4>1
    <3>2. CASE then = <<FinishedMessage>>
      <4>1. FinishedMessage \in Messages /\ then # <<>>
        BY <3>2 DEF FinishedMessage, Messages
      <4> DEFINE m == FinishedMessage
      <4>2. m \in Messages /\ up' = next \o <<m>>
        BY <2>4, <3>2, <4>1
      <4> HIDE DEF m
      <4>3. up' = Append(next, m)
        BY <2>3, <4>2
      <4>4. up' \in Seq(Messages)
        BY <2>3, <4>2, <4>3
      <4>5. /\ Len(up') = Len(next) + 1 /\ DOMAIN up' = 1 .. Len(next) + 1 /\ Len(next) \in Nat
            /\ DOMAIN next = 1 .. Len(next) /\ \A j \in 1 .. Len(next) : up'[j] = next[j]
        BY <2>3, <4>2, <4>3
      <4>6. \A j \in DOMAIN up' : (j \in DOMAIN next /\ up'[j] = next[j]) \/ j = Len(up')
        BY <4>5
      <4> QED
        BY <4>1, <4>4, <4>6
    <3> QED
      BY <3>1, <3>2
  <2> QED
    BY <1>1, <1>3, <2>1, <2>2, <2>3, <2>5
<1>4. CASE kind # "launcher"
  <2>1. /\ received' = [c \in Channels |-> received[c] \o data[c]]
        /\ UNCHANGED <<m_echo, started, sent, writes, up>> /\ finished' = (then # <<>>)
    BY <1>4 DEF Pass, Deliver
  <2>2. kind \notin Remote
    BY <1>4 DEF QProcessKind, Remote
  <2>3. up = <<>>
    BY <2>2 DEF InStep
  <2>4. OutputsKept'
    <3> SUFFICES ASSUME NEW d \in Channels PROVE OutputKept(d)'
      BY DEF OutputsKept
    <3>1. received'[d] = received[d] \o data[d] /\ data[d] \in Seq(Nat)
      BY <2>1
    <3>2. OutputKept(d) /\ Taken(data[d], pipe'[d], pipe[d])
      BY DEF OutputsKept
    <3> QED
      BY <1>2, <2>1, <2>3, <3>1, <3>2, OutputShown
  <2>5. received' \in [Channels -> Seq(Nat)]
    <3>1. \A d \in Channels : received[d] \o data[d] \in Seq(Nat)
      <4> TAKE d \in Channels
      <4>1. received[d] \in Seq(Nat) /\ data[d] \in Seq(Nat)
        BY <1>1
      <4> QED
        BY <4>1
    <3> QED
      BY <2>1, <3>1
  <2> QED
    BY <1>1, <1>4, <2>1, <2>2, <2>3, <2>4, <2>5
<1> QED
  BY <1>3, <1>4

\* Everything in the pipe is handed on.
LEMMA ReadyReadKeeps ==
    ASSUME DataAssumption, DataInv, NEW c \in Channels, ReadyRead(c)
    PROVE  DataInv'
<1>t. DataTypes /\ InStep /\ InputKept /\ OutputsKept /\ FinishedLast
  BY DEF DataInv
<1> DEFINE data == Only(c, pipe[c])
           then == <<>>
<1>1. /\ QProcessKind /\ running /\ pipe' = [pipe EXCEPT ![c] = <<>>] /\ Pass(data, then)
      /\ UNCHANGED <<kind, child, wants, stdin, written, got, running, inbuf, launcherUp, phase,
                     canReap, down>>
  BY DEF ReadyRead
<1>2. pipe \in [Channels -> Seq(Nat)] /\ \A d \in Channels : Len(pipe[d]) <= OutCapacity
  BY <1>t DEF DataTypes
<1>3. data \in [Channels -> Seq(Nat)]
  BY <1>2 DEF Only
<1>4. \A d \in Channels : Taken(data[d], pipe'[d], pipe[d])
  <2> TAKE d \in Channels
  <2>1. CASE d = c
    <3>1. data[d] = pipe[d] /\ pipe'[d] = <<>> /\ pipe[d] \in Seq(Nat)
      BY <1>1, <1>2, <2>1 DEF Only
    <3> QED
      BY <3>1, TakeAll
  <2>2. CASE d # c
    <3>1. data[d] = <<>> /\ pipe'[d] = pipe[d] /\ pipe[d] \in Seq(Nat)
      BY <1>1, <1>2, <2>2 DEF Only
    <3> QED
      BY <3>1, TakeNothing
  <2> QED
    BY <2>1, <2>2
<1>5. then = <<>>
  OBVIOUS
<1> HIDE DEF data, then
<1>6. /\ OutputsKept' /\ UNCHANGED <<m_echo, started, sent, writes>>
      /\ received' \in [Channels -> Seq(Nat)] /\ up' \in Seq(Messages)
      /\ kind # "launcher" => kind \notin Remote /\ up' = <<>> /\ finished' = (then # <<>>)
      /\ kind = "launcher" =>
            /\ finished' = finished
            /\ \A j \in DOMAIN up' : up'[j] = FinishedMessage =>
                  \/ j \in DOMAIN up /\ up[j] = FinishedMessage
                  \/ then # <<>> /\ j = Len(up')
  BY <1>t, <1>1, <1>3, <1>4, <1>5, Passed
<1>7. /\ pipe' \in [Channels -> Seq(Nat)] /\ \A d \in Channels : Len(pipe'[d]) <= OutCapacity
  <2>1. <<>> \in Seq(Nat) /\ Len(<<>>) = 0 /\ OutCapacity \in Nat
    BY DEF DataAssumption
  <2> QED
    BY <1>1, <1>2, <2>1
<1>8. finished' \in BOOLEAN
  BY <1>t, <1>5, <1>6 DEF DataTypes
<1>9. DataTypes'
  BY <1>t, <1>1, <1>6, <1>7, <1>8 DEF DataTypes, Messages
<1>10. InStep'
  <2>1. kind \notin Remote => up' = <<>>
    BY <1>6 DEF Remote
  <2> QED
    BY <1>t, <1>1, <1>6, <2>1 DEF InStep
<1>11. InputKept'
  BY <1>t, <1>1, <1>6, InputStill
<1>12. FinishedLast'
  <2>1. kind # "fork"
    BY <1>1 DEF QProcessKind
  <2>2. ~finished /\ \A j \in DOMAIN up : up[j] # FinishedMessage
    BY <1>t, <1>1, <2>1 DEF FinishedLast
  <2>3. ~finished' /\ \A j \in DOMAIN up' : up'[j] # FinishedMessage
    <3>1. CASE kind = "launcher"
      BY <1>5, <1>6, <2>2, <3>1
    <3>2. CASE kind # "launcher"
      <4>1. up' = <<>> /\ DOMAIN <<>> = {}
        BY <1>6, <3>2
      <4> QED
        BY <1>5, <1>6, <3>2, <4>1
    <3> QED
      BY <3>1, <3>2
  <2> QED
    BY <1>1, <2>1, <2>3 DEF FinishedLast
<1> QED
  BY <1>6, <1>9, <1>10, <1>11, <1>12 DEF DataInv

\* What was left is handed on before finished is said.
LEMMA ProcessDiedKeeps == ASSUME DataAssumption, DataInv, ProcessDied PROVE DataInv'
<1>t. DataTypes /\ InStep /\ InputKept /\ OutputsKept /\ FinishedLast
  BY DEF DataInv
<1> DEFINE data == pipe
           then == <<FinishedMessage>>
<1>1. /\ QProcessKind /\ running /\ child = "dead" /\ running' = FALSE /\ inbuf' = <<>>
      /\ pipe' = [c \in Channels |-> <<>>] /\ Pass(data, then)
      /\ UNCHANGED <<kind, child, wants, stdin, written, got, launcherUp, phase, canReap, down>>
  BY DEF ProcessDied, leftovers
<1>2. pipe \in [Channels -> Seq(Nat)]
  BY <1>t DEF DataTypes
<1>3. data \in [Channels -> Seq(Nat)]
  BY <1>2
<1>4. \A d \in Channels : Taken(data[d], pipe'[d], pipe[d])
  <2> TAKE d \in Channels
  <2>1. pipe'[d] = <<>> /\ pipe[d] \in Seq(Nat)
    BY <1>1, <1>2
  <2> QED
    BY <2>1, TakeAll
<1>5. then = <<FinishedMessage>> /\ then # <<>>
  OBVIOUS
<1> HIDE DEF data, then
<1>a. then = <<>> \/ then = <<FinishedMessage>>
  BY <1>5
<1>b. QProcessKind /\ Pass(data, then) /\ UNCHANGED <<kind, written>>
  BY <1>1
<1>6. /\ OutputsKept' /\ UNCHANGED <<m_echo, started, sent, writes>>
      /\ received' \in [Channels -> Seq(Nat)] /\ up' \in Seq(Messages)
      /\ kind # "launcher" => kind \notin Remote /\ up' = <<>> /\ finished' = (then # <<>>)
      /\ kind = "launcher" =>
            /\ finished' = finished
            /\ \A j \in DOMAIN up' : up'[j] = FinishedMessage =>
                  \/ j \in DOMAIN up /\ up[j] = FinishedMessage
                  \/ then # <<>> /\ j = Len(up')
  BY <1>t, <1>3, <1>4, <1>a, <1>b, Passed
<1>7. /\ pipe' \in [Channels -> Seq(Nat)] /\ \A d \in Channels : Len(pipe'[d]) <= OutCapacity
      /\ inbuf' \in Seq(Bytes)
  <2>1. /\ <<>> \in Seq(Nat) /\ <<>> \in Seq(Bytes) /\ Len(<<>>) = 0 /\ OutCapacity \in Nat
        /\ 0 <= OutCapacity
    BY DEF DataAssumption
  <2> QED
    BY <1>1, <2>1
<1>8. finished' \in BOOLEAN
  BY <1>t, <1>5, <1>6 DEF DataTypes
<1>9. DataTypes'
  BY <1>t, <1>1, <1>6, <1>7, <1>8 DEF DataTypes, Messages
<1>10. InStep'
  <2>1. kind \notin Remote => up' = <<>>
    BY <1>6 DEF Remote
  <2>2. phase = "select"
    BY <1>t, <1>1 DEF InStep, QProcessKind
  <2> QED
    BY <1>t, <1>1, <1>6, <2>1, <2>2 DEF InStep
<1>11. InputKept'
  BY <1>t, <1>1, <1>6, InputDead
<1>12. FinishedLast'
  <2>1. kind # "fork"
    BY <1>1 DEF QProcessKind
  <2>2. ~finished /\ \A j \in DOMAIN up : up[j] # FinishedMessage
    BY <1>t, <1>1, <2>1 DEF FinishedLast
  <2>3. finished' => up' = <<>>
    BY <1>6, <2>2
  <2>4. \A j \in DOMAIN up' : up'[j] = FinishedMessage => j = Len(up')
    <3>1. CASE kind = "launcher"
      BY <1>6, <2>2, <3>1
    <3>2. CASE kind # "launcher"
      <4>1. up' = <<>> /\ DOMAIN <<>> = {}
        BY <1>6, <3>2
      <4> QED
        BY <4>1
    <3> QED
      BY <3>1, <3>2
  <2>5. \A c \in Channels : pipe'[c] = <<>>
    BY <1>1
  <2> QED
    BY <1>1, <2>1, <2>3, <2>4, <2>5 DEF FinishedLast
<1> QED
  BY <1>6, <1>9, <1>10, <1>11, <1>12 DEF DataInv

\* The client hears what the first message says.
LEMMA ReceiveEventKeeps == ASSUME DataAssumption, DataInv, ReceiveEvent PROVE DataInv'
<1>t. DataTypes /\ InStep /\ InputKept /\ OutputsKept /\ FinishedLast
  BY DEF DataInv
<1> DEFINE heard(c) == IF Head(up).chan = c THEN Head(up).data ELSE <<>>
<1>1. /\ up # <<>> /\ up' = Tail(up)
      /\ UNCHANGED <<kind, child, wants, stdin, pipe, written, got, running, inbuf, launcherUp,
                     phase, canReap, down, m_echo, started, sent, writes>>
  BY DEF ReceiveEvent, Deliver, program
<1>2. up \in Seq(Messages) /\ received \in [Channels -> Seq(Nat)]
  BY <1>t DEF DataTypes, Messages
<1>3. /\ Len(up) \in Nat /\ Len(up) >= 1 /\ DOMAIN up = 1 .. Len(up) /\ 1 \in DOMAIN up
      /\ Head(up) = up[1] /\ Head(up) \in Messages
      /\ Tail(up) \in Seq(Messages) /\ Len(Tail(up)) = Len(up) - 1
      /\ DOMAIN Tail(up) = 1 .. Len(up) - 1
      /\ \A j \in 1 .. Len(up) - 1 : Tail(up)[j] = up[j + 1]
  BY <1>1, <1>2
<1>4. \A c \in Channels : heard(c) \in Seq(Nat)
  <2>1. Head(up).data \in Seq(Nat) /\ <<>> \in Seq(Nat)
    BY <1>3 DEF Messages
  <2> QED
    BY <2>1
<1>5. \/ Head(up) = FinishedMessage /\ finished' = TRUE /\ received' = received
      \/ /\ Head(up) # FinishedMessage /\ finished' = finished
         /\ received' = [c \in Channels |-> received[c] \o Only(Head(up).chan, Head(up).data)[c]]
  <2>1. CASE Head(up) = FinishedMessage
    BY <2>1 DEF ReceiveEvent
  <2>2. CASE Head(up) # FinishedMessage
    BY <2>2 DEF ReceiveEvent, Deliver
  <2> QED
    BY <2>1, <2>2
<1>6. \A c \in Channels : received'[c] = received[c] \o heard(c)
  <2> TAKE c \in Channels
  <2>1. received[c] \in Seq(Nat) /\ received[c] \o <<>> = received[c]
    BY <1>2
  <2>2. CASE Head(up) = FinishedMessage
    <3>1. heard(c) = <<>>
      BY <2>2 DEF FinishedMessage
    <3>2. received' = received
      BY <1>5, <2>2
    <3> HIDE DEF heard
    <3> QED
      BY <2>1, <3>1, <3>2
  <2>3. CASE Head(up) # FinishedMessage
    <3>1. Only(Head(up).chan, Head(up).data)[c] = heard(c)
      BY DEF Only
    <3>2. received'[c] = received[c] \o Only(Head(up).chan, Head(up).data)[c]
      BY <1>5, <2>3
    <3> HIDE DEF heard
    <3> QED
      BY <3>1, <3>2
  <2> QED
    BY <2>2, <2>3
<1>7. DataTypes'
  <2> HIDE DEF heard
  <2>1. \A c \in Channels : received[c] \o heard(c) \in Seq(Nat)
    <3> TAKE c \in Channels
    <3>1. received[c] \in Seq(Nat) /\ heard(c) \in Seq(Nat)
      BY <1>2, <1>4
    <3> QED
      BY <3>1
  <2>2. received' = [c \in Channels |-> received'[c]]
    BY <1>2, <1>5
  <2>3. received' \in [Channels -> Seq(Nat)]
    BY <1>6, <2>1, <2>2
  <2>4. finished' \in BOOLEAN
    BY <1>t, <1>5 DEF DataTypes
  <2> QED
    BY <1>t, <1>1, <1>3, <2>3, <2>4 DEF DataTypes, Messages
<1>8. InStep'
  BY <1>t, <1>1 DEF InStep
<1>9. InputKept'
  BY <1>t, <1>1, InputStill
<1>10. OutputsKept'
  <2> SUFFICES ASSUME NEW c \in Channels PROVE OutputKept(c)'
    BY DEF OutputsKept
  <2>k. OutputKept(c)
    BY <1>t DEF OutputsKept
  <2>1. kind \in Remote
    BY <1>t, <1>1 DEF InStep
  <2>2. PICK to \in Nat :
           /\ Way(c, up, Len(received[c]), to)
           /\ to + Len(pipe[c]) <= written[c]
           /\ ~Deleted => to + Len(pipe[c]) = written[c]
           /\ \A i \in DOMAIN pipe[c] : pipe[c][i] = to + i
    BY <2>k DEF OutputKept
  <2> DEFINE data == heard(c)
             from == Len(received[c])
             n    == Len(data)
  <2>3. received[c] \in Seq(Nat) /\ data \in Seq(Nat) /\ from \in Nat /\ n \in Nat
    BY <1>2, <1>4
  <2>4. n = IF Head(up).chan = c THEN Len(Head(up).data) ELSE 0
    OBVIOUS
  <2>5. Head(up).chan = c => data = Head(up).data
    OBVIOUS
  <2>6. Head(up).chan # c => DOMAIN data = {}
    OBVIOUS
  <2>7. received'[c] = received[c] \o data
    BY <1>6
  <2>n. n = Len(data)
    OBVIOUS
  <2>f. from = Len(received[c])
    OBVIOUS
  <2> HIDE DEF data, from, n, heard
  <2>8. /\ Way(c, Tail(up), from + n, to)
        /\ Head(up).chan = c => \A i \in DOMAIN Head(up).data : Fits(Head(up).data[i], from + i)
    BY <1>1, <1>2, <2>2, <2>3, <2>4, <2>f, WayBegins
  <2>9. \A i \in DOMAIN data : Fits(data[i], from + i)
    BY <2>5, <2>6, <2>8
  <2>10. /\ Len(received'[c]) = from + n /\ DOMAIN received'[c] = 1 .. from + n
         /\ \A i \in 1 .. from : i \in DOMAIN received[c] /\ received'[c][i] = received[c][i]
         /\ \A i \in 1 .. n : i \in DOMAIN data /\ received'[c][from + i] = data[i]
    BY <2>3, <2>7, <2>f, <2>n
  <2>11. \A i \in DOMAIN received'[c] :
            received'[c][i] = i \/ (kind' \in Remote /\ Fits(received'[c][i], i))
    <3> TAKE i \in DOMAIN received'[c]
    <3>0. i \in 1 .. from + n
      BY <2>10
    <3>1. CASE i <= from
      <4>1. i \in 1 .. from
        BY <2>3, <3>0, <3>1
      <4> QED
        BY <1>1, <2>k, <2>10, <4>1 DEF OutputKept
    <3>2. CASE i > from
      <4>1. i - from \in 1 .. n /\ from + (i - from) = i
        BY <2>3, <3>0, <3>2
      <4>2. i - from \in DOMAIN data /\ received'[c][from + (i - from)] = data[i - from]
        BY <2>10, <4>1
      <4>3. Fits(data[i - from], from + (i - from))
        BY <2>9, <4>2
      <4> QED
        BY <1>1, <2>1, <4>1, <4>2, <4>3
    <3>3. i <= from \/ i > from
      BY <2>3, <3>0
    <3> QED
      BY <3>1, <3>2, <3>3
  <2>12. Way(c, up', Len(received'[c]), to)
    BY <1>1, <2>8, <2>10
  <2>13. ~Deleted' => ~Deleted
    BY <1>1 DEF Deleted
  <2> QED
    BY <1>1, <2>2, <2>11, <2>12, <2>13 DEF OutputKept
<1>11. FinishedLast'
  <2> SUFFICES ASSUME kind # "fork" PROVE FinishedLast'
    BY <1>1 DEF FinishedLast
  <2>1. /\ ~running => \A c \in Channels : pipe[c] = <<>>
        /\ ~finished
        /\ \A j \in DOMAIN up :
              up[j] = FinishedMessage => j = Len(up) /\ child = "dead" /\ ~running
    BY <1>t, <1>1 DEF FinishedLast
  <2>2. finished' => child = "dead" /\ ~running /\ up' = <<>>
    <3> SUFFICES ASSUME finished' PROVE child = "dead" /\ ~running /\ up' = <<>>
      OBVIOUS
    <3>1. up[1] = FinishedMessage
      BY <1>3, <1>5, <2>1
    <3>2. 1 = Len(up) /\ child = "dead" /\ ~running
      BY <1>3, <2>1, <3>1
    <3>3. Len(up') = 0 /\ up' \in Seq(Messages)
      BY <1>1, <1>3, <3>2
    <3> QED
      BY <3>2, <3>3
  <2>3. \A j \in DOMAIN up' :
           up'[j] = FinishedMessage => j = Len(up') /\ child = "dead" /\ ~running
    <3> SUFFICES ASSUME NEW j \in DOMAIN up', up'[j] = FinishedMessage
                 PROVE  j = Len(up') /\ child = "dead" /\ ~running
      OBVIOUS
    <3>1. j \in 1 .. Len(up) - 1 /\ up'[j] = up[j + 1] /\ Len(up') = Len(up) - 1
      BY <1>1, <1>3
    <3>2. j + 1 \in DOMAIN up
      BY <1>3, <3>1
    <3>3. j + 1 = Len(up) /\ child = "dead" /\ ~running
      BY <2>1, <3>1, <3>2
    <3> QED
      BY <3>1, <3>3
  <2> QED
    BY <1>1, <2>1, <2>2, <2>3 DEF FinishedLast
<1> QED
  BY <1>7, <1>8, <1>9, <1>10, <1>11 DEF DataInv

\* The fork launcher reads a chunk of each pipe and sends it.
LEMMA ForkReadKeeps == ASSUME DataAssumption, DataInv, ForkRead PROVE DataInv'
<1>t. DataTypes /\ InStep /\ InputKept /\ OutputsKept /\ FinishedLast
  BY DEF DataInv
<1> DEFINE data == [c \in Channels |-> chunk(c)]
           then == <<>>
           next == up \o copyToOutgoing("out", data["out"]) \o copyToOutgoing("err", data["err"])
<1>1. /\ kind = "fork" /\ running /\ canReap' \in BOOLEAN /\ phase' = "reap"
      /\ pipe' = [c \in Channels |-> After(pipe[c], MaxRead)]
      /\ up' = up \o copyToOutgoing("out", chunk("out")) \o copyToOutgoing("err", chunk("err"))
      /\ UNCHANGED <<kind, child, wants, stdin, written, got, running, inbuf, launcherUp, down,
                     m_echo, started, finished, sent, writes, received>>
  BY DEF ForkRead, Listed, client
<1>2. /\ pipe \in [Channels -> Seq(Nat)] /\ \A c \in Channels : Len(pipe[c]) <= OutCapacity
      /\ MaxRead \in Nat \ {0} /\ OutCapacity \in Nat /\ up \in Seq(Messages)
  BY <1>t DEF DataTypes, DataAssumption, Messages
<1>3. \A c \in Channels : data[c] = chunk(c) /\ Taken(data[c], pipe'[c], pipe[c])
  <2> TAKE c \in Channels
  <2>1. /\ pipe[c] \in Seq(Nat) /\ pipe'[c] = After(pipe[c], MaxRead)
        /\ data[c] = Upto(pipe[c], MaxRead)
    BY <1>1, <1>2 DEF chunk
  <2>2. Taken(Upto(pipe[c], MaxRead), After(pipe[c], MaxRead), pipe[c])
    BY <1>2, <2>1, TakeSome
  <2> QED
    BY <2>1, <2>2 DEF chunk
<1>4. data \in [Channels -> Seq(Nat)]
  <2>1. \A c \in Channels : chunk(c) \in Seq(Nat)
    <3> TAKE c \in Channels
    <3>1. Taken(data[c], pipe'[c], pipe[c]) /\ data[c] = chunk(c)
      BY <1>3
    <3> HIDE DEF data
    <3> QED
      BY <3>1 DEF Taken
  <2> QED
    BY <2>1
<1>5. up' = next
  <2>1. data["out"] = chunk("out") /\ data["err"] = chunk("err")
    BY DEF Channels
  <2> QED
    BY <1>1, <2>1
<1>d. \A c \in Channels : Taken(data[c], pipe'[c], pipe[c])
  BY <1>3
<1>h. then = <<>>
  OBVIOUS
<1>n. next = up \o copyToOutgoing("out", data["out"]) \o copyToOutgoing("err", data["err"])
  OBVIOUS
<1> HIDE DEF data, next, then
<1>6. next \in Seq(Messages)
  BY <1>2, <1>4, NotSaidYet DEF next
<1>7. up' = up \o copyToOutgoing("out", data["out"]) \o copyToOutgoing("err", data["err"]) \o then
  <2>1. next = next \o then
    BY <1>6, <1>h
  <2> QED
    BY <1>5, <1>n, <2>1
<1>8. DataTypes'
  <2>1. \A c \in Channels : pipe'[c] \in Seq(Nat) /\ Len(pipe'[c]) <= OutCapacity
    <3> TAKE c \in Channels
    <3>1. /\ data[c] \in Seq(Nat) /\ pipe'[c] \in Seq(Nat)
          /\ Len(data[c]) + Len(pipe'[c]) = Len(pipe[c])
      BY <1>d DEF Taken
    <3>2. /\ Len(data[c]) \in Nat /\ Len(pipe'[c]) \in Nat /\ Len(pipe[c]) \in Nat
          /\ Len(pipe[c]) <= OutCapacity /\ OutCapacity \in Nat
      BY <1>2, <3>1
    <3>3. \A k, l, m, n \in Nat : k + l = m /\ m <= n => l <= n
      OBVIOUS
    <3>4. Len(pipe'[c]) <= OutCapacity
      BY <3>1, <3>2, <3>3
    <3> QED
      BY <3>1, <3>4
  <2>2. pipe' \in [Channels -> Seq(Nat)]
    <3>1. pipe' = [c \in Channels |-> pipe'[c]]
      BY <1>1
    <3> QED
      BY <2>1, <3>1
  <2> QED
    BY <1>t, <1>1, <1>5, <1>6, <2>1, <2>2 DEF DataTypes, Messages
<1>9. InStep'
  BY <1>t, <1>1 DEF InStep, Remote
<1>10. InputKept'
  BY <1>t, <1>1, InputStill
<1>11. OutputsKept'
  <2> SUFFICES ASSUME NEW c \in Channels PROVE OutputKept(c)'
    BY DEF OutputsKept
  <2>1. OutputKept(c) /\ Taken(data[c], pipe'[c], pipe[c])
    BY <1>t, <1>d DEF OutputsKept
  <2>2. Deleted => Deleted'
    BY <1>1 DEF Deleted
  <2>3. UNCHANGED <<kind, received, written>> /\ (then = <<>> \/ then = <<FinishedMessage>>)
    BY <1>1, <1>h
  <2> QED
    BY <1>t, <1>4, <1>7, <2>1, <2>2, <2>3, OutputSent
<1>12. FinishedLast'
  BY <1>1 DEF FinishedLast
<1> QED
  BY <1>8, <1>9, <1>10, <1>11, <1>12 DEF DataInv

\* The fork launcher deletes a dead child, with what it had not read.
LEMMA ForkReapKeeps == ASSUME DataAssumption, DataInv, ForkReap PROVE DataInv'
<1>t. DataTypes /\ InStep /\ InputKept /\ OutputsKept /\ FinishedLast
  BY DEF DataInv
<1>1. /\ kind = "fork" /\ phase' = "select" /\ canReap' = FALSE
      /\ UNCHANGED <<kind, child, wants, stdin, written, got, launcherUp, down,
                     m_echo, started, finished, sent, writes, received>>
  BY DEF ForkReap, client
<1>2. FinishedLast'
  BY <1>1 DEF FinishedLast
<1>3. CASE canReap /\ child = "dead"
  <2>1. /\ up' = Append(up, FinishedMessage) /\ running' = FALSE /\ inbuf' = <<>>
        /\ pipe' = [c \in Channels |-> <<>>]
    BY <1>3 DEF ForkReap, deleteChild
  <2>2. FinishedMessage \in Messages /\ up \in Seq(Messages)
    BY <1>t DEF FinishedMessage, Messages, DataTypes
  <2>3. up' = up \o <<FinishedMessage>>
    <3> DEFINE m == FinishedMessage
    <3>1. m \in Messages /\ up' = Append(up, m)
      BY <2>1, <2>2
    <3> HIDE DEF m
    <3>2. up' = up \o <<m>>
      BY <2>2, <3>1
    <3> QED
      BY <3>2 DEF m
  <2>4. up' \in Seq(Messages)
    BY <2>1, <2>2
  <2>5. /\ pipe' \in [Channels -> Seq(Nat)] /\ \A d \in Channels : Len(pipe'[d]) <= OutCapacity
        /\ inbuf' \in Seq(Bytes)
    <3>1. /\ <<>> \in Seq(Nat) /\ <<>> \in Seq(Bytes) /\ Len(<<>>) = 0 /\ OutCapacity \in Nat
          /\ 0 <= OutCapacity
      BY DEF DataAssumption
    <3> QED
      BY <2>1, <3>1
  <2>6. DataTypes'
    BY <1>t, <1>1, <2>1, <2>4, <2>5 DEF DataTypes, Messages
  <2>7. InStep'
    BY <1>t, <1>1, <1>3, <2>1 DEF InStep, Remote
  <2>8. InputKept'
    BY <1>t, <1>1, <1>3, InputDead
  <2>9. OutputsKept'
    <3> SUFFICES ASSUME NEW c \in Channels PROVE OutputKept(c)'
      BY DEF OutputsKept
    <3>k. OutputKept(c)
      BY <1>t DEF OutputsKept
    <3>1. PICK to \in Nat :
             /\ Way(c, up, Len(received[c]), to)
             /\ to + Len(pipe[c]) <= written[c]
      BY <3>k DEF OutputKept
    <3>2. /\ Len(received[c]) \in Nat /\ Len(pipe[c]) \in Nat /\ written[c] \in Nat
          /\ pipe'[c] = <<>>
      <4>1. received[c] \in Seq(Nat) /\ pipe[c] \in Seq(Nat) /\ written[c] \in Nat
        BY <1>t DEF DataTypes
      <4>2. pipe'[c] = <<>>
        BY <2>1
      <4> QED
        BY <4>1, <4>2
    <3>3. Way(c, up', Len(received'[c]), to)
      <4> DEFINE then == <<FinishedMessage>>
                 from == Len(received[c])
      <4>1. then = <<FinishedMessage>> /\ from \in Nat /\ Way(c, up, from, to)
        BY <3>1, <3>2
      <4> HIDE DEF then, from
      <4>2. Way(c, up \o then, from, to)
        BY <2>2, <4>1, ThenFinished
      <4>3. up \o then = up'
        BY <2>3, <4>1
      <4> QED
        BY <1>1, <4>2, <4>3 DEF from
    <3>4. to + Len(pipe'[c]) <= written'[c] /\ DOMAIN pipe'[c] = {} /\ Deleted'
      <4>1. Len(pipe'[c]) = 0 /\ DOMAIN pipe'[c] = {}
        BY <3>2
      <4>2. Deleted'
        BY <1>1, <1>3, <2>1 DEF Deleted
      <4> QED
        BY <1>1, <3>1, <3>2, <4>1, <4>2
    <3>5. \A i \in DOMAIN received'[c] :
             received'[c][i] = i \/ (kind' \in Remote /\ Fits(received'[c][i], i))
      BY <1>1, <3>k DEF OutputKept
    <3> QED
      BY <3>3, <3>4, <3>5 DEF OutputKept
  <2> QED
    BY <1>2, <2>6, <2>7, <2>8, <2>9 DEF DataInv
<1>4. CASE ~(canReap /\ child = "dead")
  <2>1. UNCHANGED <<running, inbuf, pipe, up>>
    BY <1>4 DEF ForkReap
  <2>2. DataTypes'
    BY <1>t, <1>1, <2>1 DEF DataTypes
  <2>3. InStep'
    BY <1>t, <1>1, <2>1 DEF InStep
  <2>4. InputKept'
    BY <1>t, <1>1, <2>1, InputStill
  <2>5. OutputsKept'
    BY <1>t, <1>1, <2>1, OutputStill, DeletedStays
  <2> QED
    BY <1>2, <2>2, <2>3, <2>4, <2>5 DEF DataInv
<1> QED
  BY <1>3, <1>4

\* A step of something else.
LEMMA DataStill == ASSUME DataInv, UNCHANGED dataVars PROVE DataInv'
<1>t. DataTypes /\ InStep /\ InputKept /\ OutputsKept /\ FinishedLast
  BY DEF DataInv
<1>1. UNCHANGED <<kind, child, wants, stdin, pipe, written, got, running, inbuf, launcherUp,
                  phase, canReap, down, up, m_echo, started, finished, sent, writes, received>>
  BY DEF dataVars, program, launcher, client
<1>2. DataTypes'
  BY <1>t, <1>1 DEF DataTypes
<1>3. InStep'
  BY <1>t, <1>1 DEF InStep
<1>4. InputKept'
  BY <1>t, <1>1, InputStill
<1>5. OutputsKept'
  BY <1>t, <1>1, OutputStill, DeletedStays
<1>6. FinishedLast'
  BY <1>t, <1>1, FinishedStill
<1> QED
  BY <1>2, <1>3, <1>4, <1>5, <1>6 DEF DataInv

\* Every step keeps the invariant.
LEMMA DataStep == ASSUME DataAssumption, DataInv, DataNext PROVE DataInv'
<1>1. CASE StartProgram
  BY <1>1, StartProgramKeeps
<1>2. CASE \E n \in 1 .. 2 : Write(n)
  BY <1>2, WriteKeeps
<1>3. CASE \E echo \in {"None", "StdoutOnly", "StderrOnly", "StdoutStderr"} : SetEcho(echo)
  BY <1>3, SetEchoKeeps
<1>4. CASE ReadInput
  BY <1>4, ReadInputKeeps
<1>5. CASE Die
  BY <1>5, DieKeeps
<1>6. CASE \E c \in Channels : WriteOutput(c)
  BY <1>6, WriteOutputKeeps
<1>7. CASE \E c \in Channels : ReadyRead(c)
  BY <1>7, ReadyReadKeeps
<1>8. CASE QProcessWrites
  BY <1>8, QProcessWritesKeeps
<1>9. CASE ProcessDied
  BY <1>9, ProcessDiedKeeps
<1>10. CASE ReceiveCommand
  BY <1>10, ReceiveCommandKeeps
<1>11. CASE ReceiveEvent
  BY <1>11, ReceiveEventKeeps
<1>12. CASE ForkWrite
  BY <1>12, ForkWriteKeeps
<1>13. CASE ForkInterrupted
  BY <1>13, ForkInterruptedKeeps
<1>14. CASE ForkWriteToDead
  BY <1>14, ForkWriteToDeadKeeps
<1>15. CASE ForkRead
  BY <1>15, ForkReadKeeps
<1>16. CASE ForkReap
  BY <1>16, ForkReapKeeps
<1> QED
  BY <1>1, <1>2, <1>3, <1>4, <1>5, <1>6, <1>7, <1>8, <1>9, <1>10, <1>11, <1>12, <1>13, <1>14,
     <1>15, <1>16 DEF DataNext

\* The bytes are accounted for in every state, wherever they are.
THEOREM DataInvariance == DataSpec => []DataInv
<1>1. DataInit => DataInv
  BY DataAssumption, InitKeeps
<1>2. DataInv /\ [DataNext]_dataVars => DataInv'
  BY DataAssumption, DataStep, DataStill
<1> QED
  BY <1>1, <1>2, PTL DEF DataSpec

\* A sequence of numbers that all are in T.
LEMMA SeqOfSome ==
    ASSUME NEW s \in Seq(Nat), NEW T, \A i \in 1 .. Len(s) : s[i] \in T
    PROVE  s \in Seq(T)
<1>1. Len(s) \in Nat /\ s = [i \in 1 .. Len(s) |-> s[i]]
  OBVIOUS
<1>2. s \in [1 .. Len(s) -> T]
  BY <1>1
<1> QED
  BY <1>1, <1>2

\* It says what the run checks: type, order, completeness.
LEMMA DataInvFaithful == ASSUME DataAssumption, DataInv PROVE Faithful
<1>t. DataTypes /\ InStep /\ InputKept /\ OutputsKept /\ FinishedLast
  BY DEF DataInv
<1>1. ASSUME NEW c \in Channels
      PROVE  /\ received[c] \in Seq(0 .. Bound(c))
             /\ finished /\ kind # "fork" => Len(received[c]) = written[c]
             /\ \A i \in DOMAIN received[c] :
                   \/ received[c][i] = i
                   \/ kind \in Remote /\ Fits(received[c][i], i)
  <2>k. OutputKept(c)
    BY <1>t DEF OutputsKept
  <2>1. PICK to \in Nat :
           /\ Way(c, up, Len(received[c]), to)
           /\ to + Len(pipe[c]) <= written[c]
           /\ ~Deleted => to + Len(pipe[c]) = written[c]
    BY <2>k DEF OutputKept
  <2>2. /\ received[c] \in Seq(Nat) /\ Len(received[c]) \in Nat /\ Len(pipe[c]) \in Nat
        /\ written[c] \in Nat /\ written[c] <= Bound(c) /\ Bound(c) \in Nat
    <3>1. received[c] \in Seq(Nat) /\ pipe[c] \in Seq(Nat) /\ written[c] \in Nat
      BY <1>t DEF DataTypes
    <3>2. Len(received[c]) \in Nat /\ Len(pipe[c]) \in Nat
      BY <3>1
    <3>3. written[c] <= Bound(c)
      BY <1>t DEF DataTypes
    <3>4. Bound(c) \in Nat
      BY DEF Bound, DataAssumption
    <3> QED
      BY <3>1, <3>2, <3>3, <3>4
  <2>3. Len(received[c]) \in 0 .. to
    BY <2>1 DEF Way
  <2>4. Len(received[c]) <= Bound(c)
    <3>1. \A r, p, w, b \in Nat : r \in 0 .. to /\ to + p <= w /\ w <= b => r <= b
      OBVIOUS
    <3> QED
      BY <2>1, <2>2, <2>3, <3>1
  <2>5. \A i \in DOMAIN received[c] :
           received[c][i] = i \/ (kind \in Remote /\ Fits(received[c][i], i))
    BY <2>k DEF OutputKept
  <2>6. \A i \in 1 .. Len(received[c]) : received[c][i] \in 0 .. Bound(c)
    <3> TAKE i \in 1 .. Len(received[c])
    <3>1. i \in DOMAIN received[c] /\ i \in 0 .. Bound(c) /\ 0 \in 0 .. Bound(c)
      BY <2>2, <2>4
    <3> QED
      BY <2>5, <3>1 DEF Fits, Broken
  <2>7. received[c] \in Seq(0 .. Bound(c))
    <3> DEFINE s == received[c]
               T == 0 .. Bound(c)
    <3>1. s \in Seq(Nat) /\ \A i \in 1 .. Len(s) : s[i] \in T
      BY <2>2, <2>6
    <3> HIDE DEF s, T
    <3>2. s \in Seq(T)
      BY <3>1, SeqOfSome
    <3> QED
      BY <3>2 DEF s, T
  <2>8. ASSUME finished, kind # "fork" PROVE Len(received[c]) = written[c]
    <3>1. ~running /\ up = <<>> /\ pipe[c] = <<>>
      BY <1>t, <2>8 DEF FinishedLast
    <3>2. ~Deleted
      BY <2>8 DEF Deleted
    <3>3. to = Len(received[c])
      <4>1. Len(<<>>) = 0
        OBVIOUS
      <4> QED
        BY <2>1, <3>1, <4>1 DEF Way
    <3>4. to + 0 = written[c]
      <4>1. Len(<<>>) = 0
        OBVIOUS
      <4> QED
        BY <2>1, <3>1, <3>2, <4>1
    <3> QED
      BY <2>2, <3>3, <3>4
  <2> QED
    BY <2>5, <2>7, <2>8
<1>2. DataTypeOK
  <2>1. {got, inbuf, sent} \subseteq Seq(0 .. MaxIn) /\ stdin \in Seq(0 .. MaxIn)
    BY <1>t DEF DataTypes, Bytes
  <2>2. \A c \in Channels : Len(pipe[c]) <= OutCapacity /\ written[c] \in 0 .. Bound(c)
    <3> TAKE c \in Channels
    <3>1. written[c] \in Nat /\ written[c] <= Bound(c) /\ Bound(c) \in Nat
      BY <1>t DEF DataTypes, Bound, DataAssumption
    <3> QED
      BY <1>t, <3>1 DEF DataTypes
  <2>3. \A c \in Channels : received[c] \in Seq(0 .. Bound(c))
    BY <1>1
  <2>4. phase = "blocked" => inbuf # <<>> /\ running
    BY <1>t DEF InStep
  <2>5. {running, launcherUp, canReap, started, finished} \subseteq BOOLEAN
    BY <1>t DEF DataTypes
  <2>6. /\ kind \in Kinds /\ child \in {"none", "live", "dead"} /\ wants \in Channels \cup {None}
        /\ Len(stdin) <= InCapacity /\ phase \in {"select", "blocked", "read", "reap"}
        /\ m_echo \in {"None", "StdoutOnly", "StderrOnly", "StdoutStderr"}
    BY <1>t DEF DataTypes
  <2> QED
    BY <2>1, <2>2, <2>3, <2>4, <2>5, <2>6 DEF DataTypeOK
<1>3. OutputInOrder
  BY <1>1 DEF OutputInOrder, Fits
<1>4. InputInOrder
  <2>1. got \in Seq(Bytes) /\ sent \in Seq(Bytes) /\ Len(got) \in Nat /\ Len(sent) \in Nat
    BY <1>t DEF DataTypes
  <2>2. \A i \in 1 .. Len(got) : i <= Len(sent) /\ got[i] = sent[i]
    <3> TAKE i \in 1 .. Len(got)
    <3>1. i \in DOMAIN got /\ 0 + i = i
      BY <2>1
    <3> QED
      BY <1>t, <3>1 DEF InputKept, Part
  <2>3. Len(got) <= Len(sent)
    <3>1. CASE Len(got) = 0
      BY <2>1, <3>1
    <3>2. CASE Len(got) # 0
      <4>1. Len(got) \in 1 .. Len(got)
        BY <2>1, <3>2
      <4> QED
        BY <2>2, <4>1
    <3> QED
      BY <3>1, <3>2
  <2> DEFINE start == SubSeq(sent, 1, Len(got))
  <2>4. start \in Seq(Bytes) /\ Len(start) = Len(got) /\ \A i \in 1 .. Len(got) : start[i] = sent[i]
    BY <2>1, <2>3
  <2> HIDE DEF start
  <2>5. got = start
    BY <2>1, <2>2, <2>4, SeqEqual
  <2> QED
    BY <2>3, <2>5 DEF InputInOrder, IsPrefix, start
<1>5. OutputComplete
  BY <1>1 DEF OutputComplete
<1> QED
  BY <1>2, <1>3, <1>4, <1>5 DEF Faithful

\* Faithful: on every way, for any bytes, capacities and reads, the program reads a prefix of
\* what was counted as written to it, the client hears what the program wrote in order and
\* without a gap, but for halves of characters, and all of it before it hears finished of a
\* QProcess.
THEOREM FaithfulAlways == DataSpec => []Faithful
<1>1. DataInv => Faithful
  BY DataAssumption, DataInvFaithful
<1> QED
  BY <1>1, DataInvariance, PTL
=============================================================================
