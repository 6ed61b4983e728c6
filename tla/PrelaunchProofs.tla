--------------------------- MODULE PrelaunchProofs ---------------------------
(***************************************************************************)
(* What Prelaunch promises about the factory, proved for any number of     *)
(* backends, records and clients, and whether or not clients are prompt,   *)
(* and what it promises to clients that are.                               *)
(***************************************************************************)
EXTENDS Prelaunch, SequenceTheorems, TLAPS

\* The types of what the factory and its slots depend on.  The queues and what clients
\* have seen take no part in any of it.
Types ==
    /\ m_prelaunch \in Backends \cup {None} /\ m_info \in Infos \cup {None}
    /\ m_prelaunchEnabled \in BOOLEAN /\ m_memoryRestricted \in BOOLEAN
    /\ owner \in [Backends -> {"free", "factory", "client", "doomed"}]
    /\ wired \in [Backends -> BOOLEAN]
    /\ launchedWith \in [Backends -> Infos \cup {None}]
    /\ qstate \in [Backends -> {"NotRunning", "Starting", "Running"}]

\* The factory's slots are connected to exactly the backends it has, or had until the
\* event loop deletes them: never to a client's.
WiredToOwn == \A b \in Backends : wired[b] <=> owner[b] \in {"factory", "doomed"}

IInv ==
    /\ Types /\ WiredToOwn
    /\ OneSpare /\ LaunchedWithCurrentInfo /\ RestrictionHolds
    /\ PresentedState

\* The thread is in the middle of the signals of one backend, which nobody deletes, or of
\* none.
Emits ==
    /\ emitting \in Backends \cup {None}
    /\ rest = <<>> <=> emitting = None
    /\ emitting # None => owner[emitting] # "free"

\* A step that leaves alone what the factory has and shows, and changes only slots that
\* are not the factory's, keeps the invariant.
LEMMA OthersStep ==
    ASSUME IInv, NEW b \in Backends, owner[b] # "factory",
           owner' \in [Backends -> {"free", "factory", "client", "doomed"}],
           wired' \in [Backends -> BOOLEAN],
           launchedWith' \in [Backends -> Infos \cup {None}],
           qstate' \in [Backends -> {"NotRunning", "Starting", "Running"}],
           owner'[b] # "factory", wired'[b] <=> owner'[b] = "doomed",
           \A c \in Backends \ {b} : /\ owner'[c] = owner[c] /\ wired'[c] = wired[c]
                                     /\ launchedWith'[c] = launchedWith[c]
                                     /\ qstate'[c] = qstate[c],
           UNCHANGED <<factoryVars, shownVars>>
    PROVE  IInv'
<1> USE ConstantsAssumption DEF IInv, factoryVars, shownVars
<1>1. Types'
  BY DEF Types
<1>2. WiredToOwn'
  BY DEF WiredToOwn
<1>3. m_prelaunch # b
  BY DEF OneSpare, Types
<1>4. OneSpare'
  BY DEF OneSpare
<1>5. LaunchedWithCurrentInfo'
  BY <1>3 DEF LaunchedWithCurrentInfo, Types
<1>6. RestrictionHolds'
  BY DEF RestrictionHolds
<1>7. PresentedState'
  BY <1>3 DEF PresentedState, wantsPrelaunch
<1> QED
  BY <1>1, <1>2, <1>4, <1>5, <1>6, <1>7

\* updateState presents the truth about its arguments.
LEMMA Updated ==
    ASSUME NEW prelaunch, NEW info, NEW enabled, NEW restricted, NEW q,
           updateState(prelaunch, info, enabled, restricted, q),
           m_prelaunch' = prelaunch, m_info' = info, m_prelaunchEnabled' = enabled,
           m_memoryRestricted' = restricted, qstate' = q,
           prelaunch \in Backends \cup {None}
    PROVE  PresentedState'
<1>1. internalProcesses' = {b \in Backends : b = prelaunch /\ q[b] = "Running"}
  BY ConstantsAssumption DEF updateState
<1>2. idleCpuRequest' = wantsPrelaunch'
  BY DEF updateState, wantsPrelaunch
<1> QED
  BY <1>1, <1>2 DEF PresentedState

-----------------------------------------------------------------------------

\* create() that takes the spare process.
LEMMA CreateFromPrelaunchStep ==
    ASSUME IInv, CreateFromPrelaunch
    PROVE  IInv'
<1> USE ConstantsAssumption DEF IInv, CreateFromPrelaunch
<1>1. m_prelaunch \in Backends /\ owner[m_prelaunch] = "factory"
  BY DEF isReady, Types, OneSpare
<1>2. Types'
  BY <1>1 DEF Types, disconnect
<1>3. WiredToOwn'
  BY <1>1 DEF Types, WiredToOwn, disconnect
<1>4. OneSpare'
  BY <1>1 DEF Types, OneSpare
<1>5. LaunchedWithCurrentInfo' /\ RestrictionHolds'
  BY DEF LaunchedWithCurrentInfo, RestrictionHolds
<1>6. PresentedState'
  BY Updated
<1> QED
  BY <1>2, <1>3, <1>4, <1>5, <1>6

\* A backend is launched for a client.
LEMMA PrestartStep ==
    ASSUME IInv, NEW b \in Backends, NEW forked \in BOOLEAN,
           prestart(b, "client", forked), UNCHANGED <<factoryVars, shownVars>>
    PROVE  IInv'
BY OthersStep DEF IInv, Types, prestart

\* create() without a spare process.
LEMMA CreateFromScratchStep ==
    ASSUME IInv, CreateFromScratch
    PROVE  IInv'
BY PrestartStep DEF CreateFromScratch

\* A client starts its backend, or receives a signal that was kept.
LEMMA StartStep ==
    ASSUME IInv, NEW b \in Backends, start(b) \/ Replay(b)
    PROVE  IInv'
<1>1. UNCHANGED <<factoryVars, shownVars, owner, wired, launchedWith, qstate>>
  BY DEF start, Replay
<1> QED
  BY <1>1 DEF factoryVars, shownVars, IInv, Types, WiredToOwn, OneSpare,
     LaunchedWithCurrentInfo, RestrictionHolds, PresentedState, wantsPrelaunch

\* A backend that is not the spare one is deleted.
LEMMA ClearStep ==
    ASSUME IInv, NEW b \in Backends, owner[b] # "factory", clear(b),
           UNCHANGED <<factoryVars, shownVars>>
    PROVE  IInv'
BY OthersStep DEF IInv, Types, clear

\* A client deletes its backend.
LEMMA DeleteStep ==
    ASSUME IInv, NEW b \in Backends, ClientDelete(b) \/ DeferredDelete(b)
    PROVE  IInv'
BY ClearStep DEF ClientDelete, DeferredDelete

\* setPrelaunchEnabled().
LEMMA EnabledStep ==
    ASSUME IInv, NEW v \in BOOLEAN, setPrelaunchEnabled(v)
    PROVE  IInv'
<1> USE DEF IInv, setPrelaunchEnabled, backendVars
<1>1. Types' /\ WiredToOwn' /\ OneSpare'
  BY DEF Types, WiredToOwn, OneSpare
<1>2. LaunchedWithCurrentInfo' /\ RestrictionHolds'
  BY DEF LaunchedWithCurrentInfo, RestrictionHolds
<1>3. PresentedState'
  BY Updated DEF Types
<1> QED
  BY <1>1, <1>2, <1>3

\* Giving up the spare leaves the factory none.
LEMMA Doomed ==
    ASSUME IInv, m_prelaunch' = None, owner' = doom(owner), UNCHANGED wired
    PROVE  /\ owner' \in [Backends -> {"free", "factory", "client", "doomed"}]
           /\ WiredToOwn' /\ OneSpare' /\ LaunchedWithCurrentInfo' /\ RestrictionHolds'
<1> USE ConstantsAssumption DEF IInv, doom
<1>1. owner' \in [Backends -> {"free", "factory", "client", "doomed"}]
  BY DEF Types
<1>2. WiredToOwn'
  BY DEF Types, WiredToOwn, OneSpare
<1>3. OneSpare'
  BY DEF Types, OneSpare
<1>4. LaunchedWithCurrentInfo' /\ RestrictionHolds'
  BY DEF LaunchedWithCurrentInfo, RestrictionHolds
<1> QED
  BY <1>1, <1>2, <1>3, <1>4

\* setProcessInfo().
LEMMA ProcessInfoStep ==
    ASSUME IInv, NEW i \in Infos \cup {None}, setProcessInfo(i)
    PROVE  IInv'
<1> USE DEF IInv, setProcessInfo
<1>1. Types' /\ WiredToOwn' /\ OneSpare' /\ LaunchedWithCurrentInfo' /\ RestrictionHolds'
  <2>1. CASE i = None
    BY <2>1 DEF replacePrelaunch, Types, WiredToOwn, OneSpare, LaunchedWithCurrentInfo,
       RestrictionHolds
  <2>2. CASE i # None
    <3>1. m_prelaunch' = None /\ owner' = doom(owner)
      BY <2>2 DEF replacePrelaunch
    <3> QED
      BY <3>1, Doomed DEF Types
  <2> QED
    BY <2>1, <2>2
<1>2. PresentedState'
  BY <1>1, Updated DEF Types
<1> QED
  BY <1>1, <1>2

\* setMemoryRestricted().
LEMMA RestrictedStep ==
    ASSUME IInv, NEW v \in BOOLEAN, setMemoryRestricted(v)
    PROVE  IInv'
<1> USE ConstantsAssumption DEF IInv, setMemoryRestricted
<1>1. Types' /\ WiredToOwn' /\ OneSpare' /\ LaunchedWithCurrentInfo' /\ RestrictionHolds'
  <2>1. CASE v /\ m_prelaunch # None
    <3>1. m_prelaunch' = None /\ clear(m_prelaunch) /\ m_prelaunch \in Backends
      BY <2>1 DEF dropOnRestriction, Types
    <3>2. Types'
      BY <3>1 DEF Types, clear
    <3>3. WiredToOwn'
      BY <3>1 DEF Types, WiredToOwn, clear
    <3>4. OneSpare'
      BY <3>1 DEF Types, OneSpare, clear
    <3> QED
      BY <3>1, <3>2, <3>3, <3>4 DEF LaunchedWithCurrentInfo, RestrictionHolds
  <2>2. CASE ~(v /\ m_prelaunch # None)
    <3>1. UNCHANGED <<m_prelaunch, backendVars>>
      BY <2>2 DEF dropOnRestriction
    <3> QED
      BY <2>2, <3>1 DEF backendVars, Types, WiredToOwn, OneSpare, LaunchedWithCurrentInfo,
         RestrictionHolds
  <2> QED
    BY <2>1, <2>2
<1>2. PresentedState'
  BY <1>1, Updated DEF Types
<1> QED
  BY <1>1, <1>2

\* idleCpuAvailable().
LEMMA IdleStep ==
    ASSUME IInv, idleCpuAvailable
    PROVE  IInv'
<1> USE ConstantsAssumption DEF IInv
<1>1. /\ updateState(m_prelaunch', m_info, m_prelaunchEnabled', m_memoryRestricted, qstate')
      /\ UNCHANGED <<m_info, m_memoryRestricted>>
  BY DEF idleCpuAvailable
<1>2. Types' /\ WiredToOwn' /\ OneSpare' /\ LaunchedWithCurrentInfo' /\ RestrictionHolds'
  <2>1. CASE ~wantsPrelaunch
    <3>1. UNCHANGED <<m_prelaunch, m_prelaunchEnabled, backendVars>>
      BY <2>1 DEF idleCpuAvailable
    <3> QED
      BY <1>1, <3>1 DEF backendVars, Types, WiredToOwn, OneSpare, LaunchedWithCurrentInfo,
         RestrictionHolds
  <2>2. ASSUME wantsPrelaunch, NEW b \in Backends, prestart(b, "factory", TRUE),
               m_prelaunch' = b, UNCHANGED m_prelaunchEnabled
        PROVE  Types' /\ WiredToOwn' /\ OneSpare' /\ LaunchedWithCurrentInfo'
               /\ RestrictionHolds'
    <3>1. Types'
      BY <1>1, <2>2 DEF Types, prestart
    <3>2. WiredToOwn'
      BY <2>2 DEF Types, WiredToOwn, prestart
    <3>3. OneSpare'
      BY <2>2 DEF Types, OneSpare, prestart, wantsPrelaunch
    <3>4. LaunchedWithCurrentInfo'
      BY <1>1, <2>2 DEF Types, LaunchedWithCurrentInfo, prestart
    <3>5. RestrictionHolds'
      BY <1>1, <2>2 DEF RestrictionHolds, wantsPrelaunch
    <3> QED
      BY <3>1, <3>2, <3>3, <3>4, <3>5
  <2>3. ASSUME wantsPrelaunch, NEW b \in Backends, prestart(b, "doomed", FALSE),
               m_prelaunchEnabled' = FALSE, UNCHANGED m_prelaunch
        PROVE  Types' /\ WiredToOwn' /\ OneSpare' /\ LaunchedWithCurrentInfo'
               /\ RestrictionHolds'
    <3>1. Types'
      BY <1>1, <2>3 DEF Types, prestart
    <3>2. WiredToOwn'
      BY <2>3 DEF Types, WiredToOwn, prestart
    <3>3. OneSpare'
      BY <2>3 DEF Types, OneSpare, prestart, wantsPrelaunch
    <3>4. LaunchedWithCurrentInfo' /\ RestrictionHolds'
      BY <2>3 DEF LaunchedWithCurrentInfo, RestrictionHolds, wantsPrelaunch
    <3> QED
      BY <3>1, <3>2, <3>3, <3>4
  <2> QED
    BY <2>1, <2>2, <2>3 DEF idleCpuAvailable
<1>3. PresentedState'
  BY <1>1, <1>2, Updated DEF Types
<1> QED
  BY <1>2, <1>3

\* The state that QProcess has after a signal.
LEMMA StateAfter ==
    ASSUME IInv, NEW b \in Backends, NEW s, emitSignal(b, s)
    PROVE  /\ qstate' \in [Backends -> {"NotRunning", "Starting", "Running"}]
           /\ \A c \in Backends \ {b} : qstate'[c] = qstate[c]
<1>1. CASE s \in States
  BY <1>1 DEF IInv, Types, States, emitSignal
<1>2. CASE s \notin States
  BY <1>2 DEF IInv, Types, emitSignal
<1> QED
  BY <1>1, <1>2

\* A signal of some backend's process: the factory's slots keep the invariant, and none
\* of them is connected to a client's backend.
LEMMA SignalStep ==
    ASSUME IInv, NEW b \in Backends, NEW s, emitSignal(b, s)
    PROVE  IInv'
<1> USE ConstantsAssumption DEF IInv
<1>1. /\ qstate' \in [Backends -> {"NotRunning", "Starting", "Running"}]
      /\ \A c \in Backends \ {b} : qstate'[c] = qstate[c]
  BY StateAfter
<1>2. UNCHANGED <<m_info, m_memoryRestricted, wired, launchedWith, m_started>> /\ slots(b, s)
  BY DEF emitSignal
<1>3. CASE s \in States /\ wired[b]
  <2>1. /\ updateState(m_prelaunch, m_info, m_prelaunchEnabled, m_memoryRestricted, qstate')
        /\ UNCHANGED <<m_prelaunch, owner, m_prelaunchEnabled>>
    BY <1>2, <1>3 DEF slots, States
  <2>2. Types'
    BY <1>1, <1>2, <2>1 DEF Types
  <2>3. WiredToOwn' /\ OneSpare' /\ LaunchedWithCurrentInfo' /\ RestrictionHolds'
    BY <1>2, <2>1 DEF WiredToOwn, OneSpare, LaunchedWithCurrentInfo, RestrictionHolds
  <2>4. PresentedState'
    BY <1>2, <2>1, Updated DEF Types
  <2> QED
    BY <2>2, <2>3, <2>4
<1>4. ASSUME NEW failed \in BOOLEAN, prelaunchGone(failed) PROVE IInv'
  <2>1. /\ m_prelaunch' = None /\ owner' = doom(owner)
        /\ m_prelaunchEnabled' = (m_prelaunchEnabled /\ ~failed)
        /\ updateState(None, m_info, m_prelaunchEnabled', m_memoryRestricted, qstate')
    BY <1>4 DEF prelaunchGone
  <2>2. /\ owner' \in [Backends -> {"free", "factory", "client", "doomed"}]
        /\ WiredToOwn' /\ OneSpare' /\ LaunchedWithCurrentInfo' /\ RestrictionHolds'
    BY <1>2, <2>1, Doomed
  <2>3. m_prelaunchEnabled' \in BOOLEAN
    BY <2>1
  <2>4. Types'
    BY <1>1, <1>2, <2>1, <2>2, <2>3 DEF Types
  <2>5. PresentedState'
    BY <1>2, <2>1, Updated
  <2> QED
    BY <2>2, <2>4, <2>5
<1>5. CASE UNCHANGED <<m_prelaunch, owner, m_prelaunchEnabled, shownVars>> /\ ~wired[b]
  <2>1. UNCHANGED <<factoryVars, shownVars>>
    BY <1>2, <1>5 DEF factoryVars
  <2>2. owner[b] # "factory" /\ owner[b] # "doomed"
    BY <1>5 DEF WiredToOwn
  <2> QED
    BY <1>1, <1>2, <1>5, <2>1, <2>2, OthersStep DEF Types, WiredToOwn
<1>6. CASE UNCHANGED <<m_prelaunch, owner, m_prelaunchEnabled, shownVars>> /\ s = "started"
  <2>1. UNCHANGED qstate
    BY <1>6 DEF emitSignal, States
  <2> QED
    BY <1>2, <1>6, <2>1 DEF shownVars, Types, WiredToOwn, OneSpare, LaunchedWithCurrentInfo,
       RestrictionHolds, PresentedState, wantsPrelaunch
<1> QED
  BY <1>2, <1>3, <1>4, <1>5, <1>6 DEF slots

\* A backend's signal leaves every backend with an owner if it had one.
LEMMA SignalOwners ==
    ASSUME IInv, NEW b \in Backends, NEW s, emitSignal(b, s)
    PROVE  \A c \in Backends : owner'[c] = owner[c] \/ owner'[c] = "doomed"
<1>1. owner' = owner \/ owner' = doom(owner)
  BY DEF emitSignal, slots, prelaunchGone
<1> QED
  BY <1>1 DEF doom, IInv, Types

\* What the thread is doing stays in order through an event and the rest of its signals.
LEMMA EmitsStep ==
    ASSUME IInv, Emits, EmitNext
           \/ \E b \in Backends : ProgramRuns(b) \/ ProgramFails(b) \/ ProgramEnds(b)
                                  \/ ProgramCrashes(b)
    PROVE  IInv' /\ Emits'
<1>1. CASE EmitNext
  <2>1. emitting \in Backends /\ emitSignal(emitting, Head(rest))
    BY <1>1 DEF EmitNext, Emits
  <2>2. \A c \in Backends : owner'[c] = owner[c] \/ owner'[c] = "doomed"
    BY <2>1, SignalOwners
  <2>3. emitting' = IF rest' = <<>> THEN None ELSE emitting
    BY <1>1 DEF EmitNext
  <2>4. Emits'
    BY <2>1, <2>2, <2>3, ConstantsAssumption DEF Emits
  <2> QED
    BY <2>1, <2>4, SignalStep
<1>2. ASSUME NEW b \in Backends, NEW q, NEW s, NEW more, Event(b, q, s, more), more # <<>>
      PROVE  IInv' /\ Emits'
  <2>1. emitSignal(b, s) /\ emitting' = b /\ rest' = more /\ Alive(b)
    BY <1>2 DEF Event
  <2>2. owner'[b] # "free"
    BY <2>1, SignalOwners DEF Alive
  <2> QED
    BY <1>2, <2>1, <2>2, SignalStep, ConstantsAssumption DEF Emits
<1>3. ASSUME NEW b \in Backends, ProgramRuns(b) PROVE IInv' /\ Emits'
  BY <1>2, <1>3 DEF ProgramRuns
<1>4. ASSUME NEW b \in Backends, ProgramFails(b) PROVE IInv' /\ Emits'
  BY <1>2, <1>4 DEF ProgramFails
<1>5. ASSUME NEW b \in Backends, ProgramEnds(b) PROVE IInv' /\ Emits'
  BY <1>2, <1>5 DEF ProgramEnds
<1>6. ASSUME NEW b \in Backends, ProgramCrashes(b) PROVE IInv' /\ Emits'
  BY <1>2, <1>6 DEF ProgramCrashes
<1> QED
  BY <1>1, <1>3, <1>4, <1>5, <1>6

\* Nobody deletes the backend whose signals are being emitted.
LEMMA EmittingKept ==
    ASSUME IInv, Emits, UNCHANGED threadVars,
           \A b \in Backends : owner'[b] = "free" => owner[b] = "free" \/ b # emitting
    PROVE  Emits'
BY DEF Emits, threadVars

-----------------------------------------------------------------------------

\* The factory starts without a spare process.
LEMMA InitInv == Init => IInv
<1> SUFFICES ASSUME Init PROVE IInv
  OBVIOUS
<1> USE ConstantsAssumption DEF Init
<1>1. Types
  BY DEF Types
<1>2. WiredToOwn /\ OneSpare /\ LaunchedWithCurrentInfo /\ RestrictionHolds
  BY DEF WiredToOwn, OneSpare, LaunchedWithCurrentInfo, RestrictionHolds
<1>3. PresentedState
  BY DEF PresentedState, wantsPrelaunch
<1> QED
  BY <1>1, <1>2, <1>3 DEF IInv

\* A step that keeps the thread where it is deletes no backend that is emitting.
LEMMA OtherOwners ==
    ASSUME IInv, Emits,
           \/ CreateFromPrelaunch \/ CreateFromScratch
           \/ \E b \in Backends : start(b) \/ Replay(b) \/ ClientDelete(b) \/ DeferredDelete(b)
           \/ \E v \in BOOLEAN : setPrelaunchEnabled(v) \/ setMemoryRestricted(v)
           \/ \E i \in Infos \cup {None} : setProcessInfo(i)
           \/ idleCpuAvailable
    PROVE  Emits'
<1> USE DEF IInv, Types
<1>1. CASE CreateFromPrelaunch
  BY <1>1, EmittingKept DEF CreateFromPrelaunch
<1>2. CASE CreateFromScratch
  BY <1>2, EmittingKept DEF CreateFromScratch, prestart
<1>3. ASSUME NEW b \in Backends, start(b) \/ Replay(b) PROVE Emits'
  BY <1>3, EmittingKept DEF start, Replay
<1>4. ASSUME NEW b \in Backends, ClientDelete(b) PROVE Emits'
  BY <1>4, EmittingKept DEF ClientDelete, clear
<1>5. ASSUME UNCHANGED threadVars, InLoop PROVE Emits'
  BY <1>5 DEF Emits, InLoop, threadVars
<1>6. ASSUME NEW b \in Backends, DeferredDelete(b) PROVE Emits'
  BY <1>5, <1>6 DEF DeferredDelete
<1>7. ASSUME NEW v \in BOOLEAN, setPrelaunchEnabled(v) \/ setMemoryRestricted(v) PROVE Emits'
  BY <1>5, <1>7 DEF setPrelaunchEnabled, setMemoryRestricted
<1>8. ASSUME NEW i \in Infos \cup {None}, setProcessInfo(i) PROVE Emits'
  BY <1>5, <1>8 DEF setProcessInfo
<1>9. CASE idleCpuAvailable
  BY <1>5, <1>9 DEF idleCpuAvailable
<1> QED
  BY <1>1, <1>2, <1>3, <1>4, <1>6, <1>7, <1>8, <1>9

\* Every step keeps the inductive invariant.
LEMMA NextInv == IInv /\ Emits /\ [Next]_vars => IInv' /\ Emits'
<1> SUFFICES ASSUME IInv, Emits, [Next]_vars PROVE IInv' /\ Emits'
  OBVIOUS
<1>1. CASE CreateFromPrelaunch
  BY <1>1, CreateFromPrelaunchStep, OtherOwners
<1>2. CASE CreateFromScratch
  BY <1>2, CreateFromScratchStep, OtherOwners
<1>3. ASSUME NEW b \in Backends, start(b) \/ Replay(b) PROVE IInv' /\ Emits'
  BY <1>3, StartStep, OtherOwners
<1>4. ASSUME NEW b \in Backends, ClientDelete(b) \/ DeferredDelete(b) PROVE IInv' /\ Emits'
  BY <1>4, DeleteStep, OtherOwners
<1>5. ASSUME EmitNext
             \/ \E b \in Backends : ProgramRuns(b) \/ ProgramFails(b) \/ ProgramEnds(b)
                                    \/ ProgramCrashes(b)
      PROVE  IInv' /\ Emits'
  BY <1>5, EmitsStep
<1>7. ASSUME NEW v \in BOOLEAN, setPrelaunchEnabled(v) PROVE IInv' /\ Emits'
  BY <1>7, EnabledStep, OtherOwners
<1>8. ASSUME NEW v \in BOOLEAN, setMemoryRestricted(v) PROVE IInv' /\ Emits'
  BY <1>8, RestrictedStep, OtherOwners
<1>9. ASSUME NEW i \in Infos \cup {None}, setProcessInfo(i) PROVE IInv' /\ Emits'
  BY <1>9, ProcessInfoStep, OtherOwners
<1>10. CASE idleCpuAvailable
  BY <1>10, IdleStep, OtherOwners
<1>11. CASE UNCHANGED vars
  BY <1>11 DEF vars, factoryVars, shownVars, backendVars, threadVars, Emits, IInv, Types,
     WiredToOwn, OneSpare, LaunchedWithCurrentInfo, RestrictionHolds, PresentedState,
     wantsPrelaunch
<1> QED
  BY <1>1, <1>2, <1>3, <1>4, <1>5, <1>7, <1>8, <1>9, <1>10, <1>11 DEF Next

\* The inductive invariant holds in every state of a prelaunching factory.
THEOREM Invariance == Spec => [](IInv /\ Emits)
<1>1. Init => IInv /\ Emits
  BY InitInv DEF Init, Emits
<1>2. IInv /\ Emits /\ [Next]_vars => IInv' /\ Emits'
  BY NextInv
<1>3. QED
  BY <1>1, <1>2, PTL DEF Spec

\* SpareIsRight: the factory never has two processes, forgets none, offers none that was
\* launched with a record it no longer uses, and has none under memory restriction; what it
\* shows its manager is true between calls (updateState at the end of each).
THEOREM SpareAlwaysRight == Spec => []SpareIsRight
<1>1. IInv => SpareIsRight
  BY DEF IInv, SpareIsRight
<1>2. QED
  BY <1>1, Invariance, PTL

\* HandedOverForGood: nothing that a client's process emits changes anything in the
\* factory, whose slots are not connected to it any more, even if it was handed over in the
\* middle of what it emits.
THEOREM HandOverIsFinal == Spec => HandedOverForGood
<1>1. IInv /\ Emits /\ [Next]_vars =>
        [\A b \in Backends :
            owner[b] = "client" /\ rest' # rest /\ b \in {emitting, emitting'}
               => UNCHANGED <<factoryVars, shownVars>>]_vars
  <2> SUFFICES ASSUME IInv, Emits, [Next]_vars, NEW b \in Backends,
                      owner[b] = "client", rest' # rest, b \in {emitting, emitting'}
               PROVE  UNCHANGED <<factoryVars, shownVars>>
    OBVIOUS
  <2>1. ~wired[b]
    BY DEF IInv, WiredToOwn
  <2>2. ASSUME NEW s, emitSignal(b, s) PROVE UNCHANGED <<factoryVars, shownVars>>
    BY <2>1, <2>2 DEF emitSignal, slots, factoryVars
  <2>3. CASE EmitNext
    <3>1. b = emitting
      BY <2>3, ConstantsAssumption DEF EmitNext
    <3> QED
      BY <2>2, <2>3, <3>1 DEF EmitNext
  <2>4. ASSUME NEW c \in Backends, NEW q, NEW s, NEW more, Event(c, q, s, more)
        PROVE  UNCHANGED <<factoryVars, shownVars>>
    <3>1. b = c
      BY <2>4, ConstantsAssumption DEF Event, InLoop, Emits
    <3> QED
      BY <2>2, <2>4, <3>1 DEF Event
  <2>5. ASSUME NEW c \in Backends,
               ProgramRuns(c) \/ ProgramFails(c) \/ ProgramEnds(c) \/ ProgramCrashes(c)
        PROVE  UNCHANGED <<factoryVars, shownVars>>
    BY <2>4, <2>5 DEF ProgramRuns, ProgramFails, ProgramEnds, ProgramCrashes
  <2>6. ASSUME CreateFromPrelaunch \/ CreateFromScratch
               \/ (\E c \in Backends : start(c) \/ Replay(c) \/ ClientDelete(c)
                                       \/ DeferredDelete(c))
               \/ (\E v \in BOOLEAN : setPrelaunchEnabled(v) \/ setMemoryRestricted(v))
               \/ (\E i \in Infos \cup {None} : setProcessInfo(i))
               \/ idleCpuAvailable
        PROVE  UNCHANGED rest
    BY <2>6 DEF CreateFromPrelaunch, CreateFromScratch, start, Replay, ClientDelete,
       DeferredDelete, setPrelaunchEnabled, setMemoryRestricted, setProcessInfo,
       idleCpuAvailable, threadVars
  <2>7. CASE UNCHANGED vars
    BY <2>7 DEF vars, threadVars
  <2> QED
    BY <2>3, <2>5, <2>6, <2>7 DEF Next
<1>2. QED
  BY <1>1, Invariance, PTL DEF Spec, HandedOverForGood

(***************************************************************************)
(* What clients see, if they start a process in the handler that creates   *)
(* it.                                                                     *)
(***************************************************************************)

\* The signals of a program that came up, and of one that could not be started.
Launched == <<"Starting", "Running", "started">>
Refused == <<"Starting", "NotRunning", "FailedToStart">>

ViewTypes ==
    /\ m_started \in [Backends -> BOOLEAN]
    /\ m_queue \in [Backends -> Seq(Life!Signals)]
    /\ seen \in [Backends -> Life!Stages \cup {"broken"}]
    /\ rest \in Seq(Life!Signals)

\* What b's process has still to emit of an event.
live(b) == IF b = emitting THEN rest ELSE <<>>

\* Where a backend is: the state of its process, the client's stage, the signals that
\* are kept, and those still to be emitted.
At(b, q, g, kept, more) ==
    qstate[b] = q /\ seen[b] = g /\ m_queue[b] = kept /\ live(b) = more

\* The queue of a backend that was not started is all that happened to its process.
Waiting(b) ==
    /\ ~m_started[b]
    /\ \/ At(b, "Starting", "fresh", <<"Starting">>, <<>>)
       \/ At(b, "Running", "fresh", <<"Starting", "Running">>, <<"started">>)
       \/ At(b, "Running", "fresh", Launched, <<>>)

StillBorn(b) == ~m_started[b] /\ At(b, "NotRunning", "fresh", Refused, <<>>)

\* The process of the factory ends: the last signal will make the factory give it up.
Ending(b) ==
    /\ ~m_started[b] /\ seen[b] = "fresh" /\ qstate[b] = "NotRunning"
    /\ live(b) \in {<<"FailedToStart">>, <<"finished">>}

\* A client that has started its backend is receiving what was kept.
Receiving(b) ==
    /\ m_started[b]
    /\ \/ At(b, "Starting", "fresh", <<"Starting">>, <<>>)
       \/ At(b, "Running", "fresh", <<"Starting", "Running">>, <<"started">>)
       \/ At(b, "Running", "starting", <<"Running">>, <<"started">>)
       \/ At(b, "Running", "fresh", Launched, <<>>)
       \/ At(b, "Running", "starting", <<"Running", "started">>, <<>>)
       \/ At(b, "Running", "running", <<"started">>, <<>>)
       \/ At(b, "NotRunning", "fresh", Refused, <<>>)
       \/ At(b, "NotRunning", "starting", <<"NotRunning", "FailedToStart">>, <<>>)
       \/ At(b, "NotRunning", "failing", <<"FailedToStart">>, <<>>)

\* It has received it, and knows all that its process has emitted.
Informed(b) ==
    /\ m_started[b]
    /\ \/ At(b, "Starting", "starting", <<>>, <<>>)
       \/ At(b, "Running", "running", <<>>, <<"started">>)
       \/ At(b, "Running", "up", <<>>, <<>>)
       \/ At(b, "Running", "crashed", <<>>, <<"NotRunning", "finished">>)
       \/ At(b, "NotRunning", "down", <<>>, <<"finished">>)
       \/ At(b, "NotRunning", "failing", <<>>, <<"FailedToStart">>)
       \/ At(b, "NotRunning", "over", <<>>, <<>>)
       \/ At(b, "NotRunning", "failed", <<>>, <<>>)

Story(b) ==
    /\ owner[b] = "factory" => Waiting(b) \/ Ending(b)
    /\ owner[b] = "client" => Waiting(b) \/ StillBorn(b) \/ Receiving(b) \/ Informed(b)

ViewInv == ViewTypes /\ \A b \in Backends : Story(b)

\* Up to three signals lead to the stage after the last of them.
LEMMA Arrivals ==
    ASSUME NEW g, NEW q, Len(q) \in 0 .. 3
    PROVE  LET one   == Life!After(g, q[1])
               two   == Life!After(one, q[2])
               three == Life!After(two, q[3])
           IN  /\ Len(q) = 0 => AfterAll(g, q) = g
               /\ Len(q) = 1 => AfterAll(g, q) = one
               /\ Len(q) = 2 => AfterAll(g, q) = two
               /\ Len(q) = 3 => AfterAll(g, q) = three
<1> DEFINE one == Life!After(g, q[1])
           two == Life!After(one, q[2])
           three == Life!After(two, q[3])
           path == [n \in 0 .. Len(q) |->
                      IF n = 0 THEN g ELSE IF n = 1 THEN one ELSE IF n = 2 THEN two ELSE three]
           after == CHOOSE f : f = [n \in 0 .. Len(q) |->
                                      IF n = 0 THEN g ELSE Life!After(f[n - 1], q[n])]
<1>1. path = [n \in 0 .. Len(q) |-> IF n = 0 THEN g ELSE Life!After(path[n - 1], q[n])]
  OBVIOUS
<1>2. after = [n \in 0 .. Len(q) |-> IF n = 0 THEN g ELSE Life!After(after[n - 1], q[n])]
  BY <1>1
<1>3. AfterAll(g, q) = after[Len(q)]
  BY DEF AfterAll, after
<1> HIDE DEF after, path
<1>3a. after[0] = g
  BY <1>2
<1>4. Len(q) >= 1 => after[1] = one
  BY <1>2, <1>3a
<1>5. Len(q) >= 2 => after[2] = two
  BY <1>2, <1>4
<1>6. Len(q) = 3 => after[3] = three
  BY <1>2, <1>5
<1>7. /\ Len(q) = 0 => AfterAll(g, q) = g
      /\ Len(q) = 1 => AfterAll(g, q) = one
      /\ Len(q) = 2 => AfterAll(g, q) = two
      /\ Len(q) = 3 => AfterAll(g, q) = three
  <2> HIDE DEF one, two, three
  <2>1. Len(q) = 1 => AfterAll(g, q) = one
    BY <1>3, <1>4
  <2>2. Len(q) = 2 => AfterAll(g, q) = two
    BY <1>3, <1>5
  <2>3. Len(q) = 3 => AfterAll(g, q) = three
    BY <1>3, <1>6
  <2>4. Len(q) = 0 => AfterAll(g, q) = g
    BY <1>3, <1>3a
  <2> QED
    BY <2>1, <2>2, <2>3, <2>4
<1> QED
  BY <1>7

\* The runs of signals that backends emit and keep are signals of a life cycle.
LEMMA Runs ==
    /\ <<"Starting">> \in Seq(Life!Signals) /\ Launched \in Seq(Life!Signals)
    /\ Refused \in Seq(Life!Signals)
    /\ \A s \in {<<"started">>, <<"FailedToStart">>, <<"finished">>,
                 <<"NotRunning", "finished">>} : s \in Seq(Life!Signals)
BY DEF Launched, Refused, Life!Signals

\* They are kept one after the other.
LEMMA Keeping ==
    /\ Append(<<"Starting">>, "Running") = <<"Starting", "Running">>
    /\ Append(<<"Starting", "Running">>, "started") = Launched
<1>1. ASSUME NEW p \in Seq(Life!Signals), NEW e \in Life!Signals, NEW r \in Seq(Life!Signals),
             Len(r) = Len(p) + 1, r[Len(r)] = e, \A k \in 1 .. Len(p) : r[k] = p[k]
      PROVE  Append(p, e) = r
  <2>1. /\ Append(p, e) \in Seq(Life!Signals) /\ Len(Append(p, e)) = Len(p) + 1
        /\ \A k \in 1 .. Len(p) + 1 : Append(p, e)[k] = IF k <= Len(p) THEN p[k] ELSE e
    BY AppendProperties
  <2>2. \A k \in 1 .. Len(r) : Append(p, e)[k] = r[k]
    BY <1>1, <2>1
  <2>3. Len(Append(p, e)) = Len(r)
    BY <1>1, <2>1
  <2>4. Append(p, e) \in Seq(Life!Signals)
    BY <2>1
  <2> QED
    BY <2>2, <2>3, <2>4, SeqEqual
<1>2. Append(<<"Starting">>, "Running") = <<"Starting", "Running">>
  <2> DEFINE p == <<"Starting">>
             r == <<"Starting", "Running">>
  <2>1. /\ p \in Seq(Life!Signals) /\ r \in Seq(Life!Signals) /\ "Running" \in Life!Signals
        /\ Len(p) = 1 /\ Len(r) = 2 /\ r[1] = p[1] /\ r[2] = "Running"
    BY DEF Life!Signals
  <2> HIDE DEF p, r
  <2>3. /\ p \in Seq(Life!Signals) /\ r \in Seq(Life!Signals) /\ "Running" \in Life!Signals
        /\ Len(r) = Len(p) + 1 /\ r[Len(r)] = "Running"
    BY <2>1
  <2>4. \A k \in 1 .. Len(p) : r[k] = p[k]
    BY <2>1
  <2>2. Append(p, "Running") = r
    BY <1>1, <2>3, <2>4, Zenon
  <2> QED
    BY <2>2 DEF p, r
<1>3. Append(<<"Starting", "Running">>, "started") = Launched
  <2> DEFINE p == <<"Starting", "Running">>
  <2>1. /\ p \in Seq(Life!Signals) /\ Launched \in Seq(Life!Signals)
        /\ "started" \in Life!Signals
        /\ Len(p) = 2 /\ Len(Launched) = 3 /\ Launched[1] = p[1] /\ Launched[2] = p[2]
        /\ Launched[3] = "started"
    BY DEF Life!Signals, Launched
  <2> HIDE DEF p
  <2>3. /\ p \in Seq(Life!Signals) /\ Launched \in Seq(Life!Signals)
        /\ "started" \in Life!Signals
        /\ Len(Launched) = Len(p) + 1 /\ Launched[Len(Launched)] = "started"
    BY <2>1
  <2>4. \A k \in 1 .. Len(p) : Launched[k] = p[k]
    <3>1. ASSUME NEW k \in 1 .. Len(p) PROVE k = 1 \/ k = 2
      BY <2>1, <3>1
    <3> QED
      BY <2>1, <3>1
  <2>2. Append(p, "started") = Launched
    BY <1>1, <2>3, <2>4, Zenon
  <2> QED
    BY <2>2 DEF p
<1> QED
  BY <1>2, <1>3

\* And replayed one after the other.
LEMMA Suffixes ==
    /\ Head(<<"Starting">>) = "Starting" /\ Tail(<<"Starting">>) = <<>>
    /\ Head(<<"Starting", "Running">>) = "Starting"
    /\ Tail(<<"Starting", "Running">>) = <<"Running">>
    /\ Head(<<"Running">>) = "Running" /\ Tail(<<"Running">>) = <<>>
    /\ Head(Launched) = "Starting" /\ Tail(Launched) = <<"Running", "started">>
    /\ Head(<<"Running", "started">>) = "Running"
    /\ Tail(<<"Running", "started">>) = <<"started">>
    /\ Head(<<"started">>) = "started" /\ Tail(<<"started">>) = <<>>
    /\ Head(Refused) = "Starting" /\ Tail(Refused) = <<"NotRunning", "FailedToStart">>
    /\ Head(<<"NotRunning", "FailedToStart">>) = "NotRunning"
    /\ Tail(<<"NotRunning", "FailedToStart">>) = <<"FailedToStart">>
    /\ Head(<<"FailedToStart">>) = "FailedToStart" /\ Tail(<<"FailedToStart">>) = <<>>
    /\ Head(<<"NotRunning", "finished">>) = "NotRunning"
    /\ Tail(<<"NotRunning", "finished">>) = <<"finished">>
    /\ Head(<<"finished">>) = "finished" /\ Tail(<<"finished">>) = <<>>
BY DEF Launched, Refused

\* The steps of a life cycle that backends make here.
LEMMA AfterSteps ==
    /\ Life!After("fresh", "Starting") = "starting"
    /\ Life!After("starting", "Running") = "running"
    /\ Life!After("running", "started") = "up"
    /\ Life!After("up", "Crashed") = "crashed"
    /\ Life!After("up", "NotRunning") = "down"
    /\ Life!After("crashed", "NotRunning") = "down"
    /\ Life!After("down", "finished") = "over"
    /\ Life!After("starting", "NotRunning") = "failing"
    /\ Life!After("failing", "FailedToStart") = "failed"
BY DEF Life!After

\* Where the signals that are kept will lead a client.
LEMMA Views ==
    /\ \A g : AfterAll(g, <<>>) = g
    /\ AfterAll("fresh", <<"Starting">>) = "starting"
    /\ AfterAll("fresh", <<"Starting", "Running">>) = "running"
    /\ AfterAll("starting", <<"Running">>) = "running"
    /\ AfterAll("fresh", Launched) = "up"
    /\ AfterAll("starting", <<"Running", "started">>) = "up"
    /\ AfterAll("running", <<"started">>) = "up"
    /\ AfterAll("fresh", Refused) = "failed"
    /\ AfterAll("starting", <<"NotRunning", "FailedToStart">>) = "failed"
    /\ AfterAll("failing", <<"FailedToStart">>) = "failed"
<1>1. ASSUME NEW g, NEW r PROVE AfterAll(g, <<r>>) = Life!After(g, r)
  <2> DEFINE q == <<r>>
  <2>1. Len(q) = 1 /\ q[1] = r
    OBVIOUS
  <2> HIDE DEF q
  <2>2. AfterAll(g, q) = Life!After(g, r)
    BY <2>1, Arrivals
  <2> QED
    BY <2>2 DEF q
<1>2. ASSUME NEW g, NEW r, NEW s
      PROVE  AfterAll(g, <<r, s>>) = Life!After(Life!After(g, r), s)
  <2> DEFINE q == <<r, s>>
  <2>1. Len(q) = 2 /\ q[1] = r /\ q[2] = s
    OBVIOUS
  <2> HIDE DEF q
  <2>2. AfterAll(g, q) = Life!After(Life!After(g, r), s)
    BY <2>1, Arrivals
  <2> QED
    BY <2>2 DEF q
<1>3. ASSUME NEW g, NEW r, NEW s, NEW t
      PROVE  AfterAll(g, <<r, s, t>>) = Life!After(Life!After(Life!After(g, r), s), t)
  <2> DEFINE q == <<r, s, t>>
  <2>1. Len(q) = 3 /\ q[1] = r /\ q[2] = s /\ q[3] = t
    OBVIOUS
  <2> HIDE DEF q
  <2>2. AfterAll(g, q) = Life!After(Life!After(Life!After(g, r), s), t)
    BY <2>1, Arrivals
  <2> QED
    BY <2>2 DEF q
<1>4. ASSUME NEW g PROVE AfterAll(g, <<>>) = g
  <2> DEFINE q == <<>>
  <2>1. Len(q) = 0
    OBVIOUS
  <2> HIDE DEF q
  <2>2. AfterAll(g, q) = g
    BY <2>1, Arrivals
  <2> QED
    BY <2>2 DEF q
<1>5. /\ AfterAll("fresh", <<"Starting">>) = "starting"
      /\ AfterAll("starting", <<"Running">>) = "running"
      /\ AfterAll("running", <<"started">>) = "up"
      /\ AfterAll("failing", <<"FailedToStart">>) = "failed"
  BY <1>1, AfterSteps
<1>6. /\ AfterAll("fresh", <<"Starting", "Running">>) = "running"
      /\ AfterAll("starting", <<"Running", "started">>) = "up"
      /\ AfterAll("starting", <<"NotRunning", "FailedToStart">>) = "failed"
  BY <1>2, AfterSteps
<1>7. AfterAll("fresh", Launched) = "up"
  BY <1>3, AfterSteps DEF Launched
<1>8. AfterAll("fresh", Refused) = "failed"
  BY <1>3, AfterSteps DEF Refused
<1> QED
  BY <1>4, <1>5, <1>6, <1>7, <1>8

\* A backend to which nothing happens keeps its story, also if it is handed over or given
\* up.
LEMMA SameStory ==
    ASSUME NEW b \in Backends, Story(b),
           \/ owner'[b] = owner[b] \/ owner'[b] \in {"free", "doomed"}
           \/ owner[b] = "factory" /\ owner'[b] = "client" /\ qstate[b] = "Running",
           qstate'[b] = qstate[b], m_started'[b] = m_started[b],
           m_queue'[b] = m_queue[b], seen'[b] = seen[b], live(b)' = live(b)
    PROVE  Story(b)'
<1>1. ASSUME NEW q, NEW g, NEW k, NEW l PROVE At(b, q, g, k, l)' = At(b, q, g, k, l)
  BY DEF At
<1> QED
  BY <1>1 DEF Story, Waiting, Receiving, Informed, StillBorn, Ending

\* The queues and the rest of an event stay sequences of signals.
LEMMA OneView ==
    ASSUME IInv, ViewInv, NEW b \in Backends, NEW k \in Seq(Life!Signals),
           NEW g \in Life!Stages \cup {"broken"}, NEW v \in BOOLEAN,
           m_started' = [m_started EXCEPT ![b] = v], m_queue' = [m_queue EXCEPT ![b] = k],
           seen' = [seen EXCEPT ![b] = g],
           \A c \in Backends \ {b} : qstate'[c] = qstate[c],
           \A c \in Backends \ {b} : owner'[c] = owner[c] \/ owner'[c] \in {"free", "doomed"},
           \A c \in Backends \ {b} : live(c)' = live(c), rest' \in Seq(Life!Signals),
           Story(b)'
    PROVE  ViewInv'
<1>1. ViewTypes'
  BY DEF ViewInv, ViewTypes
<1>2. ASSUME NEW c \in Backends, c # b PROVE Story(c)'
  <2>1. /\ qstate'[c] = qstate[c] /\ m_started'[c] = m_started[c] /\ live(c)' = live(c)
        /\ m_queue'[c] = m_queue[c] /\ seen'[c] = seen[c]
        /\ owner'[c] = owner[c] \/ owner'[c] \in {"free", "doomed"}
    BY <1>2 DEF ViewInv, ViewTypes
  <2> QED
    BY <2>1, SameStory DEF ViewInv
<1> QED
  BY <1>1, <1>2 DEF ViewInv

\* What is left of an event stays as it is.
LEMMA SameRest ==
    ASSUME UNCHANGED threadVars
    PROVE  rest' = rest /\ \A c : live(c)' = live(c)
BY DEF threadVars, live

\* A new backend was launched, or its program could not be forked.
LEMMA PrestartView ==
    ASSUME IInv, Emits, ViewInv, NEW b \in Backends, NEW o \in {"factory", "client", "doomed"},
           NEW forked \in BOOLEAN, prestart(b, o, forked), o = "factory" => forked,
           UNCHANGED threadVars
    PROVE  ViewInv'
<1>1. live(b)' = <<>>
  BY ConstantsAssumption DEF prestart, Emits, threadVars, live
<1>2. Story(b)'
  <2>1. /\ owner'[b] = o /\ ~m_started'[b] /\ seen'[b] = "fresh"
        /\ forked => qstate'[b] = "Starting" /\ m_queue'[b] = <<"Starting">>
        /\ ~forked => qstate'[b] = "NotRunning" /\ m_queue'[b] = Refused
    BY DEF prestart, IInv, Types, ViewInv, ViewTypes, Refused
  <2> QED
    BY <1>1, <2>1 DEF Story, Waiting, StillBorn, At
<1>3. PICK k \in Seq(Life!Signals) : m_queue' = [m_queue EXCEPT ![b] = k]
  BY Runs DEF prestart, Refused
<1>4. rest' = rest /\ \A c \in Backends \ {b} : live(c)' = live(c)
  BY SameRest
<1> QED
  BY <1>2, <1>3, <1>4, OneView DEF prestart, IInv, Types, ViewInv, ViewTypes, Life!Stages

\* A backend is deleted.
LEMMA ClearView ==
    ASSUME IInv, ViewInv, NEW b \in Backends, clear(b), UNCHANGED threadVars
    PROVE  ViewInv'
<1>1. Story(b)'
  BY DEF IInv, Types, clear, Story
<1>2. rest' = rest /\ \A c \in Backends \ {b} : live(c)' = live(c)
  BY SameRest
<1>3. <<>> \in Seq(Life!Signals)
  OBVIOUS
<1> QED
  BY <1>1, <1>2, <1>3, OneView DEF clear, IInv, Types, ViewInv, ViewTypes, Life!Stages

\* Backends change owners and are connected and disconnected, and nothing happens to any
\* process.
LEMMA OwnersView ==
    ASSUME IInv, ViewInv, UNCHANGED <<qstate, m_started, m_queue, seen, threadVars>>,
           \A b \in Backends : \/ owner'[b] = owner[b] \/ owner'[b] \in {"free", "doomed"}
                               \/ /\ owner[b] = "factory" /\ owner'[b] = "client"
                                  /\ qstate[b] = "Running"
    PROVE  ViewInv'
<1>1. rest' = rest /\ \A c \in Backends : live(c)' = live(c)
  BY SameRest
<1>2. ViewTypes'
  BY <1>1 DEF ViewInv, ViewTypes
<1>3. ASSUME NEW b \in Backends PROVE Story(b)'
  BY <1>1, <1>3, SameStory DEF ViewInv
<1> QED
  BY <1>2, <1>3 DEF ViewInv

\* A client starts its backend.
LEMMA StartView ==
    ASSUME IInv, ViewInv, NEW b \in Backends, start(b)
    PROVE  ViewInv'
<1>1. rest' = rest /\ \A c : live(c)' = live(c)
  BY SameRest DEF start
<1>2. /\ m_started' = [m_started EXCEPT ![b] = TRUE] /\ ~m_started[b] /\ owner[b] = "client"
      /\ UNCHANGED <<owner, qstate, m_queue, seen>>
  BY DEF start
<1>3. ViewTypes
  BY DEF ViewInv
<1>4. Story(b)'
  <2>1. Waiting(b) \/ StillBorn(b)
    BY <1>2 DEF ViewInv, Story, Receiving, Informed
  <2>2. m_started'[b]
    BY <1>2, <1>3 DEF ViewTypes
  <2>3. ASSUME NEW q, NEW g, NEW k, NEW l PROVE At(b, q, g, k, l)' = At(b, q, g, k, l)
    BY <1>1, <1>2 DEF At
  <2>4. Receiving(b)'
    BY <2>1, <2>2, <2>3 DEF Receiving, Waiting, StillBorn
  <2> QED
    BY <1>2, <2>4 DEF Story
<1>5. /\ m_queue' = [m_queue EXCEPT ![b] = m_queue[b]] /\ m_queue[b] \in Seq(Life!Signals)
      /\ seen' = [seen EXCEPT ![b] = seen[b]] /\ seen[b] \in Life!Stages \cup {"broken"}
  BY <1>2, <1>3 DEF ViewTypes
<1> QED
  BY <1>1, <1>2, <1>3, <1>4, <1>5, OneView DEF ViewTypes

\* A client receives a signal that was kept: the next one of its process's life.
LEMMA ReplayView ==
    ASSUME IInv, ViewInv, NEW b \in Backends, Replay(b)
    PROVE  ViewInv'
<1> DEFINE k == Tail(m_queue[b])
           g == Life!After(seen[b], Head(m_queue[b]))
<1>1. rest' = rest /\ \A c : live(c)' = live(c)
  BY SameRest DEF Replay
<1>2. /\ m_started[b] /\ m_queue[b] # <<>> /\ UNCHANGED <<owner, qstate, m_started>>
      /\ m_queue' = [m_queue EXCEPT ![b] = k] /\ seen' = [seen EXCEPT ![b] = g]
  BY DEF Replay, Replaying, takeFirst
<1>3. ViewTypes
  BY DEF ViewInv
<1>4. m_queue'[b] = k /\ seen'[b] = g /\ m_queue[b] \in Seq(Life!Signals)
  BY <1>2, <1>3 DEF ViewTypes
<1>5. k \in Seq(Life!Signals)
  BY <1>2, <1>4
<1> HIDE DEF k, g
<1>6. CASE owner[b] # "client"
  <2>1. owner[b] # "factory"
    BY <1>2 DEF ViewInv, Story, Waiting, Ending
  <2>2. Story(b)'
    BY <1>2, <1>6, <2>1 DEF Story
  <2>3. g \in Life!Stages \cup {"broken"}
    BY DEF g, Life!After, Life!Stages
  <2> QED
    BY <1>1, <1>2, <1>3, <1>5, <2>2, <2>3, OneView DEF ViewTypes
<1>7. CASE owner[b] = "client"
  <2>1. Receiving(b)
    BY <1>2, <1>7 DEF ViewInv, Story, Waiting, StillBorn, Informed, At
  <2>2. m_started'[b] /\ qstate'[b] = qstate[b] /\ live(b)' = live(b)
    BY <1>1, <1>2
  <2>3. (Receiving(b)' \/ Informed(b)') /\ g \in Life!Stages
    <3>1. CASE At(b, "Starting", "fresh", <<"Starting">>, <<>>)
      <4>1. k = <<>> /\ g = "starting"
        BY <3>1, Suffixes, AfterSteps DEF At, k, g
      <4> QED
        BY <1>4, <2>2, <3>1, <4>1 DEF At, Informed, Life!Stages
    <3>2. CASE At(b, "Running", "fresh", <<"Starting", "Running">>, <<"started">>)
      <4>1. k = <<"Running">> /\ g = "starting"
        BY <3>2, Suffixes, AfterSteps DEF At, k, g
      <4> QED
        BY <1>4, <2>2, <3>2, <4>1 DEF At, Receiving, Life!Stages
    <3>3. CASE At(b, "Running", "starting", <<"Running">>, <<"started">>)
      <4>1. k = <<>> /\ g = "running"
        BY <3>3, Suffixes, AfterSteps DEF At, k, g
      <4> QED
        BY <1>4, <2>2, <3>3, <4>1 DEF At, Informed, Life!Stages
    <3>4. CASE At(b, "Running", "fresh", Launched, <<>>)
      <4>1. k = <<"Running", "started">> /\ g = "starting"
        BY <3>4, Suffixes, AfterSteps DEF At, k, g
      <4> QED
        BY <1>4, <2>2, <3>4, <4>1 DEF At, Receiving, Life!Stages
    <3>5. CASE At(b, "Running", "starting", <<"Running", "started">>, <<>>)
      <4>1. k = <<"started">> /\ g = "running"
        BY <3>5, Suffixes, AfterSteps DEF At, k, g
      <4> QED
        BY <1>4, <2>2, <3>5, <4>1 DEF At, Receiving, Life!Stages
    <3>6. CASE At(b, "Running", "running", <<"started">>, <<>>)
      <4>1. k = <<>> /\ g = "up"
        BY <3>6, Suffixes, AfterSteps DEF At, k, g
      <4> QED
        BY <1>4, <2>2, <3>6, <4>1 DEF At, Informed, Life!Stages
    <3>7. CASE At(b, "NotRunning", "fresh", Refused, <<>>)
      <4>1. k = <<"NotRunning", "FailedToStart">> /\ g = "starting"
        BY <3>7, Suffixes, AfterSteps DEF At, k, g
      <4> QED
        BY <1>4, <2>2, <3>7, <4>1 DEF At, Receiving, Life!Stages
    <3>8. CASE At(b, "NotRunning", "starting", <<"NotRunning", "FailedToStart">>, <<>>)
      <4>1. k = <<"FailedToStart">> /\ g = "failing"
        BY <3>8, Suffixes, AfterSteps DEF At, k, g
      <4> QED
        BY <1>4, <2>2, <3>8, <4>1 DEF At, Receiving, Life!Stages
    <3>9. CASE At(b, "NotRunning", "failing", <<"FailedToStart">>, <<>>)
      <4>1. k = <<>> /\ g = "failed"
        BY <3>9, Suffixes, AfterSteps DEF At, k, g
      <4> QED
        BY <1>4, <2>2, <3>9, <4>1 DEF At, Informed, Life!Stages
    <3> QED
      BY <2>1, <3>1, <3>2, <3>3, <3>4, <3>5, <3>6, <3>7, <3>8, <3>9 DEF Receiving
  <2>4. Story(b)'
    BY <1>2, <1>7, <2>3 DEF Story
  <2> QED
    BY <1>1, <1>2, <1>3, <1>5, <2>3, <2>4, OneView DEF ViewTypes
<1> QED
  BY <1>6, <1>7

\* What a signal does to the backend whose process emits it.
LEMMA SignalFacts ==
    ASSUME IInv, ViewInv, NEW b \in Backends, NEW s, emitSignal(b, s)
    PROVE  /\ s \in States => qstate'[b] = s
           /\ s \notin States => qstate'[b] = qstate[b]
           /\ m_started'[b] = m_started[b]
           /\ m_started[b] => m_queue'[b] = m_queue[b]
           /\ ~m_started[b] => m_queue'[b] = Append(m_queue[b], s)
           /\ owner[b] = "client" => seen'[b] = Life!After(seen[b], s)
           /\ owner[b] # "client" => seen'[b] = seen[b]
           /\ owner'[b] = owner[b] \/ owner'[b] = "doomed"
           /\ s \in {"FailedToStart", "Crashed", "finished"} => owner'[b] # "factory"
<1>1. s \in States => qstate'[b] = s
  BY DEF emitSignal, IInv, Types
<1>2. s \notin States => qstate'[b] = qstate[b]
  BY DEF emitSignal
<1>3. /\ m_started'[b] = m_started[b]
      /\ m_started[b] => m_queue'[b] = m_queue[b]
      /\ ~m_started[b] => m_queue'[b] = Append(m_queue[b], s)
  BY DEF emitSignal, ViewInv, ViewTypes
<1>4. /\ owner[b] = "client" => seen'[b] = Life!After(seen[b], s)
      /\ owner[b] # "client" => seen'[b] = seen[b]
  BY DEF emitSignal, ViewInv, ViewTypes
<1>5. owner'[b] = owner[b] \/ owner'[b] = "doomed"
  BY SignalOwners
<1>6. ASSUME s \in {"FailedToStart", "Crashed", "finished"} PROVE owner'[b] # "factory"
  <2>1. CASE ~wired[b]
    BY <1>5, <2>1 DEF IInv, WiredToOwn
  <2>2. CASE wired[b]
    <3>1. m_prelaunch' = None
      BY <1>6, <2>2 DEF emitSignal, slots, States, prelaunchGone
    <3>2. OneSpare'
      BY SignalStep DEF IInv
    <3> QED
      BY <3>1, <3>2, ConstantsAssumption DEF OneSpare
  <2> QED
    BY <2>1, <2>2
<1> QED
  BY <1>1, <1>2, <1>3, <1>4, <1>5, <1>6

\* It is enough to know that the backend's own story goes on.
LEMMA SignalView ==
    ASSUME IInv, ViewInv, NEW b \in Backends, NEW s \in Life!Signals, emitSignal(b, s),
           \A c \in Backends \ {b} : live(c)' = live(c), rest' \in Seq(Life!Signals),
           Story(b)'
    PROVE  ViewInv'
<1>1. \A c \in Backends \ {b} : qstate'[c] = qstate[c]
  BY StateAfter
<1>2. \A c \in Backends \ {b} : owner'[c] = owner[c] \/ owner'[c] \in {"free", "doomed"}
  BY SignalOwners
<1>3. ViewTypes
  BY DEF ViewInv
<1>4. m_started' = [m_started EXCEPT ![b] = m_started[b]] /\ m_started[b] \in BOOLEAN
  BY <1>3 DEF emitSignal, ViewTypes
<1>5. PICK k \in Seq(Life!Signals) : m_queue' = [m_queue EXCEPT ![b] = k]
  <2>1. Append(m_queue[b], s) \in Seq(Life!Signals) /\ m_queue[b] \in Seq(Life!Signals)
    BY <1>3 DEF ViewTypes
  <2>2. m_queue = [m_queue EXCEPT ![b] = m_queue[b]]
    BY <1>3 DEF ViewTypes
  <2> QED
    BY <2>1, <2>2 DEF emitSignal
<1>6. PICK g \in Life!Stages \cup {"broken"} : seen' = [seen EXCEPT ![b] = g]
  <2>1. Life!After(seen[b], s) \in Life!Stages \cup {"broken"}
    BY DEF Life!After, Life!Stages
  <2>2. seen = [seen EXCEPT ![b] = seen[b]] /\ seen[b] \in Life!Stages \cup {"broken"}
    BY <1>3 DEF ViewTypes
  <2> QED
    BY <2>1, <2>2 DEF emitSignal
<1> QED
  BY <1>1, <1>2, <1>4, <1>5, <1>6, OneView

\* While signals are emitted from the event loop, prompt clients have started their
\* backends, and start() has come to the end of its loop.
LEMMA ClientsPrompt ==
    ASSUME PromptStart, ViewInv, Returned, NEW b \in Backends, owner[b] = "client"
    PROVE  Informed(b)
<1>1. m_started[b] /\ m_queue[b] = <<>>
  BY DEF Returned, Held
<1> QED
  BY <1>1 DEF ViewInv, Story, Waiting, StillBorn, Receiving, At, Launched, Refused

\* The first signal of an event.
LEMMA EventView ==
    ASSUME PromptStart, IInv, Emits, ViewInv, NEW b \in Backends,
           NEW q, NEW s, NEW more, Event(b, q, s, more),
           \/ q = "Starting" /\ s = "Running" /\ more = <<"started">>
           \/ q = "Starting" /\ s = "NotRunning" /\ more = <<"FailedToStart">>
           \/ q = "Running" /\ s = "NotRunning" /\ more = <<"finished">>
           \/ q = "Running" /\ s = "Crashed" /\ more = <<"NotRunning", "finished">>
    PROVE  ViewInv'
<1>1. /\ emitSignal(b, s) /\ qstate[b] = q /\ Returned
      /\ rest = <<>> /\ rest' = more /\ emitting' = b
  BY DEF Event, InLoop
<1>2. /\ live(b) = <<>> /\ live(b)' = more
      /\ \A c \in Backends \ {b} : live(c)' = live(c)
  BY <1>1 DEF live
<1>3. s \in Life!Signals /\ more \in Seq(Life!Signals)
  BY Runs DEF Life!Signals
<1>4. Story(b)'
  <2>1. CASE owner[b] = "client"
    <3>1. Informed(b)
      BY <1>1, <2>1, ClientsPrompt
    <3>2. /\ m_started'[b] /\ m_queue'[b] = <<>> /\ m_queue[b] = <<>>
          /\ seen'[b] = Life!After(seen[b], s)
          /\ owner'[b] \in {"client", "doomed"}
      BY <1>1, <2>1, <3>1, SignalFacts DEF Informed, At
    <3>3. CASE q = "Starting" /\ s = "Running" /\ more = <<"started">>
      <4>1. seen[b] = "starting" /\ qstate'[b] = "Running"
        BY <1>1, <1>2, <3>1, <3>3, SignalFacts DEF Informed, At, States
      <4> QED
        BY <1>2, <3>2, <3>3, <4>1, AfterSteps DEF Story, Informed, At
    <3>4. CASE q = "Starting" /\ s = "NotRunning" /\ more = <<"FailedToStart">>
      <4>1. seen[b] = "starting" /\ qstate'[b] = "NotRunning"
        BY <1>1, <1>2, <3>1, <3>4, SignalFacts DEF Informed, At, States
      <4> QED
        BY <1>2, <3>2, <3>4, <4>1, AfterSteps DEF Story, Informed, At
    <3>5. CASE q = "Running" /\ s = "NotRunning" /\ more = <<"finished">>
      <4>1. seen[b] = "up" /\ qstate'[b] = "NotRunning"
        BY <1>1, <1>2, <3>1, <3>5, SignalFacts DEF Informed, At, States
      <4> QED
        BY <1>2, <3>2, <3>5, <4>1, AfterSteps DEF Story, Informed, At
    <3>6. CASE q = "Running" /\ s = "Crashed" /\ more = <<"NotRunning", "finished">>
      <4>1. seen[b] = "up" /\ qstate'[b] = "Running"
        BY <1>1, <1>2, <3>1, <3>6, SignalFacts DEF Informed, At, States
      <4> QED
        BY <1>2, <3>2, <3>6, <4>1, AfterSteps DEF Story, Informed, At
    <3> QED
      BY <3>3, <3>4, <3>5, <3>6
  <2>2. CASE owner[b] = "factory"
    <3>1. Waiting(b) /\ ~m_started[b] /\ seen[b] = "fresh"
      BY <1>2, <2>2 DEF ViewInv, Story, Waiting, Ending, At
    <3>2. ~m_started'[b] /\ seen'[b] = "fresh" /\ owner'[b] \in {"factory", "doomed"}
      BY <1>1, <2>2, <3>1, SignalFacts
    <3>3. CASE s = "Running"
      <4>1. /\ m_queue[b] = <<"Starting">> /\ qstate'[b] = "Running"
            /\ m_queue'[b] = Append(m_queue[b], "Running")
        BY <1>1, <3>1, <3>3, SignalFacts DEF Waiting, At, States
      <4>2. m_queue'[b] = <<"Starting", "Running">>
        BY <4>1, Keeping
      <4> QED
        BY <1>2, <3>2, <3>3, <4>1, <4>2 DEF Story, Waiting, At
    <3>4. CASE s = "NotRunning"
      <4>1. qstate'[b] = "NotRunning"
        BY <1>1, <3>4, SignalFacts DEF States
      <4> QED
        BY <1>2, <3>2, <3>4, <4>1 DEF Story, Ending
    <3>5. CASE s = "Crashed"
      <4>1. owner'[b] = "doomed"
        BY <1>1, <3>2, <3>5, SignalFacts
      <4> QED
        BY <4>1 DEF Story
    <3> QED
      BY <3>3, <3>4, <3>5
  <2>3. CASE owner[b] \notin {"client", "factory"}
    BY <1>1, <2>3, SignalFacts DEF Story
  <2> QED
    BY <2>1, <2>2, <2>3
<1> QED
  BY <1>1, <1>2, <1>3, <1>4, SignalView

\* The signals that follow.
LEMMA EmitNextView ==
    ASSUME PromptStart, IInv, Emits, ViewInv, EmitNext
    PROVE  ViewInv'
<1> DEFINE b == emitting
           s == Head(rest)
<1>1. /\ b \in Backends /\ emitSignal(b, s) /\ Returned
      /\ rest # <<>> /\ rest' = Tail(rest)
      /\ emitting' = IF rest' = <<>> THEN None ELSE emitting
  BY DEF EmitNext, Emits
<1>2. rest \in Seq(Life!Signals)
  BY DEF ViewInv, ViewTypes
<1>3. s \in Life!Signals /\ Tail(rest) \in Seq(Life!Signals)
  BY <1>1, <1>2
<1> SUFFICES ASSUME NEW b1 \in Backends, b1 = b, NEW s1 \in Life!Signals, s1 = s
             PROVE  ViewInv'
  BY <1>1, <1>3
<1>4. live(b1) = rest /\ live(b1)' = Tail(rest)
  BY <1>1, ConstantsAssumption DEF live
<1>5. \A c \in Backends \ {b1} : live(c)' = live(c)
  BY <1>1, ConstantsAssumption DEF live
<1>6. emitSignal(b1, s1) /\ s1 = Head(rest)
  BY <1>1
<1> HIDE DEF b, s
<1>7. Story(b1)'
  <2>1. CASE owner[b1] = "client"
    <3>1. Informed(b1)
      BY <1>1, <2>1, ClientsPrompt
    <3>2. /\ m_started'[b1] /\ m_queue'[b1] = <<>> /\ m_queue[b1] = <<>>
          /\ seen'[b1] = Life!After(seen[b1], s1)
          /\ owner'[b1] \in {"client", "doomed"}
      BY <1>6, <2>1, <3>1, SignalFacts DEF Informed, At
    <3>3. CASE At(b1, "Running", "running", <<>>, <<"started">>)
      <4>1. s1 = "started" /\ live(b1)' = <<>> /\ qstate'[b1] = "Running"
        BY <1>4, <1>6, <3>3, Suffixes, SignalFacts DEF At, States
      <4> QED
        BY <3>2, <3>3, <4>1, AfterSteps DEF Story, Informed, At
    <3>4. CASE At(b1, "Running", "crashed", <<>>, <<"NotRunning", "finished">>)
      <4>1. s1 = "NotRunning" /\ live(b1)' = <<"finished">> /\ qstate'[b1] = "NotRunning"
        BY <1>4, <1>6, <3>4, Suffixes, SignalFacts DEF At, States
      <4> QED
        BY <3>2, <3>4, <4>1, AfterSteps DEF Story, Informed, At
    <3>5. CASE At(b1, "NotRunning", "down", <<>>, <<"finished">>)
      <4>1. s1 = "finished" /\ live(b1)' = <<>> /\ qstate'[b1] = "NotRunning"
        BY <1>4, <1>6, <3>5, Suffixes, SignalFacts DEF At, States
      <4> QED
        BY <3>2, <3>5, <4>1, AfterSteps DEF Story, Informed, At
    <3>6. CASE At(b1, "NotRunning", "failing", <<>>, <<"FailedToStart">>)
      <4>1. s1 = "FailedToStart" /\ live(b1)' = <<>> /\ qstate'[b1] = "NotRunning"
        BY <1>4, <1>6, <3>6, Suffixes, SignalFacts DEF At, States
      <4> QED
        BY <3>2, <3>6, <4>1, AfterSteps DEF Story, Informed, At
    <3> QED
      BY <1>1, <1>4, <3>1, <3>3, <3>4, <3>5, <3>6 DEF Informed, At
  <2>2. CASE owner[b1] = "factory"
    <3>1. ~m_started[b1] /\ seen[b1] = "fresh" /\ (Waiting(b1) \/ Ending(b1))
      BY <2>2 DEF ViewInv, Story, Waiting, Ending, At
    <3>2. ~m_started'[b1] /\ seen'[b1] = "fresh" /\ owner'[b1] \in {"factory", "doomed"}
      BY <1>6, <2>2, <3>1, SignalFacts
    <3>3. CASE Waiting(b1)
      <4>1. At(b1, "Running", "fresh", <<"Starting", "Running">>, <<"started">>)
        BY <1>1, <1>4, <3>3 DEF Waiting, At
      <4>2. s1 = "started" /\ live(b1)' = <<>>
        BY <1>4, <1>6, <4>1, Suffixes DEF At
      <4>3. qstate'[b1] = "Running" /\ m_queue'[b1] = Append(m_queue[b1], "started")
        BY <1>6, <3>1, <4>1, <4>2, SignalFacts DEF At, States
      <4>4. m_queue'[b1] = Launched
        BY <4>1, <4>3, Keeping DEF At
      <4> QED
        BY <3>2, <4>2, <4>3, <4>4 DEF Story, Waiting, At
    <3>4. CASE Ending(b1)
      <4>1. s1 \in {"FailedToStart", "finished"}
        BY <1>4, <1>6, <3>4, Suffixes DEF Ending
      <4>2. owner'[b1] = "doomed"
        BY <1>6, <3>2, <4>1, SignalFacts
      <4> QED
        BY <4>2 DEF Story
    <3> QED
      BY <3>1, <3>3, <3>4
  <2>3. CASE owner[b1] \notin {"client", "factory"}
    BY <1>6, <2>3, SignalFacts DEF Story
  <2> QED
    BY <2>1, <2>2, <2>3
<1> QED
  BY <1>1, <1>3, <1>5, <1>6, <1>7, SignalView

\* Everything starts without backends.
LEMMA InitView == Init => ViewInv
BY DEF Init, ViewInv, ViewTypes, Story, Life!Stages

\* Every step keeps the queues and what clients know in order.
LEMMA NextView == PromptStart /\ IInv /\ Emits /\ ViewInv /\ [Next]_vars => ViewInv'
<1> SUFFICES ASSUME PromptStart, IInv, Emits, ViewInv, [Next]_vars PROVE ViewInv'
  OBVIOUS
<1>1. CASE CreateFromPrelaunch
  <2>1. /\ m_prelaunch \in Backends /\ owner[m_prelaunch] = "factory"
        /\ qstate[m_prelaunch] = "Running"
    BY <1>1, ConstantsAssumption DEF CreateFromPrelaunch, isReady, IInv, Types, OneSpare
  <2> QED
    BY <1>1, <2>1, OwnersView DEF CreateFromPrelaunch, IInv, Types
<1>2. CASE CreateFromScratch
  BY <1>2, PrestartView DEF CreateFromScratch
<1>3. ASSUME NEW b \in Backends, start(b) \/ Replay(b) PROVE ViewInv'
  BY <1>3, StartView, ReplayView
<1>4. ASSUME NEW b \in Backends, ClientDelete(b) \/ DeferredDelete(b) PROVE ViewInv'
  BY <1>4, ClearView DEF ClientDelete, DeferredDelete
<1>5. ASSUME NEW b \in Backends,
             ProgramRuns(b) \/ ProgramFails(b) \/ ProgramEnds(b) \/ ProgramCrashes(b)
      PROVE  ViewInv'
  <2>1. CASE ProgramRuns(b)
    BY <2>1, EventView DEF ProgramRuns
  <2>2. CASE ProgramFails(b)
    BY <2>2, EventView DEF ProgramFails
  <2>3. CASE ProgramEnds(b)
    BY <2>3, EventView DEF ProgramEnds
  <2>4. CASE ProgramCrashes(b)
    BY <2>4, EventView DEF ProgramCrashes
  <2> QED
    BY <1>5, <2>1, <2>2, <2>3, <2>4
<1>6. CASE EmitNext
  BY <1>6, EmitNextView
<1>7. ASSUME NEW v \in BOOLEAN, setPrelaunchEnabled(v) PROVE ViewInv'
  BY <1>7, OwnersView DEF setPrelaunchEnabled, backendVars
<1>8. ASSUME NEW v \in BOOLEAN, setMemoryRestricted(v) PROVE ViewInv'
  BY <1>8, ClearView, OwnersView DEF setMemoryRestricted, dropOnRestriction, backendVars, IInv,
     Types
<1>9. ASSUME NEW i \in Infos \cup {None}, setProcessInfo(i) PROVE ViewInv'
  BY <1>9, OwnersView DEF setProcessInfo, replacePrelaunch, doom, IInv, Types
<1>10. CASE idleCpuAvailable
  BY <1>10, PrestartView, OwnersView DEF idleCpuAvailable, backendVars
<1>11. CASE UNCHANGED vars
  BY <1>11, OwnersView DEF vars, backendVars
<1> QED
  BY <1>1, <1>2, <1>3, <1>4, <1>5, <1>6, <1>7, <1>8, <1>9, <1>10, <1>11 DEF Next

\* What clients know is right in every state, if they are prompt.
THEOREM ViewInvariance == ASSUME PromptStart PROVE Spec => []ViewInv
<1>1. IInv /\ Emits /\ ViewInv /\ [Next]_vars => ViewInv'
  BY NextView
<1>2. QED
  BY <1>1, InitView, Invariance, PTL DEF Spec

\* ClientSeesProcess: a client that starts its process in the handler that created it
\* receives the signals of one life cycle, whether the program was launched for it, had been
\* running long before, came up just now or failed before anybody listened, and whatever is
\* called in the slots on them; state() is the one they tell, or are about to tell.
THEOREM ClientAlwaysSees == ASSUME PromptStart PROVE Spec => []ClientSeesProcess
<1>1. IInv /\ Emits /\ ViewInv => ClientSeesProcess
  <2> SUFFICES ASSUME IInv, Emits, ViewInv PROVE ClientSeesProcess
    OBVIOUS
  <2>1. TypeOK
    <3>1. idleCpuRequest \in BOOLEAN /\ internalProcesses \in SUBSET Backends
      BY DEF IInv, Types, PresentedState, wantsPrelaunch
    <3> QED
      BY <3>1 DEF IInv, Types, Emits, ViewInv, ViewTypes, TypeOK
  <2>2. ClientSeesLifecycle
    BY DEF ClientSeesLifecycle, Held, ViewInv, Story, Waiting, Receiving, Informed, StillBorn,
       At
  <2>3. StateAgrees
    <3> SUFFICES ASSUME NEW b \in Held, m_started[b]
                 PROVE  qstate[b] = Life!StateAt(AfterAll(seen[b], m_queue[b]))
      BY DEF StateAgrees, state
    <3>1. Receiving(b) \/ Informed(b)
      BY DEF Held, ViewInv, Story, Waiting, StillBorn
    <3>2. CASE Receiving(b)
      BY <3>2, Views DEF Receiving, At, Life!StateAt
    <3>3. CASE Informed(b)
      BY <3>3, Views DEF Informed, At, Life!StateAt
    <3> QED
      BY <3>1, <3>2, <3>3
  <2> QED
    BY <2>1, <2>2, <2>3 DEF ClientSeesProcess
<1>2. QED
  BY <1>1, Invariance, ViewInvariance, PTL
=============================================================================
