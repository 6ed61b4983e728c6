------------------------- MODULE IdleManagerProofs -------------------------
(***************************************************************************)
(* Proofs about IdleManager for any factories, delegates and order of      *)
(* events, in a program or in a launcher, and about IdleReadings for any   *)
(* devices, thresholds and width of an int.                                *)
(***************************************************************************)
EXTENDS IdleManager, IdleReadings, WellFoundedInduction, TLAPS

(***************************************************************************)
(* The inductive invariant.  It has three parts that do not need each      *)
(* other, each with the property it is for.                                *)
(***************************************************************************)

\* A delegate that was never assigned has not been asked for anything, and a manager
\* that began without one has assigned a second.
Delegation ==
    /\ FirstDelegate \in used /\ used \subseteq Delegates
    /\ m_idleDelegate \in used \cup {None}
    /\ \A d \in Delegates \ used : requested[d] = FALSE
    /\ isLauncher /\ used = {FirstDelegate} => m_idleDelegate = None

Timers == \A d \in Delegates : ticking[d] = (enabled[d] /\ requested[d])

\* The part of OwnerKnows about the request.
RequestTold ==
    isLauncher =>
       /\ m_idleDelegate = None /\ m_idleCpuRequest => told
       /\ used = {FirstDelegate} /\ m_idleDelegate = None => told = m_idleCpuRequest

RequestInv == Delegation /\ Timers /\ RequestAgrees /\ RequestTold

\* The part of OwnerKnows about the list.
ListTold == isLauncher => listed = m_internalProcesses

IInv == TypeOK /\ RequestInv /\ RestrictionReaches /\ ListTold /\ ProcessesListed

(***************************************************************************)
(* Operators.                                                              *)
(***************************************************************************)

\* The factories after one is added.
LEMMA AddedByAppend ==
    ASSUME NEW f, m_factories \in Seq(Factories), f \in Factories,
           m_factories' = Append(m_factories, f)
    PROVE  /\ m_factories' \in Seq(Factories)
           /\ Added' = Added \cup {f}
<1>1. m_factories' \in Seq(Factories)
  OBVIOUS
<1>2. DOMAIN m_factories' = 1 .. Len(m_factories) + 1 /\ DOMAIN m_factories = 1 .. Len(m_factories)
  OBVIOUS
<1>3. \A i \in 1 .. Len(m_factories) : m_factories'[i] = m_factories[i]
  OBVIOUS
<1>4. m_factories'[Len(m_factories) + 1] = f
  OBVIOUS
<1>5. Len(m_factories) \in Nat
  OBVIOUS
<1>6. QED
  BY <1>1, <1>2, <1>3, <1>4, <1>5 DEF Added, ToSet

\* The first requester is one, and none comes before it.
LEMMA FirstRequesterIsFirst ==
    ASSUME m_factories \in Seq(Factories), Requesters # {}
    PROVE  /\ firstRequester \in Requesters
           /\ m_factories[firstRequester] \in Added
<1>1. Requesters \subseteq Nat /\ Requesters \subseteq DOMAIN m_factories
  BY DEF Requesters
<1>2. \E i \in Requesters : \A j \in Requesters : i <= j
  <2>1. PICK i \in Requesters : \A j \in Requesters : <<j, i>> \notin OpToRel(<, Nat)
    BY <1>1, WFMin, NatLessThanWellFounded
  <2>2. \A j \in Requesters : ~(j < i)
    BY <1>1, <2>1 DEF OpToRel
  <2>3. \A j \in Requesters : i <= j
    BY <1>1, <2>2
  <2>4. QED
    BY <2>3
<1>3. firstRequester \in Requesters
  BY <1>2 DEF firstRequester
<1>4. QED
  BY <1>1, <1>3 DEF Added, ToSet

\* What updateIdleCpuRequest does to request, delegate and owner; the delegate has the
\* request that the manager believes it has.
LEMMA RequestUpdated ==
    ASSUME TypeOK, Timers, enabled' = enabled,
           NEW was \in BOOLEAN, NEW d \in Delegates \cup {None},
           d # None => requested[d] = was,
           updateIdleCpuRequest(m_factories', wantsIdle', was, d)
    PROVE  /\ m_idleCpuRequest' = (\E f \in Added' : wantsIdle'[f])
           /\ m_idleCpuRequest' \in BOOLEAN
           /\ requested' \in [Delegates -> BOOLEAN] /\ ticking' \in [Delegates -> BOOLEAN]
           /\ Timers'
           /\ d # None => requested'[d] = m_idleCpuRequest'
           /\ \A e \in Delegates : e # d => requested'[e] = requested[e]
           /\ told' = IF isLauncher /\ d = None /\ m_idleCpuRequest' # was
                      THEN m_idleCpuRequest' ELSE told
<1>1. m_idleCpuRequest' = (\E f \in Added' : wantsIdle'[f]) /\ m_idleCpuRequest' \in BOOLEAN
  BY DEF updateIdleCpuRequest, Added
<1>2. told' = IF isLauncher /\ d = None /\ m_idleCpuRequest' # was
              THEN m_idleCpuRequest' ELSE told
  BY <1>1 DEF updateIdleCpuRequest, handleIdleCpuRequest, Added
<1>3. CASE m_idleCpuRequest' # was /\ d # None
  <2>1. requestIdleCpu(d, m_idleCpuRequest')
    BY <1>1, <1>3 DEF updateIdleCpuRequest, Added
  <2>2. requested[d] # m_idleCpuRequest' /\ d \in Delegates
    BY <1>3
  <2>3. requested' = [requested EXCEPT ![d] = m_idleCpuRequest']
    BY <2>1, <2>2 DEF requestIdleCpu
  <2>4. requested' \in [Delegates -> BOOLEAN] /\ requested'[d] = m_idleCpuRequest'
    BY <1>1, <2>2, <2>3 DEF TypeOK
  <2>5. \A e \in Delegates : e # d => requested'[e] = requested[e]
    BY <2>3 DEF TypeOK
  <2>6. ticking' = IF enabled[d] THEN [ticking EXCEPT ![d] = m_idleCpuRequest'] ELSE ticking
    BY <2>1, <2>2 DEF requestIdleCpu, handleStateChange
  <2>7. ticking' \in [Delegates -> BOOLEAN]
    BY <1>1, <2>2, <2>6 DEF TypeOK
  <2>8. ticking'[d] = (enabled[d] /\ requested'[d])
    BY <1>1, <2>2, <2>4, <2>6 DEF TypeOK, Timers
  <2>9. \A e \in Delegates : e # d => ticking'[e] = ticking[e]
    BY <2>6 DEF TypeOK
  <2>10. Timers'
    BY <2>2, <2>5, <2>8, <2>9 DEF Timers
  <2>11. QED
    BY <1>1, <1>2, <2>4, <2>5, <2>7, <2>10
<1>4. CASE ~(m_idleCpuRequest' # was /\ d # None)
  <2>1. requested' = requested /\ ticking' = ticking
    BY <1>1, <1>4 DEF updateIdleCpuRequest, Added
  <2>2. Timers'
    BY <2>1 DEF Timers
  <2>3. QED
    BY <1>1, <1>2, <1>4, <2>1, <2>2 DEF TypeOK
<1>5. QED
  BY <1>3, <1>4

\* The same from the invariant, for a manager that keeps its delegate.
LEMMA RequestKept ==
    ASSUME TypeOK, RequestInv,
           updateIdleCpuRequest(m_factories', wantsIdle', m_idleCpuRequest, m_idleDelegate),
           UNCHANGED <<enabled, used, m_idleDelegate, isLauncher>>
    PROVE  /\ RequestInv'
           /\ m_idleCpuRequest' \in BOOLEAN /\ told' \in BOOLEAN
           /\ requested' \in [Delegates -> BOOLEAN] /\ ticking' \in [Delegates -> BOOLEAN]
<1>1. m_idleCpuRequest \in BOOLEAN /\ m_idleDelegate \in Delegates \cup {None}
  BY DEF TypeOK
<1>2. m_idleDelegate # None => requested[m_idleDelegate] = m_idleCpuRequest
  BY DEF RequestInv, RequestAgrees
<1>3. Timers
  BY DEF RequestInv
<1> DEFINE d == m_idleDelegate
<1>4. /\ m_idleCpuRequest' = (\E f \in Added' : wantsIdle'[f])
      /\ m_idleCpuRequest' \in BOOLEAN
      /\ requested' \in [Delegates -> BOOLEAN] /\ ticking' \in [Delegates -> BOOLEAN]
      /\ Timers'
      /\ d # None => requested'[d] = m_idleCpuRequest'
      /\ \A e \in Delegates : e # d => requested'[e] = requested[e]
      /\ told' = IF isLauncher /\ d = None /\ m_idleCpuRequest' # m_idleCpuRequest
                 THEN m_idleCpuRequest' ELSE told
  BY <1>1, <1>2, <1>3, RequestUpdated
<1>5. RequestAgrees'
  BY <1>4 DEF RequestAgrees
<1>6. told' \in BOOLEAN
  BY <1>4 DEF TypeOK
<1>7. Delegation'
  <2>1. Delegation /\ \A e \in Delegates \ used : e # d
    BY ConstantsAssumption DEF RequestInv, Delegation
  <2>2. \A e \in Delegates \ used : requested'[e] = FALSE
    BY <1>4, <2>1 DEF Delegation
  <2>3. QED
    BY <2>1, <2>2 DEF Delegation
<1>8. RequestTold'
  BY <1>1, <1>4 DEF RequestTold, RequestInv, TypeOK
<1>9. QED
  BY <1>4, <1>5, <1>6, <1>7, <1>8 DEF RequestInv

(***************************************************************************)
(* The initial states.                                                     *)
(***************************************************************************)

\* The manager starts without factories.
LEMMA InitInv == Init => IInv
<1> SUFFICES ASSUME Init PROVE IInv
  OBVIOUS
<1> USE ConstantsAssumption DEF Init, NewFactories, NewDelegates, initialDelegate
<1>1. Added = {}
  BY DEF Added, ToSet
<1>2. TypeOK
  <2>1. m_factories \in Seq(Factories) /\ intervals \in 0..MaxIntervals
    OBVIOUS
  <2>2. m_idleDelegate \in Delegates \cup {None} /\ used \in SUBSET Delegates
    OBVIOUS
  <2>3. /\ wantsIdle \in [Factories -> BOOLEAN] /\ knowsRestricted \in [Factories -> BOOLEAN]
        /\ busy \in [Factories -> BOOLEAN] /\ enabled \in [Delegates -> BOOLEAN]
        /\ requested \in [Delegates -> BOOLEAN] /\ ticking \in [Delegates -> BOOLEAN]
    OBVIOUS
  <2>4. QED
    BY <2>1, <2>2, <2>3 DEF TypeOK
<1>3. Delegation /\ Timers
  BY DEF Delegation, Timers
<1>4. RequestAgrees /\ RequestTold
  BY <1>1 DEF RequestAgrees, RequestTold
<1>5. RestrictionReaches /\ ListTold /\ ProcessesListed
  BY <1>1 DEF RestrictionReaches, ListTold, ProcessesListed
<1>6. QED
  BY <1>2, <1>3, <1>4, <1>5 DEF IInv, RequestInv

(***************************************************************************)
(* The idle request, with the types.                                       *)
(***************************************************************************)

\* A factory is added.
LEMMA addFactoryRequest ==
    ASSUME NEW f \in Factories, TypeOK, RequestInv, addFactory(f)
    PROVE  TypeOK' /\ RequestInv'
<1> USE DEF addFactory
<1>1. m_factories' \in Seq(Factories)
  BY AddedByAppend DEF TypeOK
<1>2. /\ RequestInv'
      /\ m_idleCpuRequest' \in BOOLEAN /\ told' \in BOOLEAN
      /\ requested' \in [Delegates -> BOOLEAN] /\ ticking' \in [Delegates -> BOOLEAN]
  <2>1. UNCHANGED <<enabled, used, m_idleDelegate, isLauncher>>
    BY DEF ownerVars
  <2>2. QED
    BY <2>1, RequestKept
<1>3. wantsIdle' \in [Factories -> BOOLEAN] /\ busy' \in [Factories -> BOOLEAN]
  BY DEF TypeOK
<1>4. knowsRestricted' \in [Factories -> BOOLEAN]
  BY DEF TypeOK, tellRestricted
<1>5. granted' \in Factories \cup {None}
  OBVIOUS
<1>6. UNCHANGED <<m_memoryRestricted, m_idleDelegate, m_internalProcesses, listed, isLauncher,
                  offer, enabled, used, intervals>>
  BY DEF ownerVars
<1> HIDE DEF addFactory
<1>7. TypeOK'
  BY <1>1, <1>2, <1>3, <1>4, <1>5, <1>6 DEF TypeOK
<1>8. QED
  BY <1>2, <1>7

\* The memory restriction is set.
LEMMA setMemoryRestrictedRequest ==
    ASSUME NEW v \in BOOLEAN, TypeOK, RequestInv, setMemoryRestricted(v)
    PROVE  TypeOK' /\ RequestInv'
<1> USE DEF setMemoryRestricted
<1>1. /\ RequestInv'
      /\ m_idleCpuRequest' \in BOOLEAN /\ told' \in BOOLEAN
      /\ requested' \in [Delegates -> BOOLEAN] /\ ticking' \in [Delegates -> BOOLEAN]
  <2>1. UNCHANGED <<enabled, used, m_idleDelegate, isLauncher>> /\ m_factories' = m_factories
    BY DEF ownerVars
  <2>2. updateIdleCpuRequest(m_factories', wantsIdle', m_idleCpuRequest, m_idleDelegate)
    BY <2>1
  <2>3. QED
    BY <2>1, <2>2, RequestKept
<1>2. wantsIdle' \in [Factories -> BOOLEAN] /\ busy' \in [Factories -> BOOLEAN]
  <2>1. PICK asking \in SUBSET (Added \cap Local) :
          wantsIdle' = [f \in Factories |->
              IF f \in Added \cap Local THEN f \in asking ELSE wantsIdle[f]]
    OBVIOUS
  <2>2. wantsIdle' \in [Factories -> BOOLEAN]
    <3>1. \A f \in Factories :
            (IF f \in Added \cap Local THEN f \in asking ELSE wantsIdle[f]) \in BOOLEAN
      BY DEF TypeOK
    <3> HIDE DEF setMemoryRestricted
    <3>2. QED
      BY <2>1, <3>1
  <2>3. busy' \in [Factories -> BOOLEAN]
    BY DEF TypeOK
  <2>4. QED
    BY <2>2, <2>3
<1>3. knowsRestricted' \in [Factories -> BOOLEAN] /\ m_memoryRestricted' \in BOOLEAN
  BY DEF TypeOK
<1>4. m_internalProcesses' \in SUBSET Factories /\ listed' \in SUBSET Factories
  <2>1. Added \subseteq Factories
    BY DEF Added, ToSet, TypeOK
  <2>2. QED
    BY <2>1 DEF updateInternalProcesses, handleInternalProcessChange, TypeOK, Added
<1>5. UNCHANGED <<m_factories, m_idleDelegate, isLauncher, offer, enabled, used, intervals>>
      /\ granted' = None
  BY DEF ownerVars
<1> HIDE DEF setMemoryRestricted
<1>6. TypeOK'
  BY <1>1, <1>2, <1>3, <1>4, <1>5 DEF TypeOK
<1>7. QED
  BY <1>1, <1>6

\* The idle delegate is set.
LEMMA setIdleDelegateRequest ==
    ASSUME NEW d \in Delegates \cup {None}, TypeOK, RequestInv, setIdleDelegate(d)
    PROVE  TypeOK' /\ RequestInv'
<1> USE DEF setIdleDelegate
<1>1. Delegation /\ Timers /\ RequestAgrees /\ RequestTold
  BY DEF RequestInv
<1>2. /\ m_idleDelegate' = d /\ used' = used \cup ({d} \ {None}) /\ d \notin used
      /\ d # m_idleDelegate
      /\ UNCHANGED <<m_factories, wantsIdle, enabled, isLauncher>>
  BY DEF ownerVars, factoryVars
<1>3. d # None => requested[d] = FALSE
  BY <1>1, <1>2 DEF Delegation
<1>4. updateIdleCpuRequest(m_factories', wantsIdle', FALSE, d)
  BY <1>2 DEF forgetRequest
<1>5. /\ m_idleCpuRequest' = (\E f \in Added' : wantsIdle'[f])
      /\ m_idleCpuRequest' \in BOOLEAN
      /\ requested' \in [Delegates -> BOOLEAN] /\ ticking' \in [Delegates -> BOOLEAN]
      /\ Timers'
      /\ d # None => requested'[d] = m_idleCpuRequest'
      /\ \A e \in Delegates : e # d => requested'[e] = requested[e]
      /\ told' = IF isLauncher /\ d = None /\ m_idleCpuRequest' # FALSE
                 THEN m_idleCpuRequest' ELSE told
  BY <1>1, <1>2, <1>3, <1>4, RequestUpdated
<1>6. UNCHANGED <<m_memoryRestricted, m_internalProcesses, listed, isLauncher, offer,
                  knowsRestricted, busy, intervals>> /\ granted' = None
  BY DEF ownerVars, factoryVars
<1> HIDE DEF setIdleDelegate
<1>7. told' \in BOOLEAN
  BY <1>5 DEF TypeOK
<1>8. m_idleDelegate' \in Delegates \cup {None} /\ used' \in SUBSET Delegates
  BY <1>2 DEF TypeOK
<1>9. TypeOK'
  BY <1>2, <1>5, <1>6, <1>7, <1>8 DEF TypeOK
<1>10. RequestAgrees'
  BY <1>2, <1>5 DEF RequestAgrees
<1>11. Delegation'
  <2>1. /\ FirstDelegate \in used' /\ used' \subseteq Delegates
        /\ m_idleDelegate' \in used' \cup {None}
    BY <1>1, <1>2, <1>8 DEF Delegation
  <2>2. \A e \in Delegates \ used' : requested'[e] = FALSE
    <3>1. \A e \in Delegates \ used' : e \notin used /\ e # d
      BY <1>2, ConstantsAssumption
    <3>2. QED
      BY <1>1, <1>5, <3>1 DEF Delegation
  <2>3. isLauncher /\ used' = {FirstDelegate} => d = None
    BY <1>1, <1>2 DEF Delegation
  <2>4. QED
    BY <1>2, <2>1, <2>2, <2>3 DEF Delegation
<1>12. RequestTold'
  <2>1. ASSUME isLauncher, d = None, m_idleCpuRequest' PROVE told'
    BY <1>5, <2>1
  <2>2. ~(isLauncher /\ used' = {FirstDelegate} /\ d = None)
    BY <1>1, <1>2, <2>1 DEF Delegation
  <2>3. QED
    BY <1>2, <2>1, <2>2 DEF RequestTold
<1>13. QED
  BY <1>5, <1>9, <1>10, <1>11, <1>12 DEF RequestInv

\* A factory of the manager is given idle CPU.
LEMMA idleCpuAvailableRequest ==
    ASSUME TypeOK, RequestInv, idleCpuAvailable,
           UNCHANGED <<m_factories, m_idleDelegate, isLauncher, enabled, used>>
    PROVE  /\ RequestInv'
           /\ m_idleCpuRequest' \in BOOLEAN /\ told' \in BOOLEAN
           /\ requested' \in [Delegates -> BOOLEAN] /\ ticking' \in [Delegates -> BOOLEAN]
           /\ wantsIdle' \in [Factories -> BOOLEAN] /\ granted' \in Factories \cup {None}
<1>1. CASE Requesters = {}
  <2>1. granted' = None /\ UNCHANGED <<m_idleCpuRequest, wantsIdle, requested, ticking, told>>
    BY <1>1 DEF idleCpuAvailable
  <2>2. RequestInv'
    BY <2>1 DEF RequestInv, Delegation, Timers, RequestAgrees, RequestTold, Added
  <2>3. QED
    BY <2>1, <2>2 DEF TypeOK
<1>2. CASE Requesters # {}
  <2> DEFINE f == m_factories[firstRequester]
  <2>1. f \in Factories
    BY <1>2, FirstRequesterIsFirst DEF TypeOK, Added, ToSet
  <2>2. /\ granted' = f
        /\ wantsIdle' = [wantsIdle EXCEPT ![f] = f \notin Local]
        /\ updateIdleCpuRequest(m_factories, wantsIdle', m_idleCpuRequest, m_idleDelegate)
    BY <1>2 DEF idleCpuAvailable
  <2>3. updateIdleCpuRequest(m_factories', wantsIdle', m_idleCpuRequest, m_idleDelegate)
    BY <2>2
  <2>4. wantsIdle' \in [Factories -> BOOLEAN]
    <3>1. (f \notin Local) \in BOOLEAN
      OBVIOUS
    <3>2. QED
      BY <2>2, <3>1 DEF TypeOK
  <2>5. QED
    BY <2>1, <2>2, <2>3, <2>4, RequestKept
<1>3. QED
  BY <1>1, <1>2

\* The idle delegate goes off: a timeout, or a packet on its socket.
LEMMA IdleTimeRequest ==
    ASSUME TypeOK, RequestInv, TimeoutIdle \/ ReceiveIdle
    PROVE  TypeOK' /\ RequestInv'
<1>1. UNCHANGED <<m_factories, m_memoryRestricted, m_idleDelegate, m_internalProcesses, listed,
                  isLauncher, knowsRestricted, busy, enabled, used, intervals>>
      /\ offer' \in BOOLEAN
  BY DEF TimeoutIdle, ReceiveIdle, ownerVars, TypeOK
<1>2. idleCpuAvailable \/ (granted' = None /\ UNCHANGED <<m_idleCpuRequest, wantsIdle, requested,
                                                        ticking, told>>)
  BY DEF TimeoutIdle, ReceiveIdle
<1>3. CASE idleCpuAvailable
  <2>1. /\ RequestInv'
        /\ m_idleCpuRequest' \in BOOLEAN /\ told' \in BOOLEAN
        /\ requested' \in [Delegates -> BOOLEAN] /\ ticking' \in [Delegates -> BOOLEAN]
        /\ wantsIdle' \in [Factories -> BOOLEAN] /\ granted' \in Factories \cup {None}
    BY <1>1, <1>3, idleCpuAvailableRequest
  <2>2. QED
    BY <1>1, <2>1 DEF TypeOK
<1>4. CASE granted' = None /\ UNCHANGED <<m_idleCpuRequest, wantsIdle, requested, ticking, told>>
  <2>1. RequestInv'
    BY <1>1, <1>4 DEF RequestInv, Delegation, Timers, RequestAgrees, RequestTold, Added
  <2>2. QED
    BY <1>1, <1>4, <2>1 DEF TypeOK
<1>5. QED
  BY <1>2, <1>3, <1>4

\* A factory wants idle CPU, or no more.
LEMMA setIdleCpuRequestRequest ==
    ASSUME NEW f \in Factories, NEW v \in BOOLEAN, TypeOK, RequestInv, setIdleCpuRequest(f, v)
    PROVE  TypeOK' /\ RequestInv'
<1> USE DEF setIdleCpuRequest
<1>1. wantsIdle' = [wantsIdle EXCEPT ![f] = v] /\ wantsIdle' \in [Factories -> BOOLEAN]
  BY DEF TypeOK
<1>2. UNCHANGED <<m_factories, m_memoryRestricted, m_idleDelegate, m_internalProcesses, listed,
                  isLauncher, offer, knowsRestricted, busy, enabled, used, intervals>>
      /\ granted' = None
  BY DEF ownerVars
<1>3. /\ RequestInv'
      /\ m_idleCpuRequest' \in BOOLEAN /\ told' \in BOOLEAN
      /\ requested' \in [Delegates -> BOOLEAN] /\ ticking' \in [Delegates -> BOOLEAN]
  <2>1. CASE f \in Added
    <3>1. updateIdleCpuRequest(m_factories', wantsIdle', m_idleCpuRequest, m_idleDelegate)
      BY <1>2, <2>1
    <3> HIDE DEF setIdleCpuRequest
    <3>2. QED
      BY <1>2, <3>1, RequestKept
  <2>2. CASE f \notin Added
    <3>1. UNCHANGED <<m_idleCpuRequest, requested, ticking, told>>
      BY <2>2
    <3>2. Added' = Added /\ \A g \in Added : wantsIdle'[g] = wantsIdle[g]
      BY <1>1, <1>2, <2>2 DEF Added, TypeOK
    <3> HIDE DEF setIdleCpuRequest
    <3>3. RequestInv'
      BY <1>2, <3>1, <3>2 DEF RequestInv, Delegation, Timers, RequestAgrees, RequestTold
    <3>4. QED
      BY <3>1, <3>3 DEF TypeOK
  <2>3. QED
    BY <2>1, <2>2
<1> HIDE DEF setIdleCpuRequest
<1>4. TypeOK'
  BY <1>1, <1>2, <1>3 DEF TypeOK
<1>5. QED
  BY <1>3, <1>4

\* The delegate is enabled.
LEMMA setEnabledRequest ==
    ASSUME NEW d \in Delegates, NEW v \in BOOLEAN, TypeOK, RequestInv, setEnabled(d, v)
    PROVE  TypeOK' /\ RequestInv'
<1>1. enabled' = [enabled EXCEPT ![d] = v] /\ enabled' \in [Delegates -> BOOLEAN]
  BY DEF setEnabled, TypeOK
<1>2. ticking' = IF requested[d] THEN [ticking EXCEPT ![d] = v] ELSE ticking
  BY DEF setEnabled, handleStateChange
<1>3. UNCHANGED <<managerVars, listed, isLauncher, told, offer, factoryVars, requested, used,
                  intervals>> /\ granted' = None
  BY DEF setEnabled, ownerVars
<1>4. ticking' \in [Delegates -> BOOLEAN]
  BY <1>2 DEF TypeOK
<1>5. Timers'
  <2>1. ASSUME NEW e \in Delegates, e # d PROVE ticking'[e] = (enabled'[e] /\ requested'[e])
    BY <1>1, <1>2, <1>3, <2>1 DEF RequestInv, Timers, TypeOK
  <2>2. ticking'[d] = (enabled'[d] /\ requested'[d])
    BY <1>1, <1>2, <1>3 DEF RequestInv, Timers, TypeOK
  <2>3. QED
    BY <2>1, <2>2 DEF Timers
<1>6. Delegation' /\ RequestAgrees' /\ RequestTold'
  BY <1>3 DEF RequestInv, Delegation, RequestAgrees, RequestTold, Added, managerVars, factoryVars
<1>7. TypeOK'
  BY <1>1, <1>3, <1>4 DEF TypeOK, managerVars, factoryVars
<1>8. QED
  BY <1>5, <1>6, <1>7 DEF RequestInv

\* The interval of the delegate is set.
LEMMA setIdleIntervalRequest ==
    ASSUME NEW d \in Delegates, TypeOK, RequestInv, setIdleInterval(d)
    PROVE  TypeOK' /\ RequestInv'
<1>1. ticking' = [ticking EXCEPT ![d] = enabled[d] /\ requested[d]]
  BY DEF setIdleInterval, restartTimer
<1>2. UNCHANGED <<managerVars, listed, isLauncher, told, offer, factoryVars, enabled, requested,
                  used>> /\ granted' = None
  BY DEF setIdleInterval, ownerVars
<1>3. intervals' \in 0 .. MaxIntervals
  BY ConstantsAssumption DEF setIdleInterval, TypeOK
<1>4. ticking' = ticking
  BY <1>1 DEF RequestInv, Timers, TypeOK
<1>5. RequestInv'
  BY <1>2, <1>4 DEF RequestInv, Delegation, Timers, RequestAgrees, RequestTold, Added, managerVars,
     factoryVars
<1>6. TypeOK'
  BY <1>2, <1>3, <1>4 DEF TypeOK, managerVars, factoryVars
<1>7. QED
  BY <1>5, <1>6

\* The other steps leave request and delegates alone.
LEMMA OtherRequest ==
    ASSUME TypeOK, RequestInv,
           \/ \E f \in Factories, v \in BOOLEAN : setInternalProcesses(f, v)
           \/ OwnerGrants \/ UNCHANGED vars
    PROVE  TypeOK' /\ RequestInv'
<1>1. UNCHANGED <<m_factories, m_memoryRestricted, m_idleCpuRequest, m_idleDelegate, isLauncher,
                  told, wantsIdle, knowsRestricted, enabled, requested, ticking, used, intervals>>
  BY DEF setInternalProcesses, OwnerGrants, vars, managerVars, ownerVars, factoryVars, delegateVars
<1>2. RequestInv'
  BY <1>1 DEF RequestInv, Delegation, Timers, RequestAgrees, RequestTold, Added
<1> DEFINE Others ==
      /\ granted' \in Factories \cup {None} /\ offer' \in BOOLEAN
      /\ busy' \in [Factories -> BOOLEAN]
      /\ m_internalProcesses' \in SUBSET Factories /\ listed' \in SUBSET Factories
<1>3. Others
  <2>1. CASE OwnerGrants \/ UNCHANGED vars
    BY <2>1 DEF OwnerGrants, vars, managerVars, ownerVars, factoryVars, delegateVars, TypeOK
  <2>2. ASSUME NEW f \in Factories, NEW v \in BOOLEAN, setInternalProcesses(f, v)
        PROVE  Others
    <3>1. ToSet(m_factories) \subseteq Factories
      BY DEF ToSet, TypeOK
    <3>2. QED
      BY <2>2, <3>1 DEF setInternalProcesses, updateInternalProcesses, handleInternalProcessChange,
         ownerVars, TypeOK
  <2>3. QED
    BY <2>1, <2>2
<1>4. TypeOK'
  BY <1>1, <1>3 DEF TypeOK
<1>5. QED
  BY <1>2, <1>4

\* Every step keeps the delegate asked exactly while a factory asks.
LEMMA RequestStep ==
    ASSUME TypeOK, RequestInv, [Next]_vars
    PROVE  TypeOK' /\ RequestInv'
<1>1. CASE \E f \in Factories : addFactory(f)
  BY <1>1, addFactoryRequest
<1>2. CASE \E v \in BOOLEAN : setMemoryRestricted(v)
  BY <1>2, setMemoryRestrictedRequest
<1>3. CASE \E d \in Delegates \cup {None} : setIdleDelegate(d)
  BY <1>3, setIdleDelegateRequest
<1>4. CASE TimeoutIdle \/ ReceiveIdle
  BY <1>4, IdleTimeRequest
<1>5. CASE \E f \in Factories, v \in BOOLEAN : setIdleCpuRequest(f, v)
  BY <1>5, setIdleCpuRequestRequest
<1>6. CASE \E d \in Delegates, v \in BOOLEAN : setEnabled(d, v)
  BY <1>6, setEnabledRequest
<1>7. CASE \E d \in Delegates : setIdleInterval(d)
  BY <1>7, setIdleIntervalRequest
<1>8. CASE \/ \E f \in Factories, v \in BOOLEAN : setInternalProcesses(f, v)
           \/ OwnerGrants \/ UNCHANGED vars
  BY <1>8, OtherRequest
<1>9. QED
  BY <1>1, <1>2, <1>3, <1>4, <1>5, <1>6, <1>7, <1>8 DEF Next

(***************************************************************************)
(* The memory restriction.                                                 *)
(***************************************************************************)

\* Idle time makes no factory that is local want any.
LEMMA idleCpuAvailableWants ==
    ASSUME TypeOK, idleCpuAvailable
    PROVE  \A g \in Local : wantsIdle'[g] => wantsIdle[g]
<1>1. CASE Requesters = {}
  BY <1>1 DEF idleCpuAvailable
<1>2. CASE Requesters # {}
  <2> DEFINE f == m_factories[firstRequester]
  <2>1. wantsIdle' = [wantsIdle EXCEPT ![f] = f \notin Local]
    BY <1>2 DEF idleCpuAvailable
  <2>2. \A g \in Local : g # f => wantsIdle'[g] = wantsIdle[g]
    BY <2>1, ConstantsAssumption DEF TypeOK
  <2>3. f \in Local => wantsIdle'[f] = FALSE
    BY <2>1, ConstantsAssumption DEF TypeOK
  <2>4. QED
    BY <2>2, <2>3
<1>3. QED
  BY <1>1, <1>2

\* Every step keeps the factories' restriction the manager's.
LEMMA RestrictionStep ==
    ASSUME TypeOK, RestrictionReaches, [Next]_vars
    PROVE  RestrictionReaches'
<1>1. ASSUME NEW f \in Factories, addFactory(f) PROVE RestrictionReaches'
  <2>1. Added' = Added \cup {f} /\ f \notin Added
    BY <1>1, AddedByAppend DEF addFactory, TypeOK
  <2>2. m_memoryRestricted' = m_memoryRestricted
    BY <1>1 DEF addFactory
  <2>3. /\ knowsRestricted'[f] = m_memoryRestricted
        /\ \A g \in Factories : g # f => knowsRestricted'[g] = knowsRestricted[g]
    BY <1>1 DEF addFactory, tellRestricted, TypeOK
  <2>4. /\ f \in Local /\ m_memoryRestricted => ~busy'[f] /\ ~wantsIdle'[f]
        /\ \A g \in Factories : g # f => busy'[g] = busy[g] /\ wantsIdle'[g] = wantsIdle[g]
    BY <1>1 DEF addFactory, TypeOK
  <2>5. Added \subseteq Factories
    BY DEF Added, ToSet, TypeOK
  <2>6. QED
    BY <2>1, <2>2, <2>3, <2>4, <2>5 DEF RestrictionReaches
<1>2. ASSUME NEW v \in BOOLEAN, setMemoryRestricted(v) PROVE RestrictionReaches'
  <2>1. Added' = Added /\ m_memoryRestricted' = v /\ Added \subseteq Factories
    BY <1>2 DEF setMemoryRestricted, Added, ToSet, TypeOK
  <2>2. \A f \in Added : knowsRestricted'[f] = v
    BY <1>2, <2>1 DEF setMemoryRestricted
  <2>3. \A f \in Added \cap Local : v => ~busy'[f] /\ ~wantsIdle'[f]
    BY <1>2, <2>1 DEF setMemoryRestricted
  <2>4. QED
    BY <2>1, <2>2, <2>3 DEF RestrictionReaches
<1>3. CASE TimeoutIdle \/ ReceiveIdle
  <2>1. UNCHANGED <<m_factories, m_memoryRestricted, knowsRestricted, busy>>
    BY <1>3 DEF TimeoutIdle, ReceiveIdle
  <2>2. \A g \in Local : wantsIdle'[g] => wantsIdle[g]
    BY <1>3, idleCpuAvailableWants DEF TimeoutIdle, ReceiveIdle
  <2>3. QED
    BY <2>1, <2>2 DEF RestrictionReaches, Added
<1>4. ASSUME NEW f \in Factories, NEW v \in BOOLEAN,
             setIdleCpuRequest(f, v) \/ setInternalProcesses(f, v)
      PROVE  RestrictionReaches'
  <2>1. UNCHANGED <<m_factories, m_memoryRestricted, knowsRestricted>>
        /\ (f \in Local /\ v => ~knowsRestricted[f])
    BY <1>4 DEF setIdleCpuRequest, setInternalProcesses
  <2>2. \A g \in Factories : \/ wantsIdle'[g] = wantsIdle[g] /\ busy'[g] = busy[g]
                             \/ g = f /\ wantsIdle'[g] = v /\ busy'[g] = busy[g]
                             \/ g = f /\ wantsIdle'[g] = wantsIdle[g] /\ busy'[g] = v
    BY <1>4 DEF setIdleCpuRequest, setInternalProcesses, TypeOK
  <2>3. Added \subseteq Factories /\ Added' = Added
    BY <2>1 DEF Added, ToSet, TypeOK
  <2>4. QED
    BY <2>1, <2>2, <2>3 DEF RestrictionReaches
<1>5. CASE \/ \E d \in Delegates \cup {None} : setIdleDelegate(d)
           \/ \E d \in Delegates, v \in BOOLEAN : setEnabled(d, v)
           \/ \E d \in Delegates : setIdleInterval(d)
           \/ OwnerGrants \/ UNCHANGED vars
  <2>1. UNCHANGED <<m_factories, m_memoryRestricted, knowsRestricted, busy, wantsIdle>>
    BY <1>5 DEF setIdleDelegate, setEnabled, setIdleInterval, OwnerGrants, vars, managerVars,
       factoryVars
  <2>2. QED
    BY <2>1 DEF RestrictionReaches, Added
<1>6. QED
  BY <1>1, <1>2, <1>3, <1>4, <1>5 DEF Next

(***************************************************************************)
(* The internal processes.                                                 *)
(***************************************************************************)

\* What updateInternalProcesses leaves behind.
LEMMA ListUpdated ==
    ASSUME ListTold, isLauncher' = isLauncher, updateInternalProcesses(m_factories, busy')
    PROVE  m_internalProcesses' = {f \in Added : busy'[f]} /\ late' = {} /\ ListTold'
  BY DEF updateInternalProcesses, handleInternalProcessChange, ListTold, Added

\* Listeners are always told of the list as it is.
LEMMA ListToldStep ==
    ASSUME TypeOK, ListTold, [Next]_vars
    PROVE  ListTold'
<1>1. CASE \E v \in BOOLEAN : setMemoryRestricted(v)
  <2>1. /\ isLauncher' = isLauncher
        /\ \/ updateInternalProcesses(m_factories, busy')
           \/ UNCHANGED <<m_internalProcesses, listed, late>>
    BY <1>1 DEF setMemoryRestricted, ownerVars
  <2>2. QED
    BY <2>1, ListUpdated DEF ListTold
<1>2. ASSUME NEW f \in Factories, NEW v \in BOOLEAN, setInternalProcesses(f, v)
      PROVE  ListTold'
  <2>1. isLauncher' = isLauncher
    BY <1>2 DEF setInternalProcesses, ownerVars
  <2>2. CASE f \in Added
    BY <1>2, <2>1, <2>2, ListUpdated DEF setInternalProcesses
  <2>3. CASE f \notin Added
    BY <1>2, <2>1, <2>3 DEF setInternalProcesses, ListTold
  <2>4. QED
    BY <2>2, <2>3
<1>3. CASE \/ \E f \in Factories : addFactory(f)
           \/ \E f \in Factories, v \in BOOLEAN : setIdleCpuRequest(f, v)
           \/ \E d \in Delegates \cup {None} : setIdleDelegate(d)
           \/ \E d \in Delegates, v \in BOOLEAN : setEnabled(d, v)
           \/ \E d \in Delegates : setIdleInterval(d)
           \/ TimeoutIdle \/ ReceiveIdle \/ OwnerGrants \/ UNCHANGED vars
  <2>1. UNCHANGED <<m_internalProcesses, listed, isLauncher>>
    BY <1>3 DEF addFactory, setIdleCpuRequest, setIdleDelegate, setEnabled, setIdleInterval,
       TimeoutIdle, ReceiveIdle, OwnerGrants, vars, managerVars, ownerVars
  <2>2. QED
    BY <2>1 DEF ListTold
<1>4. QED
  BY <1>1, <1>2, <1>3 DEF Next

\* Every step keeps the list of internal processes.
LEMMA ListStep ==
    ASSUME TypeOK, ListTold, ProcessesListed, [Next]_vars
    PROVE  ProcessesListed'
<1>1. Added \subseteq Factories
  BY DEF Added, ToSet, TypeOK
<1>2. ASSUME NEW f \in Factories, addFactory(f) PROVE ProcessesListed'
  <2>1. Added' = Added \cup {f} /\ f \notin Added
    BY <1>2, AddedByAppend DEF addFactory, TypeOK
  <2>2. /\ m_internalProcesses' = m_internalProcesses
        /\ late' = IF busy'[f] THEN late \cup {f} ELSE late
    BY <1>2 DEF addFactory
  <2>3. \A g \in Factories : g # f => busy'[g] = busy[g]
    BY <1>2, <2>1 DEF addFactory, TypeOK
  <2>4. QED
    BY <1>1, <2>1, <2>2, <2>3 DEF ProcessesListed
<1>3. ASSUME NEW v \in BOOLEAN, setMemoryRestricted(v) PROVE ProcessesListed'
  <2>1. Added' = Added
    BY <1>3 DEF setMemoryRestricted, Added
  <2>2. CASE busy' # busy
    <3>1. m_internalProcesses' = {f \in Added : busy'[f]} /\ late' = {}
      BY <1>3, <2>2, ListUpdated DEF setMemoryRestricted, ownerVars
    <3> QED
      BY <2>1, <3>1 DEF ProcessesListed
  <2>3. CASE busy' = busy
    <3>1. UNCHANGED <<m_internalProcesses, late>>
      BY <1>3, <2>3 DEF setMemoryRestricted
    <3> QED
      BY <2>1, <2>3, <3>1 DEF ProcessesListed
  <2> QED
    BY <2>2, <2>3
<1>4. ASSUME NEW f \in Factories, NEW v \in BOOLEAN, setInternalProcesses(f, v)
      PROVE  ProcessesListed'
  <2>1. Added' = Added /\ isLauncher' = isLauncher /\ busy' = [busy EXCEPT ![f] = v]
    BY <1>4 DEF setInternalProcesses, Added, ownerVars
  <2>2. CASE f \in Added
    <3>1. m_internalProcesses' = {g \in Added : busy'[g]} /\ late' = {}
      BY <1>4, <2>1, <2>2, ListUpdated DEF setInternalProcesses
    <3> QED
      BY <2>1, <3>1 DEF ProcessesListed
  <2>3. CASE f \notin Added
    <3>1. UNCHANGED <<m_internalProcesses, late>>
      BY <1>4, <2>3 DEF setInternalProcesses
    <3>2. \A g \in Added : busy'[g] = busy[g]
      BY <1>1, <2>1, <2>3 DEF TypeOK
    <3> QED
      BY <2>1, <3>1, <3>2 DEF ProcessesListed
  <2> QED
    BY <2>2, <2>3
<1>5. CASE \/ \E f \in Factories, v \in BOOLEAN : setIdleCpuRequest(f, v)
           \/ \E d \in Delegates \cup {None} : setIdleDelegate(d)
           \/ \E d \in Delegates, v \in BOOLEAN : setEnabled(d, v)
           \/ \E d \in Delegates : setIdleInterval(d)
           \/ TimeoutIdle \/ ReceiveIdle \/ OwnerGrants \/ UNCHANGED vars
  <2>1. UNCHANGED <<m_factories, m_internalProcesses, busy, late>>
    BY <1>5 DEF setIdleCpuRequest, setIdleDelegate, setEnabled, setIdleInterval,
       TimeoutIdle, ReceiveIdle, OwnerGrants, vars, managerVars, factoryVars
  <2>2. QED
    BY <2>1 DEF ProcessesListed, Added
<1>6. QED
  BY <1>2, <1>3, <1>4, <1>5 DEF Next

(***************************************************************************)
(* The theorems.                                                           *)
(***************************************************************************)

\* The inductive invariant holds in every state of the manager.
LEMMA Invariance == Spec => []IInv
<1>1. Init => IInv
  BY InitInv
<1>2. IInv /\ [Next]_vars => IInv'
  BY RequestStep, RestrictionStep, ListToldStep, ListStep DEF IInv
<1>3. QED
  BY <1>1, <1>2, PTL DEF Spec

\* Type correctness, for any numbers of factories and delegates.
THEOREM TypeCorrect == Spec => []TypeOK
<1>1. IInv => TypeOK
  BY DEF IInv
<1>2. QED
  BY <1>1, Invariance, PTL

\* The delegate is asked for idle time exactly while some factory wants it
\* (QProcessBackendManager::updateIdleCpuRequest and its callers).
THEOREM RequestsAgree == Spec => []RequestAgrees
<1>1. IInv => RequestAgrees
  BY DEF IInv, RequestInv
<1>2. QED
  BY <1>1, Invariance, PTL

\* Its timer runs exactly while it is enabled and asked (QIdleDelegate's setters, and the
\* three handleStateChange).
THEOREM TimersAgree == Spec => []TimerAgrees
<1>1. IInv => TimerAgrees
  BY ConstantsAssumption DEF IInv, RequestInv, Timers, TimerAgrees, TypeOK
<1>2. QED
  BY <1>1, Invariance, PTL

\* IdleTimeAsked: a request is known to manager, delegate and timer.
THEOREM IdleTimeIsAsked == Spec => []IdleTimeAsked
<1>1. TypeOK /\ RequestAgrees /\ TimerAgrees => IdleTimeAsked
  BY DEF IdleTimeAsked
<1>2. QED
  BY <1>1, TypeCorrect, RequestsAgree, TimersAgree, PTL

\* Every factory of the manager works under its memory restriction, and a restricted
\* prelaunch factory neither keeps a process nor asks for one.
THEOREM RestrictionIsKnown == Spec => []RestrictionReaches
<1>1. IInv => RestrictionReaches
  BY DEF IInv
<1>2. QED
  BY <1>1, Invariance, PTL

\* The owner of a launcher knows its internal processes and, while the launcher has no
\* delegate, its request (qpipelauncher.cpp, handleIdleCpuRequest and
\* handleInternalProcessChange).
THEOREM OwnerIsTold == Spec => []OwnerKnows
<1>1. IInv => OwnerKnows
  BY DEF IInv, RequestInv, RequestTold, ListTold, OwnerKnows
<1>2. QED
  BY <1>1, Invariance, PTL

\* FactoriesAgree: restriction and list are those of the factories; the list misses no
\* process but those that a factory already had when it was added, and these only until it
\* is next made (addFactory does not make it).
THEOREM FactoriesAreKnown == Spec => []FactoriesAgree
<1>1. IInv => FactoriesAgree
  BY DEF IInv, FactoriesAgree
<1>2. QED
  BY <1>1, Invariance, PTL

(***************************************************************************)
(* Readings: the inductive invariant of IdleReadings, which computes the   *)
(* load that IdleManager takes for a choice.                               *)
(***************************************************************************)

\* The types, and the clocks that run; what the kernel counts may outgrow an int.
ReadingTypes ==
    /\ kind \in Kinds /\ m_enabled \in BOOLEAN /\ m_requested \in BOOLEAN
    /\ m_timer \in Off .. Interval + MaxLate
    /\ (m_timer # Off <=> m_enabled /\ m_requested)
    /\ kind = "io" /\ m_timer # Off => m_elapsed # Off
    /\ m_loadThreshold \in Thresholds
    /\ m_load[1] \in Int /\ m_load[2] \in Nat \ {0}
    /\ m_idle \in 0 .. MaxInt /\ m_last_msecs \in 0 .. MaxInt
    /\ m_total \in -MaxInt - 1 .. MaxInt
    /\ m_elapsed \in Off .. time
    /\ m_device \in Devices /\ busyTime \in [Devices -> Nat]
    /\ user \in Nat /\ other \in Nat /\ idle \in Nat
    /\ time \in 0 .. MaxTime /\ calls \in 0 .. MaxCalls
    /\ basis \in {"exact", "nothing", "long"}

\* The kernel's counters are not behind those of the last reading, and the timer was not
\* started before it.
NotBehind ==
    /\ then = [user |-> then.user, other |-> then.other, idle |-> then.idle,
               busy |-> then.busy, time |-> then.time]
    /\ then.other \in 0 .. other /\ then.idle \in 0 .. idle
    /\ then.busy \in 0 .. busyTime[m_device] /\ then.time \in 0 .. time
    /\ m_timer # Off => m_timer <= time - then.time

\* What a CPU delegate keeps is what it read last.
CpuKept ==
    kind = "cpu" /\ m_timer # Off =>
       /\ m_idle = toInt(then.idle)
       /\ m_total = Wrapped(toInt(then.other) + toInt(then.idle))

\* What an I/O delegate keeps is what it read last, if there was something to read, and
\* the time since, or a longer one.
IoKept ==
    kind = "io" /\ busyTime[m_device] <= MaxInt =>
       /\ m_timer # Off =>
             /\ basis = "exact" => m_elapsed = time - then.time
             /\ basis = "long" => m_elapsed >= time - then.time
             /\ basis # "nothing" => m_last_msecs = then.busy /\ then.busy > 0
             /\ basis = "nothing" => m_last_msecs = 0
       /\ m_elapsed # Off /\ m_last_msecs > 0 =>
             busyTime[m_device] - m_last_msecs \in 0 .. m_elapsed

ReadingInv ==
    /\ ReadingTypes /\ NotBehind /\ CpuKept /\ IoKept
    /\ LoadIsMeasured /\ PromisesHold

(***************************************************************************)
(* Integers of limited width.                                              *)
(***************************************************************************)

\* toInt yields an int, and the number itself if this is one.
LEMMA IntOf ==
    ASSUME ReadingsAssumption, NEW n \in Nat
    PROVE  toInt(n) \in 0 .. MaxInt /\ (n <= MaxInt => toInt(n) = n)
BY DEF toInt, ReadingsAssumption

\* Sums of two counters, and a positive difference of two ints, wrap at most once.
LEMMA WrappedSum ==
    ASSUME ReadingsAssumption, NEW n \in 0 .. 2 * MaxInt + 1
    PROVE  /\ Wrapped(n) \in -MaxInt - 1 .. MaxInt
           /\ Wrapped(n) = IF n <= MaxInt THEN n ELSE n - 2 * MaxInt - 2
<1> DEFINE D == 2 * MaxInt + 2
           a == n + MaxInt + 1
<1>1. D \in Nat \ {0} /\ MaxInt \in Nat /\ a \in 0 .. 2 * D - 1
  BY DEF ReadingsAssumption
<1>2. a % D = IF a < D THEN a ELSE a - D
  <2> HIDE DEF D, a
  <2>1. CASE a \in 0 .. D - 1
    <3>1. a % D = a
      BY <1>1, <2>1
    <3> QED
      BY <1>1, <2>1, <3>1
  <2>2. CASE a \in D .. 2 * D - 1
    <3>1. a % D = a - D
      BY <1>1, <2>2
    <3> QED
      BY <1>1, <2>2, <3>1
  <2> QED
    BY <1>1, <2>1, <2>2
<1>3. Wrapped(n) = (a % D) - MaxInt - 1
  BY DEF Wrapped
<1>4. Wrapped(n) = IF n <= MaxInt THEN n ELSE n - 2 * MaxInt - 2
  <2> DEFINE r == a % D
  <2>1. r = IF a < D THEN a ELSE a - D
    BY <1>2
  <2>2. Wrapped(n) = r - MaxInt - 1
    BY <1>3
  <2> HIDE DEF r
  <2> QED
    BY <1>1, <2>1, <2>2
<1> QED
  BY <1>1, <1>4

\* The sum that a CPU delegate makes of two counters.
LEMMA Summed ==
    ASSUME ReadingsAssumption, NEW n \in Nat, NEW k \in Nat
    PROVE  /\ Wrapped(toInt(n) + toInt(k)) \in -MaxInt - 1 .. MaxInt
           /\ toInt(n) + toInt(k) <= MaxInt =>
                 Wrapped(toInt(n) + toInt(k)) = toInt(n) + toInt(k)
           /\ ~(toInt(n) + toInt(k) <= MaxInt) =>
                 Wrapped(toInt(n) + toInt(k))
                    = (toInt(n) + toInt(k)) - 2 * MaxInt - 2
<1>1. toInt(n) \in 0 .. MaxInt /\ toInt(k) \in 0 .. MaxInt
  BY IntOf
<1>2. PICK sum : sum = toInt(n) + toInt(k)
  OBVIOUS
<1>3. sum \in 0 .. 2 * MaxInt
  BY <1>1, <1>2 DEF ReadingsAssumption
<1>4. Wrapped(sum) \in -MaxInt - 1 .. MaxInt
  BY <1>3, WrappedSum
<1>5. /\ sum <= MaxInt => Wrapped(sum) = sum
      /\ ~(sum <= MaxInt) => Wrapped(sum) = sum - 2 * MaxInt - 2
  BY <1>3, WrappedSum
<1>6. Wrapped(toInt(n) + toInt(k)) \in -MaxInt - 1 .. MaxInt
  BY <1>2, <1>4, Zenon
<1>7. ASSUME toInt(n) + toInt(k) <= MaxInt
      PROVE  Wrapped(toInt(n) + toInt(k)) = toInt(n) + toInt(k)
  <2>1. Wrapped(sum) = sum
    BY <1>2, <1>5, <1>7
  <2> QED
    BY <1>2, <2>1, Zenon
<1>8. ASSUME ~(toInt(n) + toInt(k) <= MaxInt)
      PROVE  Wrapped(toInt(n) + toInt(k))
                    = (toInt(n) + toInt(k)) - 2 * MaxInt - 2
  <2>1. Wrapped(sum) = sum - 2 * MaxInt - 2
    BY <1>2, <1>5, <1>8
  <2> QED
    BY <1>2, <2>1, Zenon
<1> QED
  BY <1>6, <1>7, <1>8

(***************************************************************************)
(* What the delegate reads.                                                *)
(***************************************************************************)

\* The load of the processor is a fraction.
LEMMA CpuLoadType ==
    ASSUME ReadingsAssumption, ReadingTypes, NEW reset \in BOOLEAN,
           NEW total \in -MaxInt - 1 .. MaxInt, NEW idl \in 0 .. MaxInt
    PROVE  /\ CpuLoad(reset, total, idl)[1] \in Int
           /\ CpuLoad(reset, total, idl)[2] \in Nat \ {0}
<1>1. CASE reset \/ total <= m_total
  BY <1>1 DEF CpuLoad, Unknown
<1>2. CASE ~(reset \/ total <= m_total)
  <2>1. MaxInt \in Nat /\ m_total \in -MaxInt - 1 .. MaxInt /\ m_idle \in 0 .. MaxInt
    BY DEF ReadingTypes, ReadingsAssumption
  <2>2. PICK d : d = total - m_total
    OBVIOUS
  <2>3. d \in 1 .. 2 * MaxInt + 1
    BY <1>2, <2>1, <2>2
  <2>4. PICK all : all = Wrapped(d)
    OBVIOUS
  <2>5. all = IF d <= MaxInt THEN d ELSE d - 2 * MaxInt - 2
    BY <2>3, <2>4, WrappedSum
  <2>6. all \in Int /\ all # 0
    BY <2>1, <2>3, <2>5
  <2>7. all = Wrapped(total - m_total)
    BY <2>2, <2>4
  <2>8. CpuLoad(reset, total, idl)
           = IF all > 0 THEN <<all - (idl - m_idle), all>> ELSE <<(idl - m_idle) - all, -all>>
    BY <1>2, <2>7 DEF CpuLoad
  <2> QED
    BY <2>1, <2>6, <2>8
<1> QED
  BY <1>1, <1>2

\* There are three things that a reading can be measured against.
LEMMA BasisType ==
    ASSUME ReadingTypes, NEW first \in BOOLEAN
    PROVE  Basis(first) \in {"exact", "nothing", "long"}
BY DEF Basis, ReadingTypes

\* A reading has the types, whichever delegate takes it.
LEMMA StatsTypes ==
    ASSUME ReadingsAssumption, ReadingTypes, NEW reset \in BOOLEAN, updateStats(reset)
    PROVE  /\ m_load'[1] \in Int /\ m_load'[2] \in Nat \ {0}
           /\ m_idle' \in 0 .. MaxInt /\ m_last_msecs' \in 0 .. MaxInt
           /\ m_total' \in -MaxInt - 1 .. MaxInt
           /\ m_elapsed' \in Off .. time
<1>1. CASE kind = "cpu"
  <2> DEFINE idl == toInt(idle)
             total == Wrapped(toInt(other) + idl)
  <2>1. /\ m_load' = CpuLoad(reset, total, idl) /\ m_total' = total /\ m_idle' = idl
        /\ m_last_msecs' = m_last_msecs /\ m_elapsed' = m_elapsed
    BY <1>1 DEF updateStats, updateCpuStats
  <2>2. idl \in 0 .. MaxInt /\ total \in -MaxInt - 1 .. MaxInt
    BY IntOf, Summed DEF ReadingTypes
  <2> HIDE DEF idl, total
  <2>3. m_load'[1] \in Int /\ m_load'[2] \in Nat \ {0}
    BY <2>1, <2>2, CpuLoadType
  <2> QED
    BY <2>1, <2>2, <2>3 DEF ReadingTypes
<1>2. CASE kind # "cpu"
  <2> DEFINE msecs == toInt(busyTime[m_device])
             known == Measured(reset)
  <2>1. /\ m_load' = IF known /\ m_elapsed > 0
                     THEN <<msecs - m_last_msecs, m_elapsed>> ELSE Unknown
        /\ m_elapsed' = IF reset \/ known THEN 0 ELSE m_elapsed
        /\ m_last_msecs' = msecs /\ m_total' = m_total /\ m_idle' = m_idle
    BY <1>2 DEF updateStats, updateIoStats
  <2>2. msecs \in 0 .. MaxInt
    BY IntOf DEF ReadingTypes
  <2>3. m_elapsed \in Int /\ m_last_msecs \in Int
    BY DEF ReadingTypes, Off
  <2> HIDE DEF msecs, known
  <2>4. m_load'[1] \in Int /\ m_load'[2] \in Nat \ {0}
    BY <2>1, <2>2, <2>3 DEF Unknown
  <2>5. m_elapsed' \in Off .. time
    BY <2>1 DEF ReadingTypes, Off
  <2> QED
    BY <2>1, <2>2, <2>4, <2>5 DEF ReadingTypes
<1> QED
  BY <1>1, <1>2

\* Nothing is said of a step that is no reading.
LEMMA Unread == ASSUME reading' = NoReading PROVE LoadIsMeasured' /\ PromisesHold'
BY DEF LoadIsMeasured, PromisesHold, OverflowIsSafe, ThresholdsHold,
       IsReading

\* The delegate is switched on or off: handleStateChange.
LEMMA StateChange ==
    ASSUME ReadingsAssumption, ReadingInv, NEW state \in BOOLEAN,
           HandleStateChange(state), Call,
           m_enabled' \in BOOLEAN, m_requested' \in BOOLEAN,
           state <=> m_enabled' /\ m_requested',
           UNCHANGED <<kind, m_loadThreshold, m_device, kernel>>
    PROVE  ReadingInv'
<1> USE DEF ReadingInv
<1>1. /\ kind' = kind /\ m_device' = m_device /\ busyTime' = busyTime /\ user' = user
      /\ other' = other /\ idle' = idle /\ time' = time
      /\ m_loadThreshold' = m_loadThreshold
      /\ calls' \in 0 .. MaxCalls /\ reading' = NoReading
  BY DEF kernel, Call, ReadingTypes, ReadingsAssumption
<1>2. kind \in {"cpu", "io"}
  BY DEF ReadingTypes, ReadingsAssumption
<1>3. CASE state
  <2>1. /\ updateStats(TRUE) /\ m_timer' = 0 /\ then' = Counters
        /\ basis' = Basis(TRUE)
    BY <1>3 DEF HandleStateChange, handleCpuStateChange, handleIoStateChange,
                FirstReading
  <2>2. ReadingTypes'
    <3>1. /\ m_load'[1] \in Int /\ m_load'[2] \in Nat \ {0}
          /\ m_idle' \in 0 .. MaxInt /\ m_last_msecs' \in 0 .. MaxInt
          /\ m_total' \in -MaxInt - 1 .. MaxInt
          /\ m_elapsed' \in Off .. time
      BY <2>1, StatsTypes
    <3>4. basis' \in {"exact", "nothing", "long"}
      BY <2>1, BasisType
    <3>5. kind = "io" => m_elapsed' # Off
      BY <2>1 DEF updateStats, updateIoStats, Off
    <3>2. m_timer' \in Off .. Interval + MaxLate /\ m_timer' # Off
      BY <2>1 DEF ReadingsAssumption, Off
    <3>3. m_timer' # Off <=> m_enabled' /\ m_requested'
      BY <1>3, <3>2
    <3> QED
      BY <1>1, <2>1, <3>1, <3>2, <3>3, <3>4, <3>5 DEF ReadingTypes
  <2>3. NotBehind'
    BY <1>1, <2>1 DEF NotBehind, Counters, ReadingTypes, Off
  <2>4. CpuKept'
    BY <1>1, <2>1 DEF CpuKept, Counters, updateStats, updateCpuStats
  <2>5. IoKept'
    <3> SUFFICES ASSUME kind = "io", busyTime[m_device] <= MaxInt PROVE IoKept'
      BY <1>1 DEF IoKept
    <3>1. busyTime[m_device] \in Nat
      BY DEF ReadingTypes
    <3>2. m_elapsed' = 0 /\ m_last_msecs' = busyTime[m_device]
      BY <2>1, <3>1, IntOf DEF updateStats, updateIoStats
    <3>3. then'.time = time /\ then'.busy = busyTime[m_device]
      BY <2>1 DEF Counters
    <3>4. time - time = 0 /\ busyTime[m_device] - busyTime[m_device] = 0
      BY <3>1 DEF ReadingTypes
    <3>5. /\ basis' \in {"exact", "nothing"}
          /\ basis' = "exact" <=> busyTime[m_device] > 0
      BY <2>1, <3>1, <3>2, IntOf DEF Basis, Off
    <3>6. busyTime[m_device] - m_last_msecs' \in 0 .. m_elapsed'
      BY <3>2, <3>4
    <3> QED
      BY <1>1, <3>1, <3>2, <3>3, <3>4, <3>5, <3>6 DEF IoKept
  <2> QED
    BY <1>1, <2>2, <2>3, <2>4, <2>5, Unread
<1>4. CASE ~state
  <2>1. /\ m_timer' = Off /\ then' = then /\ basis' = basis
        /\ m_load' = m_load /\ m_total' = m_total /\ m_idle' = m_idle
        /\ m_last_msecs' = m_last_msecs
        /\ m_elapsed' = IF kind = "cpu" THEN m_elapsed ELSE Off
    BY <1>4 DEF HandleStateChange, handleCpuStateChange, handleIoStateChange,
                stats
  <2>2. ReadingTypes'
    BY <1>1, <1>4, <2>1 DEF ReadingTypes, ReadingsAssumption, Off
  <2>3. NotBehind' /\ CpuKept'
    BY <1>1, <2>1 DEF NotBehind, CpuKept
  <2>4. IoKept'
    BY <1>1, <2>1 DEF IoKept
  <2> QED
    BY <1>1, <2>2, <2>3, <2>4, Unread
<1> QED
  BY <1>3, <1>4

\* Another interval restarts the timer and reads nothing.
LEMMA IntervalStep ==
    ASSUME ReadingsAssumption, ReadingInv, SetIdleInterval
    PROVE  ReadingInv'
<1> USE DEF ReadingInv
<1>1. /\ UNCHANGED <<kind, m_enabled, m_requested, m_loadThreshold, m_load, m_total, m_idle,
                     m_last_msecs, m_elapsed, m_device, user, other, idle, busyTime, time, then,
                     basis>>
      /\ m_timer' = Restarted /\ calls' \in 0 .. MaxCalls /\ reading' = NoReading
  BY DEF SetIdleInterval, stats, kernel, Call, ReadingTypes,
         ReadingsAssumption
<1>2. m_timer' # Off <=> m_timer # Off
  BY <1>1 DEF Restarted, ReadingTypes, Off
<1>3. m_timer' \in {0, Off}
  BY <1>1 DEF Restarted
<1>4. ReadingTypes'
  <2>1. m_timer' \in Off .. Interval + MaxLate
    BY <1>3 DEF ReadingsAssumption, Off
  <2> QED
    BY <1>1, <1>2, <2>1 DEF ReadingTypes
<1>5. NotBehind'
  <2>1. m_timer' # Off => m_timer' <= time - then.time
    BY <1>3 DEF NotBehind, ReadingTypes
  <2> QED
    BY <1>1, <2>1 DEF NotBehind
<1>6. CpuKept' /\ IoKept'
  BY <1>1, <1>2 DEF CpuKept, IoKept
<1> QED
  BY <1>1, <1>4, <1>5, <1>6, Unread

\* Another threshold.
LEMMA ThresholdStep ==
    ASSUME ReadingsAssumption, ReadingInv, NEW t \in Thresholds, setLoadThreshold(t)
    PROVE  ReadingInv'
<1> USE DEF ReadingInv
<1>1. /\ UNCHANGED <<kind, m_enabled, m_requested, m_timer, m_load, m_total, m_idle,
                     m_last_msecs, m_elapsed, m_device, user, other, idle, busyTime, time, then,
                     basis>>
      /\ m_loadThreshold' = t /\ calls' \in 0 .. MaxCalls /\ reading' = NoReading
  BY DEF setLoadThreshold, stats, kernel, Call, ReadingTypes,
         ReadingsAssumption
<1>2. ReadingTypes'
  BY <1>1 DEF ReadingTypes
<1>3. NotBehind' /\ CpuKept' /\ IoKept'
  BY <1>1 DEF NotBehind, CpuKept, IoKept
<1> QED
  BY <1>1, <1>2, <1>3, Unread

\* Another device: its counter is not known until it is read.
LEMMA DeviceStep ==
    ASSUME ReadingsAssumption, ReadingInv, NEW d \in Devices, setDevice(d)
    PROVE  ReadingInv'
<1> USE DEF ReadingInv
<1>1. /\ UNCHANGED <<kind, m_enabled, m_requested, m_loadThreshold, m_timer, m_load, m_total,
                     m_idle, m_elapsed, user, other, idle, busyTime, time>>
      /\ kind = "io" /\ m_device' = d /\ m_last_msecs' = 0
      /\ then' = [then EXCEPT !.busy = busyTime[d]] /\ basis' = "nothing"
      /\ calls' \in 0 .. MaxCalls /\ reading' = NoReading
  BY DEF setDevice, Forgotten, delegate, kernel, Call, ReadingTypes,
         ReadingsAssumption
<1>2. ReadingTypes'
  <2>1. 0 \in 0 .. MaxInt
    BY DEF ReadingsAssumption
  <2> QED
    BY <1>1, <2>1 DEF ReadingTypes
<1>3. NotBehind'
  <2>1. busyTime[d] \in Nat /\ busyTime[d] \in 0 .. busyTime[d]
    BY DEF ReadingTypes
  <2>2. then' = [user |-> then.user, other |-> then.other, idle |-> then.idle,
                 busy |-> busyTime[d], time |-> then.time]
    BY <1>1 DEF NotBehind
  <2> QED
    BY <1>1, <2>1, <2>2 DEF NotBehind
<1>4. CpuKept'
  BY <1>1 DEF CpuKept
<1>5. IoKept'
  BY <1>1 DEF IoKept
<1> QED
  BY <1>1, <1>2, <1>3, <1>4, <1>5, Unread

\* A unit of time.
LEMMA TickStep == ASSUME ReadingsAssumption, ReadingInv, Tick PROVE ReadingInv'
<1> USE DEF ReadingInv
<1>1. /\ UNCHANGED <<kind, m_enabled, m_requested, m_loadThreshold, m_load, m_total, m_idle,
                     m_last_msecs, m_device, then, basis, calls>>
      /\ time' = time + 1 /\ time < MaxTime /\ m_timer < Interval + MaxLate
      /\ m_timer' = Advanced(m_timer) /\ m_elapsed' = Advanced(m_elapsed)
      /\ reading' = NoReading
  BY DEF Tick
<1>2. /\ other' \in Nat /\ other <= other' /\ idle' \in Nat /\ idle <= idle'
      /\ user' \in Nat
      /\ busyTime' \in [Devices -> Nat]
      /\ busyTime'[m_device] \in {busyTime[m_device], busyTime[m_device] + 1}
  <2>1. CASE kind = "cpu"
    BY <2>1 DEF Tick, ReadingTypes
  <2>2. CASE kind # "cpu"
    BY <2>2 DEF Tick, ReadingTypes
  <2> QED
    BY <2>1, <2>2
<1>3. /\ m_timer' # Off <=> m_timer # Off
      /\ m_timer # Off => m_timer' = m_timer + 1
      /\ m_elapsed' # Off <=> m_elapsed # Off
      /\ m_elapsed # Off => m_elapsed' = m_elapsed + 1
      /\ m_timer \in Int /\ m_elapsed \in Int /\ time \in Nat
  BY <1>1 DEF Advanced, ReadingTypes, Off
<1>4. ReadingTypes'
  <2>1. m_timer' \in Off .. Interval + MaxLate
    BY <1>1, <1>3 DEF ReadingTypes, Off, ReadingsAssumption
  <2>2. m_elapsed' \in Off .. time' /\ time' \in 0 .. MaxTime
    BY <1>1, <1>3 DEF ReadingTypes, Off, ReadingsAssumption
  <2> QED
    BY <1>1, <1>2, <1>3, <2>1, <2>2 DEF ReadingTypes
<1>5. NotBehind'
  <2>1. then.other \in 0 .. other' /\ then.idle \in 0 .. idle'
    BY <1>2 DEF NotBehind, ReadingTypes
  <2>2. then.busy \in 0 .. busyTime'[m_device] /\ then.time \in 0 .. time'
    BY <1>1, <1>2 DEF NotBehind, ReadingTypes
  <2>3. m_timer' # Off => m_timer' <= time' - then.time
    BY <1>1, <1>3 DEF NotBehind
  <2> QED
    BY <1>1, <2>1, <2>2, <2>3 DEF NotBehind
<1>6. CpuKept'
  BY <1>1, <1>3 DEF CpuKept
<1>7. IoKept'
  <2> SUFFICES ASSUME kind = "io", busyTime'[m_device] <= MaxInt PROVE IoKept'
    BY <1>1 DEF IoKept
  <2>1. busyTime[m_device] \in Nat /\ MaxInt \in Nat
    BY DEF ReadingTypes, ReadingsAssumption
  <2>2. busyTime[m_device] <= MaxInt
    BY <1>2, <2>1
  <2>3. ASSUME m_timer # Off
        PROVE  /\ basis = "exact" => m_elapsed' = time' - then.time
               /\ basis = "long" => m_elapsed' >= time' - then.time
               /\ basis # "nothing" => m_last_msecs = then.busy /\ then.busy > 0
               /\ basis = "nothing" => m_last_msecs = 0
    <3>1. /\ basis = "exact" => m_elapsed = time - then.time
          /\ basis = "long" => m_elapsed >= time - then.time
          /\ basis # "nothing" => m_last_msecs = then.busy /\ then.busy > 0
          /\ basis = "nothing" => m_last_msecs = 0
      BY <2>2, <2>3 DEF IoKept
    <3>2. then.time \in 0 .. time
      BY DEF NotBehind
    <3>3. m_elapsed # Off
      BY <2>3 DEF ReadingTypes
    <3> QED
      BY <1>1, <1>3, <3>1, <3>2, <3>3
  <2>4. ASSUME m_elapsed # Off, m_last_msecs > 0
        PROVE  busyTime'[m_device] - m_last_msecs \in 0 .. m_elapsed'
    <3>1. busyTime[m_device] - m_last_msecs \in 0 .. m_elapsed
      BY <2>2, <2>4 DEF IoKept
    <3>2. m_last_msecs \in Int
      BY DEF ReadingTypes
    <3> QED
      BY <1>2, <1>3, <2>1, <2>4, <3>1, <3>2
  <2> QED
    BY <1>1, <1>3, <2>3, <2>4 DEF IoKept
<1> QED
  BY <1>1, <1>4, <1>5, <1>6, <1>7, Unread

(***************************************************************************)
(* A timeout.                                                              *)
(***************************************************************************)

\* What a CPU delegate measures: the change of the counters if they fit their ints, and
\* otherwise, unless the idle time outgrew its int in between, a load that is not below 1,
\* or the change of the counters after all.
LEMMA CpuMeasured ==
    ASSUME ReadingsAssumption, ReadingInv, timeout, kind = "cpu"
    PROVE  LET x == other - then.other
               y == idle - then.idle
           IN  /\ other + idle <= MaxInt =>
                     m_load' = IF x + y = 0 THEN Unknown ELSE <<x, x + y>>
               /\ other <= MaxInt /\ ~(then.idle <= MaxInt /\ idle > MaxInt) =>
                     \/ m_load' = Unknown
                     \/ m_load' = <<x, x + y>> /\ x + y # 0
                     \/ /\ m_load'[1] \in Int /\ m_load'[2] \in Nat \ {0}
                        /\ m_load'[1] >= m_load'[2]
<1> DEFINE x == other - then.other
           y == idle - then.idle
           idl == toInt(idle)
           total == Wrapped(toInt(other) + idl)
<1>1. /\ MaxInt \in Nat /\ other \in Nat /\ idle \in Nat
      /\ then.other \in 0 .. other /\ then.idle \in 0 .. idle
  BY DEF ReadingInv, ReadingTypes, NotBehind, ReadingsAssumption
<1>2. /\ m_idle = toInt(then.idle)
      /\ m_total = Wrapped(toInt(then.other) + toInt(then.idle))
  BY DEF ReadingInv, CpuKept, timeout
<1>3. /\ total <= m_total => m_load' = Unknown
      /\ total > m_total /\ total - m_total <= MaxInt =>
            m_load' = <<(total - m_total) - (idl - m_idle), total - m_total>>
  <2>1. m_load' = CpuLoad(FALSE, total, idl)
    BY DEF timeout, updateStats, updateCpuStats
  <2>2. total \in Int /\ m_total \in Int
    BY <1>1, Summed DEF ReadingInv, ReadingTypes
  <2> HIDE DEF idl, total
  <2>3. ASSUME total > m_total, total - m_total <= MaxInt
        PROVE  m_load' = <<(total - m_total) - (idl - m_idle), total - m_total>>
    <3>1. PICK d : d = total - m_total
      OBVIOUS
    <3>2. d \in 1 .. MaxInt
      BY <1>1, <2>2, <2>3, <3>1
    <3>3. Wrapped(d) = d
      BY <1>1, <3>2, WrappedSum
    <3>4. Wrapped(total - m_total) = total - m_total
      BY <3>1, <3>3
    <3> QED
      BY <2>1, <2>2, <2>3, <3>4 DEF CpuLoad
  <2> QED
    BY <2>1, <2>2, <2>3 DEF CpuLoad
<1>4. other <= MaxInt => toInt(other) = other /\ toInt(then.other) = then.other
  BY <1>1 DEF toInt
<1>5. /\ toInt(other) + idl <= MaxInt => total = toInt(other) + idl
      /\ ~(toInt(other) + idl <= MaxInt) =>
            total = (toInt(other) + idl) - 2 * MaxInt - 2
  BY <1>1, Summed, Zenon
<1>6. /\ toInt(then.other) + m_idle <= MaxInt => m_total = toInt(then.other) + m_idle
      /\ ~(toInt(then.other) + m_idle <= MaxInt) =>
            m_total = (toInt(then.other) + m_idle) - 2 * MaxInt - 2
  <2>1. then.other \in Nat /\ then.idle \in Nat
    BY <1>1
  <2> QED
    BY <1>2, <2>1, Summed, Zenon
<1>7. /\ idl = IF idle > MaxInt THEN 0 ELSE idle
      /\ m_idle = IF then.idle > MaxInt THEN 0 ELSE then.idle
  BY <1>2 DEF toInt
<1> HIDE DEF idl, total
<1>8. ASSUME other + idle <= MaxInt
      PROVE  m_load' = IF x + y = 0 THEN Unknown ELSE <<x, x + y>>
  <2>1. /\ total = other + idle /\ m_total = then.other + then.idle
        /\ idl = idle /\ m_idle = then.idle
    BY <1>1, <1>4, <1>5, <1>6, <1>7, <1>8
  <2>2. /\ total - m_total = x + y /\ (total - m_total) - (idl - m_idle) = x
        /\ total > m_total <=> x + y # 0
        /\ total - m_total <= MaxInt /\ total \in Int /\ m_total \in Int
    BY <1>1, <1>8, <2>1
  <2> QED
    BY <1>3, <2>2
<1>9. ASSUME other <= MaxInt, ~(then.idle <= MaxInt /\ idle > MaxInt), m_load' # Unknown
      PROVE  \/ m_load' = <<x, x + y>> /\ x + y # 0
             \/ m_load'[1] \in Int /\ m_load'[2] \in Nat \ {0} /\ m_load'[1] >= m_load'[2]
  <2>1. total \in Int /\ m_total \in Int /\ idl \in Nat /\ m_idle \in Nat
    BY <1>1, <1>4, <1>5, <1>6, <1>7, <1>9
  <2>2. toInt(other) = other /\ toInt(then.other) = then.other /\ total > m_total
    BY <1>3, <1>4, <1>9, <2>1
  <2>3. CASE idle <= MaxInt
    <3>1. idl = idle /\ m_idle = then.idle
      BY <1>1, <1>7, <2>3
    <3>2. total - m_total = x + y /\ total - m_total <= MaxInt
      BY <1>1, <1>5, <1>6, <1>9, <2>1, <2>2, <2>3, <3>1
    <3>3. (total - m_total) - (idl - m_idle) = x /\ x + y # 0
      BY <1>1, <2>1, <2>2, <3>1, <3>2
    <3> QED
      BY <1>3, <2>2, <3>2, <3>3
  <2>4. CASE idle > MaxInt
    <3>1. idl = 0 /\ m_idle = 0
      BY <1>1, <1>7, <1>9, <2>4
    <3>2. total = other /\ m_total = then.other
      BY <1>1, <1>5, <1>6, <1>9, <2>2, <3>1
    <3>3. total - m_total \in Nat \ {0} /\ total - m_total <= MaxInt
      BY <1>1, <1>9, <2>2, <3>2
    <3>4. m_load' = <<(total - m_total) - (idl - m_idle), total - m_total>>
      BY <1>3, <2>2, <3>3
    <3>5. (total - m_total) - (idl - m_idle) = total - m_total
      BY <2>1, <3>1
    <3> QED
      BY <3>3, <3>4, <3>5
  <2> QED
    BY <1>1, <2>3, <2>4
<1> QED
  BY <1>8, <1>9

\* What an I/O delegate measures while its counter fits an int.
LEMMA IoMeasured ==
    ASSUME ReadingsAssumption, ReadingInv, timeout, kind = "io",
           busyTime[m_device] <= MaxInt
    PROVE  /\ basis = "nothing" => m_load' = Unknown
           /\ basis # "nothing" => m_load' = <<busyTime[m_device] - then.busy, m_elapsed>>
           /\ basis = "exact" => m_elapsed = time - then.time
           /\ basis = "long" => m_elapsed >= time - then.time
           /\ m_elapsed \in Int /\ time - then.time \in Nat \ {0}
           /\ \/ m_load' = Unknown
              \/ /\ m_load'[1] \in Nat /\ m_load'[2] \in Nat \ {0}
                 /\ m_load'[1] <= m_load'[2]
<1> DEFINE msecs == toInt(busyTime[m_device])
<1>1. /\ busyTime[m_device] \in Nat /\ time \in Nat /\ m_elapsed \in Int /\ m_last_msecs \in Nat
      /\ then.time \in 0 .. time /\ m_timer # Off /\ m_timer \in Int
      /\ Interval \in Nat \ {0}
      /\ m_timer >= Interval /\ m_timer <= time - then.time
  BY DEF ReadingInv, ReadingTypes, NotBehind, ReadingsAssumption, timeout, Off
<1>2. msecs = busyTime[m_device]
  BY <1>1, IntOf
<1>3. m_load' = IF Measured(FALSE) /\ m_elapsed > 0
                THEN <<msecs - m_last_msecs, m_elapsed>> ELSE Unknown
  BY DEF timeout, updateStats, updateIoStats
<1>6. /\ basis = "exact" => m_elapsed = time - then.time
      /\ basis = "long" => m_elapsed >= time - then.time
      /\ basis # "nothing" => m_last_msecs = then.busy /\ then.busy > 0
      /\ basis = "nothing" => m_last_msecs = 0
      /\ basis \in {"exact", "nothing", "long"}
  BY <1>1 DEF ReadingInv, IoKept, ReadingTypes
<1>7. basis = "nothing" => m_load' = Unknown
  BY <1>3, <1>6 DEF Measured
<1>4. ASSUME basis # "nothing"
      PROVE  m_load' = <<busyTime[m_device] - then.busy, m_elapsed>>
  <2>1. m_elapsed >= time - then.time
    BY <1>1, <1>4, <1>6
  <2>2. Measured(FALSE) /\ m_elapsed > 0
    BY <1>1, <1>4, <1>6, <2>1 DEF Measured, Off
  <2> QED
    BY <1>2, <1>3, <1>4, <1>6, <2>2
<1>5. ASSUME m_load' # Unknown
      PROVE  m_load'[1] \in Nat /\ m_load'[2] \in Nat \ {0} /\ m_load'[1] <= m_load'[2]
  <2>1. /\ m_load' = <<msecs - m_last_msecs, m_elapsed>>
        /\ m_last_msecs > 0 /\ m_elapsed # Off /\ m_elapsed > 0
    BY <1>3, <1>5 DEF Measured
  <2>2. busyTime[m_device] - m_last_msecs \in 0 .. m_elapsed
    BY <2>1 DEF ReadingInv, IoKept
  <2> QED
    BY <1>1, <1>2, <2>1, <2>2
<1>8. time - then.time \in Nat \ {0}
  BY <1>1
<1> QED
  BY <1>1, <1>4, <1>5, <1>6, <1>7, <1>8

\* The same change over a longer time is not a higher load.
LEMMA Diluted ==
    ASSUME NEW n \in Nat, NEW short \in Nat \ {0}, NEW long \in Int, long >= short,
           NEW t \in Int, Low(<<n, short>>, t)
    PROVE  Low(<<n, long>>, t)
<1>1. 5 * n <= t * short
  BY DEF Low
<1>2. t >= 0
  <2> SUFFICES ASSUME t < 0 PROVE FALSE
    OBVIOUS
  <2>1. t * short < 0
    OBVIOUS
  <2> QED
    BY <1>1, <2>1
<1>3. t * short <= t * long
  BY <1>2
<1>4. t * short \in Int /\ t * long \in Int
  OBVIOUS
<1> QED
  BY <1>1, <1>3, <1>4 DEF Low

\* What the reading says.
LEMMA TimeoutReading ==
    ASSUME ReadingTypes, timeout
    PROVE  /\ reading'.announced = Low(m_load', m_loadThreshold)
           /\ reading'.threshold = m_loadThreshold /\ reading'.basis = basis
           /\ reading'.from = then /\ reading'.to = Counters
           /\ kind' = kind
BY DEF timeout

\* A load that is at least 0 and at most 1 is low for a threshold of 1, and not for one
\* below 0.
LEMMA Thresholded ==
    ASSUME NEW load, load[1] \in Nat, load[2] \in Nat \ {0}, load[1] <= load[2],
           NEW t \in Int
    PROVE  (t >= 5 => Low(load, t)) /\ (t < 0 => ~Low(load, t))
<1> DEFINE a == load[1]
           b == load[2]
<1>1. a \in Nat /\ b \in Nat \ {0} /\ a <= b
  OBVIOUS
<1> HIDE DEF a, b
<1>2. ASSUME t >= 5 PROVE 5 * a <= t * b
  <2>1. 5 * a <= 5 * b
    BY <1>1
  <2>2. 5 * b <= t * b
    BY <1>1, <1>2
  <2>3. t * b \in Int
    BY <1>1
  <2> QED
    BY <1>1, <2>1, <2>2, <2>3
<1>3. ASSUME t < 0 PROVE ~(5 * a <= t * b)
  <2>1. t * b < 0
    BY <1>1, <1>3
  <2>2. t * b \in Int
    BY <1>1
  <2> QED
    BY <1>1, <2>1, <2>2
<1> QED
  BY <1>2, <1>3 DEF Low, a, b

\* A load of 1 or more is not low for a threshold below 1.
LEMMA TooHigh ==
    ASSUME NEW load, load[1] \in Int, load[2] \in Nat \ {0}, load[1] >= load[2],
           NEW t \in 0 .. 4
    PROVE  ~Low(load, t)
<1> DEFINE a == load[1]
           b == load[2]
<1>1. a \in Int /\ b \in Nat \ {0} /\ a >= b
  OBVIOUS
<1> HIDE DEF a, b
<1>2. t * b <= 4 * b
  BY <1>1
<1>3. ~(5 * a <= t * b)
  BY <1>1, <1>2
<1> QED
  BY <1>3 DEF Low, a, b

\* A timeout: what is kept is the new reading, and what is announced follows from the old one.
LEMMA TimeoutStep == ASSUME ReadingsAssumption, ReadingInv, timeout PROVE ReadingInv'
<1> USE DEF ReadingInv
<1>1. /\ UNCHANGED <<kind, m_enabled, m_requested, m_loadThreshold, m_device, user, other, idle,
                     busyTime, time, calls>>
      /\ basis' = Basis(FALSE)
      /\ m_timer # Off /\ m_timer' = 0 /\ then' = Counters /\ updateStats(FALSE)
  BY DEF timeout, kernel
<1>2. kind \in {"cpu", "io"} /\ m_loadThreshold \in Int
  BY DEF ReadingTypes, ReadingsAssumption
<1>3. ReadingTypes'
  <2>1. /\ m_load'[1] \in Int /\ m_load'[2] \in Nat \ {0}
        /\ m_idle' \in 0 .. MaxInt /\ m_last_msecs' \in 0 .. MaxInt
        /\ m_total' \in -MaxInt - 1 .. MaxInt
        /\ m_elapsed' \in Off .. time
    BY <1>1, StatsTypes
  <2>2. m_timer' \in Off .. Interval + MaxLate /\ m_timer' # Off
    BY <1>1 DEF ReadingsAssumption, Off
  <2>3. m_enabled /\ m_requested
    BY <1>1 DEF ReadingTypes
  <2>4. basis' \in {"exact", "nothing", "long"}
    BY <1>1, BasisType
  <2>5. ASSUME kind = "io" PROVE m_elapsed' # Off
    <3>1. m_elapsed # Off
      BY <1>1, <2>5 DEF ReadingTypes
    <3>2. m_elapsed' \in {0, m_elapsed}
      BY <1>1, <2>5 DEF updateStats, updateIoStats
    <3> QED
      BY <3>1, <3>2 DEF Off
  <2> QED
    BY <1>1, <2>1, <2>2, <2>3, <2>4, <2>5 DEF ReadingTypes
<1>4. NotBehind'
  BY <1>1 DEF NotBehind, Counters, ReadingTypes, Off
<1>5. CpuKept'
  BY <1>1 DEF CpuKept, Counters, updateStats, updateCpuStats
<1>6. IoKept'
  <2> SUFFICES ASSUME kind = "io", busyTime[m_device] <= MaxInt PROVE IoKept'
    BY <1>1 DEF IoKept
  <2>1. /\ busyTime[m_device] \in Nat /\ time \in Nat /\ m_last_msecs \in Nat
        /\ m_elapsed \in Int /\ then.time \in 0 .. time
    BY DEF ReadingTypes, NotBehind, Off
  <2>2. /\ m_elapsed' = IF Measured(FALSE) THEN 0 ELSE m_elapsed
        /\ m_last_msecs' = busyTime[m_device]
    BY <1>1, <2>1, IntOf DEF updateStats, updateIoStats
  <2>3. then'.time = time /\ then'.busy = busyTime[m_device]
    BY <1>1 DEF Counters
  <2>4. time - time = 0 /\ busyTime[m_device] - busyTime[m_device] = 0
    BY <2>1
  <2>5. /\ basis' = "exact" => m_elapsed' = 0
        /\ basis' = "long" => m_elapsed' >= 0
        /\ basis' # "nothing" => busyTime[m_device] > 0
        /\ basis' = "nothing" => busyTime[m_device] = 0
    <3>1. /\ basis # "nothing" => m_last_msecs = then.busy /\ then.busy > 0
          /\ m_elapsed # Off /\ m_elapsed \in Off .. time
      BY <1>1 DEF IoKept, ReadingTypes
    <3>2. basis # "nothing" => m_elapsed' = 0
      BY <2>1, <2>2, <3>1 DEF Measured, Off
    <3>3. /\ basis' = "nothing" <=> busyTime[m_device] = 0
          /\ basis' = "exact" => basis # "nothing"
      <4>1. toInt(busyTime[m_device]) = busyTime[m_device]
        BY <2>1, IntOf
      <4>2. basis' = IF busyTime[m_device] = 0 THEN "nothing"
                     ELSE IF basis # "nothing" THEN "exact" ELSE "long"
        BY <1>1, <4>1 DEF Basis
      <4>3. CASE busyTime[m_device] = 0
        <5>1. basis' = "nothing"
          BY <4>2, <4>3
        <5> QED
          BY <4>3, <5>1
      <4>4. CASE busyTime[m_device] # 0 /\ basis # "nothing"
        <5>1. basis' = "exact"
          BY <4>2, <4>4
        <5> QED
          BY <4>4, <5>1
      <4>5. CASE busyTime[m_device] # 0 /\ basis = "nothing"
        <5>1. basis' = "long"
          BY <4>2, <4>5
        <5> QED
          BY <4>5, <5>1
      <4> QED
        BY <4>3, <4>4, <4>5
    <3>4. m_elapsed' >= 0
      <4>1. m_elapsed' \in {0, m_elapsed}
        BY <2>2
      <4> QED
        BY <2>1, <3>1, <4>1 DEF Off
    <3> QED
      BY <2>1, <3>2, <3>3, <3>4
  <2>6. m_elapsed' # Off => busyTime[m_device] - m_last_msecs' \in 0 .. m_elapsed'
    <3>1. m_elapsed' \in Off .. time
      BY <1>1, StatsTypes
    <3>2. m_elapsed' # Off => 0 \in 0 .. m_elapsed'
      BY <2>1, <3>1 DEF Off
    <3> QED
      BY <2>2, <2>4, <3>2
  <2> QED
    BY <1>1, <2>2, <2>3, <2>4, <2>5, <2>6 DEF IoKept
<1>7. /\ reading'.announced = Low(m_load', m_loadThreshold)
      /\ reading'.threshold = m_loadThreshold /\ reading'.basis = basis
      /\ reading'.from = then /\ reading'.to = Counters
  BY TimeoutReading
<1>8. /\ reading'.to.other = other /\ reading'.to.idle = idle /\ reading'.to.time = time
      /\ reading'.to.busy = busyTime[m_device]
  BY <1>7 DEF Counters
<1>9. LoadIsMeasured'
  <2>1. CASE kind = "cpu"
    <3>1. InRange' => other + idle <= MaxInt
      BY <1>1, <1>8, <2>1 DEF InRange
    <3>2. TrueLoad' = IF (other - then.other) + (idle - then.idle) = 0 THEN Unknown
                      ELSE <<other - then.other, (other - then.other) + (idle - then.idle)>>
      BY <1>1, <1>7, <1>8, <2>1 DEF TrueLoad, Since
    <3>3. other + idle <= MaxInt => m_load' = TrueLoad'
      BY <2>1, <3>2, CpuMeasured
    <3> QED
      BY <1>1, <1>7, <2>1, <3>1, <3>3 DEF LoadIsMeasured
  <2>2. CASE kind = "io"
    <3>1. InRange' => busyTime[m_device] <= MaxInt
      BY <1>1, <1>8, <2>2 DEF InRange
    <3>2. TrueLoad' = <<busyTime[m_device] - then.busy, time - then.time>>
      BY <1>1, <1>7, <1>8, <2>2 DEF TrueLoad, Since
    <3>3. CASE ~(busyTime[m_device] <= MaxInt)
      BY <3>1, <3>3 DEF LoadIsMeasured
    <3>4. CASE busyTime[m_device] <= MaxInt /\ basis = "nothing"
      <4>1. m_load' = Unknown
        BY <2>2, <3>4, IoMeasured
      <4> QED
        BY <1>1, <1>7, <2>2, <3>4, <4>1 DEF LoadIsMeasured
    <3>5. CASE busyTime[m_device] <= MaxInt /\ basis # "nothing"
      <4> DEFINE n == busyTime[m_device] - then.busy
                 short == time - then.time
      <4>1. /\ m_load' = <<n, m_elapsed>> /\ m_elapsed \in Int /\ short \in Nat \ {0}
            /\ basis = "exact" => m_elapsed = short
            /\ basis = "long" => m_elapsed >= short
        BY <2>2, <3>5, IoMeasured
      <4>2. n \in Nat /\ basis \in {"exact", "nothing", "long"}
        BY DEF NotBehind, ReadingTypes
      <4> HIDE DEF n, short
      <4>3. basis = "exact" => m_load' = TrueLoad'
        BY <3>2, <4>1 DEF n, short
      <4>4. basis = "long" /\ Low(TrueLoad', m_loadThreshold) => Low(m_load', m_loadThreshold)
        <5> SUFFICES ASSUME basis = "long", Low(<<n, short>>, m_loadThreshold)
                     PROVE  Low(<<n, m_elapsed>>, m_loadThreshold)
          BY <3>2, <4>1 DEF n, short
        <5> QED
          BY <1>2, <4>1, <4>2, Diluted
      <4>5. /\ Low(TrueLoad', m_loadThreshold) => Low(m_load', m_loadThreshold)
            /\ basis = "exact" =>
                  (Low(m_load', m_loadThreshold) => Low(TrueLoad', m_loadThreshold))
        BY <3>5, <4>2, <4>3, <4>4
      <4>6. /\ reading'.announced = Low(m_load', m_loadThreshold)
            /\ reading'.threshold = m_loadThreshold /\ reading'.basis = basis
            /\ kind' = "io"
        BY <1>1, <1>7, <2>2
      <4> HIDE DEF n, short
      <4> QED
        BY <3>5, <4>5, <4>6 DEF LoadIsMeasured
    <3> QED
      BY <3>3, <3>4, <3>5
  <2> QED
    BY <1>2, <2>1, <2>2
<1>10. OverflowIsSafe'
  <2> SUFFICES ASSUME kind = "cpu", other <= MaxInt,
                      ~(then.idle <= MaxInt /\ idle > MaxInt),
                      m_loadThreshold \in 0 .. 4, Low(m_load', m_loadThreshold)
               PROVE  Low(TrueLoad', m_loadThreshold)
    BY <1>1, <1>7, <1>8 DEF OverflowIsSafe, Outgrown
  <2> DEFINE x == other - then.other
             y == idle - then.idle
  <2>1. TrueLoad' = IF x + y = 0 THEN Unknown ELSE <<x, x + y>>
    BY <1>1, <1>7, <1>8 DEF TrueLoad, Since
  <2>2. \/ m_load' = Unknown
        \/ m_load' = <<x, x + y>> /\ x + y # 0
        \/ m_load'[1] \in Int /\ m_load'[2] \in Nat \ {0} /\ m_load'[1] >= m_load'[2]
    BY CpuMeasured
  <2>3. /\ Unknown[1] \in Int /\ Unknown[2] \in Nat \ {0}
        /\ Unknown[1] >= Unknown[2]
    BY DEF Unknown
  <2> HIDE DEF x, y
  <2>4. m_load' = <<x, x + y>> /\ x + y # 0
    BY <2>2, <2>3, TooHigh
  <2> QED
    BY <2>1, <2>4
<1>11. ThresholdsHold'
  <2> SUFFICES ASSUME InRange'
               PROVE  /\ m_loadThreshold >= 5 => Low(m_load', m_loadThreshold)
                      /\ m_loadThreshold < 0 => ~Low(m_load', m_loadThreshold)
    BY <1>1, <1>7 DEF ThresholdsHold
  <2>1. /\ Unknown[1] \in Nat /\ Unknown[2] \in Nat \ {0}
        /\ Unknown[1] <= Unknown[2]
    BY DEF Unknown
  <2>2. m_load'[1] \in Nat /\ m_load'[2] \in Nat \ {0} /\ m_load'[1] <= m_load'[2]
    <3>1. CASE kind = "cpu"
      <4> DEFINE x == other - then.other
                 y == idle - then.idle
      <4>1. x \in Nat /\ y \in Nat
        BY DEF NotBehind, ReadingTypes
      <4>2. other + idle <= MaxInt
        BY <1>1, <1>8, <3>1 DEF InRange
      <4>3. m_load' = IF x + y = 0 THEN Unknown ELSE <<x, x + y>>
        BY <3>1, <4>2, CpuMeasured
      <4> HIDE DEF x, y
      <4> QED
        BY <2>1, <4>1, <4>3
    <3>2. CASE kind = "io"
      <4>1. busyTime[m_device] <= MaxInt
        BY <1>1, <1>8, <3>2 DEF InRange
      <4> QED
        BY <2>1, <3>2, <4>1, IoMeasured
    <3> QED
      BY <1>2, <3>1, <3>2
  <2> QED
    BY <1>2, <2>2, Thresholded
<1> QED
  BY <1>3, <1>4, <1>5, <1>6, <1>9, <1>10, <1>11 DEF PromisesHold

(***************************************************************************)
(* The invariant.                                                          *)
(***************************************************************************)

\* Idle CPU is asked for or not, the delegate enabled or not.
LEMMA SwitchStep ==
    ASSUME ReadingsAssumption, ReadingInv, NEW v \in BOOLEAN,
           RequestIdleCpu(v) \/ SetEnabled(v)
    PROVE  ReadingInv'
<1> USE DEF ReadingInv
<1>1. Call /\ UNCHANGED <<kind, m_loadThreshold, m_device, kernel>>
  BY DEF RequestIdleCpu, SetEnabled
<1>2. m_enabled' \in BOOLEAN /\ m_requested' \in BOOLEAN
  BY DEF RequestIdleCpu, SetEnabled, ReadingTypes
<1>3. CASE HandleStateChange(v) /\ (v <=> m_enabled' /\ m_requested')
  BY <1>1, <1>2, <1>3, StateChange
<1>4. CASE /\ UNCHANGED <<stats, m_timer, then, basis>>
           /\ ~(m_enabled /\ m_requested) /\ ~(m_enabled' /\ m_requested')
  <2>1. /\ UNCHANGED <<kind, m_loadThreshold, m_device, user, other, idle, busyTime, time,
                       m_load,
                       m_total, m_idle, m_last_msecs, m_elapsed, m_timer, then, basis>>
        /\ calls' \in 0 .. MaxCalls /\ reading' = NoReading
    BY <1>1, <1>4 DEF stats, kernel, Call, ReadingTypes, ReadingsAssumption
  <2>2. ReadingTypes'
    BY <1>2, <1>4, <2>1 DEF ReadingTypes
  <2>3. NotBehind' /\ CpuKept' /\ IoKept'
    BY <2>1 DEF NotBehind, CpuKept, IoKept
  <2> QED
    BY <2>1, <2>2, <2>3, Unread
<1>5. CASE RequestIdleCpu(v)
  <2>1. m_requested' = v /\ m_enabled' = m_enabled /\ m_requested # v
    BY <1>5 DEF RequestIdleCpu
  <2>2. CASE m_enabled
    <3>1. HandleStateChange(v)
      BY <1>5, <2>2 DEF RequestIdleCpu
    <3> QED
      BY <1>3, <2>1, <2>2, <3>1
  <2>3. CASE ~m_enabled
    <3>1. UNCHANGED <<stats, m_timer, then, basis>>
      BY <1>5, <2>3 DEF RequestIdleCpu
    <3> QED
      BY <1>4, <2>1, <2>3, <3>1
  <2> QED
    BY <2>2, <2>3
<1>6. CASE SetEnabled(v)
  <2>1. m_enabled' = v /\ m_requested' = m_requested /\ m_enabled # v
    BY <1>6 DEF SetEnabled
  <2>2. CASE m_requested
    <3>1. HandleStateChange(v)
      BY <1>6, <2>2 DEF SetEnabled
    <3> QED
      BY <1>3, <2>1, <2>2, <3>1
  <2>3. CASE ~m_requested
    <3>1. UNCHANGED <<stats, m_timer, then, basis>>
      BY <1>6, <2>3 DEF SetEnabled
    <3> QED
      BY <1>4, <2>1, <2>3, <3>1
  <2> QED
    BY <2>2, <2>3
<1> QED
  BY <1>5, <1>6

\* A new delegate has read nothing.
LEMMA ReadingInit == ASSUME ReadingsAssumption, ReadingsInit PROVE ReadingInv
<1>1. /\ kind \in Kinds /\ m_enabled = TRUE /\ m_requested = FALSE /\ m_timer = Off
      /\ m_loadThreshold \in Thresholds /\ m_load = <<1, 1>> /\ m_total = 0 /\ m_idle = 0
      /\ m_device \in Devices /\ m_last_msecs = 0 /\ m_elapsed = Off
      /\ user = 0 /\ time = 0 /\ calls = 0 /\ basis = "nothing" /\ reading = NoReading
      /\ then = [user |-> 0, other |-> other, idle |-> idle, busy |-> busyTime[m_device],
                   time |-> 0]
  BY DEF ReadingsInit, NewCpuDelegate, NewIoDelegate, Unknown, Counters
<1>2. other \in Nat /\ idle \in Nat /\ busyTime \in [Devices -> Nat]
  <2>1. Counts \subseteq Nat
    BY DEF ReadingsAssumption
  <2>2. CASE kind = "cpu"
    <3>1. other \in Counts /\ idle \in Counts /\ busyTime = [d \in Devices |-> 0]
      BY <2>2 DEF ReadingsInit
    <3> QED
      BY <2>1, <3>1
  <2>3. CASE kind # "cpu"
    <3>1. other = 0 /\ idle = 0 /\ busyTime \in [Devices -> Counts]
      BY <2>3 DEF ReadingsInit
    <3> QED
      BY <2>1, <3>1
  <2> QED
    BY <2>2, <2>3
<1>3. ReadingTypes
  <2>1. m_timer \in Off .. Interval + MaxLate /\ m_elapsed \in Off .. time
    BY <1>1 DEF ReadingsAssumption, Off
  <2>2. m_load[1] \in Int /\ m_load[2] \in Nat \ {0}
    BY <1>1
  <2>3. /\ 0 \in 0 .. MaxInt /\ 0 \in -MaxInt - 1 .. MaxInt
        /\ 0 \in 0 .. MaxTime /\ 0 \in 0 .. MaxCalls
    BY DEF ReadingsAssumption
  <2> QED
    BY <1>1, <1>2, <2>1, <2>2, <2>3 DEF ReadingTypes
<1>4. NotBehind
  <2>1. busyTime[m_device] \in Nat
    BY <1>1, <1>2
  <2> QED
    BY <1>1, <1>2, <2>1 DEF NotBehind
<1>5. CpuKept /\ IoKept
  BY <1>1 DEF CpuKept, IoKept
<1>6. LoadIsMeasured /\ PromisesHold
  BY <1>1 DEF LoadIsMeasured, PromisesHold, OverflowIsSafe, ThresholdsHold,
              IsReading
<1> QED
  BY <1>3, <1>4, <1>5, <1>6 DEF ReadingInv

\* Each step keeps the invariant.
LEMMA ReadingNext ==
    ASSUME ReadingsAssumption, ReadingInv, [ReadingsNext]_readingsVars
    PROVE  ReadingInv'
<1>1. CASE UNCHANGED readingsVars
  <2>1. UNCHANGED <<kind, m_enabled, m_requested, m_timer, m_loadThreshold, m_load, m_total,
                    m_idle, m_last_msecs, m_elapsed, m_device, user, other, idle, busyTime, time,
                    then, basis, reading, calls>>
    BY <1>1 DEF readingsVars, delegate, stats, kernel, observed
  <2>2. ReadingTypes' /\ NotBehind' /\ CpuKept' /\ IoKept'
    BY <2>1 DEF ReadingInv, ReadingTypes, NotBehind, CpuKept, IoKept
  <2>3. LoadIsMeasured'
    BY <2>1 DEF ReadingInv, LoadIsMeasured, IsReading, InRange, TrueLoad,
                Since
  <2>4. PromisesHold'
    BY <2>1 DEF ReadingInv, PromisesHold, OverflowIsSafe, ThresholdsHold,
                IsReading, InRange, Outgrown,
                TrueLoad, Since
  <2> QED
    BY <2>2, <2>3, <2>4 DEF ReadingInv
<1>2. CASE ReadingsNext
  BY <1>2, SwitchStep, IntervalStep, ThresholdStep, DeviceStep, TimeoutStep, TickStep
     DEF ReadingsNext
<1> QED
  BY <1>1, <1>2

\* The invariant of the readings holds in every state.
THEOREM ReadingInvariance == ASSUME ReadingsAssumption PROVE ReadingsSpec => []ReadingInv
<1>1. ReadingsInit => ReadingInv
  BY ReadingInit
<1>2. ReadingInv /\ [ReadingsNext]_readingsVars => ReadingInv'
  BY ReadingNext
<1> QED
  BY <1>1, <1>2, PTL DEF ReadingsSpec

\* In every state, the reading just taken announces idle CPU exactly when the load of its
\* own interval was low (qcpuidledelegate.cpp, qioidledelegate.cpp), whatever the devices,
\* the interval, the width of an int and the bounds are.  The first two readings of a new
\* device are stated for what they are: one takes the load for 1, the other may take it for
\* too low, but not for too high.
THEOREM ReadingsAlwaysHold ==
    ASSUME ReadingsAssumption
    PROVE  ReadingsSpec => []ReadingsHold
<1>1. ReadingInv => ReadingsHold
  <2> SUFFICES ASSUME ReadingTypes, LoadIsMeasured PROVE ReadingsHold
    BY DEF ReadingInv
  <2>1. m_elapsed \in Off .. MaxTime
    BY DEF ReadingTypes, ReadingsAssumption, Off
  <2> QED
    BY <2>1 DEF ReadingTypes, ReadingsHold, ReadingsTypeOK
<1> QED
  BY <1>1, ReadingInvariance, PTL

\* An idle time beyond an int never invents idle CPU, except in the one interval in which
\* it gets there, with sums and differences that wrap as the code's do; and thresholds
\* beyond 0 and 1 mean never and always.
THEOREM PromisesAlwaysHold ==
    ASSUME ReadingsAssumption
    PROVE  ReadingsSpec => []PromisesHold
<1>1. ReadingInv => PromisesHold
  BY DEF ReadingInv
<1> QED
  BY <1>1, ReadingInvariance, PTL
=============================================================================
