---------------------------- MODULE IdleManager ----------------------------
(***************************************************************************)
(* QProcessBackendManager and what it keeps consistent: the idle delegate  *)
(* that is to run exactly while a factory wants idle CPU time, the memory  *)
(* restriction every factory is to know, and the list of the factories'    *)
(* internal processes.  It is the process manager's own, or that of a      *)
(* QPipeLauncher, which asks its owner for idle time while it has no       *)
(* delegate.                                                               *)
(*                                                                         *)
(* A factory is seen from outside.  A local one stands for                 *)
(* QPrelaunchProcessBackendFactory (module Prelaunch), a remote one for a  *)
(* QRemoteProcessBackendFactory, whose requests and internal processes are *)
(* whatever the other side last sent.  A delegate is any of                *)
(* QTimeoutIdleDelegate, QCpuIdleDelegate and QIoIdleDelegate.             *)
(***************************************************************************)
EXTENDS Naturals, SequencesExt

CONSTANTS
    Factories,
    Local,          \* those that are prelaunch factories
    Delegates,      \* idle delegates
    FirstDelegate,  \* the one the constructor makes
    None,           \* no delegate
    MaxIntervals    \* bound: changes of an idle interval, each restarts the timer

ASSUME ConstantsAssumption ==
    /\ Local \subseteq Factories
    /\ FirstDelegate \in Delegates /\ None \notin Delegates \cup Factories
    /\ MaxIntervals \in Nat

VARIABLES
    \* QProcessBackendManager
    m_factories,          \* in the order they were added
    m_memoryRestricted,
    m_idleCpuRequest,
    m_idleDelegate,       \* a delegate or None
    m_internalProcesses,  \* the factories whose internal process is listed
    \* a QPipeLauncher
    isLauncher,           \* the manager is one
    told,                 \* the request it sent to its owner last
    listed,               \* and the internal processes
    offer,                \* an idlecpuavailable of its owner is under way
    \* each factory
    wantsIdle,            \* its idleCpuRequest
    knowsRestricted,      \* its m_memoryRestricted
    busy,                 \* it has an internal process
    \* each delegate
    enabled,
    requested,
    ticking,              \* its timer is active
    used,                 \* it was assigned once (the manager deletes it later)
    \* observations
    intervals,            \* changes of an interval so far
    granted,              \* the factory the latest step gave idle time, or None
    late                  \* factories that had a process when they were added, after the
                          \* list of processes was last made

managerVars  == <<m_factories, m_memoryRestricted, m_idleCpuRequest,
                  m_idleDelegate, m_internalProcesses>>
ownerVars    == <<isLauncher, offer>>
factoryVars  == <<wantsIdle, knowsRestricted, busy>>
delegateVars == <<enabled, requested, ticking, used>>
vars == <<managerVars, ownerVars, told, listed, factoryVars, delegateVars, intervals,
          granted, late>>

\* A definition marked 'mutant' is a plausible bug that takes the place of the
\* one that follows it, to show that a property depends on it.

Added == ToSet(m_factories)

\* A QPipeLauncher's constructor removes the delegate.
initialDelegate == IF isLauncher THEN None ELSE FirstDelegate

NewFactories ==
    /\ wantsIdle = [f \in Factories |-> FALSE]
    /\ knowsRestricted = [f \in Factories |-> FALSE]
    /\ busy = [f \in Factories |-> FALSE]

NewDelegates ==
    /\ enabled = [d \in Delegates |-> TRUE]
    /\ requested = [d \in Delegates |-> FALSE]
    /\ ticking = [d \in Delegates |-> FALSE]

Init ==
    /\ m_factories = <<>> /\ m_memoryRestricted = FALSE
    /\ isLauncher \in BOOLEAN /\ told = FALSE /\ listed = {} /\ offer = FALSE
    /\ m_idleCpuRequest = FALSE
    /\ m_idleDelegate = initialDelegate
    /\ m_internalProcesses = {}
    /\ NewFactories /\ NewDelegates
    /\ used = {FirstDelegate}
    /\ intervals = 0 /\ granted = None /\ late = {}

(***************************************************************************)
(* The delegate.                                                           *)
(***************************************************************************)

handleStateChange(d, state) == ticking' = [ticking EXCEPT ![d] = state]

requestIdleCpu(d, request) ==
    IF requested[d] = request
    THEN UNCHANGED <<requested, ticking>>
    ELSE /\ requested' = [requested EXCEPT ![d] = request]
         /\ IF enabled[d] THEN handleStateChange(d, request) ELSE UNCHANGED ticking

setEnabled(d, value) ==
    /\ enabled[d] # value
    /\ enabled' = [enabled EXCEPT ![d] = value]
    /\ IF requested[d] THEN handleStateChange(d, value) ELSE UNCHANGED ticking
    /\ granted' = None
    /\ UNCHANGED <<managerVars, listed, ownerVars, told, factoryVars, requested, used,
                   intervals, late>>

restartTimer(d) == ticking' = [ticking EXCEPT ![d] = enabled[d] /\ requested[d]]

setIdleInterval(d) ==
    /\ intervals < MaxIntervals
    /\ intervals' = intervals + 1
    /\ restartTimer(d)
    /\ granted' = None
    /\ UNCHANGED <<managerVars, listed, ownerVars, told, factoryVars, enabled, requested, used,
                   late>>

(***************************************************************************)
(* The manager.  Each definition's arguments are the new values.           *)
(***************************************************************************)

\* A QPipeLauncher without a delegate sends its request to its owner.
handleIdleCpuRequestBefore(request, d) ==                               \* mutant
    told' = IF isLauncher /\ m_idleDelegate = None THEN request ELSE told
handleIdleCpuRequest(request, d) ==
    told' = IF isLauncher /\ d = None THEN request ELSE told

\* It sends its internal processes, with a delegate or without.
handleInternalProcessChange(list) ==
    listed' = IF isLauncher THEN list ELSE listed

\* m_idleCpuRequest was 'was' until now, the delegate is d.
updateIdleCpuRequest(factories, wants, was, d) ==
    LET request == \E f \in ToSet(factories) : wants[f] IN
    /\ m_idleCpuRequest' = request
    /\ IF request # was /\ d # None
       THEN requestIdleCpu(d, request)
       ELSE UNCHANGED <<requested, ticking>>
    /\ IF request # was THEN handleIdleCpuRequest(request, d) ELSE UNCHANGED told

updateInternalProcesses(factories, b) ==
    LET list == {f \in ToSet(factories) : b[f]} IN
    /\ m_internalProcesses' = list
    /\ IF list # m_internalProcesses THEN handleInternalProcessChange(list)
                                     ELSE UNCHANGED listed
    /\ late' = {}

tellRestrictedLater(f) == UNCHANGED knowsRestricted                     \* mutant
tellRestricted(f) ==
    knowsRestricted' = [knowsRestricted EXCEPT ![f] = m_memoryRestricted]

\* A restricted prelaunch factory gives up its process and wants no idle time.  The
\* processes that the factory has are not added to the list.
addFactory(f) ==
    /\ f \notin Added
    /\ m_factories' = Append(m_factories, f)
    /\ tellRestricted(f)
    /\ LET restrict == f \in Local /\ m_memoryRestricted IN
       /\ wantsIdle' = [wantsIdle EXCEPT ![f] = @ /\ ~restrict]
       /\ busy' = [busy EXCEPT ![f] = @ /\ ~restrict]
    /\ updateIdleCpuRequest(m_factories', wantsIdle', m_idleCpuRequest, m_idleDelegate)
    /\ late' = IF busy'[f] THEN late \cup {f} ELSE late
    /\ granted' = None
    /\ UNCHANGED <<m_memoryRestricted, m_idleDelegate, m_internalProcesses, listed, ownerVars,
                   enabled, used, intervals>>

\* Every factory is told.  A local one reacts at once: restricted, it gives up
\* its process and its request; allowed again, it asks for idle time if it is
\* enabled and has a record.
setMemoryRestricted(v) ==
    /\ m_memoryRestricted # v
    /\ m_memoryRestricted' = v
    /\ knowsRestricted' = [f \in Factories |-> IF f \in Added THEN v ELSE knowsRestricted[f]]
    /\ \E asking \in SUBSET (Added \cap Local) :
          /\ v => asking = {}
          /\ wantsIdle' = [f \in Factories |->
                IF f \in Added \cap Local THEN f \in asking ELSE wantsIdle[f]]
    /\ busy' = [f \in Factories |-> busy[f] /\ ~(v /\ f \in Added \cap Local)]
    /\ updateIdleCpuRequest(m_factories, wantsIdle', m_idleCpuRequest, m_idleDelegate)
    /\ IF busy' # busy THEN updateInternalProcesses(m_factories, busy')
                       ELSE UNCHANGED <<m_internalProcesses, listed, late>>
    /\ granted' = None
    /\ UNCHANGED <<m_factories, m_idleDelegate, ownerVars, enabled, used, intervals>>

forgetRequestNever == m_idleCpuRequest                                  \* mutant
forgetRequest == FALSE

\* The old delegate is deleted, timer and all.
setIdleDelegate(d) ==
    /\ d # m_idleDelegate /\ d \notin used
    /\ m_idleDelegate' = d
    /\ used' = used \cup ({d} \ {None})
    /\ updateIdleCpuRequest(m_factories, wantsIdle, forgetRequest, d)
    /\ granted' = None
    /\ UNCHANGED <<m_factories, m_memoryRestricted, m_internalProcesses, listed, ownerVars,
                   factoryVars, enabled, intervals, late>>

\* The first factory that wants idle time gets it.  A local one launches its
\* process and is content; a remote one sends a message and waits for news.
Requesters == {i \in DOMAIN m_factories : wantsIdle[m_factories[i]]}
firstRequesterLast == CHOOSE i \in Requesters : \A j \in Requesters : j <= i \* mutant
firstRequester == CHOOSE i \in Requesters : \A j \in Requesters : i <= j

idleCpuAvailable ==
    IF Requesters = {}
    THEN granted' = None /\ UNCHANGED <<m_idleCpuRequest, wantsIdle, requested, ticking, told>>
    ELSE LET f == m_factories[firstRequester] IN
         /\ granted' = f
         /\ wantsIdle' = [wantsIdle EXCEPT ![f] = f \notin Local]
         /\ updateIdleCpuRequest(m_factories, wantsIdle', m_idleCpuRequest, m_idleDelegate)

(***************************************************************************)
(* Events.                                                                 *)
(***************************************************************************)

\* The timer of the delegate fires and its load is below the threshold, which
\* is always so for QTimeoutIdleDelegate.
TimeoutIdle ==
    /\ m_idleDelegate # None
    /\ ticking[m_idleDelegate]
    /\ idleCpuAvailable
    /\ UNCHANGED <<m_factories, m_memoryRestricted, m_idleDelegate, m_internalProcesses,
                   listed, ownerVars, knowsRestricted, busy, enabled, used, intervals, late>>

\* The owner of a QPipeLauncher has idle time for it.
OwnerGrants ==
    /\ isLauncher /\ told /\ ~offer
    /\ offer' = TRUE /\ granted' = None
    /\ UNCHANGED <<managerVars, listed, isLauncher, told, factoryVars, delegateVars, intervals,
                   late>>

\* The message arrives.  With a delegate of its own the launcher ignores it.
ReceiveIdle ==
    /\ offer /\ offer' = FALSE
    /\ IF m_idleDelegate = None
       THEN idleCpuAvailable
       ELSE granted' = None /\ UNCHANGED <<m_idleCpuRequest, wantsIdle, requested, ticking, told>>
    /\ UNCHANGED <<m_factories, m_memoryRestricted, m_idleDelegate, m_internalProcesses,
                   listed, isLauncher, knowsRestricted, busy, enabled, used, intervals, late>>

\* A factory changes its request: a prelaunched process was taken or ended, a
\* record was set, a message of the other side came.
setIdleCpuRequest(f, value) ==
    /\ wantsIdle[f] # value
    /\ f \in Local /\ value => ~knowsRestricted[f]
    /\ wantsIdle' = [wantsIdle EXCEPT ![f] = value]
    /\ IF f \in Added
       THEN updateIdleCpuRequest(m_factories, wantsIdle', m_idleCpuRequest, m_idleDelegate)
       ELSE UNCHANGED <<m_idleCpuRequest, requested, ticking, told>>
    /\ granted' = None
    /\ UNCHANGED <<m_factories, m_memoryRestricted, m_idleDelegate, m_internalProcesses,
                   listed, ownerVars, knowsRestricted, busy, enabled, used, intervals, late>>

\* Its internal process is ready, or gone.
setInternalProcesses(f, value) ==
    /\ busy[f] # value
    /\ f \in Local /\ value => ~knowsRestricted[f]
    /\ busy' = [busy EXCEPT ![f] = value]
    /\ IF f \in Added THEN updateInternalProcesses(m_factories, busy')
                      ELSE UNCHANGED <<m_internalProcesses, listed, late>>
    /\ granted' = None
    /\ UNCHANGED <<m_factories, m_memoryRestricted, m_idleCpuRequest, m_idleDelegate,
                   ownerVars, told, wantsIdle, knowsRestricted, delegateVars, intervals>>

Next ==
    \/ \E f \in Factories : addFactory(f)
    \/ \E f \in Factories, value \in BOOLEAN :
          setIdleCpuRequest(f, value) \/ setInternalProcesses(f, value)
    \/ \E v \in BOOLEAN : setMemoryRestricted(v)
    \/ \E d \in Delegates \cup {None} : setIdleDelegate(d)
    \/ \E d \in Delegates : /\ d = m_idleDelegate \/ d \notin used
                            /\ \/ \E value \in BOOLEAN : setEnabled(d, value)
                               \/ setIdleInterval(d)
    \/ TimeoutIdle \/ OwnerGrants \/ ReceiveIdle

\* A repeating timer fires again and again while it is active; that the load is
\* low on some of these occasions is the idle time the system waits for.  So
\* is an owner's, for a launcher that asks it.
Spec == Init /\ [][Next]_vars /\ WF_vars(TimeoutIdle) /\ WF_vars(OwnerGrants)
                              /\ WF_vars(ReceiveIdle)

(***************************************************************************)
(* Properties.                                                             *)
(***************************************************************************)

TypeOK ==
    /\ m_factories \in Seq(Factories)
    /\ m_memoryRestricted \in BOOLEAN /\ m_idleCpuRequest \in BOOLEAN
    /\ m_idleDelegate \in Delegates \cup {None}
    /\ isLauncher \in BOOLEAN /\ told \in BOOLEAN /\ offer \in BOOLEAN
    /\ m_internalProcesses \in SUBSET Factories /\ listed \in SUBSET Factories
    /\ wantsIdle \in [Factories -> BOOLEAN]
    /\ knowsRestricted \in [Factories -> BOOLEAN]
    /\ busy \in [Factories -> BOOLEAN]
    /\ enabled \in [Delegates -> BOOLEAN]
    /\ requested \in [Delegates -> BOOLEAN]
    /\ ticking \in [Delegates -> BOOLEAN]
    /\ used \in SUBSET Delegates
    /\ intervals \in 0..MaxIntervals
    /\ granted \in Factories \cup {None}

\* The delegate is asked for idle time exactly when some factory wants it,
\* whatever factories, delegates and requests came and went.
RequestAgrees ==
    /\ m_idleCpuRequest = \E f \in Added : wantsIdle[f]
    /\ m_idleDelegate # None => requested[m_idleDelegate] = m_idleCpuRequest

\* A launcher's owner knows its internal processes.  Without a delegate it has told
\* its owner of its request, too, whichever came first, the request or the removal of
\* the delegate; one that never had a delegate has also told of the request's end.
OwnerKnows ==
    isLauncher =>
       /\ listed = m_internalProcesses
       /\ m_idleDelegate = None /\ m_idleCpuRequest => told
       /\ used = {FirstDelegate} /\ m_idleDelegate = None => told = m_idleCpuRequest

\* Its timer runs exactly while it is enabled and asked: no wake-ups for nothing,
\* no request that waits for a timer nobody started.
TimerAgrees ==
    m_idleDelegate # None =>
       ticking[m_idleDelegate] = (enabled[m_idleDelegate] /\ requested[m_idleDelegate])

\* Every factory works under the manager's memory restriction, a late one too,
\* and a restricted prelaunch factory neither keeps a process nor asks for one.
RestrictionReaches ==
    \A f \in Added : /\ knowsRestricted[f] = m_memoryRestricted
                     /\ f \in Local /\ m_memoryRestricted => ~busy[f] /\ ~wantsIdle[f]

\* The manager lists the internal processes of its factories, except those that a factory
\* already had when it was added: it lists these from the next change of any factory's on.
ProcessesListed ==
    /\ m_internalProcesses = {f \in Added : busy[f]} \ late
    /\ late \subseteq {f \in Added : busy[f]}

\* A request for idle time is known all the way down: factories, manager, delegate and
\* its timer agree about it.
IdleTimeAsked == TypeOK /\ RequestAgrees /\ TimerAgrees

\* Manager and factories agree about memory and about the processes that they keep, but for
\* those that a factory brought with it.
FactoriesAgree == RestrictionReaches /\ ProcessesListed

FirstInLine(f) ==
    \E i \in Requesters : m_factories[i] = f /\ \A j \in Requesters : i <= j

\* The factory that is first in line gets idle time, unless it withdraws, another
\* one comes before it, or the delegate is disabled, replaced or removed; a
\* launcher's without a delegate gets its owner's.
FirstServed ==
    \A f \in Factories, d \in Delegates \cup {None} :
       FirstInLine(f) /\ m_idleDelegate = d /\ (d = None => isLauncher)
         ~> granted = f \/ ~FirstInLine(f) \/ m_idleDelegate # d \/ (d # None /\ ~enabled[d])
=============================================================================
