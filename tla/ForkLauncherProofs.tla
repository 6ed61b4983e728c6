------------------------- MODULE ForkLauncherProofs -------------------------
(***************************************************************************)
(* Proofs about ForkLauncher for every set of ids and pids, every set of   *)
(* commands and any number of them.                                        *)
(***************************************************************************)
EXTENDS ForkLauncher, SequenceTheorems, TLAPS

(***************************************************************************)
(* The inductive invariant.                                                *)
(***************************************************************************)

\* The type invariant but for the range of queued, which follows from Reported.
Types ==
    /\ os \in [Pids -> {"none", "live", "exited", "crashed"}]
    /\ stubborn \in [Pids -> BOOLEAN] /\ dying \in [Pids -> BOOLEAN]
    /\ sigPipe \in Nat
    /\ inbox \in Seq(Commands)
    /\ phase \in {"select", "reap", "commands", "write", "gone"}
    /\ m_children \in [Ids -> Pids \cup {None}]
    /\ canReap \in BOOLEAN /\ canWrite \in BOOLEAN
    /\ m_sendbuf \in [Ids -> Seq(Life!Signals)]
    /\ seen \in [Ids -> Life!Stages]
    /\ m_state \in [Ids -> {"NotRunning", "Running", "SentSigTerm", "SentSigKill"}]
    /\ expired \in [Ids -> BOOLEAN]
    /\ m_inbuf \in [Ids -> BOOLEAN] /\ outPipe \in [Ids -> BOOLEAN]
    /\ started \in SUBSET Ids /\ commands \in 0..MaxCommands /\ halted \in BOOLEAN

Born == <<"Starting", "Running", "started">>
Epitaphs == {<<"NotRunning", "finished">>, <<"Crashed", "NotRunning", "finished">>}

\* Nothing was done for id i.
Untouched(i) == m_children[i] = None /\ seen[i] = "fresh" /\ m_sendbuf[i] = <<>>

\* What was reported and what is to be reported of i make up its life so far.
Reported(i) ==
    \/ Untouched(i)
    \/ /\ m_children[i] # None
       /\ \/ seen[i] = "fresh" /\ m_sendbuf[i] = Born
          \/ seen[i] = "up" /\ m_sendbuf[i] = <<>>
    \/ /\ m_children[i] = None
       /\ \/ seen[i] = "fresh" /\ \E e \in Epitaphs : m_sendbuf[i] = Born \o e
          \/ seen[i] = "up" /\ m_sendbuf[i] \in Epitaphs
          \/ seen[i] = "over" /\ m_sendbuf[i] = <<>>

IsStart(k) == k \in DOMAIN inbox /\ inbox[k].command = "start"

\* An id is started once: its start command finds no trace of it.
StartsOnce ==
    /\ \A k \in DOMAIN inbox : IsStart(k) => /\ inbox[k].id \in started
                                             /\ Untouched(inbox[k].id)
    /\ \A k, l \in DOMAIN inbox :
          IsStart(k) /\ IsStart(l) /\ inbox[k].id = inbox[l].id => k = l
    /\ \A i \in Ids \ started : Untouched(i)

\* An entry of the map is a process the system has, of one id only, and the other
\* way round; m_state tells whether there is an entry.
Tracked ==
    /\ \A i \in Children : os[m_children[i]] # "none"
    /\ \A p \in Pids : os[p] # "none" => \E i \in Ids : m_children[i] = p
    /\ \A i, j \in Children : m_children[i] = m_children[j] => i = j
    /\ \A i \in Ids : m_children[i] = None <=> m_state[i] = "NotRunning"

IInv ==
    /\ Types
    /\ \A i \in Ids : Reported(i)
    /\ StartsOnce
    /\ Tracked
    /\ canReap => sigPipe > 0

(***************************************************************************)
(* Sequences of reports, and what they amount to.                          *)
(***************************************************************************)

\* The sequences of reports are sequences of signals.
LEMMA ReportsAreSignals ==
    /\ Born \in Seq(Life!Signals) /\ Len(Born) = 3
    /\ \A e \in Epitaphs : /\ e \in Seq(Life!Signals)
                           /\ Len(e) \in Nat \ {0} /\ e # <<>>
                           /\ e[Len(e)] = "finished"
<1>1. Born \in Seq(Life!Signals) /\ Len(Born) = 3
  BY DEF Born, Life!Signals
<1>2. LET e == <<"NotRunning", "finished">> IN
      /\ e \in Seq(Life!Signals) /\ Len(e) = 2 /\ e[2] = "finished"
  BY DEF Life!Signals
<1>3. LET e == <<"Crashed", "NotRunning", "finished">> IN
      /\ e \in Seq(Life!Signals) /\ Len(e) = 3 /\ e[3] = "finished"
  BY DEF Life!Signals
<1>4. \A e \in Seq(Life!Signals) : Len(e) \in {2, 3} => e # <<>>
  BY EmptySeq
<1>5. QED
  BY <1>1, <1>2, <1>3, <1>4 DEF Epitaphs

\* What waitForChildren appends for a process that died is one of the epitaphs.
LEMMA EpitaphOfDead == \A p \in Pids : Epitaph(p) \in Epitaphs
<1> DEFINE rest == <<"NotRunning", "finished">>
           all  == <<"Crashed", "NotRunning", "finished">>
<1>1. <<"Crashed">> \o rest = all
  <2> DEFINE both == <<"Crashed">> \o rest
  <2>1. /\ <<"Crashed">> \in Seq(Life!Signals) /\ Len(<<"Crashed">>) = 1
        /\ rest \in Seq(Life!Signals) /\ Len(rest) = 2
        /\ all \in Seq(Life!Signals) /\ Len(all) = 3
    BY DEF Life!Signals
  <2>2. /\ both \in Seq(Life!Signals)
        /\ Len(both) = 3
        /\ \A k \in 1 .. 3 : both[k] = IF k <= 1 THEN <<"Crashed">>[k] ELSE rest[k - 1]
    BY <2>1, ConcatProperties
  <2>3. both[1] = all[1] /\ both[2] = all[2] /\ both[3] = all[3]
    BY <2>2
  <2> HIDE DEF both
  <2>4. \A k \in 1 .. Len(both) : both[k] = all[k]
    BY <2>2, <2>3
  <2> HIDE DEF all
  <2>5. both = all
    BY <2>1, <2>2, <2>4, SeqEqual
  <2>6. QED
    BY <2>5 DEF both
<1>2. <<>> \o rest = rest
  BY ConcatEmptySeq
<1>3. QED
  BY <1>1, <1>2 DEF Epitaph, Epitaphs

\* The stages that the reports of a life lead to.
LEMMA ReachedByLife ==
    /\ \A g : Life!Reached(g, <<>>) = g
    /\ \A g : Life!Reached(g, Born) = "up"
    /\ \A g, e : e \in Epitaphs => Life!Reached(g, e) = "over"
    /\ \A g, e : e \in Epitaphs => Life!Reached(g, Born \o e) = "over"
<1>1. \A g : Life!Reached(g, <<>>) = g
  BY DEF Life!Reached
<1>2. \A g : Life!Reached(g, Born) = "up"
  BY DEF Life!Reached, Born
<1>3. ASSUME NEW g, NEW s, s # <<>>, s[Len(s)] = "finished"
      PROVE  Life!Reached(g, s) = "over"
  BY <1>3 DEF Life!Reached
<1>4. ASSUME NEW e \in Epitaphs
      PROVE  /\ Born \o e # <<>>
             /\ (Born \o e)[Len(Born \o e)] = "finished"
  <2>1. /\ Len(Born \o e) = Len(Born) + Len(e)
        /\ \A k \in 1 .. Len(Born) + Len(e) :
              (Born \o e)[k] = IF k <= Len(Born) THEN Born[k] ELSE e[k - Len(Born)]
    BY ReportsAreSignals, ConcatProperties
  <2>2. Len(Born \o e) > 3 /\ (Born \o e)[Len(Born \o e)] = e[Len(e)]
    BY <2>1, ReportsAreSignals
  <2>3. QED
    BY <2>2, ReportsAreSignals, EmptySeq
<1>5. QED
  BY <1>1, <1>2, <1>3, <1>4, ReportsAreSignals

\* With m_sendbuf counted in, a process is up exactly while it is in the map.
LEMMA QueuedStage ==
    ASSUME NEW i \in Ids, Reported(i)
    PROVE  /\ queued[i] \in {"fresh", "up", "over"}
           /\ queued[i] = "up" <=> m_children[i] # None
           /\ Untouched(i) <=> queued[i] = "fresh"
<1>1. queued[i] = Life!Reached(seen[i], m_sendbuf[i])
  BY DEF queued
<1>2. CASE Untouched(i)
  BY <1>1, <1>2, ReachedByLife DEF Untouched
<1>3. CASE m_children[i] # None
  BY <1>1, <1>3, ReachedByLife, ReportsAreSignals DEF Reported, Untouched
<1>4. CASE m_children[i] = None /\ ~Untouched(i)
  <2>1. \/ seen[i] = "fresh" /\ \E e \in Epitaphs : m_sendbuf[i] = Born \o e
        \/ seen[i] = "up" /\ m_sendbuf[i] \in Epitaphs
        \/ seen[i] = "over" /\ m_sendbuf[i] = <<>>
    BY <1>4 DEF Reported
  <2>2. queued[i] = "over"
    <3>1. ASSUME NEW e \in Epitaphs, m_sendbuf[i] = e \/ m_sendbuf[i] = Born \o e
          PROVE  queued[i] = "over"
      <4>1. /\ Life!Reached(seen[i], e) = "over"
            /\ Life!Reached(seen[i], Born \o e) = "over"
        BY ReachedByLife, Zenon
      <4>2. QED
        BY <1>1, <3>1, <4>1
    <3>2. CASE seen[i] = "over" /\ m_sendbuf[i] = <<>>
      BY <1>1, <3>2, ReachedByLife
    <3>3. QED
      BY <2>1, <3>1, <3>2
  <2>3. QED
    BY <1>4, <2>2
<1>5. QED
  BY <1>2, <1>3, <1>4

(***************************************************************************)
(* What the parts of the invariant need of a step.                         *)
(***************************************************************************)

\* The commands that follow the first are those it had, one place further on.
LEMMA TailOfInbox ==
    ASSUME Types, inbox # <<>>
    PROVE  /\ Head(inbox) \in Commands /\ Head(inbox) = inbox[1]
           /\ Tail(inbox) \in Seq(Commands)
           /\ DOMAIN inbox = 1 .. Len(inbox) /\ Len(inbox) \in Nat \ {0}
           /\ DOMAIN Tail(inbox) = 1 .. Len(inbox) - 1
           /\ \A k \in DOMAIN Tail(inbox) : Tail(inbox)[k] = inbox[k + 1]
<1>1. inbox \in Seq(Commands)
  BY DEF Types
<1>2. /\ Head(inbox) \in Commands /\ Tail(inbox) \in Seq(Commands)
      /\ Len(Tail(inbox)) = Len(inbox) - 1
      /\ \A k \in 1 .. Len(Tail(inbox)) : Tail(inbox)[k] = inbox[k + 1]
  BY <1>1, HeadTailProperties
<1>3. Len(inbox) \in Nat \ {0} /\ DOMAIN inbox = 1 .. Len(inbox)
  BY <1>1, EmptySeq, LenProperties
<1>4. DOMAIN Tail(inbox) = 1 .. Len(Tail(inbox))
  BY <1>2, LenProperties
<1>5. Head(inbox) = inbox[1]
  BY <1>1
<1>6. QED
  BY <1>2, <1>3, <1>4, <1>5

\* A step that leaves alone what no start command has found, except for the id of
\* the start it takes, keeps StartsOnce.
LEMMA StartsKept ==
    ASSUME Types, StartsOnce, UNCHANGED started,
           \/ /\ UNCHANGED inbox
              /\ \A i \in Ids : Untouched(i) => Untouched(i)'
           \/ /\ inbox # <<>> /\ inbox' = Tail(inbox)
              /\ \A i \in Ids :
                    Untouched(i) /\ ~(IsStart(1) /\ inbox[1].id = i) => Untouched(i)'
    PROVE  StartsOnce'
<1>0. \A k \in DOMAIN inbox : IsStart(k) => inbox[k].id \in Ids
  <2>1. ASSUME NEW k \in DOMAIN inbox PROVE inbox[k] \in Commands
    BY ElementOfSeq, LenProperties DEF Types
  <2>2. QED
    BY <2>1 DEF IsStart, Commands
<1>1. CASE /\ UNCHANGED inbox
           /\ \A i \in Ids : Untouched(i) => Untouched(i)'
  <2>1. \A k : IsStart(k)' <=> IsStart(k)
    BY <1>1 DEF IsStart
  <2>2. QED
    BY <1>0, <1>1, <2>1 DEF StartsOnce
<1>2. CASE /\ inbox # <<>> /\ inbox' = Tail(inbox)
           /\ \A i \in Ids :
                 Untouched(i) /\ ~(IsStart(1) /\ inbox[1].id = i) => Untouched(i)'
  <2>1. /\ DOMAIN inbox = 1 .. Len(inbox) /\ Len(inbox) \in Nat \ {0}
        /\ DOMAIN inbox' = 1 .. Len(inbox) - 1
        /\ \A k \in DOMAIN inbox' : inbox'[k] = inbox[k + 1]
    BY <1>2, TailOfInbox
  <2>2. \A k \in DOMAIN inbox' :
           IsStart(k)' => k + 1 \in DOMAIN inbox /\ k + 1 # 1 /\ IsStart(k + 1)
    BY <2>1 DEF IsStart
  <2>3. ASSUME NEW k \in DOMAIN inbox', IsStart(k)'
        PROVE  (inbox[k].id \in started /\ Untouched(inbox[k].id))'
    <3>1. k + 1 \in DOMAIN inbox /\ k + 1 # 1 /\ IsStart(k + 1) /\ 1 \in DOMAIN inbox
      BY <2>1, <2>2, <2>3
    <3>2. ~(IsStart(1) /\ inbox[1].id = inbox[k + 1].id)
      BY <3>1 DEF StartsOnce
    <3>3. /\ inbox[k + 1].id \in Ids /\ inbox[k + 1].id \in started
          /\ Untouched(inbox[k + 1].id)
      BY <1>0, <3>1 DEF StartsOnce
    <3>4. ASSUME NEW i \in Ids, i = inbox[k + 1].id PROVE Untouched(i)'
      BY <1>2, <3>2, <3>3, <3>4
    <3>5. QED
      BY <2>1, <3>3, <3>4 DEF Untouched
  <2>4. ASSUME NEW k \in DOMAIN inbox', NEW l \in DOMAIN inbox',
               IsStart(k)', IsStart(l)', inbox'[k].id = inbox'[l].id
        PROVE  k = l
    <3>1. /\ k + 1 \in DOMAIN inbox /\ IsStart(k + 1)
          /\ l + 1 \in DOMAIN inbox /\ IsStart(l + 1)
          /\ inbox[k + 1].id = inbox[l + 1].id
      BY <2>1, <2>2, <2>4
    <3>2. k + 1 = l + 1
      BY <3>1 DEF StartsOnce
    <3>3. QED
      BY <2>1, <3>2
  <2>5. ASSUME NEW i \in Ids \ started PROVE Untouched(i)'
    <3>1. ~(IsStart(1) /\ inbox[1].id = i)
      BY <2>1, <2>5 DEF StartsOnce
    <3>2. QED
      BY <1>2, <3>1 DEF StartsOnce
  <2>6. StartsOnce' <=>
           /\ \A k \in DOMAIN inbox' :
                 IsStart(k)' => (inbox[k].id \in started /\ Untouched(inbox[k].id))'
           /\ \A k, l \in DOMAIN inbox' :
                 IsStart(k)' /\ IsStart(l)' /\ inbox'[k].id = inbox'[l].id => k = l
           /\ \A i \in Ids \ started' : Untouched(i)'
    BY DEF StartsOnce
  <2>7. QED
    BY <2>3, <2>4, <2>5, <2>6
<1>3. QED
  BY <1>1, <1>2

\* A step that reaps nobody, forks nobody and keeps the states of the dead apart
\* from those of the living keeps the agreement of the tables.
LEMMA TrackedKept ==
    ASSUME Types, Tracked, UNCHANGED m_children,
           \A p \in Pids : os'[p] = "none" <=> os[p] = "none",
           \A i \in Ids : m_state'[i] = "NotRunning" <=> m_state[i] = "NotRunning"
    PROVE  Tracked'
<1>1. Children' = Children
  BY DEF Children
<1>2. \A i \in Children : m_children[i] \in Pids
  BY DEF Children, Types
<1>3. QED
  BY <1>1, <1>2 DEF Tracked

\* A step that touches neither the map nor the reports.
LEMMA Frame ==
    ASSUME IInv, Types', UNCHANGED <<m_children, m_sendbuf, seen, started>>,
           inbox' = inbox \/ (inbox # <<>> /\ inbox' = Tail(inbox)),
           \A p \in Pids : os'[p] = "none" <=> os[p] = "none",
           \A i \in Ids : m_state'[i] = "NotRunning" <=> m_state[i] = "NotRunning",
           canReap' => sigPipe' > 0
    PROVE  IInv'
<1>1. \A i \in Ids : Untouched(i)' <=> Untouched(i)
  BY DEF Untouched
<1>2. \A i \in Ids : Reported(i)'
  BY <1>1 DEF IInv, Reported
<1>3. StartsOnce'
  BY <1>1, StartsKept DEF IInv
<1>4. Tracked'
  BY TrackedKept DEF IInv
<1>5. QED
  BY <1>2, <1>3, <1>4 DEF IInv

\* A signal leaves dying a function to truth values.
LEMMA SignalTypes ==
    ASSUME NEW hard, NEW soft, sendSignals(hard, soft)
    PROVE  dying' \in [Pids -> BOOLEAN]
<1>1. \A p \in Pids : (\/ dying[p]
                       \/ os[p] = "live" /\ (p \in hard \/ (p \in soft /\ ~stubborn[p])))
                      \in BOOLEAN
  OBVIOUS
<1>2. QED
  BY <1>1, Zenon DEF sendSignals

(***************************************************************************)
(* The initial state.                                                      *)
(***************************************************************************)

\* The launcher starts with empty tables and no children.
LEMMA InitInv == Init => IInv
<1> SUFFICES ASSUME Init PROVE IInv
  OBVIOUS
<1> USE DEF Init
<1>1. \A i \in Ids : Untouched(i)
  BY DEF Untouched
<1>2. Types
  <2>1. m_sendbuf \in [Ids -> Seq(Life!Signals)] /\ inbox \in Seq(Commands)
    BY EmptySeq
  <2>2. seen \in [Ids -> Life!Stages]
    BY DEF Life!Stages
  <2>3. commands \in 0 .. MaxCommands
    BY ConstantsAssumption
  <2>4. QED
    BY <2>1, <2>2, <2>3 DEF Types, NewChildren
<1>3. StartsOnce
  BY <1>1 DEF StartsOnce
<1>4. Tracked
  <2>1. Children = {}
    BY DEF Children
  <2>2. QED
    BY <2>1 DEF Tracked, NewChildren
<1>5. QED
  BY <1>1, <1>2, <1>3, <1>4 DEF IInv, Reported

(***************************************************************************)
(* The turn of the loop.                                                   *)
(***************************************************************************)

\* Input that is passed on, and kill timers that expire, while all children take it.
LEMMA ServeChildrenInv == IInv /\ ServeChildren => IInv'
<1> SUFFICES ASSUME IInv, ServeChildren PROVE IInv'
  OBVIOUS
<1> USE DEF ServeChildren
<1>1. \A i \in Overdue : m_state[i] = "SentSigTerm"
  BY DEF Overdue
<1>2. Types'
  <2>1. dying' \in [Pids -> BOOLEAN]
    BY SignalTypes
  <2>2. canReap' \in BOOLEAN
    BY DEF readable
  <2>3. canWrite' \in BOOLEAN
    BY DEF Unsent
  <2>4. m_state' \in [Ids -> {"NotRunning", "Running", "SentSigTerm", "SentSigKill"}]
    BY DEF IInv, Types
  <2>5. m_inbuf' \in [Ids -> BOOLEAN] /\ outPipe' \in [Ids -> BOOLEAN]
    OBVIOUS
  <2>6. QED
    BY <2>1, <2>2, <2>3, <2>4, <2>5 DEF IInv, Types, managerVars
<1>3. \A i \in Ids : m_state'[i] = "NotRunning" <=> m_state[i] = "NotRunning"
  BY <1>1 DEF IInv, Types
<1>4. canReap' => sigPipe' > 0
  BY DEF readable
<1>5. QED
  BY <1>2, <1>3, <1>4, Frame DEF managerVars

\* A launcher that dies of a write to a closed pipe signals its children: the table is as it was.
LEMMA WriteToDeadInv == IInv /\ WriteToDead => IInv'
<1> SUFFICES ASSUME IInv, WriteToDead PROVE IInv'
  OBVIOUS
<1> USE DEF WriteToDead, exit, Exits, childVars, managerVars
<1>1. dying' \in [Pids -> BOOLEAN]
  <2>1. PICK armed \in SUBSET Pids : sendSignals({}, armed)
    BY Zenon
  <2>2. QED
    BY <2>1, SignalTypes
<1>2. Types'
  BY <1>1 DEF IInv, Types
<1>3. canReap' => sigPipe' > 0
  BY DEF IInv
<1>4. QED
  BY <1>2, <1>3, Frame

\* waitForChildren ends the lives of the dead that are in the map, takes exactly
\* them out of it, and leaves no zombie.
LEMMA ReapInv == IInv /\ Reap => IInv'
<1> SUFFICES ASSUME IInv, Reap PROVE IInv'
  OBVIOUS
<1> USE DEF Reap, managerVars
<1>1. CASE ~canReap
  <2>1. Types'
    BY <1>1 DEF IInv, Types, osVars, childVars
  <2>2. QED
    BY <1>1, <2>1, Frame DEF osVars, childVars
<1>2. CASE canReap
  <2> DEFINE dead == {i \in Children : m_children[i] \in reaped}
  <2> USE <1>2 DEF waitForChildren, forget
  <2>1. \A i \in dead : i \in Ids /\ m_children[i] \in Pids /\ m_children[i] # None
    BY DEF Children, reaped
  <2>2. /\ \A i \in Ids : m_children'[i] = IF i \in dead THEN None ELSE m_children[i]
        /\ \A i \in Ids : m_state'[i] = IF i \in dead THEN "NotRunning" ELSE m_state[i]
        /\ \A i \in Ids : m_sendbuf'[i] =
              IF i \in dead THEN m_sendbuf[i] \o Epitaph(m_children[i]) ELSE m_sendbuf[i]
        /\ \A p \in Pids : os'[p] = IF p \in reaped THEN "none" ELSE os[p]
    <3>1. \A i \in Ids : m_children'[i] = IF i \in dead THEN None ELSE m_children[i]
      OBVIOUS
    <3>2. \A i \in Ids : m_state'[i] = IF i \in dead THEN "NotRunning" ELSE m_state[i]
      OBVIOUS
    <3>3. \A i \in Ids : m_sendbuf'[i] =
             IF i \in dead THEN m_sendbuf[i] \o Epitaph(m_children[i]) ELSE m_sendbuf[i]
      <4>1. m_sendbuf' = [i \in Ids |->
               IF i \in dead THEN m_sendbuf[i] \o Epitaph(m_children[i]) ELSE m_sendbuf[i]]
        BY Zenon
      <4> HIDE DEF Reap, waitForChildren, forget, dead
      <4>2. QED
        BY <4>1, Zenon
    <3>4. \A p \in Pids : os'[p] = IF p \in reaped THEN "none" ELSE os[p]
      OBVIOUS
    <3>5. QED
      BY <3>1, <3>2, <3>3, <3>4
  <2>3. \A i \in Ids : i \notin dead => (Untouched(i)' <=> Untouched(i))
    BY <2>2 DEF Untouched
  <2>4. ASSUME NEW i \in dead
        PROVE  /\ Epitaph(m_children[i]) \in Epitaphs
               /\ Epitaph(m_children[i]) \in Seq(Life!Signals)
               /\ ~Untouched(i)
               /\ Reported(i)'
               /\ m_sendbuf'[i] \in Seq(Life!Signals)
    <3> DEFINE e == Epitaph(m_children[i])
    <3>1. e \in Epitaphs /\ e \in Seq(Life!Signals)
      BY <2>1, EpitaphOfDead, ReportsAreSignals
    <3>2. ~Untouched(i)
      BY <2>1 DEF Untouched
    <3>3. m_sendbuf'[i] = m_sendbuf[i] \o e /\ m_children'[i] = None /\ seen'[i] = seen[i]
      BY <2>1, <2>2
    <3> HIDE DEF e
    <3>4. \/ seen[i] = "fresh" /\ m_sendbuf[i] = Born
          \/ seen[i] = "up" /\ m_sendbuf[i] = <<>>
      BY <2>1, <3>2 DEF IInv, Reported
    <3>5. \/ seen'[i] = "fresh" /\ m_sendbuf'[i] = Born \o e
          \/ seen'[i] = "up" /\ m_sendbuf'[i] = e
      BY <3>1, <3>3, <3>4, ConcatEmptySeq
    <3>6. Reported(i)'
      BY <3>1, <3>3, <3>5 DEF Reported
    <3>7. m_sendbuf'[i] \in Seq(Life!Signals)
      <4>1. Born \o e \in Seq(Life!Signals)
        BY <3>1, ReportsAreSignals, ConcatProperties
      <4>2. QED
        BY <3>1, <3>5, <4>1
    <3>8. QED
      BY <3>1, <3>2, <3>6, <3>7 DEF e
  <2>5. \A i \in Ids : Reported(i)'
    <3>1. ASSUME NEW i \in Ids, i \notin dead PROVE Reported(i)'
      <4>1. /\ m_children'[i] = m_children[i] /\ m_sendbuf'[i] = m_sendbuf[i]
            /\ seen'[i] = seen[i]
        BY <2>2, <3>1
      <4>2. Reported(i)
        BY DEF IInv
      <4> HIDE DEF Reap, waitForChildren, forget, dead
      <4>3. QED
        BY <4>1, <4>2 DEF Reported, Untouched
    <3>2. QED
      BY <2>4, <3>1
  <2>6. Types'
    <3>1. os' \in [Pids -> {"none", "live", "exited", "crashed"}]
      BY DEF IInv, Types
    <3>2. dying' \in [Pids -> BOOLEAN] /\ stubborn' \in [Pids -> BOOLEAN]
      <4>1. /\ \A p \in Pids : (dying[p] /\ p \notin reaped) \in BOOLEAN
            /\ \A p \in Pids : (stubborn[p] /\ p \notin reaped) \in BOOLEAN
        OBVIOUS
      <4>2. /\ dying' = [p \in Pids |-> dying[p] /\ p \notin reaped]
            /\ stubborn' = [p \in Pids |-> stubborn[p] /\ p \notin reaped]
        OBVIOUS
      <4>3. QED
        BY <4>1, <4>2, Zenon
    <3>3. sigPipe' \in Nat
      BY DEF IInv, Types
    <3>4. m_children' \in [Ids -> Pids \cup {None}]
      BY DEF IInv, Types
    <3>5. m_sendbuf' \in [Ids -> Seq(Life!Signals)]
      BY <2>2, <2>4 DEF IInv, Types
    <3>6. m_state' \in [Ids -> {"NotRunning", "Running", "SentSigTerm", "SentSigKill"}]
      BY DEF IInv, Types
    <3>7. /\ expired' \in [Ids -> BOOLEAN]
          /\ m_inbuf' \in [Ids -> BOOLEAN] /\ outPipe' \in [Ids -> BOOLEAN]
      BY Zenon
    <3>8. UNCHANGED <<inbox, started, commands, halted, seen, canWrite>>
      OBVIOUS
    <3>9. phase' \in {"select", "reap", "commands", "write", "gone"} /\ canReap' \in BOOLEAN
      OBVIOUS
    <3> HIDE DEF Reap, waitForChildren, forget
    <3>10. QED
      BY <3>1, <3>2, <3>3, <3>4, <3>5, <3>6, <3>7, <3>8, <3>9 DEF IInv, Types
  <2>7. StartsOnce'
    BY <2>3, <2>4, StartsKept DEF IInv
  <2>8. Tracked'
    <3>1. Children' = Children \ dead
      BY <2>1, <2>2 DEF Children
    <3>2. \A i \in Children \ dead : /\ m_children'[i] = m_children[i]
                                     /\ m_children[i] \in Pids \ reaped
      BY <2>2 DEF Children, IInv, Types
    <3>3. \A i \in Children' : os'[m_children'[i]] # "none"
      BY <2>2, <3>1, <3>2 DEF IInv, Tracked
    <3>4. ASSUME NEW p \in Pids, os'[p] # "none"
          PROVE  \E i \in Ids : m_children'[i] = p
      <4>1. os[p] # "none" /\ p \notin reaped
        BY <2>2, <3>4
      <4>2. PICK i \in Ids : m_children[i] = p
        BY <4>1 DEF IInv, Tracked
      <4>3. i \notin dead
        BY <4>1, <4>2
      <4>4. QED
        BY <2>2, <4>2, <4>3
    <3>5. \A i, j \in Children' : m_children'[i] = m_children'[j] => i = j
      BY <3>1, <3>2 DEF IInv, Tracked
    <3>6. \A i \in Ids : m_children'[i] = None <=> m_state'[i] = "NotRunning"
      BY <2>2 DEF IInv, Tracked
    <3>7. QED
      BY <3>3, <3>4, <3>5, <3>6 DEF Tracked
  <2>9. QED
    BY <2>5, <2>6, <2>7, <2>8 DEF IInv
<1>3. QED
  BY <1>1, <1>2

(***************************************************************************)
(* Commands.                                                               *)
(***************************************************************************)

\* What is known of the command that is taken.
LEMMA CommandTaken ==
    ASSUME IInv, NEW name \in {"start", "stop", "set", "write", "halt"}, TakeCommand(name)
    PROVE  /\ inbox # <<>> /\ inbox' = Tail(inbox) /\ Head(inbox) = inbox[1]
           /\ inbox' \in Seq(Commands)
           /\ name # "halt" => Head(inbox).id \in Ids
           /\ IsStart(1) <=> name = "start"
           /\ name = "start" => Untouched(Head(inbox).id)
           /\ UNCHANGED <<started, commands, halted>>
<1> USE DEF TakeCommand
<1>1. /\ Head(inbox) \in Commands /\ Head(inbox) = inbox[1]
      /\ Tail(inbox) \in Seq(Commands) /\ 1 \in DOMAIN inbox
  BY TailOfInbox DEF IInv
<1>2. name # "halt" => Head(inbox).id \in Ids
  BY <1>1 DEF Commands
<1>3. IsStart(1) <=> name = "start"
  BY <1>1 DEF IsStart
<1>4. name = "start" => Untouched(Head(inbox).id)
  BY <1>1, <1>3 DEF IInv, StartsOnce
<1>5. QED
  BY <1>1, <1>2, <1>3, <1>4

\* A command that neither forks nor touches the reports, as far as it matters here.
LEMMA CommandFrame ==
    ASSUME IInv, NEW name \in {"start", "stop", "set", "write", "halt"}, TakeCommand(name),
           UNCHANGED <<os, stubborn, sigPipe, m_children, m_sendbuf, seen, canReap, canWrite>>,
           phase' \in {"select", "reap", "commands", "write", "gone"},
           dying' \in [Pids -> BOOLEAN],
           m_state' \in [Ids -> {"NotRunning", "Running", "SentSigTerm", "SentSigKill"}],
           \A i \in Ids : m_state'[i] = "NotRunning" <=> m_state[i] = "NotRunning",
           expired' \in [Ids -> BOOLEAN],
           m_inbuf' \in [Ids -> BOOLEAN], outPipe' \in [Ids -> BOOLEAN]
    PROVE  IInv'
<1>1. /\ inbox # <<>> /\ inbox' = Tail(inbox) /\ inbox' \in Seq(Commands)
      /\ UNCHANGED <<started, commands, halted>>
  BY CommandTaken
<1>2. Types'
  BY <1>1 DEF IInv, Types
<1>3. canReap' => sigPipe' > 0
  BY DEF IInv
<1>4. QED
  BY <1>1, <1>2, <1>3, Frame

\* The phase after a command is one of the phases.
LEMMA PhaseAfterCommand ==
    MoreOrEnd => /\ phase' \in {"select", "reap", "commands", "write", "gone"}
                 /\ UNCHANGED <<canReap, canWrite, seen>>
  BY DEF MoreOrEnd

\* A start adds one child and one entry, under an id that had neither.
LEMMA doForkInv == IInv /\ doFork => IInv'
<1> SUFFICES ASSUME IInv, doFork PROVE IInv'
  OBVIOUS
<1>0. TakeCommand("start")
  BY DEF doFork
<1>1. PICK i \in Ids :
         /\ i = Head(inbox).id
         /\ inbox # <<>> /\ inbox' = Tail(inbox) /\ Head(inbox) = inbox[1]
         /\ inbox' \in Seq(Commands)
         /\ IsStart(1) /\ Untouched(i)
         /\ UNCHANGED <<started, commands, halted>>
  BY <1>0, CommandTaken
<1>2. PICK p \in Pids, s \in BOOLEAN :
          /\ os[p] = "none"
          /\ os' = [os EXCEPT ![p] = "live"]
          /\ stubborn' = [stubborn EXCEPT ![p] = s]
          /\ m_children' = [m_children EXCEPT ![i] = p]
          /\ m_state' = [m_state EXCEPT ![i] = "Running"]
          /\ m_sendbuf' = [m_sendbuf EXCEPT ![i] = @ \o Born]
  BY <1>1 DEF doFork, Born
<1>3. UNCHANGED <<dying, sigPipe, expired, m_inbuf, outPipe>>
  BY DEF doFork
<1>4. /\ phase' \in {"select", "reap", "commands", "write", "gone"}
      /\ UNCHANGED <<canReap, canWrite, seen>>
  BY PhaseAfterCommand DEF doFork
<1>5. /\ \A j \in Ids : m_children'[j] = IF j = i THEN p ELSE m_children[j]
      /\ \A j \in Ids : m_state'[j] = IF j = i THEN "Running" ELSE m_state[j]
      /\ \A j \in Ids : m_sendbuf'[j] = IF j = i THEN m_sendbuf[i] \o Born ELSE m_sendbuf[j]
      /\ \A q \in Pids : os'[q] = IF q = p THEN "live" ELSE os[q]
      /\ p # None
  BY <1>1, <1>2, ConstantsAssumption DEF IInv, Types
<1>6. m_sendbuf'[i] = Born
  <2>1. m_sendbuf'[i] = <<>> \o Born
    BY <1>1, <1>5 DEF Untouched
  <2>2. QED
    BY <2>1, ReportsAreSignals, ConcatEmptySeq
<1>7. Types'
  <2>1. m_sendbuf' \in [Ids -> Seq(Life!Signals)]
    <3>1. m_sendbuf' = [m_sendbuf EXCEPT ![i] = Born]
      BY <1>1, <1>2, <1>6 DEF IInv, Types
    <3>2. QED
      BY <3>1, ReportsAreSignals DEF IInv, Types
  <2>2. /\ os' \in [Pids -> {"none", "live", "exited", "crashed"}]
        /\ stubborn' \in [Pids -> BOOLEAN]
        /\ m_children' \in [Ids -> Pids \cup {None}]
        /\ m_state' \in [Ids -> {"NotRunning", "Running", "SentSigTerm", "SentSigKill"}]
    BY <1>2 DEF IInv, Types
  <2>3. QED
    BY <1>1, <1>3, <1>4, <2>1, <2>2 DEF IInv, Types
<1>8. \A j \in Ids : Reported(j)'
  <2>1. Reported(i)'
    BY <1>1, <1>4, <1>5, <1>6 DEF Reported, Untouched
  <2>2. ASSUME NEW j \in Ids, j # i PROVE Reported(j)'
    <3>1. /\ m_children'[j] = m_children[j] /\ m_sendbuf'[j] = m_sendbuf[j]
          /\ seen'[j] = seen[j]
      BY <1>4, <1>5, <2>2
    <3>2. Reported(j)
      BY DEF IInv
    <3>3. QED
      BY <3>1, <3>2 DEF Reported, Untouched
  <2>3. QED
    BY <2>1, <2>2
<1>9. StartsOnce'
  <2>1. \A j \in Ids : Untouched(j) /\ ~(IsStart(1) /\ inbox[1].id = j) => Untouched(j)'
    BY <1>1, <1>4, <1>5 DEF Untouched
  <2>2. QED
    BY <1>1, <2>1, StartsKept DEF IInv
<1>10. Tracked'
  <2>1. \A j \in Children' : j = i \/ j \in Children
    BY <1>5 DEF Children
  <2>2. \A j \in Children : m_children[j] \in Pids /\ m_children[j] # p /\ j # i
    BY <1>1, <1>2 DEF Children, IInv, Types, Tracked, Untouched
  <2>3. \A j \in Children' : os'[m_children'[j]] # "none"
    BY <1>1, <1>5, <2>1, <2>2 DEF IInv, Tracked, Children
  <2>4. ASSUME NEW q \in Pids, os'[q] # "none"
        PROVE  \E j \in Ids : m_children'[j] = q
    <3>1. CASE q = p
      BY <1>1, <1>5, <3>1
    <3>2. CASE q # p
      <4>1. PICK j \in Ids : m_children[j] = q
        BY <1>5, <2>4, <3>2 DEF IInv, Tracked
      <4>2. j # i
        BY <1>1, <4>1, ConstantsAssumption DEF Untouched
      <4>3. QED
        BY <1>5, <4>1, <4>2
    <3>3. QED
      BY <3>1, <3>2
  <2>5. \A j, k \in Children' : m_children'[j] = m_children'[k] => j = k
    BY <1>5, <2>1, <2>2 DEF IInv, Tracked, Children
  <2>6. \A j \in Ids : m_children'[j] = None <=> m_state'[j] = "NotRunning"
    BY <1>5 DEF IInv, Tracked
  <2>7. QED
    BY <2>3, <2>4, <2>5, <2>6 DEF Tracked
<1>11. canReap' => sigPipe' > 0
  BY <1>3, <1>4 DEF IInv
<1>12. QED
  BY <1>7, <1>8, <1>9, <1>10, <1>11 DEF IInv

\* A stop signals a child that is in the table, and leaves the table alone.
LEMMA stopInv == IInv /\ stop => IInv'
<1> SUFFICES ASSUME IInv, stop PROVE IInv'
  OBVIOUS
<1> DEFINE i == Head(inbox).id
<1> USE DEF stop
<1>1. i \in Ids
  BY CommandTaken
<1>2. \/ UNCHANGED <<m_state, dying>>
      \/ /\ m_state[i] = "Running" /\ dying' \in [Pids -> BOOLEAN]
         /\ \E s \in {"SentSigTerm", "SentSigKill"} : m_state' = [m_state EXCEPT ![i] = s]
  BY SignalTypes
<1>3. UNCHANGED <<os, stubborn, sigPipe, m_children, expired, m_inbuf, outPipe, m_sendbuf>>
  OBVIOUS
<1>4. /\ phase' \in {"select", "reap", "commands", "write", "gone"}
      /\ UNCHANGED <<canReap, canWrite, seen>>
  BY PhaseAfterCommand
<1>5. TakeCommand("stop")
  OBVIOUS
<1> HIDE DEF stop, i
<1>6. /\ dying' \in [Pids -> BOOLEAN]
      /\ m_state' \in [Ids -> {"NotRunning", "Running", "SentSigTerm", "SentSigKill"}]
      /\ \A j \in Ids : m_state'[j] = "NotRunning" <=> m_state[j] = "NotRunning"
  BY <1>1, <1>2 DEF IInv, Types
<1>7. /\ expired' \in [Ids -> BOOLEAN]
      /\ m_inbuf' \in [Ids -> BOOLEAN] /\ outPipe' \in [Ids -> BOOLEAN]
  BY <1>3 DEF IInv, Types
<1>8. QED
  BY <1>3, <1>4, <1>5, <1>6, <1>7, CommandFrame

\* set changes no table.
LEMMA setInv == IInv /\ set => IInv'
<1> SUFFICES ASSUME IInv, set PROVE IInv'
  OBVIOUS
<1>1. /\ TakeCommand("set")
      /\ UNCHANGED <<os, stubborn, dying, sigPipe, m_children, m_sendbuf, m_state, expired,
                     m_inbuf, outPipe>>
      /\ phase' \in {"select", "reap", "commands", "write", "gone"}
      /\ UNCHANGED <<canReap, canWrite, seen>>
  BY PhaseAfterCommand DEF set, osVars, childVars
<1>2. QED
  BY <1>1, CommandFrame DEF IInv, Types

\* write changes no table.
LEMMA writeInv == IInv /\ write => IInv'
<1> SUFFICES ASSUME IInv, write PROVE IInv'
  OBVIOUS
<1> DEFINE i == Head(inbox).id
<1>1. /\ TakeCommand("write")
      /\ UNCHANGED <<os, stubborn, dying, sigPipe, m_children, m_sendbuf, m_state, expired,
                     outPipe>>
      /\ m_inbuf' = [m_inbuf EXCEPT ![i] = m_inbuf[i] \/ i \in Children]
  BY DEF write, osVars
<1>2. /\ phase' \in {"select", "reap", "commands", "write", "gone"}
      /\ UNCHANGED <<canReap, canWrite, seen>>
  BY PhaseAfterCommand DEF write
<1>3. m_inbuf' \in [Ids -> BOOLEAN]
  <2>1. (m_inbuf[i] \/ i \in Children) \in BOOLEAN
    OBVIOUS
  <2>2. QED
    BY <1>1, <2>1 DEF IInv, Types
<1>4. QED
  BY <1>1, <1>2, <1>3, CommandFrame DEF IInv, Types

\* halt changes no table.
LEMMA haltInv == IInv /\ halt => IInv'
<1> SUFFICES ASSUME IInv, halt PROVE IInv'
  OBVIOUS
<1>1. dying' \in [Pids -> BOOLEAN]
  <2>1. PICK hard, armed : sendSignals(hard, armed)
    BY Zenon DEF halt, exit
  <2>2. QED
    BY <2>1, SignalTypes
<1>2. /\ TakeCommand("halt") /\ phase' = "gone"
      /\ UNCHANGED <<os, stubborn, sigPipe, m_children, canReap, canWrite, m_sendbuf, m_state,
                     expired, m_inbuf, outPipe, seen>>
  BY DEF halt, exit, Exits, childVars
<1>3. QED
  BY <1>1, <1>2, CommandFrame DEF IInv, Types

\* A turn without a command changes no table.
LEMMA NoCommandInv == IInv /\ NoCommand => IInv'
<1> SUFFICES ASSUME IInv, NoCommand PROVE IInv'
  OBVIOUS
<1> USE DEF NoCommand, osVars, childVars, managerVars
<1>1. Types'
  BY DEF IInv, Types
<1>2. canReap' => sigPipe' > 0
  BY DEF IInv
<1>3. QED
  BY <1>1, <1>2, Frame

\* The reports reach the manager whole, so that each process is then at the stage
\* it was at with m_sendbuf counted in.
LEMMA WriteReportsInv == IInv /\ WriteReports => IInv'
<1> SUFFICES ASSUME IInv, WriteReports PROVE IInv'
  OBVIOUS
<1> USE DEF WriteReports, osVars, childVars, managerVars
<1>1. CASE ~canWrite
  <2>1. Types'
    BY <1>1 DEF IInv, Types
  <2>2. QED
    BY <1>1, <2>1, Frame DEF IInv
<1>2. CASE canWrite
  <2>1. \A i \in Ids : seen'[i] = queued[i] /\ m_sendbuf'[i] = <<>>
    BY <1>2 DEF queued
  <2>2. \A i \in Ids : /\ queued[i] \in {"fresh", "up", "over"}
                       /\ queued[i] = "up" <=> m_children[i] # None
                       /\ Untouched(i) <=> queued[i] = "fresh"
    BY QueuedStage DEF IInv
  <2>3. Types'
    <3>1. seen' \in [Ids -> Life!Stages]
      BY <1>2, <2>2 DEF queued, Life!Stages
    <3>2. m_sendbuf' \in [Ids -> Seq(Life!Signals)]
      BY <1>2, EmptySeq
    <3> HIDE DEF WriteReports
    <3>3. /\ phase' = "select" /\ canWrite' = FALSE
          /\ UNCHANGED <<osVars, m_children, canReap, childVars, managerVars>>
      BY DEF WriteReports
    <3>4. QED
      BY <3>1, <3>2, <3>3 DEF IInv, Types
  <2>4. ASSUME NEW i \in Ids
        PROVE  (Untouched(i)' <=> Untouched(i)) /\ Reported(i)'
    <3>1. Untouched(i) => m_children[i] = None
      BY DEF Untouched
    <3>2. QED
      BY <2>1, <2>2, <3>1 DEF Untouched, Reported
  <2>5. StartsOnce'
    BY <2>4, StartsKept DEF IInv
  <2>6. Tracked'
    BY TrackedKept DEF IInv
  <2>7. canReap' => sigPipe' > 0
    BY DEF IInv
  <2>8. QED
    BY <2>3, <2>4, <2>5, <2>6, <2>7 DEF IInv
<1>3. QED
  BY <1>1, <1>2

(***************************************************************************)
(* The children, signals, time, and the manager.                           *)
(***************************************************************************)

\* A child that dies stays in the table until it is reaped: the pid is not free.
LEMMA DiesInv ==
    ASSUME NEW p \in Pids, NEW how \in {"exited", "crashed"}, IInv, Dies(p, how)
    PROVE  IInv'
<1> USE DEF Dies, parentVars, childVars, managerVars
<1>1. sigPipe' \in Nat /\ (canReap' => sigPipe' > 0)
  BY DEF IInv, Types, sig_child_handler
<1>2. \A q \in Pids : os'[q] = "none" <=> os[q] = "none"
  BY DEF IInv, Types
<1>3. Types'
  BY <1>1 DEF IInv, Types
<1>4. QED
  BY <1>1, <1>2, <1>3, Frame

\* What a program writes, and the kill timer, change no table.
LEMMA ChildStepInv ==
    ASSUME NEW i \in Ids, IInv, ProgramWrites(i) \/ TimerExpires(i)
    PROVE  IInv'
<1> USE DEF ProgramWrites, TimerExpires, osVars, parentVars, managerVars
<1>1. Types'
  BY DEF IInv, Types
<1>2. canReap' => sigPipe' > 0
  BY DEF IInv
<1>3. QED
  BY <1>1, <1>2, Frame

\* A command is sent; a start only for an id that no start was sent for.
LEMMA SendKeeps ==
    ASSUME IInv, NEW m \in Commands, Send(m),
           m.command = "start" => m.id \notin started /\ started' = started \cup {m.id},
           m.command # "start" => started' = started,
           commands' \in 0 .. MaxCommands, halted' \in BOOLEAN
    PROVE  IInv'
<1> USE DEF Send, osVars, parentVars, childVars
<1>1. /\ inbox' \in Seq(Commands)
      /\ DOMAIN inbox = 1 .. Len(inbox) /\ Len(inbox) \in Nat
      /\ DOMAIN inbox' = 1 .. Len(inbox) + 1
      /\ \A k \in 1 .. Len(inbox) : inbox'[k] = inbox[k]
      /\ inbox'[Len(inbox) + 1] = m
  <2>1. inbox \in Seq(Commands) /\ inbox' = Append(inbox, m)
    BY DEF IInv, Types
  <2>2. QED
    BY <2>1, AppendProperties, LenProperties
<1>2. m.command = "start" => m.id \in Ids
  BY DEF Commands
<1>3. Types'
  BY <1>1, <1>2 DEF IInv, Types
<1>4. \A i \in Ids : (Untouched(i)' <=> Untouched(i)) /\ Reported(i)'
  BY DEF IInv, Reported, Untouched
<1>5. StartsOnce'
  <2>1. \A k \in DOMAIN inbox' :
           IsStart(k)' <=> \/ k \in DOMAIN inbox /\ IsStart(k)
                           \/ k = Len(inbox) + 1 /\ m.command = "start"
    BY <1>1 DEF IsStart
  <2>2. \A k \in DOMAIN inbox : IsStart(k) => inbox[k].id \in started
    BY DEF IInv, StartsOnce
  <2>3. ASSUME NEW k \in DOMAIN inbox', IsStart(k)'
        PROVE  (inbox[k].id \in started /\ Untouched(inbox[k].id))'
    <3>1. CASE k \in DOMAIN inbox /\ IsStart(k)
      <4>1. inbox[k].id \in started /\ Untouched(inbox[k].id)
        BY <3>1 DEF IInv, StartsOnce
      <4>2. inbox'[k] = inbox[k]
        BY <1>1, <3>1
      <4>3. QED
        BY <4>1, <4>2 DEF Untouched
    <3>2. CASE k = Len(inbox) + 1 /\ m.command = "start"
      <4>1. inbox'[k] = m /\ m.id \in started' /\ m.id \in Ids \ started
        BY <1>1, <1>2, <3>2
      <4>2. Untouched(m.id)
        BY <4>1 DEF IInv, StartsOnce
      <4>3. QED
        BY <4>1, <4>2 DEF Untouched
    <3>3. QED
      BY <2>1, <2>3, <3>1, <3>2
  <2>4. ASSUME NEW k \in DOMAIN inbox', NEW l \in DOMAIN inbox',
               IsStart(k)', IsStart(l)', inbox'[k].id = inbox'[l].id
        PROVE  k = l
    <3>1. CASE k \in DOMAIN inbox /\ l \in DOMAIN inbox
      BY <1>1, <2>1, <2>4, <3>1 DEF IInv, StartsOnce
    <3>2. CASE k \notin DOMAIN inbox /\ l \in DOMAIN inbox
      BY <1>1, <2>1, <2>2, <2>4, <3>2
    <3>3. CASE k \in DOMAIN inbox /\ l \notin DOMAIN inbox
      BY <1>1, <2>1, <2>2, <2>4, <3>3
    <3>4. CASE k \notin DOMAIN inbox /\ l \notin DOMAIN inbox
      BY <1>1, <3>4
    <3>5. QED
      BY <3>1, <3>2, <3>3, <3>4
  <2>5. \A i \in Ids \ started' : Untouched(i)'
    BY <1>4 DEF IInv, StartsOnce
  <2>6. QED
    BY <2>3, <2>4, <2>5 DEF StartsOnce
<1>6. Tracked'
  BY TrackedKept DEF IInv
<1>7. QED
  BY <1>3, <1>4, <1>5, <1>6 DEF IInv

\* A command that the manager sends keeps the promise of one start per id.
LEMMA SendInv ==
    ASSUME IInv, SendHalt \/ \E i \in Ids : SendStart(i) \/ SendCommand(i)
    PROVE  IInv'
<1> USE DEF Commands
<1>1. CASE \E i \in Ids : SendStart(i)
  <2>1. PICK i \in Ids : SendStart(i)
    BY <1>1
  <2> DEFINE m == [command |-> "start", id |-> i]
  <2>2. m \in Commands /\ m.command = "start" /\ m.id = i
    OBVIOUS
  <2>3. /\ Send(m) /\ i \notin started /\ started' = started \cup {i}
        /\ commands' \in 0 .. MaxCommands /\ halted' \in BOOLEAN
    BY <2>1 DEF SendStart, IInv, Types
  <2> HIDE DEF m, Commands
  <2>4. QED
    BY <2>2, <2>3, SendKeeps
<1>2. CASE \E i \in Ids : SendCommand(i)
  <2>1. PICK i \in Ids : SendCommand(i)
    BY <1>2
  <2>2. PICK name \in Offered \ {"halt"}, t \in {0, 1} :
            Send([command |-> name, id |-> i, timeout |-> t])
    BY <2>1 DEF SendCommand
  <2> DEFINE m == [command |-> name, id |-> i, timeout |-> t]
  <2>3. m \in Commands /\ m.command # "start"
    BY ConstantsAssumption
  <2>4. /\ started' = started
        /\ commands' \in 0 .. MaxCommands /\ halted' \in BOOLEAN
    BY <2>1, ConstantsAssumption DEF SendCommand, IInv, Types
  <2>5. Send(m)
    BY <2>2
  <2> HIDE DEF m, Commands
  <2>6. QED
    BY <2>3, <2>4, <2>5, SendKeeps
<1>3. CASE SendHalt
  <2> DEFINE m == [command |-> "halt"]
  <2>1. m \in Commands /\ m.command # "start"
    OBVIOUS
  <2>2. /\ Send(m) /\ started' = started
        /\ commands' \in 0 .. MaxCommands /\ halted' \in BOOLEAN
    BY <1>3, ConstantsAssumption DEF SendHalt, IInv, Types
  <2> HIDE DEF m, Commands
  <2>3. QED
    BY <2>1, <2>2, SendKeeps
<1>4. QED
  BY <1>1, <1>2, <1>3

\* Every step keeps the inductive invariant.
LEMMA NextInv == IInv /\ [Next]_vars => IInv'
<1> SUFFICES ASSUME IInv, [Next]_vars PROVE IInv'
  OBVIOUS
<1>1. CASE Launcher
  BY <1>1, ServeChildrenInv, WriteToDeadInv, ReapInv, doForkInv, stopInv, setInv, writeInv,
     haltInv, NoCommandInv, WriteReportsInv DEF Launcher
<1>2. CASE \E p \in Pids : Ends(p) \/ Killed(p)
  BY <1>2, DiesInv DEF Ends, Killed
<1>3. CASE \E i \in Ids : ProgramWrites(i) \/ TimerExpires(i)
  BY <1>3, ChildStepInv
<1>4. CASE SendHalt \/ \E i \in Ids : SendStart(i) \/ SendCommand(i)
  BY <1>4, SendInv
<1>5. CASE UNCHANGED vars
  <2> USE <1>5 DEF vars, osVars, parentVars, childVars, managerVars
  <2>1. Types'
    BY DEF IInv, Types
  <2>2. canReap' => sigPipe' > 0
    BY DEF IInv
  <2>3. QED
    BY <2>1, <2>2, Frame
<1>6. QED
  BY <1>1, <1>2, <1>3, <1>4, <1>5 DEF Next

(***************************************************************************)
(* Theorems.                                                               *)
(***************************************************************************)

\* The inductive invariant holds in every state of the launcher.
THEOREM Invariance == Spec => []IInv
  BY InitInv, NextInv, PTL DEF Spec

\* Whatever children die, are reaped and are forked meanwhile, m_children has exactly the
\* processes that are not reaped, each under its own id.
THEOREM TablesAlwaysAgree == Spec => []TablesAgree
<1>1. IInv => TypeOK
  <2>1. ASSUME IInv PROVE queued \in [Ids -> Life!Stages]
    <3>1. \A i \in Ids : queued[i] \in Life!Stages
      BY <2>1, QueuedStage DEF IInv, Life!Stages
    <3>2. QED
      BY <3>1 DEF queued
  <2>2. QED
    BY <2>1 DEF IInv, Types, TypeOK
<1>2. IInv => ChildrenTracked
  <2> SUFFICES ASSUME IInv PROVE ChildrenTracked
    OBVIOUS
  <2>1. \A i \in Children : m_children[i] \in Pids /\ os[m_children[i]] # "none"
    BY DEF Children, IInv, Types, Tracked
  <2>2. ASSUME NEW p \in Pids, os[p] # "none"
        PROVE  \E i \in Children : m_children[i] = p
    BY <2>2, ConstantsAssumption DEF IInv, Tracked, Children
  <2>3. QED
    BY <2>1, <2>2 DEF ChildrenTracked, IInv, Tracked
<1>3. QED
  BY <1>1, <1>2, Invariance, PTL DEF TablesAgree

(***************************************************************************)
(* Refinement: what the manager sees of the launcher is RemoteProtocol,    *)
(* step by step.                                                           *)
(***************************************************************************)

\* The launchers of the protocol.
Launchers == [up : BOOLEAN, inbox : Seq(Commands), stage : [Ids -> Life!Stages],
              stopping : SUBSET Ids, out : [Ids -> Seq(Life!Signals)]]

\* One of them, by its attributes.
Launch(up, in, stage, stopping, out) ==
    [up |-> up, inbox |-> in, stage |-> stage, stopping |-> stopping, out |-> out]

Stopping == {i \in Ids : m_state[i] \in {"SentSigTerm", "SentSigKill"}}

\* The launcher of this module.
view == Launch(phase # "gone", inbox, queued, Stopping, m_sendbuf)

\* The protocol's copy of ProcessLifecycle is the one of this module.
LEMMA SameReached == \A g, sigs : Protocol!Life!Reached(g, sigs) = Life!Reached(g, sigs)
  BY DEF Protocol!Life!Reached, Life!Reached

\* Records are equal when their fields are.
LEMMA Fields ==
    /\ \A l \in Launchers : l = Launch(l.up, l.inbox, l.stage, l.stopping, l.out)
    /\ \A l \in Launchers :
          \A x : [l EXCEPT !.inbox = x] = Launch(l.up, x, l.stage, l.stopping, l.out)
    /\ \A l \in Launchers :
          \A x : [l EXCEPT !.up = x] = Launch(x, l.inbox, l.stage, l.stopping, l.out)
    /\ \A l \in Launchers :
          \A x : [l EXCEPT !.stopping = x] = Launch(l.up, l.inbox, l.stage, x, l.out)
    /\ \A l \in Launchers :
          \A x : [l EXCEPT !.out = x] = Launch(l.up, l.inbox, l.stage, l.stopping, x)
  BY DEF Launchers, Launch

\* A report changes the stages, the processes still to be stopped, and the output.
LEMMA ReportEffect ==
    ASSUME NEW l \in Launchers, NEW r,
           NEW reached \in [Ids -> Life!Stages],
           NEW out \in [Ids -> Seq(Life!Signals)],
           \A i \in Ids : reached[i] = Life!Reached(l.stage[i], r[i]),
           \A i \in Ids : out[i] = l.out[i] \o r[i]
    PROVE  Protocol!report(l, r) =
             Launch(l.up, l.inbox, reached, {i \in l.stopping : reached[i] = "up"}, out)
<1> DEFINE q == Protocol!report(l, r)
           stopping == {i \in l.stopping : reached[i] = "up"}
<1>1. reached = [i \in Ids |-> Protocol!Life!Reached(l.stage[i], r[i])]
  BY SameReached
<1>2. out = [i \in Ids |-> l.out[i] \o r[i]]
  OBVIOUS
<1>3. q = [l EXCEPT !.stage = reached, !.stopping = stopping, !.out = out]
  BY <1>1, <1>2, Zenon DEF Protocol!report
<1>4. stopping \in SUBSET Ids
  BY DEF Launchers
<1> HIDE DEF q, stopping
<1>5. q = Launch(l.up, l.inbox, reached, stopping, out)
  BY <1>3, <1>4 DEF Launchers, Launch
<1>6. QED
  BY <1>5 DEF q, stopping

\* The first command is a start: one of the reports a start may bring is made.
LEMMA TakesStart ==
    ASSUME NEW l \in Launchers, l.up, l.inbox # <<>>, Head(l.inbox).command = "start",
           NEW rest, rest = Launch(TRUE, Tail(l.inbox), l.stage, l.stopping, l.out),
           NEW c \in Protocol!StartReports
    PROVE  Protocol!report(rest, [i \in Ids |-> IF i = Head(l.inbox).id THEN c ELSE <<>>])
             \in Protocol!Taken(l)
<1>1. l.up = TRUE
  BY DEF Launchers
<1>2. [l EXCEPT !.inbox = Tail(l.inbox)] = rest
  BY <1>1, Fields
<1>3. Protocol!Taken(l) =
        {Protocol!report(rest, [i \in Ids |-> IF i = Head(l.inbox).id THEN d ELSE <<>>]) :
            d \in Protocol!StartReports}
  BY <1>2, Zenon DEF Protocol!Taken
<1>4. QED
  BY <1>3, Zenon

\* A stop of a process that is up makes it one to be stopped; any other is ignored.
LEMMA TakesStop ==
    ASSUME NEW l \in Launchers, l.up, l.inbox # <<>>, Tail(l.inbox) \in Seq(Commands),
           Head(l.inbox).command = "stop",
           NEW n, n = Launch(TRUE, Tail(l.inbox), l.stage,
                             IF l.stage[Head(l.inbox).id] = "up"
                             THEN l.stopping \cup {Head(l.inbox).id} ELSE l.stopping, l.out)
    PROVE  n \in Protocol!Taken(l)
<1> DEFINE rest == [l EXCEPT !.inbox = Tail(l.inbox)]
<1>1. l.up = TRUE
  BY DEF Launchers
<1>2. rest = Launch(TRUE, Tail(l.inbox), l.stage, l.stopping, l.out)
  BY <1>1, Fields
<1>3. rest \in Launchers /\ rest.stopping = l.stopping
  BY <1>2 DEF Launchers, Launch
<1>4. "stop" # "start" /\ "stop" # "halt"
  OBVIOUS
<1>5. CASE l.stage[Head(l.inbox).id] = "up"
  <2>1. Protocol!Taken(l) = {[rest EXCEPT !.stopping = rest.stopping \cup {Head(l.inbox).id}]}
    BY <1>4, <1>5, Zenon DEF Protocol!Taken
  <2> HIDE DEF rest
  <2>2. [rest EXCEPT !.stopping = rest.stopping \cup {Head(l.inbox).id}] =
          Launch(rest.up, rest.inbox, rest.stage, rest.stopping \cup {Head(l.inbox).id}, rest.out)
    BY <1>3, Fields
  <2>3. rest.up = TRUE /\ rest.inbox = Tail(l.inbox) /\ rest.stage = l.stage /\ rest.out = l.out
    BY <1>2 DEF Launch
  <2>4. QED
    BY <1>3, <1>5, <2>1, <2>2, <2>3, Zenon
<1>6. CASE l.stage[Head(l.inbox).id] # "up"
  <2>1. Protocol!Taken(l) = {rest}
    BY <1>4, <1>6, Zenon DEF Protocol!Taken
  <2>2. QED
    BY <1>2, <1>6, <2>1, Zenon
<1>7. QED
  BY <1>5, <1>6

\* A halt is followed by the exit.
LEMMA TakesHalt ==
    ASSUME NEW l \in Launchers, l.up, l.inbox # <<>>, Tail(l.inbox) \in Seq(Commands),
           Head(l.inbox).command = "halt",
           NEW n, n = Launch(FALSE, Tail(l.inbox), l.stage, l.stopping, l.out)
    PROVE  n \in Protocol!Taken(l)
<1> DEFINE rest == [l EXCEPT !.inbox = Tail(l.inbox)]
<1>1. rest = Launch(l.up, Tail(l.inbox), l.stage, l.stopping, l.out)
  BY Fields
<1>2. /\ rest \in Launchers
      /\ rest.inbox = Tail(l.inbox) /\ rest.stage = l.stage
      /\ rest.stopping = l.stopping /\ rest.out = l.out
  BY <1>1 DEF Launchers, Launch
<1>3. "halt" # "start" /\ "halt" # "stop"
  OBVIOUS
<1>4. Protocol!Taken(l) = {[rest EXCEPT !.up = FALSE]}
  BY <1>3, Zenon DEF Protocol!Taken
<1> HIDE DEF rest
<1>5. [rest EXCEPT !.up = FALSE] =
        Launch(FALSE, rest.inbox, rest.stage, rest.stopping, rest.out)
  BY <1>2, Fields, Zenon
<1>6. QED
  BY <1>2, <1>4, <1>5, Zenon

\* The others change nothing the manager hears of.
LEMMA TakesOther ==
    ASSUME NEW l \in Launchers, l.up, l.inbox # <<>>,
           NEW name \in {"set", "write"}, Head(l.inbox).command = name,
           NEW n, n = Launch(TRUE, Tail(l.inbox), l.stage, l.stopping, l.out)
    PROVE  n \in Protocol!Taken(l)
<1>1. l.up = TRUE
  BY DEF Launchers
<1>2. [l EXCEPT !.inbox = Tail(l.inbox)] = n
  BY <1>1, Fields
<1>3. name # "start" /\ name # "stop" /\ name # "halt"
  OBVIOUS
<1>4. Protocol!Taken(l) = {n}
  BY <1>2, <1>3, Zenon DEF Protocol!Taken
<1>5. QED
  BY <1>4, Zenon

\* The actions of the protocol, of the launcher of this module.
LEMMA ProtocolOfView ==
  /\ Protocol!Next <=> view' # view /\ (Protocol!Send \/ Protocol!Receive \/ Protocol!Works)
  /\ Protocol!Send <=> /\ view'.inbox # <<>>
        /\ view' = [view EXCEPT !.inbox = Append(view.inbox, Protocol!Last(view'.inbox))]
  /\ Protocol!Receive <=> /\ view' = [view EXCEPT !.out = view'.out]
           /\ \A i \in Ids : Protocol!IsSuffix(view'.out[i], view.out[i])
  /\ Protocol!Works <=> IF view'.up THEN view' \in Protocol!Taken(view) \cup Protocol!Reported(view)
         ELSE view' \in Protocol!Taken(view) \cup Protocol!Gone(view)
  /\ Protocol!Init <=> view = Protocol!Fresh
<1> USE DEF view, Launch, Stopping
<1>1. Protocol!Next <=> view' # view /\ (Protocol!Send \/ Protocol!Receive \/ Protocol!Works)
  BY Zenon DEF Protocol!Next
<1>2. Protocol!Send <=> /\ view'.inbox # <<>>
        /\ view' = [view EXCEPT !.inbox = Append(view.inbox, Protocol!Last(view'.inbox))]
  BY Zenon DEF Protocol!Send
<1>3. Protocol!Receive <=> /\ view' = [view EXCEPT !.out = view'.out]
           /\ \A i \in Ids : Protocol!IsSuffix(view'.out[i], view.out[i])
  BY Zenon DEF Protocol!Receive
<1>4. Protocol!Works <=> IF view'.up
                           THEN view' \in Protocol!Taken(view) \cup Protocol!Reported(view)
                           ELSE view' \in Protocol!Taken(view) \cup Protocol!Gone(view)
  BY Zenon DEF Protocol!Works
<1>5. Protocol!Init <=> view = Protocol!Fresh
  BY Zenon DEF Protocol!Init
<1>6. QED
  BY <1>1, <1>2, <1>3, <1>4, <1>5


\* A process is up, with m_sendbuf counted in, exactly while it is in the map.
StageInv ==
    /\ queued \in [Ids -> Life!Stages]
    /\ \A i \in Ids : queued[i] = "up" <=> m_children[i] # None
    /\ \A i \in Stopping : queued[i] = "up"

\* The facts of the invariant that the refinement reads.
LEMMA StageInvHolds == IInv => StageInv
<1> SUFFICES ASSUME IInv PROVE StageInv
  OBVIOUS
<1>1. \A i \in Ids : /\ queued[i] \in {"fresh", "up", "over"}
                     /\ queued[i] = "up" <=> m_children[i] # None
  BY QueuedStage DEF IInv
<1>2. queued \in [Ids -> Life!Stages]
  <2>1. \A i \in Ids : queued[i] \in Life!Stages
    BY <1>1 DEF Life!Stages
  <2>2. QED
    BY <2>1 DEF queued
<1>3. \A i \in Stopping : queued[i] = "up"
  BY <1>1 DEF Stopping, IInv, Tracked
<1>4. QED
  BY <1>1, <1>2, <1>3 DEF StageInv

\* And in the next state.
LEMMA StageInvNext == IInv' => StageInv'
  BY StageInvHolds, PTL

\* The view of a state of the invariant.
LEMMA ViewType ==
    ASSUME IInv
    PROVE  /\ view \in Launchers
           /\ view.up <=> phase # "gone"
           /\ view.inbox = inbox /\ view.stage = queued
           /\ view.stopping = Stopping /\ view.out = m_sendbuf
<1>1. view \in Launchers
  <2>1. Stopping \in SUBSET Ids /\ (phase # "gone") \in BOOLEAN
    BY DEF Stopping
  <2>2. inbox \in Seq(Commands) /\ m_sendbuf \in [Ids -> Seq(Life!Signals)]
    BY DEF IInv, Types
  <2>3. queued \in [Ids -> Life!Stages]
    BY StageInvHolds DEF StageInv
  <2>4. QED
    BY <2>1, <2>2, <2>3 DEF view, Launchers, Launch
<1>2. /\ view.up <=> phase # "gone"
      /\ view.inbox = inbox /\ view.stage = queued
      /\ view.stopping = Stopping /\ view.out = m_sendbuf
  BY DEF view, Launch
<1>3. QED
  BY <1>1, <1>2

\* What the launcher does by itself is a step of the protocol.
LEMMA WorksStep ==
    ASSUME \/ view' \in Protocol!Taken(view)
           \/ view'.up /\ view' \in Protocol!Reported(view)
           \/ ~view'.up /\ view' \in Protocol!Gone(view)
    PROVE  [Protocol!Next]_view
<1>1. Protocol!Works
  BY ProtocolOfView
<1>2. QED
  BY <1>1, ProtocolOfView

\* Most steps the manager does not see.
LEMMA Unseen ==
    ASSUME IInv, IInv', UNCHANGED <<inbox, m_sendbuf, seen>>,
           phase' = "gone" <=> phase = "gone",
           Stopping' = Stopping
    PROVE  view' = view
<1>1. queued' = queued
  BY DEF queued
<1>2. (phase' # "gone") = (phase # "gone")
  OBVIOUS
<1>3. QED
  BY <1>1, <1>2, Zenon DEF view, Launch

\* A fork is a start of the protocol, with its report already queued or not.
LEMMA doForkStep == IInv /\ IInv' /\ doFork => [Protocol!Next]_view
<1> SUFFICES ASSUME IInv, IInv', doFork PROVE [Protocol!Next]_view
  OBVIOUS
<1>1. /\ TakeCommand("start") /\ phase # "gone" /\ phase' # "gone" /\ seen' = seen
      /\ Head(inbox).command = "start"
  BY DEF doFork, TakeCommand, MoreOrEnd
<1>2. PICK i \in Ids : /\ i = Head(inbox).id /\ Untouched(i)
                       /\ inbox # <<>> /\ inbox' = Tail(inbox) /\ inbox' \in Seq(Commands)
  BY <1>1, CommandTaken
<1>3. /\ m_state' = [m_state EXCEPT ![i] = "Running"]
      /\ m_sendbuf' = [m_sendbuf EXCEPT ![i] = @ \o Born]
  BY <1>2 DEF doFork, Born
<1> DEFINE r    == [j \in Ids |-> IF j = i THEN Born ELSE <<>>]
           rest == Launch(TRUE, Tail(inbox), queued, Stopping, m_sendbuf)
<1>4. Stopping' = Stopping
  BY <1>2, <1>3 DEF Stopping, Untouched, IInv, Types, Tracked
<1>5. rest \in Launchers
  BY <1>2, ViewType DEF Launchers, Launch
<1>6. /\ \A j \in Ids : m_sendbuf'[j] = m_sendbuf[j] \o r[j]
      /\ \A j \in Ids : j # i => m_sendbuf'[j] = m_sendbuf[j]
      /\ m_sendbuf'[i] = Born
  <2>1. \A j \in Ids : m_sendbuf[j] \in Seq(Life!Signals)
    BY DEF IInv, Types
  <2>2. m_sendbuf'[i] = m_sendbuf[i] \o Born /\ m_sendbuf[i] = <<>>
    BY <1>2, <1>3 DEF IInv, Types, Untouched
  <2>3. \A j \in Ids : j # i => m_sendbuf'[j] = m_sendbuf[j]
    BY <1>3 DEF IInv, Types
  <2>4. <<>> \o Born = Born
    BY ReportsAreSignals, ConcatEmptySeq
  <2>5. \A j \in Ids : m_sendbuf[j] \o <<>> = m_sendbuf[j]
    BY <2>1, ConcatEmptySeq
  <2>6. QED
    BY <2>2, <2>3, <2>4, <2>5
<1>7. \A j \in Ids : queued'[j] = Life!Reached(queued[j], r[j])
  <2>1. queued'[i] = Life!Reached(queued[i], r[i])
    BY <1>6, ReachedByLife DEF queued
  <2>2. ASSUME NEW j \in Ids, j # i PROVE queued'[j] = Life!Reached(queued[j], r[j])
    <3>1. queued'[j] = queued[j]
      BY <1>1, <1>6, <2>2 DEF queued
    <3>2. r[j] = <<>>
      BY <2>2
    <3>3. QED
      BY <3>1, <3>2, ReachedByLife
  <2>3. QED
    BY <2>1, <2>2
<1> HIDE DEF rest
<1>8. /\ rest.up = TRUE /\ rest.inbox = inbox' /\ rest.stage = queued
      /\ rest.stopping = Stopping /\ rest.out = m_sendbuf
  BY <1>2 DEF rest, Launch
<1>9. Protocol!report(rest, r) =
        Launch(rest.up, rest.inbox, queued', {j \in rest.stopping : queued'[j] = "up"}, m_sendbuf')
  <2>1. queued' \in [Ids -> Life!Stages] /\ m_sendbuf' \in [Ids -> Seq(Life!Signals)]
    BY StageInvNext DEF StageInv, IInv, Types
  <2> HIDE DEF r
  <2>2. QED
    BY <1>5, <1>6, <1>7, <1>8, <2>1, ReportEffect
<1>10. {j \in Stopping : queued'[j] = "up"} = Stopping
  BY <1>4, StageInvNext DEF StageInv
<1>11. view' = Protocol!report(rest, r)
  <2>1. (phase' # "gone") = TRUE
    BY <1>1
  <2>2. view' = Launch(TRUE, inbox', queued', Stopping', m_sendbuf')
    BY <2>1, Zenon DEF view
  <2>3. QED
    BY <1>4, <1>8, <1>9, <1>10, <2>2
<1>12. Protocol!report(rest, r) \in Protocol!Taken(view)
  <2>1. /\ view \in Launchers /\ view.up /\ view.inbox = inbox /\ view.stage = queued
        /\ view.stopping = Stopping /\ view.out = m_sendbuf
    BY <1>1, ViewType
  <2>2. Born \in Protocol!StartReports
    BY DEF Protocol!StartReports, Born
  <2>3. rest = Launch(TRUE, Tail(view.inbox), view.stage, view.stopping, view.out)
    BY <2>1 DEF rest
  <2>4. r = [j \in Ids |-> IF j = Head(view.inbox).id THEN Born ELSE <<>>]
    BY <1>2, <2>1
  <2>5. view.inbox # <<>> /\ Head(view.inbox).command = "start"
    BY <1>1, <1>2, <2>1
  <2> HIDE DEF r
  <2>6. QED
    BY <2>1, <2>2, <2>3, <2>4, <2>5, TakesStart
<1>13. QED
  BY <1>11, <1>12, WorksStep

\* A stop is a stop of the protocol.
LEMMA stopStep == IInv /\ IInv' /\ stop => [Protocol!Next]_view
<1> SUFFICES ASSUME IInv, IInv', stop PROVE [Protocol!Next]_view
  OBVIOUS
<1>1. /\ TakeCommand("stop") /\ phase # "gone" /\ phase' # "gone" /\ seen' = seen
      /\ m_sendbuf' = m_sendbuf /\ Head(inbox).command = "stop"
  BY DEF stop, TakeCommand, MoreOrEnd
<1>2. PICK i \in Ids : /\ i = Head(inbox).id
                       /\ inbox # <<>> /\ inbox' = Tail(inbox) /\ inbox' \in Seq(Commands)
  BY <1>1, CommandTaken
<1>3. IF m_children[i] # None /\ m_state[i] = "Running"
      THEN \E s \in {"SentSigTerm", "SentSigKill"} : m_state' = [m_state EXCEPT ![i] = s]
      ELSE m_state' = m_state
  BY <1>2 DEF stop
<1>4. /\ view \in Launchers /\ view.up /\ view.inbox = inbox /\ view.stage = queued
      /\ view.stopping = Stopping /\ view.out = m_sendbuf
      /\ queued[i] = "up" <=> m_children[i] # None
  BY <1>1, ViewType, StageInvHolds DEF StageInv
<1>5. Stopping' = IF queued[i] = "up" THEN Stopping \cup {i} ELSE Stopping
  <2>1. CASE m_children[i] # None /\ m_state[i] = "Running"
    BY <1>3, <1>4, <2>1 DEF Stopping, IInv, Types
  <2>2. CASE m_children[i] # None /\ m_state[i] # "Running"
    <3>1. i \in Stopping
      BY <2>2 DEF Stopping, IInv, Types, Tracked
    <3>2. Stopping' = Stopping
      BY <1>3, <2>2 DEF Stopping
    <3>3. QED
      BY <1>4, <2>2, <3>1, <3>2
  <2>3. CASE m_children[i] = None
    BY <1>3, <1>4, <2>3 DEF Stopping
  <2>4. QED
    BY <2>1, <2>2, <2>3
<1>6. queued' = queued
  BY <1>1 DEF queued
<1>7. view' = Launch(TRUE, inbox', queued', Stopping', m_sendbuf')
  <2>1. (phase' # "gone") = TRUE
    BY <1>1
  <2>2. QED
    BY <2>1, Zenon DEF view
<1>8. view' = Launch(TRUE, Tail(view.inbox), view.stage,
                     IF view.stage[Head(view.inbox).id] = "up"
                     THEN view.stopping \cup {Head(view.inbox).id} ELSE view.stopping, view.out)
  BY <1>1, <1>2, <1>4, <1>5, <1>6, <1>7
<1>9. view' \in Protocol!Taken(view)
  BY <1>1, <1>2, <1>4, <1>8, TakesStop
<1>10. QED
  BY <1>9, WorksStep

\* set, write and halt.
LEMMA PlainCommandStep == IInv /\ IInv' /\ (set \/ write \/ halt) => [Protocol!Next]_view
<1> SUFFICES ASSUME IInv, IInv', set \/ write \/ halt PROVE [Protocol!Next]_view
  OBVIOUS
<1>1. PICK name \in {"set", "write", "halt"} :
         /\ TakeCommand(name) /\ Head(inbox).command = name
         /\ phase # "gone" /\ seen' = seen /\ m_sendbuf' = m_sendbuf /\ m_state' = m_state
         /\ phase' = "gone" <=> name = "halt"
  <2>1. CASE set
    BY <2>1 DEF set, TakeCommand, MoreOrEnd, childVars
  <2>2. CASE write
    BY <2>2 DEF write, TakeCommand, MoreOrEnd
  <2>3. CASE halt
    BY <2>3 DEF halt, TakeCommand, exit, Exits, childVars
  <2>4. QED
    BY <2>1, <2>2, <2>3
<1>2. inbox # <<>> /\ inbox' = Tail(inbox) /\ inbox' \in Seq(Commands)
  BY <1>1, CommandTaken
<1>3. /\ view \in Launchers /\ view.up /\ view.inbox = inbox /\ view.stage = queued
      /\ view.stopping = Stopping /\ view.out = m_sendbuf
  BY <1>1, ViewType
<1>4. queued' = queued /\ Stopping' = Stopping
  BY <1>1 DEF queued, Stopping
<1>5. CASE name = "halt"
  <2>1. (phase' # "gone") = FALSE
    BY <1>1, <1>5
  <2>2. view' = Launch(FALSE, inbox', queued', Stopping', m_sendbuf')
    BY <2>1, Zenon DEF view
  <2>3. view' = Launch(FALSE, Tail(view.inbox), view.stage, view.stopping, view.out)
    BY <1>1, <1>2, <1>3, <1>4, <2>2
  <2>4. view' \in Protocol!Taken(view)
    BY <1>1, <1>2, <1>3, <1>5, <2>3, TakesHalt
  <2>5. QED
    BY <2>4, WorksStep
<1>6. CASE name # "halt"
  <2>1. (phase' # "gone") = TRUE
    BY <1>1, <1>6
  <2>2. view' = Launch(TRUE, inbox', queued', Stopping', m_sendbuf')
    BY <2>1, Zenon DEF view
  <2>3. view' = Launch(TRUE, Tail(view.inbox), view.stage, view.stopping, view.out)
    BY <1>1, <1>2, <1>3, <1>4, <2>2
  <2>4. view' \in Protocol!Taken(view)
    BY <1>1, <1>2, <1>3, <1>6, <2>3, TakesOther
  <2>5. QED
    BY <2>4, WorksStep
<1>7. QED
  BY <1>5, <1>6

\* The reports of a reaping all go to m_sendbuf at once.
LEMMA ReapStep == IInv /\ IInv' /\ Reap => [Protocol!Next]_view
<1> SUFFICES ASSUME IInv, IInv', Reap PROVE [Protocol!Next]_view
  OBVIOUS
<1>1. inbox' = inbox /\ seen' = seen /\ phase # "gone" /\ phase' # "gone"
  BY DEF Reap, managerVars
<1>2. CASE ~canReap
  <2>1. UNCHANGED <<m_sendbuf, m_state>>
    BY <1>2 DEF Reap, childVars
  <2>2. QED
    BY <1>1, <2>1, Unseen DEF Stopping
<1>3. CASE canReap
  <2> DEFINE dead == {i \in Children : m_children[i] \in reaped}
             r == [i \in Ids |-> IF i \in dead THEN Epitaph(m_children[i]) ELSE <<>>]
  <2>1. /\ m_sendbuf' = [i \in Ids |-> IF i \in dead THEN m_sendbuf[i] \o Epitaph(m_children[i])
                                       ELSE m_sendbuf[i]]
        /\ m_state' = [i \in Ids |-> IF i \in dead THEN "NotRunning" ELSE m_state[i]]
        /\ m_children' = [i \in Ids |-> IF i \in dead THEN None ELSE m_children[i]]
    BY <1>3, Zenon DEF Reap, waitForChildren, forget
  <2>2. \A i \in dead : /\ i \in Ids /\ m_children[i] # None
                        /\ Epitaph(m_children[i]) \in Epitaphs
    BY EpitaphOfDead DEF Children, reaped
  <2> HIDE DEF dead
  <2>3. \A i \in Ids : m_sendbuf'[i] = m_sendbuf[i] \o r[i]
    <3>1. \A i \in Ids : m_sendbuf[i] \in Seq(Life!Signals)
      BY DEF IInv, Types
    <3>2. \A i \in Ids : m_sendbuf[i] \o <<>> = m_sendbuf[i]
      BY <3>1, ConcatEmptySeq
    <3>3. ASSUME NEW i \in Ids, i \in dead PROVE m_sendbuf'[i] = m_sendbuf[i] \o r[i]
      BY <2>1, <3>3, Zenon
    <3>4. ASSUME NEW i \in Ids, i \notin dead PROVE m_sendbuf'[i] = m_sendbuf[i] \o r[i]
      <4>1. m_sendbuf'[i] = m_sendbuf[i] /\ r[i] = <<>>
        BY <2>1, <3>4, Zenon
      <4>2. QED
        BY <3>2, <4>1
    <3>5. QED
      BY <3>3, <3>4
  <2>4. ASSUME NEW i \in Ids
        PROVE  /\ queued'[i] = Life!Reached(queued[i], r[i])
               /\ queued'[i] = "up" <=> queued[i] = "up" /\ i \notin dead
               /\ r[i] = <<>> \/ (queued[i] = "up" /\ r[i] \in Epitaphs)
    <3>1. CASE i \in dead
      <4>1. r[i] \in Epitaphs /\ m_children[i] # None
        BY <2>2, <3>1
      <4>2. queued[i] = "up"
        BY <4>1, StageInvHolds DEF StageInv
      <4>3. Life!Reached(queued[i], r[i]) = "over"
        BY <4>1, ReachedByLife
      <4>4. \/ m_sendbuf[i] = Born /\ m_sendbuf'[i] = Born \o r[i]
            \/ m_sendbuf[i] = <<>> /\ m_sendbuf'[i] = r[i]
        <5>1. \/ m_sendbuf[i] = Born
              \/ m_sendbuf[i] = <<>>
          BY <4>1 DEF IInv, Reported, Untouched
        <5>2. r[i] \in Seq(Life!Signals)
          BY <4>1, ReportsAreSignals
        <5> HIDE DEF r
        <5>3. <<>> \o r[i] = r[i]
          BY <5>2, ConcatEmptySeq
        <5>4. QED
          BY <2>3, <5>1, <5>3
      <4>5. queued'[i] = Life!Reached(seen'[i], m_sendbuf'[i])
        BY DEF queued
      <4> HIDE DEF r
      <4>6. queued'[i] = "over"
        <5>1. \A g : /\ Life!Reached(g, r[i]) = "over"
                     /\ Life!Reached(g, Born \o r[i]) = "over"
          BY <4>1, ReachedByLife, Zenon
        <5>2. QED
          BY <4>4, <4>5, <5>1, Zenon
      <4>7. QED
        BY <3>1, <4>1, <4>2, <4>3, <4>6
    <3>2. CASE i \notin dead
      <4>1. m_sendbuf'[i] = m_sendbuf[i] /\ r[i] = <<>>
        BY <2>1, <3>2, Zenon
      <4>2. queued'[i] = queued[i]
        BY <1>1, <4>1 DEF queued
      <4>3. QED
        BY <3>2, <4>1, <4>2, ReachedByLife
    <3>3. QED
      BY <3>1, <3>2
  <2>5. Stopping' = {i \in Stopping : queued'[i] = "up"}
    <3>1. \A i \in Ids : m_state'[i] = IF i \in dead THEN "NotRunning" ELSE m_state[i]
      BY <2>1
    <3>2. \A i \in Stopping : i \in Ids /\ queued[i] = "up"
      BY StageInvHolds DEF StageInv, Stopping
    <3>3. QED
      BY <2>4, <3>1, <3>2 DEF Stopping
  <2> HIDE DEF r
  <2>6. /\ view \in Launchers /\ view.up /\ view.inbox = inbox /\ view.stage = queued
        /\ view.stopping = Stopping /\ view.out = m_sendbuf
    BY <1>1, ViewType
  <2>7. Protocol!report(view, r) =
          Launch(view.up, view.inbox, queued', {i \in view.stopping : queued'[i] = "up"},
                 m_sendbuf')
    <3>1. queued' \in [Ids -> Life!Stages] /\ m_sendbuf' \in [Ids -> Seq(Life!Signals)]
      BY StageInvNext DEF StageInv, IInv, Types
    <3>2. /\ \A i \in Ids : queued'[i] = Life!Reached(view.stage[i], r[i])
          /\ \A i \in Ids : m_sendbuf'[i] = view.out[i] \o r[i]
      BY <2>3, <2>4, <2>6
    <3>3. QED
      <4>1. view \in Launchers
        BY <2>6
      <4>2. ASSUME NEW l \in Launchers, NEW stage, NEW out,
                   stage \in [Ids -> Life!Stages], out \in [Ids -> Seq(Life!Signals)],
                   \A i \in Ids : stage[i] = Life!Reached(l.stage[i], r[i]),
                   \A i \in Ids : out[i] = l.out[i] \o r[i]
            PROVE  Protocol!report(l, r) =
                     Launch(l.up, l.inbox, stage, {i \in l.stopping : stage[i] = "up"}, out)
        BY <4>2, ReportEffect
      <4>3. QED
        BY <3>1, <3>2, <4>1, <4>2, Zenon
  <2>8. view' = Protocol!report(view, r) /\ view'.up
    <3>1. (phase' # "gone") = TRUE /\ view.up = TRUE
      BY <1>1, <2>6 DEF Launchers
    <3>2. view' = Launch(TRUE, inbox', queued', Stopping', m_sendbuf')
      BY <3>1, Zenon DEF view
    <3>3. view'.up
      BY <3>2 DEF Launch
    <3>4. QED
      BY <1>1, <2>5, <2>6, <2>7, <3>1, <3>2, <3>3
  <2>9. r \in Protocol!Selections([i \in Ids |-> Protocol!Reports(view.stage[i])])
    <3> DEFINE S == [i \in Ids |-> Protocol!Reports(view.stage[i])]
    <3>1. \A i \in Ids : r[i] \in S[i]
      <4>1. \A g : <<>> \in Protocol!Reports(g)
        BY DEF Protocol!Reports
      <4>2. Epitaphs \subseteq Protocol!Reports("up")
        BY DEF Protocol!Reports, Epitaphs
      <4>3. QED
        BY <2>4, <2>6, <4>1, <4>2
    <3>2. r = [i \in Ids |-> r[i]]
      BY DEF r
    <3> HIDE DEF S
    <3>3. r \in [Ids -> UNION {S[i] : i \in Ids}]
      BY <3>1, <3>2
    <3>4. QED
      BY <3>1, <3>3 DEF Protocol!Selections, S
  <2>10. CASE view' = view
    BY <2>10
  <2>11. CASE view' # view
    <3>1. view' \in Protocol!Reported(view)
      <4>1. Protocol!report(view, r) \in Protocol!Reported(view)
        BY <2>6, <2>8, <2>9, <2>11, Zenon DEF Protocol!Reported
      <4>2. QED
        BY <2>8, <4>1
    <3>2. QED
      BY <2>8, <3>1, WorksStep
  <2>12. QED
    BY <2>10, <2>11
<1>4. QED
  BY <1>2, <1>3

\* The launcher dies of a SIGPIPE with its reports.
LEMMA WriteToDeadStep == IInv /\ IInv' /\ WriteToDead => [Protocol!Next]_view
<1> SUFFICES ASSUME IInv, IInv', WriteToDead PROVE [Protocol!Next]_view
  OBVIOUS
<1>1. /\ phase # "gone" /\ phase' = "gone"
      /\ UNCHANGED <<inbox, m_sendbuf, seen, m_state>>
  BY DEF WriteToDead, exit, Exits, childVars, managerVars
<1>2. /\ view \in Launchers /\ view.up /\ view.inbox = inbox /\ view.stage = queued
      /\ view.stopping = Stopping /\ view.out = m_sendbuf
  BY <1>1, ViewType
<1>3. queued' = queued /\ Stopping' = Stopping
  BY <1>1 DEF queued, Stopping
<1>4. view' = Launch(FALSE, view.inbox, view.stage, view.stopping, view.out) /\ ~view'.up
  <2>1. (phase' # "gone") = FALSE
    BY <1>1
  <2>2. view' = Launch(FALSE, inbox', queued', Stopping', m_sendbuf')
    BY <2>1, Zenon DEF view
  <2>3. ~view'.up
    BY <2>2 DEF Launch
  <2>4. QED
    BY <1>1, <1>2, <1>3, <2>2, <2>3
<1>5. view' = [view EXCEPT !.up = FALSE, !.out = m_sendbuf]
  <2> DEFINE n == [view EXCEPT !.up = FALSE, !.out = m_sendbuf]
  <2>1. m_sendbuf \in [Ids -> Seq(Life!Signals)]
    BY DEF IInv, Types
  <2>2. n = [view EXCEPT !.up = FALSE, !.out = m_sendbuf]
    OBVIOUS
  <2> HIDE DEF n
  <2>3. n = Launch(FALSE, view.inbox, view.stage, view.stopping, m_sendbuf)
    BY <1>2, <2>1, <2>2 DEF Launchers, Launch
  <2>4. n = view'
    BY <1>2, <1>4, <2>3
  <2>5. QED
    BY <2>2, <2>4, Zenon
<1>6. m_sendbuf \in Protocol!Selections([i \in Ids |-> Protocol!Prefixes(view.out[i])])
  <2> DEFINE S == [i \in Ids |-> Protocol!Prefixes(view.out[i])]
  <2>1. ASSUME NEW i \in Ids PROVE m_sendbuf[i] \in S[i]
    <3>1. m_sendbuf[i] \in Seq(Life!Signals)
      BY DEF IInv, Types
    <3>2. Len(m_sendbuf[i]) \in 0 .. Len(m_sendbuf[i])
          /\ SubSeq(m_sendbuf[i], 1, Len(m_sendbuf[i])) = m_sendbuf[i]
      BY <3>1, LenProperties, SubSeqFull
    <3>3. m_sendbuf[i] \in Protocol!Prefixes(m_sendbuf[i])
      BY <3>2 DEF Protocol!Prefixes
    <3>4. QED
      BY <1>2, <3>3
  <2>2. m_sendbuf = [i \in Ids |-> m_sendbuf[i]]
    BY DEF IInv, Types
  <2> HIDE DEF S
  <2>3. m_sendbuf \in [Ids -> UNION {S[i] : i \in Ids}]
    BY <2>1, <2>2
  <2>4. QED
    BY <2>1, <2>3 DEF Protocol!Selections, S
<1>7. view' \in Protocol!Gone(view)
  <2>1. [view EXCEPT !.up = FALSE, !.out = m_sendbuf] \in Protocol!Gone(view)
    BY <1>2, <1>6, Zenon DEF Protocol!Gone
  <2>2. QED
    BY <1>5, <2>1
<1>8. QED
  BY <1>4, <1>7, WorksStep

\* What is written is received.
LEMMA WriteReportsStep == IInv /\ IInv' /\ WriteReports => [Protocol!Next]_view
<1> SUFFICES ASSUME IInv, IInv', WriteReports PROVE [Protocol!Next]_view
  OBVIOUS
<1>1. phase # "gone" /\ phase' # "gone" /\ UNCHANGED <<inbox, m_state>>
  BY DEF WriteReports, childVars, managerVars
<1>2. Stopping' = Stopping
  BY <1>1 DEF Stopping
<1>3. CASE ~canWrite
  BY <1>1, <1>2, <1>3, Unseen DEF WriteReports
<1>4. CASE canWrite
  <2>1. seen' = queued /\ m_sendbuf' = [i \in Ids |-> <<>>]
    BY <1>4 DEF WriteReports
  <2>2. queued' = queued
    <3>1. \A i \in Ids : queued'[i] = queued[i]
      BY <2>1, ReachedByLife DEF queued
    <3>2. queued' = [i \in Ids |-> queued'[i]] /\ queued = [i \in Ids |-> queued[i]]
      BY DEF queued
    <3>3. QED
      BY <3>1, <3>2
  <2>3. /\ view \in Launchers /\ view.up /\ view.inbox = inbox /\ view.stage = queued
        /\ view.stopping = Stopping /\ view.out = m_sendbuf
    BY <1>1, ViewType
  <2>4. view' = Launch(view.up, view.inbox, view.stage, view.stopping, m_sendbuf')
    <3>1. (phase' # "gone") = TRUE /\ view.up = TRUE
      BY <1>1, <2>3 DEF Launchers
    <3>2. view' = Launch(TRUE, inbox', queued', Stopping', m_sendbuf')
      BY <3>1, Zenon DEF view
    <3>3. QED
      BY <1>1, <1>2, <2>2, <2>3, <3>1, <3>2
  <2>5. view'.out = m_sendbuf'
    BY <2>4 DEF Launch
  <2>6. view' = [view EXCEPT !.out = view'.out]
    <3>1. [view EXCEPT !.out = m_sendbuf'] =
            Launch(view.up, view.inbox, view.stage, view.stopping, m_sendbuf')
      BY <2>3, Fields, Zenon
    <3>2. QED
      BY <2>4, <2>5, <3>1, Zenon
  <2>7. ASSUME NEW i \in Ids PROVE Protocol!IsSuffix(view'.out[i], view.out[i])
    <3>1. view'.out[i] = <<>>
      BY <2>1, <2>5
    <3>2. Protocol!Reverse(<<>>) = <<>>
      BY DEF Protocol!Reverse
    <3>3. \A s : SubSeq(s, 1, 0) = <<>>
      BY SubSeqEmpty
    <3>4. view.out[i] \in Seq(Life!Signals)
      BY <2>3 DEF IInv, Types
    <3>5. Len(Protocol!Reverse(view.out[i])) \in Nat
      BY <3>4, LenProperties DEF Protocol!Reverse
    <3>6. Len(<<>>) = 0
      OBVIOUS
    <3>7. QED
      BY <3>1, <3>2, <3>3, <3>5, <3>6 DEF Protocol!IsSuffix, Protocol!IsPrefix
  <2>8. Protocol!Receive
    BY <2>6, <2>7, ProtocolOfView
  <2>9. QED
    BY <2>8, ProtocolOfView
<1>5. QED
  BY <1>3, <1>4

\* A command is appended to the inbox.
LEMMA SendStep ==
    ASSUME IInv, IInv', NEW m \in Commands, Send(m)
    PROVE  [Protocol!Next]_view
<1>1. /\ inbox' = Append(inbox, m)
      /\ UNCHANGED <<phase, m_sendbuf, seen, m_state>>
  BY DEF Send, parentVars, childVars
<1>2. queued' = queued /\ Stopping' = Stopping
  BY <1>1 DEF queued, Stopping
<1>3. /\ view \in Launchers /\ view.inbox = inbox /\ view.stage = queued
      /\ view.stopping = Stopping /\ view.out = m_sendbuf
  BY ViewType
<1>4. view' = Launch(view.up, Append(inbox, m), view.stage, view.stopping, view.out)
  <2>1. (phase' # "gone") = view.up
    BY <1>1 DEF view, Launch
  <2>2. view' = Launch(view.up, inbox', queued', Stopping', m_sendbuf')
    BY <2>1, Zenon DEF view
  <2>3. QED
    BY <1>1, <1>2, <1>3, <2>2
<1>5. view'.inbox = Append(inbox, m)
  BY <1>4 DEF Launch
<1>6. Append(inbox, m) # <<>> /\ Protocol!Last(Append(inbox, m)) = m
  <2>1. inbox \in Seq(Commands)
    BY DEF IInv, Types
  <2>2. QED
    BY <2>1, AppendProperties DEF Protocol!Last
<1>7. view' = [view EXCEPT !.inbox = Append(view.inbox, Protocol!Last(view'.inbox))]
  <2>1. Append(view.inbox, Protocol!Last(view'.inbox)) = Append(inbox, m)
    BY <1>3, <1>5, <1>6
  <2>2. [view EXCEPT !.inbox = Append(inbox, m)] =
          Launch(view.up, Append(inbox, m), view.stage, view.stopping, view.out)
    BY <1>3, Fields, Zenon
  <2>3. QED
    BY <1>4, <2>1, <2>2, Zenon
<1>8. Protocol!Send
  BY <1>5, <1>6, <1>7, ProtocolOfView
<1>9. QED
  BY <1>8, ProtocolOfView

\* The steps the manager does not see: service of the children, an empty inbox, and
\* what the children and the clock do.
LEMMA UnseenStep ==
    ASSUME IInv, IInv',
           \/ ServeChildren \/ NoCommand \/ UNCHANGED vars
           \/ \E p \in Pids : Ends(p) \/ Killed(p)
           \/ \E i \in Ids : ProgramWrites(i) \/ TimerExpires(i)
    PROVE  view' = view
<1> USE DEF osVars, parentVars, childVars, managerVars
<1>1. /\ UNCHANGED <<inbox, m_sendbuf, seen>>
      /\ phase' = "gone" <=> phase = "gone"
  BY DEF ServeChildren, NoCommand, vars, Ends, Killed, Dies, ProgramWrites, TimerExpires
<1>2. Stopping' = Stopping
  <2>1. CASE ServeChildren
    <3>1. \A i \in Ids : m_state'[i] = IF i \in Overdue THEN "SentSigKill" ELSE m_state[i]
      BY <2>1 DEF ServeChildren
    <3>2. \A i \in Overdue : m_state[i] = "SentSigTerm"
      BY DEF Overdue
    <3>3. QED
      BY <3>1, <3>2 DEF Stopping
  <2>2. CASE \/ NoCommand \/ UNCHANGED vars
             \/ \E p \in Pids : Ends(p) \/ Killed(p)
             \/ \E i \in Ids : ProgramWrites(i) \/ TimerExpires(i)
    <3>1. m_state' = m_state
      BY <2>2 DEF NoCommand, vars, Ends, Killed, Dies, ProgramWrites, TimerExpires
    <3>2. QED
      BY <3>1 DEF Stopping
  <2>3. QED
    BY <2>1, <2>2
<1>3. QED
  BY <1>1, <1>2, Unseen

\* Every step of the launcher is one of the protocol, or none that the manager can see.
LEMMA NextStep == IInv /\ IInv' /\ [Next]_vars => [Protocol!Next]_view
<1> SUFFICES ASSUME IInv, IInv', [Next]_vars PROVE [Protocol!Next]_view
  OBVIOUS
<1>1. CASE \/ ServeChildren \/ NoCommand \/ UNCHANGED vars
           \/ \E p \in Pids : Ends(p) \/ Killed(p)
           \/ \E i \in Ids : ProgramWrites(i) \/ TimerExpires(i)
  BY <1>1, UnseenStep
<1>2. CASE WriteToDead \/ Reap \/ WriteReports \/ doFork \/ stop \/ set \/ write \/ halt
  BY <1>2, WriteToDeadStep, ReapStep, WriteReportsStep, doForkStep, stopStep, PlainCommandStep
<1>3. CASE SendHalt \/ \E i \in Ids : SendStart(i) \/ SendCommand(i)
  <2>1. PICK m \in Commands : Send(m)
    <3>1. CASE SendHalt
      BY <3>1 DEF SendHalt, Commands
    <3>2. CASE \E i \in Ids : SendStart(i)
      BY <3>2 DEF SendStart, Commands
    <3>3. CASE \E i \in Ids : SendCommand(i)
      <4>1. PICK i \in Ids : SendCommand(i)
        BY <3>3
      <4>2. PICK name \in Offered \ {"halt"}, t \in {0, 1} :
                Send([command |-> name, id |-> i, timeout |-> t])
        BY <4>1 DEF SendCommand
      <4>3. [command |-> name, id |-> i, timeout |-> t] \in Commands
        BY ConstantsAssumption DEF Commands
      <4>4. QED
        BY <4>2, <4>3
    <3>4. QED
      BY <1>3, <3>1, <3>2, <3>3
  <2>2. QED
    BY <2>1, SendStep
<1>4. QED
  BY <1>1, <1>2, <1>3 DEF Next, Launcher

\* The fork launcher is the launcher that RemoteProtocol promises to a remote backend, at
\* every step: no signal, order or loss that the protocol does not have.
THEOREM Implements == Spec => FollowsProtocol
<1>1. Init => Protocol!Init
  <2> SUFFICES ASSUME Init PROVE Protocol!Init
    OBVIOUS
  <2>1. /\ (phase # "gone") = TRUE /\ inbox = <<>>
        /\ m_sendbuf = [i \in Ids |-> <<>>] /\ Stopping = {}
    BY DEF Init, NewChildren, Stopping
  <2>2. queued = [i \in Ids |-> "fresh"]
    BY ReachedByLife DEF Init, queued
  <2>3. view = Launch(TRUE, <<>>, [i \in Ids |-> "fresh"], {}, [i \in Ids |-> <<>>])
    BY <2>1, <2>2, Zenon DEF view
  <2>4. view = Protocol!Fresh
    BY <2>3 DEF Protocol!Fresh, Launch
  <2>5. QED
    BY <2>4, ProtocolOfView
<1>2. IInv /\ [Next]_vars => [Protocol!Next]_view
  BY NextInv, NextStep
<1>3. QED
  BY <1>1, <1>2, Invariance, PTL
     DEF FollowsProtocol, Protocol!Safe, Spec, view, Launch, Stopping
=============================================================================
