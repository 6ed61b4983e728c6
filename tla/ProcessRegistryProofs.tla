----------------------- MODULE ProcessRegistryProofs -----------------------
(***************************************************************************)
(* Proofs about ProcessRegistry for any number of frontends, starts and    *)
(* changes of priority, and every set of pids, identifiers and priorities. *)
(***************************************************************************)
EXTENDS ProcessRegistry, SequenceTheorems, WellFoundedInduction, TLAPS

(***************************************************************************)
(* The inductive invariant.                                                *)
(***************************************************************************)

Commands == [cmd : {"start", "set"}, id : Frontends, value : Priorities]
Events == [event : {"started", "finished"}, id : Frontends, pid : Pids \cup {0}]

\* The type invariant in parts; pid is a function, too.
ListTypes ==
    /\ m_processlist \in Seq(Frontends) /\ backend_count \in 0 .. MaxCreated
    /\ dying \in Seq(Frontends) /\ ended \in Frontends \cup {None}
    /\ destroyed \subseteq Frontends
RecordTypes ==
    /\ identifier \in [Frontends -> Identifiers \cup {""}]
    /\ remote \in [Frontends -> BOOLEAN]
    /\ state \in [Frontends -> {"NotRunning", "Running"}]
    /\ created \in [Frontends -> BOOLEAN] /\ unsent \in [Frontends -> BOOLEAN]
PidTypes ==
    /\ pid \in [Frontends -> Pids \cup {0, Unknown}]
    /\ \A f \in Frontends : pid[f] \in Pids \cup {IF remote[f] THEN Unknown ELSE 0}
    /\ proc \in [Frontends -> Pids \cup {0}]
PriorityTypes ==
    /\ desired \in [Frontends -> Priorities]
    /\ nice \in [Frontends -> Priorities]
    /\ fate \in [Frontends -> {"set", "refused", "strayed"}]
    /\ asked \in [Frontends -> Priorities]
PipeTypes == commands \in Seq(Commands) /\ events \in Seq(Events)
CallTypes == starts \in 0 .. MaxStarts /\ sets \in 0 .. MaxSets

\* The pipe is about processes behind the launcher, and a start comes with a pid.
Messages ==
    /\ \A k \in DOMAIN commands : remote[commands[k].id]
    /\ \A k \in DOMAIN events : /\ remote[events[k].id]
                                /\ events[k].event = "started" => events[k].pid \in Pids

\* Frontends are dying or destroyed once, and after they were created.
Numbered ==
    /\ destroyed \subseteq 1 .. backend_count
    /\ \A k \in DOMAIN dying : dying[k] \in (1 .. backend_count) \ destroyed
    /\ \A j, k \in DOMAIN dying : dying[j] = dying[k] => j = k
Uncreated == \A f \in Frontends : f > backend_count => ~remote[f] /\ proc[f] = 0

\* A signal carries the name of a frontend in the list, which is alive or is being deleted.
Announced ==
    announced # NoName =>
        \E k \in DOMAIN m_processlist : /\ announced = name(m_processlist[k])
                                        /\ m_processlist[k] \in Living \/ DestructionAnnounced

\* The frontend whose QProcess is emitting is alive, and the process is no more.
Ending == ended # None =>
    ended \in Living /\ ~remote[ended] /\ created[ended] /\ proc[ended] = 0

\* A pid has one owner, and a local backend knows its own, and another only while its
\* QProcess tells of the end.
Local(f) == ~remote[f] =>
    /\ pid[f] = proc[f] \/ (f = ended /\ proc[f] = 0)
    /\ proc[f] # 0 => created[f] /\ (nice[f] = desired[f] \/ fate[f] # "set")
Owned ==
    /\ \A f, g \in Frontends : proc[f] # 0 /\ proc[f] = proc[g] => f = g
    /\ \A f \in Frontends : Local(f)

\* Message k of queue q is the last about f.
About(c, f) == c.id = f
IsLast(q, f, k) == /\ k \in DOMAIN q /\ q[k].id = f
                   /\ \A j \in DOMAIN q : q[j].id = f => j <= k
NoneFor(q, f) == \A k \in DOMAIN q : q[k].id # f

\* The last command to the launcher about f, or what came of it, is what was asked for.
Wished(f) ==
    /\ asked[f] = desired[f]
    /\ remote[f] =>
          /\ pid[f] = Unknown =>
                \A k \in DOMAIN commands : commands[k].id = f => commands[k].cmd # "set"
          /\ proc[f] # 0 /\ NoneFor(commands, f) =>
                nice[f] = desired[f] \/ unsent[f] \/ fate[f] # "set"
          /\ \A k \in DOMAIN commands : IsLast(commands, f, k) =>
                commands[k].value = desired[f] \/ unsent[f]

\* The last news of f, or what its backend made of them, is the pid of its process.
Known(f) ==
    remote[f] /\ f \in Living /\ proc[f] # 0 =>
       /\ NoneFor(events, f) => pid[f] = proc[f]
       /\ \A k \in DOMAIN events : IsLast(events, f, k) =>
             events[k].event = "started" /\ events[k].pid = proc[f]

IInv ==
    /\ ListTypes /\ RecordTypes /\ PidTypes /\ PriorityTypes /\ PipeTypes /\ CallTypes
    /\ Messages /\ Numbered /\ Uncreated
    /\ ListIsLiving /\ Announced
    /\ Ending /\ Owned
    /\ \A f \in Frontends : Wished(f) /\ Known(f)

(***************************************************************************)
(* Lists and queues.                                                       *)
(***************************************************************************)

\* A set of natural numbers has a least one.
LEMMA Least == ASSUME NEW S \in SUBSET Nat, S # {} PROVE \E m \in S : \A n \in S : m <= n
<1> DEFINE R == OpToRel(<, Nat)
<1>1. IsWellFoundedOn(R, Nat)
  BY NatLessThanWellFounded
<1>2. PICK m \in S : \A n \in S : ~(<<n, m>> \in R)
  <2> HIDE DEF R
  <2>1. QED
    BY <1>1, WFMin
<1>3. \A n \in S : ~(n < m)
  BY <1>2 DEF OpToRel
<1>4. QED
  BY <1>3

\* SelectInSeq finds an entry if there is one.
LEMMA Found ==
    ASSUME NEW S, NEW s \in Seq(S), NEW those
    PROVE  LET i == SelectInSeq(s, LAMBDA f : f \in those) IN
           /\ i # 0 => i \in DOMAIN s /\ s[i] \in those
           /\ i = 0 => \A k \in DOMAIN s : s[k] \notin those
<1> DEFINE I == {k \in 1 .. Len(s) : s[k] \in those}
           i == SelectInSeq(s, LAMBDA f : f \in those)
<1>1. i = IF I # {} THEN Min(I) ELSE 0
  BY DEF SelectInSeq
<1>2. Len(s) \in Nat /\ DOMAIN s = 1 .. Len(s)
  BY LenProperties
<1>3. I \in SUBSET Nat
  BY <1>2
<1>4. I # {} => Min(I) \in I
  <2> SUFFICES ASSUME I # {} PROVE Min(I) \in I
    OBVIOUS
  <2> HIDE DEF I
  <2>1. \E m \in I : \A n \in I : m <= n
    BY <1>3, Least
  <2>2. QED
    BY <2>1 DEF Min
<1>5. CASE I # {}
  <2>1. i \in I
    BY <1>1, <1>4, <1>5
  <2>2. i \in 1 .. Len(s) /\ s[i] \in those
    BY <2>1
  <2> HIDE DEF i
  <2>3. i # 0
    BY <1>2, <2>2
  <2>4. QED
    BY <1>2, <2>2, <2>3 DEF i
<1>6. CASE I = {}
  <2>1. i = 0
    BY <1>1, <1>6
  <2>2. \A k \in 1 .. Len(s) : s[k] \notin those
    BY <1>6
  <2> HIDE DEF i
  <2>3. QED
    BY <1>2, <2>1, <2>2 DEF i
<1>7. QED
  BY <1>5, <1>6

\* The search of a lookup: the first of these frontends is one of them, in the list.
LEMMA FirstFound ==
    ASSUME m_processlist \in Seq(Nat \ {None}), NEW those
    PROVE  /\ FirstOf(those) # None =>
                 FirstOf(those) \in those /\ FirstOf(those) \in ToSet(m_processlist)
           /\ FirstOf(those) = None => \A f \in ToSet(m_processlist) : f \notin those
<1> DEFINE i == SelectInSeq(m_processlist, LAMBDA f : f \in those)
<1>1. /\ i # 0 => i \in DOMAIN m_processlist /\ m_processlist[i] \in those
      /\ i = 0 => \A k \in DOMAIN m_processlist : m_processlist[k] \notin those
  BY Found
<1>2. FirstOf(those) = IF i = 0 THEN None ELSE m_processlist[i]
  BY DEF FirstOf
<1> HIDE DEF i
<1>3. CASE i = 0
  BY <1>1, <1>2, <1>3 DEF ToSet
<1>4. CASE i # 0
  <2>1. FirstOf(those) = m_processlist[i] /\ i \in DOMAIN m_processlist
        /\ m_processlist[i] \in those
    BY <1>1, <1>2, <1>4
  <2>2. FirstOf(those) \in ToSet(m_processlist)
    BY <2>1 DEF ToSet
  <2>3. FirstOf(those) # None
    BY <2>1, ElementOfSeq, LenProperties
  <2>4. QED
    BY <2>1, <2>2, <2>3
<1>5. QED
  BY <1>3, <1>4

\* The list is in order of creation.
Ordered(s) == \A i, j \in DOMAIN s : i < j => s[i] < s[j]

\* RemoveFirst takes an entry out of an ordered list and leaves the others in order.
LEMMA RemovedOne ==
    ASSUME NEW S \in SUBSET Nat, NEW s \in Seq(S), Ordered(s), NEW f \in ToSet(s)
    PROVE  LET t == RemoveFirst(s, f) IN
           t \in Seq(S) /\ Ordered(t) /\ ToSet(t) = ToSet(s) \ {f}
<1> DEFINE t == RemoveFirst(s, f)
           n == Len(s)
<1>1. n \in Nat /\ DOMAIN s = 1 .. n /\ \A k \in 1 .. n : s[k] \in S
  BY LenProperties, ElementOfSeq
<1>2. \E k \in 1 .. n : s[k] = f
  BY <1>1 DEF ToSet
<1> DEFINE those == {f}
           m == SelectInSeq(s, LAMBDA g : g = f)
           I == {k \in 1 .. Len(s) : s[k] = f}
<1>3. m \in 1 .. n /\ s[m] = f
  <2>1. m = IF I # {} THEN Min(I) ELSE 0
    BY DEF SelectInSeq
  <2>2. I \in SUBSET Nat /\ I # {}
    BY <1>1, <1>2
  <2>3. Min(I) \in I
    <3> HIDE DEF I
    <3>1. \E x \in I : \A y \in I : x <= y
      BY <2>2, Least
    <3>2. QED
      BY <3>1 DEF Min
  <2>4. QED
    BY <2>1, <2>2, <2>3
<1>4. t = SubSeq(s, 1, m - 1) \o SubSeq(s, m + 1, n)
  <2>1. t = RemoveAt(s, m)
    BY <1>2 DEF RemoveFirst
  <2> HIDE DEF t, m
  <2>2. QED
    BY <2>1 DEF RemoveAt
<1> HIDE DEF t, m, n
<1> DEFINE a == SubSeq(s, 1, m - 1)
           b == SubSeq(s, m + 1, n)
<1>5. /\ a \in Seq(S) /\ Len(a) = m - 1
      /\ \A k \in 1 .. m - 1 : a[k] = s[k]
  <2>1. \A k \in 1 .. m - 1 : s[k] \in S
    BY <1>1, <1>3
  <2>2. /\ 1 \in Int /\ m - 1 \in Int
        /\ Len(a) = IF 1 <= m - 1 THEN m - 1 - 1 + 1 ELSE 0
        /\ a \in Seq(S)
        /\ \A k \in 1 .. m - 1 - 1 + 1 : a[k] = s[1 + k - 1]
    BY <1>1, <1>3, <2>1, SubSeqProperties
  <2> HIDE DEF a
  <2>3. QED
    BY <1>1, <1>3, <2>2
<1>6. /\ b \in Seq(S) /\ Len(b) = n - m
      /\ \A k \in 1 .. n - m : b[k] = s[m + k]
  <2>1. \A k \in m + 1 .. n : s[k] \in S
    BY <1>1, <1>3
  <2>2. /\ m + 1 \in Int /\ n \in Int
        /\ Len(b) = IF m + 1 <= n THEN n - (m + 1) + 1 ELSE 0
        /\ b \in Seq(S)
        /\ \A k \in 1 .. n - (m + 1) + 1 : b[k] = s[m + 1 + k - 1]
    BY <1>1, <1>3, <2>1, SubSeqProperties
  <2> HIDE DEF b
  <2>3. QED
    BY <1>1, <1>3, <2>2
<1> HIDE DEF a, b
<1>7. /\ t \in Seq(S) /\ Len(t) = n - 1
      /\ \A k \in 1 .. n - 1 : t[k] = IF k < m THEN s[k] ELSE s[k + 1]
  <2>1. /\ t \in Seq(S) /\ Len(t) = (m - 1) + (n - m)
        /\ \A k \in 1 .. (m - 1) + (n - m) :
              t[k] = IF k <= m - 1 THEN a[k] ELSE b[k - (m - 1)]
    BY <1>4, <1>5, <1>6, ConcatProperties DEF a, b
  <2>2. Len(t) = n - 1
    BY <1>1, <1>3, <2>1
  <2>3. ASSUME NEW k \in 1 .. n - 1
        PROVE  t[k] = IF k < m THEN s[k] ELSE s[k + 1]
    <3>1. k \in 1 .. (m - 1) + (n - m) /\ (k < m <=> k <= m - 1)
      BY <1>1, <1>3
    <3>2. CASE k < m
      BY <1>1, <1>3, <1>5, <2>1, <3>1, <3>2
    <3>3. CASE ~(k < m)
      <4>1. t[k] = b[k - (m - 1)]
        BY <2>1, <3>1, <3>3
      <4>2. k - (m - 1) \in 1 .. n - m /\ m + (k - (m - 1)) = k + 1
        BY <1>1, <1>3, <3>3
      <4>3. b[k - (m - 1)] = s[m + (k - (m - 1))]
        BY <1>6, <4>2
      <4>4. QED
        BY <3>3, <4>1, <4>2, <4>3
    <3>4. QED
      BY <3>2, <3>3
  <2>4. QED
    BY <2>1, <2>2, <2>3
<1>8. DOMAIN t = 1 .. n - 1
  BY <1>7, LenProperties
<1>9. Ordered(t)
  <2> SUFFICES ASSUME NEW i \in 1 .. n - 1, NEW j \in 1 .. n - 1, i < j
               PROVE  t[i] < t[j]
    BY <1>8 DEF Ordered
  <2> DEFINE x == IF i < m THEN i ELSE i + 1
             y == IF j < m THEN j ELSE j + 1
  <2>1. t[i] = s[x] /\ t[j] = s[y]
    BY <1>7
  <2>2. x \in 1 .. n /\ y \in 1 .. n /\ x < y
    BY <1>1, <1>3
  <2>3. s[x] < s[y]
    BY <1>1, <2>2 DEF Ordered
  <2>4. QED
    BY <2>1, <2>3
<1>10. ToSet(t) = ToSet(s) \ {f}
  <2>1. ASSUME NEW k \in 1 .. n - 1 PROVE t[k] \in ToSet(s) \ {f}
    <3> DEFINE x == IF k < m THEN k ELSE k + 1
    <3>1. t[k] = s[x] /\ x \in 1 .. n /\ x # m
      BY <1>1, <1>3, <1>7
    <3> HIDE DEF x
    <3>2. s[x] # s[m]
      <4>1. /\ x < m => s[x] < s[m]
            /\ m < x => s[m] < s[x]
        BY <1>1, <1>3, <3>1 DEF Ordered
      <4>2. s[x] \in Nat /\ s[m] \in Nat
        BY <1>1, <1>3, <3>1
      <4>3. QED
        BY <1>1, <1>3, <3>1, <4>1, <4>2
    <3>3. QED
      BY <1>1, <1>3, <3>1, <3>2 DEF ToSet
  <2>2. ASSUME NEW g \in ToSet(s), g # f PROVE g \in ToSet(t)
    <3>1. PICK k \in 1 .. n : s[k] = g
      BY <1>1 DEF ToSet
    <3> DEFINE x == IF k < m THEN k ELSE k - 1
    <3>2. k # m
      BY <1>3, <2>2, <3>1
    <3>3. x \in 1 .. n - 1 /\ (IF x < m THEN x ELSE x + 1) = k
      BY <1>1, <1>3, <3>2
    <3> HIDE DEF x
    <3>4. t[x] = g
      BY <1>7, <3>1, <3>3
    <3>5. QED
      BY <1>8, <3>3, <3>4 DEF ToSet
  <2>3. QED
    BY <1>8, <2>1, <2>2 DEF ToSet
<1>11. QED
  BY <1>7, <1>9, <1>10 DEF t

\* The messages, when one more comes.
LEMMA EntriesOfAppend ==
    ASSUME NEW S, NEW q \in Seq(S), NEW c \in S, NEW r \in Seq(S), r = Append(q, c)
    PROVE  \A k \in DOMAIN r : r[k] = c \/ (k \in DOMAIN q /\ r[k] = q[k])
<1>1. /\ Len(r) = Len(q) + 1
      /\ \A k \in 1 .. Len(q) : r[k] = q[k]
      /\ r[Len(q) + 1] = c
  BY AppendProperties
<1>2. Len(q) \in Nat /\ DOMAIN q = 1 .. Len(q) /\ DOMAIN r = 1 .. Len(q) + 1
  BY <1>1, LenProperties
<1>3. QED
  BY <1>1, <1>2

\* None is about f if the new one is not and there was none before.
LEMMA NoneOfAppend ==
    ASSUME NEW S, NEW q \in Seq(S), NEW c \in S, NEW f, NEW r \in Seq(S), r = Append(q, c)
    PROVE  NoneFor(r, f) => NoneFor(q, f) /\ ~About(c, f)
<1>1. /\ Len(r) = Len(q) + 1
      /\ \A k \in 1 .. Len(q) : r[k] = q[k]
      /\ r[Len(q) + 1] = c
  BY AppendProperties
<1>2. Len(q) \in Nat /\ DOMAIN q = 1 .. Len(q) /\ DOMAIN r = 1 .. Len(q) + 1
  BY <1>1, LenProperties
<1>3. QED
  BY <1>1, <1>2 DEF NoneFor, About

\* The last about f is the new one,
LEMMA LastIsNew ==
    ASSUME NEW S, NEW q \in Seq(S), NEW c \in S, NEW f, NEW r \in Seq(S), r = Append(q, c),
           About(c, f), NEW k \in DOMAIN r, IsLast(r, f, k)
    PROVE  k = Len(q) + 1
<1>1. /\ Len(r) = Len(q) + 1
      /\ r[Len(q) + 1] = c
  BY AppendProperties
<1>2. Len(q) \in Nat /\ DOMAIN r = 1 .. Len(q) + 1
  BY <1>1, LenProperties
<1>3. Len(q) + 1 <= k
  BY <1>1, <1>2 DEF IsLast, About
<1>4. QED
  BY <1>2, <1>3

\* or the one that was last before.
LEMMA LastIsOld ==
    ASSUME NEW S, NEW q \in Seq(S), NEW c \in S, NEW f, NEW r \in Seq(S), r = Append(q, c),
           ~About(c, f)
    PROVE  \A k \in DOMAIN r : IsLast(r, f, k) => k \in DOMAIN q /\ IsLast(q, f, k)
<1>1. /\ Len(r) = Len(q) + 1
      /\ \A k \in 1 .. Len(q) : r[k] = q[k]
      /\ r[Len(q) + 1] = c
  BY AppendProperties
<1>2. Len(q) \in Nat /\ DOMAIN q = 1 .. Len(q) /\ DOMAIN r = 1 .. Len(q) + 1
  BY <1>1, LenProperties
<1>3. ASSUME NEW k \in DOMAIN r, IsLast(r, f, k) PROVE k \in DOMAIN q /\ IsLast(q, f, k)
  <2>1. r[k].id = f /\ \A j \in DOMAIN r : r[j].id = f => j <= k
    BY <1>3 DEF IsLast
  <2>2. k # Len(q) + 1
    BY <1>1, <2>1 DEF About
  <2>3. k \in 1 .. Len(q)
    BY <1>2, <1>3, <2>2
  <2>4. \A j \in 1 .. Len(q) : q[j].id = f => j <= k
    BY <1>1, <1>2, <2>1
  <2>5. QED
    BY <1>1, <1>2, <2>1, <2>3, <2>4 DEF IsLast
<1>4. QED
  BY <1>3

\* And when the first one is taken.
LEMMA LastOfTail ==
    ASSUME NEW S, NEW q \in Seq(S), q # <<>>, NEW f
    PROVE  /\ \A k \in DOMAIN Tail(q) : k + 1 \in DOMAIN q /\ Tail(q)[k] = q[k + 1]
           /\ Head(q) = q[1] /\ 1 \in DOMAIN q
           /\ NoneFor(Tail(q), f) => NoneFor(q, f) \/ IsLast(q, f, 1)
           /\ \A k \in DOMAIN Tail(q) : IsLast(Tail(q), f, k) =>
                 IsLast(q, f, k + 1) /\ Tail(q)[k] = q[k + 1]
<1> DEFINE t == Tail(q)
           n == Len(t)
<1>1. /\ t \in Seq(S) /\ Len(t) = Len(q) - 1 /\ Head(q) = q[1]
      /\ \A k \in 1 .. Len(t) : t[k] = q[k + 1]
  BY HeadTailProperties
<1>2. n \in Nat /\ DOMAIN t = 1 .. n
  BY <1>1, LenProperties
<1>3. Len(q) = n + 1 /\ DOMAIN q = 1 .. n + 1
  <2>1. Len(q) \in Nat /\ DOMAIN q = 1 .. Len(q)
    BY LenProperties
  <2>2. QED
    BY <1>1, <2>1
<1>4. \A k \in 1 .. n : t[k] = q[k + 1]
  BY <1>1
<1>5. Head(q) = q[1]
  BY <1>1
<1> HIDE DEF t, n
<1>6. \A k \in DOMAIN t : k + 1 \in DOMAIN q /\ t[k] = q[k + 1]
  BY <1>2, <1>3, <1>4
<1>7. \A j \in 2 .. n + 1 : j - 1 \in 1 .. n /\ q[j] = t[j - 1]
  BY <1>2, <1>4
<1>8. NoneFor(t, f) => NoneFor(q, f) \/ IsLast(q, f, 1)
  <2> SUFFICES ASSUME NoneFor(t, f), ~NoneFor(q, f) PROVE IsLast(q, f, 1)
    OBVIOUS
  <2>1. \A j \in 2 .. n + 1 : q[j].id # f
    BY <1>2, <1>7 DEF NoneFor
  <2>2. \A j \in 1 .. n + 1 : q[j].id = f => j = 1
    BY <1>2, <2>1
  <2>3. q[1].id = f
    BY <1>3, <2>2 DEF NoneFor
  <2>4. QED
    BY <1>2, <1>3, <2>2, <2>3 DEF IsLast
<1>9. ASSUME NEW k \in DOMAIN t, IsLast(t, f, k)
      PROVE  IsLast(q, f, k + 1) /\ t[k] = q[k + 1]
  <2>1. k \in 1 .. n /\ t[k].id = f /\ \A j \in 1 .. n : t[j].id = f => j <= k
    BY <1>2, <1>9 DEF IsLast
  <2>2. k + 1 \in 1 .. n + 1 /\ q[k + 1].id = f /\ t[k] = q[k + 1]
    BY <1>2, <1>4, <2>1
  <2>3. ASSUME NEW j \in 1 .. n + 1, q[j].id = f PROVE j <= k + 1
    <3>1. CASE j = 1
      BY <1>2, <2>1, <3>1
    <3>2. CASE j # 1
      <4>1. j \in 2 .. n + 1
        BY <1>2, <3>2
      <4>2. j - 1 <= k
        BY <1>7, <2>1, <2>3, <4>1
      <4>3. QED
        BY <1>2, <2>1, <4>2
    <3>3. QED
      BY <3>1, <3>2
  <2>4. QED
    BY <1>3, <2>2, <2>3 DEF IsLast
<1>10. 1 \in DOMAIN q
  BY <1>2, <1>3
<1> DEFINE C(x) == /\ \A k \in DOMAIN x : k + 1 \in DOMAIN q /\ x[k] = q[k + 1]
                   /\ NoneFor(x, f) => NoneFor(q, f) \/ IsLast(q, f, 1)
                   /\ \A k \in DOMAIN x : IsLast(x, f, k) => IsLast(q, f, k + 1) /\ x[k] = q[k + 1]
<1>11. C(t)
  BY <1>6, <1>8, <1>9
<1>12. C(Tail(q))
  BY <1>11, Zenon DEF t
<1>13. QED
  BY <1>5, <1>10, <1>12

(***************************************************************************)
(* Types.                                                                  *)
(***************************************************************************)

\* The invariant gives the types, since announced names are those of listed frontends.
LEMMA Types == IInv => TypeOK
<1> SUFFICES ASSUME IInv PROVE TypeOK
  OBVIOUS
<1>1. announced \in {NoName} \cup {name(f) : f \in Frontends}
  <2>1. m_processlist \in Seq(Frontends)
    BY DEF IInv, ListTypes
  <2>2. CASE announced = NoName
    BY <2>2
  <2>3. CASE announced # NoName
    <3>1. PICK k \in DOMAIN m_processlist : announced = name(m_processlist[k])
      <4>1. Announced
        BY DEF IInv
      <4>2. QED
        BY <2>3, <4>1, Zenon DEF Announced
    <3>2. m_processlist[k] \in Frontends
      BY <2>1, <3>1, ElementOfSeq, LenProperties
    <3>3. QED
      BY <3>1, <3>2
  <2>4. QED
    BY <2>2, <2>3
<1>2. QED
  BY <1>1 DEF IInv, TypeOK, ListTypes, RecordTypes, PidTypes, PriorityTypes, PipeTypes,
              CallTypes, Commands, Events

\* The living are in the list, and are frontends that have been created.
LEMMA LivingFacts ==
    ASSUME ListTypes, ListIsLiving, NEW f \in Living
    PROVE  /\ f \in Frontends /\ f \in 1 .. backend_count
           /\ f \in ToSet(m_processlist)
<1>1. f \in (1 .. backend_count) \ destroyed
  BY DEF Living
<1>2. f \in Frontends
  BY <1>1, RegistryAssumption DEF ListTypes, Frontends
<1>3. QED
  BY <1>1, <1>2 DEF ListIsLiving

\* Messages are about frontends behind the launcher, which have been created.
LEMMA PipeFacts ==
    ASSUME PipeTypes, Messages, Uncreated, ListTypes
    PROVE  /\ \A k \in DOMAIN commands : /\ commands[k] \in Commands
                                         /\ commands[k].id \in Frontends
                                         /\ remote[commands[k].id]
                                         /\ commands[k].id \in 1 .. backend_count
           /\ \A k \in DOMAIN events : /\ events[k] \in Events
                                       /\ events[k].id \in Frontends
                                       /\ remote[events[k].id]
                                       /\ events[k].id \in 1 .. backend_count
                                       /\ events[k].event = "started" => events[k].pid \in Pids
<1>1. backend_count \in Nat /\ Frontends \subseteq Nat \ {0}
  BY RegistryAssumption DEF ListTypes, Frontends
<1>2. \A g \in Frontends : remote[g] => g \in 1 .. backend_count
  BY <1>1 DEF Uncreated
<1>3. ASSUME NEW k \in DOMAIN commands
      PROVE  /\ commands[k] \in Commands /\ commands[k].id \in Frontends
             /\ remote[commands[k].id] /\ commands[k].id \in 1 .. backend_count
  <2>1. commands[k] \in Commands
    BY <1>3, ElementOfSeq, LenProperties DEF PipeTypes
  <2>2. commands[k].id \in Frontends
    BY <2>1 DEF Commands
  <2>3. remote[commands[k].id]
    BY <1>3 DEF Messages
  <2>4. QED
    BY <1>2, <2>1, <2>2, <2>3
<1>4. ASSUME NEW k \in DOMAIN events
      PROVE  /\ events[k] \in Events /\ events[k].id \in Frontends
             /\ remote[events[k].id] /\ events[k].id \in 1 .. backend_count
             /\ events[k].event = "started" => events[k].pid \in Pids
  <2>1. events[k] \in Events
    BY <1>4, ElementOfSeq, LenProperties DEF PipeTypes
  <2>2. events[k].id \in Frontends
    BY <2>1 DEF Events
  <2>3. remote[events[k].id] /\ (events[k].event = "started" => events[k].pid \in Pids)
    BY <1>4 DEF Messages
  <2>4. events[k].id \in 1 .. backend_count
    BY <1>2, <2>2, <2>3
  <2>5. QED
    BY <2>1, <2>2, <2>3, <2>4
<1>5. QED
  BY <1>3, <1>4

\* The first message of a queue is like the others.
LEMMA HeadFacts ==
    ASSUME PipeTypes, Messages, Uncreated, ListTypes
    PROVE  /\ commands # <<>> =>
                 /\ Head(commands) \in Commands /\ Head(commands).id \in Frontends
                 /\ remote[Head(commands).id] /\ Head(commands).id \in 1 .. backend_count
                 /\ Head(commands).value \in Priorities
           /\ events # <<>> =>
                 /\ Head(events) \in Events /\ Head(events).id \in Frontends
                 /\ remote[Head(events).id] /\ Head(events).id \in 1 .. backend_count
                 /\ Head(events).event = "started" => Head(events).pid \in Pids
<1>1. ASSUME commands # <<>> PROVE Head(commands) = commands[1] /\ 1 \in DOMAIN commands
  BY <1>1, LastOfTail DEF PipeTypes
<1>2. ASSUME events # <<>> PROVE Head(events) = events[1] /\ 1 \in DOMAIN events
  BY <1>2, LastOfTail DEF PipeTypes
<1>3. ASSUME commands # <<>>
      PROVE  /\ Head(commands) \in Commands /\ Head(commands).id \in Frontends
             /\ remote[Head(commands).id] /\ Head(commands).id \in 1 .. backend_count
             /\ Head(commands).value \in Priorities
  <2>1. /\ Head(commands) \in Commands /\ Head(commands).id \in Frontends
        /\ remote[Head(commands).id] /\ Head(commands).id \in 1 .. backend_count
    BY <1>1, <1>3, PipeFacts
  <2>2. QED
    BY <2>1 DEF Commands
<1>4. ASSUME events # <<>>
      PROVE  /\ Head(events) \in Events /\ Head(events).id \in Frontends
             /\ remote[Head(events).id] /\ Head(events).id \in 1 .. backend_count
             /\ Head(events).event = "started" => Head(events).pid \in Pids
  BY <1>2, <1>4, PipeFacts
<1>5. QED
  BY <1>3, <1>4

\* A step leaves the flags of every frontend flags.
LEMMA NextRecordTypes == ASSUME IInv, [Next]_vars PROVE RecordTypes'
<1>0. RecordTypes
  BY DEF IInv
<1>1. ASSUME NEW i \in Identifiers, NEW r \in BOOLEAN, create(i, r) PROVE RecordTypes'
  <2> DEFINE f == backend_count + 1
  <2>1. /\ identifier' = [identifier EXCEPT ![f] = i]
        /\ remote' = [remote EXCEPT ![f] = r]
        /\ UNCHANGED <<state, created, unsent>>
    BY <1>1 DEF create, newBackend, newRemoteBackend, client
  <2> HIDE DEF f
  <2>2. QED
    BY <1>0, <2>1 DEF RecordTypes
<1>2. ASSUME NEW f \in Frontends, start(f) PROVE RecordTypes'
  <2>1. UNCHANGED <<identifier, remote>>
    BY <1>2 DEF start, record
  <2>2. state' \in [Frontends -> {"NotRunning", "Running"}]
    BY <1>0, <1>2 DEF start, RecordTypes
  <2>3. created' = created \/ created' = [created EXCEPT ![f] = TRUE]
    BY <1>2 DEF start
  <2>4. unsent' = unsent \/ unsent' = [unsent EXCEPT ![f] = FALSE]
    BY <1>2 DEF start
  <2>5. QED
    BY <1>0, <2>1, <2>2, <2>3, <2>4 DEF RecordTypes
<1>3. ASSUME NEW f \in Frontends, Delete(f) PROVE RecordTypes'
  BY <1>0, <1>3 DEF Delete, RecordTypes, backend, record, client
<1>4. ASSUME NEW f \in Frontends, Reaped(f) \/ CrashNoticed(f) \/ Finished(f)
      PROVE  RecordTypes'
  <2>1. /\ UNCHANGED <<identifier, remote, created, unsent>>
        /\ state' = state \/ state' = [state EXCEPT ![f] = "NotRunning"]
    BY <1>4 DEF Reaped, CrashNoticed, Finished, NotRunning, record, client
  <2>2. QED
    BY <1>0, <2>1 DEF RecordTypes
<1>5. ASSUME NEW f \in Frontends, LauncherReaps(f) PROVE RecordTypes'
  BY <1>0, <1>5 DEF LauncherReaps, RecordTypes, backend, record, client
<1>6. ASSUME NEW f \in Frontends, NEW v \in Priorities, setPriority(f, v) PROVE RecordTypes'
  <2> DEFINE b == pid[f] = Unknown /\ (~Answered(f) \/ proc[f] # 0)
  <2>1. UNCHANGED <<identifier, remote, state, created>>
    BY <1>6 DEF setPriority, record
  <2>2. unsent' = unsent \/ unsent' = [unsent EXCEPT ![f] = b]
    BY <1>6, Zenon DEF setPriority, setDesiredRemote, setDesiredLocal
  <2>3. b \in BOOLEAN
    OBVIOUS
  <2> HIDE DEF b
  <2>4. QED
    BY <1>0, <2>1, <2>2, <2>3 DEF RecordTypes
<1>7. ASSUME processFrontendDestroyed PROVE RecordTypes'
  BY <1>0, <1>7 DEF processFrontendDestroyed, RecordTypes, record
<1>8. ASSUME LauncherReads PROVE RecordTypes'
  BY <1>0, <1>8 DEF LauncherReads, RecordTypes, backend, record, client
<1>9. ASSUME receive PROVE RecordTypes'
  <2>1. UNCHANGED <<identifier, remote, created, unsent>>
    BY <1>9 DEF receive, record, client
  <2>2. state' \in [Frontends -> {"NotRunning", "Running"}]
    BY <1>0, <1>9 DEF receive, RecordTypes
  <2>3. QED
    BY <1>0, <2>1, <2>2 DEF RecordTypes
<1>10. CASE UNCHANGED vars
  BY <1>0, <1>10 DEF vars, RecordTypes, backend, record, client
<1>11. QED
  BY <1>1, <1>2, <1>3, <1>4, <1>5, <1>6, <1>7, <1>8, <1>9, <1>10 DEF Next

\* A call under a pid either leaves the priority of h as it was and was meant to be, or is
\* known not to have set it, or
Unmoved(h) == fate'[h] = "set" => nice'[h] = nice[h] /\ fate[h] = "set"
\* sets it, or is known not to have.
Moved(h, v) == fate'[h] = "set" => nice'[h] = v
MovedTypes == /\ nice' \in [Frontends -> Priorities]
              /\ fate' \in [Frontends -> {"set", "refused", "strayed"}]

\* A new process has the priority it asks for, or that was refused.
LEMMA BornEffect ==
    ASSUME PriorityTypes, NEW f \in Frontends, NEW v \in Priorities, born(f, v)
    PROVE  MovedTypes /\ Moved(f, v) /\ \A h \in Frontends : h # f => Unmoved(h)
<1>1. CASE nice' = [nice EXCEPT ![f] = v] /\ fate' = [fate EXCEPT ![f] = "set"]
  BY <1>1 DEF PriorityTypes, MovedTypes, Moved, Unmoved
<1>2. CASE nice' = [nice EXCEPT ![f] = 0] /\ fate' = [fate EXCEPT ![f] = "refused"]
  BY <1>2, RegistryAssumption DEF PriorityTypes, MovedTypes, Moved, Unmoved
<1>3. QED
  BY <1>1, <1>2 DEF born

\* setpriority() reaches f if f has the pid, and nobody else unnoticed.
LEMMA SetEffect ==
    ASSUME PriorityTypes, NEW f \in Frontends, NEW p, NEW v \in Priorities,
           setpriority(f, p, v)
    PROVE  /\ MovedTypes
           /\ Has(f, p) => Moved(f, v)
           /\ ~Has(f, p) => Unmoved(f)
           /\ \A h \in Frontends : h # f => Unmoved(h)
<1>1. CASE /\ nice' = [g \in Frontends |-> IF Has(g, p) THEN v ELSE nice[g]]
           /\ fate' = [g \in Frontends |-> IF ~Has(g, p) THEN fate[g]
                                           ELSE IF g = f THEN "set" ELSE "strayed"]
  BY <1>1 DEF PriorityTypes, MovedTypes, Moved, Unmoved
<1>2. CASE /\ nice' = nice
           /\ fate' = [g \in Frontends |-> IF Has(g, p) /\ g = f THEN "refused" ELSE fate[g]]
  BY <1>2 DEF PriorityTypes, MovedTypes, Moved, Unmoved
<1>3. QED
  BY <1>1, <1>2 DEF setpriority

\* A step leaves every priority one that a client may ask for, and counts calls to their
\* bounds.
LEMMA NextPriorityTypes == ASSUME IInv, [Next]_vars PROVE PriorityTypes' /\ CallTypes'
<1>0. PriorityTypes /\ CallTypes /\ MaxStarts \in Nat /\ MaxSets \in Nat
  BY RegistryAssumption DEF IInv
<1> DEFINE Goal == PriorityTypes' /\ CallTypes'
<1>1. ASSUME NEW i \in Identifiers, NEW r \in BOOLEAN, create(i, r) PROVE Goal
  BY <1>0, <1>1 DEF create, PriorityTypes, CallTypes, kernel, priority, client, calls
<1>2. ASSUME NEW f \in Frontends, start(f) PROVE Goal
  <2>1. UNCHANGED <<desired, asked>> /\ CallTypes'
    BY <1>0, <1>2 DEF start, CallTypes
  <2>2. UNCHANGED <<nice, fate>> \/ born(f, desired[f])
    BY <1>2 DEF start, kernel, priority
  <2>3. born(f, desired[f]) => MovedTypes
    BY <1>0, BornEffect DEF PriorityTypes
  <2>4. QED
    BY <1>0, <2>1, <2>2, <2>3 DEF PriorityTypes, MovedTypes
<1>3. ASSUME NEW f \in Frontends, Delete(f) PROVE Goal
  BY <1>0, <1>3 DEF Delete, PriorityTypes, CallTypes, backend, kernel, priority, client, calls
<1>4. ASSUME NEW f \in Frontends, Reaped(f) \/ CrashNoticed(f) \/ Finished(f) PROVE Goal
  BY <1>0, <1>4 DEF Reaped, CrashNoticed, Finished, PriorityTypes, CallTypes, kernel, priority,
                    client, calls
<1>5. ASSUME NEW f \in Frontends, LauncherReaps(f) PROVE Goal
  BY <1>0, <1>5 DEF LauncherReaps, PriorityTypes, CallTypes, backend, priority, client, calls
<1>6. ASSUME NEW f \in Frontends, NEW v \in Priorities, setPriority(f, v) PROVE Goal
  <2>1. CallTypes' /\ asked' = [asked EXCEPT ![f] = v]
    BY <1>0, <1>6 DEF setPriority, CallTypes
  <2>2. desired' = desired \/ desired' = [desired EXCEPT ![f] = v]
    BY <1>6 DEF setPriority, setDesiredLocal, setDesiredRemote, setDesired
  <2>3. UNCHANGED <<nice, fate>> \/ setpriority(f, pid[f], v)
    BY <1>6 DEF setPriority, setDesiredLocal, setDesiredRemote, priority
  <2>4. setpriority(f, pid[f], v) => MovedTypes
    BY <1>0, SetEffect
  <2>5. QED
    BY <1>0, <2>1, <2>2, <2>3, <2>4 DEF PriorityTypes, MovedTypes
<1>7. ASSUME processFrontendDestroyed PROVE Goal
  BY <1>0, <1>7 DEF processFrontendDestroyed, PriorityTypes, CallTypes, priority, calls
<1>8. ASSUME LauncherReads PROVE Goal
  <2> DEFINE c == Head(commands)
  <2>1. c.value \in Priorities /\ c.id \in Frontends
    BY <1>8, HeadFacts DEF IInv, LauncherReads
  <2>2. born(c.id, c.value) \/ setpriority(c.id, proc[c.id], c.value)
    BY <1>8 DEF LauncherReads, LauncherStarts, LauncherSets
  <2>3. UNCHANGED <<desired, asked, starts, sets>>
    BY <1>8 DEF LauncherReads, backend, client, calls
  <2> HIDE DEF c
  <2>4. MovedTypes
    BY <1>0, <2>1, <2>2, BornEffect, SetEffect
  <2>5. QED
    BY <1>0, <2>3, <2>4 DEF PriorityTypes, CallTypes, MovedTypes
<1>9. ASSUME receive PROVE Goal
  BY <1>0, <1>9 DEF receive, PriorityTypes, CallTypes, kernel, priority, client, calls
<1>10. CASE UNCHANGED vars
  BY <1>0, <1>10 DEF vars, PriorityTypes, CallTypes, backend, kernel, priority, client, calls
<1>11. QED
  BY <1>1, <1>2, <1>3, <1>4, <1>5, <1>6, <1>7, <1>8, <1>9, <1>10 DEF Next

\* A pid that is free belongs to the kernel and to nobody.
LEMMA FreeFacts ==
    ASSUME NEW p \in FreePids
    PROVE  p \in Pids /\ p \in Nat /\ p # 0 /\ p # Unknown /\ \A f \in Frontends : proc[f] # p
BY RegistryAssumption DEF FreePids, Unknown

\* What start() does to the pids.
LEMMA StartEffect ==
    ASSUME NEW f \in Frontends, start(f)
    PROVE  \/ UNCHANGED <<proc, pid, nice, fate, created>>
           \/ /\ ~remote[f] /\ ~created[f] /\ born(f, desired[f])
              /\ created' = [created EXCEPT ![f] = TRUE]
              /\ \E p \in FreePids : proc' = [proc EXCEPT ![f] = p] /\ pid' = [pid EXCEPT ![f] = p]
<1>1. CASE remote[f]
  BY <1>1 DEF start, kernel, priority
<1>2. CASE ~remote[f]
  <2>1. CASE created[f]
    BY <1>2, <2>1 DEF start, kernel, priority
  <2>2. CASE ~created[f]
    BY <1>2, <2>2 DEF start
  <2>3. QED
    BY <2>1, <2>2
<1>3. QED
  BY <1>1, <1>2

\* What the launcher does with a command.
LEMMA ReadEffect ==
    ASSUME LauncherReads
    PROVE  LET c == Head(commands) IN
           /\ commands # <<>> /\ commands' = Tail(commands)
           /\ UNCHANGED <<manager, backend, client>> /\ Quiet
           /\ \/ \E p \in FreePids :
                    /\ proc' = [proc EXCEPT ![c.id] = p]
                    /\ events' = Append(events, [event |-> "started", id |-> c.id, pid |-> p])
                    /\ born(c.id, c.value)
              \/ /\ UNCHANGED <<proc, events>>
                 /\ setpriority(c.id, proc[c.id], c.value)
BY DEF LauncherReads, LauncherStarts, LauncherSets

\* A step leaves every pid one of the kernel's or the placeholder of the kind of backend.
LEMMA NextPidTypes == ASSUME IInv, [Next]_vars PROVE PidTypes'
<1>0. /\ PidTypes /\ remote \in [Frontends -> BOOLEAN] /\ backend_count \in Nat
      /\ 0 \notin Pids /\ Unknown \notin Pids
  <2>1. 0 \notin Pids /\ Unknown \notin Pids
    BY RegistryAssumption DEF Unknown
  <2>2. backend_count \in Nat
    BY RegistryAssumption DEF IInv, ListTypes
  <2>3. QED
    BY <2>1, <2>2 DEF IInv, RecordTypes
<1>1. ASSUME NEW i \in Identifiers, NEW r \in BOOLEAN, create(i, r) PROVE PidTypes'
  <2> DEFINE f == backend_count + 1
  <2>1. /\ remote' = [remote EXCEPT ![f] = r]
        /\ pid' = [pid EXCEPT ![f] = IF r THEN Unknown ELSE 0]
        /\ UNCHANGED proc
    BY <1>1 DEF create, newBackend, newRemoteBackend, kernel
  <2> HIDE DEF f
  <2>2. QED
    BY <1>0, <2>1 DEF PidTypes
<1>2. ASSUME NEW f \in Frontends, start(f) PROVE PidTypes'
  <2>1. UNCHANGED remote
    BY <1>2 DEF start, record
  <2>2. CASE UNCHANGED <<proc, pid>>
    BY <1>0, <2>1, <2>2 DEF PidTypes
  <2>3. CASE \E p \in FreePids : proc' = [proc EXCEPT ![f] = p] /\ pid' = [pid EXCEPT ![f] = p]
    <3>1. PICK p \in FreePids : proc' = [proc EXCEPT ![f] = p] /\ pid' = [pid EXCEPT ![f] = p]
      BY <2>3
    <3>2. p \in Pids
      BY FreeFacts
    <3>3. QED
      BY <1>0, <2>1, <3>1, <3>2 DEF PidTypes
  <2>4. QED
    BY <1>2, <2>2, <2>3, StartEffect
<1>3. ASSUME NEW f \in Frontends, Delete(f) PROVE PidTypes'
  BY <1>0, <1>3 DEF Delete, PidTypes, backend, record, kernel
<1>4. ASSUME NEW f \in Frontends, Reaped(f) PROVE PidTypes'
  <2>1. proc' = [proc EXCEPT ![f] = 0] /\ UNCHANGED <<pid, remote>>
    BY <1>4 DEF Reaped, record
  <2>2. QED
    BY <1>0, <2>1 DEF PidTypes
<1>12. ASSUME NEW f \in Frontends, CrashNoticed(f) PROVE PidTypes'
  BY <1>0, <1>12 DEF CrashNoticed, PidTypes, record, kernel
<1>13. ASSUME NEW f \in Frontends, Finished(f) PROVE PidTypes'
  <2>1. pid' = [pid EXCEPT ![f] = 0] /\ UNCHANGED <<proc, remote>> /\ ~remote[f]
    BY <1>13 DEF IInv, Ending, Finished, PidAfter, record, kernel, Frontends, None
  <2>2. QED
    BY <1>0, <2>1 DEF PidTypes
<1>5. ASSUME NEW f \in Frontends, LauncherReaps(f) PROVE PidTypes'
  <2>1. proc' = [proc EXCEPT ![f] = 0] /\ UNCHANGED <<pid, remote>>
    BY <1>5 DEF LauncherReaps, backend, record
  <2>2. QED
    BY <1>0, <2>1 DEF PidTypes
<1>6. ASSUME NEW f \in Frontends, NEW v \in Priorities, setPriority(f, v) PROVE PidTypes'
  BY <1>0, <1>6 DEF setPriority, PidTypes, record
<1>7. ASSUME processFrontendDestroyed PROVE PidTypes'
  <2> DEFINE f == Last(dying)
  <2>1. /\ proc' = [proc EXCEPT ![f] = IF remote[f] THEN @ ELSE 0]
        /\ pid' = [pid EXCEPT ![f] = IF remote[f] THEN @ ELSE 0]
        /\ UNCHANGED remote
    BY <1>7 DEF processFrontendDestroyed, record
  <2> HIDE DEF f
  <2>2. QED
    BY <1>0, <2>1 DEF PidTypes
<1>8. ASSUME LauncherReads PROVE PidTypes'
  <2>1. UNCHANGED <<pid, remote>>
    BY <1>8 DEF LauncherReads, backend, record
  <2>2. CASE UNCHANGED proc
    BY <1>0, <2>1, <2>2 DEF PidTypes
  <2>3. CASE \E p \in FreePids : proc' = [proc EXCEPT ![Head(commands).id] = p]
    <3>1. PICK p \in FreePids : proc' = [proc EXCEPT ![Head(commands).id] = p]
      BY <2>3
    <3>2. p \in Pids
      BY FreeFacts
    <3>3. QED
      BY <1>0, <2>1, <3>1, <3>2 DEF PidTypes
  <2>4. QED
    BY <1>8, <2>2, <2>3, ReadEffect
<1>9. ASSUME receive PROVE PidTypes'
  <2> DEFINE e == Head(events)
  <2>1. UNCHANGED <<proc, remote>> /\ events # <<>>
    BY <1>9 DEF receive, record, kernel, priority
  <2>2. remote[e.id] /\ (e.event = "started" => e.pid \in Pids)
    BY <2>1, HeadFacts DEF IInv
  <2>3. UNCHANGED pid \/ pid' = [pid EXCEPT ![e.id] = IF e.event = "started" THEN e.pid ELSE @]
    BY <1>9 DEF receive
  <2> HIDE DEF e
  <2>4. QED
    BY <1>0, <2>1, <2>2, <2>3 DEF PidTypes
<1>10. CASE UNCHANGED vars
  BY <1>0, <1>10 DEF vars, PidTypes, backend, record, kernel
<1>11. QED
  BY <1>1, <1>2, <1>3, <1>4, <1>5, <1>6, <1>7, <1>8, <1>9, <1>10, <1>12, <1>13 DEF Next

\* What a step does to the commands: nothing, one more about a frontend behind the
\* launcher, or the first one is read.
LEMMA CommandsEffect ==
    ASSUME IInv, [Next]_vars
    PROVE  \/ UNCHANGED commands
           \/ \E c \in Commands : remote[c.id] /\ commands' = Append(commands, c)
           \/ commands # <<>> /\ commands' = Tail(commands)
<1> DEFINE Goal == \/ UNCHANGED commands
                   \/ \E c \in Commands : remote[c.id] /\ commands' = Append(commands, c)
                   \/ commands # <<>> /\ commands' = Tail(commands)
<1>1. ASSUME NEW i \in Identifiers, NEW r \in BOOLEAN, create(i, r) PROVE Goal
  BY <1>1 DEF create, pipe
<1>2. ASSUME NEW f \in Frontends, start(f) PROVE Goal
  <2> DEFINE c == [cmd |-> "start", id |-> f, value |-> desired[f]]
  <2>1. UNCHANGED commands \/ (remote[f] /\ commands' = Append(commands, c))
    BY <1>2 DEF start, send
  <2>2. c \in Commands /\ c.id = f
    BY DEF IInv, PriorityTypes, Commands
  <2> HIDE DEF c
  <2>3. QED
    BY <2>1, <2>2
<1>3. ASSUME NEW f \in Frontends, Delete(f) PROVE Goal
  BY <1>3 DEF Delete, pipe
<1>4. ASSUME NEW f \in Frontends, Reaped(f) \/ CrashNoticed(f) \/ Finished(f) PROVE Goal
  BY <1>4 DEF Reaped, CrashNoticed, Finished, pipe
<1>5. ASSUME NEW f \in Frontends, LauncherReaps(f) PROVE Goal
  BY <1>5 DEF LauncherReaps
<1>6. ASSUME NEW f \in Frontends, NEW v \in Priorities, setPriority(f, v) PROVE Goal
  <2> DEFINE c == [cmd |-> "set", id |-> f, value |-> v]
  <2>1. UNCHANGED commands \/ (remote[f] /\ commands' = Append(commands, c))
    BY <1>6 DEF setPriority, setDesiredLocal, setDesiredRemote, send
  <2>2. c \in Commands /\ c.id = f
    BY DEF Commands
  <2> HIDE DEF c
  <2>3. QED
    BY <2>1, <2>2
<1>7. ASSUME processFrontendDestroyed PROVE Goal
  BY <1>7 DEF processFrontendDestroyed, pipe
<1>8. ASSUME LauncherReads PROVE Goal
  BY <1>8 DEF LauncherReads
<1>9. ASSUME receive PROVE Goal
  BY <1>9 DEF receive
<1>10. CASE UNCHANGED vars
  BY <1>10 DEF vars, pipe
<1>11. QED
  BY <1>1, <1>2, <1>3, <1>4, <1>5, <1>6, <1>7, <1>8, <1>9, <1>10 DEF Next

\* What a step does to the events: nothing, one more about a frontend behind the
\* launcher, or the first one is received.
LEMMA EventsEffect ==
    ASSUME IInv, [Next]_vars
    PROVE  \/ UNCHANGED events
           \/ \E e \in Events : /\ remote[e.id] /\ (e.event = "started" => e.pid \in Pids)
                                /\ events' = Append(events, e)
           \/ events # <<>> /\ events' = Tail(events)
<1> DEFINE Goal == \/ UNCHANGED events
                   \/ \E e \in Events : /\ remote[e.id] /\ (e.event = "started" => e.pid \in Pids)
                                        /\ events' = Append(events, e)
                   \/ events # <<>> /\ events' = Tail(events)
<1>1. ASSUME NEW i \in Identifiers, NEW r \in BOOLEAN, create(i, r) PROVE Goal
  BY <1>1 DEF create, pipe
<1>2. ASSUME NEW f \in Frontends, start(f) PROVE Goal
  BY <1>2 DEF start
<1>3. ASSUME NEW f \in Frontends, Delete(f) PROVE Goal
  BY <1>3 DEF Delete, pipe
<1>4. ASSUME NEW f \in Frontends, Reaped(f) \/ CrashNoticed(f) \/ Finished(f) PROVE Goal
  BY <1>4 DEF Reaped, CrashNoticed, Finished, pipe
<1>5. ASSUME NEW f \in Frontends, LauncherReaps(f) PROVE Goal
  <2> DEFINE e == [event |-> "finished", id |-> f, pid |-> 0]
  <2>1. remote[f] /\ events' = Append(events, e)
    BY <1>5 DEF LauncherReaps
  <2>2. e \in Events /\ e.id = f /\ e.event # "started"
    BY DEF Events
  <2> HIDE DEF e
  <2>3. QED
    BY <2>1, <2>2
<1>6. ASSUME NEW f \in Frontends, NEW v \in Priorities, setPriority(f, v) PROVE Goal
  BY <1>6 DEF setPriority
<1>7. ASSUME processFrontendDestroyed PROVE Goal
  BY <1>7 DEF processFrontendDestroyed, pipe
<1>8. ASSUME LauncherReads PROVE Goal
  <2> DEFINE c == Head(commands)
             e(p) == [event |-> "started", id |-> c.id, pid |-> p]
  <2>1. remote[c.id] /\ c.id \in Frontends
    BY <1>8, HeadFacts, ReadEffect DEF IInv
  <2>2. UNCHANGED events \/ \E p \in FreePids : events' = Append(events, e(p))
    BY <1>8, ReadEffect
  <2>3. \A p \in FreePids : e(p) \in Events /\ e(p).id = c.id /\ e(p).pid \in Pids
    BY <2>1, FreeFacts DEF Events
  <2> HIDE DEF e, c
  <2>4. QED
    BY <2>1, <2>2, <2>3
<1>9. ASSUME receive PROVE Goal
  BY <1>9 DEF receive
<1>10. CASE UNCHANGED vars
  BY <1>10 DEF vars, pipe
<1>11. QED
  BY <1>1, <1>2, <1>3, <1>4, <1>5, <1>6, <1>7, <1>8, <1>9, <1>10 DEF Next

\* No step takes a backend from behind the launcher.
LEMMA StaysRemote ==
    ASSUME IInv, [Next]_vars, NEW f \in Frontends, remote[f]
    PROVE  remote'[f]
<1>1. CASE \E i \in Identifiers, r \in BOOLEAN : create(i, r)
  <2>1. PICK i \in Identifiers, r \in BOOLEAN : create(i, r)
    BY <1>1
  <2>2. remote' = [remote EXCEPT ![backend_count + 1] = r]
    BY <2>1 DEF create, newRemoteBackend
  <2>3. f # backend_count + 1
    BY RegistryAssumption DEF IInv, Uncreated, ListTypes
  <2>4. QED
    BY <2>2, <2>3 DEF IInv, RecordTypes
<1>2. CASE UNCHANGED remote
  BY <1>2
<1>3. QED
  BY <1>1, <1>2 DEF Next, vars, start, Delete, Reaped, CrashNoticed, Finished, LauncherReaps,
                    setPriority, processFrontendDestroyed, LauncherReads, receive, backend, record

\* A step leaves the pipe about processes behind the launcher.
LEMMA NextPipe == ASSUME IInv, [Next]_vars PROVE PipeTypes' /\ Messages'
<1>0. PipeTypes /\ Messages /\ Uncreated /\ ListTypes
  BY DEF IInv
<1>1. \A f \in Frontends : remote[f] => remote'[f]
  BY StaysRemote
<1>2. commands' \in Seq(Commands) /\ \A k \in DOMAIN commands' : remote[commands'[k].id]
  <2>1. CASE UNCHANGED commands
    BY <1>0, <2>1 DEF PipeTypes, Messages
  <2>2. CASE \E c \in Commands : remote[c.id] /\ commands' = Append(commands, c)
    <3>1. PICK c \in Commands : remote[c.id] /\ commands' = Append(commands, c)
      BY <2>2
    <3>2. /\ commands' \in Seq(Commands) /\ Len(commands') = Len(commands) + 1
          /\ \A k \in 1 .. Len(commands) : commands'[k] = commands[k]
          /\ commands'[Len(commands) + 1] = c
      BY <1>0, <3>1, AppendProperties DEF PipeTypes
    <3>3. /\ Len(commands) \in Nat /\ DOMAIN commands = 1 .. Len(commands)
          /\ DOMAIN commands' = 1 .. Len(commands) + 1
      BY <1>0, <3>2, LenProperties DEF PipeTypes
    <3>4. QED
      BY <1>0, <3>1, <3>2, <3>3 DEF Messages
  <2>3. CASE commands # <<>> /\ commands' = Tail(commands)
    <3>1. commands' \in Seq(Commands)
      BY <1>0, <2>3, HeadTailProperties DEF PipeTypes
    <3>2. \A k \in DOMAIN commands' : k + 1 \in DOMAIN commands /\ commands'[k] = commands[k + 1]
      BY <1>0, <2>3, LastOfTail DEF PipeTypes
    <3>3. QED
      BY <1>0, <3>1, <3>2 DEF Messages
  <2>4. QED
    BY <2>1, <2>2, <2>3, CommandsEffect
<1>3. /\ events' \in Seq(Events)
      /\ \A k \in DOMAIN events' : /\ remote[events'[k].id]
                                   /\ events'[k].event = "started" => events'[k].pid \in Pids
  <2>1. CASE UNCHANGED events
    BY <1>0, <2>1 DEF PipeTypes, Messages
  <2>2. CASE \E e \in Events : /\ remote[e.id] /\ (e.event = "started" => e.pid \in Pids)
                               /\ events' = Append(events, e)
    <3>1. PICK e \in Events : /\ remote[e.id] /\ (e.event = "started" => e.pid \in Pids)
                              /\ events' = Append(events, e)
      BY <2>2
    <3>2. /\ events' \in Seq(Events) /\ Len(events') = Len(events) + 1
          /\ \A k \in 1 .. Len(events) : events'[k] = events[k]
          /\ events'[Len(events) + 1] = e
      BY <1>0, <3>1, AppendProperties DEF PipeTypes
    <3>3. /\ Len(events) \in Nat /\ DOMAIN events = 1 .. Len(events)
          /\ DOMAIN events' = 1 .. Len(events) + 1
      BY <1>0, <3>2, LenProperties DEF PipeTypes
    <3>4. QED
      BY <1>0, <3>1, <3>2, <3>3 DEF Messages
  <2>3. CASE events # <<>> /\ events' = Tail(events)
    <3>1. events' \in Seq(Events)
      BY <1>0, <2>3, HeadTailProperties DEF PipeTypes
    <3>2. \A k \in DOMAIN events' : k + 1 \in DOMAIN events /\ events'[k] = events[k + 1]
      BY <1>0, <2>3, LastOfTail DEF PipeTypes
    <3>3. QED
      BY <1>0, <3>1, <3>2 DEF Messages
  <2>4. QED
    BY <2>1, <2>2, <2>3, EventsEffect
<1>4. \A k \in DOMAIN commands' : commands'[k].id \in Frontends
  <2>1. \A k \in DOMAIN commands' : commands'[k] \in Commands
    BY <1>2, ElementOfSeq, LenProperties
  <2>2. QED
    BY <2>1 DEF Commands
<1>5. \A k \in DOMAIN events' : events'[k].id \in Frontends
  <2>1. \A k \in DOMAIN events' : events'[k] \in Events
    BY <1>3, ElementOfSeq, LenProperties
  <2>2. QED
    BY <2>1 DEF Events
<1>6. Messages'
  BY <1>1, <1>2, <1>3, <1>4, <1>5 DEF Messages
<1>7. PipeTypes'
  BY <1>2, <1>3 DEF PipeTypes, Commands, Events, Frontends
<1>8. QED
  BY <1>6, <1>7

(***************************************************************************)
(* The list.                                                               *)
(***************************************************************************)

ListPart == ListTypes /\ Numbered /\ ListIsLiving

\* A new frontend is the last in the list.
LEMMA Listed ==
    ASSUME IInv, NEW i \in Identifiers, NEW r \in BOOLEAN, create(i, r)
    PROVE  ListPart'
<1> DEFINE f == backend_count + 1
           m == m_processlist
           n == Len(m)
           t == Append(m, f)
<1>1. /\ m \in Seq(Frontends) /\ backend_count \in Nat /\ f \in Frontends
      /\ f \in 0 .. MaxCreated
  BY RegistryAssumption DEF IInv, ListTypes, create, Frontends
<1>2. /\ backend_count' = f /\ m_processlist' = t
      /\ UNCHANGED <<dying, ended, destroyed>>
  BY DEF create, newBackend, newRemoteBackend, client, slots
<1>3. /\ t \in Seq(Frontends) /\ Len(t) = n + 1
      /\ \A k \in 1 .. n : t[k] = m[k]
      /\ t[n + 1] = f
  BY <1>1, AppendProperties
<1>4. n \in Nat /\ DOMAIN m = 1 .. n /\ DOMAIN t = 1 .. n + 1
  BY <1>1, <1>3, LenProperties
<1>5. /\ \A j, k \in DOMAIN m : j < k => m[j] < m[k]
      /\ ToSet(m) = (1 .. backend_count) \ destroyed
  BY DEF IInv, ListIsLiving
<1> HIDE DEF t, n, m
<1>6. \A k \in 1 .. n : m[k] \in 1 .. backend_count
  BY <1>4, <1>5 DEF ToSet
<1>7. \A j, k \in DOMAIN t : j < k => t[j] < t[k]
  <2> SUFFICES ASSUME NEW j \in 1 .. n + 1, NEW k \in 1 .. n + 1, j < k PROVE t[j] < t[k]
    BY <1>4
  <2>1. j \in 1 .. n /\ t[j] = m[j]
    BY <1>3, <1>4
  <2>2. CASE k = n + 1
    BY <1>1, <1>3, <1>6, <2>1, <2>2
  <2>3. CASE k # n + 1
    BY <1>3, <1>4, <1>5, <2>1, <2>3
  <2>4. QED
    BY <2>2, <2>3
<1>8. ToSet(t) = (1 .. f) \ destroyed
  <2>1. ToSet(t) = ToSet(m) \cup {f}
    <3>1. ToSet(t) = {t[k] : k \in 1 .. n + 1} /\ ToSet(m) = {m[k] : k \in 1 .. n}
      BY <1>4 DEF ToSet
    <3>2. \A k \in 1 .. n + 1 : k \in 1 .. n \/ k = n + 1
      BY <1>4
    <3>3. 1 .. n \subseteq 1 .. n + 1 /\ n + 1 \in 1 .. n + 1
      BY <1>4
    <3>4. QED
      BY <1>3, <3>1, <3>2, <3>3
  <2>2. f \notin destroyed
    BY <1>1 DEF IInv, Numbered
  <2>3. 1 .. f = (1 .. backend_count) \cup {f}
    BY <1>1
  <2>4. QED
    BY <1>5, <2>1, <2>2, <2>3
<1>9. ListIsLiving'
  BY <1>2, <1>7, <1>8 DEF ListIsLiving, ToSet
<1>10. ListTypes'
  BY <1>1, <1>2, <1>3 DEF IInv, ListTypes, Frontends
<1>11. Numbered'
  <2>1. 1 .. backend_count \subseteq 1 .. f
    BY <1>1
  <2>2. QED
    BY <1>2, <2>1 DEF IInv, Numbered
<1>12. QED
  BY <1>9, <1>10, <1>11 DEF ListPart

\* The destruction of a frontend takes it out of the list.
LEMMA Unlisted == ASSUME IInv, processFrontendDestroyed PROVE ListPart'
<1> DEFINE f == Last(dying)
           n == Len(dying)
           d == Front(dying)
           m == m_processlist
<1>1. /\ dying \in Seq(Frontends) /\ dying # <<>> /\ m \in Seq(Frontends)
      /\ Frontends \in SUBSET Nat
  BY DEF IInv, ListTypes, processFrontendDestroyed, Frontends
<1>2. /\ m_processlist' = RemoveFirst(m, f) /\ dying' = d
      /\ destroyed' = destroyed \cup {f} /\ UNCHANGED <<backend_count, ended>>
  BY DEF processFrontendDestroyed, Removed
<1>3. n \in Nat \ {0} /\ DOMAIN dying = 1 .. n /\ f = dying[n]
  BY <1>1, LenProperties, EmptySeq DEF Last
<1>4. /\ d \in Seq(Frontends) /\ DOMAIN d = 1 .. n - 1
      /\ \A k \in 1 .. n - 1 : d[k] = dying[k]
  <2>1. d = SubSeq(dying, 1, n - 1)
    BY DEF Front
  <2>2. \A k \in 1 .. n - 1 : dying[k] \in Frontends
    BY <1>1, <1>3, ElementOfSeq
  <2>3. /\ Len(d) = IF 1 <= n - 1 THEN n - 1 - 1 + 1 ELSE 0
        /\ d \in Seq(Frontends)
        /\ \A k \in 1 .. n - 1 - 1 + 1 : d[k] = dying[1 + k - 1]
    BY <1>1, <1>3, <2>1, <2>2, SubSeqProperties
  <2> HIDE DEF d, n
  <2>4. Len(d) = n - 1
    BY <1>3, <2>3
  <2>5. DOMAIN d = 1 .. Len(d)
    BY <2>3, LenProperties
  <2>6. QED
    BY <1>3, <2>3, <2>4, <2>5
<1> HIDE DEF d, n, f, m
<1>5. \A k \in 1 .. n - 1 : d[k] # f
  BY <1>3, <1>4 DEF IInv, Numbered
<1>6. f \in (1 .. backend_count) \ destroyed /\ f \in Frontends
  BY <1>1, <1>3, ElementOfSeq DEF IInv, Numbered
<1>7. Ordered(m) /\ ToSet(m) = (1 .. backend_count) \ destroyed
  BY DEF IInv, ListIsLiving, Ordered, m
<1>8. LET t == RemoveFirst(m, f)
      IN  t \in Seq(Frontends) /\ Ordered(t) /\ ToSet(t) = ToSet(m) \ {f}
  BY <1>1, <1>6, <1>7, RemovedOne
<1>9. ListIsLiving'
  <2> DEFINE t == RemoveFirst(m, f)
  <2>1. t \in Seq(Frontends) /\ Ordered(t) /\ ToSet(t) = ToSet(m) \ {f} /\ m_processlist' = t
    BY <1>2, <1>8
  <2> HIDE DEF t
  <2>2. ToSet(t) = (1 .. backend_count) \ (destroyed \cup {f})
    BY <1>7, <2>1
  <2>3. QED
    BY <1>2, <2>1, <2>2 DEF ListIsLiving, Ordered, ToSet
<1>10. ListTypes'
  <2>1. m_processlist' \in Seq(Frontends)
    BY <1>2, <1>8
  <2>2. QED
    BY <1>2, <1>4, <1>6, <2>1 DEF IInv, ListTypes, Frontends
<1>11. Numbered'
  <2>1. destroyed' \subseteq 1 .. backend_count'
    BY <1>2, <1>6 DEF IInv, Numbered
  <2>2. \A k \in 1 .. n - 1 : k \in DOMAIN dying
    BY <1>3
  <2>3. \A k \in DOMAIN dying' : dying'[k] \in (1 .. backend_count') \ destroyed'
    BY <1>2, <1>4, <1>5, <2>2 DEF IInv, Numbered
  <2>4. \A j, k \in DOMAIN dying' : dying'[j] = dying'[k] => j = k
    BY <1>2, <1>4, <2>2 DEF IInv, Numbered
  <2>5. QED
    BY <2>1, <2>3, <2>4 DEF Numbered
<1>12. QED
  BY <1>9, <1>10, <1>11 DEF ListPart

\* A frontend begins to die once.
LEMMA Dying == ASSUME IInv, NEW f \in Frontends, Delete(f) PROVE ListPart'
<1> DEFINE n == Len(dying)
           t == Append(dying, f)
<1>1. dying \in Seq(Frontends)
  BY DEF IInv, ListTypes
<1>2. /\ t \in Seq(Frontends) /\ Len(t) = n + 1
      /\ \A k \in 1 .. n : t[k] = dying[k]
      /\ t[n + 1] = f
  BY <1>1, AppendProperties
<1>3. n \in Nat /\ DOMAIN dying = 1 .. n /\ DOMAIN t = 1 .. n + 1
  BY <1>1, <1>2, LenProperties
<1>4. dying' = t /\ UNCHANGED <<m_processlist, backend_count, ended, destroyed>> /\ f \in Living
  BY DEF Delete, client
<1> HIDE DEF t, n
<1>5. f \in (1 .. backend_count) \ destroyed /\ \A k \in 1 .. n : dying[k] # f
  BY <1>3, <1>4 DEF Living, ToSet
<1>6. Numbered'
  <2>1. \A k \in 1 .. n + 1 : t[k] \in (1 .. backend_count) \ destroyed
    BY <1>2, <1>3, <1>5 DEF IInv, Numbered
  <2>2. ASSUME NEW j \in 1 .. n + 1, NEW k \in 1 .. n + 1, t[j] = t[k] PROVE j = k
    <3>1. \A x \in 1 .. n + 1 : x \in 1 .. n \/ x = n + 1
      BY <1>3
    <3>2. QED
      BY <1>2, <1>3, <1>5, <2>2, <3>1 DEF IInv, Numbered
  <2>3. QED
    BY <1>3, <1>4, <2>1, <2>2 DEF IInv, Numbered
<1>7. QED
  BY <1>2, <1>4, <1>6 DEF IInv, ListPart, ListTypes, ListIsLiving, Frontends, ToSet

\* A step leaves the list that of the living.
LEMMA NextList == ASSUME IInv, [Next]_vars PROVE ListPart'
<1>1. CASE UNCHANGED <<m_processlist, backend_count, dying, destroyed>>
           /\ ended' \in Frontends \cup {None}
  BY <1>1 DEF IInv, ListPart, ListTypes, Numbered, ListIsLiving, Frontends, ToSet
<1>6. ended \in Frontends \cup {None}
  BY DEF IInv, ListTypes
<1>7. ASSUME NEW f \in Frontends, Reaped(f) \/ CrashNoticed(f) \/ Finished(f) PROVE ListPart'
  BY <1>1, <1>6, <1>7 DEF Reaped, CrashNoticed, Finished, manager, slots, client
<1>2. CASE \E i \in Identifiers, r \in BOOLEAN : create(i, r)
  BY <1>2, Listed
<1>3. CASE \E f \in Frontends : Delete(f)
  BY <1>3, Dying
<1>4. CASE processFrontendDestroyed
  BY <1>4, Unlisted
<1>5. QED
  BY <1>1, <1>2, <1>3, <1>4, <1>6, <1>7
  DEF Next, vars, start, LauncherReaps, setPriority, LauncherReads, receive, client, manager,
      slots

\* A signal that names a living frontend, or none, leaves the list alone.
LEMMA AnnouncedLiving ==
    ASSUME IInv, UNCHANGED <<m_processlist, identifier, backend_count, dying, destroyed>>,
           announced' = NoName \/ \E f \in Living : announced' = name(f)
    PROVE  Announced'
<1>1. CASE announced' = NoName
  BY <1>1 DEF Announced
<1>2. CASE \E f \in Living : announced' = name(f)
  <2>1. PICK f \in Living : announced' = name(f)
    BY <1>2
  <2>2. f \in ToSet(m_processlist)
    BY LivingFacts DEF IInv
  <2>3. PICK k \in DOMAIN m_processlist : m_processlist[k] = f
    BY <2>2 DEF ToSet
  <2>4. m_processlist'[k] = f /\ k \in DOMAIN m_processlist'
    BY <2>3
  <2>5. announced' = <<IF identifier'[f] = "" THEN "process" ELSE identifier'[f], f>>
    BY <2>1 DEF name
  <2>6. f \in Living'
    BY <2>1 DEF Living, ToSet
  <2>7. QED
    BY <2>4, <2>5, <2>6 DEF Announced, name
<1>3. QED
  BY <1>1, <1>2

\* processDestroyed carries the name of the frontend that is being deleted.
LEMMA AnnouncedDying ==
    ASSUME IInv, NEW f \in Frontends, Delete(f)
    PROVE  Announced'
<1>1. /\ f \in Living /\ announced' = name(f) /\ dying' = Append(dying, f)
      /\ UNCHANGED <<m_processlist, identifier>>
  BY DEF Delete, announce, backend, record
<1>2. PICK k \in DOMAIN m_processlist : m_processlist[k] = f
  <2>1. f \in ToSet(m_processlist)
    BY <1>1, LivingFacts DEF IInv
  <2>2. QED
    BY <2>1 DEF ToSet
<1>3. dying \in Seq(Frontends)
  BY DEF IInv, ListTypes
<1>4. dying' \in Seq(Frontends) /\ Len(dying') = Len(dying) + 1 /\ dying'[Len(dying) + 1] = f
  BY <1>1, <1>3, AppendProperties
<1>5. Last(dying') = f /\ dying' # <<>>
  BY <1>3, <1>4, LenProperties, EmptySeq DEF Last
<1>6. announced' = <<IF identifier'[f] = "" THEN "process" ELSE identifier'[f], f>>
  BY <1>1 DEF name
<1>7. DestructionAnnounced'
  BY <1>5, <1>6 DEF DestructionAnnounced, name
<1>8. m_processlist'[k] = f /\ k \in DOMAIN m_processlist'
  BY <1>1, <1>2
<1>9. QED
  BY <1>6, <1>7, <1>8 DEF Announced, name

\* In a step a signal carries the name of a frontend in the list, alive but for that one.
LEMMA NextAnnounced == ASSUME IInv, [Next]_vars PROVE Announced'
<1>1. ASSUME NEW i \in Identifiers, NEW r \in BOOLEAN, create(i, r) PROVE Announced'
  BY <1>1 DEF create, Quiet, Announced
<1>2. ASSUME NEW f \in Frontends, start(f) PROVE Announced'
  BY <1>2, AnnouncedLiving DEF start, announce, manager, slots, record
<1>3. ASSUME NEW f \in Frontends, Delete(f) PROVE Announced'
  BY <1>3, AnnouncedDying
<1>4. ASSUME NEW f \in Frontends, Reaped(f) PROVE Announced'
  BY <1>4, AnnouncedLiving DEF Reaped, announce, record, client
<1>12. ASSUME NEW f \in Frontends, CrashNoticed(f) \/ Finished(f) PROVE Announced'
  <2>1. f \in Living
    BY <1>12 DEF IInv, Ending, CrashNoticed, Finished, Frontends, None
  <2>2. /\ announced' = name(f)
        /\ UNCHANGED <<m_processlist, identifier, backend_count, dying, destroyed>>
    BY <1>12 DEF CrashNoticed, Finished, announce, manager, slots, record, client
  <2>3. QED
    BY <2>1, <2>2, AnnouncedLiving
<1>5. ASSUME NEW f \in Frontends, LauncherReaps(f) PROVE Announced'
  BY <1>5 DEF LauncherReaps, Quiet, Announced
<1>6. ASSUME NEW f \in Frontends, NEW v \in Priorities, setPriority(f, v) PROVE Announced'
  BY <1>6 DEF setPriority, Quiet, Announced
<1>7. ASSUME processFrontendDestroyed PROVE Announced'
  BY <1>7 DEF processFrontendDestroyed, Quiet, Announced
<1>8. ASSUME LauncherReads PROVE Announced'
  BY <1>8 DEF LauncherReads, Quiet, Announced
<1>9. ASSUME receive PROVE Announced'
  <2>1. UNCHANGED <<m_processlist, identifier, backend_count, dying, destroyed>>
    BY <1>9 DEF receive, manager, slots, record, client
  <2>2. announced' = NoName \/ \E f \in Living : announced' = name(f)
    BY <1>9 DEF receive, announce, Quiet
  <2>3. QED
    BY <2>1, <2>2, AnnouncedLiving
<1>10. CASE UNCHANGED vars
  <2>1. UNCHANGED <<announced, m_processlist, identifier, backend_count, dying, destroyed>>
    BY <1>10 DEF vars, manager, slots, backend, record, client
  <2>2. ASSUME NEW k \in DOMAIN m_processlist, announced = name(m_processlist[k]),
               m_processlist[k] \in Living \/ DestructionAnnounced
        PROVE  Announced'
    <3>1. /\ (announced = name(m_processlist[k]))' /\ k \in DOMAIN m_processlist'
          /\ (m_processlist[k] \in Living)' \/ DestructionAnnounced'
      BY <2>1, <2>2 DEF name, Living, ToSet, DestructionAnnounced, Last
    <3>2. QED
      BY <3>1 DEF Announced
  <2>3. CASE announced = NoName
    BY <2>1, <2>3 DEF Announced
  <2>4. CASE announced # NoName
    <3>1. PICK k \in DOMAIN m_processlist : /\ announced = name(m_processlist[k])
                                            /\ m_processlist[k] \in Living \/ DestructionAnnounced
      <4>1. Announced
        BY DEF IInv
      <4>2. QED
        BY <2>4, <4>1, Zenon DEF Announced
    <3>2. QED
      BY <2>2, <3>1
  <2>5. QED
    BY <2>3, <2>4
<1>11. QED
  BY <1>1, <1>2, <1>3, <1>4, <1>5, <1>6, <1>7, <1>8, <1>9, <1>10, <1>12 DEF Next

(***************************************************************************)
(* Owners of pids.                                                         *)
(***************************************************************************)

\* A signal from QProcess is about a frontend that stays until it has been emitted.
LEMMA NextEnding == ASSUME IInv, [Next]_vars PROVE Ending'
<1>0. /\ Ending /\ PidTypes /\ RecordTypes /\ backend_count \in Nat /\ dying \in Seq(Frontends)
      /\ None \notin Frontends
  BY RegistryAssumption DEF IInv, ListTypes, Frontends, None
<1> DEFINE Stays == ended' = ended /\ (ended # None => ended \in Living')
           Kept == ended # None => /\ remote'[ended] = remote[ended] /\ proc'[ended] = proc[ended]
                                   /\ created[ended] => created'[ended]
<1>1. Stays /\ Kept => Ending'
  BY <1>0 DEF Ending
<1>2. UNCHANGED <<backend_count, dying, destroyed>> => Living' = Living
  BY DEF Living, ToSet
<1>3. ended # None => ended \in Frontends /\ ended \in 1 .. backend_count
  BY <1>0, LivingFacts DEF IInv, Ending
<1>4. UNCHANGED <<backend_count, dying, ended, destroyed>> => Stays
  BY <1>0, <1>2 DEF Ending
<1>5. UNCHANGED <<remote, proc, created>> => Kept
  OBVIOUS
<1>6. ASSUME NEW i \in Identifiers, NEW r \in BOOLEAN, create(i, r) PROVE Ending'
  <2>1. /\ backend_count' = backend_count + 1 /\ remote' = [remote EXCEPT ![backend_count + 1] = r]
        /\ UNCHANGED <<dying, ended, destroyed, proc, created>>
    BY <1>6 DEF create, newBackend, newRemoteBackend, slots, kernel, client
  <2>2. Kept
    <3> SUFFICES ASSUME ended # None
                 PROVE  remote'[ended] = remote[ended] /\ proc'[ended] = proc[ended]
      BY <2>1
    <3>1. ended \in Frontends /\ ended # backend_count + 1
      BY <1>0, <1>3
    <3>2. QED
      BY <1>0, <2>1, <3>1 DEF RecordTypes
  <2>3. Stays
    BY <1>0, <1>3, <2>1 DEF Ending, Living, ToSet
  <2>4. QED
    BY <1>1, <2>2, <2>3
<1>7. ASSUME NEW f \in Frontends, start(f) PROVE Ending'
  <2>1. UNCHANGED <<backend_count, dying, ended, destroyed, remote>>
    BY <1>7 DEF start, manager, slots, record
  <2>2. Kept
    <3> SUFFICES ASSUME ended # None
                 PROVE  proc'[ended] = proc[ended] /\ (created[ended] => created'[ended])
      BY <2>1
    <3>1. ended \in Frontends /\ created[ended]
      BY <1>0, <1>3 DEF Ending
    <3>2. CASE UNCHANGED <<proc, created>>
      BY <3>2
    <3>3. ASSUME ~created[f], NEW p, proc' = [proc EXCEPT ![f] = p],
                 created' = [created EXCEPT ![f] = TRUE]
          PROVE  proc'[ended] = proc[ended] /\ (created[ended] => created'[ended])
      <4>1. f # ended
        BY <3>1, <3>3
      <4>2. QED
        BY <1>0, <3>1, <3>3, <4>1 DEF PidTypes, RecordTypes
    <3>4. QED
      BY <1>7, <3>2, <3>3, StartEffect
  <2>3. QED
    BY <1>1, <1>4, <2>1, <2>2
<1>8. ASSUME NEW f \in Frontends, Delete(f) PROVE Ending'
  <2>1. /\ dying' = Append(dying, f) /\ f # ended
        /\ UNCHANGED <<backend_count, ended, destroyed, remote, proc, created>>
    BY <1>8 DEF Delete, backend, record, kernel, client
  <2>2. dying' \in Seq(Frontends)
    BY <1>0, <2>1, AppendProperties
  <2>3. \A k \in DOMAIN dying' : dying'[k] = f \/ (k \in DOMAIN dying /\ dying'[k] = dying[k])
    BY <1>0, <2>1, <2>2, EntriesOfAppend
  <2>4. Stays
    BY <1>0, <2>1, <2>3 DEF Ending, Living, ToSet
  <2>5. QED
    BY <1>1, <1>5, <2>1, <2>4
<1>9. ASSUME NEW f \in Frontends, Reaped(f) PROVE Ending'
  <2>1. /\ ended' = f /\ f \in Living /\ ~remote[f] /\ proc[f] # 0
        /\ proc' = [proc EXCEPT ![f] = 0]
        /\ UNCHANGED <<backend_count, dying, destroyed, remote, created>>
    BY <1>9 DEF Reaped, record, client
  <2>2. created[f]
    BY <2>1 DEF IInv, Owned, Local
  <2>3. QED
    BY <1>0, <1>2, <2>1, <2>2 DEF Ending, PidTypes
<1>10. ASSUME NEW f \in Frontends, CrashNoticed(f) PROVE Ending'
  BY <1>1, <1>4, <1>5, <1>10 DEF CrashNoticed, manager, slots, record, kernel, client
<1>11. ASSUME NEW f \in Frontends, Finished(f) PROVE Ending'
  BY <1>11 DEF Finished, Ending
<1>12. ASSUME NEW f \in Frontends, LauncherReaps(f) PROVE Ending'
  <2>1. /\ UNCHANGED <<backend_count, dying, ended, destroyed, remote, created>>
        /\ proc' = [proc EXCEPT ![f] = 0] /\ remote[f]
    BY <1>12 DEF LauncherReaps, manager, slots, backend, record, client
  <2>2. Kept
    BY <1>0, <1>3, <2>1 DEF Ending, PidTypes
  <2>3. QED
    BY <1>1, <1>4, <2>1, <2>2
<1>13. ASSUME NEW f \in Frontends, NEW v \in Priorities, setPriority(f, v) PROVE Ending'
  BY <1>1, <1>4, <1>5, <1>13 DEF setPriority, manager, slots, record
<1>14. ASSUME processFrontendDestroyed PROVE Ending'
  <2> DEFINE f == Last(dying)
             n == Len(dying)
  <2>1. /\ dying' = Front(dying) /\ dying # <<>> /\ destroyed' = destroyed \cup {f}
        /\ proc' = [proc EXCEPT ![f] = IF remote[f] THEN @ ELSE 0]
        /\ UNCHANGED <<backend_count, ended, remote, created>>
    BY <1>14 DEF processFrontendDestroyed, record
  <2>2. n \in Nat \ {0} /\ DOMAIN dying = 1 .. n /\ f = dying[n]
    BY <1>0, <2>1, LenProperties, EmptySeq DEF Last
  <2>3. dying' = SubSeq(dying, 1, n - 1) /\ \A k \in 1 .. n - 1 : dying[k] \in Frontends
    BY <1>0, <2>1, <2>2, ElementOfSeq DEF Front
  <2>4. /\ Len(dying') = IF 1 <= n - 1 THEN n - 1 - 1 + 1 ELSE 0
        /\ dying' \in Seq(Frontends)
        /\ \A k \in 1 .. n - 1 - 1 + 1 : dying'[k] = dying[1 + k - 1]
    BY <2>2, <2>3, SubSeqProperties
  <2> HIDE DEF f, n
  <2>5. Len(dying') = n - 1 /\ DOMAIN dying' = 1 .. n - 1
    BY <2>2, <2>4, LenProperties
  <2>6. \A k \in DOMAIN dying' : k \in DOMAIN dying /\ dying'[k] = dying[k]
    BY <2>2, <2>4, <2>5
  <2>7. ended # None => \A k \in DOMAIN dying : dying[k] # ended
    BY <1>0 DEF Ending, Living, ToSet
  <2>8. Stays
    BY <1>0, <2>1, <2>2, <2>6, <2>7 DEF Ending, Living, ToSet
  <2>9. Kept
    BY <1>0, <1>3, <2>1, <2>2, <2>7 DEF Ending, PidTypes
  <2>10. QED
    BY <1>1, <2>8, <2>9
<1>15. ASSUME LauncherReads PROVE Ending'
  <2> DEFINE c == Head(commands)
  <2>1. UNCHANGED <<backend_count, dying, ended, destroyed, remote, created>>
    BY <1>15 DEF LauncherReads, manager, slots, backend, record, client
  <2>2. remote[c.id] /\ c.id \in Frontends
    BY <1>15, HeadFacts, ReadEffect DEF IInv
  <2>3. UNCHANGED proc \/ \E p \in FreePids : proc' = [proc EXCEPT ![c.id] = p]
    BY <1>15, ReadEffect
  <2> HIDE DEF c
  <2>4. Kept
    BY <1>0, <1>3, <2>1, <2>2, <2>3 DEF Ending, PidTypes
  <2>5. QED
    BY <1>1, <1>4, <2>1, <2>4
<1>16. ASSUME receive PROVE Ending'
  BY <1>1, <1>4, <1>5, <1>16 DEF receive, manager, slots, record, kernel, client
<1>17. CASE UNCHANGED vars
  BY <1>1, <1>4, <1>5, <1>17 DEF vars, manager, slots, backend, record, kernel, client
<1>18. QED
  BY <1>6, <1>7, <1>8, <1>9, <1>10, <1>11, <1>12, <1>13, <1>14, <1>15, <1>16, <1>17 DEF Next

OwnedPart == Uncreated /\ Owned

\* If f gets a free pid, or none, pids still have one owner.
LEMMA OneOwner ==
    ASSUME IInv, NEW f \in Frontends, NEW p,
           \A g \in Frontends : p # 0 => proc[g] # p,
           proc' = [proc EXCEPT ![f] = p]
    PROVE  \A g, h \in Frontends : proc'[g] # 0 /\ proc'[g] = proc'[h] => g = h
BY DEF IInv, Owned, PidTypes

\* A step that leaves alone what a backend knows of its own process.
LEMMA LocalKept ==
    ASSUME NEW f \in Frontends, Local(f), remote'[f] = remote[f],
           ~remote[f] => /\ pid'[f] = pid[f] /\ proc'[f] = proc[f] /\ created'[f] = created[f]
                         /\ desired'[f] = desired[f] /\ Unmoved(f)
                         /\ f = ended => f = ended'
    PROVE  Local(f)'
BY DEF Local, Unmoved

\* A step leaves every pid to one owner, and a local backend knows its own.
LEMMA NextOwned == ASSUME IInv, [Next]_vars PROVE OwnedPart'
<1>0. /\ Uncreated /\ Owned /\ PidTypes /\ RecordTypes /\ PriorityTypes
      /\ backend_count \in Nat /\ None \notin Frontends
      /\ \A g \in Frontends : Local(g)
  BY RegistryAssumption DEF IInv, ListTypes, Owned, Frontends, None
<1> DEFINE Quietly == \A g \in Frontends : Unmoved(g)
<1>20. UNCHANGED <<nice, fate>> => Quietly
  BY DEF Unmoved
<1>21. UNCHANGED <<proc, pid, remote, created, desired, ended, backend_count>> /\ Quietly
           => OwnedPart'
  <2> SUFFICES ASSUME UNCHANGED <<proc, pid, remote, created, desired, ended, backend_count>>,
                      Quietly
               PROVE  OwnedPart'
    OBVIOUS
  <2>1. \A g \in Frontends : Local(g)'
    BY <1>0, LocalKept
  <2>2. QED
    BY <1>0, <2>1 DEF OwnedPart, Owned, Uncreated, Frontends
<1>1. ASSUME NEW i \in Identifiers, NEW r \in BOOLEAN, create(i, r) PROVE OwnedPart'
  <2> DEFINE f == backend_count + 1
  <2>1. /\ remote' = [remote EXCEPT ![f] = r]
        /\ pid' = [pid EXCEPT ![f] = IF r THEN Unknown ELSE 0]
        /\ UNCHANGED <<proc, nice, fate, desired, created, ended>> /\ backend_count' = f
    BY <1>1 DEF create, newBackend, newRemoteBackend, kernel, priority, slots
  <2>2. f \in Frontends => ~remote[f] /\ proc[f] = 0
    BY <1>0 DEF Uncreated
  <2> HIDE DEF f
  <2>3. ASSUME NEW g \in Frontends PROVE Local(g)'
    <3>1. CASE g = f
      <4>1. proc'[g] = 0 /\ (~remote'[g] => pid'[g] = 0)
        BY <1>0, <2>1, <2>2, <3>1 DEF PidTypes, RecordTypes
      <4>2. QED
        BY <4>1 DEF Local
    <3>2. CASE g # f
      <4>1. remote'[g] = remote[g] /\ pid'[g] = pid[g]
        BY <1>0, <2>1, <3>2 DEF PidTypes, RecordTypes
      <4>2. QED
        BY <1>0, <1>20, <2>1, <4>1, LocalKept
    <3>3. QED
      BY <3>1, <3>2
  <2>4. Uncreated'
    <3>1. ASSUME NEW g \in Frontends, g > f PROVE ~remote'[g] /\ proc'[g] = 0
      <4>1. g > backend_count /\ g # f
        BY <1>0, <3>1 DEF Frontends, f
      <4>2. remote'[g] = remote[g] /\ proc'[g] = proc[g]
        BY <1>0, <2>1, <4>1 DEF RecordTypes
      <4>3. QED
        BY <1>0, <4>1, <4>2 DEF Uncreated
    <3>2. QED
      BY <2>1, <3>1 DEF Uncreated, Frontends
  <2>5. QED
    BY <1>0, <2>1, <2>3, <2>4 DEF OwnedPart, Owned, Frontends
<1>2. ASSUME NEW f \in Frontends, start(f) PROVE OwnedPart'
  <2>1. UNCHANGED <<remote, desired, backend_count, ended>> /\ f \in Living
    BY <1>2 DEF start, record, manager, slots
  <2>2. f <= backend_count
    BY <1>0, <2>1, LivingFacts DEF IInv
  <2>3. CASE UNCHANGED <<proc, pid, nice, fate, created>>
    BY <1>20, <1>21, <2>1, <2>3
  <2>4. ASSUME NEW p \in FreePids, ~remote[f], born(f, desired[f]),
               proc' = [proc EXCEPT ![f] = p], pid' = [pid EXCEPT ![f] = p],
               created' = [created EXCEPT ![f] = TRUE]
        PROVE  OwnedPart'
    <3>1. \A g, h \in Frontends : proc'[g] # 0 /\ proc'[g] = proc'[h] => g = h
      BY <2>4, FreeFacts, OneOwner
    <3>2. Moved(f, desired[f]) /\ \A h \in Frontends : h # f => Unmoved(h)
      <4>1. desired[f] \in Priorities
        BY <1>0 DEF PriorityTypes
      <4>2. QED
        BY <1>0, <2>4, <4>1, BornEffect
    <3>3. ASSUME NEW g \in Frontends PROVE Local(g)'
      <4>1. CASE g = f
        <5>1. pid'[f] = p /\ proc'[f] = p /\ created'[f] /\ remote'[f] = remote[f]
              /\ desired'[f] = desired[f]
          BY <1>0, <2>1, <2>4 DEF PidTypes, RecordTypes
        <5>2. QED
          BY <3>2, <4>1, <5>1 DEF Local, Moved
      <4>2. CASE g # f
        <5>1. /\ pid'[g] = pid[g] /\ proc'[g] = proc[g] /\ created'[g] = created[g]
              /\ remote'[g] = remote[g] /\ desired'[g] = desired[g] /\ ended' = ended
          BY <1>0, <2>1, <2>4, <4>2 DEF PidTypes, RecordTypes
        <5>2. QED
          BY <1>0, <3>2, <4>2, <5>1, LocalKept
      <4>3. QED
        BY <4>1, <4>2
    <3>4. Uncreated'
      BY <1>0, <2>1, <2>2, <2>4 DEF Uncreated, PidTypes, Frontends
    <3>5. QED
      BY <3>1, <3>3, <3>4 DEF OwnedPart, Owned, Frontends
  <2>5. QED
    BY <1>2, <2>3, <2>4, StartEffect
<1>3. ASSUME NEW f \in Frontends, Delete(f) PROVE OwnedPart'
  BY <1>3, <1>20, <1>21 DEF Delete, backend, record, kernel, priority
<1>4. ASSUME NEW f \in Frontends, Reaped(f) PROVE OwnedPart'
  <2>1. /\ proc' = [proc EXCEPT ![f] = 0] /\ ended = None /\ ended' = f
        /\ UNCHANGED <<pid, remote, nice, fate, desired, created, backend_count>>
    BY <1>4 DEF Reaped, InLoop, record, priority
  <2>2. \A g, h \in Frontends : proc'[g] # 0 /\ proc'[g] = proc'[h] => g = h
    BY <2>1, OneOwner
  <2>3. ASSUME NEW g \in Frontends PROVE Local(g)'
    <3>1. CASE g = f
      <4>1. proc'[g] = 0 /\ g = ended'
        BY <1>0, <2>1, <3>1 DEF PidTypes
      <4>2. QED
        BY <4>1 DEF Local
    <3>2. CASE g # f
      <4>1. proc'[g] = proc[g] /\ g # ended
        BY <1>0, <2>1, <3>2 DEF PidTypes
      <4>2. QED
        BY <1>0, <1>20, <2>1, <4>1, LocalKept
    <3>3. QED
      BY <3>1, <3>2
  <2>4. Uncreated'
    BY <1>0, <2>1 DEF Uncreated, PidTypes, Frontends
  <2>5. QED
    BY <2>2, <2>3, <2>4 DEF OwnedPart, Owned, Frontends
<1>12. ASSUME NEW f \in Frontends, CrashNoticed(f) PROVE OwnedPart'
  BY <1>12, <1>20, <1>21 DEF CrashNoticed, manager, slots, record, kernel, priority
<1>13. ASSUME NEW f \in Frontends, Finished(f) PROVE OwnedPart'
  <2>1. /\ pid' = [pid EXCEPT ![f] = 0] /\ ended = f
        /\ UNCHANGED <<proc, remote, nice, fate, desired, created, backend_count>>
    BY <1>13 DEF Finished, PidAfter, record, kernel, priority
  <2>2. proc[f] = 0
    BY <1>0, <2>1 DEF IInv, Ending
  <2>3. ASSUME NEW g \in Frontends PROVE Local(g)'
    <3>1. CASE g = f
      <4>1. pid'[g] = 0 /\ proc'[g] = 0
        BY <1>0, <2>1, <2>2, <3>1 DEF PidTypes
      <4>2. QED
        BY <4>1 DEF Local
    <3>2. CASE g # f
      <4>1. pid'[g] = pid[g] /\ g # ended
        BY <1>0, <2>1, <3>2 DEF PidTypes
      <4>2. QED
        BY <1>0, <1>20, <2>1, <4>1, LocalKept
    <3>3. QED
      BY <3>1, <3>2
  <2>4. QED
    BY <1>0, <2>1, <2>3 DEF OwnedPart, Owned, Uncreated, Frontends
<1>5. ASSUME NEW f \in Frontends, LauncherReaps(f) PROVE OwnedPart'
  <2>1. /\ proc' = [proc EXCEPT ![f] = 0] /\ remote[f]
        /\ UNCHANGED <<pid, remote, nice, fate, desired, created, ended, backend_count>>
    BY <1>5 DEF LauncherReaps, backend, record, manager, slots, priority
  <2>2. \A g, h \in Frontends : proc'[g] # 0 /\ proc'[g] = proc'[h] => g = h
    BY <2>1, OneOwner
  <2>3. ASSUME NEW g \in Frontends PROVE Local(g)'
    <3>1. ~remote[g] => proc'[g] = proc[g]
      BY <1>0, <2>1 DEF PidTypes
    <3>2. QED
      BY <1>0, <1>20, <2>1, <3>1, LocalKept
  <2>4. Uncreated'
    BY <1>0, <2>1 DEF Uncreated, PidTypes, Frontends
  <2>5. QED
    BY <2>2, <2>3, <2>4 DEF OwnedPart, Owned, Frontends
<1>6. ASSUME NEW f \in Frontends, NEW v \in Priorities, setPriority(f, v) PROVE OwnedPart'
  <2>1. UNCHANGED <<proc, pid, remote, created, ended, backend_count>>
    BY <1>6 DEF setPriority, record, manager, slots
  <2>2. CASE UNCHANGED <<desired, nice, fate>>
    BY <1>20, <1>21, <2>1, <2>2
  <2>3. CASE remote[f] /\ desired' = [desired EXCEPT ![f] = v] /\ UNCHANGED <<nice, fate>>
    <3>1. ASSUME NEW g \in Frontends PROVE Local(g)'
      <4>1. ~remote[g] => desired'[g] = desired[g]
        BY <1>0, <2>3 DEF PriorityTypes
      <4>2. QED
        BY <1>0, <1>20, <2>1, <2>3, <4>1, LocalKept
    <3>2. QED
      BY <1>0, <2>1, <3>1 DEF OwnedPart, Owned, Uncreated, Frontends
  <2>4. CASE ~remote[f] /\ setDesiredLocal(f, v)
    <3>1. /\ desired' = [desired EXCEPT ![f] = v]
          /\ created[f] => setpriority(f, pid[f], v)
          /\ ~created[f] => UNCHANGED <<nice, fate>>
      BY <2>4 DEF setDesiredLocal, setDesired, priority
    <3>2. \A h \in Frontends : h # f => Unmoved(h)
      <4>1. created[f] => \A h \in Frontends : h # f => Unmoved(h)
        BY <1>0, <3>1, SetEffect
      <4>2. QED
        BY <1>20, <3>1, <4>1
    <3>3. ASSUME NEW g \in Frontends PROVE Local(g)'
      <4>1. CASE g # f
        <5>1. desired'[g] = desired[g]
          BY <1>0, <3>1, <4>1 DEF PriorityTypes
        <5>2. QED
          BY <1>0, <2>1, <3>2, <4>1, <5>1, LocalKept
      <4>2. CASE g = f
        <5>1. /\ pid[f] = proc[f] \/ (f = ended /\ proc[f] = 0)
              /\ proc[f] # 0 => created[f]
          BY <1>0, <2>4 DEF Local
        <5>2. proc[f] # 0 => Moved(f, v)
          <6>1. proc[f] # 0 => Has(f, pid[f]) /\ created[f]
            BY <5>1 DEF Has
          <6>2. QED
            BY <1>0, <3>1, <6>1, SetEffect
        <5>3. desired'[f] = v
          BY <1>0, <3>1 DEF PriorityTypes
        <5>4. QED
          BY <2>1, <4>2, <5>1, <5>2, <5>3 DEF Local, Moved
      <4>3. QED
        BY <4>1, <4>2
    <3>4. QED
      BY <1>0, <2>1, <3>3 DEF OwnedPart, Owned, Uncreated, Frontends
  <2>5. QED
    BY <1>6, <2>2, <2>3, <2>4 DEF setPriority, setDesiredRemote, setDesired, priority
<1>7. ASSUME processFrontendDestroyed PROVE OwnedPart'
  <2> DEFINE f == Last(dying)
  <2>1. /\ proc' = [proc EXCEPT ![f] = IF remote[f] THEN @ ELSE 0]
        /\ pid' = [pid EXCEPT ![f] = IF remote[f] THEN @ ELSE 0]
        /\ UNCHANGED <<remote, nice, fate, desired, created, ended, backend_count>>
    BY <1>7 DEF processFrontendDestroyed, record, priority
  <2> HIDE DEF f
  <2>2. \A g \in Frontends : proc'[g] = proc[g] \/ proc'[g] = 0
    BY <1>0, <2>1 DEF PidTypes
  <2>3. ASSUME NEW g \in Frontends PROVE Local(g)'
    <3>1. CASE g = f /\ ~remote[f]
      <4>1. pid'[g] = 0 /\ proc'[g] = 0
        BY <1>0, <2>1, <3>1 DEF PidTypes
      <4>2. QED
        BY <4>1 DEF Local
    <3>2. CASE g # f \/ remote[f]
      <4>1. pid'[g] = pid[g] /\ proc'[g] = proc[g]
        BY <1>0, <2>1, <3>2 DEF PidTypes
      <4>2. QED
        BY <1>0, <1>20, <2>1, <4>1, LocalKept
    <3>3. QED
      BY <3>1, <3>2
  <2>4. QED
    BY <1>0, <2>1, <2>2, <2>3 DEF OwnedPart, Owned, Uncreated, Frontends
<1>8. ASSUME LauncherReads PROVE OwnedPart'
  <2> DEFINE c == Head(commands)
  <2>1. UNCHANGED <<pid, remote, desired, created, ended, backend_count>>
    BY <1>8 DEF LauncherReads, backend, record, manager, slots
  <2>2. /\ remote[c.id] /\ c.id \in Frontends /\ c.id \in 1 .. backend_count
        /\ c.value \in Priorities
    BY <1>8, HeadFacts, ReadEffect DEF IInv
  <2>3. born(c.id, c.value) \/ setpriority(c.id, proc[c.id], c.value)
    BY <1>8, ReadEffect
  <2>4. UNCHANGED proc \/ \E p \in FreePids : proc' = [proc EXCEPT ![c.id] = p]
    BY <1>8, ReadEffect
  <2> HIDE DEF c
  <2>5. \A g, h \in Frontends : proc'[g] # 0 /\ proc'[g] = proc'[h] => g = h
    <3>1. CASE UNCHANGED proc
      BY <1>0, <3>1 DEF Owned
    <3>2. CASE \E p \in FreePids : proc' = [proc EXCEPT ![c.id] = p]
      BY <2>2, <3>2, FreeFacts, OneOwner
    <3>3. QED
      BY <2>4, <3>1, <3>2
  <2>6. \A g \in Frontends : g # c.id => proc'[g] = proc[g]
    BY <1>0, <2>4 DEF PidTypes
  <2>7. \A g \in Frontends : g # c.id => Unmoved(g)
    BY <1>0, <2>2, <2>3, BornEffect, SetEffect
  <2>8. \A g \in Frontends : Local(g)'
    BY <1>0, <2>1, <2>2, <2>6, <2>7, LocalKept
  <2>9. Uncreated'
    BY <1>0, <2>1, <2>2, <2>6 DEF Uncreated, Frontends
  <2>10. QED
    BY <2>5, <2>8, <2>9 DEF OwnedPart, Owned, Frontends
<1>9. ASSUME receive PROVE OwnedPart'
  <2> DEFINE e == Head(events)
  <2>1. /\ UNCHANGED <<proc, nice, fate, remote, desired, created, ended, backend_count>>
        /\ events # <<>>
    BY <1>9 DEF receive, record, kernel, priority, manager, slots
  <2>2. remote[e.id]
    BY <2>1, HeadFacts DEF IInv
  <2>3. UNCHANGED pid \/ \E p : pid' = [pid EXCEPT ![e.id] = p]
    BY <1>9 DEF receive
  <2> HIDE DEF e
  <2>4. \A g \in Frontends : ~remote[g] => pid'[g] = pid[g]
    BY <1>0, <2>2, <2>3 DEF PidTypes
  <2>5. \A g \in Frontends : Local(g)'
    BY <1>0, <1>20, <2>1, <2>4, LocalKept
  <2>6. QED
    BY <1>0, <2>1, <2>5 DEF OwnedPart, Owned, Uncreated, Frontends
<1>10. CASE UNCHANGED vars
  BY <1>10, <1>20, <1>21 DEF vars, backend, record, kernel, priority, manager, slots
<1>11. QED
  BY <1>1, <1>2, <1>3, <1>4, <1>5, <1>6, <1>7, <1>8, <1>9, <1>10, <1>12, <1>13 DEF Next

(***************************************************************************)
(* Priorities on their way to the launcher.                                *)
(***************************************************************************)

\* What a client asks for is what the record says.
LEMMA NextAsked ==
    ASSUME IInv, [Next]_vars, NEW f \in Frontends
    PROVE  asked'[f] = desired'[f]
<1>0. asked[f] = desired[f] /\ PriorityTypes
  BY DEF IInv, Wished
<1>1. CASE UNCHANGED <<asked, desired>>
  BY <1>0, <1>1
<1>2. ASSUME NEW g \in Frontends, NEW v \in Priorities, setPriority(g, v)
      PROVE  asked'[f] = desired'[f]
  <2>1. asked' = [asked EXCEPT ![g] = v]
    BY <1>2 DEF setPriority
  <2>2. CASE v = desired[g]
    <3>1. desired' = desired
      BY <1>2, <2>2 DEF setPriority
    <3>2. QED
      BY <1>0, <2>1, <2>2, <3>1 DEF PriorityTypes
  <2>3. CASE v # desired[g]
    <3>1. desired' = [desired EXCEPT ![g] = v]
      BY <1>2, <2>3 DEF setPriority, setDesiredRemote, setDesiredLocal, setDesired
    <3>2. QED
      BY <1>0, <2>1, <3>1 DEF PriorityTypes
  <2>4. QED
    BY <2>2, <2>3
<1>3. QED
  BY <1>1, <1>2
  DEF Next, vars, create, start, Delete, Reaped, CrashNoticed, Finished, LauncherReaps,
      processFrontendDestroyed, LauncherReads, receive, backend, client

\* A step that leaves alone what Wished says of f.
LEMMA WishedKept ==
    ASSUME NEW f \in Frontends, Wished(f), asked'[f] = desired'[f],
           remote'[f] = remote[f],
           remote[f] => /\ pid'[f] = pid[f] /\ desired'[f] = desired[f] /\ unsent'[f] = unsent[f]
                        /\ UNCHANGED commands
                        /\ proc'[f] = 0 \/ (proc'[f] = proc[f] /\ Unmoved(f))
    PROVE  Wished(f)'
<1>1. CASE ~remote[f]
  BY <1>1 DEF Wished
<1>2. CASE remote[f]
  <2>1. /\ pid'[f] = pid[f] /\ desired'[f] = desired[f] /\ unsent'[f] = unsent[f]
        /\ commands' = commands
        /\ proc'[f] = 0 \/ (proc'[f] = proc[f] /\ Unmoved(f))
    BY <1>2
  <2>2. pid'[f] = Unknown =>
            \A k \in DOMAIN commands' : commands'[k].id = f => commands'[k].cmd # "set"
    BY <1>2, <2>1 DEF Wished
  <2>3. proc'[f] # 0 /\ NoneFor(commands', f) =>
            nice'[f] = desired'[f] \/ unsent'[f] \/ fate'[f] # "set"
    BY <1>2, <2>1 DEF Wished, Unmoved
  <2>4. \A k \in DOMAIN commands' : IsLast(commands', f, k) =>
           commands'[k].value = desired'[f] \/ unsent'[f]
    BY <1>2, <2>1 DEF Wished
  <2>5. QED
    BY <2>2, <2>3, <2>4 DEF Wished, NoneFor, IsLast
<1>3. QED
  BY <1>1, <1>2

\* Commands about other frontends leave what Wished says of f alone.
LEMMA WishedOther ==
    ASSUME IInv, NEW f \in Frontends, asked'[f] = desired'[f],
           NEW c \in Commands, c.id # f, commands' = Append(commands, c),
           UNCHANGED <<remote, pid, proc, nice, fate>>,
           desired'[f] = desired[f], unsent'[f] = unsent[f]
    PROVE  Wished(f)'
<1>1. Wished(f) /\ commands \in Seq(Commands)
  BY DEF IInv, PipeTypes
<1> DEFINE q == commands'
<1>0. q \in Seq(Commands)
  BY <1>1, AppendProperties
<1>2. ~About(c, f)
  BY DEF About
<1>3. /\ NoneFor(q, f) => NoneFor(commands, f)
      /\ \A k \in DOMAIN q : q[k].id = f => k \in DOMAIN commands /\ q[k] = commands[k]
  <2>1. NoneFor(q, f) => NoneFor(commands, f)
    BY <1>0, <1>1, NoneOfAppend
  <2>2. \A k \in DOMAIN q : q[k] = c \/ (k \in DOMAIN commands /\ q[k] = commands[k])
    BY <1>0, <1>1, EntriesOfAppend
  <2>3. QED
    BY <1>2, <2>1, <2>2 DEF About
<1>4. \A k \in DOMAIN q : IsLast(q, f, k) => k \in DOMAIN commands /\ IsLast(commands, f, k)
  BY <1>0, <1>1, <1>2, LastIsOld
<1>5. commands' = q
  OBVIOUS
<1> HIDE DEF q
<1>6. remote[f] /\ pid[f] = Unknown =>
          \A k \in DOMAIN q : q[k].id = f => q[k].cmd # "set"
  BY <1>1, <1>3 DEF Wished
<1>7. remote[f] /\ proc[f] # 0 /\ NoneFor(q, f) =>
          nice[f] = desired[f] \/ unsent[f] \/ fate[f] # "set"
  BY <1>1, <1>3 DEF Wished
<1>8. remote[f] => \A k \in DOMAIN q : IsLast(q, f, k) => q[k].value = desired[f] \/ unsent[f]
  <2> SUFFICES ASSUME remote[f], NEW k \in DOMAIN q, IsLast(q, f, k)
               PROVE  q[k].value = desired[f] \/ unsent[f]
    OBVIOUS
  <2>1. k \in DOMAIN commands /\ IsLast(commands, f, k) /\ q[k] = commands[k]
    <3>1. q[k].id = f
      BY DEF IsLast
    <3>2. QED
      BY <1>3, <1>4, <3>1
  <2>2. commands[k].value = desired[f] \/ unsent[f]
    BY <1>1, <2>1 DEF Wished
  <2>3. QED
    BY <2>1, <2>2
<1>9. QED
  BY <1>5, <1>6, <1>7, <1>8 DEF Wished, NoneFor, IsLast

\* start() of a frontend behind the launcher sends the priority asked for.
LEMMA WishedStart ==
    ASSUME IInv, NEW f \in Frontends, start(f), NEW g \in Frontends, asked'[g] = desired'[g]
    PROVE  Wished(g)'
<1>0. /\ Wished(g) /\ PriorityTypes /\ PidTypes /\ RecordTypes /\ commands \in Seq(Commands)
      /\ UNCHANGED <<remote, desired>>
  BY DEF IInv, start, record, PipeTypes
<1>1. CASE ~remote[f]
  <2>1. UNCHANGED <<commands, unsent>>
    BY <1>1 DEF start
  <2>2. g # f => pid'[g] = pid[g] /\ proc'[g] = proc[g] /\ Unmoved(g)
    <3>1. CASE UNCHANGED <<proc, pid, nice, fate>>
      BY <3>1 DEF Unmoved
    <3>2. CASE /\ born(f, desired[f])
               /\ \E p : proc' = [proc EXCEPT ![f] = p] /\ pid' = [pid EXCEPT ![f] = p]
      <4>1. desired[f] \in Priorities
        BY <1>0 DEF PriorityTypes
      <4>2. g # f => Unmoved(g)
        BY <1>0, <3>2, <4>1, BornEffect
      <4>3. QED
        BY <1>0, <3>2, <4>2 DEF PidTypes
    <3>3. QED
      BY <3>1, <3>2, StartEffect
  <2>3. QED
    BY <1>0, <1>1, <2>1, <2>2, WishedKept
<1>2. CASE remote[f]
  <2> DEFINE c == [cmd |-> "start", id |-> f, value |-> desired[f]]
             q == Append(commands, c)
  <2>1. /\ commands' = q /\ unsent' = [unsent EXCEPT ![f] = FALSE]
        /\ UNCHANGED <<pid, proc, nice, fate>> /\ Answered(f)
    BY <1>2 DEF start, send, kernel, priority
  <2>2. c \in Commands /\ c.id = f /\ c.cmd = "start" /\ c.value = desired[f]
    BY <1>0 DEF Commands, PriorityTypes
  <2> HIDE DEF c
  <2>3. CASE g # f
    <3>1. unsent'[g] = unsent[g]
      BY <1>0, <2>1, <2>3 DEF RecordTypes
    <3>2. QED
      BY <1>0, <2>1, <2>2, <2>3, <3>1, WishedOther
  <2>4. CASE g = f
    <3>1. q = Append(commands, c) /\ q \in Seq(Commands)
      BY <1>0, <2>2, AppendProperties
    <3> HIDE DEF q
    <3>2. /\ ~NoneFor(q, f)
          /\ \A k \in DOMAIN q : IsLast(q, f, k) => q[k] = c
          /\ \A k \in DOMAIN q : q[k] = c \/ (k \in DOMAIN commands /\ q[k] = commands[k])
      <4>1. About(c, f)
        BY <2>2 DEF About
      <4>2. ~NoneFor(q, f)
        BY <1>0, <2>2, <3>1, <4>1, NoneOfAppend
      <4>3. ASSUME NEW k \in DOMAIN q, IsLast(q, f, k) PROVE q[k] = c
        <5>1. k = Len(commands) + 1
          BY <1>0, <2>2, <3>1, <4>1, <4>3, LastIsNew
        <5>2. q[Len(commands) + 1] = c
          BY <1>0, <2>2, <3>1, AppendProperties
        <5>3. QED
          BY <5>1, <5>2
      <4>4. \A k \in DOMAIN q : q[k] = c \/ (k \in DOMAIN commands /\ q[k] = commands[k])
        BY <1>0, <2>2, <3>1, EntriesOfAppend
      <4>5. QED
        BY <4>1, <4>2, <4>3, <4>4
    <3>3. pid[f] = Unknown => \A k \in DOMAIN q : q[k].id = f => q[k].cmd # "set"
      BY <1>0, <1>2, <2>2, <2>4, <3>2 DEF Wished
    <3>4. ~NoneFor(q, f) /\ \A k \in DOMAIN q : IsLast(q, f, k) => q[k].value = desired[f]
      BY <2>2, <3>2
    <3>5. QED
      BY <1>0, <2>1, <2>4, <3>3, <3>4 DEF Wished, NoneFor, IsLast
  <2>5. QED
    BY <2>3, <2>4
<1>3. QED
  BY <1>1, <1>2

\* setPriority() behind the launcher sends the change, or leaves it unsent.
LEMMA WishedSet ==
    ASSUME IInv, NEW f \in Frontends, NEW v \in Priorities, setPriority(f, v),
           NEW g \in Frontends, asked'[g] = desired'[g]
    PROVE  Wished(g)'
<1>0. /\ Wished(g) /\ PriorityTypes /\ PidTypes /\ RecordTypes
      /\ commands \in Seq(Commands)
      /\ UNCHANGED <<remote, pid, proc, created>>
  BY DEF IInv, setPriority, record, PipeTypes
<1>1. CASE v = desired[f]
  <2>1. UNCHANGED <<desired, commands, nice, fate, unsent>>
    BY <1>1 DEF setPriority, priority
  <2>2. Unmoved(g)
    BY <2>1 DEF Unmoved
  <2>3. QED
    BY <1>0, <2>1, <2>2, WishedKept
<1>2. CASE v # desired[f] /\ ~remote[f]
  <2>1. setDesiredLocal(f, v)
    BY <1>2 DEF setPriority
  <2>2. UNCHANGED <<commands, unsent>>
    BY <2>1 DEF setDesiredLocal
  <2>3. g # f => desired'[g] = desired[g] /\ Unmoved(g)
    <3>1. desired' = [desired EXCEPT ![f] = v]
          /\ (UNCHANGED <<nice, fate>> \/ setpriority(f, pid[f], v))
      BY <2>1 DEF setDesiredLocal, setDesired, priority
    <3>2. UNCHANGED <<nice, fate>> => Unmoved(g)
      BY DEF Unmoved
    <3>3. setpriority(f, pid[f], v) /\ g # f => Unmoved(g)
      BY <1>0, SetEffect
    <3>4. QED
      BY <1>0, <3>1, <3>2, <3>3 DEF PriorityTypes
  <2>4. QED
    BY <1>0, <1>2, <2>2, <2>3, WishedKept
<1>3. CASE v # desired[f] /\ remote[f]
  <2> DEFINE c == [cmd |-> "set", id |-> f, value |-> v]
             q == Append(commands, c)
             b == pid[f] = Unknown /\ (~Answered(f) \/ proc[f] # 0)
  <2>1. setDesiredRemote(f, v)
    BY <1>3 DEF setPriority
  <2>2. /\ desired' = [desired EXCEPT ![f] = v] /\ UNCHANGED <<nice, fate>>
        /\ IF pid[f] # Unknown THEN commands' = q ELSE commands' = commands
    BY <2>1 DEF setDesiredRemote, setDesired, PidKnown, send, priority
  <2>3. unsent' = [unsent EXCEPT ![f] = b]
    BY <2>1, Zenon DEF setDesiredRemote
  <2>4. c \in Commands /\ c.id = f /\ c.cmd = "set" /\ c.value = v
    BY DEF Commands
  <2> HIDE DEF c
  <2>5. CASE g # f
    <3>1. unsent'[g] = unsent[g] /\ desired'[g] = desired[g]
      <4>1. desired'[g] = desired[g]
        BY <1>0, <2>2, <2>5 DEF PriorityTypes
      <4> HIDE DEF b
      <4>2. unsent'[g] = unsent[g]
        BY <1>0, <2>3, <2>5 DEF RecordTypes
      <4>3. QED
        BY <4>1, <4>2
    <3>2. CASE pid[f] # Unknown
      BY <1>0, <2>2, <2>4, <2>5, <3>1, <3>2, WishedOther
    <3>3. CASE pid[f] = Unknown
      <4>1. Unmoved(g)
        BY <2>2 DEF Unmoved
      <4>2. QED
        BY <1>0, <2>2, <2>5, <3>1, <3>3, <4>1, WishedKept
    <3>4. QED
      BY <3>2, <3>3
  <2>6. CASE g = f /\ pid[f] # Unknown
    <3>1. q = Append(commands, c) /\ q \in Seq(Commands)
      BY <1>0, <2>4, AppendProperties
    <3> HIDE DEF q
    <3>2. /\ ~NoneFor(q, f)
          /\ \A k \in DOMAIN q : IsLast(q, f, k) => q[k] = c
      <4>1. About(c, f)
        BY <2>4 DEF About
      <4>2. ~NoneFor(q, f)
        BY <1>0, <2>4, <3>1, <4>1, NoneOfAppend
      <4>3. ASSUME NEW k \in DOMAIN q, IsLast(q, f, k) PROVE q[k] = c
        <5>1. k = Len(commands) + 1
          BY <1>0, <2>4, <3>1, <4>1, <4>3, LastIsNew
        <5>2. q[Len(commands) + 1] = c
          BY <1>0, <2>4, <3>1, AppendProperties
        <5>3. QED
          BY <5>1, <5>2
      <4>4. QED
        BY <4>1, <4>2, <4>3
    <3>3. commands' = q /\ desired'[f] = v
      BY <1>0, <2>2, <2>6 DEF PriorityTypes
    <3>4. ~NoneFor(q, f) /\ \A k \in DOMAIN q : IsLast(q, f, k) => q[k].value = v
      BY <2>4, <3>2
    <3>5. QED
      BY <1>0, <2>6, <3>3, <3>4 DEF Wished, NoneFor, IsLast
  <2>7. CASE g = f /\ pid[f] = Unknown
    <3>1. commands' = commands /\ desired'[f] = v /\ nice'[f] = nice[f]
      BY <1>0, <2>2, <2>7 DEF PriorityTypes
    <3>2. unsent'[f] = b
      <4> HIDE DEF b
      <4>1. QED
        BY <1>0, <2>3 DEF RecordTypes
    <3>3. \A k \in DOMAIN commands : commands[k].id = f => commands[k].cmd = "start"
      <4>1. \A k \in DOMAIN commands : commands[k] \in Commands
        BY <1>0, ElementOfSeq, LenProperties
      <4>2. \A k \in DOMAIN commands : commands[k].id = f => commands[k].cmd # "set"
        BY <1>0, <1>3, <2>7 DEF Wished
      <4>3. QED
        BY <4>1, <4>2 DEF Commands
    <3>4. ~Answered(f) \/ proc[f] # 0 => b
      BY <2>7
    <3> HIDE DEF b
    <3>5. \A k \in DOMAIN commands : IsLast(commands, f, k) => unsent'[f]
      <4>1. \A k \in DOMAIN commands : IsLast(commands, f, k) => ~Answered(f)
        BY <3>3 DEF IsLast, Answered
      <4>2. QED
        BY <3>2, <3>4, <4>1
    <3>6. proc[f] # 0 => unsent'[f]
      BY <3>2, <3>4
    <3>7. pid[f] = Unknown =>
              \A k \in DOMAIN commands : commands[k].id = f => commands[k].cmd # "set"
      BY <1>0, <1>3, <2>7 DEF Wished
    <3>8. proc' = proc /\ pid' = pid /\ remote' = remote
      BY <1>0
    <3>9. QED
      BY <2>7, <3>1, <3>5, <3>6, <3>7, <3>8 DEF Wished, NoneFor, IsLast
  <2>8. QED
    BY <2>5, <2>6, <2>7
<1>4. QED
  BY <1>1, <1>2, <1>3

\* The launcher gives the process the priority it reads.
LEMMA WishedRead ==
    ASSUME IInv, LauncherReads, NEW g \in Frontends, asked'[g] = desired'[g]
    PROVE  Wished(g)'
<1> DEFINE c == Head(commands)
<1>0. /\ Wished(g) /\ PriorityTypes /\ PidTypes /\ commands \in Seq(Commands)
      /\ commands # <<>> /\ commands' = Tail(commands)
      /\ UNCHANGED <<remote, pid, desired, unsent>>
  BY ReadEffect DEF IInv, PipeTypes, backend, record, client
<1>1. /\ \A k \in DOMAIN commands' : k + 1 \in DOMAIN commands /\ commands'[k] = commands[k + 1]
      /\ c = commands[1]
      /\ NoneFor(commands', g) => NoneFor(commands, g) \/ IsLast(commands, g, 1)
      /\ \A k \in DOMAIN commands' : IsLast(commands', g, k) =>
             IsLast(commands, g, k + 1) /\ commands'[k] = commands[k + 1]
  BY <1>0, LastOfTail
<1>2. \/ born(c.id, c.value) /\ \E p \in FreePids : proc' = [proc EXCEPT ![c.id] = p]
      \/ UNCHANGED proc /\ setpriority(c.id, proc[c.id], c.value)
  BY ReadEffect
<1>3. c.id \in Frontends /\ c.value \in Priorities
  BY <1>0, HeadFacts DEF IInv
<1> HIDE DEF c
<1>4. c.id # g => proc'[g] = proc[g] /\ Unmoved(g)
  <2>1. c.id # g => proc'[g] = proc[g]
    BY <1>0, <1>2 DEF PidTypes
  <2>2. c.id # g => Unmoved(g)
    BY <1>0, <1>2, <1>3, BornEffect, SetEffect
  <2>3. QED
    BY <2>1, <2>2
<1>5. c.id = g /\ proc'[g] # 0 => Moved(g, c.value)
  <2> SUFFICES ASSUME c.id = g, proc'[g] # 0 PROVE Moved(g, c.value)
    OBVIOUS
  <2>1. CASE born(c.id, c.value)
    BY <1>0, <1>3, <2>1, BornEffect
  <2>2. CASE UNCHANGED proc /\ setpriority(c.id, proc[c.id], c.value)
    <3>1. Has(c.id, proc[c.id])
      BY <2>2 DEF Has
    <3>2. QED
      BY <1>0, <1>3, <2>2, <3>1, SetEffect
  <2>3. QED
    BY <1>2, <2>1, <2>2
<1>6. CASE remote[g]
  <2>1. pid[g] = Unknown =>
            \A k \in DOMAIN commands' : commands'[k].id = g => commands'[k].cmd # "set"
    BY <1>0, <1>1, <1>6 DEF Wished
  <2>2. \A k \in DOMAIN commands' : IsLast(commands', g, k) =>
           commands'[k].value = desired[g] \/ unsent[g]
    BY <1>0, <1>1, <1>6 DEF Wished
  <2>3. ASSUME proc'[g] # 0, NoneFor(commands', g)
        PROVE  nice'[g] = desired[g] \/ unsent[g] \/ fate'[g] # "set"
    <3>1. CASE c.id # g
      <4>1. ~IsLast(commands, g, 1)
        BY <1>1, <3>1 DEF IsLast
      <4>2. QED
        BY <1>0, <1>1, <1>4, <1>6, <2>3, <3>1, <4>1 DEF Wished, Unmoved
    <3>2. CASE c.id = g
      <4>1. 1 \in DOMAIN commands
        BY <1>0, LastOfTail
      <4>2. ~NoneFor(commands, g)
        BY <1>1, <3>2, <4>1 DEF NoneFor
      <4>3. IsLast(commands, g, 1)
        BY <1>1, <2>3, <4>2
      <4>4. c.value = desired[g] \/ unsent[g]
        BY <1>0, <1>1, <1>6, <4>3 DEF Wished
      <4>5. QED
        BY <1>5, <2>3, <3>2, <4>4 DEF Moved
    <3>3. QED
      BY <3>1, <3>2
  <2>4. QED
    BY <1>0, <2>1, <2>2, <2>3 DEF Wished, NoneFor, IsLast
<1>7. CASE ~remote[g]
  BY <1>0, <1>7 DEF Wished
<1>8. QED
  BY <1>6, <1>7

\* A step leaves every wish on its way, fulfilled, or unsent.
LEMMA NextWished == ASSUME IInv, [Next]_vars, NEW f \in Frontends PROVE Wished(f)'
<1>0. /\ Wished(f) /\ asked'[f] = desired'[f]
      /\ PidTypes /\ RecordTypes /\ PriorityTypes /\ Uncreated /\ backend_count \in Nat
      /\ UNCHANGED <<nice, fate>> => Unmoved(f)
  BY NextAsked, RegistryAssumption DEF IInv, ListTypes, Unmoved
<1>1. ASSUME NEW i \in Identifiers, NEW r \in BOOLEAN, create(i, r) PROVE Wished(f)'
  <2> DEFINE g == backend_count + 1
  <2>1. /\ remote' = [remote EXCEPT ![g] = r]
        /\ pid' = [pid EXCEPT ![g] = IF r THEN Unknown ELSE 0]
        /\ UNCHANGED <<desired, unsent, commands, proc, nice, fate>>
    BY <1>1 DEF create, newBackend, newRemoteBackend, kernel, priority, pipe, client
  <2>2. CASE f # g
    BY <1>0, <2>1, <2>2, WishedKept DEF PidTypes, RecordTypes
  <2>3. CASE f = g
    <3>1. ~remote[f] /\ proc[f] = 0
      BY <1>0, <2>3 DEF Uncreated
    <3>2. \A k \in DOMAIN commands : commands[k].id # f
      BY <3>1, PipeFacts DEF IInv
    <3>3. proc'[f] = 0 /\ commands' = commands
      BY <2>1, <3>1
    <3>4. QED
      BY <1>0, <3>2, <3>3 DEF Wished, IsLast
  <2>4. QED
    BY <2>2, <2>3
<1>2. ASSUME NEW g \in Frontends, start(g) PROVE Wished(f)'
  BY <1>0, <1>2, WishedStart
<1>3. ASSUME NEW g \in Frontends, Delete(g) PROVE Wished(f)'
  BY <1>0, <1>3, WishedKept DEF Delete, backend, record, kernel, priority, pipe, client
<1>4. ASSUME NEW g \in Frontends, Reaped(g) PROVE Wished(f)'
  <2>1. /\ proc' = [proc EXCEPT ![g] = 0] /\ ~remote[g]
        /\ UNCHANGED <<pid, remote, nice, fate, desired, unsent, commands>>
    BY <1>4 DEF Reaped, record, priority, pipe, client
  <2>2. remote[f] => proc'[f] = proc[f]
    BY <1>0, <2>1 DEF PidTypes
  <2>3. QED
    BY <1>0, <2>1, <2>2, WishedKept
<1>12. ASSUME NEW g \in Frontends, CrashNoticed(g) PROVE Wished(f)'
  BY <1>0, <1>12, WishedKept DEF CrashNoticed, record, kernel, priority, pipe, client
<1>13. ASSUME NEW g \in Frontends, Finished(g) PROVE Wished(f)'
  <2>1. /\ pid' = [pid EXCEPT ![g] = 0] /\ ~remote[g]
        /\ UNCHANGED <<proc, remote, nice, fate, desired, unsent, commands>>
    BY <1>13 DEF IInv, Ending, Finished, PidAfter, record, kernel, priority, pipe, client,
                 Frontends, None
  <2>2. remote[f] => pid'[f] = pid[f]
    BY <1>0, <2>1 DEF PidTypes
  <2>3. QED
    BY <1>0, <2>1, <2>2, WishedKept
<1>5. ASSUME NEW g \in Frontends, LauncherReaps(g) PROVE Wished(f)'
  <2>1. /\ proc' = [proc EXCEPT ![g] = 0]
        /\ UNCHANGED <<pid, remote, nice, fate, desired, unsent, commands>>
    BY <1>5 DEF LauncherReaps, backend, record, priority, client
  <2>2. proc'[f] = 0 \/ proc'[f] = proc[f]
    BY <1>0, <2>1 DEF PidTypes
  <2>3. QED
    BY <1>0, <2>1, <2>2, WishedKept
<1>6. ASSUME NEW g \in Frontends, NEW v \in Priorities, setPriority(g, v) PROVE Wished(f)'
  BY <1>0, <1>6, WishedSet
<1>7. ASSUME processFrontendDestroyed PROVE Wished(f)'
  <2> DEFINE g == Last(dying)
  <2>1. /\ proc' = [proc EXCEPT ![g] = IF remote[g] THEN @ ELSE 0]
        /\ pid' = [pid EXCEPT ![g] = IF remote[g] THEN @ ELSE 0]
        /\ UNCHANGED <<remote, nice, fate, desired, unsent, commands>>
    BY <1>7 DEF processFrontendDestroyed, record, priority, pipe
  <2> HIDE DEF g
  <2>2. remote[f] => pid'[f] = pid[f] /\ proc'[f] = proc[f]
    BY <1>0, <2>1 DEF PidTypes
  <2>3. QED
    BY <1>0, <2>1, <2>2, WishedKept
<1>8. ASSUME LauncherReads PROVE Wished(f)'
  BY <1>0, <1>8, WishedRead
<1>9. ASSUME receive PROVE Wished(f)'
  <2> DEFINE e == Head(events)
  <2>1. /\ UNCHANGED <<remote, proc, nice, fate, desired, unsent, commands>>
        /\ events # <<>>
    BY <1>9 DEF receive, record, kernel, priority, client
  <2>2. UNCHANGED pid \/ pid' = [pid EXCEPT ![e.id] = IF e.event = "started" THEN e.pid ELSE @]
    BY <1>9 DEF receive
  <2>3. /\ e.event = "started" => e.pid # Unknown
        /\ remote[e.id]
    <3>1. remote[e.id] /\ (e.event = "started" => e.pid \in Pids)
      BY <2>1, HeadFacts DEF IInv
    <3>2. Unknown \notin Pids
      BY RegistryAssumption DEF Unknown
    <3>3. QED
      BY <3>1, <3>2
  <2> HIDE DEF e
  <2>4. pid'[f] = Unknown => pid[f] = Unknown
    BY <1>0, <2>2, <2>3 DEF PidTypes
  <2>5. commands' = commands /\ remote'[f] = remote[f] /\ proc'[f] = proc[f] /\ nice'[f] = nice[f]
        /\ desired'[f] = desired[f] /\ unsent'[f] = unsent[f] /\ fate'[f] = fate[f]
    BY <2>1
  <2>6. CASE remote[f]
    <3>1. pid'[f] = Unknown =>
              \A k \in DOMAIN commands' : commands'[k].id = f => commands'[k].cmd # "set"
      BY <1>0, <2>4, <2>5, <2>6 DEF Wished
    <3>2. proc'[f] # 0 /\ NoneFor(commands', f) =>
              nice'[f] = desired'[f] \/ unsent'[f] \/ fate'[f] # "set"
      BY <1>0, <2>5, <2>6 DEF Wished
    <3>3. \A k \in DOMAIN commands' :
              IsLast(commands', f, k) => commands'[k].value = desired'[f] \/ unsent'[f]
      BY <1>0, <2>5, <2>6 DEF Wished
    <3>4. QED
      BY <1>0, <3>1, <3>2, <3>3 DEF Wished, NoneFor, IsLast
  <2>7. CASE ~remote[f]
    BY <1>0, <2>5, <2>7 DEF Wished
  <2>8. QED
    BY <2>6, <2>7
<1>10. CASE UNCHANGED vars
  BY <1>0, <1>10, WishedKept DEF vars, backend, record, kernel, priority, pipe, client
<1>11. QED
  BY <1>1, <1>2, <1>3, <1>4, <1>5, <1>6, <1>7, <1>8, <1>9, <1>10, <1>12, <1>13 DEF Next

(***************************************************************************)
(* News of pids on their way back.                                         *)
(***************************************************************************)

\* No step brings a frontend back to life, except for a new one.
LEMMA StillLiving ==
    ASSUME IInv, [Next]_vars, NEW f \in Frontends, f \in Living'
    PROVE  f \in Living \/ (f = backend_count + 1 /\ backend_count' = f)
<1>0. /\ f \in (1 .. backend_count') \ destroyed'
      /\ \A k \in DOMAIN dying' : dying'[k] # f
  BY DEF Living, ToSet
<1>1. CASE UNCHANGED <<backend_count, dying, destroyed>>
  BY <1>1 DEF Living, ToSet
<1>2. ASSUME NEW i \in Identifiers, NEW r \in BOOLEAN, create(i, r)
      PROVE  f \in Living \/ (f = backend_count + 1 /\ backend_count' = f)
  <2>1. backend_count' = backend_count + 1 /\ UNCHANGED <<dying, destroyed>>
    BY <1>2 DEF create, newBackend, slots, client
  <2>2. backend_count \in Nat
    BY RegistryAssumption DEF IInv, ListTypes
  <2>3. QED
    BY <1>0, <2>1, <2>2 DEF Living, ToSet
<1>3. ASSUME NEW g \in Frontends, Delete(g) PROVE f \in Living
  <2>1. dying' = Append(dying, g) /\ UNCHANGED <<backend_count, destroyed>>
    BY <1>3 DEF Delete, client
  <2>2. dying \in Seq(Frontends)
    BY DEF IInv, ListTypes
  <2>3. /\ Len(dying') = Len(dying) + 1 /\ dying' \in Seq(Frontends)
        /\ \A k \in 1 .. Len(dying) : dying'[k] = dying[k]
    BY <2>1, <2>2, AppendProperties
  <2>4. /\ Len(dying) \in Nat /\ DOMAIN dying = 1 .. Len(dying)
        /\ DOMAIN dying' = 1 .. Len(dying) + 1
    BY <2>2, <2>3, LenProperties
  <2>5. \A k \in DOMAIN dying : dying[k] # f
    BY <1>0, <2>3, <2>4
  <2>6. QED
    BY <1>0, <2>1, <2>5 DEF Living, ToSet
<1>4. ASSUME processFrontendDestroyed PROVE f \in Living
  <2> DEFINE n == Len(dying)
             d == Front(dying)
  <2>1. /\ dying' = d /\ dying # <<>> /\ destroyed' = destroyed \cup {Last(dying)}
        /\ UNCHANGED backend_count
    BY <1>4 DEF processFrontendDestroyed
  <2>2. dying \in Seq(Frontends)
    BY DEF IInv, ListTypes
  <2>3. n \in Nat \ {0} /\ DOMAIN dying = 1 .. n /\ Last(dying) = dying[n]
    BY <2>1, <2>2, LenProperties, EmptySeq DEF Last
  <2>4. d = SubSeq(dying, 1, n - 1) /\ \A k \in 1 .. n - 1 : dying[k] \in Frontends
    BY <2>2, <2>3, ElementOfSeq DEF Front
  <2>5. /\ Len(d) = IF 1 <= n - 1 THEN n - 1 - 1 + 1 ELSE 0
        /\ d \in Seq(Frontends)
        /\ \A k \in 1 .. n - 1 - 1 + 1 : d[k] = dying[1 + k - 1]
    BY <2>3, <2>4, SubSeqProperties
  <2> HIDE DEF d, n
  <2>6. Len(d) = n - 1
    BY <2>3, <2>5
  <2>7. DOMAIN d = 1 .. Len(d)
    BY <2>5, LenProperties
  <2>8. \A k \in DOMAIN dying : dying[k] # f
    <3>1. dying[n] # f
      BY <1>0, <2>1, <2>3
    <3>2. \A k \in 1 .. n - 1 : dying[k] # f
      BY <1>0, <2>1, <2>3, <2>5, <2>6, <2>7
    <3>3. \A k \in 1 .. n : k = n \/ k \in 1 .. n - 1
      BY <2>3
    <3>4. QED
      BY <2>3, <3>1, <3>2, <3>3
  <2>9. QED
    BY <1>0, <2>1, <2>8 DEF Living, ToSet
<1>5. QED
  BY <1>1, <1>2, <1>3, <1>4
  DEF Next, vars, start, Reaped, CrashNoticed, Finished, LauncherReaps, setPriority,
      LauncherReads, receive, client, manager, slots

\* A step that leaves alone what Known says of f.
LEMMA KnownKept ==
    ASSUME NEW f \in Frontends, Known(f), f \in Living' => f \in Living,
           remote'[f] = remote[f], UNCHANGED events,
           remote[f] => pid'[f] = pid[f] /\ proc'[f] = proc[f]
    PROVE  Known(f)'
<1> SUFFICES ASSUME remote'[f], f \in Living', proc'[f] # 0
             PROVE  /\ NoneFor(events', f) => pid'[f] = proc'[f]
                    /\ \A k \in DOMAIN events' : IsLast(events', f, k) =>
                           events'[k].event = "started" /\ events'[k].pid = proc'[f]
  BY DEF Known, NoneFor, IsLast
<1>1. remote[f] /\ f \in Living /\ proc[f] # 0 /\ pid'[f] = pid[f] /\ proc'[f] = proc[f]
  OBVIOUS
<1>2. /\ NoneFor(events, f) => pid[f] = proc[f]
      /\ \A k \in DOMAIN events : IsLast(events, f, k) =>
             events[k].event = "started" /\ events[k].pid = proc[f]
  BY <1>1 DEF Known
<1>3. events' = events
  OBVIOUS
<1>4. QED
  BY <1>1, <1>2, <1>3

\* News of other frontends leave what Known says of f alone.
LEMMA KnownOther ==
    ASSUME IInv, NEW f \in Frontends, f \in Living' => f \in Living,
           NEW e \in Events, e.id # f, events' = Append(events, e),
           UNCHANGED <<remote, pid>>, proc'[f] = proc[f]
    PROVE  Known(f)'
<1> DEFINE q == events'
<1>1. Known(f) /\ events \in Seq(Events)
  BY DEF IInv, PipeTypes
<1>2. q \in Seq(Events)
  BY <1>1, AppendProperties
<1>3. ~About(e, f)
  BY DEF About
<1>4. NoneFor(q, f) => NoneFor(events, f)
  BY <1>1, <1>2, NoneOfAppend
<1>5. \A k \in DOMAIN q : IsLast(q, f, k) => k \in DOMAIN events /\ IsLast(events, f, k)
  BY <1>1, <1>2, <1>3, LastIsOld
<1>6. \A k \in DOMAIN q : q[k] = e \/ (k \in DOMAIN events /\ q[k] = events[k])
  BY <1>1, <1>2, EntriesOfAppend
<1>7. events' = q
  OBVIOUS
<1> HIDE DEF q
<1>8. ASSUME remote[f], f \in Living', proc[f] # 0
      PROVE  /\ NoneFor(q, f) => pid[f] = proc[f]
             /\ \A k \in DOMAIN q : IsLast(q, f, k) => q[k].event = "started" /\ q[k].pid = proc[f]
  <2>1. /\ NoneFor(events, f) => pid[f] = proc[f]
        /\ \A k \in DOMAIN events : IsLast(events, f, k) =>
               events[k].event = "started" /\ events[k].pid = proc[f]
    BY <1>1, <1>8 DEF Known
  <2>2. ASSUME NEW k \in DOMAIN q, IsLast(q, f, k)
        PROVE  q[k].event = "started" /\ q[k].pid = proc[f]
    <3>1. k \in DOMAIN events /\ IsLast(events, f, k)
      BY <1>5, <2>2
    <3>2. q[k].id = f
      BY <2>2 DEF IsLast
    <3>3. q[k] = events[k]
      BY <1>6, <3>2
    <3>4. QED
      BY <2>1, <3>1, <3>3
  <2>3. QED
    BY <1>4, <2>1, <2>2
<1>9. remote' = remote /\ pid' = pid /\ proc'[f] = proc[f]
  OBVIOUS
<1>10. QED
  BY <1>7, <1>8, <1>9 DEF Known, NoneFor, IsLast

\* What a message of the launcher's brings to the backend.
LEMMA KnownReceived ==
    ASSUME IInv, receive, NEW f \in Frontends
    PROVE  Known(f)'
<1> DEFINE e == Head(events)
<1>1. /\ events # <<>> /\ events' = Tail(events) /\ events \in Seq(Events)
      /\ Known(f) /\ PidTypes
      /\ UNCHANGED <<remote, proc, backend_count, dying, destroyed>>
  BY DEF IInv, PipeTypes, receive, record, kernel, manager, slots, client
<1>2. Living' = Living
  BY <1>1 DEF Living, ToSet
<1>3. IF e.id \in Living
      THEN pid' = [pid EXCEPT ![e.id] = IF e.event = "started" THEN e.pid ELSE @]
      ELSE pid' = pid
  BY DEF receive
<1>4. /\ e = events[1] /\ 1 \in DOMAIN events
      /\ \A k \in DOMAIN events' : k + 1 \in DOMAIN events /\ events'[k] = events[k + 1]
      /\ NoneFor(events', f) => NoneFor(events, f) \/ IsLast(events, f, 1)
      /\ \A k \in DOMAIN events' : IsLast(events', f, k) =>
             IsLast(events, f, k + 1) /\ events'[k] = events[k + 1]
  BY <1>1, LastOfTail
<1> HIDE DEF e
<1> SUFFICES ASSUME remote[f], f \in Living, proc[f] # 0
             PROVE  /\ NoneFor(events', f) => pid'[f] = proc[f]
                    /\ \A k \in DOMAIN events' : IsLast(events', f, k) =>
                           events'[k].event = "started" /\ events'[k].pid = proc[f]
  BY <1>1, <1>2 DEF Known, NoneFor, IsLast
<1>5. /\ NoneFor(events, f) => pid[f] = proc[f]
      /\ \A k \in DOMAIN events : IsLast(events, f, k) =>
             events[k].event = "started" /\ events[k].pid = proc[f]
  BY <1>1 DEF Known
<1>6. ASSUME NoneFor(events', f) PROVE pid'[f] = proc[f]
  <2>1. CASE e.id = f
    <3>1. ~NoneFor(events, f)
      BY <1>4, <2>1 DEF NoneFor
    <3>2. IsLast(events, f, 1)
      BY <1>4, <1>6, <3>1
    <3>3. e.event = "started" /\ e.pid = proc[f]
      BY <1>4, <1>5, <3>2
    <3>4. QED
      BY <1>1, <1>3, <2>1, <3>3 DEF PidTypes
  <2>2. CASE e.id # f
    <3>1. ~IsLast(events, f, 1)
      BY <1>4, <2>2 DEF IsLast
    <3>2. pid[f] = proc[f]
      BY <1>4, <1>5, <1>6, <3>1
    <3>3. QED
      BY <1>1, <1>3, <2>2, <3>2 DEF PidTypes
  <2>3. QED
    BY <2>1, <2>2
<1>7. \A k \in DOMAIN events' : IsLast(events', f, k) =>
          events'[k].event = "started" /\ events'[k].pid = proc[f]
  BY <1>4, <1>5
<1>8. QED
  BY <1>6, <1>7

\* A step leaves the pid of every process behind the launcher known or on its way.
LEMMA NextKnown == ASSUME IInv, [Next]_vars, NEW f \in Frontends PROVE Known(f)'
<1>0. /\ Known(f) /\ PidTypes /\ RecordTypes /\ Uncreated /\ backend_count \in Nat
      /\ events \in Seq(Events)
      /\ f \in Living' => f \in Living \/ (f = backend_count + 1 /\ backend_count' = f)
  BY StillLiving, RegistryAssumption DEF IInv, ListTypes, PipeTypes
<1>1. ASSUME NEW i \in Identifiers, NEW r \in BOOLEAN, create(i, r) PROVE Known(f)'
  <2> DEFINE g == backend_count + 1
  <2>1. /\ remote' = [remote EXCEPT ![g] = r]
        /\ pid' = [pid EXCEPT ![g] = IF r THEN Unknown ELSE 0]
        /\ UNCHANGED <<proc, events>>
    BY <1>1 DEF create, newBackend, newRemoteBackend, kernel, pipe
  <2>2. CASE f # g
    <3>1. f \in Living' => f \in Living
      BY <1>0, <2>2
    <3>2. pid'[f] = pid[f] /\ remote'[f] = remote[f]
      BY <1>0, <2>1, <2>2 DEF PidTypes, RecordTypes
    <3>3. QED
      BY <1>0, <2>1, <3>1, <3>2, KnownKept
  <2>3. CASE f = g
    <3>1. proc'[f] = 0
      BY <1>0, <2>1, <2>3 DEF Uncreated
    <3>2. QED
      BY <3>1 DEF Known
  <2>4. QED
    BY <2>2, <2>3
<1>2. ASSUME NEW g \in Frontends, start(g) PROVE Known(f)'
  <2>1. UNCHANGED <<remote, events, backend_count>>
    BY <1>2 DEF start, record, manager
  <2>2. f \in Living' => f \in Living
    BY <1>0, <2>1
  <2>3. remote[f] => pid'[f] = pid[f] /\ proc'[f] = proc[f]
    BY <1>0, <1>2, StartEffect DEF PidTypes
  <2>4. QED
    BY <1>0, <2>1, <2>2, <2>3, KnownKept
<1>3. ASSUME NEW g \in Frontends, Delete(g) PROVE Known(f)'
  <2>1. UNCHANGED <<remote, events, backend_count, pid, proc>>
    BY <1>3 DEF Delete, backend, record, kernel, pipe
  <2>2. f \in Living' => f \in Living
    BY <1>0, <2>1
  <2>3. QED
    BY <1>0, <2>1, <2>2, KnownKept
<1>4. ASSUME NEW g \in Frontends, Reaped(g) PROVE Known(f)'
  <2>1. /\ proc' = [proc EXCEPT ![g] = 0] /\ ~remote[g]
        /\ UNCHANGED <<pid, remote, events, backend_count>>
    BY <1>4 DEF Reaped, record, pipe
  <2>2. f \in Living' => f \in Living
    BY <1>0, <2>1
  <2>3. remote[f] => proc'[f] = proc[f]
    BY <1>0, <2>1 DEF PidTypes
  <2>4. QED
    BY <1>0, <2>1, <2>2, <2>3, KnownKept
<1>12. ASSUME NEW g \in Frontends, CrashNoticed(g) PROVE Known(f)'
  <2>1. UNCHANGED <<remote, events, backend_count, pid, proc>>
    BY <1>12 DEF CrashNoticed, manager, record, kernel, pipe
  <2>2. f \in Living' => f \in Living
    BY <1>0, <2>1
  <2>3. QED
    BY <1>0, <2>1, <2>2, KnownKept
<1>13. ASSUME NEW g \in Frontends, Finished(g) PROVE Known(f)'
  <2>1. /\ pid' = [pid EXCEPT ![g] = 0] /\ ~remote[g]
        /\ UNCHANGED <<proc, remote, events, backend_count>>
    BY <1>13 DEF IInv, Ending, Finished, PidAfter, record, kernel, pipe, Frontends, None
  <2>2. f \in Living' => f \in Living
    BY <1>0, <2>1
  <2>3. remote[f] => pid'[f] = pid[f]
    BY <1>0, <2>1 DEF PidTypes
  <2>4. QED
    BY <1>0, <2>1, <2>2, <2>3, KnownKept
<1>5. ASSUME NEW g \in Frontends, LauncherReaps(g) PROVE Known(f)'
  <2> DEFINE e == [event |-> "finished", id |-> g, pid |-> 0]
  <2>1. /\ proc' = [proc EXCEPT ![g] = 0] /\ events' = Append(events, e)
        /\ UNCHANGED <<remote, pid, backend_count>>
    BY <1>5 DEF LauncherReaps, backend, record, manager
  <2>2. CASE f = g
    <3>1. proc'[f] = 0
      BY <1>0, <2>1, <2>2 DEF PidTypes
    <3>2. QED
      BY <3>1 DEF Known
  <2>3. CASE f # g
    <3>1. e \in Events /\ e.id # f
      BY <2>3 DEF Events
    <3>2. proc'[f] = proc[f]
      BY <1>0, <2>1, <2>3 DEF PidTypes
    <3> HIDE DEF e
    <3>3. QED
      BY <1>0, <2>1, <3>1, <3>2, KnownOther
  <2>4. QED
    BY <2>2, <2>3
<1>6. ASSUME NEW g \in Frontends, NEW v \in Priorities, setPriority(g, v) PROVE Known(f)'
  <2>1. UNCHANGED <<remote, events, backend_count, pid, proc>>
    BY <1>6 DEF setPriority, record, manager
  <2>2. f \in Living' => f \in Living
    BY <1>0, <2>1
  <2>3. QED
    BY <1>0, <2>1, <2>2, KnownKept
<1>7. ASSUME processFrontendDestroyed PROVE Known(f)'
  <2> DEFINE g == Last(dying)
  <2>1. /\ proc' = [proc EXCEPT ![g] = IF remote[g] THEN @ ELSE 0]
        /\ pid' = [pid EXCEPT ![g] = IF remote[g] THEN @ ELSE 0]
        /\ UNCHANGED <<remote, events, backend_count>>
    BY <1>7 DEF processFrontendDestroyed, record, pipe
  <2> HIDE DEF g
  <2>2. f \in Living' => f \in Living
    BY <1>0, <2>1
  <2>3. remote[f] => pid'[f] = pid[f] /\ proc'[f] = proc[f]
    BY <1>0, <2>1 DEF PidTypes
  <2>4. QED
    BY <1>0, <2>1, <2>2, <2>3, KnownKept
<1>8. ASSUME LauncherReads PROVE Known(f)'
  <2> DEFINE c == Head(commands)
             e(p) == [event |-> "started", id |-> c.id, pid |-> p]
  <2>1. /\ UNCHANGED <<remote, pid, backend_count>>
        /\ c.id \in Frontends
    BY <1>8, HeadFacts, ReadEffect DEF IInv, backend, record, manager
  <2>2. f \in Living' => f \in Living
    BY <1>0, <2>1
  <2>3. CASE UNCHANGED <<proc, events>>
    BY <1>0, <2>1, <2>2, <2>3, KnownKept
  <2>4. ASSUME NEW p \in FreePids, proc' = [proc EXCEPT ![c.id] = p],
               events' = Append(events, e(p))
        PROVE  Known(f)'
    <3>1. e(p) \in Events /\ e(p).id = c.id /\ e(p).pid = p /\ e(p).event = "started"
      BY <2>1, FreeFacts DEF Events
    <3> DEFINE m == e(p)
               q == events'
    <3>2. m \in Events /\ m.id = c.id /\ m.pid = p /\ m.event = "started" /\ q = Append(events, m)
      BY <2>4, <3>1
    <3> HIDE DEF m, e, c
    <3>3. CASE f # c.id
      <4>1. proc'[f] = proc[f]
        BY <1>0, <2>4, <3>3 DEF PidTypes
      <4>2. QED
        BY <2>1, <2>2, <3>2, <3>3, <4>1, KnownOther
    <3>4. CASE f = c.id
      <4>1. proc'[f] = p
        BY <1>0, <2>1, <2>4, <3>4 DEF PidTypes
      <4>2. q \in Seq(Events)
        BY <1>0, <3>2, AppendProperties
      <4>3. About(m, f)
        BY <3>2, <3>4 DEF About
      <4>4. NoneFor(q, f) => ~About(m, f)
        BY <1>0, <3>2, <4>2, NoneOfAppend
      <4>5. ASSUME NEW k \in DOMAIN q, IsLast(q, f, k) PROVE q[k] = m
        <5>1. k = Len(events) + 1
          BY <1>0, <3>2, <4>2, <4>3, <4>5, LastIsNew
        <5>2. q[Len(events) + 1] = m
          BY <1>0, <3>2, AppendProperties
        <5>3. QED
          BY <5>1, <5>2
      <4>6. \A k \in DOMAIN q : IsLast(q, f, k) => q[k].event = "started" /\ q[k].pid = p
        BY <3>2, <4>3, <4>5
      <4>7. events' = q
        OBVIOUS
      <4> HIDE DEF q
      <4>8. QED
        BY <4>1, <4>3, <4>4, <4>6, <4>7 DEF Known, NoneFor, IsLast
    <3>5. QED
      BY <3>3, <3>4
  <2>5. QED
    BY <1>8, <2>3, <2>4, ReadEffect
<1>9. ASSUME receive PROVE Known(f)'
  BY <1>9, KnownReceived
<1>10. CASE UNCHANGED vars
  <2>1. UNCHANGED <<remote, events, backend_count, pid, proc>>
    BY <1>10 DEF vars, backend, record, kernel, pipe, manager
  <2>2. f \in Living' => f \in Living
    BY <1>0, <2>1
  <2>3. QED
    BY <1>0, <2>1, <2>2, KnownKept
<1>11. QED
  BY <1>1, <1>2, <1>3, <1>4, <1>5, <1>6, <1>7, <1>8, <1>9, <1>10, <1>12, <1>13 DEF Next

(***************************************************************************)
(* The theorems.                                                           *)
(***************************************************************************)

\* The invariant holds in the beginning.
LEMMA InitInv == Init => IInv
<1> SUFFICES ASSUME Init PROVE IInv
  OBVIOUS
<1>1. /\ m_processlist = <<>> /\ dying = <<>> /\ commands = <<>> /\ events = <<>>
      /\ backend_count = 0 /\ destroyed = {} /\ announced = NoName /\ ended = None
  BY DEF Init
<1>2. DOMAIN <<>> = {} /\ \A S : <<>> \in Seq(S)
  BY LenProperties, EmptySeq
<1>3. ListTypes /\ Numbered /\ PipeTypes /\ Messages
  BY <1>1, <1>2, RegistryAssumption DEF ListTypes, Numbered, PipeTypes, Messages
<1>4. ListIsLiving /\ Announced
  <2>1. ToSet(m_processlist) = {} /\ 1 .. backend_count = {}
    BY <1>1, <1>2 DEF ToSet
  <2>2. QED
    BY <1>1, <1>2, <2>1 DEF ListIsLiving, Announced
<1>5. RecordTypes /\ PidTypes /\ PriorityTypes /\ CallTypes
  <2>1. RecordTypes
    BY DEF Init, RecordTypes
  <2>2. PidTypes
    BY DEF Init, PidTypes
  <2>3. PriorityTypes
    BY RegistryAssumption DEF Init, PriorityTypes
  <2>4. CallTypes
    <3>1. starts = 0 /\ sets = 0 /\ MaxStarts \in Nat /\ MaxSets \in Nat
      BY RegistryAssumption DEF Init
    <3>2. QED
      BY <3>1 DEF CallTypes
  <2>5. QED
    BY <2>1, <2>2, <2>3, <2>4
<1>6. Uncreated /\ Ending /\ Owned
  BY DEF Init, Uncreated, Ending, Owned, Local
<1>7. \A f \in Frontends : Wished(f) /\ Known(f)
  BY DEF Init, Wished, Known
<1>8. QED
  BY <1>3, <1>4, <1>5, <1>6, <1>7 DEF IInv

\* Every step keeps it.
LEMMA NextInv == IInv /\ [Next]_vars => IInv'
<1> SUFFICES ASSUME IInv, [Next]_vars PROVE IInv'
  OBVIOUS
<1>1. ListTypes' /\ Numbered' /\ ListIsLiving'
  BY NextList DEF ListPart
<1>2. RecordTypes' /\ PidTypes' /\ PriorityTypes' /\ CallTypes' /\ PipeTypes' /\ Messages'
  BY NextRecordTypes, NextPidTypes, NextPriorityTypes, NextPipe
<1>3. Announced' /\ Ending' /\ Uncreated' /\ Owned'
  BY NextAnnounced, NextEnding, NextOwned DEF OwnedPart
<1>4. \A f \in Frontends : Wished(f)' /\ Known(f)'
  BY NextWished, NextKnown
<1>5. QED
  BY <1>1, <1>2, <1>3, <1>4 DEF IInv, Frontends

\* In every run the list is that of the living, pids have one owner, and priorities and
\* pids are known at both ends of the pipe to the launcher or on their way through it.
THEOREM Invariance == Spec => []IInv
BY InitInv, NextInv, PTL DEF Spec

\* A list of frontends is one that a lookup can search.
LEMMA Searchable == IInv => m_processlist \in Seq(Nat \ {None})
<1> SUFFICES ASSUME IInv PROVE m_processlist \in Seq(Nat \ {None})
  OBVIOUS
<1>1. m_processlist \in Seq(Frontends)
  BY DEF IInv, ListTypes
<1>2. Frontends \subseteq Nat \ {None}
  BY DEF Frontends, None
<1>3. /\ Len(m_processlist) \in Nat
      /\ m_processlist \in [1 .. Len(m_processlist) -> Nat \ {None}]
  <2>1. /\ Len(m_processlist) \in Nat
        /\ m_processlist \in [1 .. Len(m_processlist) -> Frontends]
    BY <1>1, LenProperties
  <2>2. QED
    BY <1>2, <2>1
<1>4. QED
  BY <1>3, SeqDef

\* The invariant lets every name be found.
LEMMA NamesFound == IInv => AnnouncedCanBeFound
<1> SUFFICES ASSUME IInv PROVE AnnouncedCanBeFound
  OBVIOUS
<1>1. m_processlist \in Seq(Nat \ {None})
  BY Searchable
<1>2. ASSUME NEW k \in DOMAIN m_processlist
      PROVE  /\ m_processlist[k] \in Frontends
             /\ processForName(name(m_processlist[k])) = m_processlist[k]
  <2> DEFINE f == m_processlist[k]
             those == {g \in Frontends : name(g) = name(f)}
  <2>1. f \in Frontends
    BY <1>2, ElementOfSeq, LenProperties DEF IInv, ListTypes
  <2>2. f \in ToSet(m_processlist)
    BY <1>2 DEF ToSet
  <2> HIDE DEF f
  <2>3. \A g \in those : g = f
    BY DEF name
  <2>4. f \in those
    BY <2>1
  <2>5. processForName(name(f)) = FirstOf(those)
    BY DEF processForName
  <2> HIDE DEF those
  <2>6. FirstOf(those) # None
    BY <1>1, <2>2, <2>4, FirstFound
  <2>7. FirstOf(those) \in those
    BY <1>1, <2>6, FirstFound
  <2>8. QED
    BY <2>1, <2>3, <2>5, <2>7 DEF f
<1>3. ASSUME announced # NoName, ~DestructionAnnounced
      PROVE  announced \in ToSet(names) /\ processForName(announced) \in Living
  <2>1. PICK k \in DOMAIN m_processlist : /\ announced = name(m_processlist[k])
                                          /\ m_processlist[k] \in Living
    BY <1>3, Zenon DEF IInv, Announced
  <2>2. names[k] = announced /\ k \in DOMAIN names
    BY <2>1 DEF names
  <2>3. announced \in ToSet(names)
    BY <2>2 DEF ToSet
  <2>4. QED
    BY <1>2, <2>1, <2>3
<1>4. ASSUME NEW f \in Living PROVE processForName(name(f)) = f
  <2>1. f \in ToSet(m_processlist)
    BY LivingFacts DEF IInv
  <2>2. PICK k \in DOMAIN m_processlist : m_processlist[k] = f
    BY <2>1 DEF ToSet
  <2>3. QED
    BY <1>2, <2>2
<1>5. QED
  BY <1>3, <1>4 DEF AnnouncedCanBeFound

\* The list and the names that are announced are those of the living
\* (qprocessmanager.cpp:139 and 308, qdeclarativeprocessmanager.cpp:297), however many
\* frontends are destroyed from slots on the destruction of others.
THEOREM NamesAlwaysHold == Spec => []NamesHold
<1>1. IInv => NamesHold
  BY Types, NamesFound DEF IInv, NamesHold
<1>2. QED
  BY <1>1, Invariance, PTL

\* The invariant lets the owner of a pid be found.
LEMMA PidsFound == IInv => OwnerFound
<1> SUFFICES ASSUME IInv PROVE OwnerFound
  OBVIOUS
<1>1. m_processlist \in Seq(Nat \ {None})
  BY Searchable
<1>2. processForPID(0) = None
  BY DEF processForPID
<1>3. ASSUME NEW f \in Living, ~remote[f], proc[f] # 0,
             processForPID(proc[f]) # f
      PROVE  /\ remote[processForPID(proc[f])] \/ processForPID(proc[f]) = ended
             /\ proc[processForPID(proc[f])] # pid[processForPID(proc[f])]
  <2> DEFINE those == {h \in Frontends : pidOf(h) = proc[f]}
             g == FirstOf(those)
  <2>1. f \in Frontends /\ f \in ToSet(m_processlist)
    BY LivingFacts DEF IInv
  <2>2. pid[f] = proc[f] /\ created[f]
    BY <1>3, <2>1 DEF IInv, Owned, Local
  <2>3. f \in those
    BY <1>3, <2>1, <2>2 DEF pidOf, pidLocal
  <2>4. processForPID(proc[f]) = g
    BY <1>3 DEF processForPID
  <2>5. g # None => g \in those
    <3> HIDE DEF those
    <3>1. QED
      BY <1>1, FirstFound
  <2>6. g # None
    <3> HIDE DEF those
    <3>1. QED
      BY <1>1, <2>1, <2>3, FirstFound
  <2>7. g \in Frontends /\ pidOf(g) = proc[f]
    BY <2>5, <2>6
  <2> HIDE DEF g, those
  <2>8. g # f
    BY <1>3, <2>4
  <2>9. proc[g] # proc[f]
    BY <1>3, <2>1, <2>7, <2>8 DEF IInv, Owned
  <2>10. pid[g] = proc[f]
    BY <1>3, <2>7 DEF pidOf, pidLocal, pidRemote
  <2>11. remote[g] \/ g = ended
    BY <2>7, <2>9, <2>10 DEF IInv, Owned, Local
  <2>12. QED
    BY <2>4, <2>9, <2>10, <2>11
<1>4. QED
  BY <1>2, <1>3 DEF OwnerFound

\* processForPID (qprocessmanager.cpp:157) finds the frontend of a running local process,
\* whatever pids the kernel gives away again, unless the pid is still claimed by a remote
\* backend, or by a QProcess that is telling of the end of the process that had it.
THEOREM OwnerAlwaysFound == Spec => []OwnerFound
BY Invariance, PidsFound, PTL

\* The kernel says of the pid of a process what its priority is.
LEMMA KernelSays ==
    ASSUME IInv, NEW f \in Frontends, proc[f] # 0
    PROVE  getpriority(proc[f]) = nice[f]
<1> DEFINE owner == {g \in Frontends : proc[g] = proc[f] /\ proc[f] # 0}
<1>1. owner = {f}
  BY DEF IInv, Owned
<1>2. getpriority(proc[f]) = IF owner = {} THEN 0 ELSE nice[CHOOSE g \in owner : TRUE]
  BY DEF getpriority
<1> HIDE DEF owner
<1>3. (CHOOSE g \in owner : TRUE) = f
  BY <1>1
<1>4. QED
  BY <1>1, <1>2, <1>3

\* The invariant brings priorities and pids where they were sent.
LEMMA PrioritiesReached == IInv => PriorityReached
<1> SUFFICES ASSUME IInv, NEW f \in Living, proc[f] # 0,
                    \A i \in DOMAIN commands : commands[i].id # f
             PROVE  /\ nice[f] = asked[f] \/ unsent[f] \/ fate[f] # "set"
                    /\ (\A i \in DOMAIN events : events[i].id # f) => actualPriority(f) = nice[f]
  BY DEF PriorityReached
<1>1. f \in Frontends
  BY LivingFacts DEF IInv
<1>2. asked[f] = desired[f]
  BY <1>1 DEF IInv, Wished
<1>3. getpriority(proc[f]) = nice[f]
  BY <1>1, KernelSays
<1>4. CASE remote[f]
  <2>1. nice[f] = asked[f] \/ unsent[f] \/ fate[f] # "set"
    BY <1>1, <1>2, <1>4 DEF IInv, Wished, NoneFor
  <2>2. ASSUME \A i \in DOMAIN events : events[i].id # f PROVE actualPriority(f) = nice[f]
    <3>1. pid[f] = proc[f]
      BY <1>1, <1>4, <2>2 DEF IInv, Known, NoneFor
    <3>2. pid[f] # Unknown
      BY <1>1, <3>1, RegistryAssumption DEF IInv, PidTypes, Unknown
    <3>3. QED
      BY <1>3, <1>4, <3>1, <3>2 DEF actualPriority, actualRemote
  <2>3. QED
    BY <2>1, <2>2
<1>5. CASE ~remote[f]
  <2>1. pid[f] = proc[f] /\ created[f] /\ (nice[f] = desired[f] \/ fate[f] # "set")
    BY <1>1, <1>5 DEF IInv, Owned, Local
  <2>2. QED
    BY <1>2, <1>3, <1>5, <2>1 DEF actualPriority, actualLocal
<1>6. QED
  BY <1>4, <1>5

\* A running process has the priority that was asked for last and shows it, once what is in
\* the pipe has been read, except for one asked for between start() and the first news, one
\* that the kernel refused, and a process reached by a call for the former owner of its pid.
THEOREM PriorityAlwaysReached == Spec => []PriorityReached
BY Invariance, PrioritiesReached, PTL

=============================================================================
