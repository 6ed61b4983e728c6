------------------------ MODULE SocketLauncherProofs ------------------------
(***************************************************************************)
(* Proofs about SocketLauncher for any number of managers, connections,    *)
(* ids, starts, stops and changes.                                         *)
(***************************************************************************)
EXTENDS SocketLauncher, SequenceTheorems, WellFoundedInduction, TLAPS

(***************************************************************************)
(* Types.                                                                  *)
(***************************************************************************)

Signals == {"Starting", "Running", "NotRunning", "started", "finished",
            "FailedToStart", "Crashed"}

LifeStages == {"fresh", "starting", "running", "up", "crashed", "down", "over", "failing",
               "failed", "gone"}

\* Where the launcher leaves a process between two of its reports.
RestStages == {"fresh", "starting", "up", "over", "failed", "gone"}

\* Messages to the launcher, and back.
Memories == [command : {"memory"}, value : BOOLEAN]
Commands == Memories \cup [command : {"idlecpuavailable"}]
                     \cup [command : {"start", "stop"}, id : Ids]
IdleNews == [event : {"idlecpurequested"}, value : BOOLEAN]
Messages == IdleNews \cup [event : Signals, id : Ids]

SocketTypes ==
    /\ m_socket \in [Factories -> Connections \cup {None}]
    /\ owner \in [Connections -> Factories \cup {None}]
    /\ host \in [Factories -> [Ids -> Connections \cup {None}]]
QueueTypes ==
    /\ m_buffer \in [Factories -> Seq(Messages)]
    /\ up \in [Connections -> Seq(Commands)] /\ down \in [Connections -> Seq(Messages)]
FactoryTypes ==
    /\ garbled \in [Factories -> BOOLEAN] /\ reading \in [Factories -> BOOLEAN]
    /\ \A f \in Factories : reading[f] <=> m_buffer[f] # <<>>
    /\ m_memoryRestricted \in [Factories -> BOOLEAN]
    /\ m_idleCpuRequest \in [Factories -> BOOLEAN]
ClientTypes ==
    /\ m_state \in [Factories -> [Ids -> States]]
    /\ seen \in [Factories -> [Ids -> LifeStages \cup {"broken"}]]
LauncherTypes ==
    /\ clients \in SUBSET Connections /\ removed \in SUBSET Connections
    /\ clients \cap removed = {}
    /\ stage \in [Connections -> [Ids -> RestStages]]
    /\ restricted \in BOOLEAN /\ requested \in BOOLEAN /\ delegate \in BOOLEAN
    /\ informed \in SUBSET clients /\ (delegate => informed = {})

Types == SocketTypes /\ QueueTypes /\ FactoryTypes /\ ClientTypes /\ LauncherTypes

(***************************************************************************)
(* The inductive invariant.                                                *)
(***************************************************************************)

\* A socket is the factory's own, and a host has been one.
Owned ==
    /\ \A f \in Factories : m_socket[f] # None => owner[m_socket[f]] = f
    /\ \A f \in Factories, i \in Ids : host[f][i] # None => owner[host[f][i]] # None

\* Nothing has happened on a connection that nobody opened.
Unopened(k) ==
    owner[k] = None => /\ up[k] = <<>> /\ down[k] = <<>> /\ k \notin clients \cup removed
                       /\ \A i \in Ids : stage[k][i] = "fresh"

\* What factory f is going to handle, unless its connection ends.
Arriving(f) == IF Understood(f) THEN Coming(f) ELSE m_buffer[f]

\* Message m is about process i, and what a client at stage g learns from it.
Concerns(m, i) == m.event # "idlecpurequested" /\ m.id = i
Learnt(g, m, i) == IF Concerns(m, i) THEN P!Life!After(g, m.event) ELSE g

\* Messages q lead the client of process i from stage g to stage e.
Path(q, i, g, e) ==
    \E p \in [0 .. Len(q) -> LifeStages] :
       /\ p[0] = g /\ p[Len(q)] = e
       /\ \A k \in 1 .. Len(q) : p[k] = Learnt(p[k - 1], q[k], i)

\* Nothing in q is about i.
Silent(q, i) == \A j \in DOMAIN q : ~Concerns(q[j], i)

\* Message j to the launcher starts i.
Starts(q, i, j) == j \in DOMAIN q /\ q[j].command = "start" /\ q[j].id = i
NeverStarted(k, i) == stage[k][i] = "fresh" /\ \A j \in DOMAIN up[k] : ~Starts(up[k], i, j)
StartedOnce(k, i) ==
    \A j \in DOMAIN up[k] : Starts(up[k], i, j) =>
       /\ stage[k][i] = "fresh"
       /\ \A h \in DOMAIN up[k] : Starts(up[k], i, h) => h = j

\* A process is started over one connection at a time, on which nobody else speaks of
\* it, and what its client has seen and is going to see is one life cycle, up to the
\* stage that the launcher reported last.
Told(f, i) ==
    /\ host[f][i] = None => seen[f][i] = "fresh" /\ Silent(Arriving(f), i)
    /\ m_socket[f] # None /\ host[f][i] # m_socket[f] =>
          NeverStarted(m_socket[f], i) /\ Silent(Arriving(f), i)
    /\ m_socket[f] # None /\ host[f][i] = m_socket[f] => StartedOnce(m_socket[f], i)
    /\ \E e \in LifeStages :
          /\ Path(Arriving(f), i, seen[f][i], e)
          /\ Understood(f) /\ host[f][i] = m_socket[f] => e = stage[m_socket[f]][i]

\* The last message of set T in queue q.
IsLast(q, T, k) == k \in DOMAIN q /\ q[k] \in T /\ \A j \in DOMAIN q : q[j] \in T => j <= k
NoneOf(q, T) == \A j \in DOMAIN q : q[j] \notin T

\* The last news of the launcher's request is true, or else what was heard before, for
\* those that were told since the launcher's delegate last changed.
IdleTold(f) ==
    Understood(f) /\ m_socket[f] \in informed =>
       /\ NoneOf(Arriving(f), IdleNews) => requested = m_idleCpuRequest[f]
       /\ \A k \in DOMAIN Arriving(f) :
             IsLast(Arriving(f), IdleNews, k) => Arriving(f)[k].value = requested

\* The last message about memory is true.
MemoryTold(f) ==
    m_socket[f] # None =>
       \A k \in DOMAIN up[m_socket[f]] : IsLast(up[m_socket[f]], Memories, k) =>
          up[m_socket[f]][k].value = m_memoryRestricted[f]

\* The launcher has heard the setting of some manager, or is going to.
MemoryHeard ==
    /\ \A k \in Connections : owner[k] # None => IsOpen(k)
    /\ \E f \in Factories : m_socket[f] # None
    => \E f \in Factories :
          /\ m_socket[f] # None
          /\ NoneOf(up[m_socket[f]], Memories) => restricted = m_memoryRestricted[f]

IInv ==
    /\ Types /\ Owned /\ \A k \in Connections : Unopened(k)
    /\ NoOrphans
    /\ \A f \in Factories : IdleTold(f) /\ MemoryTold(f)
    /\ MemoryHeard
    /\ \A f \in Factories, i \in Ids : Told(f, i)

(***************************************************************************)
(* The life cycle.                                                         *)
(***************************************************************************)

\* The life cycles of all parts are the same.
LEMMA LifeNames ==
    /\ \A f, i : Life(f, i)!Stages = LifeStages
    /\ \A f, i, g, s : Life(f, i)!Reached(g, s) = P!Life!Reached(g, s)
    /\ \A f, i, g, s : Life(f, i)!After(g, s) = P!Life!After(g, s)
<1>1. \A f, i : Life(f, i)!Stages = LifeStages
  BY DEF Life!Stages, LifeStages
<1>2. \A f, i, g, s : Life(f, i)!Reached(g, s) = P!Life!Reached(g, s)
  BY DEF P!Life!Reached, Life!Reached
<1>3. \A f, i, g, s : Life(f, i)!After(g, s) = P!Life!After(g, s)
  BY DEF P!Life!After, Life!After
<1>4. QED
  BY <1>1, <1>2, <1>3

\* The reports of one change, and the stages that they go through.
LEMMA ReportValues ==
    /\ \A c \in P!StartReports :
          \/ c = <<"Starting">> /\ \A g : P!Life!Reached(g, c) = "starting"
          \/ c = <<"Starting", "Running", "started">> /\ \A g : P!Life!Reached(g, c) = "up"
    /\ \A g \in RestStages : \A c \in P!Reports(g) :
          \/ c = <<>> /\ P!Life!Reached(g, c) = g
          \/ /\ g = "starting" /\ c = <<"Running", "started">>
             /\ P!Life!Reached(g, c) = "up"
          \/ /\ g = "starting" /\ c = <<"NotRunning", "FailedToStart">>
             /\ P!Life!Reached(g, c) = "failed"
          \/ /\ g = "up" /\ c = <<"NotRunning", "finished">>
             /\ P!Life!Reached(g, c) = "over"
          \/ /\ g = "up" /\ c = <<"Crashed", "NotRunning", "finished">>
             /\ P!Life!Reached(g, c) = "over"
<1>1. \A g : P!Life!Reached(g, <<"Starting">>) = "starting"
  BY DEF P!Life!Reached
<1>2. \A g : P!Life!Reached(g, <<"Starting", "Running", "started">>) = "up"
  BY DEF P!Life!Reached
<1>3. \A g : P!Life!Reached(g, <<"Running", "started">>) = "up"
  BY DEF P!Life!Reached
<1>4. \A g : P!Life!Reached(g, <<"NotRunning", "FailedToStart">>) = "failed"
  BY DEF P!Life!Reached
<1>5. \A g : P!Life!Reached(g, <<"NotRunning", "finished">>) = "over"
  BY DEF P!Life!Reached
<1>6. \A g : P!Life!Reached(g, <<"Crashed", "NotRunning", "finished">>) = "over"
  BY DEF P!Life!Reached
<1>7. \A g : P!Life!Reached(g, <<>>) = g
  BY DEF P!Life!Reached
<1>8. \A c \in P!StartReports : c = <<"Starting">> \/ c = <<"Starting", "Running", "started">>
  BY DEF P!StartReports
<1>9. \A g \in RestStages : \A c \in P!Reports(g) :
         \/ c = <<>>
         \/ g = "starting" /\ c = <<"Running", "started">>
         \/ g = "starting" /\ c = <<"NotRunning", "FailedToStart">>
         \/ g = "up" /\ c = <<"NotRunning", "finished">>
         \/ g = "up" /\ c = <<"Crashed", "NotRunning", "finished">>
  BY DEF P!Reports, RestStages
<1>10. \A c \in P!StartReports :
         \/ c = <<"Starting">> /\ \A g : P!Life!Reached(g, c) = "starting"
         \/ c = <<"Starting", "Running", "started">> /\ \A g : P!Life!Reached(g, c) = "up"
  BY <1>1, <1>2, <1>8, Zenon
<1>11. QED
  BY <1>3, <1>4, <1>5, <1>6, <1>7, <1>9, <1>10, Zenon

\* Reports as messages of the right type, and the stage they lead to.
LEMMA ReportStages ==
    /\ \A c \in P!StartReports : /\ c \in Seq(Signals)
                                 /\ \A g : P!Life!Reached(g, c) \in {"starting", "up"}
    /\ \A g \in RestStages : \A c \in P!Reports(g) : /\ c \in Seq(Signals)
                                                     /\ P!Life!Reached(g, c) \in RestStages
<1>1. /\ <<"Starting">> \in Seq(Signals)
      /\ <<"Starting", "Running", "started">> \in Seq(Signals)
      /\ <<"Running", "started">> \in Seq(Signals)
      /\ <<"NotRunning", "FailedToStart">> \in Seq(Signals)
      /\ <<"NotRunning", "finished">> \in Seq(Signals)
      /\ <<"Crashed", "NotRunning", "finished">> \in Seq(Signals)
      /\ <<>> \in Seq(Signals)
  BY DEF Signals
<1>2. \A c \in P!StartReports : /\ c \in Seq(Signals)
                                /\ \A g : P!Life!Reached(g, c) \in {"starting", "up"}
  BY <1>1, ReportValues
<1>3. \A g \in RestStages : \A c \in P!Reports(g) : /\ c \in Seq(Signals)
                                                 /\ P!Life!Reached(g, c) \in RestStages
  BY <1>1, ReportValues DEF RestStages
<1>4. QED
  BY <1>2, <1>3

\* The messages that carry reports.
LEMMA EventsType ==
    ASSUME NEW i \in Ids, NEW r \in Seq(Signals)
    PROVE  /\ Events(i, r) \in Seq(Messages) /\ Len(Events(i, r)) = Len(r)
           /\ \A k \in 1 .. Len(r) : /\ Events(i, r)[k] = [event |-> r[k], id |-> i]
                                     /\ Events(i, r)[k] \in [event : Signals, id : Ids]
<1> DEFINE n == Len(r)
           e == [j \in 1 .. n |-> [event |-> r[j], id |-> i]]
<1>1. n \in Nat /\ DOMAIN r = 1 .. n /\ \A k \in 1 .. n : r[k] \in Signals
  BY LenProperties, ElementOfSeq
<1>2. Events(i, r) = e
  BY <1>1 DEF Events
<1>3. \A k \in 1 .. n : e[k] = [event |-> r[k], id |-> i] /\ e[k] \in [event : Signals, id : Ids]
  BY <1>1
<1>4. e \in [1 .. n -> Messages]
  BY <1>1 DEF Messages
<1> HIDE DEF e, n
<1>5. e \in Seq(Messages) /\ Len(e) = n
  BY <1>1, <1>4
<1>6. QED
  BY <1>2, <1>3, <1>5 DEF n

\* Events are no news of idle CPU, and concern their process only.
LEMMA EventsConcern ==
    ASSUME NEW i \in Ids, NEW r \in Seq(Signals)
    PROVE  /\ NoneOf(Events(i, r), IdleNews)
           /\ \A k \in 1 .. Len(r) : /\ Concerns(Events(i, r)[k], i)
                                     /\ Events(i, r)[k].event = r[k]
           /\ \A j : j # i => Silent(Events(i, r), j)
<1>1. \A x \in Signals : x # "idlecpurequested"
  BY DEF Signals
<1>2. /\ DOMAIN Events(i, r) = 1 .. Len(r)
      /\ \A k \in 1 .. Len(r) : r[k] \in Signals
  BY EventsType, LenProperties, ElementOfSeq
<1>3. \A k \in 1 .. Len(r) : Events(i, r)[k] = [event |-> r[k], id |-> i]
  BY EventsType
<1>4. \A k \in 1 .. Len(r) : /\ Events(i, r)[k].event = r[k] /\ Events(i, r)[k].id = i
                             /\ Events(i, r)[k].event # "idlecpurequested"
  BY <1>1, <1>2, <1>3
<1>5. NoneOf(Events(i, r), IdleNews)
  BY <1>2, <1>4 DEF NoneOf, IdleNews
<1>6. \A j : j # i => Silent(Events(i, r), j)
  BY <1>2, <1>4 DEF Silent, Concerns
<1>7. QED
  BY <1>4, <1>5, <1>6 DEF Concerns

\* A launcher's request is news, and concerns no process.
LEMMA RequestType ==
    ASSUME NEW v \in BOOLEAN
    PROVE  /\ Request(v) \in IdleNews /\ Request(v) \in Messages
           /\ Request(v).value = v /\ \A i : ~Concerns(Request(v), i)
           /\ <<Request(v)>> \in Seq(Messages)
<1>1. Request(v) = [event |-> "idlecpurequested", value |-> v]
  BY DEF Request
<1>2. Request(v) \in IdleNews
  BY <1>1 DEF IdleNews
<1>3. Request(v).value = v /\ \A i : ~Concerns(Request(v), i)
  BY <1>1 DEF Concerns
<1>4. QED
  BY <1>2, <1>3 DEF Messages

\* The two kinds of messages.
LEMMA MessageKinds ==
    ASSUME NEW m \in Messages
    PROVE  /\ m \in IdleNews <=> m.event = "idlecpurequested"
           /\ m \in IdleNews => m.value \in BOOLEAN
           /\ m \notin IdleNews => m.id \in Ids /\ m.event \in Signals
<1>1. \A x \in Signals : x # "idlecpurequested"
  BY DEF Signals
<1>2. CASE m \in IdleNews
  BY <1>2 DEF IdleNews
<1>3. CASE m \notin IdleNews
  <2>1. m \in [event : Signals, id : Ids]
    BY <1>3 DEF Messages
  <2>2. m.event \in Signals /\ m.id \in Ids
    BY <2>1
  <2>3. QED
    BY <1>1, <1>3, <2>2
<1>4. QED
  BY <1>2, <1>3

(***************************************************************************)
(* Paths through the life cycle.                                           *)
(***************************************************************************)

\* The empty path, and messages that do not concern the process.
LEMMA PathSilent ==
    ASSUME NEW q \in Seq(Messages), NEW i, NEW g \in LifeStages, Silent(q, i)
    PROVE  Path(q, i, g, g)
<1> DEFINE n == Len(q)
           p == [k \in 0 .. n |-> g]
<1>1. n \in Nat /\ DOMAIN q = 1 .. n
  BY LenProperties
<1>2. p \in [0 .. n -> LifeStages] /\ \A k \in 0 .. n : p[k] = g
  OBVIOUS
<1> HIDE DEF p, n
<1>3. \A k \in 1 .. n : Learnt(g, q[k], i) = g
  BY <1>1 DEF Silent, Learnt
<1>4. \A k \in 1 .. n : p[k] = Learnt(p[k - 1], q[k], i)
  BY <1>1, <1>2, <1>3
<1>5. p[0] = g /\ p[n] = g
  BY <1>1, <1>2
<1>6. QED
  BY <1>2, <1>4, <1>5 DEF Path, n

\* A path is made of stages.
LEMMA PathEnds ==
    ASSUME NEW q \in Seq(Messages), NEW i, NEW g, NEW e, Path(q, i, g, e)
    PROVE  g \in LifeStages /\ e \in LifeStages
<1>1. Len(q) \in Nat
  BY LenProperties
<1>2. QED
  BY <1>1 DEF Path

\* Paths add up.
LEMMA PathConcat ==
    ASSUME NEW s \in Seq(Messages), NEW t \in Seq(Messages), NEW i, NEW g, NEW e, NEW f,
           Path(s, i, g, e), Path(t, i, e, f)
    PROVE  Path(s \o t, i, g, f)
<1>1. PICK p \in [0 .. Len(s) -> LifeStages] :
         /\ p[0] = g /\ p[Len(s)] = e
         /\ \A k \in 1 .. Len(s) : p[k] = Learnt(p[k - 1], s[k], i)
  BY DEF Path
<1>2. PICK q \in [0 .. Len(t) -> LifeStages] :
         /\ q[0] = e /\ q[Len(t)] = f
         /\ \A k \in 1 .. Len(t) : q[k] = Learnt(q[k - 1], t[k], i)
  BY DEF Path
<1>3. /\ Len(s) \in Nat /\ Len(t) \in Nat /\ s \o t \in Seq(Messages)
      /\ Len(s \o t) = Len(s) + Len(t)
      /\ \A k \in 1 .. Len(s) + Len(t) :
            (s \o t)[k] = IF k <= Len(s) THEN s[k] ELSE t[k - Len(s)]
  BY ConcatProperties, LenProperties
<1> DEFINE u == s \o t
           m == Len(s)
           n == Len(t)
           r == [k \in 0 .. m + n |-> IF k <= m THEN p[k] ELSE q[k - m]]
<1> HIDE DEF u, m, n
<1>4. /\ m \in Nat /\ n \in Nat /\ Len(u) = m + n
      /\ p \in [0 .. m -> LifeStages] /\ q \in [0 .. n -> LifeStages]
      /\ \A k \in 1 .. m + n : u[k] = IF k <= m THEN s[k] ELSE t[k - m]
  BY <1>3 DEF m, n, u
<1>5. r \in [0 .. m + n -> LifeStages]
  BY <1>4
<1>6. \A k \in 0 .. m + n : r[k] = IF k <= m THEN p[k] ELSE q[k - m]
  OBVIOUS
<1> HIDE DEF r
<1>7. p[m] = q[0]
  BY <1>1, <1>2 DEF m
<1>8. r[0] = g /\ r[m + n] = f
  <2>1. r[0] = g
    BY <1>1, <1>4, <1>6
  <2>2. q[n] = f
    BY <1>2 DEF n
  <2>3. ASSUME NEW k, k = m + n PROVE r[k] = f
    <3>1. k \in 0 .. m + n /\ k - m = n /\ (k <= m <=> n = 0) /\ (n = 0 => k = m)
      BY <1>4, <2>3
    <3>2. r[k] = IF k <= m THEN p[k] ELSE q[k - m]
      BY <1>6, <3>1
    <3>3. QED
      BY <1>7, <2>2, <3>1, <3>2
  <2>4. QED
    BY <2>1, <2>3
<1>9. ASSUME NEW k \in 1 .. m + n
      PROVE  r[k] = Learnt(r[k - 1], u[k], i)
  <2>1. CASE k <= m
    <3>1. p[k] = Learnt(p[k - 1], s[k], i)
      BY <1>1, <1>4, <2>1 DEF m
    <3>2. r[k] = p[k] /\ r[k - 1] = p[k - 1] /\ u[k] = s[k]
      BY <1>4, <1>6, <2>1
    <3>3. QED
      BY <3>1, <3>2
  <2>2. CASE k > m
    <3>1. k - m \in 1 .. n
      BY <1>4, <2>2
    <3>2. q[k - m] = Learnt(q[k - m - 1], t[k - m], i)
      BY <1>2, <3>1 DEF n
    <3>3. r[k] = q[k - m] /\ u[k] = t[k - m]
      BY <1>4, <1>6, <2>2
    <3>4. r[k - 1] = q[k - m - 1]
      <4>1. CASE k = m + 1
        BY <1>4, <1>6, <1>7, <4>1
      <4>2. CASE k > m + 1
        BY <1>4, <1>6, <4>2
      <4>3. QED
        BY <1>4, <2>2, <4>1, <4>2
    <3>5. QED
      BY <3>2, <3>3, <3>4
  <2>3. QED
    BY <1>4, <2>1, <2>2
<1>10. Path(u, i, g, f)
  BY <1>4, <1>5, <1>8, <1>9 DEF Path
<1>11. QED
  BY <1>10 DEF u

\* The first message of a path belongs to the life cycle, and the others go on.
LEMMA PathHead ==
    ASSUME NEW s \in Seq(Messages), s # <<>>, NEW i, NEW g, NEW e, Path(s, i, g, e)
    PROVE  /\ Learnt(g, Head(s), i) \in LifeStages
           /\ Path(Tail(s), i, Learnt(g, Head(s), i), e)
<1>1. PICK p \in [0 .. Len(s) -> LifeStages] :
         /\ p[0] = g /\ p[Len(s)] = e
         /\ \A k \in 1 .. Len(s) : p[k] = Learnt(p[k - 1], s[k], i)
  BY DEF Path
<1> DEFINE t == Tail(s)
           n == Len(t)
           q == [k \in 0 .. n |-> p[k + 1]]
<1>2. Len(s) \in Nat \ {0} /\ Head(s) = s[1]
  BY EmptySeq
<1>3. n \in Nat /\ Len(s) = n + 1 /\ \A k \in 1 .. n : t[k] = s[k + 1]
  BY <1>2, HeadTailProperties
<1> HIDE DEF t, n
<1>4. p[1] = Learnt(g, Head(s), i) /\ p[1] \in LifeStages
  <2>1. p[1] = Learnt(p[1 - 1], s[1], i)
    BY <1>1, <1>2
  <2>2. p[1 - 1] = g
    BY <1>1
  <2>3. QED
    BY <1>2, <2>1, <2>2
<1>5. q \in [0 .. n -> LifeStages] /\ \A k \in 0 .. n : q[k] = p[k + 1]
  BY <1>3
<1> HIDE DEF q
<1>6. q[0] = p[1] /\ q[n] = e
  BY <1>1, <1>3, <1>5
<1>7. \A k \in 1 .. n : q[k] = Learnt(q[k - 1], t[k], i)
  <2> SUFFICES ASSUME NEW k \in 1 .. n PROVE q[k] = Learnt(q[k - 1], t[k], i)
    OBVIOUS
  <2>1. p[k + 1] = Learnt(p[k + 1 - 1], s[k + 1], i)
    BY <1>1, <1>3
  <2>2. q[k] = p[k + 1] /\ q[k - 1] = p[k + 1 - 1] /\ t[k] = s[k + 1]
    BY <1>3, <1>5
  <2>3. QED
    BY <2>1, <2>2
<1>8. Path(t, i, p[1], e)
  BY <1>5, <1>6, <1>7 DEF Path, n
<1>9. QED
  BY <1>4, <1>8 DEF t

\* When the end of it is lost, the rest still is a path.
LEMMA PathPrefix ==
    ASSUME NEW r \in Seq(Messages), NEW t \in Seq(Messages), NEW i, NEW g, NEW e,
           Path(r \o t, i, g, e)
    PROVE  \E f \in LifeStages : Path(r, i, g, f)
<1> DEFINE s == r \o t
           m == Len(r)
<1>1. /\ m \in Nat /\ Len(s) \in Nat /\ m <= Len(s)
      /\ \A k \in 1 .. m : s[k] = r[k]
  <2>1. /\ Len(s) = m + Len(t) /\ m \in Nat /\ Len(t) \in Nat
        /\ \A k \in 1 .. m + Len(t) : s[k] = IF k <= m THEN r[k] ELSE t[k - m]
    BY ConcatProperties, LenProperties
  <2> HIDE DEF s, m
  <2>2. QED
    BY <2>1
<1> HIDE DEF s, m
<1>2. PICK p \in [0 .. Len(s) -> LifeStages] :
         /\ p[0] = g /\ p[Len(s)] = e
         /\ \A k \in 1 .. Len(s) : p[k] = Learnt(p[k - 1], s[k], i)
  BY DEF Path, s
<1> DEFINE q == [k \in 0 .. m |-> p[k]]
<1>3. q \in [0 .. m -> LifeStages] /\ \A k \in 0 .. m : q[k] = p[k]
  BY <1>1
<1> HIDE DEF q
<1>4. q[0] = g /\ q[m] \in LifeStages
  BY <1>1, <1>2, <1>3
<1>5. \A k \in 1 .. m : q[k] = Learnt(q[k - 1], r[k], i)
  <2> SUFFICES ASSUME NEW k \in 1 .. m PROVE q[k] = Learnt(q[k - 1], r[k], i)
    OBVIOUS
  <2>1. p[k] = Learnt(p[k - 1], s[k], i)
    BY <1>1, <1>2
  <2>2. q[k] = p[k] /\ q[k - 1] = p[k - 1] /\ r[k] = s[k]
    BY <1>1, <1>3
  <2>3. QED
    BY <2>1, <2>2
<1>6. Path(r, i, g, q[m])
  BY <1>3, <1>4, <1>5 DEF Path, m
<1>7. QED
  BY <1>4, <1>6

\* Three signals at most, given with the stages in between.
LEMMA PathOfEvents ==
    ASSUME NEW i \in Ids, NEW r \in Seq(Signals), Len(r) <= 3, NEW p \in [0 .. 3 -> LifeStages],
           \A k \in 1 .. Len(r) : p[k] = P!Life!After(p[k - 1], r[k])
    PROVE  Path(Events(i, r), i, p[0], p[Len(r)])
<1> DEFINE n == Len(r)
           q == [k \in 0 .. n |-> p[k]]
           s == Events(i, r)
<1>1. n \in Nat /\ n <= 3 /\ Len(s) = n
  BY EventsType, LenProperties
<1>2. \A k \in 1 .. n : Concerns(s[k], i) /\ s[k].event = r[k]
  BY EventsConcern
<1>3. \A k \in 1 .. n : p[k] = P!Life!After(p[k - 1], r[k])
  OBVIOUS
<1> HIDE DEF s, n
<1>4. q \in [0 .. n -> LifeStages] /\ \A k \in 0 .. n : q[k] = p[k]
  BY <1>1
<1> HIDE DEF q
<1>5. ASSUME NEW k \in 1 .. n PROVE q[k] = Learnt(q[k - 1], s[k], i)
  <2>1. q[k] = p[k] /\ q[k - 1] = p[k - 1]
    BY <1>1, <1>4
  <2>2. Learnt(q[k - 1], s[k], i) = P!Life!After(q[k - 1], r[k])
    BY <1>2 DEF Learnt
  <2>3. QED
    BY <1>3, <2>1, <2>2
<1>6. q[0] = p[0] /\ q[n] = p[n]
  BY <1>1, <1>4
<1>7. Path(s, i, p[0], p[n])
  BY <1>1, <1>4, <1>5, <1>6 DEF Path
<1>8. QED
  BY <1>7 DEF s, n

\* What is reported of a process at stage g goes on from there.
LEMMA ReportPaths ==
    ASSUME NEW i \in Ids
    PROVE  /\ \A c \in P!StartReports : Path(Events(i, c), i, "fresh", P!Life!Reached("fresh", c))
           /\ \A g \in RestStages : \A c \in P!Reports(g) :
                 Path(Events(i, c), i, g, P!Life!Reached(g, c))
<1>1. /\ "starting" = P!Life!After("fresh", "Starting")
      /\ "running" = P!Life!After("starting", "Running")
      /\ "up" = P!Life!After("running", "started")
      /\ "failing" = P!Life!After("starting", "NotRunning")
      /\ "failed" = P!Life!After("failing", "FailedToStart")
      /\ "down" = P!Life!After("up", "NotRunning")
      /\ "crashed" = P!Life!After("up", "Crashed")
      /\ "down" = P!Life!After("crashed", "NotRunning")
      /\ "over" = P!Life!After("down", "finished")
  BY DEF P!Life!After
\* The stages a, b, c after signals x, y, z at stage g.
<1> DEFINE line(g, a, b, c) ==
              [k \in 0 .. 3 |-> IF k = 0 THEN g ELSE IF k = 1 THEN a ELSE IF k = 2 THEN b ELSE c]
<1>2. \A g, a, b, c \in LifeStages :
         /\ line(g, a, b, c) \in [0 .. 3 -> LifeStages]
         /\ line(g, a, b, c)[0] = g /\ line(g, a, b, c)[1] = a
         /\ line(g, a, b, c)[2] = b /\ line(g, a, b, c)[3] = c
  OBVIOUS
<1> HIDE DEF line
<1>3. ASSUME NEW x \in Signals, NEW g \in LifeStages, NEW a \in LifeStages,
             a = P!Life!After(g, x)
      PROVE  Path(Events(i, <<x>>), i, g, a)
  <2> DEFINE r == <<x>>
             p == line(g, a, a, a)
  <2>1. r \in Seq(Signals) /\ Len(r) = 1 /\ r[1] = x
    OBVIOUS
  <2>2. p \in [0 .. 3 -> LifeStages] /\ p[0] = g /\ p[1] = a
    BY <1>2
  <2> HIDE DEF r, p
  <2>3. p[1] = P!Life!After(p[1 - 1], r[1])
    BY <1>3, <2>1, <2>2
  <2>4. \A k \in 1 .. 1 : p[k] = P!Life!After(p[k - 1], r[k])
    BY <2>3
  <2>5. Path(Events(i, r), i, p[0], p[Len(r)])
    BY <2>1, <2>2, <2>4, PathOfEvents
  <2>6. QED
    BY <2>1, <2>2, <2>5 DEF r
<1>4. ASSUME NEW x \in Signals, NEW y \in Signals,
             NEW g \in LifeStages, NEW a \in LifeStages, NEW b \in LifeStages,
             a = P!Life!After(g, x), b = P!Life!After(a, y)
      PROVE  Path(Events(i, <<x, y>>), i, g, b)
  <2> DEFINE r == <<x, y>>
             p == line(g, a, b, b)
  <2>1. r \in Seq(Signals) /\ Len(r) = 2 /\ r[1] = x /\ r[2] = y
    OBVIOUS
  <2>2. p \in [0 .. 3 -> LifeStages] /\ p[0] = g /\ p[1] = a /\ p[2] = b
    BY <1>2
  <2> HIDE DEF r, p
  <2>3. /\ p[1] = P!Life!After(p[1 - 1], r[1])
        /\ p[2] = P!Life!After(p[2 - 1], r[2])
    BY <1>4, <2>1, <2>2
  <2>4. \A k \in 1 .. 2 : p[k] = P!Life!After(p[k - 1], r[k])
    BY <2>3
  <2>5. Path(Events(i, r), i, p[0], p[Len(r)])
    BY <2>1, <2>2, <2>4, PathOfEvents
  <2>6. QED
    BY <2>1, <2>2, <2>5 DEF r
<1>5. ASSUME NEW x \in Signals, NEW y \in Signals, NEW z \in Signals,
             NEW g \in LifeStages, NEW a \in LifeStages, NEW b \in LifeStages,
             NEW c \in LifeStages,
             a = P!Life!After(g, x), b = P!Life!After(a, y), c = P!Life!After(b, z)
      PROVE  Path(Events(i, <<x, y, z>>), i, g, c)
  <2> DEFINE r == <<x, y, z>>
             p == line(g, a, b, c)
  <2>1. r \in Seq(Signals) /\ Len(r) = 3 /\ r[1] = x /\ r[2] = y /\ r[3] = z
    OBVIOUS
  <2>2. p \in [0 .. 3 -> LifeStages] /\ p[0] = g /\ p[1] = a /\ p[2] = b /\ p[3] = c
    BY <1>2
  <2> HIDE DEF r, p
  <2>3. /\ p[1] = P!Life!After(p[1 - 1], r[1])
        /\ p[2] = P!Life!After(p[2 - 1], r[2])
        /\ p[3] = P!Life!After(p[3 - 1], r[3])
    BY <1>5, <2>1, <2>2
  <2>4. Len(r) <= 3 /\ \A k \in 1 .. Len(r) : k = 1 \/ k = 2 \/ k = 3
    BY <2>1
  <2>5. Path(Events(i, r), i, p[0], p[Len(r)])
    <3>1. \A k \in 1 .. Len(r) : p[k] = P!Life!After(p[k - 1], r[k])
      BY <2>3, <2>4
    <3>2. QED
      BY <2>1, <2>2, <2>4, <3>1, PathOfEvents
  <2>6. QED
    BY <2>1, <2>2, <2>5 DEF r
<1>6. /\ "fresh" \in LifeStages /\ "starting" \in LifeStages /\ "running" \in LifeStages
      /\ "up" \in LifeStages /\ "failing" \in LifeStages /\ "failed" \in LifeStages
      /\ "down" \in LifeStages /\ "crashed" \in LifeStages /\ "over" \in LifeStages
      /\ "Starting" \in Signals /\ "Running" \in Signals /\ "started" \in Signals
      /\ "NotRunning" \in Signals /\ "FailedToStart" \in Signals /\ "Crashed" \in Signals
      /\ "finished" \in Signals
  BY DEF Signals, LifeStages
<1>7. Path(Events(i, <<"Starting">>), i, "fresh", "starting")
  BY <1>1, <1>3, <1>6, Zenon
<1>8. Path(Events(i, <<"Starting", "Running", "started">>), i, "fresh", "up")
  BY <1>1, <1>5, <1>6, Zenon
<1>9. Path(Events(i, <<"Running", "started">>), i, "starting", "up")
  BY <1>1, <1>4, <1>6, Zenon
<1>10. Path(Events(i, <<"NotRunning", "FailedToStart">>), i, "starting", "failed")
  BY <1>1, <1>4, <1>6, Zenon
<1>11. Path(Events(i, <<"NotRunning", "finished">>), i, "up", "over")
  BY <1>1, <1>4, <1>6, Zenon
<1>12. Path(Events(i, <<"Crashed", "NotRunning", "finished">>), i, "up", "over")
  BY <1>1, <1>5, <1>6, Zenon
<1>13. \A g \in RestStages : Path(Events(i, <<>>), i, g, g)
  <2> DEFINE r == <<>>
  <2>1. r \in Seq(Signals) /\ Len(r) = 0
    OBVIOUS
  <2> HIDE DEF r
  <2>2. Events(i, r) \in Seq(Messages) /\ Len(Events(i, r)) = 0
    BY <2>1, EventsType
  <2>3. Silent(Events(i, r), i)
    BY <2>2, LenProperties DEF Silent
  <2>4. \A g \in RestStages : Path(Events(i, r), i, g, g)
    BY <2>2, <2>3, PathSilent DEF RestStages, LifeStages
  <2>5. QED
    BY <2>4 DEF r
<1>14. QED
  BY <1>7, <1>8, <1>9, <1>10, <1>11, <1>12, <1>13, ReportValues, Zenon

\* A set of natural numbers has a least one, and a bounded one a greatest.
LEMMA Least == ASSUME NEW S \in SUBSET Nat, S # {} PROVE \E m \in S : \A n \in S : m <= n
<1> DEFINE R == OpToRel(<, Nat)
<1>1. IsWellFoundedOn(R, Nat)
  BY NatLessThanWellFounded
<1>2. PICK m \in S : \A n \in S : ~(<<n, m>> \in R)
  <2> HIDE DEF R
  <2>1. QED
    BY <1>1, WFMin
<1>3. \A n \in S : ~(n < m)
  BY <1>2 DEF OpToRel
<1>4. QED
  BY <1>3

\* Max finds the greatest.
LEMMA MaxFound ==
    ASSUME NEW n \in Nat, NEW S \in SUBSET (1 .. n), S # {}
    PROVE  Max(S) \in S /\ \A j \in S : j <= Max(S)
<1> DEFINE D == {n - j : j \in S}
<1>1. D \in SUBSET Nat /\ D # {}
  <2>1. \A j \in S : n - j \in Nat
    OBVIOUS
  <2>2. QED
    BY <2>1
<1>2. PICK m \in D : \A d \in D : m <= d
  <2> HIDE DEF D
  <2>1. QED
    BY <1>1, Least
<1>3. PICK x \in S : m = n - x
  OBVIOUS
<1>4. \A j \in S : x >= j
  <2> SUFFICES ASSUME NEW j \in S PROVE x >= j
    OBVIOUS
  <2>1. n - j \in D
    OBVIOUS
  <2> HIDE DEF D
  <2>2. n - x <= n - j
    BY <1>2, <1>3, <2>1
  <2>3. QED
    BY <2>2
<1>5. Max(S) \in S /\ \A j \in S : Max(S) >= j
  BY <1>3, <1>4 DEF Max
<1>6. QED
  BY <1>5

\* What never changes from m to n is at n what it was at m.
LEMMA Constant ==
    ASSUME NEW n \in Nat, NEW m \in 0 .. n, NEW p, \A k \in m + 1 .. n : p[k] = p[k - 1]
    PROVE  p[n] = p[m]
<1> DEFINE Changed == {k \in m .. n : p[k] # p[m]}
<1>1. SUFFICES ASSUME Changed # {} PROVE FALSE
  <2>1. n \in m .. n
    OBVIOUS
  <2>2. QED
    BY <1>1, <2>1
<1>2. PICK k \in Changed : \A j \in Changed : k <= j
  <2>1. Changed \in SUBSET Nat
    OBVIOUS
  <2> HIDE DEF Changed
  <2>2. QED
    BY <1>1, <2>1, Least
<1>3. k \in m + 1 .. n /\ p[k] # p[m]
  <2>1. k # m
    OBVIOUS
  <2>2. QED
    BY <2>1
<1>4. k - 1 \in m .. n /\ ~(k <= k - 1)
  BY <1>3
<1>5. p[k - 1] = p[m]
  BY <1>2, <1>4
<1>6. QED
  BY <1>3, <1>5

\* The stage after a signal, where the launcher leaves a process, can be told from the
\* signal.
LEMMA ReachedByOne ==
    ASSUME NEW x \in Signals, NEW g, NEW h, NEW e \in RestStages, e = P!Life!After(h, x)
    PROVE  P!Life!Reached(g, <<x>>) = e
<1> DEFINE last == <<x>>
<1>1. last # <<>> /\ last[Len(last)] = x
  OBVIOUS
<1> SUFFICES P!Life!Reached(g, last) = e
  OBVIOUS
<1> HIDE DEF last
<1>2. P!Life!Reached(g, last) =
         CASE x = "Starting"      -> "starting"
           [] x = "Running"       -> "running"
           [] x = "started"       -> "up"
           [] x = "Crashed"       -> "crashed"
           [] x = "FailedToStart" -> "failed"
           [] x = "finished"      -> "over"
           [] x = "NotRunning"    -> IF g = "starting" THEN "failing" ELSE "down"
  BY <1>1 DEF P!Life!Reached
<1>3. CASE x = "Starting"
  BY <1>2, <1>3 DEF P!Life!After, RestStages
<1>4. CASE x = "Running"
  BY <1>2, <1>4 DEF P!Life!After, RestStages
<1>5. CASE x = "started"
  BY <1>2, <1>5 DEF P!Life!After, RestStages
<1>6. CASE x = "Crashed"
  BY <1>2, <1>6 DEF P!Life!After, RestStages
<1>7. CASE x = "FailedToStart"
  BY <1>2, <1>7 DEF P!Life!After, RestStages
<1>8. CASE x = "finished"
  BY <1>2, <1>8 DEF P!Life!After, RestStages
<1>9. CASE x = "NotRunning"
  BY <1>9 DEF P!Life!After, RestStages
<1>10. QED
  BY <1>3, <1>4, <1>5, <1>6, <1>7, <1>8, <1>9 DEF Signals

\* The last message about a process gives the end of a path, where the launcher leaves a
\* process.
LEMMA PathReached ==
    ASSUME NEW s \in Seq(Messages), NEW i, NEW g, NEW e \in RestStages, Path(s, i, g, e),
           NEW A, A = {j \in DOMAIN s : Concerns(s[j], i)}
    PROVE  P!Life!Reached(g, IF A = {} THEN <<>> ELSE <<s[Max(A)].event>>) = e
<1> DEFINE n == Len(s)
<1>1. n \in Nat /\ DOMAIN s = 1 .. n /\ A \in SUBSET (1 .. n)
  BY LenProperties
<1>2. PICK p \in [0 .. n -> LifeStages] :
         /\ p[0] = g /\ p[n] = e
         /\ \A k \in 1 .. n : p[k] = Learnt(p[k - 1], s[k], i)
  BY DEF Path
<1> HIDE DEF n
<1>3. \A k \in 1 .. n : k \notin A => p[k] = p[k - 1]
  BY <1>1, <1>2 DEF Learnt
<1>4. CASE A = {}
  <2>1. \A k \in 0 + 1 .. n : p[k] = p[k - 1]
    BY <1>1, <1>3, <1>4
  <2>2. p[n] = p[0]
    BY <1>1, <2>1, Constant
  <2>3. P!Life!Reached(g, <<>>) = g
    BY DEF P!Life!Reached
  <2>4. QED
    BY <1>2, <1>4, <2>2, <2>3
<1>5. CASE A # {}
  <2> DEFINE m == Max(A)
  <2>1. m \in A /\ \A j \in A : j <= m
    BY <1>1, <1>5, MaxFound
  <2> HIDE DEF m
  <2>2. m \in 1 .. n /\ \A k \in m + 1 .. n : p[k] = p[k - 1]
    BY <1>1, <1>3, <2>1
  <2>3. p[n] = p[m]
    <3>1. m \in 0 .. n
      BY <1>1, <2>2
    <3>2. QED
      BY <1>1, <2>2, <3>1, Constant
  <2> DEFINE x == s[m].event
             h == p[m - 1]
  <2>4. x \in Signals
    <3>1. s[m] \in Messages /\ s[m].event # "idlecpurequested"
      BY <1>1, <2>1, <2>2, ElementOfSeq DEF Concerns, n
    <3>2. QED
      BY <3>1, MessageKinds
  <2>5. e = P!Life!After(h, x)
    BY <1>1, <1>2, <2>1, <2>2, <2>3 DEF Learnt
  <2> HIDE DEF x, h
  <2>6. P!Life!Reached(g, <<x>>) = e
    BY <2>4, <2>5, ReachedByOne
  <2>7. QED
    BY <1>5, <2>6 DEF x, m
<1>6. QED
  BY <1>4, <1>5

(***************************************************************************)
(* Queues.                                                                 *)
(***************************************************************************)

\* The last message of a kind, when others come behind.
LEMMA LastOfOthers ==
    ASSUME NEW S, NEW q \in Seq(S), NEW s \in Seq(S), NEW r, r = q \o s, NEW T, NoneOf(s, T)
    PROVE  /\ NoneOf(r, T) => NoneOf(q, T)
           /\ \A k \in DOMAIN r : IsLast(r, T, k) =>
                 k \in DOMAIN q /\ IsLast(q, T, k) /\ r[k] = q[k]
<1> DEFINE m == Len(q)
           n == Len(s)
<1>1. /\ r \in Seq(S) /\ Len(r) = m + n
      /\ \A k \in 1 .. m + n : r[k] = IF k <= m THEN q[k] ELSE s[k - m]
  BY ConcatProperties
<1>2. m \in Nat /\ n \in Nat /\ DOMAIN q = 1 .. m /\ DOMAIN s = 1 .. n /\ DOMAIN r = 1 .. m + n
  BY <1>1, LenProperties
<1> HIDE DEF m, n
<1>3. \A k \in 1 .. m : k \in 1 .. m + n /\ r[k] = q[k]
  BY <1>1, <1>2
<1>4. NoneOf(r, T) => NoneOf(q, T)
  BY <1>2, <1>3 DEF NoneOf
<1>5. ASSUME NEW k \in 1 .. m + n, IsLast(r, T, k)
      PROVE  k \in 1 .. m /\ IsLast(q, T, k) /\ r[k] = q[k]
  <2>1. k \in 1 .. m
    <3>1. CASE k > m
      <4>1. r[k] = s[k - m] /\ k - m \in 1 .. n
        BY <1>1, <1>2, <3>1
      <4>2. QED
        BY <1>2, <1>5, <4>1 DEF NoneOf, IsLast
    <3>2. QED
      BY <1>2, <3>1
  <2>2. r[k] = q[k] /\ q[k] \in T
    BY <1>3, <1>5, <2>1 DEF IsLast
  <2>3. \A j \in 1 .. m : q[j] \in T => j <= k
    BY <1>2, <1>3, <1>5 DEF IsLast
  <2>4. QED
    BY <1>2, <2>1, <2>2, <2>3 DEF IsLast
<1>6. QED
  BY <1>2, <1>4, <1>5

\* And when one of the kind comes.
LEMMA LastOfOne ==
    ASSUME NEW S, NEW q \in Seq(S), NEW c \in S, NEW T, c \in T
    PROVE  /\ ~NoneOf(q \o <<c>>, T)
           /\ \A k \in DOMAIN (q \o <<c>>) : IsLast(q \o <<c>>, T, k) => (q \o <<c>>)[k] = c
<1> DEFINE m == Len(q)
           r == q \o <<c>>
<1>1. r = Append(q, c)
  BY AppendIsConcat
<1>2. r \in Seq(S) /\ Len(r) = m + 1 /\ r[m + 1] = c
  BY <1>1, AppendProperties
<1>3. m \in Nat /\ DOMAIN r = 1 .. m + 1
  BY <1>2, LenProperties
<1> HIDE DEF m, r
<1>4. m \in Nat /\ m + 1 \in 1 .. m + 1
  BY <1>3
<1>5. ASSUME NEW k \in 1 .. m + 1, IsLast(r, T, k) PROVE k = m + 1
  <2>1. m + 1 <= k
    BY <1>2, <1>3, <1>4, <1>5 DEF IsLast
  <2>2. QED
    BY <1>4, <2>1
<1>6. \A k \in DOMAIN r : IsLast(r, T, k) => r[k] = c
  BY <1>2, <1>3, <1>5
<1>7. ~NoneOf(r, T)
  BY <1>2, <1>3, <1>4 DEF NoneOf
<1>8. QED
  BY <1>6, <1>7 DEF r

\* And when the first message is taken.
LEMMA LastOfTail ==
    ASSUME NEW S, NEW q \in Seq(S), q # <<>>, NEW T
    PROVE  /\ NoneOf(Tail(q), T) => IF Head(q) \in T THEN IsLast(q, T, 1) ELSE NoneOf(q, T)
           /\ \A k \in DOMAIN Tail(q) : IsLast(Tail(q), T, k) =>
                 k + 1 \in DOMAIN q /\ IsLast(q, T, k + 1) /\ Tail(q)[k] = q[k + 1]
           /\ 1 \in DOMAIN q /\ Head(q) = q[1]
<1> DEFINE r == Tail(q)
           n == Len(r)
<1>1. /\ r \in Seq(S) /\ n = Len(q) - 1 /\ \A k \in 1 .. n : r[k] = q[k + 1]
  BY HeadTailProperties
<1>2. Len(q) \in Nat /\ DOMAIN q = 1 .. Len(q) /\ n \in Nat /\ DOMAIN r = 1 .. n
  BY <1>1, LenProperties
<1>3. Head(q) = q[1]
  OBVIOUS
<1> HIDE DEF n, r
<1>4. Len(q) = n + 1 /\ DOMAIN q = 1 .. n + 1
  BY <1>1, <1>2
<1>5. n \in Nat
  BY <1>2
<1>6. \A j \in 2 .. n + 1 : j - 1 \in 1 .. n /\ q[j] = r[j - 1]
  BY <1>1, <1>2
<1>7. ASSUME NoneOf(r, T) PROVE IF Head(q) \in T THEN IsLast(q, T, 1) ELSE NoneOf(q, T)
  <2>1. \A j \in 2 .. n + 1 : q[j] \notin T
    BY <1>2, <1>6, <1>7 DEF NoneOf
  <2>2. \A j \in 1 .. n + 1 : j = 1 \/ j \in 2 .. n + 1
    BY <1>5
  <2>3. CASE Head(q) \in T
    BY <1>2, <1>3, <1>4, <2>1, <2>2, <2>3 DEF IsLast
  <2>4. CASE Head(q) \notin T
    BY <1>3, <1>4, <2>1, <2>2, <2>4 DEF NoneOf
  <2>5. QED
    BY <2>3, <2>4
<1>8. ASSUME NEW k \in 1 .. n, IsLast(r, T, k)
      PROVE  k + 1 \in DOMAIN q /\ IsLast(q, T, k + 1) /\ r[k] = q[k + 1]
  <2>1. k + 1 \in DOMAIN q /\ r[k] = q[k + 1] /\ q[k + 1] \in T
    BY <1>1, <1>2, <1>4, <1>8 DEF IsLast
  <2>2. ASSUME NEW j \in 1 .. n + 1, q[j] \in T PROVE j <= k + 1
    <3>1. CASE j = 1
      BY <1>5, <3>1
    <3>2. CASE j # 1
      <4>1. j \in 2 .. n + 1
        BY <1>5, <3>2
      <4>2. j - 1 \in 1 .. n /\ r[j - 1] \in T
        BY <1>6, <2>2, <4>1
      <4>3. j - 1 <= k
        BY <1>2, <1>8, <4>2 DEF IsLast
      <4>4. QED
        BY <1>5, <4>3
    <3>3. QED
      BY <3>1, <3>2
  <2>3. QED
    BY <1>4, <2>1, <2>2 DEF IsLast
<1>9. QED
  BY <1>2, <1>3, <1>4, <1>7, <1>8 DEF r

\* Silence about a process, of both parts of a queue.
LEMMA SilentConcat ==
    ASSUME NEW q \in Seq(Messages), NEW s \in Seq(Messages), NEW i
    PROVE  Silent(q \o s, i) <=> Silent(q, i) /\ Silent(s, i)
<1> DEFINE m == Len(q)
           n == Len(s)
           r == q \o s
<1>1. /\ r \in Seq(Messages) /\ Len(r) = m + n
      /\ \A k \in 1 .. m + n : r[k] = IF k <= m THEN q[k] ELSE s[k - m]
  BY ConcatProperties
<1>2. m \in Nat /\ n \in Nat /\ DOMAIN q = 1 .. m /\ DOMAIN s = 1 .. n /\ DOMAIN r = 1 .. m + n
  BY <1>1, LenProperties
<1> HIDE DEF m, n, r
<1>3. \A k \in 1 .. m : k \in 1 .. m + n /\ r[k] = q[k]
  BY <1>1, <1>2
<1>4. \A k \in 1 .. n : k + m \in 1 .. m + n /\ r[k + m] = s[k]
  BY <1>1, <1>2
<1>5. Silent(r, i) => Silent(q, i) /\ Silent(s, i)
  BY <1>2, <1>3, <1>4 DEF Silent
<1>6. ASSUME Silent(q, i), Silent(s, i) PROVE Silent(r, i)
  <2> SUFFICES ASSUME NEW k \in 1 .. m + n PROVE ~Concerns(r[k], i)
    BY <1>2 DEF Silent
  <2>1. CASE k <= m
    BY <1>2, <1>3, <1>6, <2>1 DEF Silent
  <2>2. CASE ~(k <= m)
    <3>1. k - m \in 1 .. n /\ r[k] = s[k - m]
      BY <1>1, <1>2, <2>2
    <3>2. QED
      BY <1>2, <1>6, <3>1 DEF Silent
  <2>3. QED
    BY <2>1, <2>2
<1>7. QED
  BY <1>5, <1>6 DEF r

\* Starts of a process, when another command comes.
LEMMA StartsOfOther ==
    ASSUME NEW q \in Seq(Commands), NEW c \in Commands, NEW i,
           ~(c.command = "start" /\ c.id = i)
    PROVE  \A j \in DOMAIN Append(q, c) : Starts(Append(q, c), i, j) =>
              j \in DOMAIN q /\ Starts(q, i, j)
<1> DEFINE m == Len(q)
           r == Append(q, c)
<1>1. /\ r \in Seq(Commands) /\ Len(r) = m + 1 /\ r[m + 1] = c
      /\ \A k \in 1 .. m : r[k] = q[k]
  BY AppendProperties
<1>2. m \in Nat /\ DOMAIN q = 1 .. m /\ DOMAIN r = 1 .. m + 1
  BY <1>1, LenProperties
<1> HIDE DEF m, r
<1>3. ASSUME NEW j \in 1 .. m + 1, Starts(r, i, j) PROVE j \in 1 .. m /\ Starts(q, i, j)
  <2>1. j # m + 1
    BY <1>1, <1>3 DEF Starts
  <2>2. j \in 1 .. m
    BY <1>2, <2>1
  <2>3. QED
    BY <1>1, <1>2, <1>3, <2>2 DEF Starts
<1>4. QED
  BY <1>2, <1>3 DEF r

\* When the first one comes.
LEMMA StartsOfFirst ==
    ASSUME NEW q \in Seq(Commands), NEW c \in Commands, NEW i,
           \A j \in DOMAIN q : ~Starts(q, i, j)
    PROVE  \A j \in DOMAIN Append(q, c) : Starts(Append(q, c), i, j) => j = Len(q) + 1
<1> DEFINE m == Len(q)
           r == Append(q, c)
<1>1. /\ r \in Seq(Commands) /\ Len(r) = m + 1 /\ \A k \in 1 .. m : r[k] = q[k]
  BY AppendProperties
<1>2. m \in Nat /\ DOMAIN q = 1 .. m /\ DOMAIN r = 1 .. m + 1
  BY <1>1, LenProperties
<1> HIDE DEF m, r
<1>3. \A j \in 1 .. m : ~Starts(r, i, j)
  BY <1>1, <1>2 DEF Starts
<1>4. \A j \in 1 .. m + 1 : j \in 1 .. m \/ j = m + 1
  BY <1>2
<1>5. QED
  BY <1>2, <1>3, <1>4 DEF r, m

\* And when the first command is taken.
LEMMA StartsOfTail ==
    ASSUME NEW q \in Seq(Commands), q # <<>>, NEW i
    PROVE  /\ \A j \in DOMAIN Tail(q) : Starts(Tail(q), i, j) =>
                 j + 1 \in DOMAIN q /\ j + 1 # 1 /\ Starts(q, i, j + 1)
           /\ Head(q).command = "start" /\ Head(q).id = i => Starts(q, i, 1)
           /\ 1 \in DOMAIN q
           /\ DOMAIN Tail(q) \subseteq Nat
<1> DEFINE r == Tail(q)
           n == Len(r)
<1>1. /\ r \in Seq(Commands) /\ n = Len(q) - 1 /\ \A k \in 1 .. n : r[k] = q[k + 1]
  BY HeadTailProperties
<1>2. Len(q) \in Nat /\ DOMAIN q = 1 .. Len(q) /\ n \in Nat /\ DOMAIN r = 1 .. n
  BY <1>1, LenProperties
<1>3. Head(q) = q[1]
  OBVIOUS
<1> HIDE DEF n, r
<1>4. DOMAIN q = 1 .. n + 1
  BY <1>1, <1>2
<1>5. ASSUME NEW j \in 1 .. n, Starts(r, i, j)
      PROVE  j + 1 \in 1 .. n + 1 /\ j + 1 # 1 /\ Starts(q, i, j + 1)
  BY <1>1, <1>2, <1>4, <1>5 DEF Starts
<1>6. 1 \in 1 .. n + 1
  BY <1>2
<1>7. Head(q).command = "start" /\ Head(q).id = i => Starts(q, i, 1)
  BY <1>3, <1>4, <1>6 DEF Starts
<1>8. \A j \in DOMAIN r : Starts(r, i, j) => j + 1 \in DOMAIN q /\ j + 1 # 1 /\ Starts(q, i, j + 1)
  BY <1>2, <1>4, <1>5
<1>9. 1 \in DOMAIN q /\ DOMAIN r \subseteq Nat
  BY <1>2, <1>4, <1>6
<1>10. QED
  BY <1>7, <1>8, <1>9 DEF r

(***************************************************************************)
(* What the actions do to the queues.                                      *)
(***************************************************************************)

\* Messages s are sent to the factories of connections K.
Spoken(K, s) == [j \in Connections |-> IF j \in K THEN Sent(j, s) ELSE down[j]]

\* All ways to send to factories.
LEMMA SpokenTo ==
    ASSUME Types, NEW s \in Seq(Messages)
    PROVE  /\ broadcast(s) = Spoken(clients, s)
           /\ \A k \in Connections : sendToClient(k, s) = Spoken({k}, s)
           /\ \A k \in Connections : [down EXCEPT ![k] = Sent(k, s)] = Spoken({k}, s)
           /\ \A K : Spoken(K, s) \in [Connections -> Seq(Messages)]
<1>1. down \in [Connections -> Seq(Messages)]
  BY DEF Types, QueueTypes
<1>2. \A k \in Connections : Sent(k, s) \in Seq(Messages)
  BY <1>1, ConcatProperties DEF Sent
<1>3. \A K : Spoken(K, s) \in [Connections -> Seq(Messages)]
  BY <1>1, <1>2 DEF Spoken
<1>4. broadcast(s) = Spoken(clients, s)
  BY DEF broadcast, Spoken
<1>5. ASSUME NEW k \in Connections PROVE [down EXCEPT ![k] = Sent(k, s)] = Spoken({k}, s)
  BY <1>1 DEF Spoken
<1>6. QED
  BY <1>3, <1>4, <1>5 DEF sendToClient

\* A command is sent.
LEMMA SendEffect ==
    ASSUME Types, NEW f \in Factories, NEW c \in Commands, send(f, c)
    PROVE  /\ up' \in [Connections -> Seq(Commands)]
           /\ \A k \in Connections : up'[k] = IF k = m_socket[f] THEN Append(up[k], c) ELSE up[k]
<1>1. /\ up \in [Connections -> Seq(Commands)] /\ m_socket[f] \in Connections \cup {None}
      /\ None \notin Connections
  BY SocketAssumption DEF Types, QueueTypes, SocketTypes
<1>2. CASE m_socket[f] = None
  BY <1>1, <1>2 DEF send
<1>3. CASE m_socket[f] # None
  <2>1. up' = [up EXCEPT ![m_socket[f]] = Append(@, c)] /\ m_socket[f] \in Connections
    BY <1>1, <1>3 DEF send
  <2>2. \A k \in Connections : Append(up[k], c) \in Seq(Commands)
    BY <1>1, AppendProperties
  <2>3. QED
    BY <1>1, <2>1, <2>2
<1>4. QED
  BY <1>2, <1>3

\* What is arriving is made of messages.
LEMMA ArrivingType ==
    ASSUME Types, NEW f \in Factories
    PROVE  /\ Arriving(f) \in Seq(Messages) /\ m_buffer[f] \in Seq(Messages)
           /\ Understood(f) => /\ m_socket[f] \in Connections /\ down[m_socket[f]] \in Seq(Messages)
                               /\ Arriving(f) = m_buffer[f] \o down[m_socket[f]]
           /\ ~Understood(f) => Arriving(f) = m_buffer[f]
<1>1. /\ m_buffer[f] \in Seq(Messages) /\ down \in [Connections -> Seq(Messages)]
      /\ m_socket[f] \in Connections \cup {None}
  BY DEF Types, QueueTypes, SocketTypes
<1>2. CASE Understood(f)
  <2>1. m_socket[f] \in Connections
    BY <1>1, <1>2 DEF Understood
  <2>2. Arriving(f) = m_buffer[f] \o down[m_socket[f]]
    BY <1>2 DEF Arriving, Coming
  <2>3. QED
    BY <1>1, <1>2, <2>1, <2>2, ConcatProperties
<1>3. CASE ~Understood(f)
  BY <1>1, <1>3 DEF Arriving
<1>4. QED
  BY <1>2, <1>3

\* Messages arrive behind the others, where the factory can read them.
LEMMA ArrivesSpoken ==
    ASSUME Types, Owned, NEW s \in Seq(Messages), NEW K \in SUBSET Connections,
           down' = Spoken(K, s), UNCHANGED <<sockets, owner>>, NEW f \in Factories
    PROVE  /\ Understood(f)' = Understood(f)
           /\ Arriving(f)' = IF Understood(f) /\ m_socket[f] \in K THEN Arriving(f) \o s
                             ELSE Arriving(f)
<1>1. UNCHANGED <<m_socket, m_buffer, garbled>>
  BY DEF sockets
<1>2. Understood(f)' = Understood(f)
  BY <1>1 DEF Understood
<1>3. CASE ~Understood(f)
  BY <1>1, <1>2, <1>3 DEF Arriving
<1>4. CASE Understood(f)
  <2> DEFINE k == m_socket[f]
  <2>1. k \in Connections /\ down[k] \in Seq(Messages) /\ m_buffer[f] \in Seq(Messages)
    BY <1>4, ArrivingType
  <2>2. owner[k] = f /\ f # None
    BY <1>4, SocketAssumption DEF Understood, Owned
  <2>3. Arriving(f) = m_buffer[f] \o down[k] /\ Arriving(f)' = m_buffer[f] \o down'[k]
    BY <1>1, <1>2, <1>4 DEF Arriving, Coming
  <2>4. down'[k] = IF k \in K THEN Sent(k, s) ELSE down[k]
    BY <2>1 DEF Spoken
  <2>5. Sent(k, s) = down[k] \o s
    BY <2>2 DEF Sent, IsOpen
  <2> DEFINE b == m_buffer[f]
             d == down[k]
  <2>6. m_buffer[f] \o (down[k] \o s) = (m_buffer[f] \o down[k]) \o s
    <3>1. b \in Seq(Messages) /\ d \in Seq(Messages)
      BY <2>1
    <3> HIDE DEF b, d
    <3>2. b \o (d \o s) = (b \o d) \o s
      BY <3>1, ConcatAssociative
    <3>3. QED
      BY <3>2 DEF b, d
  <2>7. QED
    BY <1>2, <1>4, <2>3, <2>4, <2>5, <2>6
<1>5. QED
  BY <1>3, <1>4

\* The head and the tail of a queue, when there is a first part.
LEMMA ConcatTail ==
    ASSUME NEW S, NEW q \in Seq(S), q # <<>>, NEW s \in Seq(S)
    PROVE  q \o s # <<>> /\ Head(q \o s) = Head(q) /\ Tail(q \o s) = Tail(q) \o s
<1> DEFINE r == q \o s
           a == Tail(r)
           t == Tail(q)
           b == t \o s
           m == Len(q)
           n == Len(s)
<1>1. /\ r \in Seq(S) /\ Len(r) = m + n
      /\ \A k \in 1 .. m + n : r[k] = IF k <= m THEN q[k] ELSE s[k - m]
  BY ConcatProperties
<1>2. m \in Nat \ {0} /\ n \in Nat /\ Head(q) = q[1]
  BY LenProperties
<1>3. /\ t \in Seq(S) /\ Len(t) = m - 1 /\ \A k \in 1 .. Len(t) : t[k] = q[k + 1]
  BY HeadTailProperties
<1>4. r # <<>> /\ Head(r) = Head(q)
  BY <1>1, <1>2
<1>5. /\ a \in Seq(S) /\ Len(a) = m + n - 1
      /\ \A k \in 1 .. Len(a) : a[k] = r[k + 1]
  BY <1>1, <1>4, HeadTailProperties
<1>6. /\ b \in Seq(S) /\ Len(b) = m - 1 + n
      /\ \A k \in 1 .. m - 1 + n : b[k] = IF k <= m - 1 THEN t[k] ELSE s[k - (m - 1)]
  BY <1>3, ConcatProperties
<1> HIDE DEF r, a, t, b, m, n
<1>7. Len(a) = Len(b) /\ Len(a) = m - 1 + n
  BY <1>2, <1>5, <1>6
<1>8. ASSUME NEW k \in 1 .. m - 1 + n PROVE a[k] = b[k]
  <2>1. a[k] = r[k + 1] /\ k + 1 \in 1 .. m + n
    BY <1>2, <1>5, <1>7
  <2>2. CASE k <= m - 1
    <3>1. k + 1 <= m /\ k \in 1 .. m - 1
      BY <1>2, <2>2
    <3>2. r[k + 1] = q[k + 1] /\ b[k] = t[k] /\ t[k] = q[k + 1]
      BY <1>1, <1>3, <1>6, <2>1, <2>2, <3>1
    <3>3. QED
      BY <2>1, <3>2
  <2>3. CASE ~(k <= m - 1)
    <3>1. ~(k + 1 <= m) /\ (k + 1) - m = k - (m - 1)
      BY <1>2, <2>3
    <3>2. r[k + 1] = s[k - (m - 1)]
      <4>1. \A h \in 1 .. m + n : ~(h <= m) => r[h] = s[h - m]
        BY <1>1
      <4>2. QED
        BY <2>1, <3>1, <4>1
    <3>3. b[k] = s[k - (m - 1)]
      BY <1>6, <2>3
    <3>4. QED
      BY <2>1, <3>1, <3>2, <3>3
  <2>4. QED
    BY <2>2, <2>3
<1>9. a = b
  BY <1>5, <1>6, <1>7, <1>8, SeqEqual
<1>10. QED
  BY <1>4, <1>9 DEF r, a, b, t

\* Nothing changes for a factory.
LEMMA ArrivesSame ==
    ASSUME NEW f \in Factories, UNCHANGED <<m_socket[f], m_buffer[f], garbled[f]>>,
           m_socket[f] # None => UNCHANGED down[m_socket[f]]
    PROVE  Understood(f)' = Understood(f) /\ Arriving(f)' = Arriving(f)
BY DEF Understood, Arriving, Coming

\* The others do not notice what becomes of connection k of a factory.
LEMMA OthersSockets ==
    ASSUME Types, Owned, NEW f \in Factories, m_socket[f] # None, NEW g \in Factories, g # f
    PROVE  m_socket[g] # m_socket[f] /\ m_socket[f] \in Connections
BY DEF Owned, Types, SocketTypes

\* A new connection brings nothing.
LEMMA ArrivesConnect ==
    ASSUME Types, Owned, NEW g \in Factories, NEW k \in Connections, Unopened(k), Connect(g, k),
           NEW f \in Factories
    PROVE  Arriving(f)' = Arriving(f) /\ (f # g => Understood(f)' = Understood(f))
<1>1. /\ m_socket' = [m_socket EXCEPT ![g] = k] /\ owner[k] = None /\ m_socket[g] = None
      /\ UNCHANGED <<m_buffer, garbled, down>> /\ ~reading[g]
  BY DEF Connect
<1>2. CASE f # g
  <2>1. m_socket'[f] = m_socket[f]
    BY <1>1, <1>2 DEF Types, SocketTypes
  <2>2. QED
    BY <1>1, <1>2, <2>1, ArrivesSame
<1>3. CASE f = g
  <2>1. m_buffer[f] = <<>> /\ down[k] = <<>> /\ m_socket'[f] = k /\ ~Understood(f)
    BY <1>1, <1>3 DEF Types, FactoryTypes, SocketTypes, Unopened, Understood
  <2>2. <<>> \o <<>> = <<>>
    OBVIOUS
  <2>3. QED
    BY <1>1, <1>3, <2>1, <2>2 DEF Arriving, Coming
<1>4. QED
  BY <1>2, <1>3

\* When a connection ends, the end of what was arriving is lost.
LEMMA ArrivesDisconnect ==
    ASSUME Types, Owned, NEW g \in Factories, Disconnect(g), NEW f \in Factories
    PROVE  /\ f = g => \E t \in Seq(Messages) : Arriving(f) = Arriving(f)' \o t
           /\ f # g => Understood(f)' = Understood(f) /\ Arriving(f)' = Arriving(f)
           /\ Arriving(f)' \in Seq(Messages)
<1> DEFINE k == m_socket[g]
<1>1. /\ k # None /\ m_socket' = [m_socket EXCEPT ![g] = None]
      /\ down' = [down EXCEPT ![k] = <<>>]
      /\ garbled' \in {garbled, [garbled EXCEPT ![g] = @ \/ down[k] # <<>>]}
      /\ UNCHANGED m_buffer
  BY DEF Disconnect
<1>2. /\ m_socket \in [Factories -> Connections \cup {None}]
      /\ garbled \in [Factories -> BOOLEAN] /\ down \in [Connections -> Seq(Messages)]
      /\ k \in Connections
  BY <1>1 DEF Types, SocketTypes, FactoryTypes, QueueTypes
<1>3. Arriving(f) \in Seq(Messages) /\ m_buffer[f] \in Seq(Messages)
  BY ArrivingType
<1>4. CASE f # g
  <2>1. m_socket[f] # k
    BY <1>1, <1>4, OthersSockets
  <2>2. m_socket'[f] = m_socket[f] /\ garbled'[f] = garbled[f]
    BY <1>1, <1>2, <1>4
  <2>3. m_socket[f] # None => down'[m_socket[f]] = down[m_socket[f]]
    BY <1>1, <1>2, <2>1
  <2>4. Understood(f)' = Understood(f) /\ Arriving(f)' = Arriving(f)
    BY <1>1, <2>2, <2>3, ArrivesSame
  <2>5. QED
    BY <1>3, <1>4, <2>4
<1>5. CASE f = g
  <2>1. m_socket'[f] = None
    BY <1>1, <1>2, <1>5
  <2>2. Arriving(f)' = m_buffer[f]
    BY <1>1, <2>1 DEF Arriving, Understood
  <2>3. \E t \in Seq(Messages) : Arriving(f) = m_buffer[f] \o t
    <3>1. CASE Understood(f)
      BY <3>1, ArrivingType
    <3>2. CASE ~Understood(f)
      <4>1. Arriving(f) = m_buffer[f]
        BY <3>2 DEF Arriving
      <4>2. m_buffer[f] \o <<>> = m_buffer[f]
        BY <1>3, ConcatEmptySeq
      <4>3. <<>> \in Seq(Messages)
        OBVIOUS
      <4>4. QED
        BY <4>1, <4>2, <4>3
    <3>3. QED
      BY <3>1, <3>2
  <2>4. QED
    BY <1>3, <1>5, <2>2, <2>3
<1>6. QED
  BY <1>4, <1>5

\* What is read was arriving before.
LEMMA ArrivesReadyRead ==
    ASSUME Types, Owned, NEW g \in Factories, ReadyRead(g), NEW f \in Factories
    PROVE  /\ Understood(f)' = Understood(f) /\ Arriving(f)' = Arriving(f)
           /\ m_buffer' \in [Factories -> Seq(Messages)]
           /\ down' \in [Connections -> Seq(Messages)]
           /\ reading' \in [Factories -> BOOLEAN]
           /\ \A h \in Factories : reading'[h] <=> m_buffer'[h] # <<>>
<1> DEFINE k == m_socket[g]
           d == down[k]
           b == m_buffer[g]
<1>1. PICK n \in {1, Len(d)} :
         /\ d # <<>> /\ down' = [down EXCEPT ![k] = SubSeq(d, n + 1, Len(d))]
         /\ IF garbled[g] THEN UNCHANGED <<m_buffer, reading>>
            ELSE /\ m_buffer' = [m_buffer EXCEPT ![g] = b \o SubSeq(d, 1, n)]
                 /\ reading' = [reading EXCEPT ![g] = TRUE]
  BY DEF ReadyRead
<1>2. k # None /\ ~reading[g] /\ UNCHANGED <<m_socket, garbled>>
  BY DEF ReadyRead
<1>3. /\ down \in [Connections -> Seq(Messages)] /\ m_buffer \in [Factories -> Seq(Messages)]
      /\ reading \in [Factories -> BOOLEAN]
      /\ \A h \in Factories : reading[h] <=> m_buffer[h] # <<>>
      /\ k \in Connections
  BY <1>2 DEF Types, QueueTypes, FactoryTypes, SocketTypes
<1>4. d \in Seq(Messages) /\ b \in Seq(Messages)
  BY <1>3
<1> DEFINE c == Len(d)
<1>5. c \in Nat \ {0} /\ n \in 1 .. c
  BY <1>1, <1>4, LenProperties
<1> DEFINE s == SubSeq(d, 1, n)
           t == SubSeq(d, n + 1, c)
<1> HIDE DEF c, d, b
<1> DEFINE m == n + 1
<1>6. /\ \A j \in 1 .. n : d[j] \in Messages
      /\ \A j \in m .. c : d[j] \in Messages
      /\ 1 \in Int /\ n \in Int /\ m \in Int /\ c \in Int
  BY <1>4, <1>5, ElementOfSeq DEF c
<1>7. s \in Seq(Messages) /\ Len(s) = IF 1 <= n THEN n - 1 + 1 ELSE 0
  BY <1>6, SubSeqProperties
<1>8. t \in Seq(Messages)
  <2> HIDE DEF m
  <2>1. SubSeq(d, m, c) \in Seq(Messages)
    BY <1>6, SubSeqProperties
  <2>2. QED
    BY <2>1 DEF m
<1>9. s \o t = d
  <2>1. 1 \in 1 .. c + 1 /\ n \in 1 - 1 .. c /\ c \in n .. c
    BY <1>5
  <2>2. s \o t = SubSeq(d, 1, c)
    BY <1>4, <2>1, ConcatAdjacentSubSeq DEF c
  <2>3. SubSeq(d, 1, c) = d
    BY <1>4, SubSeqFull DEF c
  <2>4. QED
    BY <2>2, <2>3
<1>10. Len(s) # 0
  BY <1>5, <1>7
<1> HIDE DEF s, t
<1>11. down' = [down EXCEPT ![k] = t]
  BY <1>1 DEF t, c, d
<1>12. b \o s \in Seq(Messages) /\ b \o s # <<>> /\ b \o d = (b \o s) \o t
  <2>1. b \o s \in Seq(Messages) /\ Len(b \o s) = Len(b) + Len(s)
    BY <1>4, <1>7, ConcatProperties
  <2>2. Len(b) \in Nat /\ Len(s) \in Nat
    BY <1>4, <1>7, LenProperties
  <2>3. b \o s # <<>>
    BY <1>10, <2>1, <2>2
  <2>4. b \o (s \o t) = (b \o s) \o t
    <3>1. s \in Seq(Messages) /\ t \in Seq(Messages)
      BY <1>7, <1>8
    <3> HIDE DEF s, t
    <3>2. QED
      BY <1>4, <3>1, ConcatAssociative
  <2>5. QED
    BY <1>9, <2>1, <2>3, <2>4
<1>13. ~garbled[g] => /\ m_buffer' = [m_buffer EXCEPT ![g] = b \o s]
                      /\ reading' = [reading EXCEPT ![g] = TRUE]
  BY <1>1 DEF s, b, d
<1>14. garbled[g] => UNCHANGED <<m_buffer, reading>>
  BY <1>1
<1>15. Understood(f)' = Understood(f)
  BY <1>2 DEF Understood
<1>16. Arriving(f)' = Arriving(f)
  <2>1. CASE f # g
    <3>1. m_buffer'[f] = m_buffer[f]
      BY <1>3, <1>13, <1>14, <2>1
    <3>2. m_socket[f] # k
      BY <1>2, <2>1, OthersSockets
    <3>3. down'[m_socket[f]] = down[m_socket[f]] \/ ~Understood(f)
      BY <1>3, <1>11, <3>2 DEF Understood, Types, SocketTypes
    <3>4. QED
      BY <1>2, <1>15, <3>1, <3>3 DEF Arriving, Coming
  <2>2. CASE f = g /\ garbled[g]
    <3>1. ~Understood(f)
      BY <2>2 DEF Understood
    <3>2. QED
      BY <1>14, <1>15, <2>2, <3>1 DEF Arriving
  <2>3. CASE f = g /\ ~garbled[g]
    <3>1. Understood(f)
      BY <1>2, <2>3 DEF Understood
    <3>2. m_buffer'[g] = b \o s /\ down'[k] = t
      BY <1>3, <1>11, <1>13, <2>3
    <3>3. Arriving(f) = b \o d
      BY <2>3, <3>1 DEF Arriving, Coming, b, d
    <3>4. Arriving(f)' = m_buffer'[g] \o down'[k]
      BY <1>2, <1>15, <2>3, <3>1 DEF Arriving, Coming
    <3>5. QED
      BY <1>12, <3>2, <3>3, <3>4
  <2>4. QED
    BY <2>1, <2>2, <2>3
<1>17. m_buffer' \in [Factories -> Seq(Messages)] /\ down' \in [Connections -> Seq(Messages)]
  BY <1>3, <1>8, <1>11, <1>12, <1>13, <1>14
<1>18. /\ reading' \in [Factories -> BOOLEAN]
       /\ \A h \in Factories : reading'[h] <=> m_buffer'[h] # <<>>
  <2>1. CASE garbled[g]
    BY <1>3, <1>14, <2>1
  <2>2. CASE ~garbled[g]
    <3>1. /\ m_buffer' = [m_buffer EXCEPT ![g] = b \o s]
          /\ reading' = [reading EXCEPT ![g] = TRUE]
      BY <1>13, <2>2
    <3>2. QED
      BY <1>3, <1>12, <3>1
  <2>3. QED
    BY <2>1, <2>2
<1>19. QED
  BY <1>15, <1>16, <1>17, <1>18

\* The first message is handled.
LEMMA ArrivesReceive ==
    ASSUME Types, Owned, NEW g \in Factories, receive(g), NEW f \in Factories
    PROVE  /\ Understood(f)' = Understood(f)
           /\ f # g => Arriving(f)' = Arriving(f)
           /\ f = g => /\ Arriving(f) # <<>> /\ Head(Arriving(f)) = Head(m_buffer[f])
                       /\ Arriving(f)' = Tail(Arriving(f))
           /\ m_buffer[g] # <<>> /\ Head(m_buffer[g]) \in Messages
           /\ m_buffer' \in [Factories -> Seq(Messages)]
           /\ reading' \in [Factories -> BOOLEAN]
           /\ \A h \in Factories : reading'[h] <=> m_buffer'[h] # <<>>
<1> DEFINE b == m_buffer[g]
           t == Tail(b)
<1>1. /\ m_buffer' = [m_buffer EXCEPT ![g] = t] /\ reading[g]
      /\ reading' = [reading EXCEPT ![g] = (t # <<>>)]
      /\ UNCHANGED <<m_socket, garbled, down>>
  BY DEF receive, ReadsOn
<1>2. /\ m_buffer \in [Factories -> Seq(Messages)] /\ reading \in [Factories -> BOOLEAN]
      /\ \A h \in Factories : reading[h] <=> m_buffer[h] # <<>>
  BY DEF Types, QueueTypes, FactoryTypes
<1>3. b \in Seq(Messages) /\ b # <<>>
  BY <1>1, <1>2
<1>4. t \in Seq(Messages) /\ Head(b) \in Messages
  BY <1>3, HeadTailProperties
<1> HIDE DEF t
<1>5. m_buffer' \in [Factories -> Seq(Messages)] /\ m_buffer'[g] = t
  BY <1>1, <1>2, <1>4
<1>6. /\ reading' \in [Factories -> BOOLEAN]
      /\ \A h \in Factories : reading'[h] <=> m_buffer'[h] # <<>>
  BY <1>1, <1>2
<1>7. Understood(f)' = Understood(f)
  BY <1>1 DEF Understood
<1>8. f # g => Arriving(f)' = Arriving(f)
  <2>1. f # g => m_buffer'[f] = m_buffer[f]
    BY <1>1, <1>2
  <2>2. QED
    BY <1>1, <1>7, <2>1 DEF Arriving, Coming
<1>9. ASSUME f = g
      PROVE  /\ Arriving(f) # <<>> /\ Head(Arriving(f)) = Head(b)
             /\ Arriving(f)' = Tail(Arriving(f))
  <2>1. CASE Understood(f)
    <3> DEFINE d == down[m_socket[f]]
    <3>1. d \in Seq(Messages) /\ Arriving(f) = b \o d
      BY <1>9, <2>1, ArrivingType
    <3>2. Arriving(f)' = m_buffer'[g] \o d
      BY <1>1, <1>7, <1>9, <2>1 DEF Arriving, Coming
    <3> HIDE DEF d, b
    <3>3. b \o d # <<>> /\ Head(b \o d) = Head(b) /\ Tail(b \o d) = Tail(b) \o d
      BY <1>3, <3>1, ConcatTail
    <3>4. QED
      BY <1>5, <3>1, <3>2, <3>3 DEF t
  <2>2. CASE ~Understood(f)
    BY <1>3, <1>5, <1>7, <1>9, <2>2 DEF Arriving, t
  <2>3. QED
    BY <2>1, <2>2
<1>10. QED
  BY <1>3, <1>4, <1>5, <1>6, <1>7, <1>8, <1>9

\* Every command is of its kind.
LEMMA CommandKinds ==
    ASSUME NEW m \in Commands
    PROVE  /\ m.command = "memory" <=> m \in Memories
           /\ m \in Memories => m.value \in BOOLEAN
           /\ m.command \in {"start", "stop"} => m.id \in Ids
<1>1. CASE m \in Memories
  BY <1>1 DEF Memories
<1>2. CASE m \in [command : {"idlecpuavailable"}]
  BY <1>2 DEF Memories
<1>3. CASE m \in [command : {"start", "stop"}, id : Ids]
  <2>1. m.command \in {"start", "stop"} /\ m.id \in Ids
    BY <1>3
  <2>2. m.command # "memory"
    BY <2>1
  <2>3. m \notin Memories
    BY <2>2 DEF Memories
  <2>4. QED
    BY <2>1, <2>2, <2>3
<1>4. QED
  BY <1>1, <1>2, <1>3 DEF Commands

\* What is sent to the launcher are commands.
LEMMA CommandTypes ==
    /\ \A v \in BOOLEAN : Memory(v) \in Commands /\ Memory(v) \in Memories
                          /\ Memory(v).command = "memory" /\ Memory(v).value = v
    /\ [command |-> "idlecpuavailable"] \in Commands
    /\ [command |-> "idlecpuavailable"].command = "idlecpuavailable"
    /\ \A i \in Ids : /\ Message("start", i) \in Commands /\ Message("stop", i) \in Commands
                      /\ Message("start", i).command = "start" /\ Message("start", i).id = i
                      /\ Message("stop", i).command = "stop"
BY DEF Memory, Message, Commands, Memories

\* The client goes on with its process, and the factory hears the news.
LEMMA ReceiveEffect ==
    ASSUME Types, NEW g \in Factories, receive(g), Head(m_buffer[g]) \in Messages
    PROVE  /\ seen' \in [Factories -> [Ids -> LifeStages \cup {"broken"}]]
           /\ m_state' \in [Factories -> [Ids -> States]]
           /\ m_idleCpuRequest' \in [Factories -> BOOLEAN]
           /\ \A f \in Factories, i \in Ids : seen'[f][i] =
                 IF f = g THEN Learnt(seen[f][i], Head(m_buffer[g]), i) ELSE seen[f][i]
           /\ \A f \in Factories : m_idleCpuRequest'[f] =
                 IF f = g /\ Head(m_buffer[g]) \in IdleNews THEN Head(m_buffer[g]).value
                 ELSE m_idleCpuRequest[f]
<1> DEFINE m == Head(m_buffer[g])
<1>1. /\ seen \in [Factories -> [Ids -> LifeStages \cup {"broken"}]]
      /\ m_state \in [Factories -> [Ids -> States]]
      /\ m_idleCpuRequest \in [Factories -> BOOLEAN]
  BY DEF Types, ClientTypes, FactoryTypes
<1>2. \/ /\ m.event = "idlecpurequested"
         /\ m_idleCpuRequest' = [m_idleCpuRequest EXCEPT ![g] = m.value]
         /\ UNCHANGED <<m_state, seen>>
      \/ /\ m.event # "idlecpurequested"
         /\ seen' = [seen EXCEPT ![g][m.id] = Life(g, m.id)!After(@, m.event)]
         /\ m_state' = [m_state EXCEPT ![g][m.id] = IF m.event \in States THEN m.event ELSE @]
         /\ UNCHANGED m_idleCpuRequest
  BY DEF receive
<1>3. /\ m \in IdleNews <=> m.event = "idlecpurequested"
      /\ m \in IdleNews => m.value \in BOOLEAN
      /\ m \notin IdleNews => m.id \in Ids
  BY MessageKinds
<1> HIDE DEF m
<1>4. CASE m \in IdleNews
  <2>1. /\ m_idleCpuRequest' = [m_idleCpuRequest EXCEPT ![g] = m.value]
        /\ UNCHANGED <<m_state, seen>> /\ m.value \in BOOLEAN
    BY <1>2, <1>3, <1>4
  <2>2. \A i \in Ids : Learnt(seen[g][i], m, i) = seen[g][i]
    BY <1>3, <1>4 DEF Learnt, Concerns
  <2>3. QED
    BY <1>1, <1>4, <2>1, <2>2 DEF m
<1>5. CASE m \notin IdleNews
  <2>1. m.event # "idlecpurequested" /\ m.id \in Ids
    BY <1>3, <1>5
  <2> DEFINE a == P!Life!After(seen[g][m.id], m.event)
             s == IF m.event \in States THEN m.event ELSE m_state[g][m.id]
  <2>2. seen' = [seen EXCEPT ![g][m.id] = a]
    BY <1>1, <1>2, <2>1, LifeNames
  <2>3. m_state' = [m_state EXCEPT ![g][m.id] = s] /\ UNCHANGED m_idleCpuRequest
    BY <1>1, <1>2, <2>1
  <2>4. a \in LifeStages \cup {"broken"}
    BY DEF P!Life!After, LifeStages
  <2>5. s \in States
    BY <1>1, <2>1
  <2>6. \A i \in Ids : Learnt(seen[g][i], m, i) = IF i = m.id THEN a ELSE seen[g][i]
    BY <2>1 DEF Learnt, Concerns
  <2> HIDE DEF a, s
  <2>7. /\ seen' \in [Factories -> [Ids -> LifeStages \cup {"broken"}]]
        /\ m_state' \in [Factories -> [Ids -> States]]
    BY <1>1, <2>1, <2>2, <2>3, <2>4, <2>5
  <2>8. \A f \in Factories, i \in Ids :
           seen'[f][i] = IF f = g /\ i = m.id THEN a ELSE seen[f][i]
    BY <1>1, <2>1, <2>2
  <2>9. \A f \in Factories, i \in Ids :
           seen'[f][i] = IF f = g THEN Learnt(seen[f][i], m, i) ELSE seen[f][i]
    BY <2>6, <2>8
  <2>10. QED
    BY <1>1, <1>5, <2>3, <2>7, <2>9 DEF m
<1>6. QED
  BY <1>4, <1>5

\* A change of a process is reported to the connection's factory.
LEMMA ReportEffect ==
    ASSUME Types, NEW k \in Connections, NEW i \in Ids, NEW r \in Seq(Signals),
           P!Life!Reached(stage[k][i], r) \in RestStages, Report(k, i, r)
    PROVE  /\ stage' \in [Connections -> [Ids -> RestStages]]
           /\ down' = Spoken({k}, Events(i, r)) /\ down' \in [Connections -> Seq(Messages)]
           /\ \A j \in Connections, h \in Ids : stage'[j][h] =
                 IF j = k /\ h = i THEN P!Life!Reached(stage[k][i], r) ELSE stage[j][h]
<1> DEFINE g == P!Life!Reached(stage[k][i], r)
<1>1. stage \in [Connections -> [Ids -> RestStages]]
  BY DEF Types, LauncherTypes
<1>2. /\ stage' = [stage EXCEPT ![k][i] = g]
      /\ down' = sendToClient(k, Events(i, r))
  BY DEF Report
<1>3. down' = Spoken({k}, Events(i, r)) /\ down' \in [Connections -> Seq(Messages)]
  <2> DEFINE e == Events(i, r)
  <2>1. e \in Seq(Messages)
    BY EventsType
  <2>2. down' = sendToClient(k, e)
    BY <1>2
  <2> HIDE DEF e
  <2>3. sendToClient(k, e) = Spoken({k}, e) /\ Spoken({k}, e) \in [Connections -> Seq(Messages)]
    BY <2>1, SpokenTo
  <2>4. QED
    BY <2>2, <2>3 DEF e
<1>4. g \in RestStages
  OBVIOUS
<1> HIDE DEF g
<1>5. /\ stage' \in [Connections -> [Ids -> RestStages]]
      /\ \A j \in Connections, h \in Ids : stage'[j][h] =
            IF j = k /\ h = i THEN g ELSE stage[j][h]
  BY <1>1, <1>2, <1>4
<1>6. QED
  BY <1>3, <1>5 DEF g

\* What the launcher's request may do: it stays, all clients are told of it, or nobody is
\* told and nobody counts as told.
Spread ==
    /\ requested' \in BOOLEAN /\ delegate' \in BOOLEAN
    /\ informed' \in SUBSET clients /\ (delegate' => informed' = {})
    /\ \/ UNCHANGED <<requested, down, informed>>
       \/ down' = Spoken(clients, <<Request(requested')>>) /\ informed' = clients
       \/ informed' = {} /\ UNCHANGED down

\* The factories are polled.
LEMMA UpdateSpreads ==
    ASSUME Types, NEW v \in BOOLEAN, updateIdleCpuRequest(v), UNCHANGED delegate
    PROVE  Spread
<1>1. /\ requested \in BOOLEAN /\ delegate \in BOOLEAN
      /\ informed \in SUBSET clients /\ (delegate => informed = {})
  BY DEF Types, LauncherTypes
<1>2. requested' = v
  BY DEF updateIdleCpuRequest
<1>3. CASE v = requested
  <2>1. UNCHANGED <<requested, down, informed>>
    BY <1>2, <1>3 DEF updateIdleCpuRequest
  <2>2. QED
    BY <1>1, <2>1 DEF Spread
<1>4. CASE v # requested
  <2>1. handleIdleCpuRequest(v)
    BY <1>4 DEF updateIdleCpuRequest
  <2>2. CASE delegate
    <3>1. UNCHANGED <<down, informed>>
      BY <2>1, <2>2 DEF handleIdleCpuRequest
    <3>2. QED
      BY <1>1, <1>2, <2>2, <3>1 DEF Spread
  <2>3. CASE ~delegate
    <3>1. down' = broadcast(<<Request(v)>>) /\ informed' = clients
      BY <2>1, <2>3 DEF handleIdleCpuRequest
    <3>2. broadcast(<<Request(v)>>) = Spoken(clients, <<Request(v)>>)
      BY DEF broadcast, Spoken
    <3>3. down' = Spoken(clients, <<Request(requested')>>)
      BY <1>2, <3>1, <3>2
    <3>4. QED
      BY <1>1, <1>2, <2>3, <3>1, <3>3 DEF Spread
  <2>4. QED
    BY <1>1, <2>2, <2>3
<1>5. QED
  BY <1>3, <1>4

\* The launcher talks by itself.
LEMMA LauncherTalks ==
    ASSUME Types, FactoriesChange \/ setIdleDelegate
    PROVE  /\ Spread
           /\ UNCHANGED <<sockets, told, m_memoryRestricted, owner, host>>
           /\ UNCHANGED <<up, clients, removed, stage, restricted>>
<1>1. /\ requested \in BOOLEAN /\ delegate \in BOOLEAN
      /\ informed \in SUBSET clients /\ (delegate => informed = {})
  BY DEF Types, LauncherTypes
<1>2. CASE FactoriesChange
  <2>1. updateIdleCpuRequest(~requested) /\ UNCHANGED delegate
    BY <1>2 DEF FactoriesChange
  <2>2. PICK v \in BOOLEAN : v = ~requested
    BY <1>1
  <2>3. updateIdleCpuRequest(v)
    BY <2>1, <2>2
  <2>4. Spread
    BY <2>1, <2>3, UpdateSpreads
  <2>5. QED
    BY <1>2, <2>4 DEF FactoriesChange
<1>3. CASE setIdleDelegate
  <2>1. /\ delegate' = ~delegate /\ UNCHANGED requested
        /\ UNCHANGED <<sockets, told, m_memoryRestricted, owner, host>>
        /\ UNCHANGED <<up, clients, removed, stage, restricted>>
    BY <1>3 DEF setIdleDelegate
  <2>2. delegate' \in BOOLEAN /\ requested' \in BOOLEAN
    BY <1>1, <2>1
  <2>3. CASE delegate /\ requested
    <3>1. down' = broadcast(<<Request(TRUE)>>) /\ informed' = clients
      BY <1>3, <2>3 DEF setIdleDelegate
    <3>2. broadcast(<<Request(TRUE)>>) = Spoken(clients, <<Request(TRUE)>>)
      BY DEF broadcast, Spoken
    <3>3. requested' = TRUE
      BY <1>1, <2>1, <2>3
    <3>4. down' = Spoken(clients, <<Request(requested')>>)
      BY <3>1, <3>2, <3>3
    <3>5. ~delegate'
      BY <2>1, <2>3
    <3>6. QED
      BY <2>1, <2>2, <3>1, <3>4, <3>5 DEF Spread
  <2>4. CASE ~(delegate /\ requested)
    <3>1. informed' = {} /\ UNCHANGED down
      BY <1>3, <2>4 DEF setIdleDelegate
    <3>2. QED
      BY <2>1, <2>2, <3>1 DEF Spread
  <2>5. QED
    BY <2>3, <2>4
<1>4. QED
  BY <1>2, <1>3

\* The launcher handles a command: the parts that all commands have in common.
LEMMA MessageTaken ==
    ASSUME Types, NEW k \in Connections, messageReceived(k)
    PROVE  /\ k \in clients /\ up[k] # <<>> /\ up[k] \in Seq(Commands)
           /\ Head(up[k]) \in Commands
           /\ up' \in [Connections -> Seq(Commands)]
           /\ \A j \in Connections : up'[j] = IF j = k THEN Tail(up[k]) ELSE up[j]
           /\ UNCHANGED <<sockets, told, m_memoryRestricted, owner, clients, removed, host>>
           /\ UNCHANGED delegate
<1>1. /\ k \in clients /\ up[k] # <<>> /\ up' = [up EXCEPT ![k] = Tail(@)]
      /\ UNCHANGED <<sockets, told, m_memoryRestricted, owner, clients, removed, host>>
      /\ UNCHANGED delegate
  BY DEF messageReceived
<1>2. up \in [Connections -> Seq(Commands)]
  BY DEF Types, QueueTypes
<1> DEFINE q == up[k]
           t == Tail(q)
<1>3. q \in Seq(Commands) /\ q # <<>>
  BY <1>1, <1>2
<1> HIDE DEF q
<1>4. t \in Seq(Commands) /\ Head(q) \in Commands
  BY <1>3, HeadTailProperties
<1>5. up' = [up EXCEPT ![k] = t]
  BY <1>1 DEF q
<1> HIDE DEF t
<1>6. /\ up' \in [Connections -> Seq(Commands)]
      /\ \A j \in Connections : up'[j] = IF j = k THEN t ELSE up[j]
  BY <1>2, <1>4, <1>5
<1>7. QED
  BY <1>1, <1>3, <1>4, <1>6 DEF t, q

\* And what becomes of it.
LEMMA MessageEffect ==
    ASSUME Types, NEW k \in Connections, messageReceived(k), NEW m, m = Head(up[k])
    PROVE  \/ m \in Memories /\ restricted' = m.value /\ Spread /\ UNCHANGED stage
           \/ m.command = "idlecpuavailable" /\ Spread /\ UNCHANGED <<stage, restricted>>
           \/ /\ m.command = "start" /\ m.id \in Ids
              /\ UNCHANGED <<restricted, requested, informed>>
              /\ \/ UNCHANGED <<stage, down>>
                 \/ \E r \in P!StartReports : Report(k, m.id, r)
           \/ m.command = "stop" /\ UNCHANGED <<stage, restricted, requested, informed, down>>
<1>1. /\ m \in Commands /\ UNCHANGED delegate
      /\ \/ m.command = "memory" /\ LauncherRestricts(m.value) /\ UNCHANGED stage
         \/ /\ m.command = "idlecpuavailable" /\ LauncherIdles
            /\ UNCHANGED <<stage, restricted>>
         \/ /\ m.command = "start" /\ LauncherStarts(k, m.id)
            /\ UNCHANGED <<restricted, requested, informed>>
         \/ /\ m.command = "stop" /\ LauncherStops(k, m.id)
            /\ UNCHANGED <<restricted, requested, informed>>
  BY MessageTaken DEF messageReceived
<1>2. requested \in BOOLEAN
  BY DEF Types, LauncherTypes
<1>3. CASE m.command = "memory" /\ LauncherRestricts(m.value) /\ UNCHANGED stage
  <2>1. m \in Memories /\ m.value \in BOOLEAN
    BY <1>1, <1>3, CommandKinds
  <2>2. /\ restricted' = m.value
        /\ \E wish \in {requested} \cup (IF m.value = restricted THEN {} ELSE {~m.value}) :
              updateIdleCpuRequest(wish)
    BY <1>3 DEF LauncherRestricts
  <2>3. PICK wish \in BOOLEAN : updateIdleCpuRequest(wish)
    BY <1>2, <2>1, <2>2
  <2>4. Spread
    BY <1>1, <2>3, UpdateSpreads
  <2>5. QED
    BY <1>3, <2>1, <2>2, <2>4
<1>4. CASE m.command = "idlecpuavailable" /\ LauncherIdles /\ UNCHANGED <<stage, restricted>>
  <2>1. PICK wish \in BOOLEAN : updateIdleCpuRequest(wish)
    BY <1>2, <1>4 DEF LauncherIdles
  <2>2. Spread
    BY <1>1, <2>1, UpdateSpreads
  <2>3. QED
    BY <1>4, <2>2
<1>5. CASE m.command = "start" /\ LauncherStarts(k, m.id)
           /\ UNCHANGED <<restricted, requested, informed>>
  <2>1. m.id \in Ids
    BY <1>1, <1>5, CommandKinds
  <2>2. \/ UNCHANGED <<stage, down>>
        \/ \E r \in P!StartReports : Report(k, m.id, r)
    BY <1>5 DEF LauncherStarts
  <2>3. QED
    BY <1>5, <2>1, <2>2
<1>6. CASE m.command = "stop" /\ LauncherStops(k, m.id)
           /\ UNCHANGED <<restricted, requested, informed>>
  BY <1>6 DEF LauncherStops
<1>7. QED
  BY <1>1, <1>3, <1>4, <1>5, <1>6

\* The answers to a start.
LEMMA StartReported ==
    ASSUME Types, NEW k \in Connections, NEW i \in Ids, NEW r \in P!StartReports, Report(k, i, r)
    PROVE  r \in Seq(Signals) /\ down' = Spoken({k}, Events(i, r))
<1>1. r \in Seq(Signals) /\ P!Life!Reached(stage[k][i], r) \in {"starting", "up"}
  BY ReportStages
<1>2. P!Life!Reached(stage[k][i], r) \in RestStages
  BY <1>1 DEF RestStages
<1>3. down' = Spoken({k}, Events(i, r))
  BY <1>1, <1>2, ReportEffect
<1>4. QED
  BY <1>1, <1>3

(***************************************************************************)
(* Types.                                                                  *)
(***************************************************************************)

\* At the beginning everything is of its type.
LEMMA InitTypes == Init => Types
<1> SUFFICES ASSUME Init PROVE Types
  OBVIOUS
<1>1. SocketTypes
  BY DEF Init, SocketTypes, Each
<1>2. QueueTypes
  BY DEF Init, QueueTypes
<1>3. FactoryTypes
  BY DEF Init, FactoryTypes
<1>4. ClientTypes
  <2>1. "fresh" \in LifeStages /\ "NotRunning" \in States
    BY DEF LifeStages, States
  <2>2. QED
    BY <2>1 DEF Init, ClientTypes, Each
<1>5. LauncherTypes
  <2>1. "fresh" \in RestStages
    BY DEF RestStages
  <2>2. QED
    BY <2>1 DEF Init, NewLauncher, LauncherTypes
<1>6. QED
  BY <1>1, <1>2, <1>3, <1>4, <1>5 DEF Types

\* The steps of factories keep the types.
LEMMA FactoryStepTypes ==
    ASSUME Types, Owned, NEW f \in Factories,
           \/ \E k \in Connections : Connect(f, k)
           \/ Disconnect(f) \/ ReadyRead(f) \/ receive(f)
           \/ setMemoryRestricted(f) \/ idleCpuAvailable(f)
           \/ \E i \in Ids : start(f, i) \/ stop(f, i)
    PROVE  Types'
<1>1. ASSUME NEW k \in Connections, Connect(f, k) PROVE Types'
  <2>1. /\ m_socket' = [m_socket EXCEPT ![f] = k] /\ owner' = [owner EXCEPT ![k] = f]
        /\ up' = [up EXCEPT ![k] = <<Memory(m_memoryRestricted[f])>>]
        /\ UNCHANGED <<m_buffer, garbled, reading, m_idleCpuRequest, m_state, seen,
                       m_memoryRestricted, down, clients, removed, stage, restricted,
                       requested, delegate, informed, host>>
    BY <1>1 DEF Connect, connected, told, launcher, idle
  <2>2. Memory(m_memoryRestricted[f]) \in Commands
    BY CommandTypes DEF Types, FactoryTypes
  <2>3. <<Memory(m_memoryRestricted[f])>> \in Seq(Commands)
    BY <2>2
  <2>4. SocketTypes'
    BY <2>1 DEF Types, SocketTypes
  <2>5. QueueTypes'
    BY <2>1, <2>3 DEF Types, QueueTypes
  <2>6. FactoryTypes' /\ ClientTypes' /\ LauncherTypes'
    BY <2>1 DEF Types, FactoryTypes, ClientTypes, LauncherTypes
  <2>7. QED
    BY <2>4, <2>5, <2>6 DEF Types
<1>2. ASSUME Disconnect(f) PROVE Types'
  <2> DEFINE k == m_socket[f]
  <2>1. /\ k # None /\ m_socket' = [m_socket EXCEPT ![f] = None]
        /\ \E arrived \in Prefixes(up[k]) : up' = [up EXCEPT ![k] = arrived]
        /\ down' = [down EXCEPT ![k] = <<>>]
        /\ garbled' \in {garbled, [garbled EXCEPT ![f] = @ \/ down[k] # <<>>]}
        /\ UNCHANGED <<m_buffer, reading, m_idleCpuRequest, m_state, seen, m_memoryRestricted,
                       owner, clients, removed, stage, restricted, requested,
                       delegate, informed, host>>
    BY <1>2 DEF Disconnect, told, launcher, idle
  <2>2. k \in Connections
    BY <2>1 DEF Types, SocketTypes
  <2>3. \A arrived \in Prefixes(up[k]) : arrived \in Seq(Commands)
    <3>1. up[k] \in Seq(Commands)
      BY <2>2 DEF Types, QueueTypes
    <3>2. ASSUME NEW l \in 0 .. Len(up[k]) PROVE SubSeq(up[k], 1, l) \in Seq(Commands)
      <4>1. \A j \in 1 .. l : up[k][j] \in Commands
        BY <3>1, ElementOfSeq
      <4>2. 1 \in Int /\ l \in Int
        OBVIOUS
      <4>3. QED
        BY <4>1, <4>2, SubSeqProperties
    <3>3. QED
      BY <3>2 DEF Prefixes
  <2>4. SocketTypes'
    BY <2>1 DEF Types, SocketTypes
  <2>5. QueueTypes'
    <3>1. up' \in [Connections -> Seq(Commands)]
      BY <2>1, <2>2, <2>3 DEF Types, QueueTypes
    <3>2. <<>> \in Seq(Messages)
      OBVIOUS
    <3>3. QED
      BY <2>1, <3>1, <3>2 DEF Types, QueueTypes
  <2>6. FactoryTypes'
    <3>1. garbled' \in [Factories -> BOOLEAN]
      BY <2>1 DEF Types, FactoryTypes
    <3>2. QED
      BY <2>1, <3>1 DEF Types, FactoryTypes
  <2>7. ClientTypes' /\ LauncherTypes'
    BY <2>1 DEF Types, ClientTypes, LauncherTypes
  <2>8. QED
    BY <2>4, <2>5, <2>6, <2>7 DEF Types
<1>3. ASSUME ReadyRead(f) PROVE Types'
  <2>1. /\ m_buffer' \in [Factories -> Seq(Messages)] /\ down' \in [Connections -> Seq(Messages)]
        /\ reading' \in [Factories -> BOOLEAN]
        /\ \A h \in Factories : reading'[h] <=> m_buffer'[h] # <<>>
    BY <1>3, ArrivesReadyRead
  <2>2. UNCHANGED <<m_socket, garbled, m_idleCpuRequest, m_state, seen, m_memoryRestricted,
                    owner, up, clients, removed, stage, restricted, requested,
                    delegate, informed, host>>
    BY <1>3 DEF ReadyRead, told, launcher, idle
  <2>3. SocketTypes' /\ QueueTypes'
    BY <2>1, <2>2 DEF Types, SocketTypes, QueueTypes
  <2>4. FactoryTypes' /\ ClientTypes' /\ LauncherTypes'
    BY <2>1, <2>2 DEF Types, FactoryTypes, ClientTypes, LauncherTypes
  <2>5. QED
    BY <2>3, <2>4 DEF Types
<1>4. ASSUME receive(f) PROVE Types'
  <2>1. /\ Head(m_buffer[f]) \in Messages
        /\ m_buffer' \in [Factories -> Seq(Messages)]
        /\ reading' \in [Factories -> BOOLEAN]
        /\ \A h \in Factories : reading'[h] <=> m_buffer'[h] # <<>>
    BY <1>4, ArrivesReceive
  <2>2. /\ seen' \in [Factories -> [Ids -> LifeStages \cup {"broken"}]]
        /\ m_state' \in [Factories -> [Ids -> States]]
        /\ m_idleCpuRequest' \in [Factories -> BOOLEAN]
    BY <1>4, <2>1, ReceiveEffect
  <2>3. UNCHANGED <<m_socket, garbled, m_memoryRestricted, owner, up, down,
                    clients, removed, stage, restricted, requested, delegate, informed, host>>
    BY <1>4 DEF receive, launcher, idle
  <2>4. SocketTypes' /\ QueueTypes'
    BY <2>1, <2>3 DEF Types, SocketTypes, QueueTypes
  <2>5. FactoryTypes' /\ ClientTypes' /\ LauncherTypes'
    BY <2>1, <2>2, <2>3 DEF Types, FactoryTypes, ClientTypes, LauncherTypes
  <2>6. QED
    BY <2>4, <2>5 DEF Types
<1>5. ASSUME NEW c \in Commands, send(f, c),
             UNCHANGED <<sockets, told, owner, down, launcher>>,
             m_memoryRestricted' \in [Factories -> BOOLEAN],
             host' \in [Factories -> [Ids -> Connections \cup {None}]]
      PROVE  Types'
  <2>1. up' \in [Connections -> Seq(Commands)]
    BY <1>5, SendEffect
  <2>2. UNCHANGED <<m_socket, m_buffer, garbled, reading, m_idleCpuRequest, m_state, seen, owner,
                    down, clients, removed, stage, restricted, requested, delegate, informed>>
    BY <1>5 DEF sockets, told, launcher, idle
  <2>3. SocketTypes' /\ QueueTypes'
    BY <1>5, <2>1, <2>2 DEF Types, SocketTypes, QueueTypes
  <2>4. FactoryTypes' /\ ClientTypes' /\ LauncherTypes'
    BY <1>5, <2>2 DEF Types, FactoryTypes, ClientTypes, LauncherTypes
  <2>5. QED
    BY <2>3, <2>4 DEF Types
<1>6. ASSUME setMemoryRestricted(f) PROVE Types'
  <2>1. m_memoryRestricted \in [Factories -> BOOLEAN] /\ Memory(~m_memoryRestricted[f]) \in Commands
    BY CommandTypes DEF Types, FactoryTypes
  <2>2. QED
    BY <1>5, <1>6, <2>1 DEF setMemoryRestricted, Types, SocketTypes, ClientTypes
<1>7. ASSUME idleCpuAvailable(f) PROVE Types'
  BY <1>5, <1>7, CommandTypes DEF idleCpuAvailable, Types, SocketTypes, ClientTypes,
                                  FactoryTypes
<1>8. ASSUME NEW i \in Ids, start(f, i) PROVE Types'
  <2>1. /\ send(f, Message("start", i)) /\ UNCHANGED <<sockets, told, owner, down, launcher>>
        /\ host' = [host EXCEPT ![f][i] = m_socket[f]] /\ UNCHANGED m_memoryRestricted
    BY <1>8 DEF start
  <2>2. host' \in [Factories -> [Ids -> Connections \cup {None}]]
    BY <2>1 DEF Types, SocketTypes
  <2>3. Message("start", i) \in Commands
    BY CommandTypes
  <2>4. QED
    BY <1>5, <2>1, <2>2, <2>3 DEF Types, FactoryTypes, ClientTypes
<1>9. ASSUME NEW i \in Ids, stop(f, i) PROVE Types'
  <2>1. /\ send(f, Message("stop", i)) /\ UNCHANGED <<sockets, told, owner, down, launcher>>
        /\ UNCHANGED <<m_memoryRestricted, host>>
    BY <1>9 DEF stop
  <2>2. Message("stop", i) \in Commands
    BY CommandTypes
  <2>3. QED
    BY <1>5, <2>1, <2>2 DEF Types, FactoryTypes, SocketTypes
<1>10. QED
  BY <1>1, <1>2, <1>3, <1>4, <1>6, <1>7, <1>8, <1>9

\* And so do those of the launcher.
LEMMA LauncherStepTypes ==
    ASSUME Types,
           \/ \E k \in Connections :
                 \/ connectionAdded(k) \/ connectionRemoved(k) \/ messageReceived(k)
                 \/ \E i \in Ids : ProcessChanges(k, i)
           \/ FactoriesChange \/ setIdleDelegate
    PROVE  Types'
<1>1. ASSUME UNCHANGED <<sockets, told, m_memoryRestricted, owner, host>>,
             up' \in [Connections -> Seq(Commands)], down' \in [Connections -> Seq(Messages)],
             LauncherTypes'
      PROVE  Types'
  <2>1. UNCHANGED <<m_socket, m_buffer, garbled, reading, m_idleCpuRequest, m_state, seen,
                    m_memoryRestricted, owner, host>>
    BY <1>1 DEF sockets, told
  <2>2. SocketTypes' /\ QueueTypes'
    BY <1>1, <2>1 DEF Types, SocketTypes, QueueTypes
  <2>3. FactoryTypes' /\ ClientTypes'
    BY <2>1 DEF Types, FactoryTypes, ClientTypes
  <2>4. QED
    BY <1>1, <2>2, <2>3 DEF Types
<1>2. up \in [Connections -> Seq(Commands)] /\ down \in [Connections -> Seq(Messages)]
  BY DEF Types, QueueTypes
<1>3. \A v \in BOOLEAN : \A K : Spoken(K, <<Request(v)>>) \in [Connections -> Seq(Messages)]
  BY RequestType, SpokenTo
<1>4. /\ requested \in BOOLEAN /\ delegate \in BOOLEAN
      /\ informed \in SUBSET clients /\ (delegate => informed = {})
  BY DEF Types, LauncherTypes
<1>5. ASSUME NEW k \in Connections, connectionAdded(k) PROVE Types'
  <2>1. /\ clients' = clients \cup {k} /\ k \notin clients \cup removed
        /\ down' = [down EXCEPT ![k] = Sent(k, Greeting)]
        /\ UNCHANGED <<sockets, told, m_memoryRestricted, owner, host>>
        /\ informed' = IF delegate THEN informed ELSE informed \cup {k}
        /\ UNCHANGED <<up, removed, stage, restricted, requested, delegate>>
    BY <1>5 DEF connectionAdded
  <2> DEFINE s == Greeting
  <2>2. s \in Seq(Messages)
    <3>1. <<>> \in Seq(Messages) /\ <<Request(requested)>> \in Seq(Messages)
      BY <1>4, RequestType
    <3>2. s \in {<<>>, <<Request(requested)>>}
      BY <1>4 DEF Greeting
    <3>3. QED
      BY <3>1, <3>2
  <2>3. down' = [down EXCEPT ![k] = Sent(k, s)]
    BY <2>1
  <2> HIDE DEF s
  <2>4. down' = Spoken({k}, s)
    BY <2>2, <2>3, SpokenTo
  <2>5. down' \in [Connections -> Seq(Messages)]
    BY <2>2, <2>4, SpokenTo
  <2>6. informed' \in SUBSET clients' /\ (delegate' => informed' = {})
    BY <1>4, <2>1
  <2>7. LauncherTypes'
    BY <2>1, <2>6 DEF Types, LauncherTypes
  <2>8. QED
    BY <1>1, <1>2, <2>1, <2>5, <2>7
<1>6. ASSUME NEW k \in Connections, connectionRemoved(k) PROVE Types'
  <2>1. /\ k \in clients /\ clients' = clients \ {k} /\ removed' = removed \cup {k}
        /\ stage' = [stage EXCEPT ![k] = Deleted(@)] /\ informed' = informed \ {k}
        /\ UNCHANGED <<sockets, told, m_memoryRestricted, owner, host>>
        /\ UNCHANGED <<up, down, restricted, requested, delegate>>
    BY <1>6 DEF connectionRemoved
  <2>2. Deleted(stage[k]) \in [Ids -> RestStages]
    BY DEF Deleted, RestStages
  <2>3. LauncherTypes'
    BY <2>1, <2>2 DEF Types, LauncherTypes
  <2>4. QED
    BY <1>1, <1>2, <2>1, <2>3
<1>7. Spread => down' \in [Connections -> Seq(Messages)]
  BY <1>2, <1>3 DEF Spread
<1>8. ASSUME NEW k \in Connections, messageReceived(k) PROVE Types'
  <2>1. /\ up' \in [Connections -> Seq(Commands)]
        /\ UNCHANGED <<sockets, told, m_memoryRestricted, owner, clients, removed, host>>
        /\ Head(up[k]) \in Commands /\ UNCHANGED delegate
    BY <1>8, MessageTaken
  <2> DEFINE m == Head(up[k])
  <2>2. CASE m \in Memories /\ restricted' = m.value /\ Spread /\ UNCHANGED stage
    <3>1. m.value \in BOOLEAN
      BY <2>1, <2>2, CommandKinds
    <3>2. LauncherTypes'
      BY <2>1, <2>2, <3>1 DEF Types, LauncherTypes, Spread
    <3>3. QED
      BY <1>1, <1>7, <2>1, <2>2, <3>2
  <2>3. CASE m.command = "idlecpuavailable" /\ Spread /\ UNCHANGED <<stage, restricted>>
    <3>1. LauncherTypes'
      BY <2>1, <2>3 DEF Types, LauncherTypes, Spread
    <3>2. QED
      BY <1>1, <1>7, <2>1, <2>3, <3>1
  <2>4. CASE /\ m.command = "start" /\ m.id \in Ids
             /\ UNCHANGED <<restricted, requested, informed>>
             /\ \/ UNCHANGED <<stage, down>>
                \/ \E r \in P!StartReports : Report(k, m.id, r)
    <3>1. /\ stage' \in [Connections -> [Ids -> RestStages]]
          /\ down' \in [Connections -> Seq(Messages)]
      <4>1. CASE UNCHANGED <<stage, down>>
        BY <1>2, <4>1 DEF Types, LauncherTypes
      <4>2. CASE \E r \in P!StartReports : Report(k, m.id, r)
        <5>1. PICK r \in P!StartReports : Report(k, m.id, r)
          BY <4>2
        <5>2. /\ r \in Seq(Signals)
              /\ P!Life!Reached(stage[k][m.id], r) \in {"starting", "up"}
          BY ReportStages
        <5>3. P!Life!Reached(stage[k][m.id], r) \in RestStages
          BY <5>2 DEF RestStages
        <5>4. m.id \in Ids
          BY <2>4
        <5> HIDE DEF m
        <5>5. QED
          BY <5>1, <5>2, <5>3, <5>4, ReportEffect
      <4>3. QED
        BY <2>4, <4>1, <4>2
    <3>2. LauncherTypes'
      BY <2>1, <2>4, <3>1 DEF Types, LauncherTypes
    <3>3. QED
      BY <1>1, <2>1, <3>1, <3>2
  <2>5. CASE m.command = "stop" /\ UNCHANGED <<stage, restricted, requested, informed, down>>
    <3>1. LauncherTypes'
      BY <2>1, <2>5 DEF Types, LauncherTypes
    <3>2. QED
      BY <1>1, <1>2, <2>1, <2>5, <3>1
  <2>6. QED
    BY <1>8, <2>2, <2>3, <2>4, <2>5, MessageEffect
<1>9. ASSUME NEW k \in Connections, NEW i \in Ids, ProcessChanges(k, i) PROVE Types'
  <2>1. PICK r \in P!Reports(stage[k][i]) : Report(k, i, r)
    BY <1>9 DEF ProcessChanges
  <2>2. stage[k][i] \in RestStages
    BY DEF Types, LauncherTypes
  <2>3. r \in Seq(Signals) /\ P!Life!Reached(stage[k][i], r) \in RestStages
    BY <2>2, ReportStages
  <2>4. /\ stage' \in [Connections -> [Ids -> RestStages]]
        /\ down' \in [Connections -> Seq(Messages)]
    BY <2>1, <2>3, ReportEffect
  <2>5. /\ UNCHANGED <<sockets, told, m_memoryRestricted, owner, host>>
        /\ UNCHANGED <<up, clients, removed, restricted, requested, delegate, informed>>
    BY <1>9 DEF ProcessChanges, idle
  <2>6. LauncherTypes'
    BY <2>4, <2>5 DEF Types, LauncherTypes
  <2>7. QED
    BY <1>1, <1>2, <2>4, <2>5, <2>6
<1>10. ASSUME FactoriesChange \/ setIdleDelegate PROVE Types'
  <2>1. /\ Spread
        /\ UNCHANGED <<sockets, told, m_memoryRestricted, owner, host>>
        /\ UNCHANGED <<up, clients, removed, stage, restricted>>
    BY <1>10, LauncherTalks
  <2>2. LauncherTypes'
    BY <2>1 DEF Types, LauncherTypes, Spread
  <2>3. QED
    BY <1>1, <1>2, <1>7, <2>1, <2>2
<1>11. QED
  BY <1>5, <1>6, <1>8, <1>9, <1>10

\* What a step of the launcher leaves alone, and what it may do to a connection.
LEMMA LauncherStep ==
    ASSUME Types,
           \/ \E k \in Connections :
                 \/ connectionAdded(k) \/ connectionRemoved(k) \/ messageReceived(k)
                 \/ \E i \in Ids : ProcessChanges(k, i)
           \/ FactoriesChange \/ setIdleDelegate
    PROVE  /\ UNCHANGED <<sockets, told, m_memoryRestricted, owner, host>>
           /\ \A j \in Connections :
                 \/ up'[j] = up[j]
                 \/ j \in clients /\ up[j] # <<>> /\ up'[j] = Tail(up[j])
           /\ \A j \in Connections : owner[j] = None => down'[j] = down[j]
           /\ \A j \in Connections :
                 /\ j \in clients' \ clients => owner[j] # None
                 /\ j \in removed' \ removed => j \in clients
                 /\ j \in clients \ clients' => \A i \in Ids : stage'[j][i] \in {"fresh", "gone"}
                 /\ j \notin clients => \A i \in Ids : stage'[j][i] = stage[j][i]
<1> DEFINE Goal ==
              /\ UNCHANGED <<sockets, told, m_memoryRestricted, owner, host>>
              /\ \A j \in Connections :
                    \/ up'[j] = up[j]
                    \/ j \in clients /\ up[j] # <<>> /\ up'[j] = Tail(up[j])
              /\ \A j \in Connections : owner[j] = None => down'[j] = down[j]
              /\ \A j \in Connections :
                    /\ j \in clients' \ clients => owner[j] # None
                    /\ j \in removed' \ removed => j \in clients
                    /\ j \in clients \ clients' => \A i \in Ids : stage'[j][i] \in {"fresh", "gone"}
                    /\ j \notin clients => \A i \in Ids : stage'[j][i] = stage[j][i]
<1>1. /\ stage \in [Connections -> [Ids -> RestStages]]
      /\ up \in [Connections -> Seq(Commands)] /\ down \in [Connections -> Seq(Messages)]
  BY DEF Types, QueueTypes, LauncherTypes
<1>2. \A K, s : \A j \in Connections : owner[j] = None => Spoken(K, s)[j] = down[j]
  BY DEF Spoken, Sent, IsOpen
<1>3. ASSUME NEW k \in Connections, NEW i \in Ids, NEW r \in Seq(Signals),
             P!Life!Reached(stage[k][i], r) \in RestStages, Report(k, i, r)
      PROVE  /\ \A j \in Connections : owner[j] = None => down'[j] = down[j]
             /\ \A j \in Connections \ {k} : \A h \in Ids : stage'[j][h] = stage[j][h]
  <2>1. down' = Spoken({k}, Events(i, r))
    BY <1>3, ReportEffect
  <2>2. stage' = [stage EXCEPT ![k][i] = P!Life!Reached(stage[k][i], r)]
    BY <1>3 DEF Report
  <2>3. \A j \in Connections \ {k} : stage'[j] = stage[j]
    BY <1>1, <2>2
  <2>4. QED
    BY <1>2, <2>1, <2>3
<1>4. ASSUME NEW k \in Connections, connectionAdded(k) PROVE Goal
  <2>1. /\ clients' = clients \cup {k} /\ owner[k] # None
        /\ down' = [down EXCEPT ![k] = Sent(k, Greeting)]
        /\ UNCHANGED <<sockets, told, m_memoryRestricted, owner, host>>
        /\ UNCHANGED <<up, removed, stage>>
    BY <1>4 DEF connectionAdded
  <2>2. QED
    BY <1>1, <2>1
<1>5. ASSUME NEW k \in Connections, connectionRemoved(k) PROVE Goal
  <2>1. /\ k \in clients /\ clients' = clients \ {k} /\ removed' = removed \cup {k}
        /\ stage' = [stage EXCEPT ![k] = Deleted(@)]
        /\ UNCHANGED <<sockets, told, m_memoryRestricted, owner, host>>
        /\ UNCHANGED <<up, down>>
    BY <1>5 DEF connectionRemoved
  <2>2. \A i \in Ids : stage'[k][i] \in {"fresh", "gone"}
    BY <1>1, <2>1 DEF Deleted
  <2>3. \A j \in Connections \ {k} : stage'[j] = stage[j]
    BY <1>1, <2>1
  <2>4. QED
    BY <2>1, <2>2, <2>3
<1>6. ASSUME NEW k \in Connections, messageReceived(k) PROVE Goal
  <2>1. /\ k \in clients /\ up[k] # <<>> /\ Head(up[k]) \in Commands
        /\ \A j \in Connections : up'[j] = IF j = k THEN Tail(up[k]) ELSE up[j]
        /\ UNCHANGED <<sockets, told, m_memoryRestricted, owner, clients, removed, host>>
    BY <1>6, MessageTaken
  <2> DEFINE m == Head(up[k])
  <2> SUFFICES /\ \A j \in Connections : owner[j] = None => down'[j] = down[j]
               /\ \A j \in Connections \ {k} : \A h \in Ids : stage'[j][h] = stage[j][h]
    BY <2>1
  <2>2. CASE UNCHANGED <<stage, down>>
    BY <2>2
  <2>3. CASE UNCHANGED stage /\ Spread
    BY <1>2, <2>3 DEF Spread
  <2>4. CASE m.id \in Ids /\ \E r \in P!StartReports : Report(k, m.id, r)
    <3>1. PICK r \in P!StartReports : Report(k, m.id, r)
      BY <2>4
    <3>2. r \in Seq(Signals) /\ P!Life!Reached(stage[k][m.id], r) \in {"starting", "up"}
      BY ReportStages
    <3>3. P!Life!Reached(stage[k][m.id], r) \in RestStages
      BY <3>2 DEF RestStages
    <3>4. m.id \in Ids
      BY <2>4
    <3> HIDE DEF m
    <3>5. QED
      BY <1>3, <3>1, <3>2, <3>3, <3>4
  <2>5. QED
    BY <1>6, <2>2, <2>3, <2>4, MessageEffect
<1>7. ASSUME NEW k \in Connections, NEW i \in Ids, ProcessChanges(k, i) PROVE Goal
  <2>1. PICK r \in P!Reports(stage[k][i]) : Report(k, i, r)
    BY <1>7 DEF ProcessChanges
  <2>2. stage[k][i] \in RestStages
    BY <1>1
  <2>3. r \in Seq(Signals) /\ P!Life!Reached(stage[k][i], r) \in RestStages
    BY <2>2, ReportStages
  <2>4. /\ UNCHANGED <<sockets, told, m_memoryRestricted, owner, host>>
        /\ UNCHANGED <<up, clients, removed>> /\ k \in clients
    BY <1>7 DEF ProcessChanges
  <2>5. QED
    BY <1>3, <2>1, <2>3, <2>4
<1>8. ASSUME FactoriesChange \/ setIdleDelegate PROVE Goal
  <2>1. /\ Spread
        /\ UNCHANGED <<sockets, told, m_memoryRestricted, owner, host>>
        /\ UNCHANGED <<up, clients, removed, stage>>
    BY <1>8, LauncherTalks
  <2>2. \A j \in Connections : owner[j] = None => down'[j] = down[j]
    BY <1>2, <2>1 DEF Spread
  <2>3. QED
    BY <2>1, <2>2
<1>9. QED
  BY <1>4, <1>5, <1>6, <1>7, <1>8

(***************************************************************************)
(* Connections and orphans.                                                *)
(***************************************************************************)

\* Nobody else uses the socket of a factory.
LEMMA NextOwned == ASSUME Types, Owned, [Next]_vars PROVE Owned'
<1>1. /\ m_socket \in [Factories -> Connections \cup {None}]
      /\ owner \in [Connections -> Factories \cup {None}]
      /\ host \in [Factories -> [Ids -> Connections \cup {None}]]
      /\ None \notin Factories \cup Connections
  BY SocketAssumption DEF Types, SocketTypes
<1>2. CASE UNCHANGED <<m_socket, owner, host>>
  BY <1>2 DEF Owned
<1>3. ASSUME NEW f \in Factories, NEW k \in Connections, Connect(f, k) PROVE Owned'
  <2>1. /\ m_socket' = [m_socket EXCEPT ![f] = k] /\ owner' = [owner EXCEPT ![k] = f]
        /\ owner[k] = None /\ UNCHANGED host
    BY <1>3 DEF Connect
  <2>2. \A g \in Factories : m_socket'[g] # None => owner'[m_socket'[g]] = g
    BY <1>1, <2>1 DEF Owned
  <2>3. \A g \in Factories, i \in Ids : host'[g][i] # None => owner'[host'[g][i]] # None
    BY <1>1, <2>1 DEF Owned
  <2>4. QED
    BY <2>2, <2>3 DEF Owned
<1>4. ASSUME NEW f \in Factories, Disconnect(f) PROVE Owned'
  <2>1. m_socket' = [m_socket EXCEPT ![f] = None] /\ UNCHANGED <<owner, host>>
    BY <1>4 DEF Disconnect
  <2>2. QED
    BY <1>1, <2>1 DEF Owned
<1>5. ASSUME NEW f \in Factories, NEW i \in Ids, start(f, i) PROVE Owned'
  <2>1. /\ m_socket[f] # None /\ host' = [host EXCEPT ![f][i] = m_socket[f]]
        /\ UNCHANGED <<m_socket, owner>>
    BY <1>5 DEF start, sockets
  <2>2. \A g \in Factories, j \in Ids :
           host'[g][j] = IF g = f /\ j = i THEN m_socket[f] ELSE host[g][j]
    BY <1>1, <2>1
  <2>3. owner[m_socket[f]] # None
    BY <1>1, <2>1 DEF Owned
  <2>4. QED
    BY <2>1, <2>2, <2>3 DEF Owned
<1>6. ASSUME \/ \E k \in Connections :
                   \/ connectionAdded(k) \/ connectionRemoved(k) \/ messageReceived(k)
                   \/ \E i \in Ids : ProcessChanges(k, i)
             \/ FactoriesChange \/ setIdleDelegate
      PROVE  UNCHANGED <<m_socket, owner, host>>
  BY <1>6, LauncherStep DEF sockets
<1>7. ASSUME NEW f \in Factories,
             \/ ReadyRead(f) \/ receive(f) \/ setMemoryRestricted(f) \/ idleCpuAvailable(f)
             \/ \E i \in Ids : stop(f, i)
      PROVE  UNCHANGED <<m_socket, owner, host>>
  BY <1>7 DEF ReadyRead, receive, setMemoryRestricted, idleCpuAvailable, stop, sockets
<1>8. CASE UNCHANGED vars
  BY <1>2, <1>8 DEF vars, sockets
<1>9. CASE Next
  BY <1>2, <1>3, <1>4, <1>5, <1>6, <1>7, <1>9 DEF Next
<1>10. QED
  BY <1>8, <1>9

\* Nothing happens on a connection before it is opened.
LEMMA NextUnopened ==
    ASSUME Types, Owned, NEW k \in Connections, Unopened(k), [Next]_vars PROVE Unopened(k)'
<1>1. /\ m_socket \in [Factories -> Connections \cup {None}]
      /\ owner \in [Connections -> Factories \cup {None}]
      /\ down \in [Connections -> Seq(Messages)] /\ up \in [Connections -> Seq(Commands)]
      /\ None \notin Factories \cup Connections
  BY SocketAssumption DEF Types, SocketTypes, QueueTypes
<1>2. \A f \in Factories : m_socket[f] # None => owner[m_socket[f]] # None
  BY <1>1 DEF Owned
<1>3. CASE owner[k] # None
  <2>1. owner'[k] # None
    <3>1. ASSUME NEW f \in Factories, NEW j \in Connections, Connect(f, j) PROVE owner'[k] # None
      BY <1>1, <1>3, <3>1 DEF Connect
    <3>2. ASSUME NEW f \in Factories,
                 \/ Disconnect(f) \/ ReadyRead(f) \/ receive(f)
                 \/ setMemoryRestricted(f) \/ idleCpuAvailable(f)
                 \/ \E i \in Ids : start(f, i) \/ stop(f, i)
          PROVE  UNCHANGED owner
      BY <3>2 DEF Disconnect, ReadyRead, receive, setMemoryRestricted, idleCpuAvailable, start, stop
    <3>3. ASSUME \/ \E j \in Connections :
                       \/ connectionAdded(j) \/ connectionRemoved(j) \/ messageReceived(j)
                       \/ \E i \in Ids : ProcessChanges(j, i)
                 \/ FactoriesChange \/ setIdleDelegate
          PROVE  UNCHANGED owner
      BY <3>3, LauncherStep
    <3>4. QED
      BY <1>3, <3>1, <3>2, <3>3 DEF Next, vars
  <2>2. QED
    BY <2>1 DEF Unopened
<1>4. CASE owner[k] = None
  <2>1. /\ up[k] = <<>> /\ down[k] = <<>> /\ k \notin clients \cup removed
        /\ \A i \in Ids : stage[k][i] = "fresh"
        /\ \A f \in Factories : m_socket[f] # k
    BY <1>1, <1>2, <1>4 DEF Unopened
  <2>2. CASE /\ up'[k] = up[k] /\ down'[k] = down[k]
             /\ UNCHANGED <<clients, removed, stage>>
    BY <2>1, <2>2 DEF Unopened
  <2>3. ASSUME NEW f \in Factories, NEW j \in Connections, Connect(f, j) PROVE Unopened(k)'
    <3>1. /\ owner' = [owner EXCEPT ![j] = f]
          /\ up' = [up EXCEPT ![j] = connected(f)] /\ UNCHANGED <<down, clients, removed, stage>>
      BY <2>3 DEF Connect, launcher, idle
    <3>2. CASE j = k
      BY <1>1, <3>1, <3>2 DEF Unopened
    <3>3. CASE j # k
      BY <1>1, <2>2, <3>1, <3>3
    <3>4. QED
      BY <3>2, <3>3
  <2>4. ASSUME NEW f \in Factories, Disconnect(f) PROVE Unopened(k)'
    <3>1. /\ \E arrived \in Prefixes(up[m_socket[f]]) :
                up' = [up EXCEPT ![m_socket[f]] = arrived]
          /\ down' = [down EXCEPT ![m_socket[f]] = <<>>]
          /\ UNCHANGED <<clients, removed, stage>>
      BY <2>4 DEF Disconnect, launcher, idle
    <3>2. QED
      BY <1>1, <2>1, <2>2, <3>1
  <2>5. ASSUME NEW f \in Factories, ReadyRead(f) PROVE Unopened(k)'
    <3>1. /\ \E n : down' = [down EXCEPT ![m_socket[f]] = SubSeq(@, n + 1, Len(@))]
          /\ UNCHANGED <<up, clients, removed, stage>>
      BY <2>5 DEF ReadyRead, launcher, idle
    <3>2. QED
      BY <1>1, <2>1, <2>2, <3>1
  <2>6. ASSUME NEW f \in Factories, receive(f) PROVE Unopened(k)'
    BY <2>2, <2>6 DEF receive, launcher, idle
  <2>7. ASSUME NEW f \in Factories, NEW c \in Commands, send(f, c), UNCHANGED <<down, launcher>>
        PROVE  Unopened(k)'
    <3>1. up'[k] = up[k]
      BY <2>1, <2>7, SendEffect
    <3>2. QED
      BY <2>2, <2>7, <3>1 DEF launcher, idle
  <2>8. ASSUME NEW f \in Factories, setMemoryRestricted(f) PROVE Unopened(k)'
    <3>1. Memory(~m_memoryRestricted[f]) \in Commands
      BY CommandTypes DEF Types, FactoryTypes
    <3>2. QED
      BY <2>7, <2>8, <3>1 DEF setMemoryRestricted
  <2>9. ASSUME NEW f \in Factories, idleCpuAvailable(f) PROVE Unopened(k)'
    BY <2>7, <2>9, CommandTypes DEF idleCpuAvailable
  <2>10. ASSUME NEW f \in Factories, NEW i \in Ids, start(f, i) \/ stop(f, i) PROVE Unopened(k)'
    <3>1. Message("start", i) \in Commands /\ Message("stop", i) \in Commands
      BY CommandTypes
    <3>2. QED
      BY <2>7, <2>10, <3>1 DEF start, stop
  <2>11. ASSUME \/ \E j \in Connections :
                      \/ connectionAdded(j) \/ connectionRemoved(j) \/ messageReceived(j)
                      \/ \E i \in Ids : ProcessChanges(j, i)
                \/ FactoriesChange \/ setIdleDelegate
         PROVE  Unopened(k)'
    <3>1. /\ up'[k] = up[k] /\ down'[k] = down[k] /\ k \notin clients' \cup removed'
          /\ \A i \in Ids : stage'[k][i] = stage[k][i]
      BY <1>4, <2>1, <2>11, LauncherStep
    <3>2. QED
      BY <2>1, <3>1 DEF Unopened
  <2>12. CASE UNCHANGED vars
    BY <2>2, <2>12 DEF vars, launcher, idle
  <2>13. CASE Next
    BY <2>3, <2>4, <2>5, <2>6, <2>8, <2>9, <2>10, <2>11, <2>13 DEF Next
  <2>14. QED
    BY <2>12, <2>13
<1>5. QED
  BY <1>3, <1>4

\* The processes of a client that leaves are gone.
LEMMA NextNoOrphans == ASSUME Types, NoOrphans, [Next]_vars PROVE NoOrphans'
<1>1. CASE UNCHANGED <<stage, clients>>
  BY <1>1 DEF NoOrphans
<1>2. ASSUME NEW f \in Factories,
             \/ \E k \in Connections : Connect(f, k)
             \/ Disconnect(f) \/ ReadyRead(f) \/ receive(f)
             \/ setMemoryRestricted(f) \/ idleCpuAvailable(f)
             \/ \E i \in Ids : start(f, i) \/ stop(f, i)
      PROVE  UNCHANGED <<stage, clients>>
  BY <1>2 DEF Connect, Disconnect, ReadyRead, receive, setMemoryRestricted, idleCpuAvailable,
              start, stop, launcher, idle
<1>3. ASSUME \/ \E k \in Connections :
                   \/ connectionAdded(k) \/ connectionRemoved(k) \/ messageReceived(k)
                   \/ \E i \in Ids : ProcessChanges(k, i)
             \/ FactoriesChange \/ setIdleDelegate
      PROVE  NoOrphans'
  <2> SUFFICES ASSUME NEW k \in Connections, NEW i \in Ids, stage'[k][i] \in {"starting", "up"}
               PROVE  k \in clients'
    BY DEF NoOrphans
  <2>1. /\ k \in clients \ clients' => stage'[k][i] \in {"fresh", "gone"}
        /\ k \notin clients => stage'[k][i] = stage[k][i]
    BY <1>3, LauncherStep
  <2>2. QED
    BY <2>1 DEF NoOrphans
<1>4. CASE UNCHANGED vars
  BY <1>1, <1>4 DEF vars, launcher, idle
<1>5. CASE Next
  BY <1>1, <1>2, <1>3, <1>5 DEF Next
<1>6. QED
  BY <1>4, <1>5

(***************************************************************************)
(* The memory restriction.                                                 *)
(***************************************************************************)

\* The command does not speak of memory.
Other(c) == c \in Commands /\ c \notin Memories

\* What a step of a factory may do to the commands under way from it: a restriction that
\* changes is told, other commands come, or there is nothing new.
LEMMA CommandSent ==
    ASSUME Types, NEW f \in Factories,
           \/ setMemoryRestricted(f) \/ idleCpuAvailable(f)
           \/ \E i \in Ids : start(f, i) \/ stop(f, i)
    PROVE  /\ UNCHANGED <<sockets, told, owner, down, launcher>>
           /\ \E c \in Commands :
                 /\ send(f, c)
                 /\ \/ /\ c \in Memories /\ c.value = m_memoryRestricted'[f]
                       /\ \A g \in Factories \ {f} :
                             m_memoryRestricted'[g] = m_memoryRestricted[g]
                    \/ Other(c) /\ UNCHANGED m_memoryRestricted
<1>1. m_memoryRestricted \in [Factories -> BOOLEAN]
  BY DEF Types, FactoryTypes
<1>2. CASE setMemoryRestricted(f)
  <2> DEFINE v == ~m_memoryRestricted[f]
  <2>1. /\ m_memoryRestricted' = [m_memoryRestricted EXCEPT ![f] = v]
        /\ send(f, Memory(v)) /\ UNCHANGED <<sockets, told, owner, down, launcher>>
    BY <1>1, <1>2 DEF setMemoryRestricted
  <2>2. v \in BOOLEAN
    BY <1>1
  <2>3. /\ m_memoryRestricted'[f] = v
        /\ \A g \in Factories \ {f} : m_memoryRestricted'[g] = m_memoryRestricted[g]
    BY <1>1, <2>1
  <2> HIDE DEF v
  <2>4. Memory(v) \in Commands /\ Memory(v) \in Memories /\ Memory(v).value = v
    BY <2>2, CommandTypes
  <2>5. QED
    BY <2>1, <2>3, <2>4
<1>3. CASE idleCpuAvailable(f)
  <2>1. Other([command |-> "idlecpuavailable"])
    BY CommandTypes, CommandKinds DEF Other
  <2>2. /\ send(f, [command |-> "idlecpuavailable"])
        /\ UNCHANGED <<sockets, told, owner, down, launcher, m_memoryRestricted>>
    BY <1>3 DEF idleCpuAvailable
  <2>3. QED
    BY <2>1, <2>2, CommandTypes
<1>4. ASSUME NEW i \in Ids, start(f, i) \/ stop(f, i)
      PROVE  /\ UNCHANGED <<sockets, told, owner, down, launcher>>
             /\ \E c \in Commands : send(f, c) /\ Other(c) /\ UNCHANGED m_memoryRestricted
  <2>1. /\ Message("start", i) \in Commands /\ Message("stop", i) \in Commands
        /\ Message("start", i).command = "start" /\ Message("stop", i).command = "stop"
    BY CommandTypes
  <2>2. Other(Message("start", i)) /\ Other(Message("stop", i))
    BY <2>1, CommandKinds DEF Other
  <2>3. /\ UNCHANGED <<sockets, told, owner, down, launcher, m_memoryRestricted>>
        /\ send(f, Message("start", i)) \/ send(f, Message("stop", i))
    BY <1>4 DEF start, stop
  <2>4. QED
    BY <2>1, <2>2, <2>3
<1>5. QED
  BY <1>2, <1>3, <1>4

\* Other factories do not notice it.
LEMMA SendToOthers ==
    ASSUME Types, Owned, NEW f \in Factories, NEW c \in Commands, send(f, c),
           NEW g \in Factories, m_socket[g] # None
    PROVE  /\ m_socket[g] \in Connections /\ up[m_socket[g]] \in Seq(Commands)
           /\ g # f => up'[m_socket[g]] = up[m_socket[g]]
           /\ g = f => up'[m_socket[g]] = up[m_socket[g]] \o <<c>>
<1>1. m_socket[g] \in Connections /\ up[m_socket[g]] \in Seq(Commands)
  BY DEF Types, SocketTypes, QueueTypes
<1>2. g # f => m_socket[g] # m_socket[f]
  BY DEF Owned
<1>3. up'[m_socket[g]] = IF g = f THEN Append(up[m_socket[g]], c) ELSE up[m_socket[g]]
  BY <1>1, <1>2, SendEffect
<1> DEFINE q == up[m_socket[g]]
<1>4. Append(q, c) = q \o <<c>>
  <2>1. q \in Seq(Commands)
    BY <1>1
  <2> HIDE DEF q
  <2>2. QED
    BY <2>1, AppendIsConcat
<1>5. QED
  BY <1>1, <1>3, <1>4

\* One command that is not about memory.
LEMMA OtherNone ==
    ASSUME NEW c, Other(c)
    PROVE  <<c>> \in Seq(Commands) /\ NoneOf(<<c>>, Memories)
BY DEF Other, NoneOf

\* What the launcher has not read yet ends with what the factory believes.
LEMMA NextMemoryTold ==
    ASSUME Types, Owned, NEW f \in Factories, MemoryTold(f), [Next]_vars PROVE MemoryTold(f)'
<1>1. /\ m_socket \in [Factories -> Connections \cup {None}]
      /\ up \in [Connections -> Seq(Commands)]
      /\ m_memoryRestricted \in [Factories -> BOOLEAN]
      /\ None \notin Factories \cup Connections
  BY SocketAssumption DEF Types, SocketTypes, QueueTypes, FactoryTypes
<1>2. CASE /\ m_socket'[f] # None =>
                 m_socket'[f] = m_socket[f] /\ up'[m_socket[f]] = up[m_socket[f]]
           /\ m_memoryRestricted'[f] = m_memoryRestricted[f]
  BY <1>2 DEF MemoryTold
<1>3. ASSUME NEW g \in Factories, NEW k \in Connections, Connect(g, k) PROVE MemoryTold(f)'
  <2>1. /\ m_socket' = [m_socket EXCEPT ![g] = k] /\ owner[k] = None
        /\ up' = [up EXCEPT ![k] = <<Memory(m_memoryRestricted[g])>>]
        /\ UNCHANGED m_memoryRestricted
    BY <1>3 DEF Connect, connected
  <2>2. CASE f # g
    <3>1. m_socket[f] # k
      BY <1>1, <2>1 DEF Owned
    <3>2. QED
      BY <1>1, <1>2, <2>1, <2>2, <3>1
  <2>3. CASE f = g
    <3>1. up'[m_socket'[f]] = <<Memory(m_memoryRestricted[f])>>
      BY <1>1, <2>1, <2>3
    <3>2. Memory(m_memoryRestricted[f]).value = m_memoryRestricted[f]
      BY <1>1, CommandTypes
    <3> DEFINE c == Memory(m_memoryRestricted[f])
    <3> HIDE DEF c
    <3>3. \A j \in DOMAIN <<c>> : <<c>>[j] = c
      OBVIOUS
    <3>4. QED
      BY <2>1, <3>1, <3>2, <3>3 DEF MemoryTold, c
  <2>4. QED
    BY <2>2, <2>3
<1>4. ASSUME NEW g \in Factories, Disconnect(g) PROVE MemoryTold(f)'
  <2>1. /\ m_socket[g] # None /\ m_socket' = [m_socket EXCEPT ![g] = None]
        /\ \E arrived \in Prefixes(up[m_socket[g]]) :
              up' = [up EXCEPT ![m_socket[g]] = arrived]
        /\ UNCHANGED m_memoryRestricted
    BY <1>4 DEF Disconnect
  <2>2. f # g => m_socket[f] # m_socket[g]
    BY <2>1, OthersSockets
  <2>3. QED
    BY <1>1, <1>2, <2>1, <2>2
<1>5. ASSUME NEW g \in Factories, ReadyRead(g) \/ receive(g) PROVE MemoryTold(f)'
  BY <1>2, <1>5 DEF ReadyRead, receive
<1>6. ASSUME NEW g \in Factories,
             \/ setMemoryRestricted(g) \/ idleCpuAvailable(g)
             \/ \E i \in Ids : start(g, i) \/ stop(g, i)
      PROVE  MemoryTold(f)'
  <2>1. PICK c \in Commands :
           /\ send(g, c)
           /\ \/ /\ c \in Memories /\ c.value = m_memoryRestricted'[g]
                 /\ \A h \in Factories \ {g} : m_memoryRestricted'[h] = m_memoryRestricted[h]
              \/ Other(c) /\ UNCHANGED m_memoryRestricted
    BY <1>6, CommandSent
  <2>2. UNCHANGED m_socket
    BY <1>6, CommandSent DEF sockets
  <2>3. CASE m_socket[f] = None
    BY <2>2, <2>3 DEF MemoryTold
  <2>4. CASE m_socket[f] # None /\ f # g
    <3>1. up'[m_socket[f]] = up[m_socket[f]]
      BY <2>1, <2>4, SendToOthers
    <3>2. m_memoryRestricted'[f] = m_memoryRestricted[f]
      BY <2>1, <2>4
    <3>3. QED
      BY <1>2, <2>2, <3>1, <3>2
  <2>5. CASE m_socket[f] # None /\ f = g
    <3> DEFINE q == up[m_socket[f]]
               r == up'[m_socket[f]]
    <3>1. q \in Seq(Commands) /\ r = q \o <<c>>
      BY <2>1, <2>5, SendToOthers
    <3>2. SUFFICES \A k \in DOMAIN r : IsLast(r, Memories, k) => r[k].value = m_memoryRestricted'[f]
      BY <2>2 DEF MemoryTold
    <3>3. \A k \in DOMAIN q : IsLast(q, Memories, k) => q[k].value = m_memoryRestricted[f]
      BY <2>5 DEF MemoryTold
    <3> HIDE DEF q, r
    <3>4. CASE c \in Memories /\ c.value = m_memoryRestricted'[g]
      <4>1. \A k \in DOMAIN r : IsLast(r, Memories, k) => r[k] = c
        BY <3>1, <3>4, LastOfOne
      <4>2. QED
        BY <2>5, <3>4, <4>1
    <3>5. CASE Other(c) /\ UNCHANGED m_memoryRestricted
      <4>1. <<c>> \in Seq(Commands) /\ NoneOf(<<c>>, Memories)
        BY <3>5, OtherNone
      <4>2. \A k \in DOMAIN r : IsLast(r, Memories, k) =>
               k \in DOMAIN q /\ IsLast(q, Memories, k) /\ r[k] = q[k]
        BY <3>1, <4>1, LastOfOthers
      <4>3. QED
        BY <3>3, <3>5, <4>2
    <3>6. QED
      BY <2>1, <3>4, <3>5
  <2>6. QED
    BY <2>3, <2>4, <2>5
<1>7. ASSUME \/ \E k \in Connections :
                   \/ connectionAdded(k) \/ connectionRemoved(k) \/ messageReceived(k)
                   \/ \E i \in Ids : ProcessChanges(k, i)
             \/ FactoriesChange \/ setIdleDelegate
      PROVE  MemoryTold(f)'
  <2>1. /\ UNCHANGED <<m_socket, m_memoryRestricted>>
        /\ \A j \in Connections :
              \/ up'[j] = up[j]
              \/ j \in clients /\ up[j] # <<>> /\ up'[j] = Tail(up[j])
    BY <1>7, LauncherStep DEF sockets
  <2>2. CASE m_socket[f] = None
    BY <2>1, <2>2 DEF MemoryTold
  <2>3. CASE m_socket[f] # None
    <3> DEFINE q == up[m_socket[f]]
               r == up'[m_socket[f]]
    <3>1. q \in Seq(Commands) /\ (r = q \/ (q # <<>> /\ r = Tail(q)))
      BY <1>1, <2>1, <2>3
    <3>2. SUFFICES \A k \in DOMAIN r : IsLast(r, Memories, k) => r[k].value = m_memoryRestricted[f]
      BY <2>1 DEF MemoryTold
    <3>3. \A k \in DOMAIN q : IsLast(q, Memories, k) => q[k].value = m_memoryRestricted[f]
      BY <2>3 DEF MemoryTold
    <3> HIDE DEF q, r
    <3>4. CASE r = q
      BY <3>3, <3>4
    <3>5. CASE q # <<>> /\ r = Tail(q)
      <4>1. \A k \in DOMAIN Tail(q) : IsLast(Tail(q), Memories, k) =>
               k + 1 \in DOMAIN q /\ IsLast(q, Memories, k + 1) /\ Tail(q)[k] = q[k + 1]
        BY <3>1, <3>5, LastOfTail
      <4>2. QED
        BY <3>3, <3>5, <4>1
    <3>6. QED
      BY <3>1, <3>4, <3>5
  <2>4. QED
    BY <2>2, <2>3
<1>8. CASE UNCHANGED vars
  BY <1>2, <1>8 DEF vars, sockets
<1>9. CASE Next
  BY <1>3, <1>4, <1>5, <1>6, <1>7, <1>9 DEF Next
<1>10. QED
  BY <1>8, <1>9

\* While no connection has ended, the launcher's restriction is that of a manager from
\* which no other one is under way.
LEMMA NextMemoryHeard ==
    ASSUME Types, Owned, \A k \in Connections : Unopened(k), \A f \in Factories : MemoryTold(f),
           MemoryHeard, [Next]_vars
    PROVE  MemoryHeard'
<1> DEFINE Open == /\ \A k \in Connections : owner[k] # None => IsOpen(k)
                   /\ \E f \in Factories : m_socket[f] # None
           Heard(f) == /\ m_socket[f] # None
                       /\ NoneOf(up[m_socket[f]], Memories) => restricted = m_memoryRestricted[f]
<1>1. /\ m_socket \in [Factories -> Connections \cup {None}]
      /\ owner \in [Connections -> Factories \cup {None}]
      /\ up \in [Connections -> Seq(Commands)]
      /\ m_memoryRestricted \in [Factories -> BOOLEAN]
      /\ None \notin Factories \cup Connections
  BY SocketAssumption DEF Types, SocketTypes, QueueTypes, FactoryTypes
<1>2. Open => \E f \in Factories : Heard(f)
  BY DEF MemoryHeard
<1>3. SUFFICES ASSUME Open' PROVE \E f \in Factories : Heard(f)'
  BY DEF MemoryHeard
<1>4. UNCHANGED <<m_socket, owner>> => Open
  BY <1>3 DEF IsOpen
<1>5. CASE UNCHANGED <<m_socket, owner, up, m_memoryRestricted, restricted>>
  <2>1. \A f \in Factories : Heard(f) => Heard(f)'
    BY <1>5
  <2>2. QED
    BY <1>2, <1>4, <1>5, <2>1
<1> HIDE DEF Open
<1>6. ASSUME NEW g \in Factories, NEW k \in Connections, Connect(g, k)
      PROVE  \E f \in Factories : Heard(f)'
  <2>1. /\ m_socket' = [m_socket EXCEPT ![g] = k]
        /\ up' = [up EXCEPT ![k] = <<Memory(m_memoryRestricted[g])>>]
    BY <1>6 DEF Connect, connected
  <2>2. m_socket'[g] = k /\ up'[k] = <<Memory(m_memoryRestricted[g])>> /\ k # None
    BY <1>1, <2>1
  <2> DEFINE c == Memory(m_memoryRestricted[g])
  <2>3. c \in Memories
    BY <1>1, CommandTypes
  <2> HIDE DEF c
  <2>4. ~NoneOf(<<c>>, Memories)
    BY <2>3 DEF NoneOf
  <2>5. Heard(g)'
    BY <2>2, <2>4 DEF c
  <2>6. QED
    BY <2>5
<1>7. ASSUME NEW g \in Factories, Disconnect(g) PROVE FALSE
  <2>1. /\ m_socket[g] # None /\ m_socket' = [m_socket EXCEPT ![g] = None] /\ UNCHANGED owner
    BY <1>7 DEF Disconnect
  <2>2. owner'[m_socket[g]] = g /\ m_socket[g] \in Connections
    BY <1>1, <2>1 DEF Owned
  <2>3. m_socket'[g] = None
    BY <1>1, <2>1
  <2>4. m_socket'[g] = m_socket[g]
    BY <1>1, <1>3, <2>2 DEF Open, IsOpen
  <2>5. QED
    BY <2>1, <2>3, <2>4
<1>8. ASSUME NEW g \in Factories, ReadyRead(g) \/ receive(g)
      PROVE  \E f \in Factories : Heard(f)'
  BY <1>5, <1>8 DEF ReadyRead, receive, launcher, idle
<1>9. ASSUME NEW g \in Factories,
             \/ setMemoryRestricted(g) \/ idleCpuAvailable(g)
             \/ \E i \in Ids : start(g, i) \/ stop(g, i)
      PROVE  \E f \in Factories : Heard(f)'
  <2>1. PICK c \in Commands :
           /\ send(g, c)
           /\ \/ /\ c \in Memories /\ c.value = m_memoryRestricted'[g]
                 /\ \A h \in Factories \ {g} : m_memoryRestricted'[h] = m_memoryRestricted[h]
              \/ Other(c) /\ UNCHANGED m_memoryRestricted
    BY <1>9, CommandSent
  <2>2. UNCHANGED <<m_socket, owner, restricted>>
    BY <1>9, CommandSent DEF sockets, launcher, idle
  <2>3. PICK f \in Factories : Heard(f)
    BY <1>2, <1>4, <2>2
  <2>4. CASE c \in Memories /\ m_socket[g] # None
    <3> DEFINE q == up[m_socket[g]]
               r == up'[m_socket[g]]
    <3>1. q \in Seq(Commands) /\ r = q \o <<c>>
      BY <2>1, <2>4, SendToOthers
    <3> HIDE DEF q, r
    <3>2. ~NoneOf(r, Memories)
      BY <2>4, <3>1, LastOfOne
    <3>3. Heard(g)'
      BY <2>2, <2>4, <3>2 DEF r
    <3>4. QED
      BY <3>3
  <2>5. CASE f # g /\ m_memoryRestricted'[f] = m_memoryRestricted[f]
    <3>1. up'[m_socket[f]] = up[m_socket[f]]
      BY <2>1, <2>3, <2>5, SendToOthers
    <3>2. Heard(f)'
      BY <2>2, <2>3, <2>5, <3>1
    <3>3. QED
      BY <3>2
  <2>6. CASE f = g /\ Other(c) /\ UNCHANGED m_memoryRestricted
    <3> DEFINE q == up[m_socket[f]]
               r == up'[m_socket[f]]
    <3>1. q \in Seq(Commands) /\ r = q \o <<c>>
      BY <2>1, <2>3, <2>6, SendToOthers
    <3>2. NoneOf(q, Memories) => restricted = m_memoryRestricted[f]
      BY <2>3
    <3> HIDE DEF q, r
    <3>3. <<c>> \in Seq(Commands) /\ NoneOf(<<c>>, Memories)
      BY <2>6, OtherNone
    <3>4. NoneOf(r, Memories) => NoneOf(q, Memories)
      BY <3>1, <3>3, LastOfOthers
    <3>5. Heard(f)'
      BY <2>2, <2>3, <2>6, <3>2, <3>4 DEF r
    <3>6. QED
      BY <3>5
  <2>7. QED
    BY <2>1, <2>3, <2>4, <2>5, <2>6
<1>10. ASSUME NEW k \in Connections, messageReceived(k) PROVE \E f \in Factories : Heard(f)'
  <2> DEFINE m == Head(up[k])
  <2>1. /\ k \in clients /\ up[k] # <<>> /\ up[k] \in Seq(Commands) /\ m \in Commands
        /\ \A j \in Connections : up'[j] = IF j = k THEN Tail(up[k]) ELSE up[j]
    BY <1>10, MessageTaken
  <2>2. UNCHANGED <<m_socket, owner, m_memoryRestricted>>
    BY <1>10, MessageTaken DEF sockets
  <2>3. \/ m \in Memories /\ restricted' = m.value
        \/ m \notin Memories /\ UNCHANGED restricted
    <3>1. m.command = "memory" <=> m \in Memories
      BY <2>1, CommandKinds
    <3> HIDE DEF m
    <3>2. \/ m \in Memories /\ restricted' = m.value
          \/ m.command \in {"start", "stop", "idlecpuavailable"} /\ UNCHANGED restricted
      BY <1>10, MessageEffect DEF m
    <3>3. QED
      BY <3>1, <3>2
  <2> DEFINE q == up[k]
             t == Tail(q)
  <2>4. up'[k] = t
    BY <2>1
  <2>5. NoneOf(t, Memories) => IF m \in Memories THEN IsLast(q, Memories, 1)
                                                 ELSE NoneOf(q, Memories)
    BY <2>1, LastOfTail
  <2>6. m = q[1]
    BY <2>1
  <2>7. CASE m \in Memories /\ restricted' = m.value
    <3>1. owner[k] # None
      BY <2>1 DEF Unopened
    <3>2. PICK g \in Factories : m_socket[g] = k
      BY <1>1, <1>3, <1>4, <2>2, <3>1 DEF Open, IsOpen
    <3>3. \A j \in DOMAIN q : IsLast(q, Memories, j) => q[j].value = m_memoryRestricted[g]
      BY <1>1, <3>2 DEF MemoryTold
    <3> HIDE DEF q, t, m
    <3>4. NoneOf(t, Memories) => m.value = m_memoryRestricted[g]
      BY <2>5, <2>6, <2>7, <3>3 DEF IsLast
    <3>5. Heard(g)'
      BY <1>1, <2>2, <2>4, <2>7, <3>2, <3>4
    <3>6. QED
      BY <3>5
  <2>8. CASE m \notin Memories /\ UNCHANGED restricted
    <3>1. PICK f \in Factories : Heard(f)
      BY <1>2, <1>4, <2>2
    <3>2. CASE m_socket[f] # k
      <4>1. up'[m_socket[f]] = up[m_socket[f]]
        BY <1>1, <2>1, <3>1, <3>2
      <4>2. Heard(f)'
        BY <2>2, <2>8, <3>1, <4>1
      <4>3. QED
        BY <4>2
    <3>3. CASE m_socket[f] = k
      <4>1. NoneOf(q, Memories) => restricted = m_memoryRestricted[f]
        BY <3>1, <3>3
      <4> HIDE DEF q, t, m
      <4>2. Heard(f)'
        BY <2>2, <2>4, <2>5, <2>8, <3>1, <3>3, <4>1
      <4>3. QED
        BY <4>2
    <3>4. QED
      BY <3>2, <3>3
  <2>9. QED
    BY <2>3, <2>7, <2>8
<1>11. ASSUME NEW k \in Connections,
              \/ connectionAdded(k) \/ connectionRemoved(k) \/ \E i \in Ids : ProcessChanges(k, i)
       PROVE  \E f \in Factories : Heard(f)'
  BY <1>5, <1>11 DEF connectionAdded, connectionRemoved, ProcessChanges, sockets
<1>12. ASSUME FactoriesChange \/ setIdleDelegate PROVE \E f \in Factories : Heard(f)'
  BY <1>5, <1>12, LauncherTalks DEF sockets
<1>13. CASE UNCHANGED vars
  BY <1>5, <1>13 DEF vars, sockets, launcher, idle
<1>14. CASE Next
  BY <1>6, <1>7, <1>8, <1>9, <1>10, <1>11, <1>12, <1>14 DEF Next
<1>15. QED
  BY <1>13, <1>14

(***************************************************************************)
(* The request for idle CPU.                                               *)
(***************************************************************************)

\* News of idle CPU, behind or not.
LEMMA IdleToldSame ==
    ASSUME NEW f \in Factories, IdleTold(f), Understood(f)' => Understood(f),
           Understood(f)' => Arriving(f)' = Arriving(f),
           m_socket'[f] = m_socket[f], m_socket[f] \in informed' => m_socket[f] \in informed,
           UNCHANGED <<m_idleCpuRequest, requested>>
    PROVE  IdleTold(f)'
BY DEF IdleTold

\* Others messages come behind.
LEMMA IdleToldOthers ==
    ASSUME Types, NEW f \in Factories, IdleTold(f), Understood(f)' => Understood(f),
           NEW s \in Seq(Messages), NoneOf(s, IdleNews), Arriving(f)' = Arriving(f) \o s,
           m_socket'[f] = m_socket[f], m_socket[f] \in informed' => m_socket[f] \in informed,
           UNCHANGED <<m_idleCpuRequest, requested>>
    PROVE  IdleTold(f)'
<1> SUFFICES ASSUME Understood(f)', m_socket'[f] \in informed' PROVE IdleTold(f)'
  BY DEF IdleTold
<1> DEFINE q == Arriving(f)
           r == Arriving(f)'
<1>1. q \in Seq(Messages) /\ r = q \o s
  BY ArrivingType
<1>2. /\ NoneOf(q, IdleNews) => requested = m_idleCpuRequest[f]
      /\ \A k \in DOMAIN q : IsLast(q, IdleNews, k) => q[k].value = requested
  BY DEF IdleTold
<1> HIDE DEF q, r
<1>3. NoneOf(r, IdleNews) => NoneOf(q, IdleNews)
  BY <1>1, LastOfOthers
<1>4. \A k \in DOMAIN r : IsLast(r, IdleNews, k) =>
         k \in DOMAIN q /\ IsLast(q, IdleNews, k) /\ r[k] = q[k]
  BY <1>1, LastOfOthers
<1>5. /\ NoneOf(r, IdleNews) => requested' = m_idleCpuRequest'[f]
      /\ \A k \in DOMAIN r : IsLast(r, IdleNews, k) => r[k].value = requested'
  BY <1>2, <1>3, <1>4
<1>6. QED
  BY <1>5 DEF IdleTold, r

\* The news comes behind.
LEMMA IdleToldNews ==
    ASSUME Types, NEW f \in Factories, requested' \in BOOLEAN,
           Arriving(f)' = Arriving(f) \o <<Request(requested')>>
    PROVE  IdleTold(f)'
<1> DEFINE q == Arriving(f)
           r == Arriving(f)'
           c == Request(requested')
<1>1. q \in Seq(Messages) /\ r = q \o <<c>>
  BY ArrivingType
<1>2. c \in Messages /\ c \in IdleNews /\ c.value = requested'
  BY RequestType
<1> HIDE DEF q, r, c
<1>3. /\ ~NoneOf(r, IdleNews)
      /\ \A k \in DOMAIN r : IsLast(r, IdleNews, k) => r[k] = c
  BY <1>1, <1>2, LastOfOne
<1>4. QED
  BY <1>2, <1>3 DEF IdleTold, r

\* A report about a process is no such news.
LEMMA IdleToldReport ==
    ASSUME Types, Owned, NEW f \in Factories, IdleTold(f),
           NEW k \in Connections, NEW i \in Ids, NEW r \in Seq(Signals),
           down' = Spoken({k}, Events(i, r)), UNCHANGED <<sockets, owner>>,
           UNCHANGED <<informed, m_idleCpuRequest, requested>>
    PROVE  IdleTold(f)'
<1> DEFINE s == Events(i, r)
<1>1. s \in Seq(Messages) /\ NoneOf(s, IdleNews)
  BY EventsType, EventsConcern
<1>2. down' = Spoken({k}, s) /\ {k} \in SUBSET Connections
  OBVIOUS
<1> HIDE DEF s
<1>3. /\ Understood(f)' = Understood(f)
      /\ Arriving(f)' = IF Understood(f) /\ m_socket[f] \in {k} THEN Arriving(f) \o s
                        ELSE Arriving(f)
  BY <1>1, <1>2, ArrivesSpoken
<1>4. UNCHANGED m_socket
  BY DEF sockets
<1>5. CASE Understood(f) /\ m_socket[f] \in {k}
  BY <1>1, <1>3, <1>4, <1>5, IdleToldOthers
<1>6. CASE ~(Understood(f) /\ m_socket[f] \in {k})
  BY <1>3, <1>4, <1>6, IdleToldSame
<1>7. QED
  BY <1>5, <1>6

\* All clients are told.
LEMMA IdleToldBroadcast ==
    ASSUME Types, Owned, NEW f \in Factories, requested' \in BOOLEAN,
           down' = Spoken(clients, <<Request(requested')>>), UNCHANGED <<sockets, owner>>,
           informed' = clients
    PROVE  IdleTold(f)'
<1> DEFINE s == <<Request(requested')>>
<1>1. s \in Seq(Messages) /\ clients \in SUBSET Connections
  BY RequestType DEF Types, LauncherTypes
<1>2. down' = Spoken(clients, s)
  OBVIOUS
<1> HIDE DEF s
<1>3. /\ Understood(f)' = Understood(f)
      /\ Arriving(f)' = IF Understood(f) /\ m_socket[f] \in clients THEN Arriving(f) \o s
                        ELSE Arriving(f)
  BY <1>1, <1>2, ArrivesSpoken
<1>4. CASE Understood(f) /\ m_socket[f] \in clients
  BY <1>3, <1>4, IdleToldNews DEF s
<1>5. CASE ~(Understood(f) /\ m_socket[f] \in clients)
  BY <1>3, <1>5 DEF IdleTold, sockets
<1>6. QED
  BY <1>4, <1>5

\* Whatever the launcher's request does, those that count as told know it.
LEMMA IdleToldSpread ==
    ASSUME Types, Owned, NEW f \in Factories, IdleTold(f), Spread,
           UNCHANGED <<sockets, owner, m_idleCpuRequest>>
    PROVE  IdleTold(f)'
<1>1. CASE UNCHANGED <<requested, down, informed>>
  <2>1. UNCHANGED <<m_socket, m_buffer, garbled>>
    BY DEF sockets
  <2>2. Understood(f)' = Understood(f) /\ Arriving(f)' = Arriving(f)
    BY <1>1, <2>1, ArrivesSame
  <2>3. QED
    BY <1>1, <2>1, <2>2, IdleToldSame
<1>2. CASE down' = Spoken(clients, <<Request(requested')>>) /\ informed' = clients
  <2>1. requested' \in BOOLEAN
    BY DEF Spread
  <2>2. QED
    BY <1>2, <2>1, IdleToldBroadcast
<1>3. CASE informed' = {}
  BY <1>3 DEF IdleTold
<1>4. QED
  BY <1>1, <1>2, <1>3 DEF Spread

\* What a factory believes of the launcher's request, or is going to hear last, is true.
LEMMA NextIdleTold ==
    ASSUME Types, Owned, \A k \in Connections : Unopened(k), NEW f \in Factories, IdleTold(f),
           [Next]_vars
    PROVE  IdleTold(f)'
<1>1. /\ m_socket \in [Factories -> Connections \cup {None}]
      /\ down \in [Connections -> Seq(Messages)] /\ requested \in BOOLEAN
      /\ clients \in SUBSET Connections /\ informed \in SUBSET clients
      /\ delegate \in BOOLEAN /\ None \notin Factories \cup Connections
  BY SocketAssumption DEF Types, SocketTypes, QueueTypes, LauncherTypes
<1>2. CASE UNCHANGED <<sockets, down, informed, m_idleCpuRequest, requested>>
  <2>1. UNCHANGED <<m_socket, m_buffer, garbled>>
    BY <1>2 DEF sockets
  <2>2. Understood(f)' = Understood(f) /\ Arriving(f)' = Arriving(f)
    BY <1>2, <2>1, ArrivesSame
  <2>3. QED
    BY <1>2, <2>1, <2>2, IdleToldSame
<1>3. ASSUME NEW g \in Factories, NEW k \in Connections, Connect(g, k) PROVE IdleTold(f)'
  <2>1. /\ m_socket' = [m_socket EXCEPT ![g] = k] /\ owner[k] = None
        /\ UNCHANGED <<informed, m_idleCpuRequest, requested>>
    BY <1>3 DEF Connect, told, launcher, idle
  <2>2. CASE f = g
    <3>1. m_socket'[f] \notin informed'
      BY <1>1, <2>1, <2>2 DEF Unopened
    <3>2. QED
      BY <3>1 DEF IdleTold
  <2>3. CASE f # g
    <3>1. m_socket'[f] = m_socket[f]
      BY <1>1, <2>1, <2>3
    <3>2. Understood(f)' = Understood(f) /\ Arriving(f)' = Arriving(f)
      BY <1>3, <2>3, ArrivesConnect
    <3>3. QED
      BY <2>1, <3>1, <3>2, IdleToldSame
  <2>4. QED
    BY <2>2, <2>3
<1>4. ASSUME NEW g \in Factories, Disconnect(g) PROVE IdleTold(f)'
  <2>1. /\ m_socket' = [m_socket EXCEPT ![g] = None]
        /\ UNCHANGED <<informed, m_idleCpuRequest, requested>>
    BY <1>4 DEF Disconnect, told, launcher, idle
  <2>2. CASE f = g
    <3>1. ~Understood(f)'
      BY <1>1, <2>1, <2>2 DEF Understood
    <3>2. QED
      BY <3>1 DEF IdleTold
  <2>3. CASE f # g
    <3>1. m_socket'[f] = m_socket[f]
      BY <1>1, <2>1, <2>3
    <3>2. Understood(f)' = Understood(f) /\ Arriving(f)' = Arriving(f)
      BY <1>4, <2>3, ArrivesDisconnect
    <3>3. QED
      BY <2>1, <3>1, <3>2, IdleToldSame
  <2>4. QED
    BY <2>2, <2>3
<1>5. ASSUME NEW g \in Factories, ReadyRead(g) PROVE IdleTold(f)'
  <2>1. UNCHANGED <<m_socket, informed, m_idleCpuRequest, requested>>
    BY <1>5 DEF ReadyRead, told, launcher, idle
  <2>2. Understood(f)' = Understood(f) /\ Arriving(f)' = Arriving(f)
    BY <1>5, ArrivesReadyRead
  <2>3. QED
    BY <2>1, <2>2, IdleToldSame
<1>6. ASSUME NEW g \in Factories, receive(g) PROVE IdleTold(f)'
  <2>1. UNCHANGED <<m_socket, informed, requested>>
    BY <1>6 DEF receive, launcher, idle
  <2>2. Understood(f)' = Understood(f)
    BY <1>6, ArrivesReceive
  <2> DEFINE m == Head(m_buffer[g])
  <2>3. m_idleCpuRequest'[f] = IF f = g /\ m \in IdleNews THEN m.value ELSE m_idleCpuRequest[f]
    BY <1>6, ArrivesReceive, ReceiveEffect
  <2>4. CASE f # g
    <3>1. Arriving(f)' = Arriving(f)
      BY <1>6, <2>4, ArrivesReceive
    <3>2. m_idleCpuRequest'[f] = m_idleCpuRequest[f]
      BY <2>3, <2>4
    <3>3. QED
      BY <2>1, <2>2, <3>1, <3>2 DEF IdleTold
  <2>5. CASE f = g
    <3> SUFFICES ASSUME Understood(f)', m_socket'[f] \in informed' PROVE IdleTold(f)'
      BY DEF IdleTold
    <3> DEFINE q == Arriving(f)
               r == Arriving(f)'
    <3>1. q \in Seq(Messages) /\ q # <<>> /\ Head(q) = m /\ r = Tail(q)
      BY <1>6, <2>5, ArrivesReceive, ArrivingType
    <3>2. /\ NoneOf(q, IdleNews) => requested = m_idleCpuRequest[f]
          /\ \A k \in DOMAIN q : IsLast(q, IdleNews, k) => q[k].value = requested
      BY <2>1, <2>2 DEF IdleTold
    <3>3. m_idleCpuRequest'[f] = IF m \in IdleNews THEN m.value ELSE m_idleCpuRequest[f]
      BY <2>3, <2>5
    <3> HIDE DEF q, r, m
    <3>4. /\ NoneOf(r, IdleNews) => IF m \in IdleNews THEN IsLast(q, IdleNews, 1)
                                                      ELSE NoneOf(q, IdleNews)
          /\ \A k \in DOMAIN r : IsLast(r, IdleNews, k) =>
                k + 1 \in DOMAIN q /\ IsLast(q, IdleNews, k + 1) /\ r[k] = q[k + 1]
          /\ 1 \in DOMAIN q /\ m = q[1]
      BY <3>1, LastOfTail
    <3>5. NoneOf(r, IdleNews) => requested = m_idleCpuRequest'[f]
      BY <3>2, <3>3, <3>4
    <3>6. \A k \in DOMAIN r : IsLast(r, IdleNews, k) => r[k].value = requested
      BY <3>2, <3>4
    <3>7. QED
      BY <2>1, <3>5, <3>6 DEF IdleTold, r
  <2>6. QED
    BY <2>4, <2>5
<1>7. ASSUME NEW g \in Factories,
             \/ setMemoryRestricted(g) \/ idleCpuAvailable(g)
             \/ \E i \in Ids : start(g, i) \/ stop(g, i)
      PROVE  IdleTold(f)'
  <2>1. UNCHANGED <<sockets, told, owner, down, launcher>>
    BY <1>7, CommandSent
  <2>2. QED
    BY <1>2, <2>1 DEF told, launcher, idle
<1>8. ASSUME NEW k \in Connections, connectionAdded(k) PROVE IdleTold(f)'
  <2>1. /\ down' = [down EXCEPT ![k] = Sent(k, Greeting)]
        /\ informed' = IF delegate THEN informed ELSE informed \cup {k}
        /\ UNCHANGED <<sockets, owner, m_idleCpuRequest, requested>>
    BY <1>8 DEF connectionAdded, told
  <2>2. UNCHANGED m_socket /\ {k} \in SUBSET Connections
    BY <2>1 DEF sockets
  <2>3. CASE delegate
    <3>1. Greeting = <<>> /\ informed' = informed
      BY <2>1, <2>3 DEF Greeting
    <3>2. <<>> \in Seq(Messages) /\ NoneOf(<<>>, IdleNews)
      BY DEF NoneOf
    <3>3. down' = Spoken({k}, <<>>)
      BY <2>1, <3>1, <3>2, SpokenTo
    <3>4. /\ Understood(f)' = Understood(f)
          /\ Arriving(f)' = IF Understood(f) /\ m_socket[f] \in {k} THEN Arriving(f) \o <<>>
                            ELSE Arriving(f)
      BY <2>1, <2>2, <3>2, <3>3, ArrivesSpoken
    <3>5. CASE Understood(f) /\ m_socket[f] \in {k}
      BY <2>1, <2>2, <3>1, <3>2, <3>4, <3>5, IdleToldOthers
    <3>6. CASE ~(Understood(f) /\ m_socket[f] \in {k})
      BY <2>1, <2>2, <3>1, <3>4, <3>6, IdleToldSame
    <3>7. QED
      BY <3>5, <3>6
  <2>4. CASE ~delegate
    <3> DEFINE s == <<Request(requested)>>
    <3>1. s \in Seq(Messages)
      BY <1>1, RequestType
    <3>2. down' = [down EXCEPT ![k] = Sent(k, s)]
      BY <2>1, <2>4 DEF Greeting
    <3> HIDE DEF s
    <3>3. down' = Spoken({k}, s)
      BY <3>1, <3>2, SpokenTo
    <3>4. /\ Understood(f)' = Understood(f)
          /\ Arriving(f)' = IF Understood(f) /\ m_socket[f] \in {k} THEN Arriving(f) \o s
                            ELSE Arriving(f)
      BY <2>1, <2>2, <3>1, <3>3, ArrivesSpoken
    <3>5. CASE Understood(f) /\ m_socket[f] \in {k}
      BY <1>1, <2>1, <3>4, <3>5, IdleToldNews DEF s
    <3>6. CASE ~Understood(f)
      BY <3>4, <3>6 DEF IdleTold
    <3>7. CASE Understood(f) /\ m_socket[f] # k
      <4>1. m_socket[f] \in informed' => m_socket[f] \in informed
        BY <2>1, <3>7
      <4>2. QED
        BY <2>1, <2>2, <3>4, <3>7, <4>1, IdleToldSame
    <3>8. QED
      BY <3>5, <3>6, <3>7
  <2>5. QED
    BY <1>1, <2>3, <2>4
<1>9. ASSUME NEW k \in Connections, connectionRemoved(k) PROVE IdleTold(f)'
  <2>1. /\ informed' = informed \ {k}
        /\ UNCHANGED <<sockets, down, m_idleCpuRequest, requested>>
    BY <1>9 DEF connectionRemoved, told
  <2>2. UNCHANGED <<m_socket, m_buffer, garbled>>
    BY <2>1 DEF sockets
  <2>3. Understood(f)' = Understood(f) /\ Arriving(f)' = Arriving(f)
    BY <2>1, <2>2, ArrivesSame
  <2>4. QED
    BY <2>1, <2>2, <2>3, IdleToldSame
<1>10. ASSUME NEW k \in Connections, messageReceived(k) PROVE IdleTold(f)'
  <2>1. UNCHANGED <<sockets, told, owner>> /\ Head(up[k]) \in Commands
    BY <1>10, MessageTaken
  <2>2. UNCHANGED m_idleCpuRequest
    BY <2>1 DEF told
  <2> DEFINE m == Head(up[k])
  <2>3. CASE UNCHANGED <<requested, informed, down>>
    BY <1>2, <2>1, <2>2, <2>3
  <2>4. CASE Spread
    BY <2>1, <2>2, <2>4, IdleToldSpread
  <2>5. CASE /\ m.id \in Ids /\ UNCHANGED <<requested, informed>>
             /\ \E r \in P!StartReports : Report(k, m.id, r)
    <3>1. PICK r \in P!StartReports : Report(k, m.id, r)
      BY <2>5
    <3>2. m.id \in Ids
      BY <2>5
    <3> HIDE DEF m
    <3>3. r \in Seq(Signals) /\ down' = Spoken({k}, Events(m.id, r))
      BY <3>1, <3>2, StartReported
    <3>4. QED
      BY <2>1, <2>2, <2>5, <3>2, <3>3, IdleToldReport
  <2>6. QED
    <3> HIDE DEF m
    <3>1. \/ UNCHANGED <<requested, informed, down>>
          \/ Spread
          \/ /\ m.id \in Ids /\ UNCHANGED <<requested, informed>>
             /\ \E r \in P!StartReports : Report(k, m.id, r)
      BY <1>10, MessageEffect DEF m
    <3>2. QED
      BY <2>3, <2>4, <2>5, <3>1
<1>11. ASSUME NEW k \in Connections, NEW i \in Ids, ProcessChanges(k, i) PROVE IdleTold(f)'
  <2>1. PICK r \in P!Reports(stage[k][i]) : Report(k, i, r)
    BY <1>11 DEF ProcessChanges
  <2>2. stage[k][i] \in RestStages
    BY DEF Types, LauncherTypes
  <2>3. r \in Seq(Signals) /\ P!Life!Reached(stage[k][i], r) \in RestStages
    BY <2>2, ReportStages
  <2>4. down' = Spoken({k}, Events(i, r))
    BY <2>1, <2>3, ReportEffect
  <2>5. UNCHANGED <<sockets, owner, informed, m_idleCpuRequest, requested>>
    BY <1>11 DEF ProcessChanges, told, idle
  <2>6. QED
    BY <2>3, <2>4, <2>5, IdleToldReport
<1>12. ASSUME FactoriesChange \/ setIdleDelegate PROVE IdleTold(f)'
  <2>1. Spread /\ UNCHANGED <<sockets, told, owner>>
    BY <1>12, LauncherTalks
  <2>2. QED
    BY <2>1, IdleToldSpread DEF told
<1>13. CASE UNCHANGED vars
  BY <1>2, <1>13 DEF vars, told, launcher, idle
<1>14. CASE Next
  BY <1>3, <1>4, <1>5, <1>6, <1>7, <1>8, <1>9, <1>10, <1>11, <1>12, <1>14 DEF Next
<1>15. QED
  BY <1>13, <1>14

(***************************************************************************)
(* What clients are told.                                                  *)
(***************************************************************************)

\* Other commands, and the first one being taken, start nothing.
LEMMA StartsKept ==
    ASSUME Types, NEW k \in Connections, NEW i \in Ids, stage'[k][i] = stage[k][i],
           \/ up'[k] = up[k]
           \/ up[k] # <<>> /\ up'[k] = Tail(up[k])
           \/ \E c \in Commands : /\ ~(c.command = "start" /\ c.id = i)
                                  /\ up'[k] = Append(up[k], c)
    PROVE  /\ NeverStarted(k, i) => NeverStarted(k, i)'
           /\ StartedOnce(k, i) => StartedOnce(k, i)'
<1> DEFINE q == up[k]
           r == up'[k]
           g == stage[k][i]
<1>1. q \in Seq(Commands)
  BY DEF Types, QueueTypes
<1>2. \/ r = q
      \/ q # <<>> /\ r = Tail(q)
      \/ \E c \in Commands : ~(c.command = "start" /\ c.id = i) /\ r = Append(q, c)
  OBVIOUS
<1>3. /\ NeverStarted(k, i) <=> g = "fresh" /\ \A j \in DOMAIN q : ~Starts(q, i, j)
      /\ NeverStarted(k, i)' <=> g = "fresh" /\ \A j \in DOMAIN r : ~Starts(r, i, j)
      /\ StartedOnce(k, i) <=> \A j \in DOMAIN q : Starts(q, i, j) =>
                                  /\ g = "fresh"
                                  /\ \A h \in DOMAIN q : Starts(q, i, h) => h = j
      /\ StartedOnce(k, i)' <=> \A j \in DOMAIN r : Starts(r, i, j) =>
                                  /\ g = "fresh"
                                  /\ \A h \in DOMAIN r : Starts(r, i, h) => h = j
  BY DEF NeverStarted, StartedOnce
<1> HIDE DEF q, r, g
<1>4. CASE r = q
  BY <1>3, <1>4
<1>5. CASE q # <<>> /\ r = Tail(q)
  <2>1. /\ \A j \in DOMAIN r : Starts(r, i, j) =>
              j + 1 \in DOMAIN q /\ j + 1 # 1 /\ Starts(q, i, j + 1)
        /\ DOMAIN r \subseteq Nat
    BY <1>1, <1>5, StartsOfTail
  <2>2. NeverStarted(k, i) => NeverStarted(k, i)'
    BY <1>3, <2>1
  <2>3. ASSUME StartedOnce(k, i) PROVE StartedOnce(k, i)'
    <3>1. ASSUME NEW j \in DOMAIN r, Starts(r, i, j)
          PROVE  g = "fresh" /\ \A h \in DOMAIN r : Starts(r, i, h) => h = j
      <4>1. g = "fresh" /\ j \in Nat /\ \A h \in DOMAIN q : Starts(q, i, h) => h = j + 1
        BY <1>3, <2>1, <2>3, <3>1
      <4>2. ASSUME NEW h \in DOMAIN r, Starts(r, i, h) PROVE h = j
        <5>1. h \in Nat /\ h + 1 = j + 1
          BY <2>1, <4>1, <4>2
        <5>2. QED
          BY <4>1, <5>1
      <4>3. QED
        BY <4>1, <4>2
    <3>2. QED
      BY <1>3, <3>1
  <2>4. QED
    BY <2>2, <2>3
<1>6. CASE \E c \in Commands : ~(c.command = "start" /\ c.id = i) /\ r = Append(q, c)
  <2>1. PICK c \in Commands : ~(c.command = "start" /\ c.id = i) /\ r = Append(q, c)
    BY <1>6
  <2>2. \A j \in DOMAIN r : Starts(r, i, j) => j \in DOMAIN q /\ Starts(q, i, j)
    BY <1>1, <2>1, StartsOfOther
  <2>3. QED
    BY <1>3, <2>2
<1>7. QED
  BY <1>2, <1>4, <1>5, <1>6

\* What has been said of process i goes on, or nobody speaks of it.
LEMMA ToldStep ==
    ASSUME Types, NEW f \in Factories, NEW i \in Ids, Told(f, i),
           UNCHANGED <<m_socket[f], host[f][i], seen[f][i]>>, Understood(f)' = Understood(f),
           m_socket[f] # None =>
              /\ stage'[m_socket[f]][i] = stage[m_socket[f]][i]
              /\ NeverStarted(m_socket[f], i) => NeverStarted(m_socket[f], i)'
              /\ StartedOnce(m_socket[f], i) => StartedOnce(m_socket[f], i)',
           NEW s \in Seq(Messages), Silent(s, i),
           Arriving(f)' = Arriving(f) \/ Arriving(f)' = Arriving(f) \o s
    PROVE  Told(f, i)'
<1> DEFINE q == Arriving(f)
           r == Arriving(f)'
           g == seen[f][i]
<1>1. q \in Seq(Messages) /\ (r = q \/ r = q \o s)
  BY ArrivingType
<1>2. PICK e \in LifeStages :
         /\ Path(q, i, g, e)
         /\ Understood(f) /\ host[f][i] = m_socket[f] => e = stage[m_socket[f]][i]
  BY DEF Told
<1>3. host[f][i] = None => g = "fresh" /\ Silent(q, i)
  BY DEF Told
<1>4. /\ m_socket[f] # None /\ host[f][i] # m_socket[f] =>
            NeverStarted(m_socket[f], i) /\ Silent(q, i)
      /\ m_socket[f] # None /\ host[f][i] = m_socket[f] => StartedOnce(m_socket[f], i)
  BY DEF Told
<1> HIDE DEF q, r, g
<1>5. Silent(q, i) => Silent(r, i)
  <2>1. Silent(q \o s, i) <=> Silent(q, i) /\ Silent(s, i)
    BY <1>1, SilentConcat
  <2>2. QED
    BY <1>1, <2>1
<1>6. Path(r, i, g, e)
  <2>1. Path(s, i, e, e)
    BY PathSilent
  <2>2. QED
    BY <1>1, <1>2, <2>1, PathConcat
<1>7. m_socket[f] # None /\ host[f][i] # m_socket[f] =>
         NeverStarted(m_socket[f], i)' /\ Silent(r, i)
  BY <1>4, <1>5
<1>8. m_socket[f] # None /\ host[f][i] = m_socket[f] => StartedOnce(m_socket[f], i)'
  BY <1>4
<1>9. Understood(f)' /\ host[f][i] = m_socket[f] => e = stage'[m_socket[f]][i]
  BY <1>2 DEF Understood
<1>10. host'[f][i] = None => seen'[f][i] = "fresh" /\ Silent(r, i)
  BY <1>3, <1>5 DEF g
<1>11. Path(r, i, seen'[f][i], e)
  BY <1>6 DEF g
<1>12. QED
  BY <1>7, <1>8, <1>9, <1>10, <1>11 DEF Told, r, NeverStarted, StartedOnce

\* The launcher reports about the process itself.
LEMMA ToldReport ==
    ASSUME Types, NEW f \in Factories, NEW i \in Ids, Told(f, i), NEW k \in Connections,
           m_socket[f] = k, host[f][i] = k,
           UNCHANGED <<m_socket[f], host[f][i], seen[f][i]>>, Understood(f)' = Understood(f),
           NEW s \in Seq(Messages), Path(s, i, stage[k][i], stage'[k][i]),
           Arriving(f)' = IF Understood(f) THEN Arriving(f) \o s ELSE Arriving(f),
           \A j \in DOMAIN up'[k] : ~Starts(up'[k], i, j)
    PROVE  Told(f, i)'
<1> DEFINE q == Arriving(f)
           r == Arriving(f)'
           g == seen[f][i]
           x == stage[k][i]
           y == stage'[k][i]
<1>1. q \in Seq(Messages) /\ r = IF Understood(f) THEN q \o s ELSE q
  BY ArrivingType
<1>2. k # None
  BY SocketAssumption
<1>3. PICK e \in LifeStages : Path(q, i, g, e) /\ (Understood(f) => e = x)
  BY DEF Told
<1>4. Path(s, i, x, y)
  OBVIOUS
<1> HIDE DEF q, r, g, x, y
<1>5. \E z \in LifeStages : Path(r, i, g, z) /\ (Understood(f) => z = y)
  <2>1. CASE Understood(f)
    <3>1. Path(s, i, e, y)
      BY <1>3, <1>4, <2>1
    <3>2. y \in LifeStages
      BY <3>1, PathEnds
    <3>3. Path(q \o s, i, g, y)
      BY <1>1, <1>3, <3>1, PathConcat
    <3>4. QED
      BY <1>1, <2>1, <3>2, <3>3
  <2>2. CASE ~Understood(f)
    BY <1>1, <1>3, <2>2
  <2>3. QED
    BY <2>1, <2>2
<1>6. \E z \in LifeStages :
         /\ Path(r, i, seen'[f][i], z)
         /\ Understood(f)' /\ host'[f][i] = m_socket'[f] => z = stage'[m_socket'[f]][i]
  BY <1>5 DEF g, y
<1>7. StartedOnce(k, i)'
  BY DEF StartedOnce
<1>8. QED
  BY <1>2, <1>6, <1>7 DEF Told, r, StartedOnce

\* Nothing is said of process i, of which this factory knows.
LEMMA ToldSame ==
    ASSUME Types, NEW f \in Factories, NEW i \in Ids, Told(f, i),
           UNCHANGED <<m_socket[f], host[f][i], seen[f][i]>>, Understood(f)' = Understood(f),
           m_socket[f] # None =>
              /\ stage'[m_socket[f]][i] = stage[m_socket[f]][i]
              /\ NeverStarted(m_socket[f], i) => NeverStarted(m_socket[f], i)'
              /\ StartedOnce(m_socket[f], i) => StartedOnce(m_socket[f], i)',
           Arriving(f)' = Arriving(f)
    PROVE  Told(f, i)'
<1>1. <<>> \in Seq(Messages) /\ Silent(<<>>, i)
  BY DEF Silent
<1>2. QED
  BY <1>1, ToldStep

\* A launcher that says something else: it goes on by one command at most, and sends
\* messages s, which do not speak of i, on connections K.
LEMMA ToldOther ==
    ASSUME Types, Owned, NEW f \in Factories, NEW i \in Ids, Told(f, i),
           UNCHANGED <<sockets, told, owner, host>>,
           \A j \in Connections : \/ up'[j] = up[j]
                                  \/ up[j] # <<>> /\ up'[j] = Tail(up[j]),
           m_socket[f] # None => stage'[m_socket[f]][i] = stage[m_socket[f]][i],
           NEW s \in Seq(Messages), NEW K \in SUBSET Connections,
           m_socket[f] \in K => Silent(s, i),
           UNCHANGED down \/ down' = Spoken(K, s)
    PROVE  Told(f, i)'
<1>1. m_socket[f] # None => m_socket[f] \in Connections
  BY DEF Types, SocketTypes
<1>2. UNCHANGED <<m_socket[f], m_buffer[f], garbled[f], host[f][i], seen[f][i]>>
  BY DEF sockets, told
<1>3. m_socket[f] # None => /\ stage'[m_socket[f]][i] = stage[m_socket[f]][i]
                            /\ NeverStarted(m_socket[f], i) => NeverStarted(m_socket[f], i)'
                            /\ StartedOnce(m_socket[f], i) => StartedOnce(m_socket[f], i)'
  <2> SUFFICES ASSUME NEW k \in Connections, k = m_socket[f], k # None
               PROVE  /\ stage'[k][i] = stage[k][i]
                      /\ NeverStarted(m_socket[f], i) => NeverStarted(m_socket[f], i)'
                      /\ StartedOnce(m_socket[f], i) => StartedOnce(m_socket[f], i)'
    BY <1>1
  <2>1. stage'[k][i] = stage[k][i]
    OBVIOUS
  <2>2. up'[k] = up[k] \/ (up[k] # <<>> /\ up'[k] = Tail(up[k]))
    OBVIOUS
  <2>3. /\ NeverStarted(k, i) => NeverStarted(k, i)'
        /\ StartedOnce(k, i) => StartedOnce(k, i)'
    BY <2>1, <2>2, StartsKept
  <2>4. m_socket'[f] = k /\ m_socket[f] = k
    BY <1>2
  <2>5. QED
    BY <2>1, <2>3, <2>4 DEF NeverStarted, StartedOnce
<1>4. CASE UNCHANGED down
  <2>1. Understood(f)' = Understood(f) /\ Arriving(f)' = Arriving(f)
    BY <1>2, <1>4, ArrivesSame
  <2>2. QED
    BY <1>2, <1>3, <2>1, ToldSame
<1>5. CASE down' = Spoken(K, s)
  <2>1. /\ Understood(f)' = Understood(f)
        /\ Arriving(f)' = IF Understood(f) /\ m_socket[f] \in K THEN Arriving(f) \o s
                          ELSE Arriving(f)
    BY <1>5, ArrivesSpoken
  <2>2. CASE Understood(f) /\ m_socket[f] \in K
    BY <1>2, <1>3, <2>1, <2>2, ToldStep
  <2>3. CASE ~(Understood(f) /\ m_socket[f] \in K)
    BY <1>2, <1>3, <2>1, <2>3, ToldSame
  <2>4. QED
    BY <2>2, <2>3
<1>6. QED
  BY <1>4, <1>5

\* A report about a process of connection k.
LEMMA ReportTold ==
    ASSUME Types, Owned, NEW f \in Factories, NEW i \in Ids, Told(f, i),
           UNCHANGED <<sockets, told, owner, host>>,
           \A j \in Connections : \/ up'[j] = up[j]
                                  \/ up[j] # <<>> /\ up'[j] = Tail(up[j]),
           NEW k \in Connections, NEW h \in Ids, NEW r \in Seq(Signals),
           P!Life!Reached(stage[k][h], r) \in RestStages, Report(k, h, r),
           m_socket[f] = k /\ h = i =>
              /\ host[f][i] = k
              /\ Path(Events(i, r), i, stage[k][i], P!Life!Reached(stage[k][i], r))
              /\ \A j \in DOMAIN up'[k] : ~Starts(up'[k], i, j)
    PROVE  Told(f, i)'
<1> DEFINE s == Events(h, r)
<1>1. s \in Seq(Messages) /\ (h # i => Silent(s, i)) /\ {k} \in SUBSET Connections
  BY EventsType, EventsConcern
<1>2. down' = Spoken({k}, s)
  BY ReportEffect
<1>3. stage' = [stage EXCEPT ![k][h] = P!Life!Reached(stage[k][h], r)]
  BY DEF Report
<1>4. \A j \in Connections : ~(j = k /\ h = i) => stage'[j][i] = stage[j][i]
  BY <1>3 DEF Types, LauncherTypes
<1>5. stage'[k][h] = P!Life!Reached(stage[k][h], r)
  BY <1>3 DEF Types, LauncherTypes
<1>6. m_socket[f] # None => m_socket[f] \in Connections
  BY DEF Types, SocketTypes
<1>7. CASE ~(m_socket[f] = k /\ h = i)
  <2>1. m_socket[f] # None => stage'[m_socket[f]][i] = stage[m_socket[f]][i]
    BY <1>4, <1>6, <1>7
  <2>2. m_socket[f] \in {k} => Silent(s, i)
    BY <1>1, <1>7
  <2> HIDE DEF s
  <2>3. QED
    BY <1>1, <1>2, <2>1, <2>2, ToldOther
<1>8. CASE m_socket[f] = k /\ h = i
  <2>1. /\ Understood(f)' = Understood(f)
        /\ Arriving(f)' = IF Understood(f) /\ m_socket[f] \in {k} THEN Arriving(f) \o s
                          ELSE Arriving(f)
    <3> HIDE DEF s
    <3>1. QED
      BY <1>1, <1>2, ArrivesSpoken
  <2>2. Path(s, i, stage[k][i], stage'[k][i])
    BY <1>5, <1>8
  <2>3. UNCHANGED <<m_socket[f], host[f][i], seen[f][i]>>
    BY DEF sockets, told
  <2>4. Arriving(f)' = IF Understood(f) THEN Arriving(f) \o s ELSE Arriving(f)
    BY <1>8, <2>1
  <2>5. /\ host[f][i] = k /\ m_socket[f] = k
        /\ \A j \in DOMAIN up'[k] : ~Starts(up'[k], i, j)
    BY <1>8
  <2>6. QED
    <3> HIDE DEF s
    <3>1. QED
      BY <1>1, <2>1, <2>2, <2>3, <2>4, <2>5, ToldReport
<1>9. QED
  BY <1>7, <1>8

\* A start, on a connection on which the process was never started.
LEMMA StartTold ==
    ASSUME Types, Owned, NEW f \in Factories, NEW i \in Ids, Told(f, i), start(f, i)
    PROVE  Told(f, i)'
<1>1. /\ m_socket[f] # None /\ seen[f][i] = "fresh" /\ host[f][i] # m_socket[f]
      /\ send(f, Message("start", i)) /\ host' = [host EXCEPT ![f][i] = m_socket[f]]
      /\ UNCHANGED <<m_socket, m_buffer, garbled, seen, down, stage>>
  BY DEF start, sockets, told, launcher, idle
<1>2. m_socket[f] \in Connections /\ host'[f][i] = m_socket[f]
  BY <1>1 DEF Types, SocketTypes
<1>3. Understood(f)' = Understood(f) /\ Arriving(f)' = Arriving(f)
  BY <1>1, ArrivesSame
<1>4. NeverStarted(m_socket[f], i) /\ Silent(Arriving(f), i)
  BY <1>1 DEF Told
<1> DEFINE c == Message("start", i)
           q == up[m_socket[f]]
           r == up'[m_socket[f]]
<1>5. c \in Commands
  BY CommandTypes
<1>6. q \in Seq(Commands)
  BY <1>2 DEF Types, QueueTypes
<1>7. r = Append(q, c)
  BY <1>1, <1>2, <1>5, SendEffect
<1>8. stage[m_socket[f]][i] = "fresh" /\ \A j \in DOMAIN q : ~Starts(q, i, j)
  BY <1>4 DEF NeverStarted
<1> HIDE DEF c, q, r
<1>9. \A j \in DOMAIN r : Starts(r, i, j) => j = Len(q) + 1
  BY <1>5, <1>6, <1>7, <1>8, StartsOfFirst
<1>10. StartedOnce(m_socket[f], i)'
  <2>1. \A j \in DOMAIN r : Starts(r, i, j) =>
           stage'[m_socket[f]][i] = "fresh" /\ \A h \in DOMAIN r : Starts(r, i, h) => h = j
    BY <1>1, <1>8, <1>9
  <2>2. QED
    BY <1>1, <2>1 DEF StartedOnce, r
<1>11. "fresh" \in LifeStages
  BY DEF LifeStages
<1>12. Path(Arriving(f), i, "fresh", "fresh")
  <2> DEFINE a == Arriving(f)
  <2>1. a \in Seq(Messages) /\ Silent(a, i)
    BY <1>4, ArrivingType
  <2> HIDE DEF a
  <2>2. Path(a, i, "fresh", "fresh")
    BY <1>11, <2>1, PathSilent
  <2>3. QED
    BY <2>2 DEF a
<1>13. m_socket[f] # None
  BY <1>1
<1>14. \E e \in LifeStages :
          /\ Path(Arriving(f)', i, seen'[f][i], e)
          /\ Understood(f)' /\ host'[f][i] = m_socket'[f] => e = stage'[m_socket'[f]][i]
  BY <1>1, <1>3, <1>8, <1>11, <1>12
<1>15. QED
  BY <1>1, <1>2, <1>10, <1>14 DEF Told, StartedOnce

\* The factory may only find out where it left off.
LEMMA NextTold ==
    ASSUME Types, Owned, \A k \in Connections : Unopened(k), NEW f \in Factories, NEW i \in Ids,
           Told(f, i), [Next]_vars
    PROVE  Told(f, i)'
<1>1. /\ m_socket \in [Factories -> Connections \cup {None}]
      /\ stage \in [Connections -> [Ids -> RestStages]]
      /\ host \in [Factories -> [Ids -> Connections \cup {None}]]
      /\ up \in [Connections -> Seq(Commands)]
      /\ down \in [Connections -> Seq(Messages)] /\ requested \in BOOLEAN
      /\ delegate \in BOOLEAN /\ clients \in SUBSET Connections
      /\ None \notin Factories \cup Connections
  BY SocketAssumption DEF Types, SocketTypes, QueueTypes, LauncherTypes
<1>2. CASE /\ m_socket[f] # None => /\ up'[m_socket[f]] = up[m_socket[f]]
                                    /\ stage'[m_socket[f]][i] = stage[m_socket[f]][i]
           /\ UNCHANGED <<m_socket[f], host[f][i], seen[f][i]>>
           /\ Understood(f)' = Understood(f) /\ Arriving(f)' = Arriving(f)
  BY <1>2, ToldSame DEF NeverStarted, StartedOnce
<1>3. ASSUME NEW g \in Factories, NEW k \in Connections, Connect(g, k) PROVE Told(f, i)'
  <2>1. /\ m_socket[g] = None /\ owner[k] = None /\ m_socket' = [m_socket EXCEPT ![g] = k]
        /\ up' = [up EXCEPT ![k] = <<Memory(m_memoryRestricted[g])>>]
        /\ UNCHANGED <<m_buffer, garbled, seen, down, stage, host>> /\ ~reading[g]
    BY <1>3 DEF Connect, connected, told, launcher, idle
  <2>2. Arriving(f)' = Arriving(f)
    BY <1>3, ArrivesConnect
  <2>3. CASE f # g
    <3>1. Understood(f)' = Understood(f) /\ m_socket'[f] = m_socket[f]
      BY <1>1, <1>3, <2>1, <2>3, ArrivesConnect
    <3>2. m_socket[f] # k
      BY <1>1, <2>1 DEF Owned
    <3>3. m_socket[f] # None => up'[m_socket[f]] = up[m_socket[f]]
      BY <1>1, <2>1, <3>2
    <3>4. QED
      BY <1>2, <2>1, <2>2, <3>1, <3>3
  <2>4. CASE f = g
    <3>1. m_socket'[f] = k /\ host[f][i] # k
      <4>1. m_socket'[f] = k
        BY <1>1, <2>1, <2>4
      <4>2. k # None /\ (host[f][i] # None => owner[host[f][i]] # None)
        BY <1>1 DEF Owned
      <4>3. QED
        BY <2>1, <4>1, <4>2
    <3>2. stage[k][i] = "fresh"
      BY <2>1 DEF Unopened
    <3> DEFINE c == Memory(m_memoryRestricted[g])
    <3>3. c.command = "memory" /\ up'[k] = <<c>>
      BY <1>1, <2>1, CommandTypes DEF Types, FactoryTypes
    <3> HIDE DEF c
    <3>4. \A j \in DOMAIN up'[k] : ~Starts(up'[k], i, j)
      BY <3>3 DEF Starts
    <3>5. Silent(Arriving(f)', i)
      <4>1. m_buffer[f] = <<>> /\ ~Understood(f)
        BY <2>1, <2>4 DEF Types, FactoryTypes, Understood
      <4>2. Arriving(f)' = <<>>
        BY <2>2, <4>1 DEF Arriving
      <4>3. QED
        BY <4>2 DEF Silent
    <3>6. NeverStarted(k, i)'
      BY <2>1, <3>2, <3>4 DEF NeverStarted
    <3>7. PICK e \in LifeStages : Path(Arriving(f), i, seen[f][i], e)
      BY DEF Told
    <3>8. Path(Arriving(f)', i, seen'[f][i], e)
      BY <2>1, <2>2, <3>7
    <3>9. host'[f][i] = None => seen'[f][i] = "fresh"
      BY <2>1 DEF Told
    <3>10. QED
      BY <2>1, <3>1, <3>5, <3>6, <3>8, <3>9 DEF Told, NeverStarted
  <2>5. QED
    BY <2>3, <2>4
<1>4. ASSUME NEW g \in Factories, Disconnect(g) PROVE Told(f, i)'
  <2>1. /\ m_socket[g] # None /\ m_socket' = [m_socket EXCEPT ![g] = None]
        /\ \E arrived \in Prefixes(up[m_socket[g]]) :
              up' = [up EXCEPT ![m_socket[g]] = arrived]
        /\ UNCHANGED <<seen, stage, host>>
    BY <1>4 DEF Disconnect, told, launcher, idle
  <2>2. CASE f # g
    <3>1. Understood(f)' = Understood(f) /\ Arriving(f)' = Arriving(f)
      BY <1>4, <2>2, ArrivesDisconnect
    <3>2. m_socket[f] # m_socket[g]
      BY <2>1, <2>2, OthersSockets
    <3>3. m_socket'[f] = m_socket[f] /\ (m_socket[f] # None => up'[m_socket[f]] = up[m_socket[f]])
      BY <1>1, <2>1, <2>2, <3>2
    <3>4. QED
      BY <1>2, <2>1, <3>1, <3>3
  <2>3. CASE f = g
    <3> DEFINE q == Arriving(f)
               r == Arriving(f)'
    <3>1. PICK t \in Seq(Messages) : q = r \o t
      BY <1>4, <2>3, ArrivesDisconnect
    <3>2. r \in Seq(Messages)
      BY <1>4, ArrivesDisconnect
    <3>3. PICK e \in LifeStages : Path(q, i, seen[f][i], e)
      BY DEF Told
    <3>4. host[f][i] = None => seen[f][i] = "fresh" /\ Silent(q, i)
      BY DEF Told
    <3> HIDE DEF q, r
    <3>5. \E z \in LifeStages : Path(r, i, seen[f][i], z)
      BY <3>1, <3>2, <3>3, PathPrefix
    <3>6. Silent(q, i) => Silent(r, i)
      <4>1. Silent(r \o t, i) <=> Silent(r, i) /\ Silent(t, i)
        BY <3>2, SilentConcat
      <4>2. QED
        BY <3>1, <4>1
    <3>7. m_socket'[f] = None /\ ~Understood(f)'
      BY <1>1, <2>1, <2>3 DEF Understood
    <3>8. QED
      BY <2>1, <3>4, <3>5, <3>6, <3>7 DEF Told, r
  <2>4. QED
    BY <2>2, <2>3
<1>5. ASSUME NEW g \in Factories, ReadyRead(g) PROVE Told(f, i)'
  <2>1. UNCHANGED <<m_socket, seen, up, stage, host>>
    BY <1>5 DEF ReadyRead, told, launcher, idle
  <2>2. Understood(f)' = Understood(f) /\ Arriving(f)' = Arriving(f)
    BY <1>5, ArrivesReadyRead
  <2>3. QED
    BY <1>2, <2>1, <2>2
<1>6. ASSUME NEW g \in Factories, receive(g) PROVE Told(f, i)'
  <2>1. UNCHANGED <<m_socket, up, stage, host>>
    BY <1>6 DEF receive, launcher, idle
  <2>2. Understood(f)' = Understood(f)
    BY <1>6, ArrivesReceive
  <2> DEFINE m == Head(m_buffer[g])
  <2>3. seen'[f][i] = IF f = g THEN Learnt(seen[f][i], m, i) ELSE seen[f][i]
    <3>1. m \in Messages
      BY <1>6, ArrivesReceive
    <3>2. \A d \in Factories, j \in Ids : seen'[d][j] =
             IF d = g THEN Learnt(seen[d][j], m, j) ELSE seen[d][j]
      BY <1>6, <3>1, ReceiveEffect
    <3>3. QED
      BY <3>2
  <2>4. CASE f # g
    <3>1. Arriving(f)' = Arriving(f)
      BY <1>6, <2>4, ArrivesReceive
    <3>2. seen'[f][i] = seen[f][i]
      BY <2>3, <2>4
    <3>3. QED
      BY <1>2, <2>1, <2>2, <3>1, <3>2
  <2>5. CASE f = g
    <3> DEFINE q == Arriving(f)
               r == Arriving(f)'
               x == seen[f][i]
               y == Learnt(x, m, i)
    <3>1. q \in Seq(Messages) /\ q # <<>> /\ Head(q) = m /\ r = Tail(q)
      BY <1>6, <2>5, ArrivesReceive, ArrivingType
    <3>2. PICK e \in LifeStages :
             /\ Path(q, i, x, e)
             /\ Understood(f) /\ host[f][i] = m_socket[f] => e = stage[m_socket[f]][i]
      BY DEF Told
    <3>3. host[f][i] = None => x = "fresh" /\ Silent(q, i)
      BY DEF Told
    <3>4. /\ m_socket[f] # None /\ host[f][i] # m_socket[f] =>
                NeverStarted(m_socket[f], i) /\ Silent(q, i)
          /\ m_socket[f] # None /\ host[f][i] = m_socket[f] => StartedOnce(m_socket[f], i)
      BY DEF Told
    <3>5. seen'[f][i] = y
      BY <2>3, <2>5
    <3> HIDE DEF q, r, m, x
    <3>6. Path(r, i, y, e)
      BY <3>1, <3>2, PathHead
    <3>7. Silent(q, i) => Silent(r, i) /\ y = x
      <4> SUFFICES ASSUME Silent(q, i) PROVE Silent(r, i) /\ y = x
        OBVIOUS
      <4>1. /\ Len(q) \in Nat \ {0} /\ DOMAIN q = 1 .. Len(q) /\ Head(q) = q[1]
        BY <3>1, LenProperties
      <4>2. ~Concerns(m, i)
        BY <3>1, <4>1 DEF Silent
      <4>3. /\ r \in Seq(Messages) /\ Len(r) = Len(q) - 1
            /\ \A k \in 1 .. Len(r) : r[k] = q[k + 1]
        BY <3>1, HeadTailProperties
      <4>4. DOMAIN r = 1 .. Len(r)
        BY <4>3, LenProperties
      <4> DEFINE n == Len(r)
      <4>5. n \in Nat /\ Len(q) = n + 1
        BY <4>1, <4>3
      <4> HIDE DEF n
      <4>6. \A k \in 1 .. n : k + 1 \in 1 .. Len(q)
        BY <4>5
      <4>7. Silent(r, i)
        BY <4>1, <4>3, <4>4, <4>6 DEF Silent, n
      <4>8. QED
        BY <4>2, <4>7 DEF Learnt
    <3> HIDE DEF y
    <3>8. host'[f][i] = None => seen'[f][i] = "fresh" /\ Silent(r, i)
      BY <2>1, <3>3, <3>5, <3>7
    <3>9. m_socket'[f] # None /\ host'[f][i] # m_socket'[f] =>
             NeverStarted(m_socket[f], i) /\ Silent(r, i)
      BY <2>1, <3>4, <3>7
    <3>10. NeverStarted(m_socket[f], i)' = NeverStarted(m_socket[f], i)
      BY <2>1 DEF NeverStarted
    <3>11. StartedOnce(m_socket[f], i)' = StartedOnce(m_socket[f], i)
      BY <2>1 DEF StartedOnce
    <3>12. /\ Path(r, i, seen'[f][i], e)
           /\ Understood(f)' /\ host'[f][i] = m_socket'[f] => e = stage'[m_socket'[f]][i]
      BY <2>1, <2>2, <3>2, <3>5, <3>6
    <3>13. QED
      BY <2>1, <3>4, <3>8, <3>9, <3>10, <3>11, <3>12 DEF Told, r
  <2>6. QED
    BY <2>4, <2>5
<1>7. ASSUME NEW g \in Factories, NEW c \in Commands, send(g, c),
             UNCHANGED <<sockets, told, owner, down, launcher, host[f][i]>>,
             ~(c.command = "start" /\ c.id = i) \/ f # g
      PROVE  Told(f, i)'
  <2>1. UNCHANGED <<m_socket, m_buffer, garbled, seen, stage>>
    BY <1>7 DEF sockets, told, launcher, idle
  <2>2. Understood(f)' = Understood(f) /\ Arriving(f)' = Arriving(f)
    BY <1>7, <2>1, ArrivesSame
  <2> SUFFICES ASSUME NEW k \in Connections, k = m_socket[f]
               PROVE  /\ NeverStarted(m_socket[f], i) => NeverStarted(m_socket[f], i)'
                      /\ StartedOnce(m_socket[f], i) => StartedOnce(m_socket[f], i)'
    BY <1>1, <1>7, <2>1, <2>2, ToldSame
  <2>3. up'[k] = up[k] \/ (up'[k] = Append(up[k], c) /\ f = g)
    <3>1. up'[k] = IF k = m_socket[g] THEN Append(up[k], c) ELSE up[k]
      BY <1>7, SendEffect
    <3>2. k = m_socket[g] => f = g
      BY <1>1 DEF Owned
    <3>3. QED
      BY <3>1, <3>2
  <2>4. stage'[k][i] = stage[k][i]
    BY <2>1
  <2>5. \/ up'[k] = up[k]
        \/ \E a \in Commands : ~(a.command = "start" /\ a.id = i) /\ up'[k] = Append(up[k], a)
    BY <1>7, <2>3
  <2>6. /\ NeverStarted(k, i) => NeverStarted(k, i)'
        /\ StartedOnce(k, i) => StartedOnce(k, i)'
    BY <2>4, <2>5, StartsKept
  <2>7. m_socket'[f] = k
    BY <2>1
  <2>8. QED
    BY <2>6, <2>7 DEF NeverStarted, StartedOnce
<1>8. ASSUME NEW g \in Factories, setMemoryRestricted(g) PROVE Told(f, i)'
  <2> DEFINE v == ~m_memoryRestricted[g]
             c == Memory(v)
  <2>1. v \in BOOLEAN
    OBVIOUS
  <2>2. c \in Commands /\ c.command = "memory"
    BY <2>1, CommandTypes
  <2>3. send(g, c) /\ UNCHANGED <<sockets, told, owner, down, launcher, host>>
    BY <1>8 DEF setMemoryRestricted
  <2> HIDE DEF c
  <2>4. QED
    BY <1>7, <2>2, <2>3
<1>9. ASSUME NEW g \in Factories, idleCpuAvailable(g) PROVE Told(f, i)'
  <2> DEFINE c == [command |-> "idlecpuavailable"]
  <2>1. c \in Commands /\ c.command = "idlecpuavailable"
    BY CommandTypes
  <2>2. send(g, c) /\ UNCHANGED <<sockets, told, owner, down, launcher, host>>
    BY <1>9 DEF idleCpuAvailable
  <2> HIDE DEF c
  <2>3. QED
    BY <1>7, <2>1, <2>2
<1>10. ASSUME NEW g \in Factories, NEW j \in Ids, start(g, j) PROVE Told(f, i)'
  <2>1. CASE f = g /\ i = j
    BY <1>10, <2>1, StartTold
  <2>2. CASE ~(f = g /\ i = j)
    <3> DEFINE c == Message("start", j)
    <3>1. c \in Commands /\ c.id = j
      BY CommandTypes
    <3>2. /\ send(g, c) /\ UNCHANGED <<sockets, told, owner, down, launcher>>
          /\ host' = [host EXCEPT ![g][j] = m_socket[g]]
      BY <1>10 DEF start
    <3>3. host'[f][i] = host[f][i]
      BY <1>1, <2>2, <3>2
    <3> HIDE DEF c
    <3>4. QED
      BY <1>7, <2>2, <3>1, <3>2, <3>3
  <2>3. QED
    BY <2>1, <2>2
<1>11. ASSUME NEW g \in Factories, NEW j \in Ids, stop(g, j) PROVE Told(f, i)'
  <2> DEFINE c == Message("stop", j)
  <2>1. c \in Commands /\ c.command = "stop"
    BY CommandTypes
  <2>2. send(g, c) /\ UNCHANGED <<sockets, told, owner, down, launcher, host>>
    BY <1>11 DEF stop
  <2> HIDE DEF c
  <2>3. QED
    BY <1>7, <2>1, <2>2
<1>12. ASSUME NEW k \in Connections, connectionAdded(k) PROVE Told(f, i)'
  <2> DEFINE s == Greeting
  <2>1. /\ down' = [down EXCEPT ![k] = Sent(k, s)]
        /\ UNCHANGED <<sockets, told, owner, up, stage, host>>
    BY <1>12 DEF connectionAdded
  <2>2. s \in Seq(Messages) /\ Silent(s, i) /\ {k} \in SUBSET Connections
    <3>1. <<Request(requested)>> \in Seq(Messages) /\ Silent(<<Request(requested)>>, i)
      BY <1>1, RequestType DEF Silent
    <3>2. <<>> \in Seq(Messages) /\ Silent(<<>>, i)
      BY DEF Silent
    <3>3. s \in {<<>>, <<Request(requested)>>}
      BY <1>1 DEF Greeting
    <3>4. QED
      BY <3>1, <3>2, <3>3
  <2> HIDE DEF s
  <2>3. down' = Spoken({k}, s)
    BY <2>1, <2>2, SpokenTo
  <2>4. QED
    BY <2>1, <2>2, <2>3, ToldOther
<1>13. ASSUME NEW k \in Connections, connectionRemoved(k) PROVE Told(f, i)'
  <2>1. /\ k \in clients /\ ~IsOpen(k) /\ stage' = [stage EXCEPT ![k] = Deleted(@)]
        /\ UNCHANGED <<sockets, told, owner, up, down, host>>
    BY <1>13 DEF connectionRemoved
  <2>2. m_socket[f] # k
    BY <1>1, <2>1 DEF IsOpen, Owned
  <2>3. m_socket[f] # None => stage'[m_socket[f]][i] = stage[m_socket[f]][i]
    BY <1>1, <2>1, <2>2
  <2>4. <<>> \in Seq(Messages) /\ Silent(<<>>, i) /\ {} \in SUBSET Connections
    BY DEF Silent
  <2>5. QED
    BY <2>1, <2>3, <2>4, ToldOther
<1>14. ASSUME NEW v \in BOOLEAN, UNCHANGED <<sockets, told, owner, host, stage>>,
              \A j \in Connections : \/ up'[j] = up[j]
                                     \/ up[j] # <<>> /\ up'[j] = Tail(up[j]),
              UNCHANGED down \/ down' = Spoken(clients, <<Request(v)>>)
       PROVE  Told(f, i)'
  <2> DEFINE s == <<Request(v)>>
  <2>1. s \in Seq(Messages) /\ Silent(s, i)
    BY RequestType DEF Silent
  <2>2. UNCHANGED down \/ down' = Spoken(clients, s)
    BY <1>14
  <2> HIDE DEF s
  <2>3. QED
    BY <1>1, <1>14, <2>1, <2>2, ToldOther
<1>15. ASSUME NEW k \in Connections, messageReceived(k) PROVE Told(f, i)'
  <2> DEFINE m == Head(up[k])
  <2>1. /\ UNCHANGED <<sockets, told, owner, host>> /\ m \in Commands
        /\ \A j \in Connections : up'[j] = IF j = k THEN Tail(up[k]) ELSE up[j]
        /\ up[k] # <<>> /\ up[k] \in Seq(Commands)
    BY <1>15, MessageTaken
  <2>2. \A j \in Connections : \/ up'[j] = up[j]
                               \/ up[j] # <<>> /\ up'[j] = Tail(up[j])
    BY <2>1
  <2>3. CASE UNCHANGED <<stage, down>>
    BY <1>14, <2>1, <2>2, <2>3
  <2>4. CASE UNCHANGED stage /\ Spread
    <3>1. PICK v \in BOOLEAN : UNCHANGED down \/ down' = Spoken(clients, <<Request(v)>>)
      BY <2>4 DEF Spread
    <3>2. QED
      BY <1>14, <2>1, <2>2, <2>4, <3>1
  <2>5. CASE m.command = "start" /\ m.id \in Ids /\ \E r \in P!StartReports : Report(k, m.id, r)
    <3>1. PICK r \in P!StartReports : Report(k, m.id, r)
      BY <2>5
    <3> DEFINE h == m.id
               q == up[k]
               t == up'[k]
    <3>2. h \in Ids /\ m.command = "start" /\ m = Head(q) /\ q # <<>> /\ q \in Seq(Commands)
      BY <2>1, <2>5
    <3>3. Report(k, h, r)
      BY <3>1
    <3>4. t = Tail(q)
      BY <2>1
    <3>5. /\ Starts(q, h, 1) /\ 1 \in DOMAIN q /\ DOMAIN t \subseteq Nat
          /\ \A j \in DOMAIN t : Starts(t, h, j) =>
                j + 1 \in DOMAIN q /\ j + 1 # 1 /\ Starts(q, h, j + 1)
      <4> HIDE DEF q, t
      <4>1. Starts(q, h, 1) /\ 1 \in DOMAIN q
        BY <3>2, StartsOfTail
      <4>2. /\ DOMAIN t \subseteq Nat
            /\ \A j \in DOMAIN t : Starts(t, h, j) =>
                  j + 1 \in DOMAIN q /\ j + 1 # 1 /\ Starts(q, h, j + 1)
        BY <3>2, <3>4, StartsOfTail
      <4>3. QED
        BY <4>1, <4>2
    <3> HIDE DEF m, h
    <3>6. r \in Seq(Signals) /\ P!Life!Reached(stage[k][h], r) \in {"starting", "up"}
      BY ReportStages
    <3>7. P!Life!Reached(stage[k][h], r) \in RestStages
      BY <3>6 DEF RestStages
    <3>8. ASSUME m_socket[f] = k, h = i
          PROVE  /\ host[f][i] = k
                 /\ Path(Events(i, r), i, stage[k][i], P!Life!Reached(stage[k][i], r))
                 /\ \A j \in DOMAIN t : ~Starts(t, i, j)
      <4>1. k # None
        BY <1>1
      <4>2. ~NeverStarted(k, i)
        BY <3>5, <3>8 DEF NeverStarted
      <4>3. host[f][i] = k
        BY <3>8, <4>1, <4>2 DEF Told
      <4>4. StartedOnce(k, i)
        BY <3>8, <4>1, <4>3 DEF Told
      <4>5. stage[k][i] = "fresh" /\ \A j \in DOMAIN q : Starts(q, i, j) => j = 1
        BY <3>5, <3>8, <4>4 DEF StartedOnce
      <4>6. \A j \in DOMAIN t : ~Starts(t, i, j)
        BY <3>5, <3>8, <4>5
      <4>7. Path(Events(i, r), i, "fresh", P!Life!Reached("fresh", r))
        BY ReportPaths
      <4>8. QED
        BY <4>3, <4>5, <4>6, <4>7
    <3>9. QED
      BY <2>1, <2>2, <3>2, <3>3, <3>6, <3>7, <3>8, ReportTold
  <2>6. QED
    <3> HIDE DEF m
    <3>1. \/ UNCHANGED <<stage, down>>
          \/ UNCHANGED stage /\ Spread
          \/ m.command = "start" /\ m.id \in Ids /\ \E r \in P!StartReports : Report(k, m.id, r)
      BY <1>15, MessageEffect DEF m
    <3>2. QED
      BY <2>3, <2>4, <2>5, <3>1
<1>16. ASSUME NEW k \in Connections, NEW h \in Ids, ProcessChanges(k, h) PROVE Told(f, i)'
  <2>1. PICK r \in P!Reports(stage[k][h]) \ {<<>>} : Report(k, h, r)
    BY <1>16 DEF ProcessChanges
  <2>2. UNCHANGED <<sockets, told, owner, host, up>>
    BY <1>16 DEF ProcessChanges
  <2>3. stage[k][h] \in RestStages
    BY <1>1
  <2>4. r \in Seq(Signals) /\ P!Life!Reached(stage[k][h], r) \in RestStages
    BY <2>3, ReportStages
  <2>5. Path(Events(h, r), h, stage[k][h], P!Life!Reached(stage[k][h], r))
    BY <2>3, ReportPaths
  <2>6. stage[k][h] # "fresh"
    <3>1. \/ r = <<>>
          \/ stage[k][h] = "starting" \/ stage[k][h] = "up"
      BY <2>3, ReportValues
    <3>2. QED
      BY <3>1
  <2>7. ASSUME m_socket[f] = k, h = i
        PROVE  /\ host[f][i] = k
               /\ Path(Events(i, r), i, stage[k][i], P!Life!Reached(stage[k][i], r))
               /\ \A j \in DOMAIN up'[k] : ~Starts(up'[k], i, j)
    <3>1. k # None /\ ~NeverStarted(k, i)
      BY <1>1, <2>6, <2>7 DEF NeverStarted
    <3>2. host[f][i] = k
      BY <2>7, <3>1 DEF Told
    <3>3. StartedOnce(k, i)
      BY <2>7, <3>1, <3>2 DEF Told
    <3>4. \A j \in DOMAIN up[k] : ~Starts(up[k], i, j)
      BY <2>6, <2>7, <3>3 DEF StartedOnce
    <3>5. QED
      BY <2>2, <2>5, <2>7, <3>2, <3>4
  <2>8. \A j \in Connections : up'[j] = up[j]
    BY <2>2
  <2>9. QED
    BY <2>1, <2>2, <2>4, <2>7, <2>8, ReportTold
<1>17. ASSUME FactoriesChange \/ setIdleDelegate PROVE Told(f, i)'
  <2>1. Spread /\ UNCHANGED <<sockets, told, owner, host>> /\ UNCHANGED <<up, stage>>
    BY <1>17, LauncherTalks
  <2>2. PICK v \in BOOLEAN : UNCHANGED down \/ down' = Spoken(clients, <<Request(v)>>)
    BY <2>1 DEF Spread
  <2>3. \A j \in Connections : up'[j] = up[j]
    BY <2>1
  <2>4. QED
    BY <1>14, <2>1, <2>2, <2>3
<1>18. CASE UNCHANGED vars
  <2>1. UNCHANGED <<m_socket, m_buffer, garbled, down, seen, up, stage, host>>
    BY <1>18 DEF vars, sockets, told, launcher, idle
  <2>2. Understood(f)' = Understood(f) /\ Arriving(f)' = Arriving(f)
    BY <2>1, ArrivesSame
  <2>3. QED
    BY <1>2, <2>1, <2>2
<1>19. CASE Next
  BY <1>3, <1>4, <1>5, <1>6, <1>8, <1>9, <1>10, <1>11, <1>12, <1>13, <1>15, <1>16, <1>17, <1>19
     DEF Next
<1>20. QED
  BY <1>18, <1>19

(***************************************************************************)
(* The invariant.                                                          *)
(***************************************************************************)

\* It holds at the beginning.
LEMMA InitInv == Init => IInv
<1> SUFFICES ASSUME Init PROVE IInv
  OBVIOUS
<1>1. Types
  BY InitTypes
<1>2. /\ \A f \in Factories : m_socket[f] = None /\ m_buffer[f] = <<>>
      /\ \A k \in Connections : /\ owner[k] = None /\ up[k] = <<>> /\ down[k] = <<>>
                                /\ \A i \in Ids : stage[k][i] = "fresh"
      /\ clients = {} /\ removed = {}
      /\ \A f \in Factories, i \in Ids : host[f][i] = None /\ seen[f][i] = "fresh"
  BY DEF Init, NewLauncher, Each
<1>3. \A f \in Factories : ~Understood(f)
  BY <1>2 DEF Understood
<1>4. Owned /\ (\A k \in Connections : Unopened(k)) /\ NoOrphans
  BY <1>2 DEF Owned, Unopened, NoOrphans
<1>5. (\A f \in Factories : IdleTold(f) /\ MemoryTold(f)) /\ MemoryHeard
  BY <1>2, <1>3 DEF IdleTold, MemoryTold, MemoryHeard
<1>6. ASSUME NEW f \in Factories, NEW i \in Ids PROVE Told(f, i)
  <2>1. Arriving(f) = <<>>
    BY <1>2, <1>3 DEF Arriving
  <2>2. <<>> \in Seq(Messages) /\ Silent(<<>>, i) /\ "fresh" \in LifeStages
    BY DEF Silent, LifeStages
  <2>3. Path(<<>>, i, "fresh", "fresh")
    BY <2>2, PathSilent
  <2>4. QED
    BY <1>2, <1>3, <2>1, <2>2, <2>3 DEF Told
<1>7. QED
  BY <1>1, <1>4, <1>5, <1>6 DEF IInv

\* Every step keeps it.
LEMMA NextInv == IInv /\ [Next]_vars => IInv'
<1> SUFFICES ASSUME IInv, [Next]_vars PROVE IInv'
  OBVIOUS
<1>1. /\ Types /\ Owned /\ (\A k \in Connections : Unopened(k)) /\ NoOrphans
      /\ \A f \in Factories : IdleTold(f) /\ MemoryTold(f)
      /\ MemoryHeard
      /\ \A f \in Factories, i \in Ids : Told(f, i)
  BY DEF IInv
<1>2. Types'
  <2>1. CASE UNCHANGED vars
    BY <1>1, <2>1 DEF vars, sockets, told, launcher, idle, Types, SocketTypes, QueueTypes,
                      FactoryTypes, ClientTypes, LauncherTypes
  <2>2. CASE Next
    BY <1>1, <2>2, FactoryStepTypes, LauncherStepTypes DEF Next
  <2>3. QED
    BY <2>1, <2>2
<1>3. Owned'
  BY <1>1, NextOwned
<1>4. \A k \in Connections : Unopened(k)'
  BY <1>1, NextUnopened
<1>5. NoOrphans'
  BY <1>1, NextNoOrphans
<1>6. \A f \in Factories : IdleTold(f)'
  BY <1>1, NextIdleTold
<1>7. \A f \in Factories : MemoryTold(f)'
  BY <1>1, NextMemoryTold
<1>8. MemoryHeard'
  BY <1>1, NextMemoryHeard
<1>9. \A f \in Factories, i \in Ids : Told(f, i)'
  BY <1>1, NextTold
<1>10. QED
  BY <1>2, <1>3, <1>4, <1>5, <1>6, <1>7, <1>8, <1>9 DEF IInv

\* The inductive invariant holds.
THEOREM Invariance == Spec => []IInv
<1>1. Init => IInv
  BY InitInv
<1>2. IInv /\ [Next]_vars => IInv'
  BY NextInv
<1>3. QED
  BY <1>1, <1>2, PTL DEF Spec

(***************************************************************************)
(* The properties.                                                         *)
(***************************************************************************)

\* Types.
LEMMA InvTypes == IInv => TypeOK
<1> SUFFICES ASSUME IInv PROVE TypeOK
  OBVIOUS
<1>1. Types
  BY DEF IInv
<1>2. Stages = LifeStages
  BY LifeNames DEF Stages
<1>3. RestStages \subseteq LifeStages
  BY DEF RestStages, LifeStages
<1>4. \A k \in Connections, i \in Ids : stage[k][i] \in Stages
  BY <1>1, <1>2, <1>3 DEF Types, LauncherTypes
<1>5. \A f \in Factories, i \in Ids : seen[f][i] \in Stages \cup {"broken"}
  BY <1>1, <1>2 DEF Types, ClientTypes
<1>6. QED
  BY <1>1, <1>4, <1>5 DEF TypeOK, Types, SocketTypes, FactoryTypes, ClientTypes, LauncherTypes

\* What is coming, as it is arriving.
LEMMA ComingTypes ==
    ASSUME IInv, NEW f \in Factories, Understood(f)
    PROVE  Coming(f) = Arriving(f) /\ Coming(f) \in Seq(Messages)
<1>1. Coming(f) = Arriving(f)
  BY DEF Arriving
<1>2. Arriving(f) \in Seq(Messages)
  BY ArrivingType DEF IInv
<1>3. QED
  BY <1>1, <1>2

\* The last news decides.
LEMMA InvIdleAgrees == IInv => IdleAgrees
<1> SUFFICES ASSUME IInv, NEW f \in Factories, Understood(f), m_socket[f] \in informed
             PROVE  requested = IF News(f) = {} THEN m_idleCpuRequest[f]
                                ELSE Coming(f)[Max(News(f))].value
  BY DEF IdleAgrees
<1> DEFINE q == Coming(f)
           N == News(f)
           n == Len(q)
<1>1. q \in Seq(Messages)
  BY ComingTypes
<1>2. /\ NoneOf(q, IdleNews) => requested = m_idleCpuRequest[f]
      /\ \A k \in DOMAIN q : IsLast(q, IdleNews, k) => q[k].value = requested
  BY ComingTypes DEF IInv, IdleTold
<1>3. N = {j \in DOMAIN q : q[j].event = "idlecpurequested"}
  BY DEF News
<1> HIDE DEF q, N
<1>4. n \in Nat /\ DOMAIN q = 1 .. n /\ \A j \in 1 .. n : q[j] \in Messages
  BY <1>1, LenProperties, ElementOfSeq
<1>5. \A j \in 1 .. n : q[j] \in IdleNews <=> j \in N
  BY <1>3, <1>4, MessageKinds
<1> HIDE DEF n
<1>6. CASE N = {}
  <2>1. NoneOf(q, IdleNews)
    BY <1>4, <1>5, <1>6 DEF NoneOf
  <2>2. QED
    BY <1>2, <1>6, <2>1 DEF N
<1>7. CASE N # {}
  <2>1. N \in SUBSET (1 .. n)
    BY <1>3, <1>4
  <2>2. Max(N) \in N /\ \A j \in N : j <= Max(N)
    BY <1>4, <1>7, <2>1, MaxFound
  <2> DEFINE m == Max(N)
  <2> HIDE DEF m
  <2>3. m \in N /\ \A j \in N : j <= m
    BY <2>2 DEF m
  <2>4. IsLast(q, IdleNews, m)
    BY <1>4, <1>5, <2>1, <2>3 DEF IsLast
  <2>5. q[m].value = requested
    BY <1>2, <1>4, <2>1, <2>3, <2>4
  <2>6. QED
    BY <1>7, <2>5 DEF m, N, q
<1>8. QED
  BY <1>6, <1>7

\* With nothing under way, the launcher has heard.
LEMMA InvRestrictionReached == IInv => RestrictionReached
<1> SUFFICES ASSUME IInv, NEW v \in BOOLEAN,
                    {f \in Factories : m_socket[f] # None} # {},
                    \A f \in {g \in Factories : m_socket[g] # None} : m_memoryRestricted[f] = v,
                    \A k \in Connections : owner[k] # None =>
                       k \in clients /\ IsOpen(k) /\ up[k] = <<>>
             PROVE  restricted = v
  BY DEF RestrictionReached
<1>1. PICK f \in Factories :
         /\ m_socket[f] # None
         /\ NoneOf(up[m_socket[f]], Memories) => restricted = m_memoryRestricted[f]
  BY DEF IInv, MemoryHeard
<1>2. m_socket[f] \in Connections /\ owner[m_socket[f]] = f /\ f # None
  BY <1>1, SocketAssumption DEF IInv, Types, SocketTypes, Owned
<1>3. up[m_socket[f]] = <<>>
  BY <1>2
<1>4. NoneOf(<<>>, Memories)
  BY DEF NoneOf
<1>5. QED
  BY <1>1, <1>3, <1>4

\* The last report decides.
LEMMA InvSeenIsReported == IInv => SeenIsReported
<1> SUFFICES ASSUME IInv, NEW f \in Factories, NEW i \in Ids,
                    Understood(f), host[f][i] = m_socket[f]
             PROVE  LET last == IF About(f, i) = {} THEN <<>>
                                ELSE <<Coming(f)[Max(About(f, i))].event>>
                    IN  Life(f, i)!Reached(seen[f][i], last) = stage[m_socket[f]][i]
  BY DEF SeenIsReported
<1> DEFINE q == Coming(f)
           A == About(f, i)
           g == seen[f][i]
           e == stage[m_socket[f]][i]
<1>1. q \in Seq(Messages)
  BY ComingTypes
<1>2. Path(q, i, g, e)
  <2>1. Told(f, i)
    BY DEF IInv
  <2>2. \E z \in LifeStages : Path(Arriving(f), i, g, z) /\ z = e
    BY <2>1 DEF Told
  <2>3. QED
    BY <2>2, ComingTypes
<1>3. e \in RestStages
  BY DEF IInv, Types, SocketTypes, LauncherTypes, Understood
<1>4. A = {j \in DOMAIN q : Concerns(q[j], i)}
  BY DEF About, News, Concerns
<1> HIDE DEF q, A, g, e
<1>5. P!Life!Reached(g, IF A = {} THEN <<>> ELSE <<q[Max(A)].event>>) = e
  BY <1>1, <1>2, <1>3, <1>4, PathReached
<1>6. Life(f, i)!Reached(g, IF A = {} THEN <<>> ELSE <<q[Max(A)].event>>) = e
  BY <1>5, LifeNames
<1>7. QED
  BY <1>6 DEF q, A, g, e

\* What the client has seen is on the way through a life cycle.
LEMMA InvOneLifecycle == IInv => OneLifecycle
<1> SUFFICES ASSUME IInv, NEW f \in Factories, NEW i \in Ids
             PROVE  /\ seen[f][i] # "broken"
                    /\ host[f][i] = None => seen[f][i] = "fresh"
  BY DEF OneLifecycle
<1>1. Told(f, i) /\ Arriving(f) \in Seq(Messages)
  BY ArrivingType DEF IInv
<1>2. host[f][i] = None => seen[f][i] = "fresh"
  BY <1>1 DEF Told
<1>3. PICK e \in LifeStages : Path(Arriving(f), i, seen[f][i], e)
  BY <1>1 DEF Told
<1> DEFINE q == Arriving(f)
           g == seen[f][i]
<1>4. q \in Seq(Messages) /\ Path(q, i, g, e)
  BY <1>1, <1>3
<1> HIDE DEF q, g
<1>5. g \in LifeStages
  BY <1>4, PathEnds
<1>6. g # "broken"
  BY <1>5 DEF LifeStages
<1>7. QED
  BY <1>2, <1>6 DEF g

\* Everything is of its type, and readyRead loops exactly while there is a message.
THEOREM TypeCorrect == Spec => []TypeOK
BY Invariance, InvTypes, PTL

\* A manager that leaves takes its processes along (qsocketlauncher.cpp:137): the launcher
\* runs no process of a connection that has no QLauncherClient.
THEOREM NoOrphansEver == Spec => []NoOrphans
<1>1. IInv => NoOrphans
  BY DEF IInv
<1>2. QED
  BY <1>1, Invariance, PTL

\* Whatever managers connect and leave, a connected factory knows, or is about to read,
\* whether the launcher wants idle CPU, unless a delegate keeps the launcher from saying so
\* (qsocketlauncher.cpp:121,159) or did so and was removed since; and while no connection
\* has ended, managers that agree about memory are heard.
THEOREM EndsAlwaysAgree == Spec => []EndsAgree
<1>1. IInv => EndsAgree
  BY InvIdleAgrees, InvRestrictionReached DEF EndsAgree
<1>2. QED
  BY <1>1, Invariance, PTL

\* Each client hears of its own process, one life cycle, and what the launcher has said of
\* it, though all managers number their processes alike.
THEOREM ClientsAlwaysHearTheirs == Spec => []ClientsHearTheirs
<1>1. IInv => ClientsHearTheirs
  BY InvTypes, InvSeenIsReported, InvOneLifecycle DEF ClientsHearTheirs
<1>2. QED
  BY <1>1, Invariance, PTL
=============================================================================
