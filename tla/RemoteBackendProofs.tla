------------------------ MODULE RemoteBackendProofs ------------------------
(***************************************************************************)
(* Proofs about RemoteBackend for every set of backends, every number of   *)
(* launchers, stops and changes of the memory restriction.                 *)
(***************************************************************************)
EXTENDS RemoteBackend, SequenceTheorems, TLAPS

(***************************************************************************)
(* Types.                                                                  *)
(***************************************************************************)

Signals == {"Starting", "Running", "NotRunning", "started", "finished",
            "FailedToStart", "Crashed"}

LifeStages == {"fresh", "starting", "running", "up", "crashed", "down", "over", "failing",
               "failed", "gone"}

\* Where a launcher leaves a process between two of its reports.
RestStages == {"fresh", "starting", "up", "over", "failed"}

Commands == [command : {"start", "stop"}, id : Ids] \cup [command : {"halt"}]

\* The states of a launcher's program.
Programs == [up : BOOLEAN, inbox : Seq(Commands), stage : [Ids -> RestStages],
             stopping : SUBSET Ids, out : [Ids -> Seq(Signals)]]

\* One of them, by its attributes.
Program(up, in, stage, stopping, out) ==
    [up |-> up, inbox |-> in, stage |-> stage, stopping |-> stopping, out |-> out]

Types ==
    /\ m_process \in Launchers \cup {None} /\ m_info \in BOOLEAN
    /\ m_memoryRestricted \in BOOLEAN /\ m_internalProcesses \in SUBSET Launchers
    /\ m_backendMap \in SUBSET created /\ created \in SUBSET Ids /\ asked \in SUBSET Ids
    /\ destroyed \in BOOLEAN /\ crashed \in BOOLEAN
    /\ qproc \in [Launchers -> {"unused", "Starting", "Running", "NotRunning"}]
    /\ told \in [Launchers -> BOOLEAN \cup {None}]
    /\ launcher \in [Launchers -> Programs]
    /\ m_state \in [Ids -> {"NotRunning", "Starting", "Running"}]
    /\ host \in [Ids -> Launchers \cup {None}]
    /\ seen \in [Ids -> LifeStages \cup {"broken"}]
    /\ stops \in 0..MaxStops /\ changes \in 0..MaxChanges
    /\ m_buffer \in Launchers \cup {None} /\ behind \in SUBSET Launchers

(***************************************************************************)
(* The inductive invariants.                                               *)
(***************************************************************************)

\* The launcher in use was started, and the manager knows it.
Known ==
    /\ m_process # None => qproc[m_process] # "unused"
    /\ RestrictionTold
    /\ LauncherListed

\* As long as the launcher in use is read from, m_buffer only holds what a former one left.
Buffered ==
    /\ m_process # None /\ m_buffer # None => m_process \in behind
    /\ \A l \in behind : qproc[l] # "unused"

\* Signals s lead a client from stage g to stage e.
Path(s, g, e) ==
    \E p \in [0 .. Len(s) -> LifeStages] :
       /\ p[0] = g /\ p[Len(s)] = e
       /\ \A k \in 1 .. Len(s) : p[k] = P!Life!After(p[k - 1], s[k])

\* What program n has written of i continues the client's view g, up to the stage
\* that was reported last unless some of it was lost.
Follows(n, i, g) == \E e \in LifeStages : /\ Path(n.out[i], g, e)
                                          /\ n.up => e = n.stage[i]

Starts(n, i, k) == /\ k \in DOMAIN n.inbox
                   /\ n.inbox[k].command = "start" /\ n.inbox[k].id = i

Clean(n, i) == n.stage[i] = "fresh" /\ n.out[i] = <<>>

\* Program n never heard of i, or it is to start it once, and has not done so yet.
Foreign(n, i) == Clean(n, i) /\ \A k \in DOMAIN n.inbox : ~Starts(n, i, k)
Once(n, i) == \A k \in DOMAIN n.inbox : Starts(n, i, k) => /\ Clean(n, i)
                                        /\ \A j \in DOMAIN n.inbox : Starts(n, i, j) => j = k

\* The start of i went to its host only, and only what the host reports of i is seen, all of
\* it unless the host writes behind a part of another launcher's message.
Hosted(i) ==
    /\ \A l \in Launchers :
          /\ host[i] # l => Foreign(launcher[l], i)
          /\ host[i] = l => Once(launcher[l], i) /\ qproc[l] # "unused"
    /\ i \notin created => host[i] = None /\ seen[i] = "fresh"
    /\ Works /\ i \in m_backendMap /\ host[i] = None => seen[i] = "fresh"
    /\ Works /\ i \in m_backendMap /\ host[i] # None /\ host[i] = m_process
             /\ m_process \notin behind =>
          Follows(launcher[m_process], i, seen[i])

IInv == Types /\ Known /\ Buffered /\ \A i \in Ids : Hosted(i)

\* The life cycles of all modules are the same.
LEMMA LifeNames ==
    /\ \A i : Life(i)!Stages = LifeStages /\ Life(i)!Signals = Signals
    /\ \A i, g, s : Life(i)!Reached(g, s) = P!Life!Reached(g, s)
    /\ \A i, g, s : Life(i)!After(g, s) = P!Life!After(g, s)
<1>1. \A i : Life(i)!Stages = LifeStages /\ Life(i)!Signals = Signals
  BY DEF Life!Stages, Life!Signals, LifeStages, Signals
<1>2. \A i, g, s : Life(i)!Reached(g, s) = P!Life!Reached(g, s)
  BY DEF P!Life!Reached, Life!Reached
<1>3. \A i, g, s : Life(i)!After(g, s) = P!Life!After(g, s)
  BY DEF P!Life!After, Life!After
<1>4. QED
  BY <1>1, <1>2, <1>3

\* After a signal a client is at a stage of the life cycle, or the cycle is broken.
LEMMA AfterType == \A i, g, s : Life(i)!After(g, s) \in LifeStages \cup {"broken"}
<1> SUFFICES ASSUME NEW i, NEW g, NEW s
             PROVE  Life(i)!After(g, s) \in LifeStages \cup {"broken"}
  OBVIOUS
<1>1. Life(i)!After(g, s) \in {"starting", "running", "up", "crashed", "down", "over", "failing",
                               "failed", "broken"}
  BY DEF Life!After
<1>2. QED
  BY <1>1 DEF LifeStages

(***************************************************************************)
(* What a launcher's program may do.                                       *)
(***************************************************************************)

\* Records are equal when their fields are.
LEMMA Fields ==
    /\ \A l \in Programs : l = Program(l.up, l.inbox, l.stage, l.stopping, l.out)
    /\ \A l \in Programs :
          \A x : [l EXCEPT !.inbox = x] = Program(l.up, x, l.stage, l.stopping, l.out)
    /\ \A l \in Programs :
          \A x : [l EXCEPT !.up = x] = Program(x, l.inbox, l.stage, l.stopping, l.out)
    /\ \A l \in Programs :
          \A x : [l EXCEPT !.stopping = x] = Program(l.up, l.inbox, l.stage, x, l.out)
    /\ \A l \in Programs :
          \A x : [l EXCEPT !.out = x] = Program(l.up, l.inbox, l.stage, l.stopping, x)
  BY DEF Programs, Program

\* The attributes of a launcher are the ones that it was built from.
LEMMA ProgramFields ==
    ASSUME NEW up, NEW in, NEW stage, NEW stopping, NEW out,
           NEW l, l = Program(up, in, stage, stopping, out)
    PROVE  /\ l.up = up /\ l.inbox = in /\ l.stage = stage /\ l.stopping = stopping
           /\ l.out = out
           /\ (up \in BOOLEAN /\ in \in Seq(Commands) /\ stage \in [Ids -> RestStages]
                 /\ stopping \in SUBSET Ids /\ out \in [Ids -> Seq(Signals)]) => l \in Programs
  BY DEF Program, Programs

\* A launcher that was just started, and one that is gone.
LEMMA FreshAndDead ==
    /\ P!Fresh \in Programs /\ Dead \in Programs
    /\ Dead.inbox = <<>> /\ ~Dead.up /\ P!Fresh.inbox = <<>>
    /\ Dead.stage = [i \in Ids |-> "fresh"] /\ Dead.out = [i \in Ids |-> <<>>]
    /\ P!Fresh.stage = [i \in Ids |-> "fresh"] /\ P!Fresh.out = [i \in Ids |-> <<>>]
<1> DEFINE f == P!Fresh
<1>1. f = Program(TRUE, <<>>, [i \in Ids |-> "fresh"], {}, [i \in Ids |-> <<>>])
  BY DEF P!Fresh, Program
<1>2. /\ <<>> \in Seq(Commands) /\ [i \in Ids |-> "fresh"] \in [Ids -> RestStages]
      /\ [i \in Ids |-> <<>>] \in [Ids -> Seq(Signals)]
  BY EmptySeq DEF RestStages
<1> HIDE DEF f
<1>3. /\ f \in Programs /\ f.inbox = <<>> /\ f.stopping = {}
      /\ f.stage = [i \in Ids |-> "fresh"] /\ f.out = [i \in Ids |-> <<>>]
  <2> DEFINE st == [i \in Ids |-> "fresh"]
             o == [i \in Ids |-> <<>>]
  <2>1. f = Program(TRUE, <<>>, st, {}, o)
    BY <1>1
  <2>2. st \in [Ids -> RestStages] /\ o \in [Ids -> Seq(Signals)] /\ <<>> \in Seq(Commands)
    BY <1>2
  <2> HIDE DEF st, o
  <2>3. f.up = TRUE /\ f.inbox = <<>> /\ f.stage = st /\ f.stopping = {} /\ f.out = o
    BY <2>1 DEF Program
  <2>4. f \in Programs
    BY <2>1, <2>2 DEF Program, Programs
  <2>5. QED
    BY <2>3, <2>4 DEF st, o
<1> DEFINE d == [f EXCEPT !.up = FALSE]
<1>4. d = Program(FALSE, <<>>, [i \in Ids |-> "fresh"], {}, [i \in Ids |-> <<>>])
  <2>1. d = Program(FALSE, f.inbox, f.stage, f.stopping, f.out)
    BY <1>3, Fields, Zenon
  <2>2. QED
    BY <1>3, <2>1, Zenon
<1> HIDE DEF d
<1>5. /\ d \in Programs /\ d.inbox = <<>> /\ ~d.up
      /\ d.stage = [i \in Ids |-> "fresh"] /\ d.out = [i \in Ids |-> <<>>]
  <2> DEFINE st == [i \in Ids |-> "fresh"]
             o == [i \in Ids |-> <<>>]
  <2>1. d = Program(FALSE, <<>>, st, {}, o)
    BY <1>4
  <2>2. st \in [Ids -> RestStages] /\ o \in [Ids -> Seq(Signals)] /\ <<>> \in Seq(Commands)
    BY <1>2
  <2> HIDE DEF st, o
  <2>3. d.up = FALSE /\ d.inbox = <<>> /\ d.stage = st /\ d.out = o
    BY <2>1 DEF Program
  <2>4. d \in Programs
    BY <2>1, <2>2 DEF Program, Programs
  <2>5. QED
    BY <2>3, <2>4 DEF st, o
<1>6. Dead = d
  BY Zenon DEF Dead, d, f
<1>7. QED
  BY <1>3, <1>5, <1>6 DEF f

\* The reports of one change, and the stage that they lead to.
LEMMA ReportValues ==
    /\ \A c \in P!StartReports :
          \/ c = <<"Starting">> /\ \A g : P!Life!Reached(g, c) = "starting"
          \/ c = <<"Starting", "Running", "started">> /\ \A g : P!Life!Reached(g, c) = "up"
    /\ \A g \in RestStages : \A c \in P!Reports(g) :
          \/ c = <<>> /\ P!Life!Reached(g, c) = g
          \/ /\ g = "starting" /\ c = <<"Running", "started">>
             /\ P!Life!Reached(g, c) = "up"
          \/ /\ g = "starting" /\ c = <<"NotRunning", "FailedToStart">>
             /\ P!Life!Reached(g, c) = "failed"
          \/ /\ g = "up" /\ c = <<"NotRunning", "finished">>
             /\ P!Life!Reached(g, c) = "over"
          \/ /\ g = "up" /\ c = <<"Crashed", "NotRunning", "finished">>
             /\ P!Life!Reached(g, c) = "over"
<1>1. \A g : /\ P!Life!Reached(g, <<"Starting">>) = "starting"
             /\ P!Life!Reached(g, <<"Starting", "Running", "started">>) = "up"
             /\ P!Life!Reached(g, <<"Running", "started">>) = "up"
             /\ P!Life!Reached(g, <<"NotRunning", "FailedToStart">>) = "failed"
             /\ P!Life!Reached(g, <<"NotRunning", "finished">>) = "over"
             /\ P!Life!Reached(g, <<"Crashed", "NotRunning", "finished">>) = "over"
             /\ P!Life!Reached(g, <<>>) = g
  <2> SUFFICES ASSUME NEW g
               PROVE  /\ P!Life!Reached(g, <<"Starting">>) = "starting"
                      /\ P!Life!Reached(g, <<"Starting", "Running", "started">>) = "up"
                      /\ P!Life!Reached(g, <<"Running", "started">>) = "up"
                      /\ P!Life!Reached(g, <<"NotRunning", "FailedToStart">>) = "failed"
                      /\ P!Life!Reached(g, <<"NotRunning", "finished">>) = "over"
                      /\ P!Life!Reached(g, <<"Crashed", "NotRunning", "finished">>) = "over"
                      /\ P!Life!Reached(g, <<>>) = g
    OBVIOUS
  <2>1. P!Life!Reached(g, <<"Starting">>) = "starting"
    BY DEF P!Life!Reached
  <2>2. P!Life!Reached(g, <<"Starting", "Running", "started">>) = "up"
    BY DEF P!Life!Reached
  <2>3. P!Life!Reached(g, <<"Running", "started">>) = "up"
    BY DEF P!Life!Reached
  <2>4. P!Life!Reached(g, <<"NotRunning", "FailedToStart">>) = "failed"
    BY DEF P!Life!Reached
  <2>5. P!Life!Reached(g, <<"NotRunning", "finished">>) = "over"
    BY DEF P!Life!Reached
  <2>6. P!Life!Reached(g, <<"Crashed", "NotRunning", "finished">>) = "over"
    BY DEF P!Life!Reached
  <2>7. P!Life!Reached(g, <<>>) = g
    BY DEF P!Life!Reached
  <2>8. QED
    BY <2>1, <2>2, <2>3, <2>4, <2>5, <2>6, <2>7
<1>2. \A c \in P!StartReports : c = <<"Starting">> \/ c = <<"Starting", "Running", "started">>
  BY DEF P!StartReports
<1>3. \A g \in RestStages : \A c \in P!Reports(g) :
         \/ c = <<>>
         \/ g = "starting" /\ c = <<"Running", "started">>
         \/ g = "starting" /\ c = <<"NotRunning", "FailedToStart">>
         \/ g = "up" /\ c = <<"NotRunning", "finished">>
         \/ g = "up" /\ c = <<"Crashed", "NotRunning", "finished">>
  BY DEF P!Reports, RestStages
<1>4. \A c \in P!StartReports :
         \/ c = <<"Starting">> /\ \A g : P!Life!Reached(g, c) = "starting"
         \/ c = <<"Starting", "Running", "started">> /\ \A g : P!Life!Reached(g, c) = "up"
  BY <1>1, <1>2, Zenon
<1>5. QED
  BY <1>1, <1>3, <1>4, Zenon

\* The stage that the reports of one change lead to.
LEMMA ReportStages ==
    /\ \A c \in P!StartReports : /\ c \in Seq(Signals)
                                 /\ \A g : P!Life!Reached(g, c) \in RestStages
    /\ \A g \in RestStages : \A c \in P!Reports(g) : /\ c \in Seq(Signals)
                                                     /\ P!Life!Reached(g, c) \in RestStages
<1>1. /\ <<"Starting">> \in Seq(Signals)
      /\ <<"Starting", "Running", "started">> \in Seq(Signals)
      /\ <<"Running", "started">> \in Seq(Signals)
      /\ <<"NotRunning", "FailedToStart">> \in Seq(Signals)
      /\ <<"NotRunning", "finished">> \in Seq(Signals)
      /\ <<"Crashed", "NotRunning", "finished">> \in Seq(Signals)
      /\ <<>> \in Seq(Signals)
  BY DEF Signals
<1>2. \A c \in P!StartReports : /\ c \in Seq(Signals)
                                /\ \A g : P!Life!Reached(g, c) \in RestStages
  BY <1>1, ReportValues DEF RestStages
<1>3. \A g \in RestStages : \A c \in P!Reports(g) : /\ c \in Seq(Signals)
                                                 /\ P!Life!Reached(g, c) \in RestStages
  BY <1>1, ReportValues DEF RestStages
<1>4. QED
  BY <1>2, <1>3

(***************************************************************************)
(* What one step of a launcher's program does.                             *)
(***************************************************************************)

\* Reports r of each process, added to what the program wrote before.
LEMMA ReportEffect ==
    ASSUME NEW l \in Programs, NEW r \in [Ids -> Seq(Signals)],
           \A i \in Ids : P!Life!Reached(l.stage[i], r[i]) \in RestStages,
           NEW n, n = P!report(l, r)
    PROVE  /\ n \in Programs /\ n.up = l.up /\ n.inbox = l.inbox
           /\ \A i \in Ids : /\ n.stage[i] = P!Life!Reached(l.stage[i], r[i])
                             /\ n.out[i] = l.out[i] \o r[i]
<1> DEFINE reached == [i \in Ids |-> P!Life!Reached(l.stage[i], r[i])]
           left == {i \in l.stopping : reached[i] = "up"}
           out == [i \in Ids |-> l.out[i] \o r[i]]
<1>1. reached \in [Ids -> RestStages]
  OBVIOUS
<1>2. left \in SUBSET Ids
  BY DEF Programs
<1>3. out \in [Ids -> Seq(Signals)]
  <2> SUFFICES ASSUME NEW i \in Ids PROVE l.out[i] \o r[i] \in Seq(Signals)
    OBVIOUS
  <2>1. l.out[i] \in Seq(Signals) /\ r[i] \in Seq(Signals)
    BY DEF Programs
  <2>2. QED
    BY <2>1, ConcatProperties
<1>4. n = [l EXCEPT !.stage = reached, !.stopping = left, !.out = out]
  BY Zenon DEF P!report
<1>5. /\ \A i \in Ids : reached[i] = P!Life!Reached(l.stage[i], r[i])
      /\ \A i \in Ids : out[i] = l.out[i] \o r[i]
  OBVIOUS
<1> HIDE DEF reached, left, out
<1>6. /\ n.up = l.up /\ n.inbox = l.inbox /\ n.stage = reached /\ n.stopping = left
      /\ n.out = out
  BY <1>4 DEF Programs
<1>7. n \in Programs
  BY <1>1, <1>2, <1>3, <1>4 DEF Programs
<1>8. QED
  BY <1>5, <1>6, <1>7

\* Program n is l after reports c of process i.
Adds(l, n, i, c) == /\ n.stage[i] = P!Life!Reached(l.stage[i], c)
                    /\ n.out[i] = l.out[i] \o c

\* The head of the inbox tells l to start i.
StartsNext(l, i) == /\ l.inbox # <<>>
                    /\ Head(l.inbox).command = "start" /\ Head(l.inbox).id = i

\* What a step from l to n may mean for process i.
Effect(l, n, i) ==
    \/ \E c \in P!Reports(l.stage[i]) : Adds(l, n, i, c)
    \/ /\ StartsNext(l, i) /\ n.inbox = Tail(l.inbox)
       /\ \E c \in P!StartReports : Adds(l, n, i, c)
    \/ ~n.up /\ n.stage[i] = l.stage[i] /\ n.out[i] \in P!Prefixes(l.out[i])

Effects(l, n) ==
    /\ n \in Programs /\ l.up
    /\ \/ n.inbox = l.inbox
       \/ l.inbox # <<>> /\ n.inbox = Tail(l.inbox)
    /\ \A i \in Ids : Effect(l, n, i)

\* A program that leaves its processes as they are.
LEMMA QuietEffect ==
    ASSUME NEW l \in Programs, NEW n \in Programs, n.stage = l.stage, n.out = l.out,
           NEW i \in Ids
    PROVE  Effect(l, n, i)
<1>1. <<>> \in P!Reports(l.stage[i])
  BY DEF P!Reports
<1>2. P!Life!Reached(l.stage[i], <<>>) = l.stage[i]
  BY DEF P!Life!Reached
<1>3. l.out[i] \o <<>> = l.out[i]
  BY ConcatEmptySeq DEF Programs
<1>4. Adds(l, n, i, <<>>)
  BY <1>2, <1>3 DEF Adds
<1>5. QED
  BY <1>1, <1>4 DEF Effect

\* A launcher that reports the signals of its processes.
LEMMA ReportedEffects ==
    ASSUME NEW l \in Programs, NEW n \in P!Reported(l)
    PROVE  Effects(l, n)
<1>1. l.up
  BY DEF P!Reported
<1>2. PICK r \in P!Selections([i \in Ids |-> P!Reports(l.stage[i])]) : n = P!report(l, r)
  BY <1>1, Zenon DEF P!Reported
<1>3. \A i \in Ids : l.stage[i] \in RestStages
  BY DEF Programs
<1>4. r \in [Ids -> UNION {P!Reports(l.stage[i]) : i \in Ids}]
      /\ \A i \in Ids : r[i] \in P!Reports(l.stage[i])
  BY <1>2 DEF P!Selections
<1>5. \A i \in Ids : /\ r[i] \in Seq(Signals)
                     /\ P!Life!Reached(l.stage[i], r[i]) \in RestStages
  BY <1>3, <1>4, ReportStages, Zenon
<1>6. r \in [Ids -> Seq(Signals)]
  BY <1>4, <1>5
<1>7. /\ n \in Programs /\ n.up = l.up /\ n.inbox = l.inbox
      /\ \A i \in Ids : Adds(l, n, i, r[i])
  BY <1>2, <1>5, <1>6, ReportEffect, Zenon DEF Adds
<1>8. ASSUME NEW i \in Ids PROVE Effect(l, n, i)
  BY <1>4, <1>7 DEF Effect
<1>9. \A i \in Ids : Effect(l, n, i)
  BY <1>8
<1>10. n \in Programs /\ l.up /\ n.inbox = l.inbox
  BY <1>1, <1>7
<1>11. QED
  BY <1>9, <1>10 DEF Effects

\* A launcher that ends.
LEMMA GoneEffects ==
    ASSUME NEW l \in Programs, NEW n \in P!Gone(l)
    PROVE  Effects(l, n)
<1>1. l.up
  BY DEF P!Gone
<1>2. PICK o \in P!Selections([i \in Ids |-> P!Prefixes(l.out[i])]) :
         n = [l EXCEPT !.up = FALSE, !.out = o]
  BY <1>1, Zenon DEF P!Gone
<1>3. /\ o \in [Ids -> UNION {P!Prefixes(l.out[i]) : i \in Ids}]
      /\ \A i \in Ids : o[i] \in P!Prefixes(l.out[i])
  BY <1>2 DEF P!Selections
<1>4. \A i \in Ids : l.out[i] \in Seq(Signals)
  BY DEF Programs
<1>5. ASSUME NEW s \in Seq(Signals), NEW p \in P!Prefixes(s)
      PROVE  p \in Seq(Signals)
  <2>1. PICK m \in 0 .. Len(s) : p = SubSeq(s, 1, m)
    BY DEF P!Prefixes
  <2>2. \A k \in 1 .. m : s[k] \in Signals
    BY <2>1, ElementOfSeq, LenProperties
  <2>3. QED
    BY <2>1, <2>2, SubSeqProperties
<1>6. o \in [Ids -> Seq(Signals)]
  BY <1>3, <1>4, <1>5
<1>7. /\ n \in Programs /\ n.up = FALSE /\ n.inbox = l.inbox /\ n.stage = l.stage
      /\ n.out = o
  BY <1>2, <1>6 DEF Programs
<1>8. ASSUME NEW i \in Ids PROVE Effect(l, n, i)
  BY <1>3, <1>7 DEF Effect
<1>9. \A i \in Ids : Effect(l, n, i)
  BY <1>8
<1>10. n \in Programs /\ l.up /\ n.inbox = l.inbox
  BY <1>1, <1>7
<1>11. QED
  BY <1>9, <1>10 DEF Effects

\* A launcher that takes the first message of its inbox.
LEMMA TakenEffects ==
    ASSUME NEW l \in Programs, NEW n \in P!Taken(l)
    PROVE  Effects(l, n)
<1> DEFINE m == Head(l.inbox)
           rest == [l EXCEPT !.inbox = Tail(l.inbox)]
           starts == {P!report(rest, [i \in Ids |-> IF i = m.id THEN c ELSE <<>>]) :
                         c \in P!StartReports}
<1>1. l.up /\ l.inbox # <<>>
  BY Zenon DEF P!Taken
<1>2. m \in Commands /\ Tail(l.inbox) \in Seq(Commands)
  BY <1>1, HeadTailProperties DEF Programs
<1>3. /\ rest \in Programs /\ rest.up = l.up /\ rest.inbox = Tail(l.inbox)
      /\ rest.stage = l.stage /\ rest.out = l.out /\ rest.stopping = l.stopping
  BY <1>2 DEF Programs
<1>4. "start" # "stop" /\ "start" # "halt" /\ "stop" # "halt"
  OBVIOUS
<1>5. \/ m.command = "start" /\ n \in starts
      \/ m.command = "stop" /\ n = [rest EXCEPT !.stopping = @ \cup {m.id}]
      \/ m.command = "halt" /\ n = [rest EXCEPT !.up = FALSE]
      \/ n = rest
  BY <1>1, <1>4, Zenon DEF P!Taken
<1>6. m.command \in {"start", "stop"} => m.id \in Ids
  BY <1>2 DEF Commands
<1> HIDE DEF rest
<1>7. ASSUME n \in Programs, n.inbox = Tail(l.inbox), n.stage = l.stage, n.out = l.out
      PROVE  Effects(l, n)
  BY <1>1, <1>7, QuietEffect DEF Effects
<1>8. CASE m.command = "stop" /\ n = [rest EXCEPT !.stopping = @ \cup {m.id}]
  BY <1>3, <1>6, <1>7, <1>8 DEF Programs
<1>9. CASE m.command = "halt" /\ n = [rest EXCEPT !.up = FALSE]
  BY <1>3, <1>7, <1>9 DEF Programs
<1>10. CASE n = rest
  BY <1>3, <1>7, <1>10
<1>11. CASE m.command = "start" /\ n \in starts
  <2>1. PICK c \in P!StartReports :
           n = P!report(rest, [i \in Ids |-> IF i = m.id THEN c ELSE <<>>])
    BY <1>11
  <2> DEFINE r == [i \in Ids |-> IF i = m.id THEN c ELSE <<>>]
  <2>2. c \in Seq(Signals) /\ \A g : P!Life!Reached(g, c) \in RestStages
    BY ReportStages, Zenon
  <2>3. \A g : P!Life!Reached(g, <<>>) = g
    BY DEF P!Life!Reached
  <2>4. \A i \in Ids : r[i] = IF i = m.id THEN c ELSE <<>>
    OBVIOUS
  <2>5. r \in [Ids -> Seq(Signals)]
    BY <2>2, EmptySeq
  <2>6. \A i \in Ids : rest.stage[i] \in RestStages
    BY <1>3 DEF Programs
  <2> HIDE DEF r
  <2>7. \A i \in Ids : P!Life!Reached(rest.stage[i], r[i]) \in RestStages
    <3> SUFFICES ASSUME NEW i \in Ids
                 PROVE  P!Life!Reached(rest.stage[i], r[i]) \in RestStages
      OBVIOUS
    <3>1. CASE i = m.id
      BY <2>2, <2>4, <3>1, Zenon
    <3>2. CASE i # m.id
      BY <2>3, <2>4, <2>6, <3>2, Zenon
    <3>3. QED
      BY <3>1, <3>2
  <2>8. n = P!report(rest, r)
    BY <2>1 DEF r
  <2>9. /\ n \in Programs /\ n.up = rest.up /\ n.inbox = rest.inbox
        /\ \A i \in Ids : Adds(rest, n, i, r[i])
    BY <1>3, <2>5, <2>7, <2>8, ReportEffect, Zenon DEF Adds
  <2>10. ASSUME NEW i \in Ids PROVE Effect(l, n, i)
    <3>1. Adds(l, n, i, r[i])
      BY <1>3, <2>9 DEF Adds
    <3>2. CASE i = m.id
      <4>1. StartsNext(l, i)
        BY <1>1, <1>11, <3>2 DEF StartsNext
      <4>2. QED
        BY <1>3, <2>1, <2>4, <2>9, <3>1, <3>2, <4>1 DEF Effect
    <3>3. CASE i # m.id
      <4>1. <<>> \in P!Reports(l.stage[i])
        BY DEF P!Reports
      <4>2. QED
        BY <2>4, <3>1, <3>3, <4>1 DEF Effect
    <3>4. QED
      BY <3>2, <3>3
  <2>11. QED
    BY <1>1, <1>3, <2>9, <2>10 DEF Effects
<1>12. QED
  BY <1>5, <1>8, <1>9, <1>10, <1>11

\* Every step of a launcher's program.
LEMMA StepEffects ==
    ASSUME NEW l \in Programs,
           NEW n \in P!Taken(l) \cup P!Reported(l) \cup P!Gone(l)
    PROVE  Effects(l, n)
  BY TakenEffects, ReportedEffects, GoneEffects

(***************************************************************************)
(* Paths of the life cycle.                                                *)
(***************************************************************************)

\* No signal leads nowhere.
LEMMA PathEmpty == \A g \in LifeStages : Path(<<>>, g, g)
<1> SUFFICES ASSUME NEW g \in LifeStages PROVE Path(<<>>, g, g)
  OBVIOUS
<1> DEFINE p == [k \in 0 .. 0 |-> g]
<1>1. Len(<<>>) = 0
  BY EmptySeq
<1>2. p \in [0 .. 0 -> LifeStages] /\ p[0] = g
  OBVIOUS
<1> HIDE DEF p
<1>3. QED
  BY <1>1, <1>2 DEF Path

\* The reports of one change, signal after signal.
LEMMA PathOfOne ==
    \A x \in Signals : \A g, a \in LifeStages :
       a = P!Life!After(g, x)
          => Path(<<x>>, g, a)
<1> SUFFICES ASSUME NEW x \in Signals,
                    NEW g \in LifeStages, NEW a \in LifeStages,
                    a = P!Life!After(g, x)
             PROVE  Path(<<x>>, g, a)
  OBVIOUS
<1> DEFINE p == [k \in 0 .. 1 |-> IF k = 0 THEN g ELSE a]
           s == <<x>>
<1>1. p \in [0 .. 1 -> LifeStages] /\ p[0] = g /\ p[1] = a
  OBVIOUS
<1>2. Len(s) = 1 /\ s[1] = x
  OBVIOUS
<1> HIDE DEF p, s
<1>3. p[1] = P!Life!After(p[1 - 1], s[1])
  BY <1>1, <1>2
<1>4. \A k \in 1 .. 1 : p[k] = P!Life!After(p[k - 1], s[k])
  BY <1>3
<1>5. Path(s, g, a)
  BY <1>1, <1>2, <1>4 DEF Path
<1>6. QED
  BY <1>5 DEF s

\* Two signals.
LEMMA PathOfTwo ==
    \A x, y \in Signals : \A g, a, b \in LifeStages :
       a = P!Life!After(g, x) /\ b = P!Life!After(a, y)
          => Path(<<x, y>>, g, b)
<1> SUFFICES ASSUME NEW x \in Signals, NEW y \in Signals,
                    NEW g \in LifeStages, NEW a \in LifeStages, NEW b \in LifeStages,
                    a = P!Life!After(g, x) /\ b = P!Life!After(a, y)
             PROVE  Path(<<x, y>>, g, b)
  OBVIOUS
<1> DEFINE p == [k \in 0 .. 2 |-> IF k = 0 THEN g ELSE IF k = 1 THEN a ELSE b]
           s == <<x, y>>
<1>1. p \in [0 .. 2 -> LifeStages] /\ p[0] = g /\ p[1] = a /\ p[2] = b
  OBVIOUS
<1>2. Len(s) = 2 /\ s[1] = x /\ s[2] = y
  OBVIOUS
<1> HIDE DEF p, s
<1>3. p[1] = P!Life!After(p[1 - 1], s[1])
  BY <1>1, <1>2
<1>4. p[2] = P!Life!After(p[2 - 1], s[2])
  BY <1>1, <1>2
<1>5. \A k \in 1 .. 2 : p[k] = P!Life!After(p[k - 1], s[k])
  BY <1>3, <1>4
<1>6. Path(s, g, b)
  BY <1>1, <1>2, <1>5 DEF Path
<1>7. QED
  BY <1>6 DEF s

\* Three signals.
LEMMA PathOfThree ==
    \A x, y, z \in Signals : \A g, a, b, c \in LifeStages :
       a = P!Life!After(g, x) /\ b = P!Life!After(a, y) /\ c = P!Life!After(b, z)
          => Path(<<x, y, z>>, g, c)
<1> SUFFICES ASSUME NEW x \in Signals, NEW y \in Signals, NEW z \in Signals,
                    NEW g \in LifeStages, NEW a \in LifeStages,
                    NEW b \in LifeStages, NEW c \in LifeStages,
                    a = P!Life!After(g, x) /\ b = P!Life!After(a, y) /\ c = P!Life!After(b, z)
             PROVE  Path(<<x, y, z>>, g, c)
  OBVIOUS
<1> DEFINE p == [k \in 0 .. 3 |-> IF k = 0 THEN g ELSE IF k = 1 THEN a ELSE IF k = 2 THEN b ELSE c]
           s == <<x, y, z>>
<1>1. p \in [0 .. 3 -> LifeStages] /\ p[0] = g /\ p[1] = a /\ p[2] = b /\ p[3] = c
  OBVIOUS
<1>2. Len(s) = 3 /\ s[1] = x /\ s[2] = y /\ s[3] = z
  OBVIOUS
<1> HIDE DEF p, s
<1>3. p[1] = P!Life!After(p[1 - 1], s[1])
  BY <1>1, <1>2
<1>4. p[2] = P!Life!After(p[2 - 1], s[2])
  BY <1>1, <1>2
<1>5. p[3] = P!Life!After(p[3 - 1], s[3])
  BY <1>1, <1>2
<1>6. \A k \in 1 .. 3 : p[k] = P!Life!After(p[k - 1], s[k])
  BY <1>3, <1>4, <1>5
<1>7. Path(s, g, c)
  BY <1>1, <1>2, <1>6 DEF Path
<1>8. QED
  BY <1>7 DEF s

\* What is reported of a process at stage g goes on from there.
LEMMA ReportPaths ==
    /\ \A c \in P!StartReports : Path(c, "fresh", P!Life!Reached("fresh", c))
    /\ \A g \in RestStages : \A c \in P!Reports(g) : Path(c, g, P!Life!Reached(g, c))
<1>1. /\ "starting" = P!Life!After("fresh", "Starting")
      /\ "running" = P!Life!After("starting", "Running")
      /\ "up" = P!Life!After("running", "started")
      /\ "failing" = P!Life!After("starting", "NotRunning")
      /\ "failed" = P!Life!After("failing", "FailedToStart")
      /\ "down" = P!Life!After("up", "NotRunning")
      /\ "crashed" = P!Life!After("up", "Crashed")
      /\ "down" = P!Life!After("crashed", "NotRunning")
      /\ "over" = P!Life!After("down", "finished")
  BY DEF P!Life!After
<1>2. /\ "fresh" \in LifeStages /\ "starting" \in LifeStages /\ "running" \in LifeStages
      /\ "up" \in LifeStages /\ "failing" \in LifeStages /\ "failed" \in LifeStages
      /\ "down" \in LifeStages /\ "crashed" \in LifeStages /\ "over" \in LifeStages
      /\ "Starting" \in Signals /\ "Running" \in Signals /\ "started" \in Signals
      /\ "NotRunning" \in Signals /\ "FailedToStart" \in Signals /\ "Crashed" \in Signals
      /\ "finished" \in Signals
  BY DEF Signals, LifeStages
<1>3. Path(<<"Starting">>, "fresh", "starting")
  BY <1>1, <1>2, PathOfOne, Zenon
<1>4. Path(<<"Starting", "Running", "started">>, "fresh", "up")
  BY <1>1, <1>2, PathOfThree, Zenon
<1>5. Path(<<"Running", "started">>, "starting", "up")
  BY <1>1, <1>2, PathOfTwo, Zenon
<1>6. Path(<<"NotRunning", "FailedToStart">>, "starting", "failed")
  BY <1>1, <1>2, PathOfTwo, Zenon
<1>7. Path(<<"NotRunning", "finished">>, "up", "over")
  BY <1>1, <1>2, PathOfTwo, Zenon
<1>8. Path(<<"Crashed", "NotRunning", "finished">>, "up", "over")
  BY <1>1, <1>2, PathOfThree, Zenon
<1>9. \A g \in RestStages : Path(<<>>, g, g)
  BY PathEmpty DEF RestStages, LifeStages
<1>10. QED
  BY <1>3, <1>4, <1>5, <1>6, <1>7, <1>8, <1>9, ReportValues, Zenon

\* Paths add up.
LEMMA PathConcat ==
    ASSUME NEW s \in Seq(Signals), NEW t \in Seq(Signals), NEW g, NEW e, NEW f,
           Path(s, g, e), Path(t, e, f)
    PROVE  Path(s \o t, g, f)
<1>1. PICK p \in [0 .. Len(s) -> LifeStages] :
         /\ p[0] = g /\ p[Len(s)] = e
         /\ \A k \in 1 .. Len(s) : p[k] = P!Life!After(p[k - 1], s[k])
  BY DEF Path
<1>2. PICK q \in [0 .. Len(t) -> LifeStages] :
         /\ q[0] = e /\ q[Len(t)] = f
         /\ \A k \in 1 .. Len(t) : q[k] = P!Life!After(q[k - 1], t[k])
  BY DEF Path
<1>3. /\ Len(s) \in Nat /\ Len(t) \in Nat /\ s \o t \in Seq(Signals)
      /\ Len(s \o t) = Len(s) + Len(t)
      /\ \A k \in 1 .. Len(s) + Len(t) :
            (s \o t)[k] = IF k <= Len(s) THEN s[k] ELSE t[k - Len(s)]
  BY ConcatProperties, LenProperties
<1> DEFINE u == s \o t
           m == Len(s)
           n == Len(t)
           r == [k \in 0 .. m + n |-> IF k <= m THEN p[k] ELSE q[k - m]]
<1> HIDE DEF u, m, n
<1>4. /\ m \in Nat /\ n \in Nat /\ Len(u) = m + n
      /\ p \in [0 .. m -> LifeStages] /\ q \in [0 .. n -> LifeStages]
      /\ \A k \in 1 .. m + n : u[k] = IF k <= m THEN s[k] ELSE t[k - m]
  BY <1>3 DEF m, n, u
<1>5. r \in [0 .. m + n -> LifeStages]
  BY <1>4
<1>6. \A k \in 0 .. m + n : r[k] = IF k <= m THEN p[k] ELSE q[k - m]
  OBVIOUS
<1> HIDE DEF r
<1>7. p[m] = q[0]
  BY <1>1, <1>2 DEF m
<1>8. r[0] = g /\ r[m + n] = f
  <2>1. r[0] = g
    BY <1>1, <1>4, <1>6
  <2>2. q[n] = f
    BY <1>2 DEF n
  <2>3. ASSUME NEW k, k = m + n PROVE r[k] = f
    <3>1. k \in 0 .. m + n /\ k - m = n /\ (k <= m <=> n = 0) /\ (n = 0 => k = m)
      BY <1>4, <2>3
    <3>2. r[k] = IF k <= m THEN p[k] ELSE q[k - m]
      BY <1>6, <3>1
    <3>3. QED
      BY <1>7, <2>2, <3>1, <3>2
  <2>4. QED
    BY <2>1, <2>3
<1>9. ASSUME NEW k \in 1 .. m + n
      PROVE  r[k] = P!Life!After(r[k - 1], u[k])
  <2>1. CASE k <= m
    <3>1. p[k] = P!Life!After(p[k - 1], s[k])
      BY <1>1, <1>4, <2>1 DEF m
    <3>2. r[k] = p[k] /\ r[k - 1] = p[k - 1] /\ u[k] = s[k]
      BY <1>4, <1>6, <2>1
    <3>3. QED
      BY <3>1, <3>2
  <2>2. CASE k > m
    <3>1. k - m \in 1 .. n
      BY <1>4, <2>2
    <3>2. q[k - m] = P!Life!After(q[k - m - 1], t[k - m])
      BY <1>2, <3>1 DEF n
    <3>3. r[k] = q[k - m] /\ u[k] = t[k - m]
      BY <1>4, <1>6, <2>2
    <3>4. r[k - 1] = q[k - m - 1]
      <4>1. CASE k = m + 1
        BY <1>4, <1>6, <1>7, <4>1
      <4>2. CASE k > m + 1
        BY <1>4, <1>6, <4>2
      <4>3. QED
        BY <1>4, <2>2, <4>1, <4>2
    <3>5. QED
      BY <3>2, <3>3, <3>4
  <2>3. QED
    BY <1>4, <2>1, <2>2
<1>10. Path(u, g, f)
  BY <1>4, <1>5, <1>8, <1>9 DEF Path
<1>11. QED
  BY <1>10 DEF u

\* The first signal of a path belongs to the life cycle, and the others go on.
LEMMA PathHead ==
    ASSUME NEW s \in Seq(Signals), s # <<>>, NEW g, NEW e, Path(s, g, e)
    PROVE  /\ P!Life!After(g, Head(s)) \in LifeStages
           /\ Path(Tail(s), P!Life!After(g, Head(s)), e)
<1>1. PICK p \in [0 .. Len(s) -> LifeStages] :
         /\ p[0] = g /\ p[Len(s)] = e
         /\ \A k \in 1 .. Len(s) : p[k] = P!Life!After(p[k - 1], s[k])
  BY DEF Path
<1> DEFINE t == Tail(s)
           n == Len(t)
           q == [k \in 0 .. n |-> p[k + 1]]
<1>2. Len(s) \in Nat \ {0} /\ Head(s) = s[1]
  BY EmptySeq
<1>3. n \in Nat /\ Len(s) = n + 1 /\ \A k \in 1 .. n : t[k] = s[k + 1]
  BY <1>2, HeadTailProperties
<1> HIDE DEF t, n
<1>4. p[1] = P!Life!After(g, Head(s)) /\ p[1] \in LifeStages
  <2>1. p[1] = P!Life!After(p[1 - 1], s[1])
    BY <1>1, <1>2
  <2>2. p[1 - 1] = g
    BY <1>1
  <2>3. QED
    BY <1>2, <2>1, <2>2
<1>5. q \in [0 .. n -> LifeStages] /\ \A k \in 0 .. n : q[k] = p[k + 1]
  BY <1>3
<1> HIDE DEF q
<1>6. q[0] = p[1] /\ q[n] = e
  BY <1>1, <1>3, <1>5
<1>7. \A k \in 1 .. n : q[k] = P!Life!After(q[k - 1], t[k])
  <2> SUFFICES ASSUME NEW k \in 1 .. n PROVE q[k] = P!Life!After(q[k - 1], t[k])
    OBVIOUS
  <2>1. p[k + 1] = P!Life!After(p[k + 1 - 1], s[k + 1])
    BY <1>1, <1>3
  <2>2. q[k] = p[k + 1] /\ q[k - 1] = p[k + 1 - 1] /\ t[k] = s[k + 1]
    BY <1>3, <1>5
  <2>3. QED
    BY <2>1, <2>2
<1>8. Path(t, p[1], e)
  BY <1>5, <1>6, <1>7 DEF Path, n
<1>9. QED
  BY <1>4, <1>8 DEF t

\* When the end of what was written is lost, the rest still is a path.
LEMMA PathPrefix ==
    ASSUME NEW s \in Seq(Signals), NEW g, NEW e, Path(s, g, e),
           NEW r \in P!Prefixes(s)
    PROVE  \E f \in LifeStages : Path(r, g, f)
<1>1. PICK p \in [0 .. Len(s) -> LifeStages] :
         /\ p[0] = g /\ p[Len(s)] = e
         /\ \A k \in 1 .. Len(s) : p[k] = P!Life!After(p[k - 1], s[k])
  BY DEF Path
<1>2. PICK m \in 0 .. Len(s) : r = SubSeq(s, 1, m)
  BY DEF P!Prefixes
<1>3. \A k \in 1 .. m : s[k] \in Signals
  BY <1>2, ElementOfSeq, LenProperties
<1>4. Len(s) \in Nat
  BY LenProperties
<1>5. Len(r) = m /\ \A k \in 1 .. m : r[k] = s[k]
  BY <1>2, <1>3, <1>4, SubSeqProperties
<1> DEFINE q == [k \in 0 .. m |-> p[k]]
<1>6. q \in [0 .. m -> LifeStages] /\ \A k \in 0 .. m : q[k] = p[k]
  BY <1>4
<1> HIDE DEF q
<1>7. q[0] = g /\ q[m] \in LifeStages
  BY <1>1, <1>4, <1>6
<1>8. \A k \in 1 .. m : q[k] = P!Life!After(q[k - 1], r[k])
  <2> SUFFICES ASSUME NEW k \in 1 .. m PROVE q[k] = P!Life!After(q[k - 1], r[k])
    OBVIOUS
  <2>1. p[k] = P!Life!After(p[k - 1], s[k])
    BY <1>1, <1>4
  <2>2. q[k] = p[k] /\ q[k - 1] = p[k - 1] /\ r[k] = s[k]
    BY <1>4, <1>5, <1>6
  <2>3. QED
    BY <2>1, <2>2
<1>9. Path(r, g, q[m])
  BY <1>5, <1>6, <1>7, <1>8 DEF Path
<1>10. QED
  BY <1>7, <1>9

\* Reached gives the end of a path, where a launcher leaves a process.
LEMMA PathReached ==
    ASSUME NEW s \in Seq(Signals), NEW g, NEW e \in RestStages, Path(s, g, e)
    PROVE  P!Life!Reached(g, s) = e
<1>1. PICK p \in [0 .. Len(s) -> LifeStages] :
         /\ p[0] = g /\ p[Len(s)] = e
         /\ \A k \in 1 .. Len(s) : p[k] = P!Life!After(p[k - 1], s[k])
  BY DEF Path
<1>2. CASE s = <<>>
  <2>1. Len(s) = 0
    BY <1>2, EmptySeq
  <2>2. P!Life!Reached(g, s) = g
    BY <1>2 DEF P!Life!Reached
  <2>3. QED
    BY <1>1, <2>1, <2>2
<1>3. CASE s # <<>>
  <2>1. Len(s) \in Nat \ {0}
    BY <1>3, EmptySeq
  <2> DEFINE x == s[Len(s)]
             h == p[Len(s) - 1]
  <2>2. x \in Signals
    BY <2>1, ElementOfSeq
  <2>3. e = P!Life!After(h, x)
    BY <1>1, <2>1
  <2>4. P!Life!Reached(g, s) =
           CASE x = "Starting"      -> "starting"
             [] x = "Running"       -> "running"
             [] x = "started"       -> "up"
             [] x = "Crashed"       -> "crashed"
             [] x = "FailedToStart" -> "failed"
             [] x = "finished"      -> "over"
             [] x = "NotRunning"    -> IF g = "starting" THEN "failing" ELSE "down"
    BY <1>3 DEF P!Life!Reached
  <2> HIDE DEF x, h
  <2>5. CASE x = "Starting"
    BY <2>3, <2>4, <2>5 DEF P!Life!After, RestStages
  <2>6. CASE x = "Running"
    BY <2>3, <2>4, <2>6 DEF P!Life!After, RestStages
  <2>7. CASE x = "started"
    BY <2>3, <2>4, <2>7 DEF P!Life!After, RestStages
  <2>8. CASE x = "Crashed"
    BY <2>3, <2>4, <2>8 DEF P!Life!After, RestStages
  <2>9. CASE x = "FailedToStart"
    BY <2>3, <2>4, <2>9 DEF P!Life!After, RestStages
  <2>10. CASE x = "finished"
    BY <2>3, <2>4, <2>10 DEF P!Life!After, RestStages
  <2>11. CASE x = "NotRunning"
    BY <2>3, <2>4, <2>11 DEF P!Life!After, RestStages
  <2>12. QED
    BY <2>2, <2>5, <2>6, <2>7, <2>8, <2>9, <2>10, <2>11 DEF Signals
<1>4. QED
  BY <1>2, <1>3

(***************************************************************************)
(* Every variable keeps its type.                                          *)
(***************************************************************************)

\* A message to the launcher in use comes last in its inbox; the rest stays.
LEMMA SendEffect ==
    ASSUME Types, NEW m \in Commands, send(m)
    PROVE  /\ launcher' \in [Launchers -> Programs]
           /\ \A l \in Launchers :
                 /\ launcher'[l].up = launcher[l].up /\ launcher'[l].stage = launcher[l].stage
                 /\ launcher'[l].out = launcher[l].out
                 /\ launcher'[l].inbox = IF running(qproc, m_process) /\ l = m_process
                                         THEN Append(launcher[l].inbox, m)
                                         ELSE launcher[l].inbox
<1>1. CASE ~running(qproc, m_process)
  BY <1>1 DEF send, Types
<1>2. CASE running(qproc, m_process)
  <2>1. m_process \in Launchers
    BY <1>2 DEF running, Types
  <2> DEFINE n == launcher[m_process]
             q == [n EXCEPT !.inbox = Append(n.inbox, m)]
  <2>2. n \in Programs
    BY <2>1 DEF Types
  <2>3. launcher' = [launcher EXCEPT ![m_process] = q]
    BY <1>2, Zenon DEF send
  <2> HIDE DEF n
  <2>4. Append(n.inbox, m) \in Seq(Commands)
    BY <2>2, AppendProperties DEF Programs
  <2>5. /\ q \in Programs /\ q.up = n.up /\ q.stage = n.stage /\ q.out = n.out
        /\ q.inbox = Append(n.inbox, m)
    BY <2>2, <2>4 DEF Programs
  <2> HIDE DEF q
  <2>6. /\ launcher' \in [Launchers -> Programs] /\ launcher'[m_process] = q
        /\ \A l \in Launchers \ {m_process} : launcher'[l] = launcher[l]
    BY <2>1, <2>3, <2>5 DEF Types
  <2>7. QED
    BY <1>2, <2>5, <2>6, Zenon DEF n
<1>3. QED
  BY <1>1, <1>2

\* A crash leaves no launcher to look at.
LEMMA CrashTypes == ASSUME Types, Crash PROVE Types'
<1>1. launcher' \in [Launchers -> Programs]
  BY FreshAndDead DEF Crash
<1>2. QED
  BY <1>1 DEF Types, Crash, factoryVars, backendVars, clientVars

\* The commands of the protocol.
LEMMA CommandTypes ==
    /\ \A i \in Ids : /\ [command |-> "start", id |-> i] \in Commands
                      /\ [command |-> "stop", id |-> i] \in Commands
    /\ [command |-> "halt"] \in Commands
  BY DEF Commands

\* The initial types.
LEMMA InitTypes == Init => Types
<1> SUFFICES ASSUME Init PROVE Types
  OBVIOUS
<1>1. launcher \in [Launchers -> Programs]
  BY FreshAndDead DEF Init
<1>2. seen \in [Ids -> LifeStages \cup {"broken"}]
  BY DEF Init, LifeStages
<1>3. stops \in 0 .. MaxStops /\ changes \in 0 .. MaxChanges
  BY ConstantsAssumption DEF Init
<1>4. /\ qproc \in [Launchers -> {"unused", "Starting", "Running", "NotRunning"}]
      /\ told \in [Launchers -> BOOLEAN \cup {None}]
      /\ m_state \in [Ids -> {"NotRunning", "Starting", "Running"}]
      /\ host \in [Ids -> Launchers \cup {None}]
  BY DEF Init, NoBackends
<1>5. /\ m_process = None /\ m_info = FALSE /\ m_memoryRestricted = FALSE
      /\ m_internalProcesses = {} /\ m_backendMap = {} /\ created = {} /\ asked = {}
      /\ destroyed = FALSE /\ crashed = FALSE /\ m_buffer = None /\ behind = {}
  BY DEF Init, NoBackends
<1>6. QED
  BY <1>1, <1>2, <1>3, <1>4, <1>5 DEF Types

\* The calls of clients keep the types.
LEMMA ClientTypes ==
    ASSUME Types, NEW i \in Ids, create(i) \/ start(i) \/ stop(i) \/ DeleteBackend(i)
    PROVE  Types'
<1>1. CASE create(i)
  BY <1>1 DEF Types, create, factoryVars, launcherVars
<1>2. CASE start(i)
  <2>1. CASE m_process = None
    BY <1>2, <2>1, CrashTypes DEF start
  <2>2. CASE m_process # None
    <3>1. launcher' \in [Launchers -> Programs]
      BY <1>2, <2>2, SendEffect, CommandTypes DEF start
    <3>2. host' \in [Ids -> Launchers \cup {None}]
      BY <1>2, <2>2 DEF start, Types
    <3>3. QED
      BY <1>2, <2>2, <3>1, <3>2 DEF Types, start, factoryVars, backendVars
  <2>3. QED
    BY <2>1, <2>2
<1>3. CASE stop(i)
  <2>1. CASE m_process = None
    BY <1>3, <2>1, CrashTypes DEF stop
  <2>2. CASE m_process # None
    <3>1. launcher' \in [Launchers -> Programs]
      BY <1>3, <2>2, SendEffect, CommandTypes DEF stop
    <3>2. asked' \in SUBSET Ids /\ stops' \in 0 .. MaxStops
      BY <1>3, <2>2, ConstantsAssumption DEF stop, Types
    <3>3. QED
      BY <1>3, <2>2, <3>1, <3>2 DEF Types, stop, factoryVars, backendVars
  <2>3. QED
    BY <2>1, <2>2
<1>4. CASE DeleteBackend(i)
  <2>1. seen' \in [Ids -> LifeStages \cup {"broken"}]
    BY <1>4 DEF DeleteBackend, Types, LifeStages
  <2>2. QED
    BY <1>4, <2>1 DEF Types, DeleteBackend, factoryVars, launcherVars
<1>5. QED
  BY <1>1, <1>2, <1>3, <1>4

\* What is left in m_buffer is a part of a launcher's message.
LEMMA LeftOverType == ASSUME Types PROVE leftOver \subseteq Launchers \cup {None}
  BY DEF leftOver, Types, running

\* The calls of the owner keep the types.
LEMMA OwnerTypes ==
    ASSUME Types, (\E v \in BOOLEAN : setMemoryRestricted(v) \/ setProcessInfo(v))
                     \/ DestroyFactory
    PROVE  Types'
<1>1. ASSUME NEW v \in BOOLEAN, setMemoryRestricted(v)
      PROVE  Types'
  <2>1. CASE m_process = None
    BY <1>1, <2>1, CrashTypes DEF setMemoryRestricted
  <2>2. CASE m_process # None
    <3>1. changes' \in 0 .. MaxChanges
      BY <1>1, <2>2, ConstantsAssumption DEF setMemoryRestricted, Types
    <3>2. told' \in [Launchers -> BOOLEAN \cup {None}]
      BY <1>1, <2>2 DEF setMemoryRestricted, tellRestricted, Types
    <3>3. QED
      BY <1>1, <2>2, <3>1, <3>2 DEF Types, setMemoryRestricted, backendVars
  <2>3. QED
    BY <2>1, <2>2
<1>2. ASSUME NEW v \in BOOLEAN, setProcessInfo(v)
      PROVE  Types'
  <2>1. launcher' \in [Launchers -> Programs]
    BY <1>2, SendEffect, CommandTypes DEF setProcessInfo, stopRemoteProcess
  <2>2. /\ m_process' \in Launchers \cup {None}
        /\ qproc' \in [Launchers -> {"unused", "Starting", "Running", "NotRunning"}]
        /\ m_internalProcesses' \in SUBSET Launchers
    BY <1>2 DEF setProcessInfo, Types, processLeft, localInternalProcesses
  <2>3. m_buffer' \in Launchers \cup {None} /\ m_info' \in BOOLEAN
    BY <1>2, LeftOverType DEF setProcessInfo
  <2>4. behind' \in SUBSET Launchers
    BY <1>2 DEF setProcessInfo, Types
  <2>5. QED
    BY <1>2, <2>1, <2>2, <2>3, <2>4 DEF Types, setProcessInfo, backendVars
<1>3. CASE DestroyFactory
  <2>1. launcher' \in [Launchers -> Programs]
    BY <1>3, FreshAndDead DEF DestroyFactory, leaveLauncher
  <2>2. /\ m_state' \in [Ids -> {"NotRunning", "Starting", "Running"}]
        /\ seen' \in [Ids -> LifeStages \cup {"broken"}]
    BY <1>3, AfterType DEF DestroyFactory, factoryDestroyed, Types
  <2>3. QED
    BY <1>3, <2>1, <2>2 DEF Types, DestroyFactory
<1>4. QED
  BY <1>1, <1>2, <1>3

\* An event that PipeReadyRead(l) passes on, and what it leaves in the pipe.
LEMMA ReadEffect ==
    ASSUME Types, NEW l \in Launchers, NEW i \in Ids, launcher[l].out[i] # <<>>,
           launcher' = [launcher EXCEPT ![l].out[i] = Tail(@)]
    PROVE  /\ launcher' \in [Launchers -> Programs]
           /\ \A k \in Launchers : k # l => launcher'[k] = launcher[k]
           /\ launcher'[l].up = launcher[l].up /\ launcher'[l].stage = launcher[l].stage
           /\ launcher'[l].inbox = launcher[l].inbox
           /\ \A j \in Ids : launcher'[l].out[j] = IF j = i THEN Tail(launcher[l].out[i])
                                                            ELSE launcher[l].out[j]
           /\ Head(launcher[l].out[i]) \in Signals
<1> DEFINE n == launcher[l]
           o == [n.out EXCEPT ![i] = Tail(n.out[i])]
           q == [n EXCEPT !.out = o]
<1>1. n \in Programs /\ n.out \in [Ids -> Seq(Signals)]
  BY DEF Types, Programs
<1>2. launcher' = [launcher EXCEPT ![l] = q]
  BY Zenon
<1>3. Tail(n.out[i]) \in Seq(Signals) /\ Head(n.out[i]) \in Signals
  BY <1>1, HeadTailProperties
<1>4. /\ o \in [Ids -> Seq(Signals)]
      /\ \A j \in Ids : o[j] = IF j = i THEN Tail(n.out[i]) ELSE n.out[j]
  BY <1>1, <1>3
<1> HIDE DEF n, o
<1>5. /\ q \in Programs /\ q.up = n.up /\ q.stage = n.stage /\ q.inbox = n.inbox /\ q.out = o
  BY <1>1, <1>4 DEF Programs
<1> HIDE DEF q
<1>6. /\ launcher' \in [Launchers -> Programs] /\ launcher'[l] = q
      /\ \A k \in Launchers : k # l => launcher'[k] = launcher[k]
  BY <1>2, <1>5 DEF Types
<1>7. QED
  BY <1>3, <1>4, <1>5, <1>6 DEF n

\* The events of launchers keep the types.
LEMMA EventTypes ==
    ASSUME Types, NEW l \in Launchers, PipeEvent(l) \/ LauncherWorks(l)
    PROVE  Types'
<1>1. CASE PipeRuns(l)
  <2>1. CASE m_process = None
    BY <1>1, <2>1, CrashTypes DEF PipeRuns
  <2>2. CASE m_process # None
    <3>1. /\ qproc' \in [Launchers -> {"unused", "Starting", "Running", "NotRunning"}]
          /\ told' \in [Launchers -> BOOLEAN \cup {None}]
          /\ m_internalProcesses' \in SUBSET Launchers
      BY <1>1, <2>2 DEF PipeRuns, Types, pipeStarted, tellRestricted, localInternalProcesses
    <3>2. QED
      BY <1>1, <2>2, <3>1 DEF Types, PipeRuns, backendVars, clientVars
  <2>3. QED
    BY <2>1, <2>2
<1>2. CASE PipeFails(l)
  <2>1. /\ qproc' \in [Launchers -> {"unused", "Starting", "Running", "NotRunning"}]
        /\ m_internalProcesses' \in SUBSET Launchers
    BY <1>2 DEF PipeFails, Types, localInternalProcesses, running
  <2>2. QED
    BY <1>2, <2>1 DEF Types, PipeFails, backendVars, clientVars
<1>3. CASE PipeReadyRead(l)
  <2>1. CASE Crash
    BY <2>1, CrashTypes
  <2>2. CASE ~Crash
    <3>1. PICK i \in Ids :
             /\ launcher[l].out[i] # <<>>
             /\ readMessage(l, i) \/ readBehind(l, i)
             /\ UNCHANGED <<m_process, m_info, m_memoryRestricted, m_internalProcesses,
                            destroyed, qproc, told, m_backendMap, created, host, asked,
                            stops, changes, behind, crashed>>
      BY <1>3, <2>2 DEF PipeReadyRead
    <3>2. launcher' \in [Launchers -> Programs] /\ m_buffer' \in Launchers \cup {None}
      BY <3>1, ReadEffect DEF readMessage, readBehind, Types
    <3>3. /\ m_state' \in [Ids -> {"NotRunning", "Starting", "Running"}]
          /\ seen' \in [Ids -> LifeStages \cup {"broken"}]
      <4> DEFINE s == Head(launcher[l].out[i])
                 a == Life(i)!After(seen[i], s)
      <4>1. \/ setState(i, s) /\ emit(i, s)
            \/ UNCHANGED <<m_state, seen>>
        BY <3>1 DEF readMessage, readBehind, receive
      <4>2. a \in LifeStages \cup {"broken"}
        BY AfterType
      <4>3. setState(i, s) => m_state' \in [Ids -> {"NotRunning", "Starting", "Running"}]
        BY DEF setState, Types
      <4>4. emit(i, s) => seen' = [seen EXCEPT ![i] = a]
        BY Zenon DEF emit
      <4> HIDE DEF s, a
      <4>5. QED
        BY <4>1, <4>2, <4>3, <4>4 DEF Types
    <3>4. QED
      BY <3>1, <3>2, <3>3 DEF Types
  <2>3. QED
    BY <2>1, <2>2
<1>4. CASE PipeFinished(l)
  <2> DEFINE q == [qproc EXCEPT ![l] = "NotRunning"]
             victim == m_process # None /\ q[m_process] \in {"Starting", "Running"}
  <2>1. /\ qproc' = IF victim THEN [q EXCEPT ![m_process] = "NotRunning"] ELSE q
        /\ m_internalProcesses' = localInternalProcesses(qproc', m_process)
        /\ launcher' = [k \in Launchers |->
              IF k = l \/ (victim /\ k = m_process) THEN Dead ELSE launcher[k]]
        /\ told' = [told EXCEPT ![l] = None]
        /\ crashed' \in IF victim THEN BOOLEAN ELSE {FALSE}
        /\ m_process' = None /\ m_buffer' \in leftOver
        /\ UNCHANGED <<m_info, m_memoryRestricted, destroyed, backendVars, clientVars>>
    BY <1>4, Zenon DEF PipeFinished
  <2>2. qproc' \in [Launchers -> {"unused", "Starting", "Running", "NotRunning"}]
    BY <2>1 DEF Types
  <2> HIDE DEF victim
  <2>3. launcher' \in [Launchers -> Programs]
    BY <2>1, FreshAndDead DEF Types
  <2>4. /\ told' \in [Launchers -> BOOLEAN \cup {None}]
        /\ m_internalProcesses' \in SUBSET Launchers /\ crashed' \in BOOLEAN
    BY <2>1 DEF Types, localInternalProcesses, running
  <2>5. m_buffer' \in Launchers \cup {None}
    BY <2>1, LeftOverType
  <2>6. QED
    BY <2>1, <2>2, <2>3, <2>4, <2>5 DEF Types, backendVars, clientVars
<1>5. CASE LauncherWorks(l)
  <2>1. PICK n \in P!Taken(launcher[l]) \cup P!Reported(launcher[l]) \cup P!Gone(launcher[l]) :
           launcher' = [launcher EXCEPT ![l] = n]
    BY <1>5 DEF LauncherWorks, LauncherStep
  <2>2. n \in Programs
    BY StepEffects DEF Types, Effects
  <2>3. launcher' \in [Launchers -> Programs]
    BY <2>1, <2>2 DEF Types
  <2>4. QED
    BY <1>5, <2>3 DEF Types, LauncherWorks, LauncherStep, factoryVars, backendVars, clientVars
<1>6. QED
  BY <1>1, <1>2, <1>3, <1>4, <1>5 DEF PipeEvent

\* No step leaves the types.
LEMMA NextTypes == Types /\ [Next]_vars => Types'
<1>1. ASSUME Types, UNCHANGED vars PROVE Types'
  BY <1>1 DEF Types, vars, factoryVars, launcherVars, backendVars, clientVars
<1>2. ASSUME Types, Next PROVE Types'
  BY <1>2, ClientTypes, OwnerTypes, EventTypes DEF Next
<1>3. QED
  BY <1>1, <1>2

\* The type invariant of the model, for every value of its constants.
THEOREM TypeCorrect == Safe => []TypeOK
<1>1. Types => TypeOK
  <2> SUFFICES ASSUME Types PROVE TypeOK
    OBVIOUS
  <2>1. Stages = LifeStages \cup {"broken"}
    BY LifeNames DEF Stages
  <2>2. \A l \in Launchers : launcher[l].stopping \in SUBSET Ids /\ launcher[l].up \in BOOLEAN
    BY DEF Types, Programs
  <2>3. QED
    BY <2>1, <2>2 DEF Types, TypeOK
<1>2. QED
  BY <1>1, InitTypes, NextTypes, PTL DEF Safe

(***************************************************************************)
(* The launcher in use is known.                                           *)
(***************************************************************************)

\* What the factory knows of its launcher does not depend on the other variables.
LEMMA KnownFrame ==
    ASSUME Known, UNCHANGED <<m_process, qproc, told, m_memoryRestricted, m_internalProcesses>>,
           destroyed' = destroyed \/ destroyed' = TRUE
    PROVE  Known'
<1>1. RestrictionTold'
  BY DEF Known, RestrictionTold, running
<1>2. LauncherListed'
  BY DEF Known, LauncherListed
<1>3. QED
  BY <1>1, <1>2 DEF Known

\* The owner's calls, and what QProcess says of the launcher in use or an older one.
LEMMA KnownByOwner ==
    ASSUME Types, Known, (\E v \in BOOLEAN : setMemoryRestricted(v) \/ setProcessInfo(v))
    PROVE  Known'
<1>1. ASSUME NEW v \in BOOLEAN, setMemoryRestricted(v)
      PROVE  Known'
  <2>1. CASE m_process = None
    BY <1>1, <2>1, KnownFrame DEF setMemoryRestricted, Crash, factoryVars
  <2>2. CASE m_process # None
    <3>1. UNCHANGED <<m_process, qproc, m_internalProcesses, destroyed>>
      BY <1>1, <2>2 DEF setMemoryRestricted
    <3>2. RestrictionTold'
      BY <1>1, <2>2, <3>1 DEF setMemoryRestricted, tellRestricted, running, RestrictionTold, Types
    <3>3. LauncherListed'
      BY <3>1 DEF Known, LauncherListed
    <3>4. QED
      BY <3>1, <3>2, <3>3 DEF Known
  <2>3. QED
    BY <2>1, <2>2
<1>2. ASSUME NEW v \in BOOLEAN, setProcessInfo(v), v
      PROVE  Known'
  <2>1. PICK l \in Launchers :
           /\ qproc[l] = "unused" /\ m_process' = l
           /\ qproc' = [qproc EXCEPT ![l] = "Starting"]
           /\ m_internalProcesses' = localInternalProcesses(qproc', l)
    BY <1>2 DEF setProcessInfo
  <2>2. m_process' = l /\ qproc'[l] = "Starting" /\ m_internalProcesses' = {}
    BY <2>1 DEF Types, localInternalProcesses, running
  <2>3. QED
    BY <2>2 DEF Known, RestrictionTold, LauncherListed, running
<1>3. ASSUME NEW v \in BOOLEAN, setProcessInfo(v), ~v
      PROVE  Known'
  <2>1. /\ m_process' = processLeft
        /\ UNCHANGED <<qproc, m_internalProcesses, m_memoryRestricted, destroyed, told>>
    BY <1>3 DEF setProcessInfo
  <2>2. CASE running(qproc, m_process)
    BY <2>1, <2>2 DEF processLeft, Known, RestrictionTold, LauncherListed, running
  <2>3. CASE ~running(qproc, m_process)
    <3>1. m_process' = m_process
      BY <2>1, <2>3 DEF processLeft
    <3>2. QED
      BY <2>1, <3>1, KnownFrame
  <2>4. QED
    BY <2>2, <2>3
<1>4. QED
  BY <1>1, <1>2, <1>3

\* The events of a QProcess.
LEMMA KnownByEvents ==
    ASSUME Types, Known, NEW l \in Launchers, PipeRuns(l) \/ PipeFails(l) \/ PipeFinished(l)
    PROVE  Known'
<1>1. CASE PipeRuns(l)
  <2>1. CASE m_process = None
    BY <1>1, <2>1, KnownFrame DEF PipeRuns, Crash, factoryVars
  <2>2. CASE m_process # None
    <3>1. /\ qproc' = [qproc EXCEPT ![l] = "Running"]
          /\ m_internalProcesses' = localInternalProcesses(qproc', m_process)
          /\ told' = IF running(qproc', m_process)
                     THEN [told EXCEPT ![m_process] = m_memoryRestricted] ELSE told
          /\ UNCHANGED <<m_process, m_memoryRestricted, destroyed>>
      BY <1>1, <2>2 DEF PipeRuns, pipeStarted, tellRestricted
    <3>2. m_process \in Launchers /\ qproc'[m_process] # "unused"
      BY <2>2, <3>1 DEF Known, Types
    <3>3. RestrictionTold'
      BY <2>2, <3>1, <3>2 DEF RestrictionTold, running, Types
    <3>4. LauncherListed'
      BY <2>2, <3>1, <3>2 DEF LauncherListed, localInternalProcesses, running
    <3>5. QED
      BY <3>1, <3>2, <3>3, <3>4 DEF Known
  <2>3. QED
    BY <2>1, <2>2
<1>2. CASE PipeFails(l)
  <2>1. /\ qproc' = [qproc EXCEPT ![l] = "NotRunning"]
        /\ m_internalProcesses' = localInternalProcesses(qproc', m_process)
        /\ UNCHANGED <<m_process, m_memoryRestricted, destroyed, told>>
    BY <1>2 DEF PipeFails
  <2>2. CASE m_process = None
    BY <2>1, <2>2 DEF Known, RestrictionTold, LauncherListed, running
  <2>3. CASE m_process # None
    <3>1. m_process \in Launchers /\ qproc'[m_process] # "unused"
      BY <2>1, <2>3 DEF Known, Types
    <3>2. RestrictionTold'
      BY <2>1, <2>3, <3>1 DEF Known, RestrictionTold, running, Types
    <3>3. LauncherListed'
      BY <2>1, <2>3, <3>1 DEF LauncherListed, localInternalProcesses, running
    <3>4. QED
      BY <2>1, <3>1, <3>2, <3>3 DEF Known
  <2>4. QED
    BY <2>2, <2>3
<1>3. CASE PipeFinished(l)
  <2>1. m_process' = None
    BY <1>3, Zenon DEF PipeFinished
  <2>2. QED
    BY <2>1 DEF Known, RestrictionTold, LauncherListed, running
<1>4. QED
  BY <1>1, <1>2, <1>3

\* Every other step leaves what the factory knows.
LEMMA KnownElsewhere ==
    ASSUME Known,
           \/ \E i \in Ids : create(i) \/ start(i) \/ stop(i) \/ DeleteBackend(i)
           \/ DestroyFactory
           \/ \E l \in Launchers : PipeReadyRead(l) \/ LauncherWorks(l)
    PROVE  Known'
<1> DEFINE Same == /\ UNCHANGED <<m_process, qproc, told, m_memoryRestricted,
                                  m_internalProcesses>>
                   /\ destroyed' = destroyed \/ destroyed' = TRUE
<1>1. Crash => Same
  BY DEF Crash, factoryVars
<1>2. ASSUME NEW i \in Ids, create(i) \/ start(i) \/ stop(i) \/ DeleteBackend(i)
      PROVE  Same
  BY <1>1, <1>2 DEF create, start, stop, DeleteBackend, factoryVars, launcherVars
<1>3. DestroyFactory => Same
  BY DEF DestroyFactory
<1>4. ASSUME NEW l \in Launchers, PipeReadyRead(l) \/ LauncherWorks(l)
      PROVE  Same
  <2>1. CASE PipeReadyRead(l)
    BY <1>1, <2>1 DEF PipeReadyRead, factoryVars
  <2>2. CASE LauncherWorks(l)
    BY <2>2 DEF LauncherWorks, LauncherStep, factoryVars
  <2>3. QED
    BY <1>4, <2>1, <2>2
<1>5. Same
  BY <1>2, <1>3, <1>4
<1>6. QED
  BY <1>5, KnownFrame

\* Whatever happens, the factory knows its launcher.
LEMMA NextKnown == Types /\ Known /\ [Next]_vars => Known'
<1>1. ASSUME Known, UNCHANGED vars PROVE Known'
  BY <1>1, KnownFrame DEF vars, factoryVars, launcherVars
<1>2. ASSUME Types, Known, Next PROVE Known'
  BY <1>2, KnownByOwner, KnownByEvents, KnownElsewhere DEF Next, PipeEvent
<1>3. QED
  BY <1>1, <1>2

\* LauncherKnown: the launcher in use, if it runs, is listed as an internal process and
\* was told the current memory restriction, however the calls of setProcessInfo and
\* setMemoryRestricted and the events of its predecessors' QProcess fall.
THEOREM LauncherAlwaysKnown == Safe => []LauncherKnown
<1>1. Init => Known
  BY DEF Init, Known, RestrictionTold, LauncherListed, running
<1>2. Known => LauncherKnown
  BY DEF Known, LauncherKnown
<1>3. QED
  BY <1>1, <1>2, InitTypes, NextTypes, NextKnown, PTL DEF Safe

(***************************************************************************)
(* What a former launcher left in m_buffer.                                *)
(***************************************************************************)

\* Only the owner starts a launcher, and only when one is left does m_buffer get a part
\* of a message that is not its successor's.
LEMMA BufferedFrame ==
    ASSUME Buffered, \A l \in Launchers : qproc[l] # "unused" => qproc'[l] # "unused",
           behind \subseteq Launchers, behind' = behind,
           m_process' = m_process \/ m_process' = None, m_buffer' \in {None, m_buffer}
    PROVE  Buffered'
  BY DEF Buffered

\* The owner's calls.
LEMMA BufferedByOwner ==
    ASSUME Types, Known, Buffered,
           (\E v \in BOOLEAN : setMemoryRestricted(v) \/ setProcessInfo(v)) \/ DestroyFactory
    PROVE  Buffered'
<1>1. ASSUME NEW v \in BOOLEAN, setMemoryRestricted(v)
      PROVE  Buffered'
  BY <1>1 DEF setMemoryRestricted, Crash, factoryVars, clientVars, Buffered
<1>2. ASSUME NEW v \in BOOLEAN, setProcessInfo(v), v
      PROVE  Buffered'
  <2>1. PICK l \in Launchers :
           /\ qproc[l] = "unused" /\ m_process' = l
           /\ qproc' = [qproc EXCEPT ![l] = "Starting"]
           /\ behind' = IF m_buffer' = None THEN behind ELSE behind \cup {l}
    BY <1>2 DEF setProcessInfo
  <2>2. \A k \in Launchers : qproc[k] # "unused" => qproc'[k] # "unused"
    BY <2>1 DEF Types
  <2>3. qproc'[l] # "unused"
    BY <2>1 DEF Types
  <2>4. QED
    BY <2>1, <2>2, <2>3 DEF Buffered, Types
<1>3. ASSUME NEW v \in BOOLEAN, setProcessInfo(v), ~v
      PROVE  Buffered'
  <2>1. /\ m_process' = processLeft /\ m_buffer' \in leftOver
        /\ UNCHANGED <<qproc, behind>>
    BY <1>3 DEF setProcessInfo
  <2>2. CASE running(qproc, m_process)
    <3>1. m_process' = None
      BY <2>1, <2>2 DEF processLeft
    <3>2. QED
      BY <2>1, <3>1 DEF Buffered
  <2>3. CASE ~running(qproc, m_process)
    <3>1. m_process' = m_process /\ m_buffer' = m_buffer
      BY <2>1, <2>3 DEF processLeft, leftOver
    <3>2. QED
      BY <2>1, <3>1 DEF Buffered
  <2>4. QED
    BY <2>2, <2>3
<1>4. CASE DestroyFactory
  BY <1>4 DEF DestroyFactory, Buffered
<1>5. QED
  BY <1>1, <1>2, <1>3, <1>4

\* Every other step.
LEMMA BufferedElsewhere ==
    ASSUME Types, Buffered,
           \/ \E i \in Ids : create(i) \/ start(i) \/ stop(i) \/ DeleteBackend(i)
           \/ \E l \in Launchers : PipeEvent(l) \/ LauncherWorks(l)
    PROVE  Buffered'
<1> DEFINE Same == UNCHANGED <<m_process, m_buffer, qproc, behind>>
<1>1. Crash => Same
  BY DEF Crash, factoryVars, clientVars
<1>2. Same => Buffered'
  BY DEF Buffered
<1>3. ASSUME NEW i \in Ids, create(i) \/ start(i) \/ stop(i) \/ DeleteBackend(i)
      PROVE  Same
  BY <1>1, <1>3 DEF create, start, stop, DeleteBackend, factoryVars, launcherVars
<1>4. ASSUME NEW l \in Launchers, PipeRuns(l) \/ PipeFails(l), ~Crash
      PROVE  Buffered'
  <2>1. /\ UNCHANGED <<m_process, m_buffer, behind>>
        /\ qproc' = [qproc EXCEPT ![l] = "Running"] \/ qproc' = [qproc EXCEPT ![l] = "NotRunning"]
    BY <1>4 DEF PipeRuns, PipeFails, clientVars
  <2>2. \A k \in Launchers : qproc[k] # "unused" => qproc'[k] # "unused"
    BY <2>1 DEF Types
  <2>3. QED
    BY <2>1, <2>2, BufferedFrame DEF Types
<1>5. ASSUME NEW l \in Launchers, PipeReadyRead(l), ~Crash
      PROVE  Buffered'
  <2>1. UNCHANGED <<m_process, qproc, behind>> /\ m_buffer' \in {None, m_buffer}
    BY <1>5 DEF PipeReadyRead, readMessage, readBehind
  <2>2. QED
    BY <2>1 DEF Buffered
<1>6. ASSUME NEW l \in Launchers, PipeFinished(l)
      PROVE  Buffered'
  <2> DEFINE q == [qproc EXCEPT ![l] = "NotRunning"]
             victim == m_process # None /\ q[m_process] \in {"Starting", "Running"}
  <2>1. /\ qproc' = IF victim THEN [q EXCEPT ![m_process] = "NotRunning"] ELSE q
        /\ m_process' = None /\ behind' = behind
    BY <1>6, Zenon DEF PipeFinished, clientVars
  <2>2. \A k \in Launchers : qproc[k] # "unused" => qproc'[k] # "unused"
    BY <2>1 DEF Types
  <2>3. QED
    BY <2>1, <2>2 DEF Buffered, Types
<1>7. ASSUME NEW l \in Launchers, LauncherWorks(l)
      PROVE  Same
  BY <1>7 DEF LauncherWorks, LauncherStep, factoryVars, clientVars
<1> HIDE DEF Same
<1>8. QED
  BY <1>1, <1>2, <1>3, <1>4, <1>5, <1>6, <1>7 DEF PipeEvent

\* Whatever happens, what a launcher writes is only spoilt behind what another one left.
LEMMA NextBuffered == Types /\ Known /\ Buffered /\ [Next]_vars => Buffered'
<1>1. ASSUME Buffered, UNCHANGED vars PROVE Buffered'
  BY <1>1 DEF vars, factoryVars, launcherVars, clientVars, Buffered
<1>2. ASSUME Types, Known, Buffered, Next PROVE Buffered'
  BY <1>2, BufferedByOwner, BufferedElsewhere DEF Next
<1>3. QED
  BY <1>1, <1>2

(***************************************************************************)
(* A process in the programs of launchers.                                 *)
(***************************************************************************)

\* A launcher that is gone knows no process.
LEMMA DeadKnowsNone == \A i \in Ids : Foreign(Dead, i) /\ Once(Dead, i)
<1>1. Dead.inbox = <<>> /\ \A i \in Ids : Dead.stage[i] = "fresh" /\ Dead.out[i] = <<>>
  BY FreshAndDead
<1>2. \A k : k \notin DOMAIN <<>>
  BY EmptySeq, LenProperties
<1>3. QED
  BY <1>1, <1>2 DEF Foreign, Once, Clean, Starts

\* A fresh one neither.
LEMMA FreshKnowsNone == \A i \in Ids : Foreign(P!Fresh, i) /\ Once(P!Fresh, i)
<1> DEFINE f == P!Fresh
<1>1. f.inbox = <<>> /\ \A i \in Ids : f.stage[i] = "fresh" /\ f.out[i] = <<>>
  BY FreshAndDead
<1>2. \A k : k \notin DOMAIN <<>>
  BY EmptySeq, LenProperties
<1> HIDE DEF f
<1>3. \A i \in Ids : Foreign(f, i) /\ Once(f, i)
  BY <1>1, <1>2 DEF Foreign, Once, Clean, Starts
<1>4. QED
  BY <1>3 DEF f

\* Nothing is reported of a process that was not started.
LEMMA CleanQuiet ==
    ASSUME NEW l \in Programs, NEW n \in Programs, NEW i \in Ids, Clean(l, i),
           \/ \E c \in P!Reports(l.stage[i]) : Adds(l, n, i, c)
           \/ ~n.up /\ n.stage[i] = l.stage[i] /\ n.out[i] \in P!Prefixes(l.out[i])
    PROVE  Clean(n, i)
<1>1. "fresh" \in RestStages /\ "fresh" # "starting" /\ "fresh" # "up"
  BY DEF RestStages
<1>2. \A c \in P!Reports("fresh") : c = <<>> /\ P!Life!Reached("fresh", c) = "fresh"
  BY <1>1, ReportValues, Zenon
<1>3. <<>> \o <<>> = <<>>
  BY ConcatEmptySeq, EmptySeq
<1>4. CASE \E c \in P!Reports(l.stage[i]) : Adds(l, n, i, c)
  <2>1. PICK c \in P!Reports("fresh") : Adds(l, n, i, c)
    BY <1>4 DEF Clean
  <2>2. n.stage[i] = "fresh" /\ n.out[i] = <<>> \o <<>>
    BY <1>2, <2>1 DEF Adds, Clean
  <2>3. QED
    BY <1>3, <2>2 DEF Clean
<1>5. CASE ~n.up /\ n.stage[i] = l.stage[i] /\ n.out[i] \in P!Prefixes(l.out[i])
  <2>1. PICK m \in 0 .. Len(<<>>) : n.out[i] = SubSeq(<<>>, 1, m)
    BY <1>5 DEF P!Prefixes, Clean
  <2>2. m = 0
    BY <2>1, EmptySeq
  <2>3. n.out[i] = <<>>
    BY <2>1, <2>2, SubSeqEmpty
  <2>4. QED
    BY <1>5, <2>3 DEF Clean
<1>6. QED
  BY <1>4, <1>5

\* Nothing happens to it.
LEMMA CleanEffect ==
    ASSUME NEW l \in Programs, NEW n \in Programs, NEW i \in Ids, Clean(l, i), Effect(l, n, i),
           ~StartsNext(l, i)
    PROVE  Clean(n, i)
  BY CleanQuiet DEF Effect

\* A start that is left after a step was there before.
LEMMA StartsLeft ==
    ASSUME NEW l \in Programs, NEW n \in Programs, NEW i \in Ids, Effects(l, n), NEW k,
           Starts(n, i, k)
    PROVE  \/ n.inbox = l.inbox /\ Starts(l, i, k)
           \/ n.inbox = Tail(l.inbox) /\ k \in Nat \ {0} /\ Starts(l, i, k + 1)
<1>1. CASE n.inbox = l.inbox
  BY <1>1 DEF Starts
<1>2. CASE l.inbox # <<>> /\ n.inbox = Tail(l.inbox)
  <2> DEFINE s == l.inbox
             t == Tail(s)
  <2>1. s \in Seq(Commands)
    BY DEF Programs
  <2>2. /\ t \in Seq(Commands) /\ Len(t) = Len(s) - 1
        /\ \A j \in 1 .. Len(t) : t[j] = s[j + 1]
    BY <1>2, <2>1, HeadTailProperties
  <2>3. /\ Len(s) \in Nat /\ DOMAIN s = 1 .. Len(s) /\ DOMAIN t = 1 .. Len(t)
        /\ Len(t) \in Nat
    BY <2>1, <2>2, LenProperties
  <2>4. k \in 1 .. Len(t) /\ t[k].command = "start" /\ t[k].id = i
    BY <1>2, <2>3 DEF Starts
  <2>5. k + 1 \in DOMAIN s /\ s[k + 1] = t[k] /\ k \in Nat \ {0}
    BY <2>2, <2>3, <2>4
  <2>6. QED
    BY <1>2, <2>4, <2>5 DEF Starts
<1>3. QED
  BY <1>1, <1>2 DEF Effects

\* A start that is next is the first one.
LEMMA StartsFirst ==
    ASSUME NEW l \in Programs, NEW i \in Ids, StartsNext(l, i)
    PROVE  1 \in DOMAIN l.inbox /\ Starts(l, i, 1)
<1>1. l.inbox \in Seq(Commands) /\ l.inbox # <<>>
  BY DEF Programs, StartsNext
<1>2. 1 \in DOMAIN l.inbox /\ Head(l.inbox) = l.inbox[1]
  BY <1>1, EmptySeq, LenProperties
<1>3. QED
  BY <1>2 DEF Starts, StartsNext

\* No step of a program makes it hear of a process.
LEMMA ForeignStep ==
    ASSUME NEW l \in Programs, NEW n, Effects(l, n), NEW i \in Ids, Foreign(l, i)
    PROVE  Foreign(n, i)
<1>1. n \in Programs /\ Effect(l, n, i)
  BY DEF Effects
<1>2. ~StartsNext(l, i)
  BY StartsFirst DEF Foreign
<1>3. Clean(n, i)
  BY <1>1, <1>2, CleanEffect DEF Foreign
<1>4. ASSUME NEW k, Starts(n, i, k) PROVE FALSE
  <2>1. PICK j : Starts(l, i, j)
    BY <1>1, <1>4, StartsLeft
  <2>2. QED
    BY <2>1 DEF Foreign, Starts
<1>5. QED
  BY <1>3, <1>4 DEF Foreign

\* A start in the inbox stays the only one until it is read, and then there is none.
LEMMA OnceStep ==
    ASSUME NEW l \in Programs, NEW n, Effects(l, n), NEW i \in Ids, Once(l, i)
    PROVE  Once(n, i)
<1> SUFFICES ASSUME NEW k \in DOMAIN n.inbox, Starts(n, i, k)
             PROVE  Clean(n, i) /\ \A j \in DOMAIN n.inbox : Starts(n, i, j) => j = k
  BY DEF Once
<1>1. n \in Programs /\ Effect(l, n, i)
  BY DEF Effects
<1>2. \/ n.inbox = l.inbox /\ Starts(l, i, k)
      \/ n.inbox = Tail(l.inbox) /\ k \in Nat \ {0} /\ Starts(l, i, k + 1)
  BY <1>1, StartsLeft
<1>3. \A x, y : Starts(l, i, x) /\ Starts(l, i, y) => x = y
  BY DEF Once, Starts
<1>4. Clean(l, i)
  BY <1>2 DEF Once, Starts
<1>5. CASE n.inbox = l.inbox
  <2>1. \A j \in DOMAIN n.inbox : Starts(n, i, j) => j = k
    BY <1>3, <1>5 DEF Starts
  <2>2. CASE \E c \in P!Reports(l.stage[i]) : Adds(l, n, i, c)
    BY <1>1, <1>4, <2>1, <2>2, CleanQuiet
  <2>3. CASE ~n.up /\ n.stage[i] = l.stage[i] /\ n.out[i] \in P!Prefixes(l.out[i])
    BY <1>1, <1>4, <2>1, <2>3, CleanQuiet
  <2>4. CASE StartsNext(l, i) /\ n.inbox = Tail(l.inbox)
    <3>1. l.inbox # <<>> /\ l.inbox \in Seq(Commands)
      BY <2>4 DEF StartsNext, Programs
    <3>2. Len(Tail(l.inbox)) = Len(l.inbox) - 1 /\ Len(l.inbox) \in Nat
      BY <3>1, HeadTailProperties, LenProperties
    <3>3. Tail(l.inbox) # l.inbox
      <4> DEFINE x == l.inbox
                 t == Tail(l.inbox)
      <4> HIDE DEF x, t
      <4>1. Len(t) = Len(x) - 1 /\ Len(x) \in Nat
        BY <3>2 DEF x, t
      <4>2. t # x
        BY <4>1
      <4>3. QED
        BY <4>2 DEF x, t
    <3>4. QED
      BY <1>5, <2>4, <3>3
  <2>5. QED
    BY <1>1, <2>2, <2>3, <2>4 DEF Effect
<1>6. CASE n.inbox = Tail(l.inbox) /\ k \in Nat \ {0} /\ Starts(l, i, k + 1)
  <2>1. ~StartsNext(l, i)
    <3>1. k + 1 # 1
      BY <1>6
    <3>2. QED
      BY <1>3, <1>6, <3>1, StartsFirst
  <2>2. Clean(n, i)
    BY <1>1, <1>4, <2>1, CleanEffect
  <2>3. ASSUME NEW j \in DOMAIN n.inbox, Starts(n, i, j) PROVE j = k
    <3>1. \/ n.inbox = l.inbox /\ Starts(l, i, j)
          \/ n.inbox = Tail(l.inbox) /\ j \in Nat \ {0} /\ Starts(l, i, j + 1)
      BY <1>1, <2>3, StartsLeft
    <3>2. CASE Starts(l, i, j + 1) /\ j \in Nat \ {0}
      <4>1. j + 1 = k + 1
        BY <1>3, <1>6, <3>2
      <4>2. QED
        BY <1>6, <3>2, <4>1
    <3>3. CASE n.inbox = l.inbox
      BY <1>5, <2>3, <3>3
    <3>4. QED
      BY <3>1, <3>2, <3>3
  <2>4. QED
    BY <2>2, <2>3
<1>7. QED
  BY <1>2, <1>5, <1>6

\* The client's view is followed by whatever the host of its process writes.
LEMMA FollowsStep ==
    ASSUME NEW l \in Programs, NEW n, Effects(l, n), NEW i \in Ids, Once(l, i),
           NEW g, Follows(l, i, g)
    PROVE  Follows(n, i, g)
<1>1. n \in Programs /\ l.up /\ Effect(l, n, i)
  BY DEF Effects
<1>2. /\ l.stage[i] \in RestStages /\ l.out[i] \in Seq(Signals)
      /\ n.stage[i] \in RestStages /\ n.stage[i] \in LifeStages
  BY <1>1 DEF Programs, RestStages, LifeStages
<1>3. Path(l.out[i], g, l.stage[i])
  BY <1>1 DEF Follows
<1>4. ASSUME NEW c \in Seq(Signals), Adds(l, n, i, c), Path(c, l.stage[i], n.stage[i])
      PROVE  Follows(n, i, g)
  <2>1. Path(l.out[i] \o c, g, n.stage[i])
    BY <1>2, <1>3, <1>4, PathConcat
  <2>2. QED
    BY <1>2, <1>4, <2>1 DEF Follows, Adds
<1>5. CASE \E c \in P!Reports(l.stage[i]) : Adds(l, n, i, c)
  <2>1. PICK c \in P!Reports(l.stage[i]) : Adds(l, n, i, c)
    BY <1>5
  <2>2. c \in Seq(Signals) /\ Path(c, l.stage[i], P!Life!Reached(l.stage[i], c))
    BY <1>2, ReportPaths, ReportStages, Zenon
  <2>3. QED
    BY <1>4, <2>1, <2>2 DEF Adds
<1>6. CASE StartsNext(l, i) /\ \E c \in P!StartReports : Adds(l, n, i, c)
  <2>1. PICK c \in P!StartReports : Adds(l, n, i, c)
    BY <1>6
  <2>2. l.stage[i] = "fresh"
    BY <1>6, StartsFirst DEF Once, Clean
  <2>3. c \in Seq(Signals) /\ Path(c, "fresh", P!Life!Reached("fresh", c))
    BY ReportPaths, ReportStages, Zenon
  <2>4. QED
    BY <1>4, <2>1, <2>2, <2>3 DEF Adds
<1>7. CASE ~n.up /\ n.stage[i] = l.stage[i] /\ n.out[i] \in P!Prefixes(l.out[i])
  <2>1. PICK f \in LifeStages : Path(n.out[i], g, f)
    BY <1>2, <1>3, <1>7, PathPrefix
  <2>2. QED
    BY <1>7, <2>1 DEF Follows
<1>8. QED
  BY <1>1, <1>5, <1>6, <1>7 DEF Effect

(***************************************************************************)
(* The process of a backend.                                               *)
(***************************************************************************)

\* A message for another process, or none for it, leaves a process as it is.
LEMMA AppendOther ==
    ASSUME NEW l \in Programs, NEW n, NEW m \in Commands, NEW i \in Ids,
           n.up = l.up, n.stage = l.stage, n.out = l.out,
           n.inbox = Append(l.inbox, m) \/ n.inbox = l.inbox,
           m # [command |-> "start", id |-> i]
    PROVE  /\ Foreign(l, i) => Foreign(n, i)
           /\ Once(l, i) => Once(n, i)
           /\ \A g : Follows(l, i, g) => Follows(n, i, g)
<1>1. \A k : Starts(n, i, k) => Starts(l, i, k)
  <2> SUFFICES ASSUME NEW k, Starts(n, i, k) PROVE Starts(l, i, k)
    OBVIOUS
  <2>1. CASE n.inbox = l.inbox
    BY <2>1 DEF Starts
  <2>2. CASE n.inbox = Append(l.inbox, m)
    <3> DEFINE s == l.inbox
               t == Append(s, m)
    <3>1. s \in Seq(Commands)
      BY DEF Programs
    <3>2. /\ t \in Seq(Commands) /\ Len(t) = Len(s) + 1
          /\ \A j \in 1 .. Len(s) : t[j] = s[j]
          /\ t[Len(s) + 1] = m
      BY <3>1, AppendProperties
    <3>3. /\ Len(s) \in Nat /\ DOMAIN s = 1 .. Len(s) /\ DOMAIN t = 1 .. Len(t)
      BY <3>1, <3>2, LenProperties
    <3>4. k \in 1 .. Len(t) /\ t[k].command = "start" /\ t[k].id = i
      BY <2>2, <3>3 DEF Starts
    <3>5. k # Len(s) + 1
      <4>1. m.command = "start" /\ m.id = i => m = [command |-> "start", id |-> i]
        BY DEF Commands
      <4>2. QED
        BY <3>2, <3>4, <4>1
    <3>6. QED
      BY <3>2, <3>3, <3>4, <3>5 DEF Starts
  <2>3. QED
    BY <2>1, <2>2
<1>2. Clean(l, i) => Clean(n, i)
  BY DEF Clean
<1>3. Foreign(l, i) => Foreign(n, i)
  BY <1>1, <1>2 DEF Foreign, Starts
<1>4. Once(l, i) => Once(n, i)
  <2> SUFFICES ASSUME Once(l, i), NEW k \in DOMAIN n.inbox, Starts(n, i, k)
               PROVE  Clean(n, i) /\ \A j \in DOMAIN n.inbox : Starts(n, i, j) => j = k
    BY DEF Once
  <2>1. Starts(l, i, k) /\ \A j : Starts(n, i, j) => Starts(l, i, j)
    BY <1>1
  <2>2. QED
    BY <1>2, <2>1 DEF Once, Starts
<1>5. \A g : Follows(l, i, g) => Follows(n, i, g)
  BY DEF Follows
<1>6. QED
  BY <1>3, <1>4, <1>5

\* The start of a process its launcher has not heard of is the only one there.
LEMMA AppendStart ==
    ASSUME NEW l \in Programs, NEW n, NEW m \in Commands, NEW i \in Ids,
           n.stage = l.stage, n.out = l.out, n.inbox = Append(l.inbox, m), Foreign(l, i)
    PROVE  Once(n, i)
<1> DEFINE s == l.inbox
           t == Append(s, m)
<1>1. s \in Seq(Commands)
  BY DEF Programs
<1>2. /\ t \in Seq(Commands) /\ Len(t) = Len(s) + 1
      /\ \A j \in 1 .. Len(s) : t[j] = s[j]
  BY <1>1, AppendProperties
<1>3. /\ Len(s) \in Nat /\ DOMAIN s = 1 .. Len(s) /\ DOMAIN t = 1 .. Len(t)
  BY <1>1, <1>2, LenProperties
<1>4. ASSUME NEW k, Starts(n, i, k) PROVE k = Len(s) + 1
  <2>1. k \in 1 .. Len(t) /\ t[k].command = "start" /\ t[k].id = i
    BY <1>3, <1>4 DEF Starts
  <2>2. k \in 1 .. Len(s) => Starts(l, i, k)
    BY <1>2, <1>3, <2>1 DEF Starts
  <2>3. ~Starts(l, i, k)
    BY DEF Foreign, Starts
  <2>4. QED
    BY <1>2, <1>3, <2>1, <2>2, <2>3
<1>5. Clean(n, i)
  BY DEF Foreign, Clean
<1> HIDE DEF s, t
<1>6. QED
  BY <1>4, <1>5 DEF Once

\* What a step must do to a process that it is not about.
LEMMA HostedKept ==
    ASSUME NEW i \in Ids, Hosted(i),
           \A l \in Launchers : qproc[l] # "unused" => qproc'[l] # "unused",
           host'[i] = host[i], seen'[i] = seen[i],
           i \in created => i \in created', i \in m_backendMap' => i \in m_backendMap,
           behind \subseteq behind',
           Works' => /\ Works
                     /\ m_process' = m_process \/ m_process' = None \/ host[i] # m_process',
           \A l \in Launchers : /\ Foreign(launcher[l], i) => Foreign(launcher'[l], i)
                                /\ Once(launcher[l], i) => Once(launcher'[l], i),
           Works' /\ m_process' # None /\ host[i] = m_process' =>
              \A g : Follows(launcher[m_process], i, g) => Follows(launcher'[m_process], i, g)
    PROVE  Hosted(i)'
<1>1. \A l \in Launchers :
         /\ host'[i] # l => Foreign(launcher'[l], i)
         /\ host'[i] = l => Once(launcher'[l], i) /\ qproc'[l] # "unused"
  BY DEF Hosted
<1>2. i \notin created' => host'[i] = None /\ seen'[i] = "fresh"
  BY DEF Hosted
<1>3. Works' /\ i \in m_backendMap' /\ host'[i] = None => seen'[i] = "fresh"
  BY DEF Hosted
<1>4. Works' /\ i \in m_backendMap' /\ host'[i] # None /\ host'[i] = m_process'
             /\ m_process' \notin behind' =>
         Follows(launcher'[m_process'], i, seen'[i])
  <2> SUFFICES ASSUME Works', i \in m_backendMap', host'[i] # None, host'[i] = m_process',
                      m_process' \notin behind'
               PROVE  Follows(launcher'[m_process'], i, seen'[i])
    OBVIOUS
  <2>1. m_process' = m_process /\ Works /\ i \in m_backendMap /\ m_process \notin behind
    OBVIOUS
  <2>2. Follows(launcher[m_process], i, seen[i])
    BY <2>1 DEF Hosted
  <2>3. QED
    BY <2>1, <2>2
<1>5. QED
  BY <1>1, <1>2, <1>3, <1>4 DEF Hosted

\* The end of the manager leaves no promise about what is seen.
LEMMA HostedLeft ==
    ASSUME NEW i \in Ids, Hosted(i), ~Works',
           launcher' = [l \in Launchers |-> Dead], UNCHANGED <<qproc, host, created>>,
           i \notin created => seen'[i] = seen[i]
    PROVE  Hosted(i)'
<1>1. \A l \in Launchers : Foreign(launcher'[l], i) /\ Once(launcher'[l], i)
  BY DeadKnowsNone
<1>2. QED
  BY <1>1 DEF Hosted

\* A command that starts no process i, sent to the launcher in use.
LEMMA SendOther ==
    ASSUME Types, NEW i \in Ids, NEW m \in Commands, send(m),
           m # [command |-> "start", id |-> i]
    PROVE  \A l \in Launchers :
              /\ Foreign(launcher[l], i) => Foreign(launcher'[l], i)
              /\ Once(launcher[l], i) => Once(launcher'[l], i)
              /\ \A g : Follows(launcher[l], i, g) => Follows(launcher'[l], i, g)
<1> SUFFICES ASSUME NEW l \in Launchers
             PROVE  /\ Foreign(launcher[l], i) => Foreign(launcher'[l], i)
                    /\ Once(launcher[l], i) => Once(launcher'[l], i)
                    /\ \A g : Follows(launcher[l], i, g) => Follows(launcher'[l], i, g)
  OBVIOUS
<1> DEFINE p == launcher[l]
           n == launcher'[l]
<1>1. p \in Programs
  BY DEF Types
<1>2. /\ n.up = p.up /\ n.stage = p.stage /\ n.out = p.out
      /\ n.inbox = Append(p.inbox, m) \/ n.inbox = p.inbox
  BY SendEffect
<1> HIDE DEF p, n
<1>3. /\ Foreign(p, i) => Foreign(n, i)
      /\ Once(p, i) => Once(n, i)
      /\ \A g : Follows(p, i, g) => Follows(n, i, g)
  BY <1>1, <1>2, AppendOther
<1>4. QED
  BY <1>3 DEF p, n

\* A crash of the manager ends what the ids' launchers were good for.
LEMMA HostedCrash ==
    ASSUME NEW i \in Ids, Hosted(i), Crash
    PROVE  Hosted(i)'
<1>1. ~Works' /\ UNCHANGED <<qproc, host, created, seen>>
  BY DEF Crash, Works, clientVars
<1>2. QED
  BY <1>1, HostedLeft DEF Crash

\* Calls of the client.
LEMMA HostedByClient ==
    ASSUME Types, StartOnce, NEW i \in Ids, Hosted(i),
           NEW j \in Ids, create(j) \/ start(j) \/ stop(j) \/ DeleteBackend(j)
    PROVE  Hosted(i)'
<1>1. CASE create(j)
  <2>1. /\ created' = created \cup {j} /\ m_backendMap' = m_backendMap \cup {j} /\ j \notin created
        /\ UNCHANGED <<m_process, qproc, launcher, host, seen, behind, destroyed, crashed>>
        /\ Works
    BY <1>1 DEF create, factoryVars, launcherVars
  <2>2. Works' = Works
    BY <2>1 DEF Works
  <2>3. CASE j # i
    BY <2>1, <2>2, <2>3, HostedKept
  <2>4. CASE j = i
    <3>1. host'[i] = None /\ seen'[i] = "fresh" /\ i \in created'
      BY <2>1, <2>4 DEF Hosted
    <3>2. \A l \in Launchers :
             /\ host'[i] # l => Foreign(launcher'[l], i)
             /\ host'[i] = l => Once(launcher'[l], i) /\ qproc'[l] # "unused"
      BY <2>1 DEF Hosted
    <3>3. QED
      BY <3>1, <3>2 DEF Hosted
  <2>5. QED
    BY <2>3, <2>4
<1>2. CASE start(j)
  <2>1. CASE m_process = None
    BY <1>2, <2>1, HostedCrash DEF start
  <2> DEFINE m == [command |-> "start", id |-> j]
  <2>2. CASE m_process # None
    <3>1. /\ Works /\ j \in m_backendMap /\ host[j] = None /\ send(m)
          /\ host' = [host EXCEPT ![j] = IF running(qproc, m_process) THEN m_process ELSE @]
          /\ UNCHANGED <<m_process, qproc, m_backendMap, created, seen, behind, destroyed,
                         crashed>>
      BY <1>2, <2>2 DEF start, factoryVars, backendVars
    <3>2. m \in Commands /\ Works' = Works
      BY <3>1, CommandTypes DEF Works
    <3>3. m_process \in Launchers
      BY <2>2 DEF Types
    <3>4. CASE j # i
      <4>1. m # [command |-> "start", id |-> i]
        <5>1. m.id = j
          OBVIOUS
        <5>2. [command |-> "start", id |-> i].id = i
          OBVIOUS
        <5>3. QED
          BY <3>4, <5>1, <5>2
      <4> HIDE DEF m
      <4>2. \A l \in Launchers :
               /\ Foreign(launcher[l], i) => Foreign(launcher'[l], i)
               /\ Once(launcher[l], i) => Once(launcher'[l], i)
               /\ \A g : Follows(launcher[l], i, g) => Follows(launcher'[l], i, g)
        BY <3>1, <3>2, <4>1, SendOther
      <4>3. host'[i] = host[i]
        BY <3>1, <3>4 DEF Types
      <4>4. QED
        BY <3>1, <3>2, <3>3, <4>2, <4>3, HostedKept
    <3>5. CASE j = i /\ ~running(qproc, m_process)
      <4>1. launcher' = launcher /\ host'[i] = host[i]
        BY <3>1, <3>5 DEF send, Types
      <4>2. QED
        BY <3>1, <3>2, <4>1, HostedKept
    <3>6. CASE j = i /\ running(qproc, m_process)
      <4>1. host'[i] = m_process
        BY <3>1, <3>6 DEF Types
      <4> DEFINE p == launcher[m_process]
                 n == launcher'[m_process]
      <4>2. p \in Programs
        BY <3>3 DEF Types
      <4>3. /\ n.up = p.up /\ n.stage = p.stage /\ n.out = p.out
            /\ n.inbox = Append(p.inbox, m)
        BY <3>1, <3>2, <3>3, <3>6, SendEffect
      <4>4. Foreign(p, i)
        BY <2>2, <3>1, <3>6 DEF Hosted, Types
      <4>5. Once(n, i)
        <5> HIDE DEF p, n, m
        <5>1. QED
          BY <3>2, <4>2, <4>3, <4>4, AppendStart
      <4>6. seen'[i] = "fresh" /\ i \in created' /\ "fresh" \in LifeStages
        BY <3>1, <3>6 DEF Hosted, Types, LifeStages
      <4>7. Follows(n, i, "fresh")
        <5>1. n.stage[i] = "fresh" /\ n.out[i] = <<>>
          BY <4>3, <4>4 DEF Foreign, Clean
        <5>2. Path(<<>>, "fresh", "fresh")
          BY <4>6, PathEmpty
        <5> HIDE DEF n
        <5>3. QED
          BY <4>6, <5>1, <5>2 DEF Follows
      <4>8. \A l \in Launchers : l # m_process => launcher'[l] = launcher[l]
        BY <3>1, <3>6 DEF send, Types
      <4>9. qproc'[m_process] # "unused"
        BY <3>1, <3>6 DEF running
      <4>10. \A l \in Launchers :
                /\ host'[i] # l => Foreign(launcher'[l], i)
                /\ host'[i] = l => Once(launcher'[l], i) /\ qproc'[l] # "unused"
        <5> SUFFICES ASSUME NEW k \in Launchers
                     PROVE  /\ host'[i] # k => Foreign(launcher'[k], i)
                            /\ host'[i] = k => Once(launcher'[k], i) /\ qproc'[k] # "unused"
          OBVIOUS
        <5>1. CASE k = m_process
          BY <4>1, <4>5, <4>9, <5>1
        <5>2. CASE k # m_process
          <6>1. host[i] # k
            BY <3>1, <3>6, ConstantsAssumption
          <6>2. Foreign(launcher[k], i)
            BY <6>1 DEF Hosted
          <6>3. QED
            BY <4>1, <4>8, <5>2, <6>2
        <5>3. QED
          BY <5>1, <5>2
      <4> HIDE DEF m, p
      <4>11. QED
        BY <3>1, <4>1, <4>6, <4>7, <4>10 DEF Hosted
    <3>7. QED
      BY <3>4, <3>5, <3>6
  <2>3. QED
    BY <2>1, <2>2
<1>3. CASE stop(j)
  <2>1. CASE m_process = None
    BY <1>3, <2>1, HostedCrash DEF stop
  <2> DEFINE m == [command |-> "stop", id |-> j]
  <2>2. CASE m_process # None
    <3>1. /\ Works /\ send(m)
          /\ UNCHANGED <<m_process, qproc, m_backendMap, created, host, seen, behind, destroyed,
                         crashed>>
      BY <1>3, <2>2 DEF stop, factoryVars, backendVars
    <3>2. m \in Commands /\ Works' = Works
      BY <3>1, CommandTypes DEF Works
    <3>3. m # [command |-> "start", id |-> i]
      <4>1. m.command = "stop" /\ [command |-> "start", id |-> i].command = "start"
        OBVIOUS
      <4>2. QED
        BY <4>1
    <3>4. m_process \in Launchers
      BY <2>2 DEF Types
    <3> HIDE DEF m
    <3>5. \A l \in Launchers :
             /\ Foreign(launcher[l], i) => Foreign(launcher'[l], i)
             /\ Once(launcher[l], i) => Once(launcher'[l], i)
             /\ \A g : Follows(launcher[l], i, g) => Follows(launcher'[l], i, g)
      BY <3>1, <3>2, <3>3, SendOther
    <3>6. QED
      BY <3>1, <3>2, <3>4, <3>5, HostedKept
  <2>3. QED
    BY <2>1, <2>2
<1>4. CASE DeleteBackend(j)
  <2>1. /\ m_backendMap' = m_backendMap \ {j} /\ j \in m_backendMap
        /\ seen' = [seen EXCEPT ![j] = "gone"]
        /\ UNCHANGED <<m_process, qproc, launcher, created, host, behind, destroyed, crashed>>
    BY <1>4 DEF DeleteBackend, factoryVars, launcherVars
  <2>2. Works' = Works
    BY <2>1 DEF Works
  <2>3. CASE j # i
    <3>1. seen'[i] = seen[i]
      BY <2>1, <2>3 DEF Types
    <3>2. QED
      BY <2>1, <2>2, <3>1, HostedKept
  <2>4. CASE j = i
    <3>1. i \in created' /\ i \notin m_backendMap'
      BY <2>1, <2>4 DEF Types
    <3>2. QED
      BY <2>1, <3>1 DEF Hosted
  <2>5. QED
    BY <2>3, <2>4
<1>5. QED
  BY <1>1, <1>2, <1>3, <1>4

\* Calls of the factory's owner.
LEMMA HostedByOwner ==
    ASSUME Types, NEW i \in Ids, Hosted(i),
           (\E v \in BOOLEAN : setMemoryRestricted(v) \/ setProcessInfo(v)) \/ DestroyFactory
    PROVE  Hosted(i)'
<1>1. ASSUME NEW v \in BOOLEAN, setMemoryRestricted(v)
      PROVE  Hosted(i)'
  <2>1. CASE m_process = None
    BY <1>1, <2>1, HostedCrash DEF setMemoryRestricted
  <2>2. CASE m_process # None
    <3>1. UNCHANGED <<m_process, qproc, launcher, m_backendMap, created, host, seen, behind,
                      destroyed, crashed>>
      BY <1>1, <2>2 DEF setMemoryRestricted, backendVars
    <3>2. Works' = Works
      BY <3>1 DEF Works
    <3>3. QED
      BY <3>1, <3>2, HostedKept
  <2>3. QED
    BY <2>1, <2>2
<1>2. ASSUME NEW v \in BOOLEAN, setProcessInfo(v)
      PROVE  Hosted(i)'
  <2> DEFINE m == [command |-> "halt"]
  <2>1. /\ Works /\ send(m)
        /\ UNCHANGED <<m_backendMap, created, host, seen, destroyed, crashed>>
        /\ behind \subseteq behind'
    BY <1>2 DEF setProcessInfo, stopRemoteProcess, backendVars
  <2>2. m \in Commands /\ Works' = Works
    BY <2>1, CommandTypes DEF Works
  <2>3. m # [command |-> "start", id |-> i]
    <3>1. m.command = "halt" /\ [command |-> "start", id |-> i].command = "start"
      OBVIOUS
    <3>2. QED
      BY <3>1
  <2> HIDE DEF m
  <2>4. \A l \in Launchers :
           /\ Foreign(launcher[l], i) => Foreign(launcher'[l], i)
           /\ Once(launcher[l], i) => Once(launcher'[l], i)
           /\ \A g : Follows(launcher[l], i, g) => Follows(launcher'[l], i, g)
    BY <2>1, <2>2, <2>3, SendOther
  <2>5. CASE v
    <3>1. PICK l \in Launchers :
             /\ qproc[l] = "unused" /\ m_process' = l
             /\ qproc' = [qproc EXCEPT ![l] = "Starting"]
      BY <1>2, <2>5 DEF setProcessInfo
    <3>2. host[i] # m_process'
      BY <3>1 DEF Hosted
    <3>3. \A k \in Launchers : qproc[k] # "unused" => qproc'[k] # "unused"
      BY <3>1 DEF Types
    <3>4. QED
      BY <2>1, <2>2, <2>4, <3>2, <3>3, HostedKept
  <2>6. CASE ~v
    <3>1. qproc' = qproc /\ (m_process' = m_process \/ m_process' = None)
      BY <1>2, <2>6 DEF setProcessInfo, processLeft
    <3>2. m_process' # None => m_process \in Launchers
      BY <3>1 DEF Types
    <3>3. QED
      BY <2>1, <2>2, <2>4, <3>1, <3>2, HostedKept
  <2>7. QED
    BY <2>5, <2>6
<1>3. CASE DestroyFactory
  <2>1. /\ destroyed' = TRUE /\ launcher' = [l \in Launchers |-> Dead]
        /\ UNCHANGED <<qproc, host, created>>
    BY <1>3 DEF DestroyFactory, leaveLauncher
  <2>2. ~Works' /\ (i \notin created => seen'[i] = seen[i])
    BY <1>3, <2>1 DEF DestroyFactory, factoryDestroyed, Works, Types
  <2>3. QED
    BY <2>1, <2>2, HostedLeft
<1>4. QED
  BY <1>1, <1>2, <1>3

\* What happens to the pipe process and in the launcher.
LEMMA HostedByEvents ==
    ASSUME Types, NEW i \in Ids, Hosted(i), NEW l \in Launchers,
           PipeRuns(l) \/ PipeFails(l) \/ PipeFinished(l) \/ LauncherWorks(l)
    PROVE  Hosted(i)'
<1>1. CASE PipeRuns(l)
  <2>1. CASE m_process = None
    BY <1>1, <2>1, HostedCrash DEF PipeRuns
  <2>2. CASE m_process # None
    <3>1. /\ qproc' = [qproc EXCEPT ![l] = "Running"]
          /\ UNCHANGED <<m_process, launcher, m_backendMap, created, host, seen, behind,
                         destroyed, crashed>>
      BY <1>1, <2>2 DEF PipeRuns, backendVars, clientVars
    <3>2. Works' = Works /\ \A k \in Launchers : qproc[k] # "unused" => qproc'[k] # "unused"
      BY <3>1 DEF Works, Types
    <3>3. QED
      BY <3>1, <3>2, HostedKept
  <2>3. QED
    BY <2>1, <2>2
<1>2. CASE PipeFails(l)
  <2>1. /\ qproc' = [qproc EXCEPT ![l] = "NotRunning"]
        /\ UNCHANGED <<m_process, launcher, m_backendMap, created, host, seen, behind,
                       destroyed, crashed>>
    BY <1>2 DEF PipeFails, backendVars, clientVars
  <2>2. Works' = Works /\ \A k \in Launchers : qproc[k] # "unused" => qproc'[k] # "unused"
    BY <2>1 DEF Works, Types
  <2>3. QED
    BY <2>1, <2>2, HostedKept
<1>3. CASE PipeFinished(l)
  <2> DEFINE q == [qproc EXCEPT ![l] = "NotRunning"]
             victim == m_process # None /\ q[m_process] \in {"Starting", "Running"}
  <2>1. /\ Works
        /\ qproc' = IF victim THEN [q EXCEPT ![m_process] = "NotRunning"] ELSE q
        /\ launcher' = [k \in Launchers |->
              IF k = l \/ (victim /\ k = m_process) THEN Dead ELSE launcher[k]]
        /\ m_process' = None
        /\ UNCHANGED <<m_backendMap, created, host, seen, behind>>
    BY <1>3, Zenon DEF PipeFinished, backendVars, clientVars
  <2>2. \A k \in Launchers : qproc[k] # "unused" => qproc'[k] # "unused"
    BY <2>1 DEF Types
  <2> HIDE DEF victim
  <2>3. \A k \in Launchers : launcher'[k] = launcher[k] \/ launcher'[k] = Dead
    BY <2>1
  <2>4. \A k \in Launchers : /\ Foreign(launcher[k], i) => Foreign(launcher'[k], i)
                             /\ Once(launcher[k], i) => Once(launcher'[k], i)
    BY <2>3, DeadKnowsNone
  <2>5. QED
    BY <2>1, <2>2, <2>4, HostedKept
<1>4. CASE LauncherWorks(l)
  <2>1. PICK n \in P!Taken(launcher[l]) \cup P!Reported(launcher[l]) \cup P!Gone(launcher[l]) :
           launcher' = [launcher EXCEPT ![l] = n]
    BY <1>4 DEF LauncherWorks, LauncherStep
  <2>2. UNCHANGED <<m_process, qproc, m_backendMap, created, host, seen, behind, destroyed,
                    crashed>>
    BY <1>4 DEF LauncherWorks, LauncherStep, factoryVars, backendVars, clientVars
  <2> DEFINE p == launcher[l]
  <2>3. p \in Programs /\ Effects(p, n)
    BY StepEffects DEF Types
  <2> HIDE DEF p
  <2>4. /\ Foreign(p, i) => Foreign(n, i)
        /\ Once(p, i) => Once(n, i)
        /\ \A g : Once(p, i) /\ Follows(p, i, g) => Follows(n, i, g)
    BY <2>3, ForeignStep, OnceStep, FollowsStep
  <2>5. /\ launcher'[l] = n /\ \A k \in Launchers : k # l => launcher'[k] = launcher[k]
    BY <2>1 DEF Types
  <2>6. \A k \in Launchers : /\ Foreign(launcher[k], i) => Foreign(launcher'[k], i)
                             /\ Once(launcher[k], i) => Once(launcher'[k], i)
    BY <2>4, <2>5 DEF p
  <2>7. Works' = Works
    BY <2>2 DEF Works
  <2>8. m_process # None /\ host[i] = m_process =>
           \A g : Follows(launcher[m_process], i, g) => Follows(launcher'[m_process], i, g)
    <3> SUFFICES ASSUME m_process # None, host[i] = m_process, NEW g,
                        Follows(launcher[m_process], i, g)
                 PROVE  Follows(launcher'[m_process], i, g)
      OBVIOUS
    <3>1. m_process \in Launchers
      BY DEF Types
    <3>2. CASE m_process = l
      <4>1. Once(p, i)
        BY <3>1, <3>2 DEF Hosted, p
      <4>2. QED
        BY <2>4, <2>5, <3>2, <4>1 DEF p
    <3>3. CASE m_process # l
      BY <2>5, <3>1, <3>3
    <3>4. QED
      BY <3>2, <3>3
  <2>9. QED
    BY <2>2, <2>6, <2>7, <2>8, HostedKept
<1>5. QED
  BY <1>1, <1>2, <1>3, <1>4

\* What PipeReadyRead does, unless it crashes: the next event of process i, the head of
\* what the launcher in use wrote of it, takes the client's view on, or is lost behind a
\* part of another launcher's message.
LEMMA ReadSteps ==
    ASSUME Types, Buffered, \A j \in Ids : Hosted(j), NEW l \in Launchers, PipeReadyRead(l),
           ~Crash
    PROVE  \E i \in Ids :
              /\ \/ host[i] \in behind \/ seen'[i] = seen[i]
                 \/ \E s \in Signals : /\ seen'[i] = Life(i)!After(seen[i], s)
                                       /\ seen'[i] \in LifeStages
              /\ \A j \in Ids : j # i => seen'[j] = seen[j]
              /\ \A j \in Ids : Hosted(j)'
<1>1. PICK i \in Ids :
         /\ launcher[l].out[i] # <<>> /\ m_process = l
         /\ readMessage(l, i) \/ readBehind(l, i)
         /\ UNCHANGED <<m_process, m_info, m_memoryRestricted, m_internalProcesses, destroyed,
                        qproc, told, m_backendMap, created, host, asked, stops, changes, behind,
                        crashed>>
  BY DEF PipeReadyRead
<1> DEFINE p == launcher[l]
           n == launcher'[l]
           s == Head(launcher[l].out[i])
<1>2. Works
  BY DEF PipeReadyRead
<1>3. /\ \A k \in Launchers : k # l => launcher'[k] = launcher[k]
      /\ n.up = p.up /\ n.stage = p.stage /\ n.inbox = p.inbox
      /\ \A j \in Ids : n.out[j] = IF j = i THEN Tail(p.out[i]) ELSE p.out[j]
      /\ s \in Signals
  BY <1>1, ReadEffect DEF readMessage, readBehind
<1>4. UNCHANGED <<m_process, qproc, m_backendMap, created, host, behind, destroyed, crashed>>
  BY <1>1
<1>5. p.out[i] \in Seq(Signals) /\ p.out[i] # <<>>
  BY <1>1 DEF Types, Programs
<1>6. host[i] = l /\ Once(p, i) /\ ~Clean(p, i) /\ l # None
  BY <1>5, ConstantsAssumption DEF Hosted, Foreign, Clean
<1>7. Works' = Works
  BY <1>4 DEF Works
<1>8. \/ seen' = seen /\ (i \notin m_backendMap \/ m_buffer # None)
      \/ /\ i \in m_backendMap
         /\ seen' = [seen EXCEPT ![i] = Life(i)!After(seen[i], s)]
  BY <1>1, Zenon DEF readMessage, readBehind, receive, exists, emit
<1>9. l \notin behind => m_buffer = None
  BY <1>1, <1>6 DEF Buffered
<1>10. \A j \in Ids : j # i => seen'[j] = seen[j]
  BY <1>8 DEF Types
<1>11. i \in m_backendMap /\ l \notin behind =>
          /\ seen'[i] = Life(i)!After(seen[i], s) /\ seen'[i] \in LifeStages
          /\ Follows(n, i, seen'[i])
  <2> SUFFICES ASSUME i \in m_backendMap, l \notin behind
               PROVE  /\ seen'[i] = Life(i)!After(seen[i], s)
                      /\ seen'[i] \in LifeStages
                      /\ Follows(n, i, seen'[i])
    OBVIOUS
  <2> DEFINE a == Life(i)!After(seen[i], s)
  <2>1. seen' = [seen EXCEPT ![i] = a]
    BY <1>8, <1>9
  <2>2. a = P!Life!After(seen[i], s)
    BY LifeNames
  <2>3. Follows(p, i, seen[i])
    BY <1>1, <1>2, <1>6 DEF Hosted
  <2>4. PICK e \in LifeStages : Path(p.out[i], seen[i], e) /\ (p.up => e = p.stage[i])
    BY <2>3 DEF Follows
  <2>5. /\ P!Life!After(seen[i], s) \in LifeStages
        /\ Path(Tail(p.out[i]), P!Life!After(seen[i], s), e)
    BY <1>5, <2>4, PathHead
  <2> HIDE DEF a
  <2>6. seen'[i] = a
    BY <2>1 DEF Types
  <2> HIDE DEF n, p
  <2>7. Follows(n, i, a)
    BY <1>3, <2>2, <2>4, <2>5 DEF Follows
  <2>8. QED
    BY <2>2, <2>5, <2>6, <2>7 DEF a
<1>12. ASSUME NEW j \in Ids, j # i PROVE Hosted(j)'
  <2>1. n.out[j] = p.out[j]
    BY <1>3, <1>12
  <2>2. /\ Foreign(p, j) => Foreign(n, j)
        /\ Once(p, j) => Once(n, j)
        /\ \A g : Follows(p, j, g) => Follows(n, j, g)
    <3> HIDE DEF p, n
    <3>1. \A k : Starts(n, j, k) <=> Starts(p, j, k)
      BY <1>3 DEF Starts
    <3>2. Clean(n, j) <=> Clean(p, j)
      BY <1>3, <2>1 DEF Clean
    <3>3. Foreign(p, j) => Foreign(n, j)
      BY <1>3, <3>1, <3>2 DEF Foreign
    <3>4. Once(p, j) => Once(n, j)
      BY <1>3, <3>1, <3>2 DEF Once
    <3>5. \A g : Follows(p, j, g) => Follows(n, j, g)
      BY <1>3, <2>1 DEF Follows
    <3>6. QED
      BY <3>3, <3>4, <3>5
  <2>3. \A k \in Launchers : /\ Foreign(launcher[k], j) => Foreign(launcher'[k], j)
                             /\ Once(launcher[k], j) => Once(launcher'[k], j)
    BY <1>3, <2>2
  <2>4. \A g : Follows(launcher[m_process], j, g) => Follows(launcher'[m_process], j, g)
    BY <1>1, <2>2
  <2>5. seen'[j] = seen[j]
    BY <1>10, <1>12
  <2>6. QED
    BY <1>4, <1>7, <2>3, <2>4, <2>5, HostedKept
<1>13. Hosted(i)'
  <2>1. \A k \in Launchers :
           /\ host'[i] # k => Foreign(launcher'[k], i)
           /\ host'[i] = k => Once(launcher'[k], i) /\ qproc'[k] # "unused"
    <3>1. Once(n, i)
      <4> HIDE DEF p, n
      <4>1. \A k : Starts(n, i, k) => Starts(p, i, k)
        BY <1>3 DEF Starts
      <4>2. \A k : ~Starts(p, i, k)
        BY <1>6 DEF Once, Starts
      <4>3. QED
        BY <4>1, <4>2 DEF Once
    <3>2. QED
      BY <1>3, <1>4, <1>6, <3>1 DEF Hosted
  <2>2. i \notin created' => host'[i] = None /\ seen'[i] = "fresh"
    BY <1>4, <1>6 DEF Hosted
  <2>3. Works' /\ i \in m_backendMap' /\ host'[i] = None => seen'[i] = "fresh"
    BY <1>4, <1>6
  <2>4. Works' /\ i \in m_backendMap' /\ host'[i] # None /\ host'[i] = m_process'
               /\ m_process' \notin behind' =>
           Follows(launcher'[m_process'], i, seen'[i])
    BY <1>1, <1>4, <1>11
  <2>5. QED
    BY <2>1, <2>2, <2>3, <2>4 DEF Hosted
<1>14. \/ host[i] \in behind \/ seen'[i] = seen[i]
       \/ \E x \in Signals : seen'[i] = Life(i)!After(seen[i], x) /\ seen'[i] \in LifeStages
  <2> HIDE DEF s
  <2>1. QED
    BY <1>3, <1>6, <1>8, <1>11
<1>15. QED
  BY <1>10, <1>12, <1>13, <1>14

(***************************************************************************)
(* The theorems about processes.                                           *)
(***************************************************************************)

\* No id has a launcher.
LEMMA InitHosted == Init => \A i \in Ids : Hosted(i)
<1> SUFFICES ASSUME Init, NEW i \in Ids PROVE Hosted(i)
  OBVIOUS
<1>1. \A l \in Launchers : Foreign(launcher[l], i) /\ Once(launcher[l], i)
  BY FreshKnowsNone DEF Init
<1>2. host[i] = None /\ seen[i] = "fresh" /\ m_backendMap = {}
  BY DEF Init, NoBackends
<1>3. \A l \in Launchers : host[i] # l
  BY <1>2, ConstantsAssumption
<1>4. QED
  BY <1>1, <1>2, <1>3 DEF Hosted

\* Every step keeps each id with its launcher.
LEMMA NextHosted ==
    ASSUME Types, Buffered, StartOnce, \A i \in Ids : Hosted(i), [Next]_vars
    PROVE  \A i \in Ids : Hosted(i)'
<1>1. CASE UNCHANGED vars
  <2>1. UNCHANGED <<m_process, qproc, launcher, m_backendMap, created, host, seen, behind,
                    destroyed, crashed>>
    BY <1>1 DEF vars, factoryVars, launcherVars, backendVars, clientVars
  <2>2. Works' = Works
    BY <2>1 DEF Works
  <2>3. QED
    BY <2>1, <2>2, HostedKept
<1>2. ASSUME NEW l \in Launchers, PipeReadyRead(l)
      PROVE  \A i \in Ids : Hosted(i)'
  BY <1>2, ReadSteps, HostedCrash
<1>3. CASE Next
  BY <1>2, <1>3, HostedByClient, HostedByOwner, HostedByEvents DEF Next, PipeEvent
<1>4. QED
  BY <1>1, <1>3

\* The view that is followed by what is still in the pipe is the one reported last.
LEMMA FollowedView ==
    ASSUME Types, \A i \in Ids : Hosted(i)
    PROVE  NothingLost
<1> SUFFICES ASSUME NEW i \in m_backendMap, Works, m_process # None, host[i] = m_process,
                    launcher[m_process].up, m_process \notin behind
             PROVE  Life(i)!Reached(seen[i], launcher[m_process].out[i])
                       = launcher[m_process].stage[i]
  BY DEF NothingLost
<1> DEFINE n == launcher[m_process]
<1>1. i \in Ids /\ m_process \in Launchers
  BY DEF Types
<1>2. n \in Programs /\ n.out[i] \in Seq(Signals) /\ n.stage[i] \in RestStages
  BY <1>1 DEF Types, Programs
<1>3. Follows(n, i, seen[i])
  BY <1>1 DEF Hosted
<1>4. Path(n.out[i], seen[i], n.stage[i])
  BY <1>3 DEF Follows
<1>5. P!Life!Reached(seen[i], n.out[i]) = n.stage[i]
  BY <1>2, <1>4, PathReached
<1>6. QED
  BY <1>5, LifeNames

\* What one step may do to the view of a client whose factory is there, and whose launcher
\* does not write behind a part of another one's message.
LEMMA ViewSteps ==
    ASSUME Types, Buffered, StartOnce, \A i \in Ids : Hosted(i), [Next]_vars, NEW i \in Ids,
           host[i] \notin behind, ~destroyed'
    PROVE  [Life(i)!Next]_(seen[i])
<1>1. ASSUME seen'[i] = "gone"
      PROVE  [Life(i)!Next]_(seen[i])
  <2>1. CASE seen[i] # "gone"
    BY <1>1, <2>1 DEF Life!Next, Life!Destroy
  <2>2. CASE seen[i] = "gone"
    BY <1>1, <2>2
  <2>3. QED
    BY <2>1, <2>2
<1>2. ASSUME NEW s \in Signals, seen'[i] = Life(i)!After(seen[i], s), seen'[i] \in LifeStages
      PROVE  Life(i)!Next
  <2>1. s \in Life(i)!Signals /\ Life(i)!After(seen[i], s) \in Life(i)!Stages
    BY <1>2, LifeNames
  <2>2. QED
    BY <1>2, <2>1 DEF Life!Next, Life!Receive
<1>3. CASE UNCHANGED seen
  BY <1>3
<1>4. ASSUME NEW j \in Ids, DeleteBackend(j)
      PROVE  [Life(i)!Next]_(seen[i])
  <2>1. seen' = [seen EXCEPT ![j] = "gone"]
    BY <1>4 DEF DeleteBackend
  <2>2. CASE i = j
    BY <1>1, <2>1, <2>2 DEF Types
  <2>3. CASE i # j
    BY <2>1, <2>3 DEF Types
  <2>4. QED
    BY <2>2, <2>3
<1>5. ~DestroyFactory
  BY DEF DestroyFactory
<1>6. ASSUME NEW l \in Launchers, PipeReadyRead(l), ~Crash
      PROVE  [Life(i)!Next]_(seen[i])
  <2>1. PICK j \in Ids :
           /\ \/ host[j] \in behind \/ seen'[j] = seen[j]
              \/ \E s \in Signals : /\ seen'[j] = Life(j)!After(seen[j], s)
                                    /\ seen'[j] \in LifeStages
           /\ \A k \in Ids : k # j => seen'[k] = seen[k]
    BY <1>6, ReadSteps
  <2>2. QED
    BY <1>2, <2>1
<1>7. Crash => UNCHANGED seen
  BY DEF Crash, clientVars
<1>8. ASSUME NEW j \in Ids, create(j) \/ start(j) \/ stop(j)
      PROVE  UNCHANGED seen
  BY <1>7, <1>8 DEF create, start, stop
<1>9. ASSUME NEW v \in BOOLEAN, setMemoryRestricted(v) \/ setProcessInfo(v)
      PROVE  UNCHANGED seen
  BY <1>7, <1>9 DEF setMemoryRestricted, setProcessInfo
<1>10. ASSUME NEW l \in Launchers,
              PipeRuns(l) \/ PipeFails(l) \/ PipeFinished(l) \/ LauncherWorks(l)
       PROVE  UNCHANGED seen
  <2>1. PipeRuns(l) \/ PipeFails(l) \/ LauncherWorks(l) => UNCHANGED seen
    BY <1>7 DEF PipeRuns, PipeFails, LauncherWorks, LauncherStep, clientVars
  <2>2. PipeFinished(l) => UNCHANGED seen
    BY Zenon DEF PipeFinished, clientVars
  <2>3. QED
    BY <1>10, <2>1, <2>2
<1>11. UNCHANGED vars => UNCHANGED seen
  BY DEF vars, clientVars
<1>12. QED
  BY <1>3, <1>4, <1>5, <1>6, <1>7, <1>8, <1>9, <1>10, <1>11 DEF Next, PipeEvent

\* IInv is an invariant, if clients start a backend once.
THEOREM Invariance == ASSUME StartOnce PROVE Safe => []IInv
<1>1. Init => IInv
  BY InitTypes, InitHosted
     DEF Init, IInv, Known, RestrictionTold, LauncherListed, running, Buffered
<1>2. IInv /\ [Next]_vars => IInv'
  BY NextTypes, NextKnown, NextBuffered, NextHosted DEF IInv
<1>3. QED
  BY <1>1, <1>2, PTL DEF Safe

\* ReportsArrive: what a client has seen of its process, followed by what is still in the
\* pipe, is what the launcher reported, for any number of processes and launchers, unless
\* the launcher was started while m_buffer held a part of a former one's message.
THEOREM ReportsAlwaysArrive == ASSUME StartOnce PROVE Safe => []ReportsArrive
<1>1. IInv => NothingLost
  BY FollowedView DEF IInv
<1>2. QED
  BY <1>1, Invariance, TypeCorrect, PTL DEF ReportsArrive

\* ImplementsLifecycle: every client sees one life cycle of its process, although the
\* events come from launchers that end, lose reports or are replaced on the way.  Excepted
\* are the launchers that write behind a part of a message, and the end of the factory.
THEOREM BackendImplementsLifecycle == ASSUME StartOnce PROVE Safe => ImplementsLifecycle
<1>1. Init => \A i \in Ids : Life(i)!Init
  BY DEF Init, Life!Init
<1>2. IInv /\ [Next]_vars =>
         [\A i \in Ids : host[i] \in behind \/ destroyed' \/ [Life(i)!Next]_(seen[i])]_seen
  BY ViewSteps DEF IInv
<1>3. QED
  BY <1>1, <1>2, Invariance, PTL DEF Safe, ImplementsLifecycle
=============================================================================
