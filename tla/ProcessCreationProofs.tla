----------------------- MODULE ProcessCreationProofs -----------------------
(***************************************************************************)
(* Proofs about ProcessCreation for every user database, every record and  *)
(* every process that forks, any delegates and any number of edits and     *)
(* exchanges; and, from "Prefork: the inductive invariant" on, about       *)
(* Prefork for every command line and every set of open descriptors.       *)
(***************************************************************************)
EXTENDS ProcessCreation, Prefork, FiniteSetTheorems, SequenceTheorems, WellFoundedInduction,
        TLAPS

(***************************************************************************)
(* Records.                                                                *)
(***************************************************************************)

\* A map that was written over another.
LEMMA OverMaps ==
    ASSUME NEW new, NEW old
    PROVE  /\ DOMAIN Over(new, old) = DOMAIN new \cup DOMAIN old
           /\ \A key \in DOMAIN new : Over(new, old)[key] = new[key]
           /\ \A key \in DOMAIN old \ DOMAIN new : Over(new, old)[key] = old[key]
           /\ Over(new, old) = [key \in DOMAIN Over(new, old) |-> Over(new, old)[key]]
BY DEF Over

\* A key that is written to has the new value, and the others have theirs.
LEMMA InsertedKey ==
    ASSUME NEW r, NEW key, NEW value
    PROVE  /\ DOMAIN Inserted(r, key, value) = DOMAIN r \cup {key}
           /\ Inserted(r, key, value)[key] = value
           /\ \A k \in DOMAIN r \ {key} : Inserted(r, key, value)[k] = r[k]
<1> DEFINE new == [k \in {key} |-> value]
<1>1. DOMAIN new = {key} /\ new[key] = value
  OBVIOUS
<1> HIDE DEF new
<1>2. Inserted(r, key, value) = Over(new, r)
  BY DEF Inserted, new
<1> QED
  BY <1>1, <1>2 DEF Over

\* A record stays one when a key is set.
LEMMA InsertedInfo ==
    ASSUME NEW r, IsInfo(r), NEW key \in Keys, NEW value, IsValue(key, value)
    PROVE  IsInfo(Inserted(r, key, value))
<1> DEFINE new == Inserted(r, key, value)
<1>1. /\ DOMAIN new = DOMAIN r \cup {key} /\ new[key] = value
      /\ \A k \in DOMAIN r \ {key} : new[k] = r[k]
  BY DEF Inserted, Over
<1> HIDE DEF new
<1>2. IsInfo(new)
  BY <1>1 DEF IsInfo
<1> QED
  BY <1>2 DEF new

\* What was announced of an edit is what it changed, or nothing.
Announced(old, result) ==
    result.signals # <<>> =>
       ToSet(result.signals) =
          {key \in Keys : contains(result.info, key)
                          /\ ~(contains(old, key) /\ old[key] = result.info[key])}

RightEdit(old, result) ==
    /\ IsInfo(result.info)
    /\ ToSet(result.signals) \subseteq Keys
    /\ Announced(old, result)

\* The signals of one key.
LEMMA OneKey ==
    ASSUME NEW key
    PROVE  /\ ToSet(<<key>>) = {key} /\ ToSet(<<key, key>>) = {key}
           /\ ToSet(<<>>) = {} /\ <<key>> # <<>> /\ <<key, key>> # <<>>
BY DEF ToSet

\* An edit that says nothing.
LEMMA SilentEdit ==
    ASSUME NEW old, NEW r, IsInfo(r)
    PROVE  RightEdit(old, Result(r, <<>>))
BY OneKey DEF RightEdit, Announced, Result

\* An edit that changes one key, and says so.
LEMMA OneChange ==
    ASSUME NEW r, IsInfo(r), NEW key \in Keys, NEW value, IsValue(key, value),
           ~(contains(r, key) /\ r[key] = value),
           NEW news \in {<<key>>, <<key, key>>}
    PROVE  RightEdit(r, Result(Inserted(r, key, value), news))
<1> DEFINE new == Inserted(r, key, value)
           result == Result(new, news)
<1>1. /\ DOMAIN new = DOMAIN r \cup {key} /\ new[key] = value
      /\ \A k \in DOMAIN r \ {key} : new[k] = r[k]
  BY DEF Inserted, Over
<1>2. IsInfo(new)
  BY InsertedInfo
<1> HIDE DEF new
<1>3. result.info = new /\ result.signals = news
  BY DEF Result
<1>4. ToSet(news) = {key}
  BY OneKey
<1> HIDE DEF result
<1>5. {k \in Keys : contains(new, k) /\ ~(contains(r, k) /\ r[k] = new[k])} = {key}
  BY <1>1 DEF contains
<1>6. RightEdit(r, result)
  BY <1>2, <1>3, <1>4, <1>5 DEF RightEdit, Announced
<1> QED
  BY <1>6 DEF result, new

\* QProcessInfo::setValue.
LEMMA SetValueIsRight ==
    ASSUME NEW r, IsInfo(r), NEW key \in Keys, NEW value, IsValue(key, value)
    PROVE  RightEdit(r, setValue(r, key, value))
BY SilentEdit, OneChange DEF setValue

\* The setters.
LEMMA SetIsRight ==
    ASSUME NEW r, IsInfo(r), NEW key \in Keys, NEW value, IsValue(key, value)
    PROVE  RightEdit(r, set(r, key, value))
<1>1. CASE key = "program"
  <2>1. set(r, key, value) = Result(Inserted(r, key, value), <<>>)
    BY <1>1 DEF set, setProgram
  <2> QED
    BY <2>1, InsertedInfo, SilentEdit
<1>2. CASE key \in {"priority", "oomAdjustment"}
  <2>1. set(r, key, value) = setAdjustment(r, key, value)
    BY <1>2 DEF set
  <2>2. CASE value = Number(r, key)
    BY <2>1, <2>2, SilentEdit DEF setAdjustment
  <2>3. CASE value # Number(r, key)
    <3>1. ~(contains(r, key) /\ r[key] = value)
      BY <2>3 DEF Number
    <3> QED
      BY <2>1, <2>3, <3>1, OneChange DEF setAdjustment
  <2> QED
    BY <2>2, <2>3
<1>3. CASE key \notin {"program", "priority", "oomAdjustment"}
  <2>1. set(r, key, value) = setValue(r, key, value)
    BY <1>3 DEF set
  <2> QED
    BY <2>1, SetValueIsRight
<1> QED
  BY <1>1, <1>2, <1>3

\* QProcessInfo::insertEnvironment.
LEMMA EnvironmentIsRight ==
    ASSUME NEW r, IsInfo(r), NEW env
    PROVE  RightEdit(r, insertEnvironment(r, env))
<1> DEFINE value == Over(env, Value(r, "environment"))
<1>1. value = [name \in DOMAIN value |-> value[name]]
  BY OverMaps
<1> HIDE DEF value
<1>2. IsValue("environment", value) /\ "environment" \in Keys
  BY <1>1 DEF IsValue, Keys, NumericKeys
<1>3. insertEnvironment(r, env) = setValue(r, "environment", value)
  BY DEF insertEnvironment, value
<1> QED
  BY <1>2, <1>3, SetValueIsRight

\* QProcessInfo::insert and setData.
LEMMA ManyKeys ==
    ASSUME NEW r, IsInfo(r), NEW data, IsInfo(data)
    PROVE  RightEdit(r, insert(r, data)) /\ RightEdit(r, setData(r, data))
<1> DEFINE new == Over(data, r)
<1>1. /\ DOMAIN new = DOMAIN data \cup DOMAIN r
      /\ \A key \in DOMAIN data : new[key] = data[key]
      /\ \A key \in DOMAIN r \ DOMAIN data : new[key] = r[key]
  BY DEF Over
<1> HIDE DEF new
<1>2. IsInfo(new)
  BY <1>1 DEF IsInfo
<1> QED
  BY <1>2, SilentEdit DEF insert, setData, new

(***************************************************************************)
(* Processes.                                                              *)
(***************************************************************************)

\* Two processes with the same ids and groups, and with the same of everything else.
SameIds(p, q) == q.uid = p.uid /\ q.gid = p.gid /\ q.groups = p.groups
SameRest(p, q) == q.umask = p.umask /\ q.nice = p.nice /\ q.env = p.env /\ q.argv = p.argv

\* A process has its attributes and no others.
LEMMA Attributes ==
    ASSUME NEW p, IsProcess(p)
    PROVE  DOMAIN p = {"uid", "gid", "groups", "umask", "nice", "env", "argv", "deathsig"}
BY DEF IsProcess

\* Something with the domain of a process is one if its attributes have their types.
LEMMA ProcessByParts ==
    ASSUME NEW p, NEW q, IsProcess(p), DOMAIN q = DOMAIN p, q = [k \in DOMAIN q |-> q[k]],
           q.uid \in Nat, q.gid \in Nat, q.umask \in 0..AllBits, q.nice \in Int,
           q.argv \in Seq({q.argv[n] : n \in DOMAIN q.argv}), q.argv # <<>>
    PROVE  IsProcess(q)
<1>1. DOMAIN q = {"uid", "gid", "groups", "umask", "nice", "env", "argv", "deathsig"}
  BY Attributes
<1>2. q = [uid |-> q.uid, gid |-> q.gid, groups |-> q.groups, umask |-> q.umask,
           nice |-> q.nice, env |-> q.env, argv |-> q.argv, deathsig |-> q.deathsig]
  BY <1>1
<1> QED
  BY <1>2 DEF IsProcess

\* prctl
LEMMA PrctlEffect ==
    ASSUME NEW p, IsProcess(p)
    PROVE  IsProcess(prctl(p)) /\ SameIds(p, prctl(p)) /\ SameRest(p, prctl(p))
<1> DEFINE q == prctl(p)
<1>1. DOMAIN q = DOMAIN p /\ q = [k \in DOMAIN q |-> q[k]]
  BY DEF prctl
<1>2. SameIds(p, q) /\ SameRest(p, q)
  BY DEF prctl, SameIds, SameRest, IsProcess
<1> HIDE DEF q
<1>3. IsProcess(q)
  BY <1>1, <1>2, ProcessByParts DEF SameIds, SameRest, IsProcess
<1> QED
  BY <1>2, <1>3 DEF q

\* setgid
LEMMA SetgidEffect ==
    ASSUME NEW p, IsProcess(p), NEW gid \in Int
    PROVE  LET q == setgid(p, gid) IN
           /\ IsProcess(q) /\ SameRest(p, q) /\ q.uid = p.uid /\ q.groups = p.groups
           /\ q.gid = IF MaySetgid(p, gid) THEN gid ELSE p.gid
<1> DEFINE q == setgid(p, gid)
<1>1. DOMAIN q = DOMAIN p /\ q = [k \in DOMAIN q |-> q[k]]
  BY DEF setgid, IsProcess
<1>2. /\ SameRest(p, q) /\ q.uid = p.uid /\ q.groups = p.groups
      /\ q.gid = IF MaySetgid(p, gid) THEN gid ELSE p.gid
  BY Attributes DEF setgid, SameRest
<1>3. MaySetgid(p, gid) => gid \in Nat
  BY DEF MaySetgid
<1> HIDE DEF q
<1>4. q.uid \in Nat /\ q.gid \in Nat
  BY <1>2, <1>3 DEF IsProcess
<1>5. IsProcess(q)
  BY <1>1, <1>2, <1>4, ProcessByParts DEF SameRest, IsProcess
<1> QED
  BY <1>2, <1>5 DEF q

\* setuid
LEMMA SetuidEffect ==
    ASSUME NEW p, IsProcess(p), NEW uid \in Int
    PROVE  LET q == setuid(p, uid) IN
           /\ IsProcess(q) /\ SameRest(p, q) /\ q.gid = p.gid /\ q.groups = p.groups
           /\ q.uid = IF MaySetuid(p, uid) THEN uid ELSE p.uid
<1> DEFINE q == setuid(p, uid)
<1>1. DOMAIN q = DOMAIN p /\ q = [k \in DOMAIN q |-> q[k]]
  BY DEF setuid, IsProcess
<1>2. /\ SameRest(p, q) /\ q.gid = p.gid /\ q.groups = p.groups
      /\ q.uid = IF MaySetuid(p, uid) THEN uid ELSE p.uid
  BY Attributes DEF setuid, SameRest
<1>3. MaySetuid(p, uid) => uid \in Nat
  BY DEF MaySetuid
<1> HIDE DEF q
<1>4. q.uid \in Nat /\ q.gid \in Nat
  BY <1>2, <1>3 DEF IsProcess
<1>5. IsProcess(q)
  BY <1>1, <1>2, <1>4, ProcessByParts DEF SameRest, IsProcess
<1> QED
  BY <1>2, <1>5 DEF q

\* setgroups
LEMMA SetgroupsEffect ==
    ASSUME NEW p, IsProcess(p), NEW groups
    PROVE  LET q == setgroups(p, groups) IN
           /\ IsProcess(q) /\ SameRest(p, q) /\ q.uid = p.uid /\ q.gid = p.gid
           /\ q.groups = IF Privileged(p) THEN groups ELSE p.groups
<1> DEFINE q == setgroups(p, groups)
<1>1. DOMAIN q = DOMAIN p /\ q = [k \in DOMAIN q |-> q[k]]
  BY DEF setgroups, IsProcess
<1>2. /\ SameRest(p, q) /\ q.uid = p.uid /\ q.gid = p.gid
      /\ q.groups = IF Privileged(p) THEN groups ELSE p.groups
  BY Attributes DEF setgroups, SameRest
<1> HIDE DEF q
<1>3. IsProcess(q)
  BY <1>1, <1>2, ProcessByParts DEF SameRest, IsProcess
<1> QED
  BY <1>2, <1>3 DEF q

\* setpriority
LEMMA SetpriorityEffect ==
    ASSUME NEW p, IsProcess(p), NEW nice \in Int
    PROVE  LET q == setpriority(p, nice) IN
           /\ IsProcess(q) /\ SameIds(p, q)
           /\ q.umask = p.umask /\ q.env = p.env /\ q.argv = p.argv
           /\ q.nice = IF MaySetpriority(p, nice) THEN nice ELSE p.nice
<1> DEFINE q == setpriority(p, nice)
<1>1. DOMAIN q = DOMAIN p /\ q = [k \in DOMAIN q |-> q[k]]
  BY DEF setpriority, IsProcess
<1>2. /\ SameIds(p, q) /\ q.umask = p.umask /\ q.env = p.env /\ q.argv = p.argv
      /\ q.nice = IF MaySetpriority(p, nice) THEN nice ELSE p.nice
  BY Attributes DEF setpriority, SameIds
<1> HIDE DEF q
<1>3. IsProcess(q)
  BY <1>1, <1>2, ProcessByParts DEF SameIds, IsProcess
<1> QED
  BY <1>2, <1>3 DEF q

\* The mask of a process that asks for one: nine bits.
MaskOf(mask) == IF mask = -1 THEN AllBits ELSE mask % (AllBits + 1)

\* umask
LEMMA UmaskEffect ==
    ASSUME NEW p, IsProcess(p), NEW mask \in Int
    PROVE  LET q == umask(p, mask) IN
           /\ IsProcess(q) /\ SameIds(p, q)
           /\ q.nice = p.nice /\ q.env = p.env /\ q.argv = p.argv
           /\ q.umask = MaskOf(mask)
<1> DEFINE q == umask(p, mask)
<1>1. DOMAIN q = DOMAIN p /\ q = [k \in DOMAIN q |-> q[k]]
  BY DEF umask, IsProcess
<1>2. /\ SameIds(p, q) /\ q.nice = p.nice /\ q.env = p.env /\ q.argv = p.argv
      /\ q.umask = MaskOf(mask)
  BY Attributes DEF umask, SameIds, MaskOf
<1>3. MaskOf(mask) \in 0..AllBits
  BY DEF MaskOf, AllBits
<1> HIDE DEF q
<1>4. IsProcess(q)
  BY <1>1, <1>2, <1>3, ProcessByParts DEF SameIds, IsProcess
<1> QED
  BY <1>2, <1>4 DEF q

\* A child that was killed is no process.
LEMMA KilledIsNone == ASSUME NEW p, IsProcess(p) PROVE p # Killed
<1>1. "uid" \in DOMAIN p
  BY Attributes
<1>2. "uid" \notin DOMAIN Killed
  BY DEF Killed
<1> QED
  BY <1>1, <1>2

(***************************************************************************)
(* Children.                                                               *)
(***************************************************************************)

\* A sequence of anything is one of its own elements.
LEMMA OwnElements ==
    ASSUME NEW S, NEW a \in Seq(S)
    PROVE  a \in Seq({a[n] : n \in DOMAIN a})
<1> DEFINE T == {a[n] : n \in DOMAIN a}
<1>1. DOMAIN a = 1 .. Len(a) /\ Len(a) \in Nat /\ a = [n \in 1 .. Len(a) |-> a[n]]
  BY LenProperties, SeqDef
<1>2. a \in [1 .. Len(a) -> T]
  BY <1>1
<1> HIDE DEF T
<1>3. a \in Seq(T)
  BY <1>1, <1>2, SeqDef
<1> QED
  BY <1>3 DEF T

\* A program's name and its arguments.
LEMMA CommandLine ==
    ASSUME NEW name, NEW a, a \in Seq({a[n] : n \in DOMAIN a})
    PROVE  LET words == <<name>> \o a IN
           words \in Seq({words[n] : n \in DOMAIN words}) /\ words # <<>>
<1> DEFINE S == {a[n] : n \in DOMAIN a} \cup {name}
           words == <<name>> \o a
<1>1. a \in Seq(S)
  <2> DEFINE T == {a[n] : n \in DOMAIN a}
  <2>1. a \in Seq(T) /\ T \subseteq S
    OBVIOUS
  <2> HIDE DEF T, S
  <2> QED
    BY <2>1
<1>2. <<name>> \in Seq(S) /\ Len(<<name>>) = 1
  OBVIOUS
<1> HIDE DEF S
<1>3. words \in Seq(S) /\ Len(words) = 1 + Len(a) /\ Len(a) \in Nat
  BY <1>1, <1>2, ConcatProperties, LenProperties
<1>4. words # <<>>
  <2> HIDE DEF words
  <2> QED
    BY <1>3
<1>5. words \in Seq({words[n] : n \in DOMAIN words})
  <2> HIDE DEF words
  <2> QED
    BY <1>3, OwnElements
<1> QED
  BY <1>4, <1>5

\* The numbers of a record.
LEMMA NumberIsInt ==
    ASSUME NEW r, IsInfo(r), NEW key \in NumericKeys
    PROVE  Number(r, key) \in Int /\ (contains(r, key) => r[key] \in Int)
<1>1. CASE contains(r, key)
  <2>1. IsValue(key, r[key])
    BY <1>1 DEF IsInfo, contains
  <2>2. r[key] \in Int
    BY <2>1 DEF IsValue
  <2> QED
    BY <1>1, <2>2 DEF Number
<1>2. CASE ~contains(r, key)
  BY <1>2 DEF Number
<1> QED
  BY <1>1, <1>2

\* The ids of a record are numbers.
LEMMA IdsAreInts ==
    ASSUME NEW r, IsInfo(r)
    PROVE  /\ SandboxUid(r) \in Int /\ SandboxGid(r) \in Int
           /\ contains(r, "uid") => r.uid \in Int
           /\ contains(r, "gid") => r.gid \in Int
           /\ contains(r, "priority") => r.priority \in Int
           /\ Number(r, "umask") \in Int
<1>1. {"uid", "gid", "priority", "umask"} \subseteq NumericKeys
  BY DEF NumericKeys
<1>2. /\ contains(r, "uid") => r.uid \in Int
      /\ contains(r, "gid") => r.gid \in Int
      /\ contains(r, "priority") => r.priority \in Int
  BY <1>1 DEF IsInfo, IsValue, contains
<1>3. Number(r, "umask") \in Int
  BY <1>1, NumberIsInt
<1> QED
  BY <1>2, <1>3 DEF SandboxUid, SandboxGid

\* The arguments of a record are a sequence.
LEMMA ArgumentsAreSeq ==
    ASSUME NEW r, IsInfo(r)
    PROVE  LET a == Value(r, "arguments") IN a \in Seq({a[n] : n \in DOMAIN a})
<1> DEFINE a == Value(r, "arguments")
<1>1. CASE contains(r, "arguments")
  <2>1. a = r["arguments"] /\ IsValue("arguments", r["arguments"])
    BY <1>1 DEF Value, contains, IsInfo
  <2>2. IsValue("arguments", a)
    BY <2>1
  <2> HIDE DEF a
  <2>3. a \in Seq({a[n] : n \in DOMAIN a})
    BY <2>2 DEF IsValue
  <2> QED
    BY <2>3 DEF a
<1>2. CASE ~contains(r, "arguments")
  <2>1. a = <<>>
    BY <1>2 DEF Value, Default
  <2> HIDE DEF a
  <2>2. a \in Seq({})
    BY <2>1
  <2>3. a \in Seq({a[n] : n \in DOMAIN a})
    BY <2>2, OwnElements
  <2> QED
    BY <2>3 DEF a
<1> QED
  BY <1>1, <1>2

\* What setupChildProcess makes of the ids, as its table says: a child of p gets the ids
\* and groups of its row, or it is killed.
IdsOf(p, uid, gid, c) ==
    /\ uid >= 0 \/ gid >= 0 => Privileged(p)
    /\ c.uid = IF uid >= 0 THEN uid ELSE p.uid
    /\ c.gid = IF gid >= 0 THEN gid ELSE IF uid >= 0 THEN Passwd[uid].gid ELSE p.gid
    /\ c.groups = IF uid >= 0 THEN GroupsFor(p, uid, gid) ELSE IF gid >= 0 THEN {} ELSE p.groups
KilledFor(p, uid, gid) ==
    \/ uid >= 0 /\ (~Privileged(p) \/ (gid < 0 /\ uid \notin DOMAIN Passwd))
    \/ uid < 0 /\ gid >= 0 /\ ~Privileged(p)

LEMMA IdentifiedEffect ==
    ASSUME NEW p, IsProcess(p), NEW uid \in Int, NEW gid \in Int
    PROVE  LET c == Identified(p, uid, gid) IN
           \/ c = Killed /\ KilledFor(p, uid, gid)
           \/ IsProcess(c) /\ SameRest(p, c) /\ IdsOf(p, uid, gid, c)
<1> DEFINE c == Identified(p, uid, gid)
<1>1. CASE KilledFor(p, uid, gid)
  BY <1>1 DEF KilledFor, Identified
<1>2. CASE ~KilledFor(p, uid, gid) /\ uid >= 0
  <2> DEFINE new == IF gid < 0 THEN Passwd[uid].gid ELSE gid
             grouped == setgroups(p, GroupsFor(p, uid, gid))
             owned == setgid(grouped, new)
  <2>1. Privileged(p) /\ (gid < 0 => uid \in DOMAIN Passwd) /\ uid \in Nat
    BY <1>2 DEF KilledFor
  <2>2. new \in Nat
    BY <2>1, PasswdAssumption
  <2>3. c = setuid(owned, uid)
    BY <1>2, <2>1 DEF Identified
  <2> HIDE DEF new
  <2>4. /\ IsProcess(grouped) /\ SameRest(p, grouped) /\ grouped.uid = p.uid
        /\ grouped.groups = GroupsFor(p, uid, gid)
    BY <2>1, SetgroupsEffect
  <2> HIDE DEF grouped
  <2>5. MaySetgid(grouped, new)
    BY <2>1, <2>2, <2>4 DEF MaySetgid, Privileged
  <2>6. /\ IsProcess(owned) /\ SameRest(grouped, owned) /\ owned.uid = grouped.uid
        /\ owned.groups = grouped.groups /\ owned.gid = new
    <3>1. new \in Int
      BY <2>2
    <3> QED
      BY <3>1, <2>4, <2>5, SetgidEffect
  <2> HIDE DEF owned, c
  <2>7. MaySetuid(owned, uid)
    BY <2>1, <2>4, <2>6 DEF MaySetuid, Privileged
  <2>8. /\ IsProcess(c) /\ SameRest(owned, c) /\ c.gid = owned.gid /\ c.groups = owned.groups
        /\ c.uid = uid
    BY <2>3, <2>6, <2>7, SetuidEffect
  <2>9. SameRest(p, c)
    BY <2>4, <2>6, <2>8 DEF SameRest
  <2>10. IdsOf(p, uid, gid, c)
    BY <1>2, <2>1, <2>4, <2>6, <2>8 DEF IdsOf, new
  <2> QED
    BY <2>8, <2>9, <2>10 DEF c
<1>3. CASE ~KilledFor(p, uid, gid) /\ uid < 0 /\ gid >= 0
  <2> DEFINE grouped == setgroups(p, {})
  <2>1. Privileged(p) /\ gid \in Nat
    BY <1>3 DEF KilledFor
  <2>2. c = setgid(grouped, gid)
    BY <1>3, <2>1 DEF Identified
  <2>3. /\ IsProcess(grouped) /\ SameRest(p, grouped) /\ grouped.uid = p.uid
        /\ grouped.groups = {}
    BY <2>1, SetgroupsEffect
  <2> HIDE DEF grouped, c
  <2>4. MaySetgid(grouped, gid)
    BY <2>1, <2>3 DEF MaySetgid, Privileged
  <2>5. /\ IsProcess(c) /\ SameRest(grouped, c) /\ c.uid = grouped.uid
        /\ c.groups = grouped.groups /\ c.gid = gid
    BY <2>2, <2>3, <2>4, SetgidEffect
  <2>6. SameRest(p, c)
    BY <2>3, <2>5 DEF SameRest
  <2>7. IdsOf(p, uid, gid, c)
    BY <1>3, <2>1, <2>3, <2>5 DEF IdsOf
  <2> QED
    BY <2>5, <2>6, <2>7 DEF c
<1>4. CASE uid < 0 /\ gid < 0
  <2>1. c = p
    BY <1>4 DEF Identified
  <2> QED
    BY <1>4, <2>1 DEF SameRest, IdsOf
<1> QED
  BY <1>1, <1>2, <1>3, <1>4

\* What startProcess makes of a child that is set up.
LEMMA StartEffect ==
    ASSUME NEW c, IsProcess(c), NEW r, IsInfo(r)
    PROVE  LET q == startProcess(c, r) IN
           /\ IsProcess(q) /\ SameIds(c, q) /\ q.umask = c.umask /\ q.nice = c.nice
           /\ q.argv = <<Value(r, "program")>> \o Value(r, "arguments")
           /\ q.env = IF Value(r, "environment") = Empty THEN c.env
                      ELSE Value(r, "environment")
<1> DEFINE q == startProcess(c, r)
           words == <<Value(r, "program")>> \o Value(r, "arguments")
           env == IF Value(r, "environment") = Empty THEN c.env ELSE Value(r, "environment")
<1>1. q = [c EXCEPT !.argv = words, !.env = env]
  BY KilledIsNone DEF startProcess
<1>2. words \in Seq({words[n] : n \in DOMAIN words}) /\ words # <<>>
  BY ArgumentsAreSeq, CommandLine
<1> HIDE DEF words, env
<1>3. DOMAIN q = DOMAIN c /\ q = [k \in DOMAIN q |-> q[k]]
  BY <1>1 DEF IsProcess
<1>4. SameIds(c, q) /\ q.umask = c.umask /\ q.nice = c.nice /\ q.argv = words /\ q.env = env
  BY <1>1, Attributes DEF SameIds
<1> HIDE DEF q
<1>5. IsProcess(q)
  BY <1>2, <1>3, <1>4, ProcessByParts DEF SameIds, IsProcess
<1> QED
  BY <1>4, <1>5 DEF q, words, env

\* A manager's own child: killed by the table, or with the ids of the table and with all
\* else as the record has it.
LEMMA SandboxEffect ==
    ASSUME NEW p, IsProcess(p), NEW r, IsInfo(r)
    PROVE  LET c == SandboxChild(p, r) IN
           \/ c = Killed /\ KilledFor(p, SandboxUid(r), SandboxGid(r))
           \/ /\ IsProcess(c) /\ IdsOf(p, SandboxUid(r), SandboxGid(r), c)
              /\ Number(r, "umask") >= 0 => c.umask = MaskOf(Number(r, "umask"))
              /\ c.argv = <<Value(r, "program")>> \o Value(r, "arguments")
              /\ c.env = IF Value(r, "environment") = Empty THEN p.env
                         ELSE Value(r, "environment")
<1> DEFINE a == prctl(p)
           b == SandboxUmask(a, r)
           uid == SandboxUid(r)
           gid == SandboxGid(r)
           d == Identified(b, uid, gid)
           c == SandboxChild(p, r)
<1>1. c = startProcess(d, r)
  BY DEF SandboxChild, setupChildProcess
<1>2. IsProcess(a) /\ SameIds(p, a) /\ SameRest(p, a)
  BY PrctlEffect
<1> HIDE DEF a
<1>3. uid \in Int /\ gid \in Int /\ Number(r, "umask") \in Int
  BY IdsAreInts
<1>4. /\ IsProcess(b) /\ SameIds(a, b) /\ b.env = a.env
      /\ Number(r, "umask") >= 0 => b.umask = MaskOf(Number(r, "umask"))
  <2>1. CASE Number(r, "umask") >= 0
    <3>1. b = umask(a, Number(r, "umask"))
      BY <2>1 DEF SandboxUmask
    <3> HIDE DEF b
    <3> QED
      BY <1>2, <1>3, <3>1, UmaskEffect
  <2>2. CASE ~(Number(r, "umask") >= 0)
    BY <1>2, <2>2 DEF SandboxUmask, SameIds
  <2> QED
    BY <2>1, <2>2
<1> HIDE DEF b, uid, gid
<1>5. \/ d = Killed /\ KilledFor(b, uid, gid)
      \/ IsProcess(d) /\ SameRest(b, d) /\ IdsOf(b, uid, gid, d)
  BY <1>3, <1>4, IdentifiedEffect
<1> HIDE DEF d, c
<1>6. b.uid = p.uid /\ b.gid = p.gid /\ b.groups = p.groups /\ b.env = p.env
  BY <1>2, <1>4 DEF SameIds, SameRest
<1>7. CASE d = Killed /\ KilledFor(b, uid, gid)
  <2>1. c = Killed
    BY <1>1, <1>7 DEF startProcess
  <2>2. KilledFor(p, uid, gid)
    BY <1>6, <1>7 DEF KilledFor, Privileged
  <2> QED
    BY <2>1, <2>2 DEF c, uid, gid
<1>8. CASE IsProcess(d) /\ SameRest(b, d) /\ IdsOf(b, uid, gid, d)
  <2>1. /\ IsProcess(c) /\ SameIds(d, c) /\ c.umask = d.umask
        /\ c.argv = <<Value(r, "program")>> \o Value(r, "arguments")
        /\ c.env = IF Value(r, "environment") = Empty THEN d.env
                   ELSE Value(r, "environment")
    BY <1>1, <1>8, StartEffect
  <2>2. IdsOf(p, uid, gid, c)
    BY <1>6, <1>8, <2>1 DEF IdsOf, SameIds, GroupsFor, Privileged
  <2>3. d.umask = b.umask /\ d.env = p.env
    BY <1>6, <1>8 DEF SameRest
  <2> QED
    BY <1>4, <2>1, <2>2, <2>3 DEF c, uid, gid
<1> QED
  BY <1>5, <1>7, <1>8

\* The environment of a launcher's child.
LEMMA ForkEnvironmentEffect ==
    ASSUME NEW p, IsProcess(p), NEW r, IsInfo(r)
    PROVE  LET q == ForkEnvironment(p, r) IN
           /\ IsProcess(q) /\ SameIds(p, q) /\ q.umask = p.umask /\ q.nice = p.nice
           /\ q.argv = p.argv
           /\ contains(r, "environment") => q.env = r.environment
<1> DEFINE q == ForkEnvironment(p, r)
           env == Over(r.environment, Kept(p.env, r.environment))
<1>1. CASE ~contains(r, "environment")
  BY <1>1 DEF ForkEnvironment, SameIds
<1>2. CASE contains(r, "environment")
  <2>1. q = [p EXCEPT !.env = env]
    BY <1>2 DEF ForkEnvironment
  <2>2. env = r.environment
    <3> DEFINE wanted == r.environment
               kept == Kept(p.env, wanted)
    <3>1. wanted = [v \in DOMAIN wanted |-> wanted[v]]
      BY <1>2 DEF IsInfo, IsValue, contains
    <3>2. DOMAIN kept \subseteq DOMAIN wanted
      BY DEF Kept
    <3> HIDE DEF kept, wanted
    <3>3. Over(wanted, kept) = wanted
      BY <3>1, <3>2 DEF Over
    <3> QED
      BY <3>3 DEF kept, wanted
  <2> HIDE DEF env
  <2>3. DOMAIN q = DOMAIN p /\ q = [k \in DOMAIN q |-> q[k]]
    BY <2>1 DEF IsProcess
  <2>4. /\ SameIds(p, q) /\ q.umask = p.umask /\ q.nice = p.nice /\ q.argv = p.argv
        /\ q.env = env
    BY <2>1, Attributes DEF SameIds
  <2> HIDE DEF q
  <2>5. IsProcess(q)
    BY <2>3, <2>4, ProcessByParts DEF SameIds, IsProcess
  <2> QED
    BY <2>2, <2>4, <2>5 DEF q
<1> QED
  BY <1>1, <1>2

\* The arguments of a launcher's child.
LEMMA ForkArgumentsEffect ==
    ASSUME NEW p, IsProcess(p), NEW r, IsInfo(r)
    PROVE  LET q == ForkArguments(p, r) IN
           /\ IsProcess(q) /\ SameIds(p, q) /\ q.umask = p.umask /\ q.nice = p.nice
           /\ q.env = p.env
           /\ contains(r, "program") /\ contains(r, "arguments")
                 => q.argv = <<Value(r, "program")>> \o Value(r, "arguments")
<1> DEFINE q == ForkArguments(p, r)
           name == IF contains(r, "program") THEN r.program ELSE Head(p.argv)
           args == IF contains(r, "arguments") THEN r.arguments ELSE Tail(p.argv)
           words == <<name>> \o args
<1>1. q = [p EXCEPT !.argv = words]
  BY DEF ForkArguments
<1>2. args \in Seq({args[n] : n \in DOMAIN args})
  <2>1. CASE contains(r, "arguments")
    <3>1. args = Value(r, "arguments")
      BY <2>1 DEF Value
    <3> HIDE DEF args
    <3> QED
      BY <3>1, ArgumentsAreSeq
  <2>2. CASE ~contains(r, "arguments")
    <3> DEFINE S == {p.argv[n] : n \in DOMAIN p.argv}
    <3>1. p.argv \in Seq(S) /\ p.argv # <<>>
      BY DEF IsProcess
    <3>2. args = Tail(p.argv)
      BY <2>2
    <3> HIDE DEF S, args
    <3>3. args \in Seq(S)
      BY <3>1, <3>2, HeadTailProperties
    <3> QED
      BY <3>3, OwnElements
  <2> QED
    BY <2>1, <2>2
<1>3. contains(r, "program") /\ contains(r, "arguments")
         => name = Value(r, "program") /\ args = Value(r, "arguments")
  BY DEF Value
<1> HIDE DEF args, name
<1>4. words \in Seq({words[n] : n \in DOMAIN words}) /\ words # <<>>
  BY <1>2, CommandLine
<1>5. contains(r, "program") /\ contains(r, "arguments")
         => words = <<Value(r, "program")>> \o Value(r, "arguments")
  BY <1>3
<1> HIDE DEF words
<1>6. DOMAIN q = DOMAIN p /\ q = [k \in DOMAIN q |-> q[k]]
  BY <1>1 DEF IsProcess
<1>7. /\ SameIds(p, q) /\ q.umask = p.umask /\ q.nice = p.nice /\ q.env = p.env
      /\ q.argv = words
  BY <1>1, Attributes DEF SameIds
<1> HIDE DEF q
<1>8. IsProcess(q)
  BY <1>4, <1>6, <1>7, ProcessByParts DEF SameIds, IsProcess
<1> QED
  BY <1>5, <1>7, <1>8 DEF q

\* The ids of a launcher's child: those of the record if the launcher may set them, the
\* group before the user.
LEMMA ForkIdsEffect ==
    ASSUME NEW p, IsProcess(p), NEW r, IsInfo(r)
    PROVE  LET q == ForkIds(p, r) IN
           /\ IsProcess(q) /\ SameRest(p, q)
           /\ q.uid = IF contains(r, "uid") /\ MaySetuid(p, r.uid) THEN r.uid ELSE p.uid
           /\ q.gid = IF contains(r, "gid") /\ MaySetgid(p, r.gid) THEN r.gid ELSE p.gid
<1> DEFINE g == IF contains(r, "gid") THEN setgid(p, r.gid) ELSE p
           q == ForkIds(p, r)
<1>1. /\ IsProcess(g) /\ SameRest(p, g) /\ g.uid = p.uid
      /\ g.gid = IF contains(r, "gid") /\ MaySetgid(p, r.gid) THEN r.gid ELSE p.gid
  <2>1. CASE contains(r, "gid")
    <3>1. g = setgid(p, r.gid) /\ r.gid \in Int
      BY <2>1, IdsAreInts
    <3> HIDE DEF g
    <3> QED
      BY <2>1, <3>1, SetgidEffect
  <2>2. CASE ~contains(r, "gid")
    BY <2>2 DEF SameRest
  <2> QED
    BY <2>1, <2>2
<1>2. q = IF contains(r, "uid") THEN setuid(g, r.uid) ELSE g
  BY DEF ForkIds
<1> HIDE DEF g, q
<1>3. CASE contains(r, "uid")
  <2>1. r.uid \in Int /\ q = setuid(g, r.uid)
    BY <1>2, <1>3, IdsAreInts
  <2>2. /\ IsProcess(q) /\ SameRest(g, q) /\ q.gid = g.gid
        /\ q.uid = IF MaySetuid(g, r.uid) THEN r.uid ELSE g.uid
    BY <1>1, <2>1, SetuidEffect
  <2>3. MaySetuid(g, r.uid) <=> MaySetuid(p, r.uid)
    BY <1>1 DEF MaySetuid, Privileged
  <2>4. SameRest(p, q)
    BY <1>1, <2>2 DEF SameRest
  <2> QED
    BY <1>1, <1>3, <2>2, <2>3, <2>4 DEF q
<1>4. CASE ~contains(r, "uid")
  <2>1. q = g
    BY <1>2, <1>4
  <2> QED
    BY <1>1, <1>4, <2>1 DEF q
<1> QED
  BY <1>3, <1>4

\* A launcher's child has what its record names, as far as the launcher may give it.
LEMMA ForkEffect ==
    ASSUME NEW p, IsProcess(p), NEW r, IsInfo(r)
    PROVE  LET c == ForkChild(p, r) IN
           /\ IsProcess(c)
           /\ c.uid = IF contains(r, "uid") /\ MaySetuid(p, r.uid) THEN r.uid ELSE p.uid
           /\ c.gid = IF contains(r, "gid") /\ MaySetgid(p, r.gid) THEN r.gid ELSE p.gid
           /\ Number(r, "umask") # 0 => c.umask = MaskOf(Number(r, "umask"))
           /\ contains(r, "environment") => c.env = r.environment
           /\ contains(r, "program") /\ contains(r, "arguments")
                 => c.argv = <<Value(r, "program")>> \o Value(r, "arguments")
           /\ contains(r, "priority") =>
                 \/ c.nice = r.priority
                 \/ c.nice = p.nice /\ r.priority < p.nice /\ c.uid # 0
<1> DEFINE a == prctl(p)
           i == ForkIds(a, r)
           own == ForkUmask(i, r)
           grouped == setgroups(own, Passwd[FirstUid].groups)
           n == ForkPriority(grouped, r)
           e == ForkEnvironment(n, r)
           c == ForkArguments(e, r)
<1>1. ForkChild(p, r) = c
  BY DEF ForkChild, fixProcessState
<1>2. IsProcess(a) /\ SameIds(p, a) /\ SameRest(p, a)
  BY PrctlEffect
<1> HIDE DEF a
<1>3. /\ IsProcess(i) /\ SameRest(a, i)
      /\ i.uid = IF contains(r, "uid") /\ MaySetuid(a, r.uid) THEN r.uid ELSE a.uid
      /\ i.gid = IF contains(r, "gid") /\ MaySetgid(a, r.gid) THEN r.gid ELSE a.gid
  BY <1>2, ForkIdsEffect
<1> HIDE DEF i
<1>4. /\ i.uid = IF contains(r, "uid") /\ MaySetuid(p, r.uid) THEN r.uid ELSE p.uid
      /\ i.gid = IF contains(r, "gid") /\ MaySetgid(p, r.gid) THEN r.gid ELSE p.gid
      /\ i.nice = p.nice
  BY <1>2, <1>3 DEF SameIds, SameRest, MaySetuid, MaySetgid, Privileged
<1>5. /\ IsProcess(own) /\ SameIds(i, own) /\ own.nice = i.nice
      /\ Number(r, "umask") # 0 => own.umask = MaskOf(Number(r, "umask"))
  <2>1. CASE Number(r, "umask") # 0
    <3>1. own = umask(i, Number(r, "umask")) /\ Number(r, "umask") \in Int
      BY <2>1, IdsAreInts DEF ForkUmask
    <3> HIDE DEF own
    <3> QED
      BY <1>3, <3>1, UmaskEffect
  <2>2. CASE Number(r, "umask") = 0
    <3>1. own = i
      BY <2>2 DEF ForkUmask
    <3> HIDE DEF own
    <3> QED
      BY <1>3, <2>2, <3>1 DEF SameIds
  <2> QED
    BY <2>1, <2>2
<1> HIDE DEF own
<1>6. /\ IsProcess(grouped) /\ SameRest(own, grouped)
      /\ grouped.uid = own.uid /\ grouped.gid = own.gid
  BY <1>5, SetgroupsEffect
<1> HIDE DEF grouped
<1>7. /\ IsProcess(n) /\ SameIds(grouped, n) /\ n.umask = grouped.umask
      /\ contains(r, "priority") =>
            n.nice = IF MaySetpriority(grouped, r.priority) THEN r.priority ELSE grouped.nice
  <2>1. CASE contains(r, "priority")
    <3>1. n = setpriority(grouped, r.priority) /\ r.priority \in Int
      BY <2>1, IdsAreInts DEF ForkPriority
    <3> HIDE DEF n
    <3> QED
      BY <1>6, <3>1, SetpriorityEffect
  <2>2. CASE ~contains(r, "priority")
    <3>1. n = grouped
      BY <2>2 DEF ForkPriority
    <3> HIDE DEF n
    <3> QED
      BY <1>6, <2>2, <3>1 DEF SameIds
  <2> QED
    BY <2>1, <2>2
<1> HIDE DEF n
<1>8. /\ IsProcess(e) /\ SameIds(n, e) /\ e.umask = n.umask /\ e.nice = n.nice
      /\ contains(r, "environment") => e.env = r.environment
  BY <1>7, ForkEnvironmentEffect
<1> HIDE DEF e
<1>9. /\ IsProcess(c) /\ SameIds(e, c) /\ c.umask = e.umask /\ c.nice = e.nice
      /\ c.env = e.env
      /\ contains(r, "program") /\ contains(r, "arguments")
            => c.argv = <<Value(r, "program")>> \o Value(r, "arguments")
  BY <1>8, ForkArgumentsEffect
<1> HIDE DEF c
<1>10. c.uid = i.uid /\ c.gid = i.gid /\ grouped.uid = i.uid
  BY <1>5, <1>6, <1>7, <1>8, <1>9 DEF SameIds
<1>11. Number(r, "umask") # 0 => c.umask = MaskOf(Number(r, "umask"))
  BY <1>5, <1>6, <1>7, <1>8, <1>9 DEF SameRest
<1>12. contains(r, "priority") =>
          \/ c.nice = r.priority
          \/ c.nice = p.nice /\ r.priority < p.nice /\ c.uid # 0
  <2> SUFFICES ASSUME contains(r, "priority"), c.nice # r.priority
               PROVE  c.nice = p.nice /\ r.priority < p.nice /\ c.uid # 0
    OBVIOUS
  <2>1. c.nice = IF MaySetpriority(grouped, r.priority) THEN r.priority ELSE grouped.nice
    BY <1>7, <1>8, <1>9
  <2>2. ~MaySetpriority(grouped, r.priority) /\ c.nice = grouped.nice
    BY <2>1
  <2>3. grouped.nice = p.nice
    BY <1>4, <1>5, <1>6 DEF SameRest
  <2>4. r.priority \in Int /\ p.nice \in Int
    BY IdsAreInts DEF IsProcess
  <2> QED
    BY <1>10, <2>2, <2>3, <2>4 DEF MaySetpriority, Privileged
<1>13. contains(r, "environment") => c.env = r.environment
  BY <1>8, <1>9
<1> QED
  BY <1>1, <1>4, <1>9, <1>10, <1>11, <1>12, <1>13

(***************************************************************************)
(* The invariant.                                                          *)
(***************************************************************************)

Types ==
    /\ IsInfo(info) /\ ToSet(signals) \subseteq Keys
    /\ parent \in Parents
    /\ edits \in 0..MaxEdits /\ swaps \in 0..MaxSwaps

Delegates ==
    /\ matchDelegate = [f \in ToSet(Factories) |-> matchDelegate[f]]
    /\ \A f \in ToSet(Factories) : IsDelegate(matchDelegate[f])
    /\ rewriting \in [ToSet(Factories) -> {"none", "gdb", "script"}]

\* What MatchedRuns needs of a record that was matched, and that a rewriting keeps.
Suits(d, r) ==
    /\ d.type = "info" => EnvironmentMatches(Value(d.info, "environment"), r)
    /\ d.type = "key" /\ d.key = "uid" /\ d.values # {} => contains(r, "uid") /\ r.uid \in d.values

\* The backend has a record of its own, one that suits the delegate it was created by,
\* whatever the factory's delegate is by now.
Created ==
    backend # NoBackend =>
        /\ backend.factory \in ToSet(Factories) /\ IsInfo(backend.info)
        /\ IsDelegate(backend.by) /\ Suits(backend.by, backend.info)

\* A child was made from the backend that is there.
Started ==
    child # NoChild =>
        /\ backend # NoBackend
        /\ child = IF backend.factory = "fork" THEN ForkChild(parent, backend.info)
                   ELSE SandboxChild(parent, backend.info)

IInv == Types /\ Delegates /\ Created /\ Started

(***************************************************************************)
(* Rewriting.                                                              *)
(***************************************************************************)

\* A record that was rewritten without its environment and its user.
Kin(r, q) ==
    /\ IsInfo(q)
    /\ contains(q, "environment") <=> contains(r, "environment")
    /\ contains(r, "environment") => q["environment"] = r["environment"]
    /\ contains(q, "uid") <=> contains(r, "uid")
    /\ contains(r, "uid") => q["uid"] = r["uid"]

\* Setting the program or the arguments does so.
LEMMA SetKeeps ==
    ASSUME NEW r, IsInfo(r), NEW key \in {"program", "arguments"}, NEW value,
           IsValue(key, value)
    PROVE  Kin(r, set(r, key, value).info)
<1> DEFINE new == Inserted(r, key, value)
           q == set(r, key, value).info
<1>1. key \in Keys
  BY DEF Keys
<1>2. IsInfo(new)
  BY <1>1, InsertedInfo
<1>3. DOMAIN new = DOMAIN r \cup {key} /\ \A k \in DOMAIN r \ {key} : new[k] = r[k]
  BY DEF Inserted, Over
<1>4. q = new \/ q = r
  <2>1. CASE key = "program"
    BY <2>1 DEF set, setProgram, Result
  <2>2. CASE key = "arguments"
    <3>1. set(r, key, value) = setValue(r, key, value)
      BY <2>2 DEF set
    <3> QED
      BY <3>1 DEF setValue, Result
  <2> QED
    BY <2>1, <2>2
<1> HIDE DEF new, q
<1>5. Kin(r, q)
  <2>1. Kin(r, new)
    BY <1>2, <1>3 DEF Kin, contains
  <2>2. Kin(r, r)
    BY DEF Kin
  <2> QED
    BY <1>4, <2>1, <2>2
<1> QED
  BY <1>5 DEF q

\* The rewrite delegates do so.
LEMMA RewriteKeeps ==
    ASSUME NEW r, IsInfo(r), NEW f \in ToSet(Factories), Delegates
    PROVE  Kin(r, rewrite(f, r))
<1>1. rewriting[f] \in {"none", "gdb", "script"}
  BY DEF Delegates
<1>2. IsValue("program", "gdb") /\ IsValue("program", "sh")
  BY DEF IsValue, NumericKeys
<1>3. CASE rewriting[f] = "none"
  BY <1>3 DEF rewrite, Kin
<1>4. CASE rewriting[f] = "script"
  BY <1>2, <1>4, SetKeeps DEF rewrite, scripted
<1>5. CASE rewriting[f] = "gdb"
  <2> DEFINE words == <<"--", Value(r, "program")>>
             old == Value(r, "arguments")
             args == words \o old
             p == set(r, "program", "gdb").info
             q == set(p, "arguments", args).info
  <2>1. rewrite(f, r) = q
    BY <1>5 DEF rewrite, gdb
  <2>2. Kin(r, p)
    BY <1>2, SetKeeps
  <2> HIDE DEF p
  <2> DEFINE A == {"--", Value(r, "program")}
             B == {old[n] : n \in DOMAIN old}
             C == A \cup B
  <2>3. words \in Seq(A) /\ args = words \o old
    OBVIOUS
  <2>4. old \in Seq(B)
    BY ArgumentsAreSeq
  <2> HIDE DEF words, old, args, A, B
  <2>5. args \in Seq({args[n] : n \in DOMAIN args})
    <3>1. words \in Seq(C) /\ old \in Seq(C)
      BY <2>3, <2>4
    <3> HIDE DEF C
    <3>2. args \in Seq(C)
      BY <2>3, <3>1, ConcatProperties
    <3> QED
      BY <3>2, OwnElements
  <2>6. IsValue("arguments", args)
    BY <2>5 DEF IsValue, NumericKeys
  <2>7. Kin(p, q)
    BY <2>2, <2>6, SetKeeps DEF Kin
  <2> HIDE DEF q
  <2>8. Kin(r, q)
    BY <2>2, <2>7 DEF Kin
  <2> QED
    BY <2>1, <2>8
<1> QED
  BY <1>1, <1>3, <1>4, <1>5

\* A record suits the delegate that matches it, and so does what becomes of it.
LEMMA MatchedSuits ==
    ASSUME NEW d, IsDelegate(d), NEW r, matches(d, r), NEW q, Kin(r, q)
    PROVE  Suits(d, q)
<1>1. ASSUME d.type = "info"
      PROVE  EnvironmentMatches(Value(d.info, "environment"), q)
  <2>1. InfoMatches(d.info, r)
    BY <1>1 DEF matches
  <2>2. CASE contains(d.info, "environment")
    <3>1. EnvironmentMatches(d.info["environment"], r)
      BY <2>1, <2>2 DEF InfoMatches, contains
    <3>2. Value(q, "environment") = Value(r, "environment")
      BY DEF Kin, Value
    <3>3. EnvironmentMatches(d.info["environment"], q)
      BY <3>1, <3>2 DEF EnvironmentMatches
    <3> QED
      BY <2>2, <3>3 DEF Value
  <2>3. CASE ~contains(d.info, "environment")
    <3>1. Value(d.info, "environment") = Empty
      BY <2>3 DEF Value, Default
    <3> QED
      BY <3>1 DEF EnvironmentMatches, Empty
  <2> QED
    BY <2>2, <2>3
<1>2. ASSUME d.type = "key", d.key = "uid", d.values # {}
      PROVE  contains(q, "uid") /\ q.uid \in d.values
  <2>1. KeyMatches(d, r)
    BY <1>2 DEF matches
  <2>2. contains(r, "uid") /\ r["uid"] \in d.values
    BY <1>2, <2>1 DEF KeyMatches
  <2> QED
    BY <2>2 DEF Kin
<1> QED
  BY <1>1, <1>2 DEF Suits

(***************************************************************************)
(* The steps.                                                              *)
(***************************************************************************)

\* The beginning.
LEMMA Initially == ASSUME Init PROVE IInv
<1>1. Types
  <2>1. ToSet(signals) = {}
    BY DEF Init, ToSet
  <2> QED
    BY <2>1, CreationAssumption DEF Init, Types
<1>2. Delegates
  BY CreationAssumption DEF Init, Delegates
<1>3. Created /\ Started
  BY DEF Init, Created, Started
<1> QED
  BY <1>1, <1>2, <1>3 DEF IInv

\* An edit of the client's record.
LEMMA EditKeeps ==
    ASSUME IInv, NEW result, RightEdit(info, result), Edit(result)
    PROVE  IInv'
<1>1. Types'
  BY CreationAssumption DEF IInv, Types, Edit, RightEdit
<1>2. Delegates'
  BY DEF IInv, Delegates, Edit, factories
<1>3. Created' /\ Started'
  BY DEF IInv, Created, Started, Edit
<1> QED
  BY <1>1, <1>2, <1>3 DEF IInv

\* Each of them is a right one.
LEMMA EditsAreRight ==
    ASSUME IInv,
           \/ \E key \in DOMAIN Offered : SetKey(key) \/ SetValue(key)
           \/ ExtendEnvironment \/ SetData \/ Insert
    PROVE  \E result : RightEdit(info, result) /\ Edit(result)
<1> IsInfo(info)
  BY DEF IInv, Types
<1>1. ASSUME NEW key \in DOMAIN Offered, NEW value \in Offered[key]
      PROVE  key \in Keys /\ IsValue(key, value)
  BY CreationAssumption
<1>2. ASSUME NEW key \in DOMAIN Offered, SetKey(key)
      PROVE  \E result : RightEdit(info, result) /\ Edit(result)
  BY <1>1, <1>2, SetIsRight DEF SetKey
<1>3. ASSUME NEW key \in DOMAIN Offered, SetValue(key)
      PROVE  \E result : RightEdit(info, result) /\ Edit(result)
  BY <1>1, <1>3, SetValueIsRight DEF SetValue
<1>4. CASE ExtendEnvironment
  BY <1>4, EnvironmentIsRight DEF ExtendEnvironment
<1>5. CASE SetData
  BY <1>5, ManyKeys, CreationAssumption DEF SetData
<1>6. CASE Insert
  BY <1>6, ManyKeys, CreationAssumption DEF Insert
<1> QED
  BY <1>2, <1>3, <1>4, <1>5, <1>6

\* A factory's match is with another delegate.
LEMMA BecomesKeeps ==
    ASSUME IInv, NEW f \in ToSet(Factories), NEW d, IsDelegate(d), Becomes(f, d)
    PROVE  IInv'
<1>1. Types'
  BY CreationAssumption DEF IInv, Types, Becomes, Swap
<1>2. Delegates'
  BY DEF IInv, Delegates, Becomes
<1>3. Created' /\ Started'
  BY DEF IInv, Created, Started, Becomes
<1> QED
  BY <1>1, <1>2, <1>3 DEF IInv

\* Delegates are exchanged for delegates, or changed to delegates.
LEMMA ExchangeKeeps ==
    ASSUME IInv, NEW f \in ToSet(Factories),
           \/ \E d \in Matchers : setMatchDelegate(f, d)
           \/ \E key \in {"uid", "gid"} : setKey(f, key)
           \/ \E values \in {{}, {1}} : setKeyValue(f, values)
           \/ \E r \in Records : setInfo(f, r)
           \/ \E type \in {"none", "all"} : setScript(f, type)
    PROVE  IInv'
<1> DEFINE old == matchDelegate[f]
<1>0. IsDelegate(old)
  BY DEF IInv, Delegates
<1>1. ASSUME NEW d \in Matchers, setMatchDelegate(f, d)
      PROVE  IInv'
  <2>1. IsDelegate(d)
    BY CreationAssumption
  <2> QED
    BY <1>1, <2>1, BecomesKeeps DEF setMatchDelegate
<1>2. ASSUME NEW key \in {"uid", "gid"}, setKey(f, key)
      PROVE  IInv'
  <2> DEFINE d == [old EXCEPT !.key = key]
  <2>1. old.type = "key" /\ Becomes(f, d)
    BY <1>2 DEF setKey
  <2>2. IsDelegate(d)
    BY <1>0, <2>1 DEF IsDelegate
  <2> QED
    BY <2>1, <2>2, BecomesKeeps
<1>3. ASSUME NEW values \in {{}, {1}}, setKeyValue(f, values)
      PROVE  IInv'
  <2> DEFINE d == [old EXCEPT !.values = values]
  <2>1. old.type = "key" /\ Becomes(f, d)
    BY <1>3 DEF setKeyValue
  <2>2. IsDelegate(d)
    BY <1>0, <2>1 DEF IsDelegate
  <2> QED
    BY <2>1, <2>2, BecomesKeeps
<1>4. ASSUME NEW r \in Records, setInfo(f, r)
      PROVE  IInv'
  <2> DEFINE d == [old EXCEPT !.info = r]
  <2>1. old.type = "info" /\ Becomes(f, d)
    BY <1>4 DEF setInfo
  <2>2. IsDelegate(d)
    BY <1>0, <2>1 DEF IsDelegate
  <2> QED
    BY <2>1, <2>2, BecomesKeeps
<1>5. ASSUME NEW type \in {"none", "all"}, setScript(f, type)
      PROVE  IInv'
  <2>1. IsDelegate([type |-> type])
    BY DEF IsDelegate
  <2> QED
    BY <1>5, <2>1, BecomesKeeps DEF setScript
<1> QED
  BY <1>1, <1>2, <1>3, <1>4, <1>5

\* A rewrite delegate is exchanged, or the launcher comes or goes.
LEMMA FactoryKeeps ==
    ASSUME IInv,
           \/ \E f \in ToSet(Factories), d \in {"none", "gdb", "script"} :
                 setRewriteDelegate(f, d)
           \/ LauncherTurns
    PROVE  IInv'
<1>1. Types'
  BY CreationAssumption DEF IInv, Types, setRewriteDelegate, LauncherTurns, Swap
<1>2. Delegates'
  BY DEF IInv, Delegates, setRewriteDelegate, LauncherTurns
<1>3. Created' /\ Started'
  BY DEF IInv, Created, Started, setRewriteDelegate, LauncherTurns
<1> QED
  BY <1>1, <1>2, <1>3 DEF IInv

\* A set of naturals has a least element.
LEMMA LeastNumber == ASSUME NEW S \in SUBSET Nat, S # {} PROVE \E m \in S : \A n \in S : m <= n
<1> DEFINE Below == OpToRel(<, Nat)
<1>1. IsWellFoundedOn(Below, Nat)
  BY NatLessThanWellFounded
<1>2. PICK m \in S : \A n \in S : ~(<<n, m>> \in Below)
  <2> HIDE DEF Below
  <2> QED
    BY <1>1, WFMin
<1>3. \A n \in S : ~(n < m)
  BY <1>2 DEF OpToRel
<1> QED
  BY <1>3

\* Min finds it.
LEMMA MinIsLeast ==
    ASSUME NEW S \in SUBSET Nat, S # {}
    PROVE  Min(S) \in S /\ \A n \in S : Min(S) <= n
<1>1. \E m \in S : \A n \in S : m <= n
  BY LeastNumber
<1> QED
  BY <1>1 DEF Min

\* QProcessBackendManager::create.
LEMMA CreateKeeps == ASSUME IInv, create PROVE IInv'
<1> DEFINE able == {i \in DOMAIN Factories : canCreate(Factories[i], info)}
           f == Factories[Min(able)]
<1>1. Types'
  BY DEF IInv, Types, create
<1>2. Delegates'
  BY DEF IInv, Delegates, create, factories
<1>3. Created'
  <2>1. CASE able = {}
    BY <2>1 DEF create, Created
  <2>2. CASE able # {}
    <3>1. backend' = backendFrom(f, rewrite(f, info))
      BY <2>2 DEF create
    <3>2. DOMAIN Factories = 1 .. Len(Factories) /\ Len(Factories) \in Nat
      BY CreationAssumption, LenProperties
    <3>3. able \in SUBSET Nat
      BY <3>2
    <3>4. Min(able) \in able
      <4> HIDE DEF able
      <4> QED
        BY <2>2, <3>3, MinIsLeast
    <3>5. f \in ToSet(Factories) /\ canCreate(f, info)
      BY <3>4 DEF ToSet
    <3> HIDE DEF f
    <3>6. IsInfo(info) /\ IsDelegate(matchDelegate[f]) /\ matches(matchDelegate[f], info)
      BY <3>5 DEF IInv, Types, Delegates, canCreate
    <3>7. Kin(info, rewrite(f, info))
      BY <3>5, <3>6, RewriteKeeps DEF IInv
    <3>8. Suits(matchDelegate[f], rewrite(f, info))
      BY <3>6, <3>7, MatchedSuits
    <3>9. /\ backend'.factory = f /\ backend'.info = rewrite(f, info)
          /\ backend'.by = matchDelegate[f]
      BY <3>1 DEF backendFrom
    <3> QED
      BY <3>5, <3>6, <3>7, <3>8, <3>9 DEF Created, Kin
  <2> QED
    BY <2>1, <2>2
<1>4. Started'
  BY DEF create, Started
<1> QED
  BY <1>1, <1>2, <1>3, <1>4 DEF IInv

\* QProcessBackend::start.
LEMMA StartKeeps == ASSUME IInv, start PROVE IInv'
<1>1. Types'
  BY DEF IInv, Types, start
<1>2. Delegates'
  BY DEF IInv, Delegates, start, factories
<1>3. Created'
  BY DEF IInv, Created, start
<1>4. Started'
  BY DEF start, Started
<1> QED
  BY <1>1, <1>2, <1>3, <1>4 DEF IInv

\* Every step.
LEMMA NextKeeps == ASSUME IInv, [Next]_vars PROVE IInv'
<1>1. CASE \/ \E key \in DOMAIN Offered : SetKey(key) \/ SetValue(key)
           \/ ExtendEnvironment \/ SetData \/ Insert
  BY <1>1, EditsAreRight, EditKeeps
<1>2. ASSUME NEW f \in ToSet(Factories),
             \/ \E d \in Matchers : setMatchDelegate(f, d)
             \/ \E key \in {"uid", "gid"} : setKey(f, key)
             \/ \E values \in {{}, {1}} : setKeyValue(f, values)
             \/ \E r \in Records : setInfo(f, r)
             \/ \E type \in {"none", "all"} : setScript(f, type)
      PROVE  IInv'
  BY <1>2, ExchangeKeeps
<1>3. CASE \/ \E f \in ToSet(Factories), d \in {"none", "gdb", "script"} :
                 setRewriteDelegate(f, d)
           \/ LauncherTurns
  BY <1>3, FactoryKeeps
<1>4. CASE create
  BY <1>4, CreateKeeps
<1>5. CASE start
  BY <1>5, StartKeeps
<1>6. CASE UNCHANGED vars
  <2>1. Types'
    BY <1>6 DEF IInv, Types, vars
  <2>2. Delegates'
    BY <1>6 DEF IInv, Delegates, vars, factories
  <2>3. Created' /\ Started'
    BY <1>6 DEF IInv, Created, Started, vars
  <2> QED
    BY <2>1, <2>2, <2>3 DEF IInv
<1> QED
  BY <1>1, <1>2, <1>3, <1>4, <1>5, <1>6 DEF Next

\* The invariant holds in every state.
THEOREM Invariance == Spec => []IInv
<1>1. Init => IInv
  BY Initially
<1>2. IInv /\ [Next]_vars => IInv'
  BY NextKeeps
<1> QED
  BY <1>1, <1>2, PTL DEF Spec

(***************************************************************************)
(* What holds of children.                                                 *)
(***************************************************************************)

\* A child is a process; which kind says who forked it.
LEMMA ChildIsProcess ==
    ASSUME IInv, IsChild
    PROVE  /\ backend # NoBackend /\ IsProcess(parent) /\ IsInfo(backend.info)
           /\ IsProcess(child)
           /\ backend.factory = "fork" => child = ForkChild(parent, backend.info)
           /\ backend.factory # "fork" => child = SandboxChild(parent, backend.info)
<1>1. backend # NoBackend /\ IsProcess(parent) /\ IsInfo(backend.info)
  BY CreationAssumption DEF IInv, Types, Created, Started, IsChild
<1>2. /\ backend.factory = "fork" => child = ForkChild(parent, backend.info)
      /\ backend.factory # "fork" => child = SandboxChild(parent, backend.info)
  BY DEF IInv, Started, IsChild
<1>3. IsProcess(child)
  <2>1. CASE backend.factory = "fork"
    <3>1. IsProcess(ForkChild(parent, backend.info))
      BY <1>1, ForkEffect
    <3> QED
      BY <1>2, <2>1, <3>1
  <2>2. CASE backend.factory # "fork"
    <3>1. \/ SandboxChild(parent, backend.info) = Killed
          \/ IsProcess(SandboxChild(parent, backend.info))
      BY <1>1, SandboxEffect
    <3> QED
      BY <1>2, <2>2, <3>1 DEF IsChild
  <2> QED
    BY <2>1, <2>2
<1> QED
  BY <1>1, <1>2, <1>3

\* The ids of a manager's own child, as the table has them.
LEMMA InvTable == ASSUME IInv PROVE TableHolds
<1> SUFFICES ASSUME backend # NoBackend, backend.factory = "local", child # NoChild
             PROVE  TableHolds
  BY DEF TableHolds
<1> DEFINE r == backend.info
           uid == SandboxUid(r)
           gid == SandboxGid(r)
           withUid == contains(r, "uid") /\ r.uid >= 0
           withGid == contains(r, "gid") /\ r.gid >= 0
           known == withUid /\ r.uid \in DOMAIN Passwd
<1>1. IsProcess(parent) /\ IsInfo(r)
  BY CreationAssumption DEF IInv, Types, Created
<1>2. child = SandboxChild(parent, r)
  BY DEF IInv, Started
<1>3. /\ uid \in Int /\ gid \in Int
      /\ (uid >= 0) <=> withUid
      /\ (gid >= 0) <=> withGid
      /\ withUid => r.uid = uid
      /\ withGid => r.gid = gid
  BY <1>1, IdsAreInts DEF SandboxUid, SandboxGid
<1>4. \/ child = Killed /\ KilledFor(parent, uid, gid)
      \/ IsProcess(child) /\ IdsOf(parent, uid, gid, child)
  BY <1>1, <1>2, SandboxEffect
<1> HIDE DEF uid, gid
<1>5. CASE child = Killed /\ KilledFor(parent, uid, gid)
  <2>1. (withUid \/ withGid) /\ (~Privileged(parent) \/ (withUid /\ ~withGid /\ ~known))
    BY <1>3, <1>5 DEF KilledFor
  <2> QED
    BY <1>5, <2>1 DEF TableHolds
<1>6. CASE IsProcess(child) /\ IdsOf(parent, uid, gid, child)
  <2>1. child # Killed
    BY <1>6, KilledIsNone
  <2>2. child.uid = IF withUid THEN r.uid ELSE parent.uid
    BY <1>3, <1>6 DEF IdsOf
  <2>3. child.gid = CASE withGid -> r.gid
                      [] withUid /\ ~withGid -> Passwd[r.uid].gid
                      [] OTHER -> parent.gid
    BY <1>3, <1>6 DEF IdsOf
  <2>4. child.groups = CASE ~withUid /\ ~withGid -> parent.groups
                         [] known /\ (~withGid \/ r.gid = Passwd[r.uid].gid)
                              -> Passwd[r.uid].groups
                         [] OTHER -> {}
    BY <1>3, <1>6 DEF IdsOf, GroupsFor
  <2> QED
    BY <2>1, <2>2, <2>3, <2>4 DEF TableHolds
<1> QED
  BY <1>4, <1>5, <1>6

\* The types.
LEMMA InvTypes == ASSUME IInv PROVE TypeOK
<1>1. DOMAIN info \subseteq Keys /\ ToSet(signals) \subseteq Keys
  BY DEF IInv, Types, IsInfo
<1>2. backend = NoBackend \/ (/\ backend.factory \in ToSet(Factories)
                              /\ DOMAIN backend.info \subseteq Keys)
  BY DEF IInv, Created, IsInfo
<1>3. ASSUME IsChild
      PROVE  /\ child.uid \in Nat /\ child.gid \in Nat
             /\ child.umask \in 0..AllBits /\ Len(child.argv) > 0
  <2>1. IsProcess(child)
    BY <1>3, ChildIsProcess
  <2> DEFINE words == child.argv
             S == {words[n] : n \in DOMAIN words}
  <2>2. words \in Seq(S) /\ words # <<>>
    BY <2>1 DEF IsProcess
  <2> HIDE DEF words, S
  <2>3. Len(words) > 0
    BY <2>2, EmptySeq, LenProperties
  <2> QED
    BY <2>1, <2>3 DEF IsProcess, words
<1>4. edits \in 0..MaxEdits /\ swaps \in 0..MaxSwaps
  BY DEF IInv, Types
<1> QED
  BY <1>1, <1>2, <1>3, <1>4 DEF TypeOK

\* What both kinds of children of a privileged parent have.
LEMMA InvAgrees == ASSUME IInv PROVE LauncherAgrees
<1> DEFINE r == backend.info
           here == SandboxChild(parent, r)
           there == ForkChild(parent, r)
<1> SUFFICES ASSUME IsChild, Privileged(parent), here # Killed
             PROVE  /\ contains(r, "uid") /\ r.uid >= 0 => here.uid = there.uid
                    /\ contains(r, "gid") /\ r.gid >= 0 => here.gid = there.gid
                    /\ Number(r, "umask") > 0 => here.umask = there.umask
                    /\ Value(r, "environment") # Empty => here.env = there.env
                    /\ {"program", "arguments"} \subseteq DOMAIN r => here.argv = there.argv
  BY DEF LauncherAgrees
<1>1. IsProcess(parent) /\ IsInfo(r)
  BY ChildIsProcess
<1>2. /\ IdsOf(parent, SandboxUid(r), SandboxGid(r), here)
      /\ Number(r, "umask") >= 0 => here.umask = MaskOf(Number(r, "umask"))
      /\ here.argv = <<Value(r, "program")>> \o Value(r, "arguments")
      /\ here.env = IF Value(r, "environment") = Empty THEN parent.env
                    ELSE Value(r, "environment")
  BY <1>1, SandboxEffect
<1>3. /\ there.uid = IF contains(r, "uid") /\ MaySetuid(parent, r.uid)
                     THEN r.uid ELSE parent.uid
      /\ there.gid = IF contains(r, "gid") /\ MaySetgid(parent, r.gid)
                     THEN r.gid ELSE parent.gid
      /\ Number(r, "umask") # 0 => there.umask = MaskOf(Number(r, "umask"))
      /\ contains(r, "environment") => there.env = r.environment
      /\ contains(r, "program") /\ contains(r, "arguments")
            => there.argv = <<Value(r, "program")>> \o Value(r, "arguments")
  BY <1>1, ForkEffect
<1> HIDE DEF here, there
<1>4. contains(r, "uid") /\ r.uid >= 0 => here.uid = there.uid
  BY <1>2, <1>3 DEF IdsOf, SandboxUid, MaySetuid
<1>5. contains(r, "gid") /\ r.gid >= 0 => here.gid = there.gid
  BY <1>2, <1>3 DEF IdsOf, SandboxGid, MaySetgid
<1>6. Number(r, "umask") > 0 => here.umask = there.umask
  BY <1>1, <1>2, <1>3, IdsAreInts
<1>7. Value(r, "environment") # Empty => here.env = there.env
  BY <1>2, <1>3 DEF Value, Default
<1>8. {"program", "arguments"} \subseteq DOMAIN r => here.argv = there.argv
  BY <1>2, <1>3 DEF contains
<1> QED
  BY <1>4, <1>5, <1>6, <1>7, <1>8 DEF here, there

\* The priority of a launcher's child.
LEMMA InvPriority == ASSUME IInv PROVE PriorityAsAsked
<1>1. ASSUME NEW p, IsProcess(p), NEW r, IsInfo(r), contains(r, "priority")
      PROVE  \/ ForkChild(p, r).nice = r.priority
             \/ /\ ForkChild(p, r).nice = p.nice /\ r.priority < p.nice
                /\ ForkChild(p, r).uid # 0
  BY <1>1, ForkEffect
<1>2. ASSUME IsChild, backend.factory = "fork"
      PROVE  /\ IsProcess(parent) /\ IsInfo(backend.info)
             /\ child = ForkChild(parent, backend.info)
  BY <1>2, ChildIsProcess
<1> QED
  BY <1>1, <1>2 DEF PriorityAsAsked

\* What a delegate asked for is what the child has.
LEMMA InvMatched == ASSUME IInv PROVE MatchedRuns
<1> DEFINE by == backend.by
           r == backend.info
           wanted == Value(by.info, "environment")
<1>1. ASSUME IsChild
      PROVE  /\ IsProcess(parent) /\ IsInfo(r) /\ IsProcess(child)
             /\ IsDelegate(by) /\ Suits(by, r)
             /\ \/ child = ForkChild(parent, r)
                \/ child = SandboxChild(parent, r)
  BY <1>1, ChildIsProcess DEF IInv, Created
<1>2. ASSUME IsChild, by.type = "info"
      PROVE  \A v \in DOMAIN wanted : v \in DOMAIN child.env /\ child.env[v] = wanted[v]
  <2>1. EnvironmentMatches(wanted, r)
    BY <1>1, <1>2 DEF Suits
  <2> HIDE DEF wanted
  <2> SUFFICES ASSUME NEW v \in DOMAIN wanted
               PROVE  v \in DOMAIN child.env /\ child.env[v] = wanted[v]
    OBVIOUS
  <2>2. /\ v \in DOMAIN Value(r, "environment")
        /\ wanted[v] = Value(r, "environment")[v]
    BY <2>1 DEF EnvironmentMatches
  <2>3. Value(r, "environment") # Empty
    BY <2>2 DEF Empty
  <2>4. contains(r, "environment") /\ Value(r, "environment") = r.environment
    BY <2>3 DEF Value, Default
  <2>5. child.env = Value(r, "environment")
    <3>1. CASE child = ForkChild(parent, r)
      <4>1. contains(r, "environment") => ForkChild(parent, r).env = r.environment
        BY <1>1, <1>2, ForkEffect
      <4> QED
        BY <2>4, <3>1, <4>1
    <3>2. CASE child = SandboxChild(parent, r)
      <4>1. \/ SandboxChild(parent, r) = Killed
            \/ SandboxChild(parent, r).env =
                  IF Value(r, "environment") = Empty THEN parent.env
                  ELSE Value(r, "environment")
        BY <1>1, <1>2, SandboxEffect
      <4>2. child # Killed
        BY <1>2 DEF IsChild
      <4> QED
        BY <2>3, <3>2, <4>1, <4>2
    <3> QED
      BY <1>1, <1>2, <3>1, <3>2
  <2> QED
    BY <2>2, <2>5
<1>3. ASSUME IsChild, by.type = "key", by.key = "uid", by.values # {}, Privileged(parent)
      PROVE  child.uid \in by.values
  <2>1. contains(r, "uid") /\ r.uid \in by.values
    BY <1>1, <1>3 DEF Suits
  <2>2. by.values \subseteq Nat
    BY <1>1, <1>3 DEF IsDelegate
  <2>3. child.uid = r.uid
    <3>1. CASE child = ForkChild(parent, r)
      <4>1. MaySetuid(parent, r.uid)
        BY <1>3, <2>1, <2>2 DEF MaySetuid
      <4> QED
        BY <1>1, <1>3, <2>1, <3>1, <4>1, ForkEffect
    <3>2. CASE child = SandboxChild(parent, r)
      <4>1. IdsOf(parent, SandboxUid(r), SandboxGid(r), child)
        BY <1>1, <1>3, <3>2, SandboxEffect, KilledIsNone
      <4> QED
        BY <2>1, <2>2, <4>1 DEF IdsOf, SandboxUid
    <3> QED
      BY <1>1, <1>3, <3>1, <3>2
  <2> QED
    BY <2>1, <2>3
<1> QED
  BY <1>2, <1>3 DEF MatchedRuns

\* The table of setupChildProcess (qunixsandboxprocess.cpp:92-123) holds of every child of
\* this host's manager, for every user database, every record and whoever the manager is.
THEOREM TableAlwaysHolds == Spec => []TableHolds
<1>1. IInv => TableHolds
  BY InvTable
<1> QED
  BY <1>1, Invariance, PTL

\* What a launcher's child has in common with the manager's own, and its priority
\* (fixProcessState, qforklauncher.cpp:180-268), with the types.
THEOREM LauncherChildAlwaysHolds == Spec => []LauncherChildHolds
<1>1. IInv => LauncherChildHolds
  BY InvTypes, InvAgrees, InvPriority DEF LauncherChildHolds
<1> QED
  BY <1>1, Invariance, PTL

\* A factory that is reserved for an environment or for a user runs only processes with
\* this environment or as this user, however records are rewritten and delegates are
\* exchanged (QInfoMatchDelegate and QKeyMatchDelegate::matches).
THEOREM MatchedAlwaysRun == Spec => []MatchedRuns
<1>1. IInv => MatchedRuns
  BY InvMatched
<1> QED
  BY <1>1, Invariance, PTL

\* An edit announces all that it changed, or nothing (emitChangeSignal and its callers,
\* qprocessinfo.cpp).
THEOREM AlwaysNotified == Spec => Notified
<1> DEFINE Said == edits' # edits /\ signals' # <<>> => ToSet(signals') = Changed
<1>1. ASSUME IInv, Next PROVE Said
  <2>1. ASSUME NEW result, RightEdit(info, result), Edit(result)
        PROVE  Said
    BY <2>1 DEF RightEdit, Announced, Edit, Changed
  <2>2. CASE \/ \E key \in DOMAIN Offered : SetKey(key) \/ SetValue(key)
             \/ ExtendEnvironment \/ SetData \/ Insert
    BY <1>1, <2>1, <2>2, EditsAreRight
  <2>3. CASE edits' = edits
    BY <2>3
  <2>4. \/ \E key \in DOMAIN Offered : SetKey(key) \/ SetValue(key)
        \/ ExtendEnvironment \/ SetData \/ Insert
        \/ edits' = edits
    BY <1>1 DEF Next, setMatchDelegate, setKey, setKeyValue, setInfo, setScript, Becomes,
       setRewriteDelegate, LauncherTurns, create, start
  <2> QED
    BY <2>2, <2>3, <2>4
<1>2. IInv /\ [Next]_vars => [Said]_vars
  BY <1>1
<1>3. Spec => [][Said]_vars
  BY <1>2, Invariance, PTL DEF Spec
<1> QED
  BY <1>3 DEF Notified
(***************************************************************************)
(* Prefork: the inductive invariant.                                       *)
(***************************************************************************)

\* The two ends of a child's pipes that the master keeps, and all four.
NotedEnds(c)  == {W(2 * c - 1), R(2 * c)}
Fresh(c) == {R(2 * c - 1), W(2 * c - 1), R(2 * c), W(2 * c)}

Numbered(table) == DOMAIN table \in SUBSET Nat /\ IsFiniteSet(DOMAIN table)

\* A number, and only this one, stands for the end.
SoleAt(table, fd, what) ==
    /\ fd \in DOMAIN table /\ table[fd] = what
    /\ \A other \in DOMAIN table : table[other] = what => other = fd

HasStdio(table) == \A fd \in stdio : fd \in DOMAIN table /\ table[fd] = Tty

PreforkTypes ==
    /\ argv \in Argvs /\ stdio \in Opened
    /\ pc \in {"execute", "makeChild", "sigaction", "launch", "running", "dead"}
    /\ index \in Nat /\ pipes = 2 * Len(state)
    /\ Len(m_children) = Len(state)
    /\ state \in Seq({"forked", "armed", "running", "dead"})
    /\ m_children \in Seq([in : Nat, out : Nat, pid : Nat])
    /\ \A c \in Children : m_children[c].pid = c
    /\ handler \in BOOLEAN /\ noticeable \in BOOLEAN
    /\ pending \in Nat /\ others \in 0 .. MaxOthers
    /\ signalled \in SUBSET Children /\ halted \in SUBSET Children
    /\ DOMAIN fds = {0} \cup Children /\ DOMAIN block = DOMAIN fds
    /\ m_index \in {Destroyed, -1} \cup 0 .. size - 1

\* What the master has open: what it began with, and of each child the two ends that it
\* has noted.
MasterFds ==
    /\ pc = "dead" => DOMAIN fds[0] = {}
    /\ pc # "dead" =>
          /\ Numbered(fds[0]) /\ HasStdio(fds[0])
          /\ Cardinality(DOMAIN fds[0]) = Cardinality(stdio) + 2 * Len(state)
          /\ \A fd1, fd2 \in DOMAIN fds[0] :
                fds[0][fd1] = fds[0][fd2] /\ fds[0][fd1] # Tty => fd1 = fd2
          /\ \A fd \in DOMAIN fds[0] :
                fds[0][fd] = Tty \/ \E c \in Children : fds[0][fd] \in NotedEnds(c)
          /\ \A c \in Children :
                /\ m_children[c].in \in DOMAIN fds[0] /\ fds[0][m_children[c].in] = W(2 * c - 1)
                /\ m_children[c].out \in DOMAIN fds[0] /\ fds[0][m_children[c].out] = R(2 * c)

\* What child c has open, if the table is its: what the master had when it was forked, and
\* its own pipes.
OfChild(c, table) ==
    \A fd \in DOMAIN table :
       \/ table[fd] = Tty \/ table[fd] \in Fresh(c)
       \/ \E d \in 1 .. c - 1 : table[fd] \in NotedEnds(d)

\* Before it sets itself up each of the four ends has one number.
Untouched(c, table) ==
    /\ Numbered(table) /\ HasStdio(table)
    /\ \A what \in Fresh(c) : \E fd \in DOMAIN table : SoleAt(table, fd, what)

\* Afterwards the master's ends of its own pipes are closed, whatever was overwritten.
SetUp(c, table) ==
    /\ \A fd \in DOMAIN table : table[fd] \notin NotedEnds(c)
    /\ {0, 1} \subseteq stdio =>
          /\ {0, 1} \subseteq DOMAIN table
          /\ table[0] = R(2 * c - 1) /\ table[1] = W(2 * c)

ChildHas(c) ==
    /\ OfChild(c, fds[c])
    /\ state[c] = "forked" => Untouched(c, fds[c])
    /\ state[c] \in {"armed", "running"} => SetUp(c, fds[c])
    /\ state[c] = "dead" => DOMAIN fds[c] = {}

ChildFds == \A c \in Children : ChildHas(c)

\* The words behind which no block begins any more.
WordsBefore(n) == {i \in 0 .. argc(argv) - 1 : At(argv, i) # Marker /\ i < n}

\* Each block so far, the master's and those of the children, has a word.
BlocksHaveWords ==
    /\ pc = "execute" => m_children = <<>>
    /\ pc = "makeChild" => 1 + Len(m_children) <= Cardinality(WordsBefore(index))
    /\ m_children # <<>> => Len(m_children) <= count(argv)

PreforkInv == PreforkTypes /\ MasterFds /\ ChildFds /\ BlocksHaveWords

(***************************************************************************)
(* Sets of numbers.                                                        *)
(***************************************************************************)

\* A new descriptor gets a number that is not in use: among n + 1 numbers there is one.
LEMMA FreeNumber ==
    ASSUME NEW table, Numbered(table)
    PROVE  LowestFree(table) \in Nat \ DOMAIN table
<1> DEFINE D == DOMAIN table
           n == Cardinality(D)
           free == (0 .. n) \ D
<1>1. IsFiniteSet(D) /\ n \in Nat /\ D \in SUBSET Nat
  BY FS_CardinalityType DEF Numbered
<1>2. IsFiniteSet(0 .. n) /\ Cardinality(0 .. n) = n + 1
  BY <1>1, FS_Interval
<1>3. free # {}
  <2> SUFFICES ASSUME 0 .. n \subseteq D PROVE FALSE
    OBVIOUS
  <2>1. Cardinality(0 .. n) <= Cardinality(D)
    BY <1>1, FS_Subset
  <2> QED
    BY <1>1, <1>2, <2>1
<1>4. free \in SUBSET Nat
  BY <1>1
<1>5. Min(free) \in free
  BY <1>3, <1>4, MinIsLeast
<1> QED
  BY <1>1, <1>5 DEF LowestFree

(***************************************************************************)
(* Descriptors.                                                            *)
(***************************************************************************)

\* Ends of pipes are told apart by pipe and end.
LEMMA EndsDiffer ==
    /\ \A p, q : R(p) # W(q)
    /\ \A p, q : (R(p) = R(q) <=> p = q) /\ (W(p) = W(q) <=> p = q)
    /\ \A p : R(p) # Tty /\ W(p) # Tty
BY DEF R, W, Tty

\* A descriptor is added.
LEMMA Opening ==
    ASSUME NEW table, NEW what, Numbered(table)
    PROVE  LET fd == LowestFree(table) IN
              /\ fd \in Nat /\ fd \notin DOMAIN table
              /\ Numbered(open(table, what))
              /\ DOMAIN open(table, what) = DOMAIN table \cup {fd}
              /\ open(table, what)[fd] = what
              /\ \A x \in DOMAIN table : open(table, what)[x] = table[x]
<1> DEFINE fd == LowestFree(table)
<1>1. fd \in Nat /\ fd \notin DOMAIN table
  BY FreeNumber
<1> HIDE DEF fd
<1>2. open(table, what) = [y \in DOMAIN table \cup {fd} |-> IF y = fd THEN what ELSE table[y]]
  BY DEF open, With, fd
<1>3. IsFiniteSet(DOMAIN table \cup {fd})
  BY FS_AddElement DEF Numbered
<1> QED
  BY <1>1, <1>2, <1>3 DEF Numbered, fd

\* In a table that has become full, four new numbers stand for the ends of two pipes.
FourEnds(table, p, full, a, b, c, d) ==
    /\ {a, b, c, d} \cap DOMAIN table = {}
    /\ a # b /\ a # c /\ a # d /\ b # c /\ b # d /\ c # d
    /\ Numbered(full)
    /\ DOMAIN full = DOMAIN table \cup {a, b, c, d}
    /\ \A x \in DOMAIN table : full[x] = table[x]
    /\ full[a] = R(p) /\ full[b] = W(p)
    /\ full[c] = R(p + 1) /\ full[d] = W(p + 1)

\* pipe(2), twice, finds such numbers.
LEMMA PipesOpened ==
    ASSUME NEW table, NEW p, Numbered(table)
    PROVE  \E a, b, c, d \in Nat : FourEnds(table, p, TwoPipes(table, p), a, b, c, d)
<1> DEFINE t1 == open(table, R(p))
           t2 == open(t1, W(p))
           t3 == open(t2, R(p + 1))
           t4 == open(t3, W(p + 1))
           a  == LowestFree(table)
           b  == LowestFree(t1)
           c  == LowestFree(t2)
           d  == LowestFree(t3)
<1>1. /\ a \in Nat /\ a \notin DOMAIN table /\ Numbered(t1) /\ DOMAIN t1 = DOMAIN table \cup {a}
      /\ t1[a] = R(p) /\ \A x \in DOMAIN table : t1[x] = table[x]
  BY Opening
<1> HIDE DEF t1, a
<1>2. /\ b \in Nat /\ b \notin DOMAIN t1 /\ Numbered(t2) /\ DOMAIN t2 = DOMAIN t1 \cup {b}
      /\ t2[b] = W(p) /\ \A x \in DOMAIN t1 : t2[x] = t1[x]
  BY <1>1, Opening
<1> HIDE DEF t2, b
<1>3. /\ c \in Nat /\ c \notin DOMAIN t2 /\ Numbered(t3) /\ DOMAIN t3 = DOMAIN t2 \cup {c}
      /\ t3[c] = R(p + 1) /\ \A x \in DOMAIN t2 : t3[x] = t2[x]
  BY <1>2, Opening
<1> HIDE DEF t3, c
<1>4. /\ d \in Nat /\ d \notin DOMAIN t3 /\ Numbered(t4) /\ DOMAIN t4 = DOMAIN t3 \cup {d}
      /\ t4[d] = W(p + 1) /\ \A x \in DOMAIN t3 : t4[x] = t3[x]
  BY <1>3, Opening
<1> HIDE DEF t4, d
<1>5. TwoPipes(table, p) = t4
  BY DEF TwoPipes, t1, t2, t3, t4
<1>6. {a, b, c, d} \cap DOMAIN table = {}
  BY <1>1, <1>2, <1>3, <1>4
<1>7. a # b /\ a # c /\ a # d /\ b # c /\ b # d /\ c # d
  BY <1>1, <1>2, <1>3, <1>4
<1>8. DOMAIN t4 = DOMAIN table \cup {a, b, c, d}
  BY <1>1, <1>2, <1>3, <1>4
<1>9. /\ \A x \in DOMAIN table : t4[x] = table[x]
      /\ t4[a] = R(p) /\ t4[b] = W(p) /\ t4[c] = R(p + 1) /\ t4[d] = W(p + 1)
  BY <1>1, <1>2, <1>3, <1>4
<1>10. FourEnds(table, p, t4, a, b, c, d)
  BY <1>4, <1>6, <1>7, <1>8, <1>9 DEF FourEnds
<1> QED
  BY <1>1, <1>2, <1>3, <1>4, <1>5, <1>10

\* NumberOf finds the only number there is.
LEMMA NumberFound ==
    ASSUME NEW table, NEW fd, NEW what, SoleAt(table, fd, what)
    PROVE  NumberOf(table, what) = fd
BY DEF SoleAt, NumberOf

\* A descriptor is closed.
LEMMA Closing ==
    ASSUME NEW table, NEW fd
    PROVE  /\ DOMAIN close(table, fd) = DOMAIN table \ {fd}
           /\ \A x \in DOMAIN table \ {fd} : close(table, fd)[x] = table[x]
BY DEF close, Restrict

\* makePipe, twice: in the child each end has a number of its own; the master keeps one of
\* each pipe, besides what it had.
LEMMA PipesMade ==
    ASSUME NEW table, NEW p \in Nat, Numbered(table),
           \A fd \in DOMAIN table : table[fd] \notin {R(p), W(p), R(p + 1), W(p + 1)}
    PROVE  LET full == TwoPipes(table, p)
               kept == MasterTable(full, p)
               in   == NumberOf(full, W(p))
               out  == NumberOf(full, R(p + 1))
           IN  /\ Numbered(full)
               /\ \A x \in DOMAIN table : x \in DOMAIN full /\ full[x] = table[x]
               /\ \A x \in DOMAIN full :
                     x \in DOMAIN table \/ full[x] \in {R(p), W(p), R(p + 1), W(p + 1)}
               /\ \A what \in {R(p), W(p), R(p + 1), W(p + 1)} :
                     \E fd \in DOMAIN full : SoleAt(full, fd, what)
               /\ in \in Nat /\ out \in Nat /\ in # out
               /\ in \notin DOMAIN table /\ out \notin DOMAIN table
               /\ DOMAIN kept = DOMAIN table \cup {in, out}
               /\ kept[in] = W(p) /\ kept[out] = R(p + 1)
               /\ \A x \in DOMAIN table : kept[x] = table[x]
               /\ Numbered(kept)
               /\ Cardinality(DOMAIN kept) = Cardinality(DOMAIN table) + 2
<1> DEFINE full == TwoPipes(table, p)
           kept == MasterTable(full, p)
           in   == NumberOf(full, W(p))
           out  == NumberOf(full, R(p + 1))
           ends == {R(p), W(p), R(p + 1), W(p + 1)}
<1>1. PICK a, b, c, d \in Nat : FourEnds(table, p, full, a, b, c, d)
  BY PipesOpened, Zenon
<1>2. p # p + 1
  OBVIOUS
<1> HIDE DEF full
<1>3. R(p) # W(p) /\ R(p) # R(p + 1) /\ R(p) # W(p + 1) /\ W(p) # R(p + 1) /\ W(p) # W(p + 1)
      /\ R(p + 1) # W(p + 1)
  BY <1>2, EndsDiffer
<1>4. \A x \in DOMAIN table : full[x] \notin ends
  BY <1>1 DEF FourEnds
<1>5. SoleAt(full, a, R(p)) /\ SoleAt(full, b, W(p)) /\ SoleAt(full, c, R(p + 1))
      /\ SoleAt(full, d, W(p + 1))
  <2>1. \A x \in DOMAIN full : x \in DOMAIN table \/ x = a \/ x = b \/ x = c \/ x = d
    BY <1>1 DEF FourEnds
  <2> QED
    BY <2>1, <1>1, <1>3, <1>4 DEF SoleAt, FourEnds
<1>6. NumberOf(full, R(p)) = a /\ in = b /\ out = c /\ NumberOf(full, W(p + 1)) = d
  BY <1>5, NumberFound
<1>7. kept = close(close(full, a), d)
  BY <1>6 DEF MasterTable
<1> HIDE DEF kept, in, out
<1>8. DOMAIN close(full, a) = DOMAIN full \ {a}
      /\ \A x \in DOMAIN full \ {a} : close(full, a)[x] = full[x]
  BY Closing
<1>9. DOMAIN kept = DOMAIN close(full, a) \ {d}
      /\ \A x \in DOMAIN close(full, a) \ {d} : kept[x] = close(full, a)[x]
  BY <1>7, Closing
<1>10. DOMAIN kept = DOMAIN table \cup {in, out}
  BY <1>1, <1>6, <1>8, <1>9 DEF FourEnds
<1>11. \A x \in DOMAIN kept : kept[x] = full[x]
  BY <1>8, <1>9
<1>12. kept[in] = W(p) /\ kept[out] = R(p + 1) /\ \A x \in DOMAIN table : kept[x] = table[x]
  BY <1>1, <1>6, <1>10, <1>11 DEF FourEnds
<1>13. in \in Nat /\ out \in Nat /\ in # out /\ in \notin DOMAIN table /\ out \notin DOMAIN table
  BY <1>1, <1>6 DEF FourEnds
<1>14. Numbered(kept) /\ Cardinality(DOMAIN kept) = Cardinality(DOMAIN table) + 2
  <2> DEFINE D == DOMAIN table
             one == D \cup {in}
  <2>1. IsFiniteSet(D) /\ D \in SUBSET Nat
    BY DEF Numbered
  <2>2. IsFiniteSet(one) /\ Cardinality(one) = Cardinality(D) + 1
    BY <2>1, <1>13, FS_AddElement
  <2>3. out \notin one /\ one \cup {out} = DOMAIN kept
    BY <1>10, <1>13
  <2> HIDE DEF one
  <2>4. IsFiniteSet(one \cup {out}) /\ Cardinality(one \cup {out}) = Cardinality(one) + 1
    BY <2>2, <2>3, FS_AddElement
  <2>5. DOMAIN kept \in SUBSET Nat
    BY <2>1, <1>10, <1>13
  <2>6. Cardinality(D) \in Nat
    BY <2>1, FS_CardinalityType
  <2> QED
    BY <2>2, <2>3, <2>4, <2>5, <2>6 DEF Numbered
<1>15. \A what \in ends : \E fd \in DOMAIN full : SoleAt(full, fd, what)
  BY <1>5 DEF SoleAt
<1>16. \A x \in DOMAIN full : x \in DOMAIN table \/ full[x] \in ends
  BY <1>1 DEF FourEnds
<1>17. Numbered(full) /\ \A x \in DOMAIN table : x \in DOMAIN full /\ full[x] = table[x]
  BY <1>1 DEF FourEnds
<1> QED
  BY <1>10, <1>12, <1>13, <1>14, <1>15, <1>16, <1>17 DEF full, kept, in, out

\* A child has nothing that it did not have before, none of the master's ends of its pipes,
\* and, where its standard input and output were open, it has its pipes there.
LEMMA ChildConnected ==
    ASSUME NEW table, NEW p \in Int,
           \A what \in {R(p), W(p), R(p + 1), W(p + 1)} :
              \E fd \in DOMAIN table : SoleAt(table, fd, what)
    PROVE  LET own == ChildTable(table, p) IN
              /\ \A x \in DOMAIN own : \E y \in DOMAIN table : own[x] = table[y]
              /\ \A x \in DOMAIN own : own[x] # W(p) /\ own[x] # R(p + 1)
              /\ ({0, 1} \subseteq DOMAIN table /\ table[0] = Tty /\ table[1] = Tty) =>
                    {0, 1} \subseteq DOMAIN own /\ own[0] = R(p) /\ own[1] = W(p + 1)
<1> DEFINE own == ChildTable(table, p)
<1>1. PICK a \in DOMAIN table : SoleAt(table, a, R(p))
  OBVIOUS
<1>2. PICK b \in DOMAIN table : SoleAt(table, b, W(p))
  OBVIOUS
<1>3. PICK c \in DOMAIN table : SoleAt(table, c, R(p + 1))
  OBVIOUS
<1>4. PICK d \in DOMAIN table : SoleAt(table, d, W(p + 1))
  OBVIOUS
<1>5. NumberOf(table, R(p)) = a /\ NumberOf(table, W(p)) = b /\ NumberOf(table, R(p + 1)) = c
      /\ NumberOf(table, W(p + 1)) = d
  BY <1>1, <1>2, <1>3, <1>4, NumberFound
<1> DEFINE t1 == dup2(table, a, 0)
           t2 == dup2(t1, d, 1)
           t3 == close(t2, a)
           t4 == close(t3, b)
           t5 == close(t4, c)
           t6 == close(t5, d)
<1>6. own = t6
  BY <1>5 DEF ChildTable
<1>a. t1 = [y \in DOMAIN table \cup {0} |-> IF y = 0 THEN table[a] ELSE table[y]]
  BY DEF dup2, With
<1>b. t2 = [y \in DOMAIN t1 \cup {1} |-> IF y = 1 THEN t1[d] ELSE t1[y]]
  BY DEF dup2, With
<1> HIDE DEF own, t1, t2
<1>7. DOMAIN t1 = DOMAIN table \cup {0} /\ t1[0] = table[a]
      /\ \A x \in DOMAIN table : x # 0 => t1[x] = table[x]
  BY <1>a
<1>8. DOMAIN t2 = DOMAIN t1 \cup {1} /\ t2[1] = t1[d]
      /\ \A x \in DOMAIN t1 : x # 1 => t2[x] = t1[x]
  BY <1>b
<1>9. DOMAIN t3 = DOMAIN t2 \ {a} /\ \A x \in DOMAIN t2 \ {a} : t3[x] = t2[x]
  BY Closing
<1> HIDE DEF t3
<1>10. DOMAIN t4 = DOMAIN t3 \ {b} /\ \A x \in DOMAIN t3 \ {b} : t4[x] = t3[x]
  BY Closing
<1> HIDE DEF t4
<1>11. DOMAIN t5 = DOMAIN t4 \ {c} /\ \A x \in DOMAIN t4 \ {c} : t5[x] = t4[x]
  BY Closing
<1> HIDE DEF t5
<1>12. DOMAIN t6 = DOMAIN t5 \ {d} /\ \A x \in DOMAIN t5 \ {d} : t6[x] = t5[x]
  BY Closing
<1> HIDE DEF t6
<1>13. DOMAIN t6 = DOMAIN t2 \ {a, b, c, d} /\ \A x \in DOMAIN t6 : t6[x] = t2[x]
  BY <1>9, <1>10, <1>11, <1>12
<1>14. \A x \in DOMAIN own : \E y \in DOMAIN table : own[x] = table[y]
  <2>1. \A x \in DOMAIN t1 : \E y \in DOMAIN table : t1[x] = table[y]
    BY <1>7
  <2>2. \A x \in DOMAIN t2 : \E y \in DOMAIN t1 : t2[x] = t1[y]
    BY <1>7, <1>8
  <2> QED
    BY <2>1, <2>2, <1>6, <1>13
<1>15. ASSUME {0, 1} \subseteq DOMAIN table, table[0] = Tty, table[1] = Tty
       PROVE  {0, 1} \subseteq DOMAIN own /\ own[0] = R(p) /\ own[1] = W(p + 1)
  <2>1. table[a] = R(p) /\ table[b] = W(p) /\ table[c] = R(p + 1) /\ table[d] = W(p + 1)
    BY <1>1, <1>2, <1>3, <1>4 DEF SoleAt
  <2>2. {0, 1} \cap {a, b, c, d} = {}
    BY <1>15, <2>1, EndsDiffer
  <2>a. d # 0 /\ d # 1 /\ d \in DOMAIN t1
    BY <2>2, <1>7
  <2>3. 0 \in DOMAIN t2 /\ 1 \in DOMAIN t2 /\ t2[0] = R(p) /\ t2[1] = W(p + 1)
    BY <2>1, <2>a, <1>7, <1>8
  <2> QED
    BY <2>2, <2>3, <1>6, <1>13
<1>16. ASSUME NEW x \in DOMAIN own PROVE own[x] # W(p) /\ own[x] # R(p + 1)
  <2>1. /\ table[a] = R(p) /\ table[b] = W(p) /\ table[c] = R(p + 1) /\ table[d] = W(p + 1)
        /\ \A y \in DOMAIN table :
              (table[y] = W(p) => y = b) /\ (table[y] = R(p + 1) => y = c)
    BY <1>1, <1>2, <1>3, <1>4 DEF SoleAt
  <2>2. W(p + 1) # W(p) /\ R(p) # W(p) /\ R(p) # R(p + 1) /\ W(p + 1) # R(p + 1)
    <3>1. p + 1 # p
      OBVIOUS
    <3> QED
      BY <3>1, EndsDiffer
  <2>3. x # b /\ x # c /\ x \in DOMAIN t2 /\ own[x] = t2[x]
    BY <1>6, <1>13
  <2>4. t1[d] = R(p) \/ t1[d] = W(p + 1)
    BY <1>4, <1>7, <2>1
  <2>5. CASE x = 1
    BY <1>8, <2>2, <2>3, <2>4, <2>5
  <2>6. CASE x # 1 /\ x = 0
    BY <1>7, <1>8, <2>1, <2>2, <2>3, <2>6
  <2>7. CASE x # 1 /\ x # 0
    <3>1. x \in DOMAIN table /\ own[x] = table[x]
      BY <1>7, <1>8, <2>3, <2>7
    <3> QED
      BY <2>1, <2>3, <3>1
  <2> QED
    BY <2>5, <2>6, <2>7
<1> QED
  BY <1>14, <1>15, <1>16 DEF own

(***************************************************************************)
(* The command line.                                                       *)
(***************************************************************************)

\* nextMarker does not go back, and where it goes on it began at a word.
LEMMA NextMarker ==
    ASSUME NEW v \in Argvs, NEW i \in Nat
    PROVE  /\ nextMarker(v, i) \in Nat /\ nextMarker(v, i) >= i
           /\ i < nextMarker(v, i) => i < argc(v) /\ At(v, i) # Marker
<1> DEFINE found == {j \in i .. argc(v) - 1 : At(v, j) = Marker}
<1>1. argc(v) \in Nat
  BY PreforkAssumption DEF argc
<1>2. CASE found # {}
  <2>1. found \in SUBSET Nat
    BY <1>1
  <2>2. Min(found) \in found /\ \A j \in found : Min(found) <= j
    BY <1>2, <2>1, MinIsLeast
  <2>3. nextMarker(v, i) = Min(found)
    BY <1>2 DEF nextMarker
  <2>4. Min(found) \in i .. argc(v) - 1
    BY <2>2
  <2>5. i < Min(found) => i \notin found
    BY <1>1, <2>2, <2>4
  <2>6. i \in i .. argc(v) - 1
    BY <1>1, <2>4
  <2> HIDE DEF found
  <2> QED
    BY <1>1, <2>3, <2>4, <2>5, <2>6 DEF found
<1>3. CASE found = {}
  <2>1. nextMarker(v, i) = IF i < argc(v) THEN argc(v) ELSE i
    BY <1>3 DEF nextMarker
  <2>2. i < argc(v) => i \in i .. argc(v) - 1
    BY <1>1
  <2>3. i < argc(v) => At(v, i) # Marker
    BY <1>3, <2>2
  <2> QED
    BY <1>1, <2>1, <2>3
<1> QED
  BY <1>2, <1>3

\* The words before a place are some of the words of the command line, and a word more is
\* one more.
LEMMA WordsCounted ==
    ASSUME NEW n \in Nat, argv \in Argvs
    PROVE  /\ IsFiniteSet(WordsBefore(n)) /\ Cardinality(WordsBefore(n)) \in Nat
           /\ Cardinality(WordsBefore(n)) <= marker_count(argv)
           /\ marker_count(argv) \in Nat
           /\ \A k \in Nat :
                 n < k /\ n < argc(argv) /\ At(argv, n) # Marker =>
                    Cardinality(WordsBefore(n)) + 1 <= Cardinality(WordsBefore(k))
<1> DEFINE words == {i \in 0 .. argc(argv) - 1 : At(argv, i) # Marker}
<1>1. argc(argv) \in Nat
  BY PreforkAssumption DEF argc
<1>2. IsFiniteSet(0 .. argc(argv) - 1)
  BY <1>1, FS_Interval
<1>3. words \subseteq 0 .. argc(argv) - 1 /\ marker_count(argv) = Cardinality(words)
  BY DEF marker_count
<1>4. IsFiniteSet(words)
  BY <1>2, <1>3, FS_Subset
<1>5. \A k : WordsBefore(k) = {i \in words : i < k}
  BY DEF WordsBefore
<1> HIDE DEF words
<1>6. \A k : WordsBefore(k) \subseteq words
  BY <1>5
<1>7. \A k : IsFiniteSet(WordsBefore(k)) /\ Cardinality(WordsBefore(k)) <= Cardinality(words)
  BY <1>4, <1>6, FS_Subset
<1>8. Cardinality(words) \in Nat /\ \A k : Cardinality(WordsBefore(k)) \in Nat
  BY <1>4, <1>7, FS_CardinalityType
<1>9. ASSUME NEW k \in Nat, n < k, n < argc(argv), At(argv, n) # Marker
      PROVE  Cardinality(WordsBefore(n)) + 1 <= Cardinality(WordsBefore(k))
  <2>1. n \in words
    BY <1>1, <1>9 DEF words
  <2>2. n \notin WordsBefore(n) /\ WordsBefore(n) \cup {n} \subseteq WordsBefore(k)
    <3>1. words \subseteq Int
      BY <1>1, <1>3
    <3>2. WordsBefore(n) = {i \in words : i < n} /\ WordsBefore(k) = {i \in words : i < k}
      BY <1>5
    <3>3. \A i \in words : i < n => i < k
      BY <1>9, <3>1
    <3>4. n \in WordsBefore(k) /\ n \notin WordsBefore(n)
      BY <1>9, <2>1, <3>2
    <3> QED
      BY <3>2, <3>3, <3>4
  <2>3. Cardinality(WordsBefore(n) \cup {n}) = Cardinality(WordsBefore(n)) + 1
    BY <1>7, <2>2, FS_AddElement
  <2>4. Cardinality(WordsBefore(n) \cup {n}) <= Cardinality(WordsBefore(k))
    BY <1>7, <2>2, FS_Subset
  <2> QED
    BY <2>3, <2>4
<1> QED
  BY <1>3, <1>7, <1>8, <1>9

(***************************************************************************)
(* Prefork: the invariant holds at every step.                             *)
(***************************************************************************)

\* At the start there are the master and its standard descriptors.
LEMMA PreforkInitInv == PreforkInit => PreforkInv
<1> SUFFICES ASSUME PreforkInit PROVE PreforkInv
  OBVIOUS
<1>0. IsFiniteSet(0 .. 2)
  <2>1. \A n \in Nat : IsFiniteSet(0 .. n)
    BY FS_Interval
  <2> QED
    BY <2>1
<1> USE DEF PreforkInit, Children
<1>1. state = <<>> /\ m_children = <<>> /\ Len(state) = 0 /\ Children = {}
  OBVIOUS
<1>2. PreforkTypes
  <2>1. state \in Seq({"forked", "armed", "running", "dead"})
        /\ m_children \in Seq([in : Nat, out : Nat, pid : Nat]) /\ size = 0
    BY <1>1 DEF size
  <2>2. DOMAIN fds = {0} \cup Children /\ DOMAIN block = DOMAIN fds
    BY <1>1
  <2>3. /\ index \in Nat /\ pipes = 2 * Len(state) /\ Len(m_children) = Len(state)
        /\ pending \in Nat /\ others \in 0 .. MaxOthers
    BY <1>1, PreforkAssumption DEF None
  <2>4. signalled \in SUBSET Children /\ halted \in SUBSET Children /\ m_index = -1
    BY DEF NewFactory
  <2>5. \A c \in Children : m_children[c].pid = c
    BY <1>1
  <2> QED
    BY <2>1, <2>2, <2>3, <2>4, <2>5 DEF PreforkTypes
<1>3. MasterFds
  <2>1. fds[0] = [fd \in stdio |-> Tty] /\ stdio \in SUBSET (0 .. 2)
    BY PreforkAssumption
  <2>3. IsFiniteSet(stdio)
    BY <1>0, <2>1, FS_Subset
  <2>4. Cardinality(stdio) \in Nat
    BY <2>3, FS_CardinalityType
  <2>5. DOMAIN fds[0] = stdio /\ \A fd \in stdio : fds[0][fd] = Tty
    BY <2>1
  <2>6. stdio \subseteq Nat
    BY <2>1
  <2> QED
    BY <1>1, <2>3, <2>4, <2>5, <2>6 DEF MasterFds, Numbered, HasStdio
<1>4. ChildFds
  BY <1>1 DEF ChildFds
<1>5. BlocksHaveWords
  BY <1>1 DEF BlocksHaveWords
<1> QED
  BY <1>2, <1>3, <1>4, <1>5 DEF PreforkInv

\* The children are numbered from 1.
LEMMA Numbers ==
    ASSUME PreforkTypes
    PROVE  /\ Len(state) \in Nat /\ Children = 1 .. Len(state)
           /\ DOMAIN m_children = Children /\ size = Len(state)
           /\ 0 \notin Children /\ Children \subseteq Nat
BY DEF PreforkTypes, Children, size

\* What a child has depends on its own state and descriptors.
LEMMA ChildHasStill ==
    ASSUME NEW c, ChildHas(c), stdio' = stdio, fds'[c] = fds[c], state'[c] = state[c]
    PROVE  ChildHas(c)'
<1> USE DEF ChildHas
<1>1. OfChild(c, fds[c])'
  BY DEF OfChild
<1>2. state'[c] = "forked" => Untouched(c, fds[c])'
  BY DEF Untouched, HasStdio, Numbered, SoleAt
<1>3. state'[c] \in {"armed", "running"} => SetUp(c, fds[c])'
  BY DEF SetUp
<1> QED
  BY <1>1, <1>2, <1>3

\* So it is for all of them.
LEMMA ChildrenStill ==
    ASSUME PreforkTypes, ChildFds, stdio' = stdio, state' = state,
           \A c \in Children : fds'[c] = fds[c]
    PROVE  ChildFds'
<1> SUFFICES ASSUME NEW c \in Children PROVE ChildHas(c)'
  BY DEF ChildFds, Children
<1> QED
  BY ChildHasStill DEF ChildFds

\* What the master has does not depend on how far the children are.
LEMMA MasterStill ==
    ASSUME MasterFds, stdio' = stdio, Len(state)' = Len(state), Children' = Children,
           m_children' = m_children, fds'[0] = fds[0], pc = "dead" <=> pc' = "dead"
    PROVE  MasterFds'
<1>1. CASE pc' = "dead"
  BY <1>1 DEF MasterFds
<1>2. CASE pc' # "dead"
  BY <1>2 DEF MasterFds, HasStdio, Numbered
<1> QED
  BY <1>1, <1>2

\* The words are counted once more only as the master goes on.
LEMMA WordsStill ==
    ASSUME BlocksHaveWords, argv' = argv, m_children' = m_children,
           pc' \notin {"execute", "makeChild"} \/ (pc' = pc /\ index' = index)
    PROVE  BlocksHaveWords'
BY DEF BlocksHaveWords, WordsBefore, count

\* The master dies.
LEMMA MasterDiesInv ==
    ASSUME PreforkInv, MasterDies, pending' \in Nat,
           UNCHANGED <<argv, stdio, index, m_children, handler, others, noticeable, pipes,
                       block, state, client>>
    PROVE  PreforkInv'
<1> USE DEF PreforkInv, MasterDies, client
<1>1. fds' = [fds EXCEPT ![0] = <<>>]
  OBVIOUS
<1>2. PreforkTypes'
  BY DEF PreforkTypes, Children, size
<1>3. MasterFds'
  <2>1. fds'[0] = <<>>
    BY DEF PreforkTypes
  <2> QED
    BY <2>1 DEF MasterFds
<1>4. \A c \in Children : fds'[c] = fds[c]
  BY <1>1, Numbers
<1>5. ChildFds'
  BY <1>4, ChildrenStill
<1>6. BlocksHaveWords'
  BY WordsStill
<1> QED
  BY <1>2, <1>3, <1>5, <1>6

\* A child dies.
LEMMA ChildDiesInv ==
    ASSUME PreforkInv, NEW c \in Children, ChildDies(c), ChildStays
    PROVE  PreforkInv'
<1> USE DEF PreforkInv, ChildDies, ChildStays, master, client, Raise
<1>1. state' = [state EXCEPT ![c] = "dead"] /\ fds' = [fds EXCEPT ![c] = <<>>]
  OBVIOUS
<1>2. c \in Nat /\ c # 0 /\ c \in DOMAIN state /\ c \in DOMAIN fds
  BY Numbers DEF Children, PreforkTypes
<1>3. /\ state' \in Seq({"forked", "armed", "running", "dead"}) /\ Len(state') = Len(state)
      /\ DOMAIN state' = DOMAIN state /\ DOMAIN fds' = DOMAIN fds
  BY <1>1, <1>2 DEF PreforkTypes
<1>4. noticeable' \in BOOLEAN /\ pending' \in Nat
  BY <1>2 DEF PreforkTypes
<1>5. PreforkTypes'
  BY <1>3, <1>4 DEF PreforkTypes, Children, size
<1>6. fds'[0] = fds[0]
  BY <1>1, <1>2
<1>7. MasterFds'
  BY <1>3, <1>6, MasterStill DEF Children
<1>8. ASSUME NEW d \in Children, d # c PROVE ChildHas(d)'
  <2>1. fds'[d] = fds[d] /\ state'[d] = state[d]
    BY <1>1, <1>2, <1>8 DEF Children
  <2> QED
    BY <2>1, ChildHasStill DEF ChildFds
<1>9. ChildHas(c)'
  <2>1. fds'[c] = <<>> /\ state'[c] = "dead"
    BY <1>1, <1>2
  <2>2. DOMAIN fds'[c] = {}
    BY <2>1
  <2> QED
    BY <2>1, <2>2 DEF ChildHas, OfChild
<1>10. ChildFds'
  BY <1>3, <1>8, <1>9 DEF ChildFds, Children
<1>11. BlocksHaveWords'
  BY WordsStill
<1> QED
  BY <1>5, <1>7, <1>10, <1>11

\* execute(): the first block has a word.
LEMMA ExecuteInv == PreforkInv /\ execute => PreforkInv'
<1> SUFFICES ASSUME PreforkInv, execute PROVE PreforkInv'
  OBVIOUS
<1> USE DEF PreforkInv, execute
<1>1. CASE Refused(argv)
  <2>1. MasterDies /\ pending' \in Nat
    BY <1>1 DEF PreforkTypes
  <2>2. UNCHANGED <<argv, stdio, index, m_children, handler, others, noticeable, pipes,
                    block, state, client>>
    BY <1>1
  <2> QED
    BY <2>1, <2>2, MasterDiesInv
<1>2. CASE ~Refused(argv)
  <2> DEFINE first == startOf(argv)
             last  == endOf(argv)
  <2>1. argv \in Argvs /\ argc(argv) \in Nat
    BY PreforkAssumption DEF PreforkTypes, argc
  <2>2. nextMarker(argv, 0) \in Nat
    BY <2>1, NextMarker
  <2>3. first \in Nat
    BY <2>2 DEF startOf
  <2>4. last \in Nat /\ (first < last => first < argc(argv) /\ At(argv, first) # Marker)
    BY <2>1, <2>3, NextMarker DEF endOf
  <2>5. first < last
    BY <1>2, <2>3, <2>4 DEF Refused
  <2>6. /\ pc' = "makeChild" /\ index' = last + 1 /\ UNCHANGED <<signalled, fds>>
        /\ block' = [block EXCEPT ![0] = <<first, last>>]
    BY <1>2
  <2>7. UNCHANGED <<argv, stdio, m_children, handler, pending, others, noticeable, pipes,
                    state, m_index, halted>>
    BY DEF client
  <2> HIDE DEF first, last
  <2>8. PreforkTypes'
    BY <2>4, <2>6, <2>7 DEF PreforkTypes, Children, size
  <2>9. MasterFds'
    BY <2>6, <2>7, MasterStill DEF Children
  <2>10. ChildFds'
    BY <2>6, <2>7, ChildrenStill
  <2>11. BlocksHaveWords'
    <3>1. m_children = <<>>
      BY DEF BlocksHaveWords
    <3>2. Cardinality(WordsBefore(first)) \in Nat
          /\ Cardinality(WordsBefore(first)) + 1 <= Cardinality(WordsBefore(last + 1))
      BY <2>1, <2>3, <2>4, <2>5, WordsCounted
    <3>3. Cardinality(WordsBefore(last + 1)) \in Nat
      BY <2>1, <2>4, WordsCounted
    <3>4. WordsBefore(index)' = WordsBefore(last + 1)
      BY <2>6, <2>7 DEF WordsBefore
    <3> QED
      BY <2>6, <2>7, <3>1, <3>2, <3>3, <3>4 DEF BlocksHaveWords
  <2> QED
    BY <2>8, <2>9, <2>10, <2>11
<1> QED
  BY <1>1, <1>2

\* makeChild() at an empty block: the master goes on.
LEMMA NoChildInv ==
    ASSUME PreforkInv, pc = "makeChild", NEW last \in Nat, last >= index, GoOn(last),
           UNCHANGED <<m_children, fds, pipes, block, state, signalled>>,
           UNCHANGED <<argv, stdio, handler, pending, others, noticeable, client>>
    PROVE  PreforkInv'
<1> USE DEF PreforkInv, GoOn, AfterBlock, client
<1>1. index' = last + 1 /\ pc' \in {"makeChild", "sigaction"}
  OBVIOUS
<1>2. PreforkTypes'
  BY <1>1 DEF PreforkTypes, Children, size
<1>3. MasterFds'
  BY <1>1, MasterStill DEF Children
<1>4. ChildFds'
  BY ChildrenStill
<1>5. BlocksHaveWords'
  <2>1. argv \in Argvs /\ index \in Nat /\ index' \in Nat /\ Len(m_children) \in Nat
    BY <1>1 DEF PreforkTypes
  <2>2. /\ IsFiniteSet(WordsBefore(index')) /\ Cardinality(WordsBefore(index')) \in Nat
        /\ Cardinality(WordsBefore(index)) \in Nat
    BY <2>1, WordsCounted
  <2>3. WordsBefore(index) \subseteq WordsBefore(index')
    <3>1. argc(argv) \in Nat
      BY <2>1, PreforkAssumption DEF argc
    <3>2. \A i \in 0 .. argc(argv) - 1 : i < index => i < index'
      BY <1>1, <2>1, <3>1
    <3> QED
      BY <3>2 DEF WordsBefore
  <2>4. Cardinality(WordsBefore(index)) <= Cardinality(WordsBefore(index'))
    BY <2>2, <2>3, FS_Subset
  <2>5. WordsBefore(index)' = WordsBefore(index')
    BY DEF WordsBefore
  <2>6. pc' = "makeChild" => 1 + Len(m_children') <= Cardinality(WordsBefore(index)')
    BY <2>1, <2>2, <2>4, <2>5 DEF BlocksHaveWords
  <2> QED
    BY <1>1, <2>6 DEF BlocksHaveWords, count
<1> QED
  BY <1>2, <1>3, <1>4, <1>5

\* No end of the pipes to come is open in the master.
LEMMA EndsAreNew ==
    ASSUME PreforkTypes, MasterFds, pc # "dead", NEW fd \in DOMAIN fds[0]
    PROVE  fds[0][fd] \notin Fresh(Len(state) + 1)
<1> DEFINE c == Len(state) + 1
<1>1. c \in Nat /\ Children = 1 .. Len(state) /\ Len(state) \in Nat
  BY Numbers
<1>2. fds[0][fd] = Tty \/ \E d \in Children : fds[0][fd] \in NotedEnds(d)
  BY DEF MasterFds
<1>3. CASE fds[0][fd] = Tty
  BY <1>3, EndsDiffer DEF Fresh
<1>4. ASSUME NEW d \in Children, fds[0][fd] \in NotedEnds(d) PROVE fds[0][fd] \notin Fresh(c)
  <2>1. 2 * d - 1 # 2 * c - 1 /\ 2 * d # 2 * c /\ 2 * d - 1 # 2 * c /\ 2 * d # 2 * c - 1
    BY <1>1
  <2>2. fds[0][fd] = W(2 * d - 1) \/ fds[0][fd] = R(2 * d)
    BY <1>4 DEF NotedEnds
  <2> QED
    BY <2>1, <2>2, EndsDiffer DEF Fresh
<1> QED
  BY <1>2, <1>3, <1>4

\* makeChild() forks: the child has what the master has, and two pipes of its own.
LEMMA ForkInv ==
    ASSUME PreforkInv, pc = "makeChild", NEW last \in Nat, index < last,
           index < argc(argv), At(argv, index) # Marker, Fork(last),
           UNCHANGED <<argv, stdio, handler, pending, others, noticeable, client>>,
           NEW CONSTANT c, c = Len(state) + 1
    PROVE  PreforkInv'
<1> DEFINE table == fds[0]
           full  == TwoPipes(table, 2 * c - 1)
           kept  == MasterTable(full, 2 * c - 1)
           in    == NumberOf(full, W(2 * c - 1))
           out   == NumberOf(full, R(2 * c))
<1>1. /\ PreforkTypes /\ MasterFds /\ ChildFds /\ BlocksHaveWords
      /\ Len(state) \in Nat /\ Children = 1 .. Len(state) /\ DOMAIN m_children = Children
      /\ c \in Nat /\ c \notin Children /\ c # 0 /\ size = Len(state)
  BY Numbers DEF PreforkInv
<1>2. pipes + 1 = 2 * c - 1 /\ pipes + 2 = 2 * c /\ (2 * c - 1) + 1 = 2 * c /\ 2 * c - 1 \in Nat
  BY <1>1 DEF PreforkTypes
<1>3. /\ state' = Append(state, "forked")
      /\ block' = With(block, c, <<index, last>>)
      /\ pipes' = pipes + 2
      /\ fds' = With(With(fds, c, full), 0, kept)
      /\ m_children' = Append(m_children, [in |-> in, out |-> out, pid |-> c])
      /\ UNCHANGED signalled
  BY <1>2 DEF Fork
<1>4. index' = last + 1 /\ pc' \in {"makeChild", "sigaction"}
  BY DEF Fork, GoOn, AfterBlock
<1>5. UNCHANGED <<argv, stdio, handler, pending, others, noticeable, m_index, halted>>
  BY DEF client
<1> HIDE DEF full, kept, in, out
<1>6. \A fd \in DOMAIN table : table[fd] \notin Fresh(c)
  BY <1>1, EndsAreNew
<1>7. Fresh(c) = {R(2 * c - 1), W(2 * c - 1), R(2 * c), W(2 * c)}
  BY DEF Fresh
<1>8. Numbered(table)
  BY <1>1 DEF MasterFds
<1>9. /\ Numbered(full)
      /\ \A x \in DOMAIN table : x \in DOMAIN full /\ full[x] = table[x]
      /\ \A x \in DOMAIN full : x \in DOMAIN table \/ full[x] \in Fresh(c)
      /\ \A what \in Fresh(c) : \E fd \in DOMAIN full : SoleAt(full, fd, what)
      /\ in \in Nat /\ out \in Nat /\ in # out
      /\ in \notin DOMAIN table /\ out \notin DOMAIN table
      /\ DOMAIN kept = DOMAIN table \cup {in, out}
      /\ kept[in] = W(2 * c - 1) /\ kept[out] = R(2 * c)
      /\ \A x \in DOMAIN table : kept[x] = table[x]
      /\ Numbered(kept)
      /\ Cardinality(DOMAIN kept) = Cardinality(DOMAIN table) + 2
  <2> HIDE DEF table
  <2>1. \A fd \in DOMAIN table :
           table[fd] \notin {R(2 * c - 1), W(2 * c - 1), R((2 * c - 1) + 1), W((2 * c - 1) + 1)}
    BY <1>2, <1>6, <1>7
  <2> DEFINE full2 == TwoPipes(table, 2 * c - 1)
             kept2 == MasterTable(full2, 2 * c - 1)
             in2   == NumberOf(full2, W(2 * c - 1))
             out2  == NumberOf(full2, R((2 * c - 1) + 1))
             ends  == {R(2 * c - 1), W(2 * c - 1), R((2 * c - 1) + 1), W((2 * c - 1) + 1)}
  <2>2. /\ Numbered(full2)
        /\ \A x \in DOMAIN table : x \in DOMAIN full2 /\ full2[x] = table[x]
        /\ \A x \in DOMAIN full2 : x \in DOMAIN table \/ full2[x] \in ends
        /\ \A what \in ends : \E fd \in DOMAIN full2 : SoleAt(full2, fd, what)
        /\ in2 \in Nat /\ out2 \in Nat /\ in2 # out2
        /\ in2 \notin DOMAIN table /\ out2 \notin DOMAIN table
        /\ DOMAIN kept2 = DOMAIN table \cup {in2, out2}
        /\ kept2[in2] = W(2 * c - 1) /\ kept2[out2] = R((2 * c - 1) + 1)
        /\ \A x \in DOMAIN table : kept2[x] = table[x]
        /\ Numbered(kept2)
        /\ Cardinality(DOMAIN kept2) = Cardinality(DOMAIN table) + 2
    BY <1>2, <1>8, <2>1, PipesMade
  <2>3. full = full2 /\ kept = kept2 /\ in = in2 /\ out = out2 /\ Fresh(c) = ends
    BY <1>2, <1>7 DEF full, kept, in, out
  <2> HIDE DEF full2, kept2, in2, out2, ends
  <2> QED
    BY <2>2, <2>3, <1>2
<1>10. /\ DOMAIN fds' = {0} \cup Children \cup {c}
       /\ fds'[0] = kept /\ fds'[c] = full /\ \A d \in Children : fds'[d] = fds[d]
  <2>1. DOMAIN fds = {0} \cup Children
    BY <1>1 DEF PreforkTypes
  <2> QED
    BY <1>1, <1>3, <2>1 DEF With
<1>11. DOMAIN block' = {0} \cup Children \cup {c}
  <2>1. DOMAIN block = {0} \cup Children
    BY <1>1 DEF PreforkTypes
  <2> QED
    BY <1>3, <2>1 DEF With
<1>12. /\ Len(state') = c /\ Children' = 1 .. c /\ Children' = Children \cup {c}
       /\ state' \in Seq({"forked", "armed", "running", "dead"})
       /\ state'[c] = "forked" /\ \A d \in Children : state'[d] = state[d]
  <2>1. state \in Seq({"forked", "armed", "running", "dead"})
    BY <1>1 DEF PreforkTypes
  <2>2. /\ Len(state') = c /\ state' \in Seq({"forked", "armed", "running", "dead"})
        /\ state'[c] = "forked" /\ \A d \in 1 .. Len(state) : state'[d] = state[d]
    BY <1>3, <2>1
  <2>3. Children' = 1 .. c
    BY <2>2 DEF Children
  <2> QED
    BY <1>1, <2>2, <2>3
<1>13. /\ Len(m_children') = c
       /\ m_children' \in Seq([in : Nat, out : Nat, pid : Nat])
       /\ m_children'[c] = [in |-> in, out |-> out, pid |-> c]
       /\ \A d \in Children : m_children'[d] = m_children[d]
  <2>1. m_children \in Seq([in : Nat, out : Nat, pid : Nat]) /\ Len(m_children) = Len(state)
    BY <1>1 DEF PreforkTypes
  <2>2. [in |-> in, out |-> out, pid |-> c] \in [in : Nat, out : Nat, pid : Nat]
    BY <1>1, <1>9
  <2> QED
    BY <1>1, <1>3, <2>1, <2>2
<1> HIDE DEF table
<1>14. PreforkTypes'
  <2>1. pipes' = 2 * Len(state')
    BY <1>1, <1>2, <1>3, <1>12
  <2>2. index' \in Nat
    BY <1>4
  <2>3. \A d \in Children' : m_children'[d].pid = d
    <3>1. \A d \in Children : m_children'[d].pid = d
      BY <1>1, <1>13 DEF PreforkTypes
    <3>2. m_children'[c].pid = c
      BY <1>13
    <3> QED
      BY <1>12, <3>1, <3>2
  <2>4. signalled' \in SUBSET Children' /\ halted' \in SUBSET Children'
    BY <1>1, <1>3, <1>5, <1>12 DEF PreforkTypes
  <2>5. DOMAIN fds' = {0} \cup Children' /\ DOMAIN block' = DOMAIN fds'
    BY <1>10, <1>11, <1>12
  <2>6. size' = Len(state) + 1
    BY <1>13 DEF size
  <2>7. m_index' \in {Destroyed, -1} \cup 0 .. size' - 1
    BY <1>1, <1>5, <2>6 DEF PreforkTypes
  <2> QED
    BY <1>1, <1>4, <1>5, <1>12, <1>13, <2>1, <2>2, <2>3, <2>4, <2>5, <2>7 DEF PreforkTypes
<1>15. MasterFds'
  <2>1. HasStdio(kept)
    <3>1. HasStdio(table)
      BY <1>1 DEF MasterFds, table
    <3> QED
      BY <1>9, <3>1 DEF HasStdio
  <2>2. Cardinality(DOMAIN kept) = Cardinality(stdio) + 2 * Len(state')
    <3>1. Cardinality(DOMAIN table) = Cardinality(stdio) + 2 * Len(state)
      BY <1>1 DEF MasterFds, table
    <3>2. Cardinality(DOMAIN table) \in Nat
      BY <1>8, FS_CardinalityType DEF Numbered
    <3>3. IsFiniteSet(stdio)
      <4>1. stdio \subseteq DOMAIN table
        BY <1>1 DEF MasterFds, HasStdio, table
      <4> QED
        BY <4>1, <1>8, FS_Subset DEF Numbered
    <3>4. Cardinality(stdio) \in Nat
      BY <3>3, FS_CardinalityType
    <3> QED
      BY <1>1, <1>9, <1>12, <3>1, <3>2, <3>4
  <2>3. \A fd1, fd2 \in DOMAIN kept : kept[fd1] = kept[fd2] /\ kept[fd1] # Tty => fd1 = fd2
    <3>1. \A fd1, fd2 \in DOMAIN table : table[fd1] = table[fd2] /\ table[fd1] # Tty => fd1 = fd2
      BY <1>1 DEF MasterFds, table
    <3>2. kept[in] # kept[out]
      BY <1>9, EndsDiffer
    <3>3. \A fd \in DOMAIN table : table[fd] # kept[in] /\ table[fd] # kept[out]
      BY <1>6, <1>7, <1>9
    <3> QED
      BY <1>9, <3>1, <3>2, <3>3
  <2>4. \A fd \in DOMAIN kept : kept[fd] = Tty \/ \E d \in Children' : kept[fd] \in NotedEnds(d)
    <3>1. \A fd \in DOMAIN table : table[fd] = Tty \/ \E d \in Children : table[fd] \in NotedEnds(d)
      BY <1>1 DEF MasterFds, table
    <3>2. kept[in] \in NotedEnds(c) /\ kept[out] \in NotedEnds(c)
      BY <1>9 DEF NotedEnds
    <3> QED
      BY <1>9, <1>12, <3>1, <3>2
  <2>5. \A d \in Children' :
           /\ m_children'[d].in \in DOMAIN kept /\ kept[m_children'[d].in] = W(2 * d - 1)
           /\ m_children'[d].out \in DOMAIN kept /\ kept[m_children'[d].out] = R(2 * d)
    <3>1. \A d \in Children :
             /\ m_children[d].in \in DOMAIN table /\ table[m_children[d].in] = W(2 * d - 1)
             /\ m_children[d].out \in DOMAIN table /\ table[m_children[d].out] = R(2 * d)
      BY <1>1 DEF MasterFds, table
    <3>2. ASSUME NEW d \in Children
          PROVE  /\ m_children'[d].in \in DOMAIN kept /\ kept[m_children'[d].in] = W(2 * d - 1)
                 /\ m_children'[d].out \in DOMAIN kept /\ kept[m_children'[d].out] = R(2 * d)
      BY <1>9, <1>13, <3>1, <3>2
    <3>3. m_children'[c].in = in /\ m_children'[c].out = out
      BY <1>13
    <3> QED
      BY <1>9, <1>12, <3>2, <3>3
  <2> QED
    BY <1>4, <1>5, <1>9, <1>10, <2>1, <2>2, <2>3, <2>4, <2>5 DEF MasterFds, HasStdio, Numbered
<1>16. ChildFds'
  <2>1. ASSUME NEW d \in Children PROVE ChildHas(d)'
    BY <1>1, <1>5, <1>10, <1>12, <2>1, ChildHasStill DEF ChildFds
  <2>2. OfChild(c, full)
    <3>1. \A fd \in DOMAIN table :
             table[fd] = Tty \/ \E d \in 1 .. c - 1 : table[fd] \in NotedEnds(d)
      BY <1>1 DEF MasterFds, table
    <3> QED
      BY <1>9, <3>1 DEF OfChild
  <2>3. Untouched(c, full)
    <3>1. HasStdio(table)
      BY <1>1 DEF MasterFds, table
    <3>2. HasStdio(full)
      BY <1>9, <3>1 DEF HasStdio
    <3> QED
      BY <1>9, <3>2 DEF Untouched
  <2>4. ChildHas(c)'
    BY <1>5, <1>10, <1>12, <2>2, <2>3
       DEF ChildHas, OfChild, Untouched, HasStdio, Numbered, SoleAt
  <2> QED
    BY <1>12, <2>1, <2>4 DEF ChildFds
<1>17. BlocksHaveWords'
  <2>a. argv \in Argvs /\ index \in Nat
    BY <1>1 DEF PreforkTypes
  <2>1. argv \in Argvs /\ index \in Nat /\ last + 1 \in Nat /\ index < last + 1
    BY <2>a
  <2>2. Cardinality(WordsBefore(index)) + 1 <= Cardinality(WordsBefore(last + 1))
        /\ Cardinality(WordsBefore(index)) \in Nat
    BY <2>1, WordsCounted
  <2>3. /\ Cardinality(WordsBefore(last + 1)) \in Nat /\ marker_count(argv) \in Nat
        /\ Cardinality(WordsBefore(last + 1)) <= marker_count(argv)
    BY <2>1, WordsCounted
  <2>4. WordsBefore(index)' = WordsBefore(last + 1)
    BY <1>4, <1>5 DEF WordsBefore
  <2>5. Len(m_children') = Len(m_children) + 1 /\ Len(m_children) \in Nat
    BY <1>1, <1>13 DEF PreforkTypes
  <2>6. 1 + Len(m_children) <= Cardinality(WordsBefore(index))
    BY <1>1 DEF BlocksHaveWords
  <2>7. 1 + Len(m_children') <= Cardinality(WordsBefore(last + 1))
    BY <2>2, <2>3, <2>5, <2>6
  <2>8. Len(m_children') <= count(argv)
    BY <2>3, <2>5, <2>7 DEF count
  <2> QED
    BY <1>4, <1>5, <2>4, <2>7, <2>8 DEF BlocksHaveWords, count
<1> QED
  BY <1>14, <1>15, <1>16, <1>17 DEF PreforkInv

\* makeChild() and its loop.
LEMMA MakeChildInv == PreforkInv /\ makeChild => PreforkInv'
<1> SUFFICES ASSUME PreforkInv, makeChild PROVE PreforkInv'
  OBVIOUS
<1> DEFINE last == nextMarker(argv, index)
<1>1. argv \in Argvs /\ index \in Nat /\ pending \in Nat /\ Len(state) \in Nat
  BY DEF PreforkInv, PreforkTypes
<1>2. /\ last \in Nat /\ last >= index
      /\ index < last => index < argc(argv) /\ At(argv, index) # Marker
  BY <1>1, NextMarker
<1>3. pc = "makeChild" /\ UNCHANGED <<argv, stdio, handler, pending, others, noticeable, client>>
  BY DEF makeChild
<1>4. \/ index < last /\ MasterDies /\ UNCHANGED <<index, m_children, pipes, block, state>>
      \/ index < last /\ Fork(last)
      \/ GoOn(last) /\ UNCHANGED <<m_children, fds, pipes, block, state, signalled>>
  BY DEF makeChild
<1> PICK stop : stop = last
  OBVIOUS
<1> HIDE DEF last
<1>5. CASE index < last /\ MasterDies /\ UNCHANGED <<index, m_children, pipes, block, state>>
  <2>1. pending' \in Nat
    BY <1>1, <1>3
  <2> QED
    BY <1>3, <1>5, <2>1, MasterDiesInv
<1>6. CASE index < last /\ Fork(last)
  <2>1. Fork(stop) /\ stop \in Nat /\ index < stop
    BY <1>2, <1>6
  <2>2. PICK c : c = Len(state) + 1
    OBVIOUS
  <2> QED
    BY <1>2, <1>3, <1>6, <2>1, <2>2, ForkInv
<1>7. CASE GoOn(last) /\ UNCHANGED <<m_children, fds, pipes, block, state, signalled>>
  <2>1. GoOn(stop) /\ stop \in Nat /\ stop >= index
    BY <1>2, <1>7
  <2> QED
    BY <1>3, <1>7, <2>1, NoChildInv
<1> QED
  BY <1>4, <1>5, <1>6, <1>7

\* A step that leaves the children, the descriptors and the command line alone.
LEMMA QuietStep ==
    ASSUME PreforkInv, pc' \in {"sigaction", "launch", "running", "dead"},
           pc = "dead" <=> pc' = "dead",
           UNCHANGED <<argv, stdio, index, m_children, fds, pipes, block, state>>,
           handler' \in BOOLEAN, noticeable' \in BOOLEAN, pending' \in Nat,
           others' \in 0 .. MaxOthers, signalled' \in SUBSET Children,
           halted' \in SUBSET Children, m_index' \in {Destroyed, -1} \cup 0 .. size - 1
    PROVE  PreforkInv'
<1> USE DEF PreforkInv
<1>1. PreforkTypes'
  BY DEF PreforkTypes, Children, size
<1>2. MasterFds'
  BY MasterStill DEF Children
<1>3. ChildFds'
  BY ChildrenStill
<1>4. BlocksHaveWords'
  BY WordsStill
<1> QED
  BY <1>1, <1>2, <1>3, <1>4

\* The types that most steps need.
LEMMA QuietTypes ==
    ASSUME PreforkInv
    PROVE  /\ handler \in BOOLEAN /\ noticeable \in BOOLEAN /\ pending \in Nat
           /\ others \in 0 .. MaxOthers /\ signalled \in SUBSET Children
           /\ halted \in SUBSET Children /\ m_index \in {Destroyed, -1} \cup 0 .. size - 1
           /\ Len(state) \in Nat
BY DEF PreforkInv, PreforkTypes

\* The handler of SIGCHLD is installed.
LEMMA SigactionInv == PreforkInv /\ sigaction => PreforkInv'
BY QuietTypes, QuietStep DEF sigaction, client

\* The master becomes its program.
LEMMA LaunchMasterInv == PreforkInv /\ launchMaster => PreforkInv'
BY QuietTypes, QuietStep DEF launchMaster, client, signalVars

\* The handler of SIGCHLD runs.
LEMMA CheckChildDiedInv == PreforkInv /\ checkChildDied => PreforkInv'
<1> SUFFICES ASSUME PreforkInv, checkChildDied PROVE PreforkInv'
  OBVIOUS
<1> USE DEF checkChildDied
<1>1. pending' = None /\ pending' \in Nat
  BY DEF None
<1>2. CASE Known(pending)
  BY <1>1, <1>2, MasterDiesInv
<1>3. CASE ~Known(pending)
  <2>1. UNCHANGED <<pc, signalled, fds>>
    BY <1>3
  <2>2. PreforkTypes'
    BY <1>1, <2>1 DEF PreforkInv, PreforkTypes, Children, size, client
  <2>3. MasterFds'
    BY <2>1, MasterStill DEF PreforkInv, Children
  <2>4. ChildFds'
    BY <2>1, ChildrenStill DEF PreforkInv
  <2>5. BlocksHaveWords'
    BY <2>1, WordsStill DEF PreforkInv
  <2> QED
    BY <2>2, <2>3, <2>4, <2>5 DEF PreforkInv
<1> QED
  BY <1>2, <1>3

\* The master's program ends.
LEMMA MasterEndsInv == PreforkInv /\ MasterEnds => PreforkInv'
<1> SUFFICES ASSUME PreforkInv, MasterEnds PROVE PreforkInv'
  OBVIOUS
<1>1. pending' \in Nat
  BY QuietTypes DEF MasterEnds
<1> QED
  BY <1>1, MasterDiesInv DEF MasterEnds

\* A process that the master's program started ends.
LEMMA OtherDiesInv == PreforkInv /\ OtherDies => PreforkInv'
<1> SUFFICES ASSUME PreforkInv, OtherDies PROVE PreforkInv'
  OBVIOUS
<1>1. others \in Nat /\ MaxOthers \in Nat
  BY QuietTypes, PreforkAssumption
<1>2. others' \in 0 .. MaxOthers
  BY <1>1 DEF OtherDies
<1>3. pending' \in Nat
  BY <1>1, QuietTypes DEF OtherDies, Raise
<1> QED
  BY <1>2, <1>3, QuietTypes, QuietStep DEF OtherDies, master, client

\* The factory chooses a child.
LEMMA SetIndexInv ==
    ASSUME PreforkInv, NEW i \in Int, setIndex(i)
    PROVE  PreforkInv'
<1>1. m_index' \in 0 .. size - 1
  BY QuietTypes, Numbers DEF setIndex, PreforkInv
<1> QED
  BY <1>1, QuietTypes, QuietStep DEF setIndex, master, signalVars

\* The factory is destroyed, and its child, which it knows by m_index, halted.
LEMMA DestroyFactoryInv == PreforkInv /\ DestroyFactory => PreforkInv'
<1> SUFFICES ASSUME PreforkInv, DestroyFactory PROVE PreforkInv'
  OBVIOUS
<1>1. m_index >= 0 => at(m_index).pid \in Children
  <2>1. PreforkTypes
    BY DEF PreforkInv
  <2>2. m_index >= 0 => m_index + 1 \in Children
    BY <2>1, Numbers, QuietTypes DEF Destroyed
  <2> QED
    BY <2>1, <2>2 DEF PreforkTypes, at
<1>2. halted' \in SUBSET Children
  BY <1>1, QuietTypes DEF DestroyFactory
<1> QED
  BY <1>2, QuietTypes, QuietStep DEF DestroyFactory, master, signalVars

\* A child that does not die takes a step: the others and the master have what they had.
LEMMA ChildStep ==
    ASSUME PreforkInv, NEW c \in Children, NEW to \in {"armed", "running"},
           state' = [state EXCEPT ![c] = to], DOMAIN fds' = DOMAIN fds,
           \A p \in DOMAIN fds : p # c => fds'[p] = fds[p], ChildHas(c)',
           UNCHANGED <<argv, stdio, master, signalVars, pipes, block, client>>
    PROVE  PreforkInv'
<1> USE DEF PreforkInv, master, signalVars, client
<1>1. c \in Nat /\ c # 0 /\ c \in DOMAIN state /\ DOMAIN fds = {0} \cup Children
  BY Numbers DEF Children, PreforkTypes
<1>2. /\ state' \in Seq({"forked", "armed", "running", "dead"}) /\ Len(state') = Len(state)
      /\ DOMAIN state' = DOMAIN state
  BY <1>1 DEF PreforkTypes
<1>3. PreforkTypes'
  BY <1>2 DEF PreforkTypes, Children, size
<1>4. fds'[0] = fds[0]
  BY <1>1
<1>5. MasterFds'
  BY <1>2, <1>4, MasterStill DEF Children
<1>6. ASSUME NEW d \in Children, d # c PROVE ChildHas(d)'
  <2>1. fds'[d] = fds[d] /\ state'[d] = state[d]
    BY <1>1, <1>6 DEF Children
  <2> QED
    BY <2>1, <1>6, ChildHasStill DEF ChildFds
<1>7. ChildFds'
  BY <1>2, <1>6 DEF ChildFds, Children
<1>8. BlocksHaveWords'
  BY WordsStill
<1> QED
  BY <1>3, <1>5, <1>7, <1>8

\* A child makes its pipes its standard input and output.
LEMMA SetsUpInv ==
    ASSUME PreforkInv, NEW c \in Children, SetsUp(c)
    PROVE  PreforkInv'
<1> DEFINE table == fds[c]
           own   == ChildTable(table, 2 * c - 1)
<1>1. c \in Nat /\ c # 0 /\ c \in DOMAIN state /\ DOMAIN fds = {0} \cup Children
  BY Numbers DEF Children, PreforkTypes, PreforkInv
<1>2. fds' = [fds EXCEPT ![c] = own] /\ state' = [state EXCEPT ![c] = "armed"] /\ stdio' = stdio
  BY DEF SetsUp
<1>3. fds'[c] = own /\ DOMAIN fds' = DOMAIN fds /\ state'[c] = "armed"
      /\ \A p \in DOMAIN fds : p # c => fds'[p] = fds[p]
  BY <1>1, <1>2
<1>4. OfChild(c, table) /\ Untouched(c, table)
  BY DEF PreforkInv, ChildFds, ChildHas, SetsUp
<1>5. (2 * c - 1) + 1 = 2 * c
  BY <1>1
<1> HIDE DEF table
<1>6. /\ \A x \in DOMAIN own : \E y \in DOMAIN table : own[x] = table[y]
      /\ \A x \in DOMAIN own : own[x] # W(2 * c - 1) /\ own[x] # R(2 * c)
      /\ ({0, 1} \subseteq DOMAIN table /\ table[0] = Tty /\ table[1] = Tty) =>
            {0, 1} \subseteq DOMAIN own /\ own[0] = R(2 * c - 1) /\ own[1] = W(2 * c)
  <2>1. \A what \in {R(2 * c - 1), W(2 * c - 1), R((2 * c - 1) + 1), W((2 * c - 1) + 1)} :
           \E fd \in DOMAIN table : SoleAt(table, fd, what)
    BY <1>4, <1>5 DEF Untouched, Fresh
  <2>2. /\ \A x \in DOMAIN own : \E y \in DOMAIN table : own[x] = table[y]
        /\ \A x \in DOMAIN own : own[x] # W(2 * c - 1) /\ own[x] # R((2 * c - 1) + 1)
        /\ ({0, 1} \subseteq DOMAIN table /\ table[0] = Tty /\ table[1] = Tty) =>
              {0, 1} \subseteq DOMAIN own /\ own[0] = R(2 * c - 1) /\ own[1] = W((2 * c - 1) + 1)
    <3>1. 2 * c - 1 \in Int
      BY <1>1
    <3> QED
      BY <2>1, <3>1, ChildConnected
  <2> QED
    BY <2>2, <1>5
<1> HIDE DEF own
<1>7. OfChild(c, own)
  BY <1>4, <1>6 DEF OfChild
<1>8. SetUp(c, own)
  <2>1. \A fd \in stdio : fd \in DOMAIN table /\ table[fd] = Tty
    BY <1>4 DEF Untouched, HasStdio
  <2> QED
    BY <1>6, <2>1 DEF SetUp, NotedEnds
<1>9. ChildHas(c)'
  BY <1>2, <1>3, <1>7, <1>8 DEF ChildHas, OfChild, SetUp
<1>10. UNCHANGED <<argv, stdio, master, signalVars, pipes, block, client>>
  BY DEF SetsUp
<1> QED
  BY <1>2, <1>3, <1>9, <1>10, ChildStep

\* A child becomes its program.
LEMMA LaunchChildInv ==
    ASSUME PreforkInv, NEW c \in Children, launchChild(c)
    PROVE  PreforkInv'
<1>1. state[c] = "armed" /\ state' = [state EXCEPT ![c] = "running"]
      /\ UNCHANGED <<argv, stdio, master, signalVars, fds, pipes, block, client>>
  BY DEF launchChild
<1>2. c \in DOMAIN state
  BY DEF Children
<1>3. state'[c] = "running" /\ fds'[c] = fds[c]
  BY <1>1, <1>2
<1>4. OfChild(c, fds[c]) /\ SetUp(c, fds[c])
  BY <1>1 DEF PreforkInv, ChildFds, ChildHas
<1>5. ChildHas(c)'
  BY <1>1, <1>3, <1>4 DEF ChildHas, OfChild, SetUp
<1> QED
  BY <1>1, <1>5, ChildStep

\* Every step.
LEMMA PreforkNextInv == PreforkInv /\ [PreforkNext]_preforkVars => PreforkInv'
<1> SUFFICES ASSUME PreforkInv, [PreforkNext]_preforkVars PROVE PreforkInv'
  OBVIOUS
<1>1. ASSUME NEW i \in DOMAIN m_children, setIndex(i - 1) PROVE PreforkInv'
  <2>1. i - 1 \in Int
    BY Numbers DEF PreforkInv
  <2> QED
    BY <1>1, <2>1, SetIndexInv
<1>2. ASSUME NEW c \in Children, SetsUp(c) PROVE PreforkInv'
  BY <1>2, SetsUpInv
<1>3. ASSUME NEW c \in Children, launchChild(c) PROVE PreforkInv'
  BY <1>3, LaunchChildInv
<1>4. ASSUME NEW c \in Children, ChildFails(c) \/ Terminated(c) \/ Halts(c) PROVE PreforkInv'
  BY <1>4, ChildDiesInv DEF ChildFails, Terminated, Halts
<1>5. CASE UNCHANGED preforkVars
  <2> USE <1>5 DEF preforkVars, master, signalVars, client, PreforkInv
  <2>1. PreforkTypes'
    BY DEF PreforkTypes, Children, size
  <2>2. MasterFds'
    BY MasterStill DEF Children
  <2>3. ChildFds'
    BY ChildrenStill
  <2>4. BlocksHaveWords'
    BY WordsStill
  <2> QED
    BY <2>1, <2>2, <2>3, <2>4
<1> QED
  BY <1>1, <1>2, <1>3, <1>4, <1>5, ExecuteInv, MakeChildInv, SigactionInv, LaunchMasterInv,
     CheckChildDiedInv, MasterEndsInv, OtherDiesInv, DestroyFactoryInv DEF PreforkNext

\* In every state of the program and its children.
THEOREM PreforkInvariance == PreforkSpec => []PreforkInv
<1>1. PreforkInit => PreforkInv
  BY PreforkInitInv
<1>2. PreforkInv /\ [PreforkNext]_preforkVars => PreforkInv'
  BY PreforkNextInv
<1> QED
  BY <1>1, <1>2, PTL DEF PreforkSpec

\* The children's numbers are their pids.
LEMMA InvTypeOK == PreforkInv => PreforkTypeOK
<1> SUFFICES ASSUME PreforkInv PROVE PreforkTypeOK
  OBVIOUS
<1> USE DEF PreforkInv
<1>1. \A c \in Children : state[c] \in {"forked", "armed", "running", "dead"}
  BY DEF PreforkTypes, Children
<1> QED
  BY <1>1 DEF PreforkTypes, MasterFds, PreforkTypeOK

\* A child's pipes are at its standard descriptors, their other ends where the master says.
LEMMA InvConnected == PreforkInv => Connected
<1> SUFFICES ASSUME PreforkInv, {0, 1} \subseteq stdio, NEW c \in Children
             PROVE  /\ state[c] \in {"armed", "running"} =>
                          fds[c][0] = R(2 * c - 1) /\ fds[c][1] = W(2 * c)
                    /\ pc # "dead" =>
                          /\ fds[0][m_children[c].in] = W(2 * c - 1)
                          /\ fds[0][m_children[c].out] = R(2 * c)
  BY DEF Connected
<1> USE DEF PreforkInv
<1>1. state[c] \in {"armed", "running"} => fds[c][0] = R(2 * c - 1) /\ fds[c][1] = W(2 * c)
  BY DEF ChildFds, ChildHas, SetUp
<1>2. pc # "dead" => /\ fds[0][m_children[c].in] = W(2 * c - 1)
                     /\ fds[0][m_children[c].out] = R(2 * c)
  BY DEF MasterFds
<1> QED
  BY <1>1, <1>2

\* The master holds ends that it has noted, a child its own and noted ones of earlier ones.
LEMMA InvEndsHeld == PreforkInv => EndsHeld
<1> SUFFICES ASSUME PreforkInv, NEW c \in Children,
                    NEW p \in DOMAIN fds, NEW fd \in DOMAIN fds[p]
             PROVE  /\ fds[p][fd] \in {R(2 * c - 1), W(2 * c)} => p = c
                    /\ fds[p][fd] \in {W(2 * c - 1), R(2 * c)} =>
                          p = 0 \/ p > c \/ (p = c /\ state[c] = "forked")
  BY DEF EndsHeld
<1> USE DEF PreforkInv
<1>0. c \in Nat /\ Children \subseteq Nat /\ DOMAIN fds = {0} \cup Children
      /\ state[c] \in {"forked", "armed", "running", "dead"}
  BY Numbers DEF PreforkTypes, Children
<1> DEFINE end == fds[p][fd]
           Own == {R(2 * c - 1), W(2 * c)}
<1>1. \A d \in Nat : NotedEnds(d) \cap Own = {} /\ Tty \notin Own /\ Tty \notin NotedEnds(d)
  <2>1. \A d \in Nat : 2 * c # 2 * d - 1 /\ 2 * c - 1 # 2 * d
    BY <1>0
  <2> QED
    BY <2>1, EndsDiffer DEF NotedEnds
<1>2. ASSUME NEW d \in Nat, d # c PROVE Fresh(d) \cap (Own \cup NotedEnds(c)) = {}
  <2>1. /\ 2 * c # 2 * d - 1 /\ 2 * c # 2 * d
        /\ 2 * c - 1 # 2 * d - 1 /\ 2 * c - 1 # 2 * d
    BY <1>0, <1>2
  <2> QED
    BY <2>1, EndsDiffer DEF Fresh, NotedEnds
<1>3. ASSUME NEW d \in Nat, d # c PROVE NotedEnds(d) \cap NotedEnds(c) = {}
  BY <1>2, <1>3 DEF Fresh, NotedEnds
<1>4. CASE p = 0
  <2>1. CASE pc = "dead"
    BY <1>4, <2>1 DEF MasterFds
  <2>2. CASE pc # "dead"
    <3>1. end = Tty \/ \E d \in Children : end \in NotedEnds(d)
      BY <1>4, <2>2 DEF MasterFds
    <3>2. end \notin Own
      BY <1>0, <1>1, <3>1
    <3> QED
      BY <1>4, <3>2
  <2> QED
    BY <2>1, <2>2
<1>5. CASE p = c
  <2>1. ChildHas(c)
    BY DEF ChildFds
  <2>2. CASE state[c] = "forked"
    BY <1>5, <2>2
  <2>3. CASE state[c] \in {"armed", "running"}
    <3>1. end \notin NotedEnds(c)
      BY <1>5, <2>1, <2>3 DEF ChildHas, SetUp
    <3> QED
      BY <1>5, <3>1 DEF NotedEnds
  <2>4. CASE state[c] = "dead"
    BY <1>5, <2>1, <2>4 DEF ChildHas
  <2> QED
    BY <1>0, <2>2, <2>3, <2>4
<1>6. CASE p \in Children /\ p # c
  <2>1. OfChild(p, fds[p]) /\ p \in Nat
    BY <1>0, <1>6 DEF ChildFds, ChildHas
  <2>2. \/ end = Tty \/ end \in Fresh(p)
        \/ \E d \in 1 .. p - 1 : end \in NotedEnds(d)
    BY <2>1 DEF OfChild
  <2>3. CASE end = Tty
    BY <1>0, <1>1, <2>3 DEF NotedEnds
  <2>4. CASE end \in Fresh(p)
    BY <1>2, <1>6, <2>1, <2>4 DEF NotedEnds
  <2>5. CASE \E d \in 1 .. p - 1 : end \in NotedEnds(d)
    <3>1. PICK d \in 1 .. p - 1 : end \in NotedEnds(d)
      BY <2>5
    <3>2. d \in Nat /\ d < p
      BY <2>1, <3>1
    <3>3. end \notin Own
      BY <1>1, <3>1, <3>2
    <3>4. end \in NotedEnds(c) => d = c
      BY <1>3, <3>1, <3>2
    <3> QED
      BY <1>0, <2>1, <3>2, <3>3, <3>4 DEF NotedEnds
  <2> QED
    BY <2>2, <2>3, <2>4, <2>5
<1> QED
  BY <1>0, <1>4, <1>5, <1>6

\* The invariant gives what is promised.
LEMMA InvDescriptors == PreforkInv => DescriptorsHold
<1> SUFFICES ASSUME PreforkInv PROVE DescriptorsHold
  OBVIOUS
<1>1. AllocationHolds
  BY DEF PreforkInv, BlocksHaveWords, AllocationHolds
<1> QED
  BY <1>1, InvTypeOK, InvConnected, InvEndsHeld DEF DescriptorsHold

\* However many blocks the command line has, whichever standard descriptors are open, and
\* whatever the order in which the master and its children fork, set themselves up, run and
\* die: no child's entry is written behind the end of the array, a child reads and writes
\* the pipes whose other ends the master has noted for it, nobody else holds the ends that
\* it reads and writes, and the master's ends are held by the master and by children that
\* are forked later, and by nobody else once the child is set up.
THEOREM DescriptorsAlwaysHold == PreforkSpec => []DescriptorsHold
<1>1. PreforkInv => DescriptorsHold
  BY InvDescriptors
<1> QED
  BY <1>1, PreforkInvariance, PTL
=============================================================================
