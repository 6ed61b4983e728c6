----------------------------- MODULE ChildSetup -----------------------------
(***************************************************************************)
(* What a forked child does to itself before the program runs: in a        *)
(* QUnixSandboxProcess (qunixsandboxprocess.cpp), which a manager starts   *)
(* itself, and in a fork launcher (fixProcessState, qforklauncher.cpp).    *)
(* Both start as copies of their parent and make system calls, whose       *)
(* outcome depends on the privileges that earlier calls have left.         *)
(*                                                                         *)
(* A process is a record: uid, gid, groups (the supplementary ones), umask,*)
(* nice, env (its environment, a map), argv, and deathsig, whether the     *)
(* kernel will signal it when its parent dies.                             *)
(***************************************************************************)
EXTENDS ProcessInfo, FiniteSets

CONSTANTS
    Passwd,     \* /etc/passwd and /etc/group: uid -> [gid, groups]
    FirstUid    \* the uid in the first line of /etc/passwd

ASSUME PasswdAssumption ==
    /\ FirstUid \in DOMAIN Passwd
    /\ DOMAIN Passwd \subseteq Nat /\ \A uid \in DOMAIN Passwd : Passwd[uid].gid \in Nat

Killed == [killed |-> TRUE]     \* qFatal in the child, before exec

AllBits == 511

IsProcess(p) ==
    /\ p = [uid |-> p.uid, gid |-> p.gid, groups |-> p.groups, umask |-> p.umask,
            nice |-> p.nice, env |-> p.env, argv |-> p.argv, deathsig |-> p.deathsig]
    /\ p.uid \in Nat /\ p.gid \in Nat /\ p.umask \in 0..AllBits /\ p.nice \in Int
    /\ p.argv \in Seq({p.argv[n] : n \in DOMAIN p.argv}) /\ p.argv # <<>>

---------------------------------------------------------------------------
(* Linux.  Uid 0 has all capabilities, another uid none.  The kernel       *)
(* forgets the death signal of a process whose uid or gid changes.         *)

Privileged(p) == p.uid = 0

MaySetgid(p, gid) == gid >= 0 /\ (Privileged(p) \/ gid = p.gid)
setgid(p, gid) == IF ~MaySetgid(p, gid) THEN p
                  ELSE [p EXCEPT !.gid = gid, !.deathsig = @ /\ gid = p.gid]

MaySetuid(p, uid) == uid >= 0 /\ (Privileged(p) \/ uid = p.uid)
setuid(p, uid) == IF ~MaySetuid(p, uid) THEN p
                  ELSE [p EXCEPT !.uid = uid, !.deathsig = @ /\ uid = p.uid]

\* setgroups and initgroups
setgroups(p, groups) == IF Privileged(p) THEN [p EXCEPT !.groups = groups] ELSE p

MaySetpriority(p, nice) == nice >= p.nice \/ Privileged(p)
setpriority(p, nice) == IF MaySetpriority(p, nice) THEN [p EXCEPT !.nice = nice] ELSE p

\* PR_SET_PDEATHSIG
prctl(p) == [p EXCEPT !.deathsig = TRUE]

\* umask(2) keeps nine bits of a 32-bit value.
umask(p, mask) == [p EXCEPT !.umask = IF mask = -1 THEN AllBits ELSE mask % (AllBits + 1)]

---------------------------------------------------------------------------
(* The manager's own children. *)

\* createProcess: -1 stands for an id that the record does not have, but a record
\* without a umask has umask 0.
SandboxUid(info) == IF contains(info, "uid") THEN info.uid ELSE -1
SandboxGid(info) == IF contains(info, "gid") THEN info.gid ELSE -1

SandboxUmask(p, info) ==
    IF Number(info, "umask") >= 0 THEN umask(p, Number(info, "umask")) ELSE p

\* mutant: the groups are left to the case that looks the user up
GroupsForInherited(p, uid, gid) == IF gid < 0 THEN Passwd[uid].groups ELSE p.groups

\* The supplementary groups of a child with a uid: those of the database, if the gid
\* agrees with it.
GroupsFor(p, uid, gid) ==
    IF uid \in DOMAIN Passwd /\ (gid < 0 \/ Passwd[uid].gid = gid)
    THEN Passwd[uid].groups ELSE {}

\* setupChildProcess.  Every failing call ends the child.
Identified(p, uid, gid) ==
    IF uid >= 0 THEN
        IF ~Privileged(p) \/ (gid < 0 /\ uid \notin DOMAIN Passwd) THEN Killed
        ELSE setuid(setgid(setgroups(p, GroupsFor(p, uid, gid)),
                           IF gid < 0 THEN Passwd[uid].gid ELSE gid), uid)
    ELSE IF gid >= 0 THEN
        IF ~Privileged(p) THEN Killed ELSE setgid(setgroups(p, {}), gid)
    ELSE p

setupChildProcess(p, info) ==
    Identified(SandboxUmask(prctl(p), info), SandboxUid(info), SandboxGid(info))

\* startProcess.  QProcess takes an environment without variables for none, and lets
\* the child inherit.
startProcess(c, info) ==
    IF c = Killed THEN c
    ELSE [c EXCEPT
            !.argv = <<Value(info, "program")>> \o Value(info, "arguments"),
            !.env = IF Value(info, "environment") = Empty THEN @
                    ELSE Value(info, "environment")]

SandboxChild(p, info) == startProcess(setupChildProcess(p, info), info)

---------------------------------------------------------------------------
(* The children of a fork launcher. *)

\* Variables are removed one by one unless the record has them ...
Kept(env, wanted) == [v \in DOMAIN env \cap DOMAIN wanted |-> env[v]]

\* ... and then set one by one.
ForkEnvironment(p, info) ==
    IF ~contains(info, "environment") THEN p
    ELSE [p EXCEPT !.env = Over(info.environment, Kept(@, info.environment))]

\* Without arguments in the record, those of the launcher stay behind the new name.
ForkArguments(p, info) ==
    LET name == IF contains(info, "program") THEN info.program ELSE Head(p.argv)
    IN  [p EXCEPT !.argv = <<name>> \o (IF contains(info, "arguments")
                                        THEN info.arguments ELSE Tail(@))]

\* No call is checked: a call that fails changes nothing.  A umask of 0 is taken for
\* none, and -1 is not.
ForkIds(p, info) ==
    LET g == IF contains(info, "gid") THEN setgid(p, info.gid) ELSE p
    IN  IF contains(info, "uid") THEN setuid(g, info.uid) ELSE g

ForkUmask(p, info) ==
    IF Number(info, "umask") # 0 THEN umask(p, Number(info, "umask")) ELSE p

\* mutant: a priority of 0 is taken for none, like a umask of 0
ForkPriorityNonzero(p, info) ==
    IF Number(info, "priority") # 0 THEN setpriority(p, info.priority) ELSE p

ForkPriority(p, info) ==
    IF contains(info, "priority") THEN setpriority(p, info.priority) ELSE p

\* getpwent() yields the first line of the database, whoever that is.
fixProcessState(p, info) ==
    LET own == ForkUmask(ForkIds(p, info), info)
        grouped == setgroups(own, Passwd[FirstUid].groups)
    IN  ForkArguments(ForkEnvironment(ForkPriority(grouped, info), info), info)

\* doFork: the death signal is asked for first.
ForkChild(p, info) == fixProcessState(prctl(p), info)
=============================================================================
