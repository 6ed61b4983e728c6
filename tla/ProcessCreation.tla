-------------------------- MODULE ProcessCreation --------------------------
(***************************************************************************)
(* From a record to a process: a client edits a QProcessInfo, the manager  *)
(* asks its factories in order which of them can create a process for it   *)
(* (match delegates), the factory may rewrite the record (rewrite          *)
(* delegate), and the child sets itself up by what it finds there.         *)
(*                                                                         *)
(* There are two factories: one whose processes are forked by a launcher   *)
(* that may come and go, and a standard one.  Delegates can be exchanged   *)
(* at any time.                                                            *)
(***************************************************************************)
EXTENDS ChildSetup, SequencesExt

CONSTANTS
    Factories,      \* the order in which factories were added: "fork" and "local"
    Parents,        \* what manager and launcher may be when they fork
    Records,        \* records to begin with (the constructor from a map)
    Offered,        \* key -> values that clients set
    Matchers,       \* match delegates: [type: "none" | "all" | "info" | "key", ...]
    MaxEdits,       \* how many edits a client makes
    MaxSwaps        \* how often delegates are exchanged

\* A delegate that waits for a uid waits for one that a user can have.
IsDelegate(d) ==
    \/ d.type \in {"all", "none"}
    \/ d.type = "info" /\ d = [type |-> d.type, info |-> d.info]
    \/ /\ d.type = "key" /\ d = [type |-> d.type, key |-> d.key, values |-> d.values]
       /\ d.values \subseteq Nat

ASSUME CreationAssumption ==
    /\ Factories \in Seq({"fork", "local"})
    /\ \A p \in Parents : IsProcess(p)
    /\ \A r \in Records : IsInfo(r)
    /\ DOMAIN Offered \subseteq Keys
    /\ \A key \in DOMAIN Offered : \A value \in Offered[key] : IsValue(key, value)
    /\ \A d \in Matchers : IsDelegate(d)
    /\ MaxEdits \in Nat /\ MaxSwaps \in Nat

VARIABLES
    info,           \* the client's QProcessInfo
    signals,        \* what its last change announced
    matchDelegate,  \* m_matchDelegate of each factory
    rewriting,      \* its rewrite delegate: "none", "gdb" or "script"
    ready,          \* whether the launcher runs
    parent,         \* the process that forks
    backend,        \* the backend created last: its factory, its record and the
                    \* delegate that let the factory have it
    child,          \* its process, once started
    edits, swaps    \* taken from MaxEdits and MaxSwaps

factories == <<matchDelegate, rewriting, ready>>
vars == <<info, signals, factories, parent, backend, child, edits, swaps>>

NoBackend == [factory |-> "none"]
NoChild == [child |-> "none"]

---------------------------------------------------------------------------
(* Delegates. *)

\* mutant: that a variable is there is enough
EnvironmentMatchesNames(wanted, r) == DOMAIN wanted \subseteq DOMAIN Value(r, "environment")

\* QInfoMatchDelegate: all that is set must be equal, an environment variable by
\* variable.
EnvironmentMatches(wanted, r) ==
    \A v \in DOMAIN wanted : v \in DOMAIN Value(r, "environment")
                             /\ wanted[v] = Value(r, "environment")[v]
InfoMatches(wanted, r) ==
    \A key \in DOMAIN wanted :
        IF key = "environment" THEN EnvironmentMatches(wanted[key], r)
        ELSE contains(r, key) /\ wanted[key] = r[key]

\* QKeyMatchDelegate: the key is set, to the value if the delegate has one.
KeyMatches(d, r) == contains(r, d.key) /\ (d.values = {} \/ r[d.key] \in d.values)

\* A declarative delegate whose script is empty matches nothing; a factory without a
\* delegate takes everything.
matches(d, r) == CASE d.type = "info" -> InfoMatches(d.info, r)
                   [] d.type = "key" -> KeyMatches(d, r)
                   [] d.type = "none" -> FALSE
                   [] d.type = "all" -> TRUE

\* The pipe factory can create nothing while its launcher is not running.
canCreate(f, r) == (f = "fork" => ready) /\ matches(matchDelegate[f], r)

\* QGdbRewriteDelegate: "prog arg1 ..." becomes "gdb -- prog arg1 ...".
gdb(r) == set(set(r, "program", "gdb").info, "arguments",
              <<"--", Value(r, "program")>> \o Value(r, "arguments")).info

\* QDeclarativeRewriteDelegate with a script that sets the model's program.
scripted(r) == set(r, "program", "sh").info

rewrite(f, r) == CASE rewriting[f] = "gdb" -> gdb(r)
                   [] rewriting[f] = "script" -> scripted(r)
                   [] rewriting[f] = "none" -> r

---------------------------------------------------------------------------

Init ==
    /\ info \in Records /\ signals = <<>>
    /\ matchDelegate \in [ToSet(Factories) -> Matchers]
    /\ rewriting = [f \in ToSet(Factories) |-> "none"] /\ ready = FALSE
    /\ parent \in Parents /\ backend = NoBackend /\ child = NoChild
    /\ edits = 0 /\ swaps = 0

---------------------------------------------------------------------------
(* The client. *)

Edit(result) ==
    /\ edits < MaxEdits
    /\ edits' = edits + 1
    /\ info' = result.info /\ signals' = result.signals
    /\ UNCHANGED <<factories, parent, backend, child, swaps>>

\* A setter of its own, or QProcessInfo::setValue, which also serves the program.
SetKey(key) == \E value \in Offered[key] : Edit(set(info, key, value))
SetValue(key) == \E value \in Offered[key] : Edit(setValue(info, key, value))

ExtendEnvironment == \E env \in Offered["environment"] : Edit(insertEnvironment(info, env))

SetData == \E r \in Records : Edit(setData(info, r))
Insert == \E r \in Records : Edit(insert(info, r))

---------------------------------------------------------------------------
(* The factories. *)

Swap == swaps < MaxSwaps /\ swaps' = swaps + 1

\* The factory's next match is with d, a delegate of its own or the old one changed.
Becomes(f, d) ==
    /\ Swap /\ d # matchDelegate[f]
    /\ matchDelegate' = [matchDelegate EXCEPT ![f] = d]
    /\ UNCHANGED <<info, signals, rewriting, ready, parent, backend, child, edits>>

setMatchDelegate(f, d) == Becomes(f, d)

\* QKeyMatchDelegate's key and value change one by one: the new key waits for the old
\* value, or for any.
setKey(f, key) ==
    matchDelegate[f].type = "key" /\ Becomes(f, [matchDelegate[f] EXCEPT !.key = key])
setKeyValue(f, values) ==
    matchDelegate[f].type = "key" /\ Becomes(f, [matchDelegate[f] EXCEPT !.values = values])

setInfo(f, r) ==
    matchDelegate[f].type = "info" /\ Becomes(f, [matchDelegate[f] EXCEPT !.info = r])

setScript(f, type) ==
    matchDelegate[f].type \in {"none", "all"} /\ Becomes(f, [type |-> type])

setRewriteDelegate(f, d) ==
    /\ Swap /\ d # rewriting[f]
    /\ rewriting' = [rewriting EXCEPT ![f] = d]
    /\ UNCHANGED <<info, signals, matchDelegate, ready, parent, backend, child, edits>>

\* The launcher's process starts or dies (QPipeProcessBackendFactory::canCreate).
LauncherTurns ==
    /\ Swap
    /\ ready' = ~ready
    /\ UNCHANGED <<info, signals, matchDelegate, rewriting, parent, backend, child, edits>>

---------------------------------------------------------------------------
(* QProcessBackendManager::create, and QProcessBackend::start. *)

\* The factory's create: the backend keeps the record as it was rewritten.
backendFrom(f, r) == [factory |-> f, info |-> r, by |-> matchDelegate[f]]

create ==
    /\ LET able == {i \in DOMAIN Factories : canCreate(Factories[i], info)}
           f == Factories[Min(able)]
       IN  backend' = IF able = {} THEN NoBackend
                      ELSE backendFrom(f, rewrite(f, info))
    /\ child' = NoChild
    /\ UNCHANGED <<info, signals, factories, parent, edits, swaps>>

start ==
    /\ backend # NoBackend /\ child = NoChild
    /\ child' = IF backend.factory = "fork" THEN ForkChild(parent, backend.info)
                ELSE SandboxChild(parent, backend.info)
    /\ UNCHANGED <<info, signals, factories, parent, backend, edits, swaps>>

Next ==
    \/ \E key \in DOMAIN Offered : SetKey(key) \/ SetValue(key)
    \/ ExtendEnvironment \/ SetData \/ Insert
    \/ \E f \in ToSet(Factories) :
          \/ \E d \in Matchers : setMatchDelegate(f, d)
          \/ \E key \in {"uid", "gid"} : setKey(f, key)
          \/ \E values \in {{}, {1}} : setKeyValue(f, values)
          \/ \E r \in Records : setInfo(f, r)
          \/ \E type \in {"none", "all"} : setScript(f, type)
          \/ \E d \in {"none", "gdb", "script"} : setRewriteDelegate(f, d)
    \/ LauncherTurns \/ create \/ start

Spec == Init /\ [][Next]_vars

---------------------------------------------------------------------------
(* Properties.  Those about a child say nothing while there is none. *)

IsChild == child \notin {NoChild, Killed}

\* Type correctness: a record has known keys and a child is a process that owns
\* sensible ids, a mask of nine bits and at least an argument zero.
TypeOK ==
    /\ DOMAIN info \subseteq Keys /\ ToSet(signals) \subseteq Keys
    /\ backend = NoBackend \/ (/\ backend.factory \in ToSet(Factories)
                               /\ DOMAIN backend.info \subseteq Keys)
    /\ IsChild => /\ child.uid \in Nat /\ child.gid \in Nat
                  /\ child.umask \in 0..AllBits /\ Len(child.argv) > 0
    /\ edits \in 0..MaxEdits /\ swaps \in 0..MaxSwaps

\* An edit that announces changes announces exactly the keys whose value it changed:
\* bindings on a record see no signal for nothing, and miss none of a setter's that
\* tells at all (emitChangeSignal and its callers, qprocessinfo.cpp).
Changed == {key \in Keys : contains(info', key) /\ ~(contains(info, key) /\ info[key] = info'[key])}
Notified == [][edits' # edits /\ signals' # <<>> => ToSet(signals') = Changed]_vars

\* The table above setupChildProcess (qunixsandboxprocess.cpp:92-123), row by row: a
\* child of this host's manager has the ids and groups of its row or does not run, and
\* it is killed only for a user that is not in the database or by a manager without
\* privileges.
TableHolds ==
    LET r == backend.info
        withUid == contains(r, "uid") /\ r.uid >= 0
        withGid == contains(r, "gid") /\ r.gid >= 0
        known == withUid /\ r.uid \in DOMAIN Passwd
    IN  backend # NoBackend /\ backend.factory = "local" /\ child # NoChild =>
        IF child = Killed
        THEN (withUid \/ withGid) /\ (~Privileged(parent) \/ (withUid /\ ~withGid /\ ~known))
        ELSE /\ child.uid = IF withUid THEN r.uid ELSE parent.uid
             /\ child.gid = CASE withGid -> r.gid
                               [] withUid /\ ~withGid -> Passwd[r.uid].gid
                               [] OTHER -> parent.gid
             /\ child.groups = CASE ~withUid /\ ~withGid -> parent.groups
                                  [] known /\ (~withGid \/ r.gid = Passwd[r.uid].gid)
                                       -> Passwd[r.uid].groups
                                  [] OTHER -> {}

\* A client need not know who forks: for a record that names the user and the group, a
\* mask, an environment and arguments, the children of a privileged launcher and of
\* a privileged manager agree on these five, uid, gid, mask, environment and words
\* (fixProcessState, qforklauncher.cpp, and setupChildProcess, qunixsandboxprocess.cpp).
\* They disagree about a key that is missing and about a mask of 0.  Nothing else is
\* compared: not the supplementary groups, of which TableHolds speaks, for a manager's own
\* child only, and not the death signal.
LauncherAgrees ==
    IsChild /\ Privileged(parent) =>
        LET r == backend.info
            here == SandboxChild(parent, r)
            there == ForkChild(parent, r)
        IN  here # Killed =>
            /\ contains(r, "uid") /\ r.uid >= 0 => here.uid = there.uid
            /\ contains(r, "gid") /\ r.gid >= 0 => here.gid = there.gid
            /\ Number(r, "umask") > 0 => here.umask = there.umask
            /\ Value(r, "environment") # Empty => here.env = there.env
            /\ {"program", "arguments"} \subseteq DOMAIN r => here.argv = there.argv

\* A process from a launcher runs at the priority of its record, 0 included, unless
\* this is above the launcher's own and the process has given up root before it
\* asks (the order of calls in fixProcessState, qforklauncher.cpp:213-234).
PriorityAsAsked ==
    IsChild /\ backend.factory = "fork" /\ contains(backend.info, "priority") =>
        \/ child.nice = backend.info.priority
        \/ child.nice = parent.nice /\ backend.info.priority < parent.nice /\ child.uid # 0

\* A factory that is reserved for records with certain variables, or with a certain
\* user, runs only processes that have these in their environment, or run as that user
\* if their parent can bring this about, whatever was rewritten, whoever forks, and
\* however the delegate was changed or exchanged meanwhile (QInfoMatchDelegate and
\* QKeyMatchDelegate::matches, then create and start on the copied record).
MatchedRuns ==
    LET by == backend.by
        wanted == Value(by.info, "environment")
    IN  /\ IsChild /\ by.type = "info" =>
               \A v \in DOMAIN wanted : v \in DOMAIN child.env /\ child.env[v] = wanted[v]
        /\ IsChild /\ by.type = "key" /\ by.key = "uid" /\ by.values # {}
              /\ Privileged(parent) => child.uid \in by.values

\* A launcher's child has the uid, gid, mask, environment and words that the manager's own
\* child would have, where the record names them, and the priority of the record.
LauncherChildHolds == TypeOK /\ LauncherAgrees /\ PriorityAsAsked
=============================================================================
