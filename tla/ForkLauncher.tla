---------------------------- MODULE ForkLauncher ----------------------------
(***************************************************************************)
(* qForkLauncher: a single-threaded loop around select() that forks a      *)
(* child for every start command, serves the children's pipes, reaps the   *)
(* dead and reports to the process manager what became of each.            *)
(*                                                                         *)
(* One turn of the loop is: select, serve every child (processFdSet of     *)
(* ChildProcess), reap, read commands and at last write to the manager.  'phase' *)
(* is where the launcher is in its turn; children run, write and die, and  *)
(* commands arrive, between any two of these steps.                        *)
(***************************************************************************)
EXTENDS Naturals, FiniteSets, SequencesExt

CONSTANTS
    Ids,          \* ids the remote factory gives its processes, each used once
    Pids,         \* process ids; the system may use one again after its reaping
    None,         \* no process
    Offered,      \* commands the manager sends besides start
    MaxCommands   \* bound: how many of these it sends

ASSUME ConstantsAssumption ==
    /\ None \notin Pids
    /\ Offered \subseteq {"stop", "set", "write", "halt"}
    /\ MaxCommands \in Nat

VARIABLES
    \* the operating system
    os,          \* of each pid: none, live, exited or crashed (both: a zombie)
    stubborn,    \* the program ignores SIGTERM
    dying,       \* a signal that will kill it has been sent
    sigPipe,     \* bytes in sig_child_pipe
    inbox,       \* commands on the launcher's standard input
    \* ParentProcess
    phase,       \* select, reap, commands, write, or gone: the launcher exited
    m_children,  \* of each id: its ChildProcess's m_pid, or None
    canReap,     \* sig_child_pipe had a byte at select()
    canWrite,    \* m_sendbuf was not empty at select()
    m_sendbuf,   \* of each id: events to report
    \* each ChildProcess
    m_state,     \* NotRunning, Running, SentSigTerm, SentSigKill
    expired,     \* m_timer has expired
    m_inbuf,     \* data for its standard input
    outPipe,     \* data it wrote that the launcher has not read
    \* observations
    seen,        \* what the manager saw: a stage of ProcessLifecycle
    started,     \* ids of the start commands sent
    commands,    \* number of other commands sent
    halted       \* a halt command was sent; it is the last

osVars       == <<os, stubborn, dying, sigPipe>>
parentVars   == <<phase, m_children, canReap, canWrite, m_sendbuf>>
childVars    == <<m_state, expired, m_inbuf, outPipe>>
managerVars  == <<inbox, started, commands, halted>>
vars == <<osVars, parentVars, childVars, managerVars, seen>>


\* Of an id that has no child yet, nothing is under way and nothing was asked.
NewChildren ==
    /\ m_state = [i \in Ids |-> "NotRunning"]
    /\ expired = [i \in Ids |-> FALSE]
    /\ m_inbuf = [i \in Ids |-> FALSE] /\ outPipe = [i \in Ids |-> FALSE]

Init ==
    /\ os = [p \in Pids |-> "none"]
    /\ stubborn = [p \in Pids |-> FALSE] /\ dying = [p \in Pids |-> FALSE]
    /\ sigPipe = 0
    /\ inbox = <<>> /\ started = {} /\ commands = 0 /\ halted = FALSE
    /\ phase = "select" /\ canReap = FALSE /\ canWrite = FALSE
    /\ m_children = [i \in Ids |-> None]
    /\ m_sendbuf = [i \in Ids |-> <<>>] /\ seen = [i \in Ids |-> "fresh"]
    /\ NewChildren

Zombie(p) == os[p] \in {"exited", "crashed"}
Children == {i \in Ids : m_children[i] # None}

Unsent == \E i \in Ids : m_sendbuf[i] # <<>>
\* What the manager will have seen once m_sendbuf is written.
Life == INSTANCE ProcessLifecycle WITH stage <- seen
queued == [i \in Ids |-> Life!Reached(seen[i], m_sendbuf[i])]

\* The launcher as its manager sees it.
Protocol == INSTANCE RemoteProtocol WITH
    launcher <- [up       |-> phase # "gone",
                 inbox    |-> inbox,
                 stage    |-> queued,
                 stopping |-> {i \in Ids : m_state[i] \in {"SentSigTerm", "SentSigKill"}},
                 out      |-> m_sendbuf]

\* A definition marked 'mutant' is a plausible bug that takes the place of the
\* one that follows it, to show that a property depends on it.

(***************************************************************************)
(* Signals.                                                                *)
(***************************************************************************)

\* SIGKILL to the processes in hard, SIGTERM to those in soft.
sendSignals(hard, soft) ==
    dying' = [p \in Pids |-> \/ dying[p]
                             \/ os[p] = "live" /\ (p \in hard \/ (p \in soft /\ ~stubborn[p]))]

Exits == phase' = "gone"

\* PR_SET_PDEATHSIG: the children get SIGTERM when the launcher exits, but for those whose
\* record has changed their user or group, by which the kernel forgets the signal (see
\* ChildSetup).
exit(hard) == Exits /\ \E armed \in SUBSET Pids : sendSignals(hard, armed)

(***************************************************************************)
(* Select, and the children's turn.                                        *)
(***************************************************************************)

needTimeoutNever == FALSE                                               \* mutant
needTimeout == \E i \in Children : m_state[i] = "SentSigTerm"

readable == sigPipe > 0

\* select() returns: some descriptor is ready, or the 100 ms are over.
SelectReturns ==
    \/ needTimeout
    \/ inbox # <<>> \/ readable \/ Unsent
    \/ \E i \in Children : m_inbuf[i] \/ outPipe[i]

Overdue == {i \in Children : m_state[i] = "SentSigTerm" /\ expired[i]}

\* Each child's input is written, its output read, its kill timer looked at.
ServeChildren ==
    /\ phase = "select" /\ SelectReturns
    /\ canReap' = readable /\ canWrite' = Unsent
    /\ \A i \in Children : m_inbuf[i] => ~Zombie(m_children[i])
    /\ m_inbuf' = [i \in Ids |-> FALSE]
    /\ outPipe' = [i \in Ids |-> FALSE]
    /\ m_state' = [i \in Ids |-> IF i \in Overdue THEN "SentSigKill" ELSE m_state[i]]
    /\ sendSignals({m_children[i] : i \in Overdue}, {})
    /\ phase' = "reap"
    /\ UNCHANGED <<os, stubborn, sigPipe, m_children, m_sendbuf, expired,
                   managerVars, seen>>

\* The reader of a child's standard input is dead: SIGPIPE, or exit(-1).
WriteToDead ==
    /\ phase = "select" /\ SelectReturns
    /\ \E i \in Children : m_inbuf[i] /\ Zombie(m_children[i])
    /\ exit({})
    /\ UNCHANGED <<os, stubborn, sigPipe, m_children, canReap, canWrite, m_sendbuf,
                   childVars, managerVars, seen>>

(***************************************************************************)
(* waitForChildren.                                                        *)
(***************************************************************************)

reapedFirst == {p \in Pids : Zombie(p) /\ p = (CHOOSE q \in Pids : Zombie(q))} \* mutant
reaped == {p \in Pids : Zombie(p)}

forgetNothing(dead) == UNCHANGED m_children                             \* mutant
forget(dead) == m_children' = [i \in Ids |-> IF i \in dead THEN None ELSE m_children[i]]

Epitaph(p) == (IF os[p] = "crashed" THEN <<"Crashed">> ELSE <<>>) \o <<"NotRunning", "finished">>

waitForChildren ==
    LET dead == {i \in Children : m_children[i] \in reaped} IN
    /\ os' = [p \in Pids |-> IF p \in reaped THEN "none" ELSE os[p]]
    /\ dying' = [p \in Pids |-> dying[p] /\ p \notin reaped]
    /\ forget(dead)
    /\ m_sendbuf' = [i \in Ids |->
          IF i \in dead THEN m_sendbuf[i] \o Epitaph(m_children[i]) ELSE m_sendbuf[i]]
    /\ m_state' = [i \in Ids |-> IF i \in dead THEN "NotRunning" ELSE m_state[i]]
    /\ expired' = [i \in Ids |-> expired[i] /\ i \notin dead]
    /\ m_inbuf' = [i \in Ids |-> m_inbuf[i] /\ i \notin dead]
    /\ outPipe' = [i \in Ids |-> outPipe[i] /\ i \notin dead]
    /\ stubborn' = [p \in Pids |-> stubborn[p] /\ p \notin reaped]

Reap ==
    /\ phase = "reap"
    /\ phase' = "commands" /\ canReap' = FALSE
    /\ IF canReap
       THEN sigPipe' = sigPipe - 1 /\ waitForChildren
       ELSE UNCHANGED <<osVars, m_children, m_sendbuf, childVars>>
    /\ UNCHANGED <<canWrite, managerVars, seen>>

(***************************************************************************)
(* handleMessage.  Commands for an id without a child are ignored.         *)
(***************************************************************************)

TakeCommand(name) ==
    /\ phase = "commands"
    /\ inbox # <<>> /\ Head(inbox).command = name
    /\ inbox' = Tail(inbox)
    /\ UNCHANGED <<started, commands, halted>>

\* 1024 bytes of commands may hold several.
MoreOrEnd == /\ phase' \in IF inbox' # <<>> THEN {"commands", "write"} ELSE {"write"}
             /\ UNCHANGED <<canReap, canWrite, seen>>

\* The child goes on with the program.  That it takes on the record's priorities,
\* user, directory and environment (fixProcessState) shows nowhere here.
doFork ==
    /\ TakeCommand("start")
    /\ LET i == Head(inbox).id IN
       \E p \in Pids, s \in BOOLEAN :
          /\ os[p] = "none"
          /\ os' = [os EXCEPT ![p] = "live"]
          /\ stubborn' = [stubborn EXCEPT ![p] = s]
          /\ m_children' = [m_children EXCEPT ![i] = p]
          /\ m_state' = [m_state EXCEPT ![i] = "Running"]
          /\ m_sendbuf' = [m_sendbuf EXCEPT ![i] = @ \o <<"Starting", "Running", "started">>]
    /\ MoreOrEnd
    /\ UNCHANGED <<dying, sigPipe, expired, m_inbuf, outPipe>>

stop ==
    /\ TakeCommand("stop")
    /\ LET i == Head(inbox).id
           p == m_children[i] IN
       IF p # None /\ m_state[i] = "Running"
       THEN \/ /\ Head(inbox).timeout > 0
               /\ m_state' = [m_state EXCEPT ![i] = "SentSigTerm"]
               /\ sendSignals({}, {p})
            \/ /\ Head(inbox).timeout = 0
               /\ m_state' = [m_state EXCEPT ![i] = "SentSigKill"]
               /\ sendSignals({p}, {})
       ELSE UNCHANGED <<m_state, dying>>
    /\ UNCHANGED m_sendbuf /\ MoreOrEnd
    /\ UNCHANGED <<os, stubborn, sigPipe, m_children, expired, m_inbuf, outPipe>>

\* Of a child, the priority or the OOM adjustment, which are not modelled.
set ==
    /\ TakeCommand("set")
    /\ UNCHANGED m_sendbuf /\ MoreOrEnd
    /\ UNCHANGED <<osVars, m_children, childVars>>

write ==
    /\ TakeCommand("write")
    /\ LET i == Head(inbox).id IN
       m_inbuf' = [m_inbuf EXCEPT ![i] = @ \/ i \in Children]
    /\ UNCHANGED m_sendbuf /\ MoreOrEnd
    /\ UNCHANGED <<osVars, m_children, m_state, expired, outPipe>>

\* stop(0) for every child, then exit(0).
halt ==
    /\ TakeCommand("halt")
    /\ exit({m_children[i] : i \in {j \in Children : m_state[j] = "Running"}})
    /\ UNCHANGED <<os, stubborn, sigPipe, m_children, canReap, canWrite, m_sendbuf, childVars,
                   seen>>

NoCommand ==
    /\ phase = "commands" /\ inbox = <<>>
    /\ phase' = "write"
    /\ UNCHANGED <<osVars, m_children, canReap, canWrite, m_sendbuf, childVars, managerVars,
                   seen>>

\* The turn ends: m_sendbuf is written if it was not empty at select().
WriteReports ==
    /\ phase = "write"
    /\ phase' = "select" /\ canWrite' = FALSE
    /\ IF canWrite
       THEN seen' = queued /\ m_sendbuf' = [i \in Ids |-> <<>>]
       ELSE UNCHANGED <<seen, m_sendbuf>>
    /\ UNCHANGED <<osVars, m_children, canReap, childVars, managerVars>>

Launcher == \/ ServeChildren \/ WriteToDead \/ Reap
            \/ doFork \/ stop \/ set \/ write \/ halt \/ NoCommand
            \/ WriteReports

(***************************************************************************)
(* The children, signals, time, and the manager.                           *)
(***************************************************************************)

\* sig_child_handler writes a byte, unless it still has to run for an earlier
\* death and the two signals become one.
sig_child_handler == sigPipe' = sigPipe + 1 \/ (sigPipe > 0 /\ UNCHANGED sigPipe)

Dies(p, how) ==
    /\ phase # "gone" /\ os[p] = "live"
    /\ os' = [os EXCEPT ![p] = how]
    /\ sig_child_handler
    /\ UNCHANGED <<stubborn, dying, parentVars, childVars, managerVars, seen>>

\* It exits or crashes by itself, or succumbs to a signal.
Ends(p) == \E how \in {"exited", "crashed"} : Dies(p, how)
Killed(p) == dying[p] /\ Dies(p, "crashed")

ProgramWrites(i) ==
    /\ phase # "gone" /\ i \in Children
    /\ os[m_children[i]] = "live" /\ ~outPipe[i]
    /\ outPipe' = [outPipe EXCEPT ![i] = TRUE]
    /\ UNCHANGED <<osVars, parentVars, m_state, expired, m_inbuf, managerVars, seen>>

TimerExpires(i) ==
    /\ phase # "gone" /\ m_state[i] = "SentSigTerm" /\ ~expired[i]
    /\ expired' = [expired EXCEPT ![i] = TRUE]
    /\ UNCHANGED <<osVars, parentVars, m_state, m_inbuf, outPipe, managerVars, seen>>

Send(m) ==
    /\ phase # "gone" /\ ~halted
    /\ inbox' = Append(inbox, m)
    /\ UNCHANGED <<osVars, parentVars, childVars, seen>>

SendStart(i) ==
    /\ i \notin started
    /\ Send([command |-> "start", id |-> i])
    /\ started' = started \cup {i}
    /\ UNCHANGED <<commands, halted>>

SendCommand(i) ==
    /\ i \in started
    /\ commands < MaxCommands
    /\ \E name \in Offered \ {"halt"}, t \in {0, 1} :
          /\ name # "stop" => t = 0
          /\ Send([command |-> name, id |-> i, timeout |-> t])
    /\ commands' = commands + 1
    /\ UNCHANGED <<started, halted>>

SendHalt ==
    /\ "halt" \in Offered /\ commands < MaxCommands
    /\ Send([command |-> "halt"])
    /\ commands' = commands + 1
    /\ halted' = TRUE
    /\ UNCHANGED started

Next ==
    \/ Launcher
    \/ \E p \in Pids : Ends(p) \/ Killed(p)
    \/ \E i \in Ids : ProgramWrites(i) \/ TimerExpires(i) \/ SendStart(i) \/ SendCommand(i)
    \/ SendHalt

\* The launcher runs, signals kill, time passes.  Nothing makes
\* a program end by itself or the manager send.
Fairness == /\ WF_vars(Launcher)
            /\ \A p \in Pids : WF_vars(Killed(p))
            /\ \A i \in Ids : WF_vars(TimerExpires(i))

Spec == Init /\ [][Next]_vars /\ Fairness

(***************************************************************************)
(* Properties.                                                             *)
(***************************************************************************)

Commands == [command : {"start"}, id : Ids]
            \cup [command : {"stop", "set", "write"}, id : Ids, timeout : {0, 1}]
            \cup [command : {"halt"}]

TypeOK ==
    /\ os \in [Pids -> {"none", "live", "exited", "crashed"}]
    /\ stubborn \in [Pids -> BOOLEAN] /\ dying \in [Pids -> BOOLEAN]
    /\ sigPipe \in Nat
    /\ inbox \in Seq(Commands)
    /\ phase \in {"select", "reap", "commands", "write", "gone"}
    /\ m_children \in [Ids -> Pids \cup {None}]
    /\ canReap \in BOOLEAN /\ canWrite \in BOOLEAN
    /\ m_sendbuf \in [Ids -> Seq(Life!Signals)]
    /\ queued \in [Ids -> Life!Stages] /\ seen \in [Ids -> Life!Stages]
    /\ m_state \in [Ids -> {"NotRunning", "Running", "SentSigTerm", "SentSigKill"}]
    /\ expired \in [Ids -> BOOLEAN]
    /\ m_inbuf \in [Ids -> BOOLEAN] /\ outPipe \in [Ids -> BOOLEAN]
    /\ started \in SUBSET Ids /\ commands \in 0..MaxCommands /\ halted \in BOOLEAN

\* The launcher's map and the system's process table agree: every process it
\* forked and did not reap is the child of one id, and no entry, which the next
\* command would signal or reprioritise, has a pid that was reaped.
ChildrenTracked ==
    /\ {m_children[i] : i \in Children} = {p \in Pids : os[p] # "none"}
    /\ \A i, j \in Children : m_children[i] = m_children[j] => i = j


\* Type correctness and the agreement of the two tables.
TablesAgree == TypeOK /\ ChildrenTracked

\* Seen from the manager the launcher follows the protocol: it takes one command
\* after the other and reports one life cycle of each process it starts.
FollowsProtocol == Protocol!Safe

\* It also answers every start, and ends every child that was told to stop, even if
\* the child ignores SIGTERM and nothing else ever wakes the launcher.
KeepsProtocol == Protocol!Spec

\* Every death is reported, also when several SIGCHLD merge into one.
DeathReported ==
    \A i \in Ids : i \in Children /\ Zombie(m_children[i])
                    ~> seen[i] = "over" \/ phase = "gone"
=============================================================================
