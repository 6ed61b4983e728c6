------------------------------ MODULE Prefork ------------------------------
(***************************************************************************)
(* QPrefork (qprefork.cpp): one program divides its arguments at "--",     *)
(* forks a child for each block but the first, connects it by two pipes,   *)
(* and every process becomes the program that its block names.  The        *)
(* QPreforkProcessBackendFactory (qpreforkprocessbackendfactory.cpp) of    *)
(* the first process, the master, talks to a child over its pipes.         *)
(*                                                                         *)
(* Modelled are the arguments down to the bytes that launch moves, the     *)
(* descriptors of every process, and the deaths: SIGCHLD, whose handler    *)
(* takes the master down, and the signal a child asks for when its parent  *)
(* dies.  Children are numbered in the order of their forks; nobody waits  *)
(* for them, so that their pids are not used again.                        *)
(***************************************************************************)
EXTENDS Integers, SequencesExt, FiniteSetsExt

CONSTANTS
    Argvs,          \* command lines: sequences of words, words being sequences of characters
    Opened,         \* which of the standard descriptors are open at the start: sets of 0..2
    MaxOthers       \* bound: how many children of the master's own program end

Marker == <<"-", "-">>
NUL == "0"

ASSUME PreforkAssumption ==
    /\ Argvs \subseteq Seq(Seq(STRING))
    /\ \A v \in Argvs : v # <<>> /\ \A j \in DOMAIN v : NUL \notin Range(v[j])
    /\ Opened \subseteq SUBSET (0..2)
    /\ MaxOthers \in Nat

VARIABLES
    argv,           \* the command line
    pc,             \* master: "execute", "makeChild", "sigaction", "launch", "running", "dead"
    index,          \* master: where the next child's block starts
    m_children,     \* master: a sequence of [in, out, pid]
    handler,        \* prefork_child_handler is installed
    pending,        \* the pid of a pending SIGCHLD, or None
    fds,            \* master (0) and each child: its open descriptors and what they stand for
    pipes,          \* how many pipes were made
    block,          \* master and each child: start and end of its block in argv
    state,          \* each child: "forked", "armed", "running", "dead"
    signalled,      \* children that are sent SIGTERM as their parent has died
    m_index,        \* of the factory, -1 without a child, or Destroyed
    halted,         \* children that were sent a halt
    stdio,          \* the standard descriptors that were open at the start
    others,         \* how many children of the master's own program have ended
    noticeable      \* at the first death of a child: all were armed and the handler in place

master == <<pc, index, m_children>>
signalVars == <<handler, pending, signalled, others, noticeable>>
client == <<m_index, halted>>
preforkVars == <<argv, stdio, master, signalVars, fds, pipes, block, state, client>>

None == 0             \* no pid
Destroyed == -2

\* A definition marked 'mutant' is a plausible bug that takes the place of the
\* one that follows it.

---------------------------------------------------------------------------
(* The command line: pure functions.  Positions count from 0, as in the code. *)

argc(v) == Len(v)
At(v, i) == v[i + 1]

nextMarker(v, i) ==
    LET found == {j \in i .. argc(v) - 1 : At(v, j) = Marker}
    IN  IF found # {} THEN Min(found) ELSE IF i < argc(v) THEN argc(v) ELSE i

\* execute() counts the arguments that are not markers: "!strcmp(..) == 0".
marker_count(v) == Cardinality({i \in 0 .. argc(v) - 1 : At(v, i) # Marker})

count(v) == marker_count(v) - 1

\* The checks of execute(), in order.
startOf(v) == nextMarker(v, 0) + 1
endOf(v) == nextMarker(v, startOf(v))
Refused(v) ==
    \/ marker_count(v) < 2
    \/ startOf(v) >= endOf(v)
    \/ endOf(v) + 1 >= argc(v)

\* The words lie one behind the other in memory, each with a NUL.
Bytes(v) == FoldLeft(LAMBDA memory, word : memory \o Append(word, NUL), <<>>, v)
Pointer(v, i) == Len(Bytes(SubSeq(v, 1, i)))

\* The string that starts at offset p.
StringAt(memory, p) ==
    LET stop == Min({j \in p + 1 .. Len(memory) : memory[j] = NUL})
    IN  SubSeq(memory, p + 1, stop - 1)

\* mutant: what is behind the moved bytes stays
ClearedNone(memory, n, size) == memory

\* memset: zeroes from n up to size.
Cleared(memory, n, size) ==
    SubSeq(memory, 1, n) \o [j \in 1 .. size - n |-> NUL] \o SubSeq(memory, size + 1, Len(memory))

\* launch: the bytes of the arguments from first up to last - 1 are moved to the front,
\* and their pointers with them.
launch(v, bounds) ==
    LET first  == bounds[1]
        last   == bounds[2]
        memory == Bytes(v)
        skip   == Pointer(v, first)
        move   == Pointer(v, last - 1) + Len(At(v, last - 1)) - skip
        size   == Pointer(v, argc(v) - 1) + Len(At(v, argc(v) - 1))
        moved  == SubSeq(memory, skip + 1, skip + move) \o SubSeq(memory, move + 1, Len(memory))
        after  == Cleared(moved, move, size)
    IN  [j \in 1 .. last - first |-> StringAt(after, Pointer(v, first + j - 1) - skip)]

---------------------------------------------------------------------------
(* Descriptors: a function from numbers to ends of pipes. *)

\* A function with another value at x.
With(f, x, value) == [y \in DOMAIN f \cup {x} |-> IF y = x THEN value ELSE f[y]]

Tty == [pipe |-> 0, end |-> "rw"]
R(p) == [pipe |-> p, end |-> "r"]
W(p) == [pipe |-> p, end |-> "w"]

\* pipe(2) takes the lowest numbers that are free.
LowestFree(table) == Min((0 .. Cardinality(DOMAIN table)) \ DOMAIN table)
open(table, what) == With(table, LowestFree(table), what)
close(table, fd) == Restrict(table, DOMAIN table \ {fd})
dup2(table, old, new) == With(table, new, table[old])

\* makePipe, twice; the numbers are fd1[0], fd1[1], fd2[0], fd2[1].
TwoPipes(table, p) == open(open(open(open(table, R(p)), W(p)), R(p + 1)), W(p + 1))
NumberOf(table, what) == CHOOSE fd \in DOMAIN table : table[fd] = what

\* mutant: the number is that of the wrong end
ChildTableSwapped(table, p) ==
    dup2(dup2(table, NumberOf(table, R(p)), 0), NumberOf(table, R(p + 1)), 1)

\* The child: dup2, dup2, and all four are closed.  A number may have been overwritten by then.
ChildTable(table, p) ==
    LET fd     == <<NumberOf(table, R(p)), NumberOf(table, W(p)),
                    NumberOf(table, R(p + 1)), NumberOf(table, W(p + 1))>>
        copied == dup2(dup2(table, fd[1], 0), fd[4], 1)
    IN  close(close(close(close(copied, fd[1]), fd[2]), fd[3]), fd[4])

MasterTable(table, p) ==
    close(close(table, NumberOf(table, R(p))), NumberOf(table, W(p + 1)))

---------------------------------------------------------------------------
(* What the master's program can ask QPrefork and the factory. *)

size == Len(m_children)
at(i) == m_children[i + 1]

---------------------------------------------------------------------------
Children == DOMAIN state
Living == {c \in Children : state[c] # "dead"}

NewFactory == m_index = -1 /\ halted = {}

PreforkInit ==
    /\ argv \in Argvs /\ stdio \in Opened
    /\ pc = "execute" /\ index = 0 /\ m_children = <<>>
    /\ handler = FALSE /\ pending = None /\ signalled = {} /\ others = 0 /\ noticeable = FALSE
    /\ fds = [p \in {0} |-> [fd \in stdio |-> Tty]]
    /\ pipes = 0
    /\ block = [p \in {0} |-> <<0, 0>>]
    /\ state = <<>>
    /\ NewFactory

(* The end of a process.  A child asks for SIGTERM when its parent dies, and gets it if *)
(* it has asked by then.                                                                 *)
MasterDies ==
    /\ pc' = "dead"
    /\ signalled' = {c \in Children : state[c] \in {"armed", "running"}}
    /\ fds' = [fds EXCEPT ![0] = <<>>]

\* SIGCHLD of child c, or of an "other": ignored without a handler, and merged with one
\* that is pending.
Raise(c) == pending' = IF handler /\ pending = None /\ pc # "dead" THEN c ELSE pending

ChildDies(c) ==
    /\ state' = [state EXCEPT ![c] = "dead"]
    /\ fds' = [fds EXCEPT ![c] = <<>>]
    /\ Raise(c)
    /\ noticeable' = IF Living = Children
                     THEN /\ handler /\ pending = None /\ pc # "dead"
                          /\ \A d \in Children : state[d] # "forked"
                     ELSE noticeable

---------------------------------------------------------------------------
(* The master *)

execute ==
    /\ pc = "execute"
    /\ IF Refused(argv)
       THEN MasterDies /\ UNCHANGED <<index, block>>
       ELSE /\ pc' = "makeChild" /\ index' = endOf(argv) + 1
            /\ block' = [block EXCEPT ![0] = <<startOf(argv), endOf(argv)>>]
            /\ UNCHANGED <<signalled, fds>>
    /\ UNCHANGED <<argv, stdio, m_children, handler, pending, others, noticeable, pipes,
                   state, client>>

\* makeChild returns where the next block starts.
AfterBlock(last) == last + 1

GoOn(last) ==
    /\ index' = AfterBlock(last)
    /\ pc' = IF index' < argc(argv) THEN pc ELSE "sigaction"

\* The child begins with a copy of all that the master has open.
Fork(last) ==
    LET c     == Len(state) + 1
        table == TwoPipes(fds[0], pipes + 1)
    IN  /\ GoOn(last)
        /\ state' = Append(state, "forked")
        /\ block' = With(block, c, <<index, last>>)
        /\ pipes' = pipes + 2
        /\ fds' = With(With(fds, c, table), 0, MasterTable(table, pipes + 1))
        /\ m_children' = Append(m_children, [in  |-> NumberOf(table, W(pipes + 1)),
                                             out |-> NumberOf(table, R(pipes + 2)),
                                             pid |-> c])
        /\ UNCHANGED signalled

\* makeChild and the loop around it.  An empty block has no child; fork() may fail.
makeChild ==
    /\ pc = "makeChild"
    /\ LET last == nextMarker(argv, index)
       IN  IF index < last
           THEN \/ MasterDies /\ UNCHANGED <<index, m_children, pipes, block, state>>
                \/ Fork(last)
           ELSE GoOn(last) /\ UNCHANGED <<m_children, fds, pipes, block, state, signalled>>
    /\ UNCHANGED <<argv, stdio, handler, pending, others, noticeable, client>>

sigaction ==
    /\ pc = "sigaction" /\ pc' = "launch" /\ handler' = TRUE
    /\ UNCHANGED <<argv, stdio, index, m_children, pending, signalled, others, noticeable, fds,
                   pipes, block, state, client>>

\* What main is called with depends on the block alone: see ArgsAreBlocks.
launchMaster ==
    /\ pc = "launch" /\ pc' = "running"
    /\ UNCHANGED <<argv, stdio, index, m_children, signalVars, fds, pipes, block, state, client>>

\* mutant: the last child is not looked at
KnownFew(pid) == \E i \in 1 .. Len(m_children) - 1 : m_children[i].pid = pid

Known(pid) == \E i \in DOMAIN m_children : m_children[i].pid = pid

\* The handler runs; qFatal for a child of ours.
checkChildDied ==
    /\ pc # "dead" /\ pending # None
    /\ pending' = None
    /\ IF Known(pending) THEN MasterDies ELSE UNCHANGED <<pc, signalled, fds>>
    /\ UNCHANGED <<argv, stdio, index, m_children, handler, others, noticeable, pipes, block,
                   state, client>>

\* The master's program cannot be loaded, crashes or exits.
MasterEnds ==
    /\ pc \in {"launch", "running"}
    /\ MasterDies
    /\ UNCHANGED <<argv, stdio, index, m_children, handler, pending, others, noticeable, pipes,
                   block, state, client>>

\* A child that the master's program has started by itself ends; its pid is its own.
OtherDies ==
    /\ pc = "running" /\ others < MaxOthers
    /\ others' = others + 1
    /\ Raise(Len(state) + others + 1)
    /\ UNCHANGED <<argv, stdio, master, handler, signalled, noticeable, fds, pipes, block,
                   state, client>>

---------------------------------------------------------------------------
(* The factory of the master's program *)

\* An index that is out of range changes nothing.
setIndex(i) ==
    /\ pc = "running" /\ m_index # Destroyed
    /\ i >= 0 /\ i < size
    /\ m_index' = i
    /\ UNCHANGED <<argv, stdio, master, signalVars, fds, pipes, block, state, halted>>

\* The destructor halts the child.
DestroyFactory ==
    /\ pc = "running" /\ m_index # Destroyed
    /\ m_index' = Destroyed
    /\ halted' = IF m_index >= 0 THEN halted \cup {at(m_index).pid} ELSE halted
    /\ UNCHANGED <<argv, stdio, master, signalVars, fds, pipes, block, state>>

---------------------------------------------------------------------------
(* A child *)

\* The pipes become its standard input and output; then it asks for SIGTERM.
SetsUp(c) ==
    /\ state[c] = "forked"
    /\ state' = [state EXCEPT ![c] = "armed"]
    /\ fds' = [fds EXCEPT ![c] = ChildTable(@, 2 * c - 1)]
    /\ UNCHANGED <<argv, stdio, master, signalVars, pipes, block, client>>

launchChild(c) ==
    /\ state[c] = "armed"
    /\ state' = [state EXCEPT ![c] = "running"]
    /\ UNCHANGED <<argv, stdio, master, signalVars, fds, pipes, block, client>>

ChildStays == UNCHANGED <<argv, stdio, master, handler, signalled, others, pipes, block, client>>

\* It cannot load its program, or crashes or exits on its own.
ChildFails(c) == c \in Living /\ ChildDies(c) /\ ChildStays

\* SIGTERM, whose handling the programs leave to the system.
Terminated(c) == c \in Living \cap signalled /\ ChildDies(c) /\ ChildStays

\* A launcher obeys a halt.
Halts(c) == c \in Living \cap halted /\ state[c] = "running" /\ ChildDies(c) /\ ChildStays

PreforkNext ==
    \/ execute \/ makeChild \/ sigaction \/ launchMaster
    \/ checkChildDied \/ MasterEnds \/ OtherDies
    \/ \E i \in DOMAIN m_children : setIndex(i - 1)
    \/ DestroyFactory
    \/ \E c \in Children :
          SetsUp(c) \/ launchChild(c) \/ ChildFails(c) \/ Terminated(c) \/ Halts(c)

\* The system runs every process and delivers every signal.
Fairness ==
    /\ WF_preforkVars(execute \/ makeChild \/ sigaction \/ launchMaster)
    /\ WF_preforkVars(checkChildDied)
    /\ WF_preforkVars(\E c \in Children : SetsUp(c) \/ launchChild(c))
    /\ WF_preforkVars(\E c \in Children : Terminated(c))
    /\ WF_preforkVars(\E c \in Children : Halts(c))

PreforkSpec == PreforkInit /\ [][PreforkNext]_preforkVars /\ Fairness

---------------------------------------------------------------------------
(* Properties *)

\* Type correctness, and no descriptor is lost or opened twice: as long as the master
\* lives it has what it started with and its two ends of each child's pipes.
PreforkTypeOK ==
    /\ pc \in {"execute", "makeChild", "sigaction", "launch", "running", "dead"}
    /\ index \in Nat /\ pipes = 2 * Len(state)
    /\ Len(m_children) = Len(state)
    /\ \A c \in Children : state[c] \in {"forked", "armed", "running", "dead"}
    /\ handler \in BOOLEAN /\ noticeable \in BOOLEAN
    /\ pending \in Nat /\ others \in 0 .. MaxOthers
    /\ signalled \cup halted \subseteq Children
    /\ DOMAIN fds = {0} \cup Children /\ DOMAIN block = DOMAIN fds
    /\ m_index \in {Destroyed, -1} \cup 0 .. size - 1
    /\ pc # "dead" =>
          /\ Cardinality(DOMAIN fds[0]) = Cardinality(stdio) + 2 * Len(state)
          /\ \A fd1, fd2 \in DOMAIN fds[0] :
                fds[0][fd1] = fds[0][fd2] /\ fds[0][fd1] # Tty => fd1 = fd2

\* The reference for what execute() and launch() make of the bytes: the words behind each
\* marker, without the blocks that have none.
Place(v, i) == Cardinality({j \in 1 .. i : v[j] = Marker})
Block(v, n) ==
    LET those == {i \in DOMAIN v : v[i] # Marker /\ Place(v, i) = n}
    IN  IF those = {} THEN <<>> ELSE SubSeq(v, Min(those), Max(those))
Blocks == [v \in Argvs |-> SelectSeq([n \in 1 .. Len(v) |-> Block(v, n)], LAMBDA b : b # <<>>)]

\* Every process is called with the words of its block, whatever lengths they have and
\* whatever blocks are empty: the master with the first, and the children with the
\* others, one each.  (It is enough to look once, when the last child is forked.)
ArgsAreBlocks ==
    pc = "sigaction" /\ (\A c \in Children : state[c] = "forked") =>
       /\ Len(Blocks[argv]) = 1 + Len(state)
       /\ \A p \in DOMAIN block : launch(argv, block[p]) = Blocks[argv][p + 1]

\* m_children is never written behind its end, although its size is computed from a
\* count of the arguments that are not markers (qprefork.cpp:267).
AllocationHolds == m_children # <<>> => Len(m_children) <= count(argv)

\* If standard input and output were open, each child reads and writes the pipes whose
\* other ends the master has noted for it.
Connected ==
    {0, 1} \subseteq stdio =>
       \A c \in Children :
          /\ state[c] \in {"armed", "running"} =>
                fds[c][0] = R(2 * c - 1) /\ fds[c][1] = W(2 * c)
          /\ pc # "dead" =>
                fds[0][m_children[c].in] = W(2 * c - 1) /\ fds[0][m_children[c].out] = R(2 * c)

\* Who may hold which end of a child's pipes.  The ends that the child reads and writes are
\* its own alone, so that the master sees the end of its output when it dies.  The other two
\* are the master's, but not the master's alone: the child drops them, yet children that are
\* forked later keep what they inherit (qprefork.cpp:230 closes only a child's own four).
\* So a child sees the end of its input when the master AND every later child has ended, and
\* not before.
EndsHeld ==
    \A c \in Children : \A p \in DOMAIN fds : \A fd \in DOMAIN fds[p] :
       /\ fds[p][fd] \in {R(2 * c - 1), W(2 * c)} => p = c
       /\ fds[p][fd] \in {W(2 * c - 1), R(2 * c)} =>
             p = 0 \/ p > c \/ (p = c /\ state[c] = "forked")

\* The table of children stays inside its array, the master loses none of its descriptors,
\* every child is connected by its own pipes, and nobody but those that EndsHeld names holds
\* an end of them.
DescriptorsHold == PreforkTypeOK /\ AllocationHolds /\ Connected /\ EndsHeld

\* "When any of our children die, the entire set of processes should shut down"
\* (qprefork.cpp:299): so it is once the handler is in place and every child has asked for
\* its signal, also when children die one upon the other or are halted, and unless the
\* signal of another process's end was pending.
AllShutDown ==
    noticeable ~> (pc = "dead" /\ Living = {})
=============================================================================
