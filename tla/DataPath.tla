------------------------------ MODULE DataPath ------------------------------
(***************************************************************************)
(* The bytes of one process: from the client's write() to the program's    *)
(* standard input, and from its standard output and error back to the      *)
(* client's signals and the echo on the console.                           *)
(*                                                                         *)
(* 'kind' is the way they take.  "local" is QUnixProcessBackend around a   *)
(* QProcess; "prelaunch" one whose program runs already when start() hands *)
(* it its record; "launcher" a QRemoteProcessBackend whose launcher serves *)
(* it with QLauncherClient and a QUnixProcessBackend; "fork" one whose     *)
(* launcher is qForkLauncher, with a ChildProcess.                         *)
(*                                                                         *)
(* A byte is its number: the client's and the program's bytes are counted  *)
(* from 1.  Output is decoded and encoded again on the remote ways, so a   *)
(* character of two bytes that is cut in two arrives as two other bytes.   *)
(***************************************************************************)
EXTENDS Naturals, SequencesExt

CONSTANTS
    Kinds,        \* the ways to check
    InCapacity,   \* bound: bytes the pipe to the program holds
    OutCapacity,  \* bound: bytes each pipe from the program holds
    MaxRead,      \* bytes the fork launcher reads at a time (1024 in the code)
    MaxIn,        \* bound: bytes the client writes
    MaxOut,       \* bound: bytes the program writes to its standard output
    MaxErr,       \* bound: bytes it writes to its standard error
    MaxEcho,      \* bound: how often setEcho is called
    WideAt,       \* output bytes that are the first of a character of two
    Newlines,     \* output bytes that are a newline
    None          \* no channel

ASSUME DataAssumption ==
    /\ Kinds \subseteq {"local", "prelaunch", "launcher", "fork"}
    /\ {InCapacity, OutCapacity, MaxRead} \subseteq Nat \ {0}
    /\ {MaxIn, MaxOut, MaxErr, MaxEcho} \subseteq Nat
    /\ WideAt \subseteq Nat \ {0} /\ Newlines \subseteq Nat \ {0}
    /\ \A b \in WideAt : b + 1 \notin WideAt

Channels == {"out", "err"}
Remote   == {"launcher", "fork"}

VARIABLES
    kind,
    \* the program and its pipes
    child,       \* none, live, dead
    wants,       \* the channel whose full pipe blocks its write, or None
    stdin, pipe, \* bytes in the pipe to it, and in each pipe from it
    written,     \* of each channel: how many bytes it wrote
    got,         \* the bytes it read
    \* QProcess, or ChildProcess in the fork launcher
    running,     \* the QProcess is not NotRunning; the ChildProcess is listed
    inbuf,       \* QProcess's write buffer; m_inbuf
    \* the launcher and its two streams
    launcherUp, phase, canReap, down, up,
    \* QProcessBackend and its client
    m_echo, started, finished, sent, writes, received, shown, due, echoes

program  == <<child, wants, stdin, pipe, written, got>>
launcher == <<launcherUp, phase, canReap, down, up>>
client   == <<m_echo, started, finished, sent, writes, received, shown, due, echoes>>
dataVars == <<kind, program, running, inbuf, launcher, client>>

Record == 0     \* the QProcessInfo a prelaunched program is handed
Broken == 0     \* what becomes of half a character

DataInit ==
    /\ kind \in Kinds
    /\ child = IF kind = "prelaunch" THEN "live" ELSE "none"
    /\ running = (kind = "prelaunch")
    /\ wants = None /\ stdin = <<>> /\ got = <<>> /\ inbuf = <<>>
    /\ pipe = [c \in Channels |-> <<>>] /\ written = [c \in Channels |-> 0]
    /\ launcherUp = (kind \in Remote) /\ phase = "select" /\ canReap = FALSE
    /\ down = <<>> /\ up = <<>>
    /\ m_echo = "StdoutStderr" /\ started = FALSE /\ finished = FALSE
    /\ sent = <<>> /\ writes = 0
    /\ received = [c \in Channels |-> <<>>]
    /\ shown = [c \in Channels |-> <<>>] /\ due = [c \in Channels |-> <<>>]
    /\ echoes = 0

\* A definition marked 'mutant' is a plausible bug that takes the place of the
\* one that follows it, to show that a property depends on it.

Upto(s, n)  == SubSeq(s, 1, IF n < Len(s) THEN n ELSE Len(s))
After(s, n) == SubSeq(s, n + 1, Len(s))

(***************************************************************************)
(* QProcessBackend: what output becomes of at the client.                  *)
(***************************************************************************)

echoed(c) == m_echo \in {"StdoutStderr", IF c = "out" THEN "StdoutOnly" ELSE "StderrOnly"}

\* data.split('\n'): the pieces between newlines, also when they are empty.
pieces(data) ==
    FoldLeft(LAMBDA ps, b : IF b \in Newlines THEN Append(ps, <<>>)
                            ELSE Upto(ps, Len(ps) - 1) \o <<Append(Last(ps), b)>>,
             << <<>> >>, data)

\* mutant: a line without an end is not printed
printedEnded(data) == Upto(pieces(data), Len(pieces(data)) - 1)

\* _writeByteArrayToFd: the lines printed of the data.
printed(data) ==
    IF Last(pieces(data)) = <<>> THEN Upto(pieces(data), Len(pieces(data)) - 1)
    ELSE pieces(data)

\* handleStandardOutput, handleStandardError: echo, then the signal.
Deliver(data) ==
    /\ received' = [c \in Channels |-> received[c] \o data[c]]
    /\ shown' = [c \in Channels |->
                   IF echoed(c) THEN shown[c] \o printed(data[c]) ELSE shown[c]]
    /\ due' = [c \in Channels |->
                 IF echoed(c) THEN due[c] \o data[c] ELSE due[c]]
    /\ UNCHANGED <<m_echo, started, sent, writes, echoes>>

SetEcho(echo) ==
    /\ echoes < MaxEcho
    /\ m_echo' = echo /\ echoes' = echoes + 1
    /\ UNCHANGED <<kind, program, running, inbuf, launcher, started, finished, sent, writes,
                   received, shown, due>>

Only(c, data) == [d \in Channels |-> IF d = c THEN data ELSE <<>>]

(***************************************************************************)
(* The client.                                                             *)
(***************************************************************************)

\* start().  A QProcess that is Starting keeps what is written in its buffer,
\* as one that runs does, so a program starts in one step here.
StartProgram ==
    /\ ~started /\ ~finished /\ (kind \in Remote => launcherUp)
    /\ started' = TRUE
    /\ CASE kind = "local" ->
              /\ child' = "live" /\ running' = TRUE
              /\ UNCHANGED <<inbuf, down, sent>>
         [] kind = "prelaunch" ->
              /\ inbuf' = Append(inbuf, Record) /\ sent' = Append(sent, Record)
              /\ UNCHANGED <<child, running, down>>
         [] OTHER ->
              /\ down' = Append(down, <<>>)
              /\ UNCHANGED <<child, running, inbuf, sent>>
    /\ UNCHANGED <<kind, wants, stdin, pipe, written, got, launcherUp, phase, canReap, up,
                   m_echo, finished, writes, received, shown, due, echoes>>

\* QProcess::write, ChildProcess::write: more for the buffer.
buffered(data) == inbuf \o data

\* write(): refused (0 or -1) by a QProcess that is missing or has ended.  A
\* remote backend counts whatever it can send as written, started or not.
Write(n) ==
    LET data == [i \in 1..n |-> writes + i]
    IN /\ writes + n <= MaxIn
       /\ writes' = writes + n
       /\ IF kind \in Remote
          THEN /\ launcherUp /\ down' = Append(down, data)
               /\ UNCHANGED inbuf
          ELSE /\ running /\ inbuf' = buffered(data)
               /\ UNCHANGED down
       /\ sent' = IF kind \in Remote /\ ~started THEN sent ELSE sent \o data
       /\ UNCHANGED <<kind, program, running, launcherUp, phase, canReap, up, m_echo, started,
                      finished, received, shown, due, echoes>>

(***************************************************************************)
(* The program.                                                            *)
(***************************************************************************)

ReadInput ==
    /\ child = "live" /\ wants = None /\ stdin # <<>>
    /\ got' = Append(got, Head(stdin)) /\ stdin' = Tail(stdin)
    /\ UNCHANGED <<kind, child, wants, pipe, written, running, inbuf, launcher, client>>

Bound(c) == IF c = "out" THEN MaxOut ELSE MaxErr

\* Its write(2) to a pipe waits while that is full.
WriteOutput(c) ==
    /\ child = "live" /\ wants \in {None, c} /\ written[c] < Bound(c)
    /\ IF Len(pipe[c]) < OutCapacity
       THEN /\ pipe' = [pipe EXCEPT ![c] = Append(@, written[c] + 1)]
            /\ written' = [written EXCEPT ![c] = @ + 1]
            /\ wants' = None
       ELSE /\ wants = None /\ wants' = c
            /\ UNCHANGED <<pipe, written>>
    /\ UNCHANGED <<kind, child, stdin, got, running, inbuf, launcher, client>>

Die ==
    /\ child = "live"
    /\ child' = "dead" /\ stdin' = <<>> /\ wants' = None
    /\ UNCHANGED <<kind, pipe, written, got, running, inbuf, launcher, client>>

(***************************************************************************)
(* A QProcess, in the manager or in a launcher with QLauncherClient.       *)
(***************************************************************************)

QProcessKind == kind # "fork"

Room == InCapacity - Len(stdin)
fits == IF Room < Len(inbuf) THEN Room ELSE Len(inbuf)

MoveInput ==
    /\ stdin' = stdin \o Upto(inbuf, fits) /\ inbuf' = After(inbuf, fits)

\* The write end does not block: what fits is written.
QProcessWrites ==
    /\ QProcessKind /\ running /\ child = "live" /\ inbuf # <<>> /\ Room > 0
    /\ MoveInput
    /\ UNCHANGED <<kind, child, wants, pipe, written, got, running, launcher, client>>

\* fromLocal8Bit of one piece, and toLocal8Bit of the string.
decoded(data) ==
    [i \in DOMAIN data |->
       IF \/ data[i] \in WideAt /\ i = Len(data)
          \/ data[i] - 1 \in WideAt /\ i = 1
       THEN Broken ELSE data[i]]

\* The message about what was read from a channel, if anything was.
copyToOutgoing(c, data) ==
    IF data = <<>> THEN <<>> ELSE <<[chan |-> c, data |-> decoded(data)]>>

\* handleStandardOutput/Error of the backend next to the QProcess: to the
\* client, or as QLauncherClient's messages; 'then' follows them.
Pass(data, then) ==
    IF kind = "launcher"
    THEN /\ up' = up \o copyToOutgoing("out", data["out"])
                    \o copyToOutgoing("err", data["err"]) \o then
         /\ UNCHANGED client
    ELSE /\ Deliver(data)
         /\ finished' = (then # <<>>)
         /\ UNCHANGED up

FinishedMessage == [chan |-> None, data |-> <<>>]

\* readyReadStandardOutput, readyReadStandardError: readAll.
ReadyRead(c) ==
    /\ QProcessKind /\ running /\ pipe[c] # <<>>
    /\ pipe' = [pipe EXCEPT ![c] = <<>>]
    /\ Pass(Only(c, pipe[c]), <<>>)
    /\ UNCHANGED <<kind, child, wants, stdin, written, got, running, inbuf, launcherUp, phase,
                   canReap, down>>

\* The program's death: QProcess reads what is left before it says finished.
leftoversUnread == [c \in Channels |-> <<>>]                            \* mutant
leftovers == pipe

ProcessDied ==
    /\ QProcessKind /\ running /\ child = "dead"
    /\ running' = FALSE /\ inbuf' = <<>> /\ pipe' = [c \in Channels |-> <<>>]
    /\ Pass(leftovers, <<FinishedMessage>>)
    /\ UNCHANGED <<kind, child, wants, stdin, written, got, launcherUp, phase, canReap, down>>

(***************************************************************************)
(* The launcher's commands, and the events at the manager.                 *)
(***************************************************************************)

\* One command; the fork launcher takes them at the end of a turn.  A write
\* to an id it does not know, or no longer, goes nowhere.
ReceiveCommand ==
    /\ launcherUp /\ phase = "select" /\ down # <<>>
    /\ down' = Tail(down)
    /\ IF Head(down) = <<>>
       THEN child' = "live" /\ running' = TRUE /\ UNCHANGED inbuf
       ELSE /\ inbuf' = IF running THEN buffered(Head(down)) ELSE inbuf
            /\ UNCHANGED <<child, running>>
    /\ UNCHANGED <<kind, wants, stdin, pipe, written, got, launcherUp, phase, canReap, up, client>>

\* QRemoteProcessBackend::receive.
ReceiveEvent ==
    /\ up # <<>> /\ up' = Tail(up)
    /\ IF Head(up) = FinishedMessage
       THEN /\ finished' = TRUE
            /\ UNCHANGED <<m_echo, started, sent, writes, received, shown, due, echoes>>
       ELSE /\ Deliver(Only(Head(up).chan, Head(up).data))
            /\ UNCHANGED finished
    /\ UNCHANGED <<kind, program, running, inbuf, launcherUp, phase, canReap, down>>

(***************************************************************************)
(* A turn of the fork launcher, as far as this child's bytes go.           *)
(***************************************************************************)

Listed == kind = "fork" /\ launcherUp /\ running

\* writeFromBuffer: select() found room in the pipe to the child, whose write
\* end blocks: the call returns when all is written.
ForkWrite ==
    /\ Listed /\ child = "live" /\ inbuf # <<>> /\ Room > 0
    /\ phase \in {"select", "blocked"}
    /\ MoveInput
    /\ phase' = IF inbuf' = <<>> THEN "read" ELSE "blocked"
    /\ UNCHANGED <<kind, child, wants, pipe, written, got, running, launcherUp, canReap, down,
                   up, client>>

\* The rest of the buffer after a write that the SIGCHLD of another child cut
\* short: the handler is installed without SA_RESTART.
restCleared == <<>>                                                     \* mutant
rest == inbuf

ForkInterrupted ==
    /\ Listed /\ phase = "blocked"
    /\ inbuf' = rest /\ phase' = "read"
    /\ UNCHANGED <<kind, program, running, launcherUp, canReap, down, up, client>>

\* Nobody reads the other end any more: SIGPIPE ends the launcher.
ForkWriteToDead ==
    /\ Listed /\ child = "dead" /\ inbuf # <<>> /\ phase \in {"select", "blocked"}
    /\ launcherUp' = FALSE
    /\ UNCHANGED <<kind, program, running, inbuf, phase, canReap, down, up, client>>

chunk(c) == Upto(pipe[c], MaxRead)

readable(c) == pipe[c] # <<>>

\* readToBuffer and copyToOutgoing for both channels.  canReap is what
\* select() saw of sig_child_pipe: this child's death, or another's.
ForkRead ==
    /\ Listed
    /\ \/ phase = "read"
       \/ phase = "select" /\ (inbuf = <<>> \/ (child = "live" /\ Room = 0))
    /\ \/ phase = "read" \/ child = "dead" \/ \E c \in Channels : readable(c)
    /\ canReap' \in BOOLEAN /\ (child = "dead" /\ phase = "select" => canReap')
    /\ up' = up \o copyToOutgoing("out", chunk("out")) \o copyToOutgoing("err", chunk("err"))
    /\ pipe' = [c \in Channels |-> After(pipe[c], MaxRead)]
    /\ phase' = "reap"
    /\ UNCHANGED <<kind, child, wants, stdin, written, got, running, inbuf, launcherUp, down,
                   client>>

\* ~ChildProcess: its ends of the pipes are closed, and what is in them is lost.
deleteChild == inbuf' = <<>> /\ pipe' = [c \in Channels |-> <<>>]

\* waitForChildren: a dead child is reported and deleted, with what it wrote
\* since it was read.
ForkReap ==
    /\ kind = "fork" /\ launcherUp /\ phase = "reap"
    /\ phase' = "select" /\ canReap' = FALSE
    /\ IF canReap /\ child = "dead"
       THEN /\ up' = Append(up, FinishedMessage)
            /\ running' = FALSE /\ deleteChild
       ELSE UNCHANGED <<running, inbuf, pipe, up>>
    /\ UNCHANGED <<kind, child, wants, stdin, written, got, launcherUp, down, client>>

DataNext ==
    \/ StartProgram \/ \E n \in 1..2 : Write(n)
    \/ \E echo \in {"None", "StdoutOnly", "StderrOnly", "StdoutStderr"} : SetEcho(echo)
    \/ ReadInput \/ Die \/ \E c \in Channels : WriteOutput(c) \/ ReadyRead(c)
    \/ QProcessWrites \/ ProcessDied
    \/ ReceiveCommand \/ ReceiveEvent
    \/ ForkWrite \/ ForkInterrupted \/ ForkWriteToDead \/ ForkRead \/ ForkReap

\* Steps nobody decides upon: those of QProcess, of the launcher's loop and of
\* the manager's, a write(2) that can go on, and a program reading its input.
Service ==
    \/ ReadInput \/ \E c \in Channels : (wants = c /\ WriteOutput(c)) \/ ReadyRead(c)
    \/ QProcessWrites \/ ProcessDied
    \/ ReceiveCommand \/ ReceiveEvent
    \/ ForkWrite \/ ForkWriteToDead \/ ForkRead \/ ForkReap

\* The loops keep running and the program keeps reading: some service goes on
\* as long as there is one to do.  Every one of them uses up bytes or messages,
\* so none can keep another from its turn.  Nobody has to write, to die, or to
\* interrupt the launcher.
DataFairness == WF_dataVars(Service)

DataSpec == DataInit /\ [][DataNext]_dataVars /\ DataFairness

(***************************************************************************)
(* Properties.                                                             *)
(***************************************************************************)

\* No pipe is overfull, no more is counted than the bounds allow, and only
\* a listed child of the fork launcher is ever the one it is stuck writing to.
DataTypeOK ==
    /\ kind \in Kinds /\ child \in {"none", "live", "dead"} /\ wants \in Channels \cup {None}
    /\ stdin \in Seq(0..MaxIn) /\ Len(stdin) <= InCapacity
    /\ \A c \in Channels : Len(pipe[c]) <= OutCapacity /\ written[c] \in 0..Bound(c)
    /\ \A c \in Channels : received[c] \in Seq(0..Bound(c))
    /\ {got, inbuf, sent} \subseteq Seq(0..MaxIn)
    /\ {running, launcherUp, canReap, started, finished} \subseteq BOOLEAN
    /\ phase \in {"select", "blocked", "read", "reap"}
    /\ phase = "blocked" => inbuf # <<>> /\ running
    /\ m_echo \in {"None", "StdoutOnly", "StderrOnly", "StdoutStderr"}

\* Output arrives in the order it was written, without a gap and without a
\* repetition, whatever it is cut into on its way; only half a character of
\* two bytes may have changed, and only through a launcher.
OutputInOrder ==
    \A c \in Channels : \A i \in DOMAIN received[c] :
        \/ received[c][i] = i
        \/ /\ kind \in Remote /\ received[c][i] = Broken
           /\ i \in WideAt \/ i - 1 \in WideAt

\* The program reads what was counted as written to it since its start, in
\* order and without a gap: what a remote backend took before start() never
\* reaches it, and no write overtakes or replaces another.
InputInOrder == IsPrefix(got, sent)

\* What is echoed of a channel is what arrived on it while its echo was on:
\* every byte, and every newline as the end of a printed line.
EchoAgrees ==
    \A c \in Channels :
        LET isEnd(b) == b \in Newlines
        IN /\ FlattenSeq(shown[c]) = SelectSeq(due[c], LAMBDA b : ~isEnd(b))
           /\ Len(shown[c]) >= Len(SelectSeq(due[c], isEnd))

\* When a client is told that a QProcess finished, it has all the program
\* wrote.  (A ChildProcess is deleted with what the fork launcher had not
\* read of it.)
OutputComplete ==
    finished /\ kind # "fork" => \A c \in Channels : Len(received[c]) = written[c]

\* The fork launcher waits for the program to read, and the program waits
\* for the fork launcher to read.
Stuck == phase = "blocked" /\ wants # None

\* Once the client has stopped writing, what was counted as written has been
\* read by a program that lives and reads, unless the fork launcher has ended
\* or is stuck with it.
InputArrives ==
    <>[](\/ got = sent \/ child = "dead" \/ Stuck
         \/ (kind = "fork" /\ ~launcherUp))

\* Once the program has stopped writing, what it wrote has arrived, on both
\* channels and also when it died right after; through the fork launcher, if
\* it lives on and the launcher is not stuck with it.
OutputArrives ==
    <>[](\/ \A c \in Channels : Len(received[c]) = written[c]
         \/ (kind = "fork" /\ (child = "dead" \/ ~launcherUp \/ Stuck)))

\* All that is received is what was written, in both directions, and finished comes after
\* the last of it.
Faithful == DataTypeOK /\ OutputInOrder /\ InputInOrder /\ OutputComplete

\* And all of it is received in the end, but for what the two parts name.
Arrives == InputArrives /\ OutputArrives
=============================================================================
