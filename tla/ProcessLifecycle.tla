------------------------- MODULE ProcessLifecycle -------------------------
(***************************************************************************)
(* What a process object promises to the code that uses it: the signals    *)
(* stateChanged, started, error and finished of QProcessBackend, in the    *)
(* order in which QProcess emits them for one run of one program, and the  *)
(* value state() must have at each point.                                  *)
(*                                                                         *)
(* The stage is the client's view: the last point of the life cycle the    *)
(* signals received so far have reached.  Every backend is to be an        *)
(* implementation of Spec; the modules that model one emit signals with    *)
(* After(stage, signal), which leads to "broken" when no life cycle        *)
(* contains that signal at that point.                                     *)
(***************************************************************************)

EXTENDS Sequences

VARIABLE stage

Signals == {"Starting", "Running", "NotRunning",    \* stateChanged(...)
            "started", "finished",
            "FailedToStart", "Crashed"}             \* error(...)

Stages == {"fresh",                                 \* nothing received
           "starting",                              \* Starting
           "running", "up",                         \* Running, then started
           "crashed", "down", "over",               \* Crashed, NotRunning, finished
           "failing", "failed",                     \* NotRunning, FailedToStart
           "gone"}                                  \* the client deleted the object

\* The stage reached when signal s arrives at stage g.
After(g, s) ==
    CASE g = "fresh"    /\ s = "Starting"      -> "starting"
      [] g = "starting" /\ s = "Running"       -> "running"
      [] g = "running"  /\ s = "started"       -> "up"
      [] g = "up"       /\ s = "Crashed"       -> "crashed"
      [] g \in {"up", "crashed"} /\ s = "NotRunning" -> "down"
      [] g = "down"     /\ s = "finished"      -> "over"
      [] g = "starting" /\ s = "NotRunning"    -> "failing"
      [] g = "failing"  /\ s = "FailedToStart" -> "failed"
      [] OTHER -> "broken"

\* The stage reached from g when the signals sigs of a life cycle have arrived.
Reached(g, sigs) ==
    IF sigs = <<>> THEN g
    ELSE LET last == sigs[Len(sigs)] IN
         CASE last = "Starting"      -> "starting"
           [] last = "Running"       -> "running"
           [] last = "started"       -> "up"
           [] last = "Crashed"       -> "crashed"
           [] last = "FailedToStart" -> "failed"
           [] last = "finished"      -> "over"
           [] last = "NotRunning"    -> IF g = "starting" THEN "failing" ELSE "down"

\* The process state a client has been told of at stage g.
StateAt(g) ==
    CASE g = "starting" -> "Starting"
      [] g \in {"running", "up", "crashed"} -> "Running"
      [] OTHER -> "NotRunning"

Init == stage = "fresh"

Receive(s) == /\ After(stage, s) \in Stages
              /\ stage' = After(stage, s)

\* The client may delete the object whenever it is not inside one of its slots.
Destroy == /\ stage # "gone"
           /\ stage' = "gone"

Next == (\E s \in Signals : Receive(s)) \/ Destroy

\* A start is always answered, and a death is always reported to its end;
\* nothing obliges a client to start a process or a program to end.
Answered == WF_stage(stage \in {"starting", "running", "crashed", "down", "failing"} /\ Next)

Safe == Init /\ [][Next]_stage
Spec == Safe /\ Answered
=============================================================================
