-------------------------- MODULE RemoteProtocol --------------------------
(***************************************************************************)
(* What QRemoteProcessBackendFactory may rely on: a launcher seen through  *)
(* the two pipes that connect it to the process manager.  It takes one     *)
(* command after the other and reports, for each process it started, one   *)
(* life cycle (module ProcessLifecycle).  It may be gone at any time; its  *)
(* last reports are lost then.                                             *)
(*                                                                         *)
(* ForkLauncher is shown to implement this module, and RemoteBackend is    *)
(* built on it.  A launcher is one record, so that a module with several   *)
(* launchers can use the sets of successors defined here for each of them. *)
(***************************************************************************)
EXTENDS Naturals, SequencesExt

CONSTANT Ids    \* the ids of the protocol; the manager starts each once

VARIABLE launcher

Life == INSTANCE ProcessLifecycle WITH stage <- launcher.stage

Fresh == [up       |-> TRUE,                        \* it has not exited
          inbox    |-> <<>>,                        \* commands it has not read
          stage    |-> [i \in Ids |-> "fresh"],     \* reported of each process
          stopping |-> {},                          \* running, and told to stop
          out      |-> [i \in Ids |-> <<>>]]        \* reports not yet received

\* What may be reported of a process next, all the events of one change together.
StartReports == {<<"Starting">>, <<"Starting", "Running", "started">>}

Reports(g) ==
    {<<>>} \cup
    CASE g = "starting" -> {<<"Running", "started">>, <<"NotRunning", "FailedToStart">>}
      [] g = "up" -> {<<"NotRunning", "finished">>, <<"Crashed", "NotRunning", "finished">>}
      [] OTHER -> {}

\* Launcher l reports r[i] of each process i.
report(l, r) ==
    LET reached == [i \in Ids |-> Life!Reached(l.stage[i], r[i])] IN
    [l EXCEPT !.stage = reached,
              !.stopping = {i \in @ : reached[i] = "up"},
              !.out = [i \in Ids |-> l.out[i] \o r[i]]]

\* All functions that take each id i to a member of S[i].
Selections(S) == {r \in [Ids -> UNION {S[i] : i \in Ids}] : \A i \in Ids : r[i] \in S[i]}

\* The first command is read.  A halt is followed by the launcher's exit.
Taken(l) ==
    LET m == Head(l.inbox)
        rest == [l EXCEPT !.inbox = Tail(@)]
    IN IF ~l.up \/ l.inbox = <<>> THEN {} ELSE
       CASE m.command = "start" ->
              {report(rest, [i \in Ids |-> IF i = m.id THEN c ELSE <<>>]) : c \in StartReports}
         [] m.command = "stop" /\ l.stage[m.id] = "up" ->
              {[rest EXCEPT !.stopping = @ \cup {m.id}]}
         [] m.command = "halt" -> {[rest EXCEPT !.up = FALSE]}
         [] OTHER -> {rest}

\* Something happens to processes that were started.
Reported(l) ==
    IF l.up THEN {report(l, r) : r \in Selections([i \in Ids |-> Reports(l.stage[i])])} \ {l}
            ELSE {}

\* It exits; reports that it did not write are lost.
Gone(l) ==
    IF l.up THEN {[l EXCEPT !.up = FALSE, !.out = o] :
                     o \in Selections([i \in Ids |-> Prefixes(l.out[i])])}
            ELSE {}

(***************************************************************************)
(* One launcher and its manager.                                           *)
(***************************************************************************)

Init == launcher = Fresh

\* What the launcher does by itself.
Works == IF launcher'.up THEN launcher' \in Taken(launcher) \cup Reported(launcher)
         ELSE launcher' \in Taken(launcher) \cup Gone(launcher)

Send == /\ launcher'.inbox # <<>>
        /\ launcher' = [launcher EXCEPT !.inbox = Append(@, Last(launcher'.inbox))]

Receive == /\ launcher' = [launcher EXCEPT !.out = launcher'.out]
           /\ \A i \in Ids : IsSuffix(launcher'.out[i], launcher.out[i])

Next == launcher' # launcher /\ (Send \/ Receive \/ Works)

\* As long as there is a launcher, a start is answered, a process that is starting
\* gets somewhere, and one that was told to stop ends.
Responsive == \A i \in Ids :
    /\ (\E k \in DOMAIN launcher.inbox : launcher.inbox[k].command = "start"
                                         /\ launcher.inbox[k].id = i)
          ~> launcher.stage[i] # "fresh" \/ ~launcher.up
    /\ launcher.stage[i] = "starting" ~> launcher.stage[i] # "starting" \/ ~launcher.up
    /\ i \in launcher.stopping ~> i \notin launcher.stopping \/ ~launcher.up

Safe == Init /\ [][Next]_launcher
Spec == Safe /\ Responsive
=============================================================================
