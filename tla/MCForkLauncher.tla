--------------------------- MODULE MCForkLauncher ---------------------------
(***************************************************************************)
(* ForkLauncher for TLC.  Ids and pids are interchangeable in it, which    *)
(* the runs without liveness properties use.                               *)
(***************************************************************************)
EXTENDS ForkLauncher

Symmetry == Permutations(Ids) \cup Permutations(Pids)
=============================================================================
