-------------------------- MODULE MCSocketLauncher --------------------------
EXTENDS SocketLauncher, TLC
Symmetry == Permutations(Factories) \cup Permutations(Connections)
=============================================================================
