--------------------------- MODULE MCIdleReadings ---------------------------
EXTENDS IdleReadings, TLC
\* Below 0, the default of 0.4, and 1.0.
MCThresholds == {-1, 2, 5}
Symmetry == Permutations(Devices)
=============================================================================
