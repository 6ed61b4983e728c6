\* Four readings at least; counters that begin within reach of MaxInt.
SPECIFICATION ReadingsSpec
CONSTANTS
    Kinds = {"cpu", "io"}
    Devices = {d1, d2}
    Counts = {0, 5}
    MaxInt = 7
    Thresholds <- MCThresholds
    Interval = 2
    MaxLate = 1
    MaxTime = 7
    MaxCalls = 3
SYMMETRY Symmetry
INVARIANTS
    ReadingsHold
    PromisesHold
\* Time is bounded.
CHECK_DEADLOCK FALSE
