\* Two frontends, started three times over two pids: a pid serves one process after another.
SPECIFICATION Spec
CONSTANTS
    MaxCreated = 2
    Pids = {1, 2}
    Identifiers = {"", "process"}
    Priorities = {0, 5}
    MaxStarts = 3
    MaxSets = 2
INVARIANTS
    NamesHold
    OwnerFound
    PriorityReached
CHECK_DEADLOCK FALSE
