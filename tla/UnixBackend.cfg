\* A client that calls anything at any time, from the event loop and from slots.
SPECIFICATION Spec
CONSTANTS
    Priorities = {0, 5}
    Default = 0
    MaxStops = 3
INVARIANTS
    Consistent
    
    PriorityInForce
PROPERTIES
    ImplementsLifecycle
    OwnGroupSpared
    StopEndsRunning
\* A finished and deleted process has nothing left to do.
CHECK_DEADLOCK FALSE
