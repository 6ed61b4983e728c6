\* A process, a launcher and its successor, a stop and a change of restriction.
SPECIFICATION Spec
CONSTANTS
    Ids = {i1}
    Launchers = {l1, l2}
    None = None
    MaxStops = 1
    MaxChanges = 1
    StartOnce = TRUE
INVARIANTS
    ReportsArrive
    LauncherKnown
PROPERTIES
    ImplementsLifecycle
    Answered
\* Clients and owner may stop doing anything, and so does a crashed manager.
CHECK_DEADLOCK FALSE
