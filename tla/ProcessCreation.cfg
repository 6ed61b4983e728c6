SPECIFICATION Spec
CONSTANTS
    Factories <- MCFactories
    Passwd <- MCPasswd
    FirstUid = 0
    Parents <- MCParents
    Records <- MCRecords
    Offered <- MCOffered
    Matchers <- MCMatchers
    MaxEdits = 2
    MaxSwaps = 1
INVARIANTS
    TableHolds
    LauncherChildHolds
    MatchedRuns
PROPERTIES
    Notified
