\* Two managers that start a process each, with the same id, or one that connects twice.
SPECIFICATION Spec
CONSTANTS
    Factories = {f1, f2}
    Connections = {k1, k2}
    Ids = {i1}
    None = None
    MaxChanges = 3
    MaxLeaves = 1
    MaxUnderWay = 0
SYMMETRY Symmetry
INVARIANTS
    ClientsHearTheirs
    EndsAgree
    NoOrphans
\* Clients may stop doing anything.
CHECK_DEADLOCK FALSE
