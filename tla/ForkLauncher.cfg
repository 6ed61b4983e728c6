\* Two processes, so that deaths merge and pids are used again; every command.
SPECIFICATION Spec
CONSTANTS
    Ids = {i1, i2}
    Pids = {p1, p2}
    None = None
    Offered = {"stop", "set", "write", "halt"}
    MaxCommands = 2
SYMMETRY Symmetry
INVARIANTS
    TablesAgree
PROPERTIES
    FollowsProtocol
CHECK_DEADLOCK FALSE
