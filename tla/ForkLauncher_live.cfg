\* Stops, polite and not, and their outcome.
SPECIFICATION Spec
CONSTANTS
    Ids = {i1, i2}
    Pids = {p1, p2}
    None = None
    Offered = {"stop"}
    MaxCommands = 1
PROPERTIES
    DeathReported
    KeepsProtocol
CHECK_DEADLOCK FALSE
