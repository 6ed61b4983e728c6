SPECIFICATION DataSpec
CONSTANTS
    Kinds = {"local", "prelaunch", "launcher", "fork"}
    InCapacity = 1
    OutCapacity = 3
    MaxRead = 2
    MaxIn = 2
    MaxOut = 4
    MaxErr = 1
    MaxEcho = 1
    WideAt = {2}
    Newlines = {1}
    None = None
INVARIANTS
    Faithful
    EchoAgrees
PROPERTIES
    Arrives
CHECK_DEADLOCK FALSE
