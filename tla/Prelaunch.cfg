\* Clients that start a process in the handler that creates it.
SPECIFICATION Spec
CONSTANTS
    Backends = {b1, b2, b3}
    Infos = {i1, i2}
    None = None
    MaxClients = 1
    PromptStart = TRUE
INVARIANTS
    SpareIsRight
    ClientSeesProcess
PROPERTIES
    HandedOverForGood
    RequestServed
