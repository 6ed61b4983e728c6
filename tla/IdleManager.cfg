\* A local and a remote factory, added in either order, two delegates and none.
SPECIFICATION Spec
CONSTANTS
    Factories = {f1, f2}
    Local = {f1}
    Delegates = {d1, d2}
    FirstDelegate = d1
    None = None
    MaxIntervals = 2
INVARIANTS
    IdleTimeAsked
    FactoriesAgree
    OwnerKnows
PROPERTIES
    FirstServed
