CONSTANTS
    NumSlots = 2
    MaxVer = 3
    NoCall = NoCall
SPECIFICATION Spec
INVARIANTS
    IInv
    Agreement
    RecentKept
    RecentDurable
    ZeroUndecided
PROPERTIES
    DisplacesOldest
    ImplementsChoice
