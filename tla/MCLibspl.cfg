CONSTANTS
    MaxNodes = 12
    Lists = {l1, l2}
    Objects = {o1, o2, o3, o4}
    Nil = Nil
SPECIFICATION MCSpec
INVARIANTS Ordered Balanced Lookups DestroyOnce BothWays
PROPERTY ImplementsLists
