CONSTANTS
    Threads = {t1, t2, t3}
    Uuids = {u1, u2}
    Pairs = {p1}
    Nodes = {n1, n2}
    ARB_MAX_UUID_NUM = 1
    NoThread = NoThread
    NoNode = NoNode
    NoCall = NoCall
SYMMETRY Symmetry
SPECIFICATION Spec
INVARIANTS
    IInv
    NoUseAfterFree
    RefExact
    DiskExclusion
    CacheExact
    MappedFileKept
    CacheBound
    IdleMeansCached
PROPERTY PairsOnlyRemovedByRemove
