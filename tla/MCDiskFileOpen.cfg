SPECIFICATION Spec
CONSTANTS
    PAGE_SIZE = 4
    MIN_SIZE = 2
    DFL_NUM = 3
    MaxSize = 5
    MaxPairs = 2
INVARIANT
    OpenSucceeds
