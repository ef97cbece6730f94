CONSTANTS
    Threads = {t1, t2, t3}
    Uuids = {u1}
    Pairs = {p1}
    Nodes = {n1}
    ARB_MAX_UUID_NUM = 1
    NoThread = NoThread
    NoNode = NoNode
    NoCall = NoCall
    MaxCalls = 1
SPECIFICATION LiveSpec
PROPERTIES
    CallReturns
    EmptiedFileGoes
