SPECIFICATION MCSpec
CHECK_DEADLOCK FALSE
CONSTANTS
    Names <- MCNames
    NameLen <- MCNameLen
    Descs <- MCDescs
    Vers = {1, 2}
    HeadSize = 2
    DliSize = 3
    VerSize = 1
    PAGE_SIZE = 1
    NumMod = 4
    MaxAdds = 5
    Empty = ""
    NoMsg = NoMsg
    c1 = c1
    c2 = c2
    Conns <- MCConns
    Lengths = {0, 2}
    MAX_CONNS = 2
    MaxMsgs <- MCMaxMsgs
    Room = 3
    NoConn = NoConn
INVARIANTS
    BuffersHold
    RoundTrip
    MadeIsAccepted
    NoneLost
    TypeOK
    OneHandler
    InOrder
PROPERTY
    SentArrives
