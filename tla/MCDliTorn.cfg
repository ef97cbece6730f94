SPECIFICATION Spec
CHECK_DEADLOCK FALSE
CONSTANTS
    Pairs <- MCPairs
    Names <- MCNames
    NameLen <- MCNameLen
    Ip = "a"
    HeadSize = 1
    DliSize = 1
    ARB_DFL_DLI_NUM = 2
    MinStr = 4
    MaxVer = 1
    MaxStr = 10
    MaxDli = 4
    MaxHarm = 1
INVARIANT
    TornGrowthKeepsMembers
