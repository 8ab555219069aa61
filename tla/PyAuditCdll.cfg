SPECIFICATION Spec
CONSTANTS
    d1 = d1
    d2 = d2
    System = System
    Other = Other
    NoPath = NoPath
    Threads = {1}
    Dirs = {d1}
    Shipped <- HigherShipped
    SystemFiles <- LowerSystem
    Libs <- OnlyCdll
    MaxOps = 1
INVARIANTS NoSilentDowngrade
CHECK_DEADLOCK FALSE
