SPECIFICATION FairSpec
CONSTANTS
    d1 = d1
    d2 = d2
    System = System
    Other = Other
    NoPath = NoPath
    Threads = {1}
    Dirs = {d1, d2}
    Shipped <- EveryShipped
    SystemFiles <- EverySystem
    Libs <- EveryLib
    MaxOps = 3
INVARIANTS TypeOK ProtectedOrTold OneCopy ShippedOnlyIfHigher
PROPERTIES ChainEnds EveryLoadEnds
CHECK_DEADLOCK FALSE
