SPECIFICATION VersionsAndSearch
CONSTANTS
    Names <- AllNames
    MaxNames = 2
    Directories <- Three
    PathLists <- Lists
    Machines <- Installations
    NotFound = NotFound
INVARIANTS TypeOK FitsIn24Bits ClampedAt255 ReadersAgree KeepsHighest
CHECK_DEADLOCK FALSE
