SPECIFICATION Spec
CONSTANTS
    ship = ship
    user = user
    sys = sys
    other = other
    NULL = NULL
    Loc <- NamedLoc
    Suffixed <- NamedLoc
    Versions = {1, 2}
    Invalid = 99
    PlainKinds = {"absent"}
    VersionKinds = {"lib"}
    MmapMayFail = FALSE
    DtPaths <- OwnDtPath
    LibPath <- UserPath
    Config <- SystemPath
    Default <- NoPath
    PathTargets = {}
    MaxRequests = 1
INVARIANTS NeverBelowShippedLater
CHECK_DEADLOCK FALSE
