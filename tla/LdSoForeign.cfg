SPECIFICATION Spec
CONSTANTS
    ship = ship
    user = user
    sys = sys
    other = other
    NULL = NULL
    Loc <- NamedLoc
    Suffixed <- NamedLoc
    Versions = {1, 2, 3}
    Invalid = 99
    PlainKinds = {"absent"}
    VersionKinds = {"lib", "foreign"}
    MmapMayFail = FALSE
    DtPaths <- OwnDtPath
    LibPath <- UserPath
    Config <- SystemPath
    Default <- NoPath
    PathTargets = {}
    MaxRequests = 1
INVARIANTS ReplacesNoNewer
CHECK_DEADLOCK FALSE
