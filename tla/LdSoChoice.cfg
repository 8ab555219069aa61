SPECIFICATION FairSpec
CONSTANTS
    ship = ship
    user = user
    sys = sys
    other = other
    NULL = NULL
    Loc <- NamedLoc
    Suffixed <- NamedLoc
    Versions = {1, 2, 3}
    Invalid = 99
    PlainKinds = {"absent", "text", "bare", "class", "broken"}
    VersionKinds = {"lib", "foreign"}
    MmapMayFail = TRUE
    DtPaths <- OwnDtPath
    LibPath <- UserPath
    Config <- MixedPath
    Default <- NoPath
    PathTargets = {user}
    MaxRequests = 2
INVARIANTS VersionToBeatIsMapped PlainWhenUnarmed
PROPERTIES RefinesChoice StartsWithBoth
CHECK_DEADLOCK FALSE
