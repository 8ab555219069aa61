SPECIFICATION Spec
CONSTANTS
    ship = ship
    user = user
    sys = sys
    other = other
    NULL = NULL
    Loc <- AllLoc
    Suffixed <- NamedLoc
    Versions = {1, 2}
    Invalid = 99
    PlainKinds = {"absent", "text", "class", "broken"}
    VersionKinds = {"lib", "foreign"}
    MmapMayFail = TRUE
    DtPaths <- AnyDtPath
    LibPath <- UserPath
    Config <- SystemPath
    Default <- NoPath
    PathTargets = {user, other}
    MaxRequests = 2
INVARIANTS TypeOK Ownership NoDanglingName NeverBelowShipped
PROPERTIES RatchetNeverFalls
CHECK_DEADLOCK FALSE
