SPECIFICATION ShippedSpec
CONSTANTS
    Sections <- SomeSections
    MaxSections = 3
    Executables <- SomeExecutables
    OriginLens = {1, 18}
INVARIANTS TypeOK InBounds Uncut OneBuffer LengthOfLongest ReturnsFirst ShippedIsFirst
CHECK_DEADLOCK FALSE
