SPECIFICATION Spec
CONSTANTS
    Bindings <- MCBindings
    Recursive = {"tree"}
    MaxSize = 1000
    WordBytes = 1
    HalfBytes = 1
    FirstReserved = 250
    FormatIds <- MCFormatIds
    FileFormats <- MCFileFormats
    LazyFormats <- MCLazyFormats
    What <- MCWhat
    Eager <- MCEager
    Inputs <- MCInputs
INVARIANTS TypeOK RoundTrip SizeAgrees TruncationDetected ErrorsAreWrapped LazyIsEager
CHECK_DEADLOCK FALSE
