SPECIFICATION Spec
CONSTANTS
    WordBits = 16
    ByteBase = 4
    MaxQuestions = 2
    Ids <- MCIds
    Image <- MCImage
    Questions <- MCQuestions
    Iterations <- MCIterations
INVARIANTS
    TypeOK
    AnswersAsIfFresh
    IterationUndisturbed
    HashLookupsAgree
    SectionsAndSegmentsAgree
    RelocationsLand
    CAndPythonAgree
CHECK_DEADLOCK FALSE
