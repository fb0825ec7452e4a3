SPECIFICATION FairSpec
CONSTANTS
    NumPes = 2
    Branch = 2
    Elem = {0, 1, 2, 3}
    InsertOn <- ZeroAway
    HasOptions = FALSE
    Inserters = {0, 1}
INVARIANTS
    TypeOK
    CountsMatch
    DetectionSound
    NoCycle
    SpanningTree
    AssertionsHold
PROPERTIES
    InsertionCompletes
CHECK_DEADLOCK FALSE
