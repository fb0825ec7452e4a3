SPECIFICATION FairSpec
CONSTANTS
    NumPes = 4
    Branch = 2
    Elem = {0, 1, 2, 3, 4, 5}
    InsertOn <- AtHome
    HasOptions = TRUE
    Inserters = {}
INVARIANTS
    LinksAgree
    DetectionSound
    OneEndpoint
    NoCycle
    SpanningTree
PROPERTIES
    InsertionCompletes
CHECK_DEADLOCK FALSE
