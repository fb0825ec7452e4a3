SPECIFICATION MCSpec
CONSTANTS
    NumPes = 2
    Branch = 2
    Word = 256
    b1 = b1
    b2 = b2
    e1 = e1
    Letter = {b1, b2, e1}
    Program <- MCProgram
    From <- MCFrom
    To <- MCTo
    Idx <- MCIdx
    Marshalled = {b1}
    node_of <- Separate
INVARIANTS
    TypeOK
    SeedsPlaced
    MessageConserved
    NoFault
PROPERTIES
    EverythingReady
    ExitStopsAll
CHECK_DEADLOCK FALSE
