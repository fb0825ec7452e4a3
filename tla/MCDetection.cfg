SPECIFICATION FairSpec
CONSTANTS
    NumPes = 2
    Branch = 2
    Col <- MCCol
    Rounds <- MCRounds
INVARIANTS
    TypeOK
    DetectionSound
    NoFault
PROPERTIES
    RoundsComplete
CHECK_DEADLOCK FALSE
