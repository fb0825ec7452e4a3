SPECIFICATION Spec
CONSTANTS
    NumPes = 2
    Elem = {0, 1}
    root = 0
    children <- Pair
    created <- AtHome
    Bcast = {b1, b2}
    Inserting = {}
    Ordered = FALSE
    MaxCollective = 9
    MaxHops = 0
INVARIANTS
    FlushSurvives
CHECK_DEADLOCK FALSE
