SPECIFICATION Spec
CONSTANTS
    NumPes = 2
    Elem = {0, 1}
    root = 0
    children <- Pair
    created <- NextDoor
    Bcast = {b1, b2}
    Inserting = {0}
    Ordered = FALSE
    MaxCollective = 3
    MaxHops = 1
INVARIANTS
    TypeOK
    BroadcastConserved
PROPERTIES
    ImplementsTotalOrder
CHECK_DEADLOCK FALSE
