SPECIFICATION TurnsSpec
CONSTANTS
    NumPes = 2
    Elem = {0, 1, 2}
    root = 0
    children <- Fork
    created <- AtHome
    Bcast = {b1, b2, b3}
    Inserting = {0, 1}
    Ordered = TRUE
    MaxCollective = 2
    MaxHops = 1
INVARIANTS
    NoFault
PROPERTIES
    ImplementsTotalOrder
    BroadcastCompletes
CHECK_DEADLOCK FALSE
