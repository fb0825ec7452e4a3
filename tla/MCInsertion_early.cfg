SPECIFICATION Spec
CONSTANTS
    NumPes = 3
    Branch = 2
    Elem = {1, 2}
    InsertOn <- AtHome
    HasOptions = FALSE
    Inserters = {0}
INVARIANTS
    AssertionsHold
CHECK_DEADLOCK FALSE
