SPECIFICATION Spec
CONSTANTS
    NumPes = 2
    Elem = {0, 1}
    root = 0
    parent <- Pair
    created <- AtHome
    r1 = r1
    r2 = r2
    r3 = r3
    Redn = {r1, r2}
    Tag <- Untagged
    Inserting = {}
    MaxHops = 0
INVARIANTS
    ResultsWhole
CHECK_DEADLOCK FALSE
