SPECIFICATION TurnsSpec
CONSTANTS
    NumPes = 2
    Elem = {0, 1, 2}
    root = 0
    parent <- Chain
    created <- OneAway
    r1 = r1
    r2 = r2
    r3 = r3
    Redn = {r1, r2, r3}
    Tag <- SecondTagged
    Inserting = {1}
    MaxHops = 2
INVARIANTS
    TypeOK
    ContributionConserved
PROPERTIES
    ImplementsGather
    ReductionCompletes
CHECK_DEADLOCK FALSE
