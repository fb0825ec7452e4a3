SPECIFICATION FairHurrySpec
CONSTANTS
    NumPes = 3
    Elem = {1}
    m1 = m1
    m2 = m2
    Msg = {m1, m2}
    Anonymous = {m2}
    Seeded = {}
    InsertOn <- HomeOrAway
    MaxHops = 3
INVARIANTS
    TypeOK
    ElementConserved
    MessageConserved
    WaitsOnlyAtHome
    NoDeadEndUnrushed
PROPERTIES
    ImplementsMailbox
    InvokedUnlessRushed
CHECK_DEADLOCK FALSE
