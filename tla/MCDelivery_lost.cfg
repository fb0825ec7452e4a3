SPECIFICATION FairHurrySpec
CONSTANTS
    NumPes = 2
    Elem = {1}
    m1 = m1
    m2 = m2
    Msg = {m1}
    Anonymous = {}
    Seeded = {}
    InsertOn <- HomeOnly
    MaxHops = 3
PROPERTIES
    EveryMessageInvoked
CHECK_DEADLOCK FALSE
