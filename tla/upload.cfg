SPECIFICATION FairSpec
CONSTANTS
    Machine <- TwoMachines
    User <- TwoUsers
    LongUser <- OneLong
    Stamp <- OneMinute
    Parser <- OneParser
    MaxParsed = 3
    NoId = NoId
    NoEvent = NoEvent
    m1 = m1
    m2 = m2
    u1 = u1
    long = long
    p1 = p1
    p2 = p2
INVARIANTS TypeOK RowsOwned
PROPERTIES HandedOnOnce Drained
