SPECIFICATION FairSpec
CONSTANTS
    CPU = {c1, c2}
    Item = {x, y}
    QSZ = 2
    BUDGET = 2
    LONG_MAX = 9
    MaxHead = 3
INVARIANTS
    TypeOK
    SlotsExclusive
PROPERTIES
    IsFifo
    EveryItemPopped
