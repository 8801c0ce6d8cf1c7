SPECIFICATION FairSpec
CONSTANTS
    CPU = {c0, c1}
    Local = c0
    SK = {s}
    QSZ = 1
    TXBUDGET = 1
    LONG_MAX = 99
    MaxWork = 3
INVARIANTS
    WorksKept
PROPERTIES
    CloseCarriedOut
CHECK_DEADLOCK FALSE
