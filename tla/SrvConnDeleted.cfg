SPECIFICATION ConnSpec
CONSTANTS
    CPU = {c1}
    Clnt = {k1}
    Srv = {v}
    NoConn = NoConn
    User = {u1}
    MaxSock = 3
    DEATHCNT <- MCDeath
PROPERTIES
    DeletedIsStopped
CHECK_DEADLOCK FALSE
