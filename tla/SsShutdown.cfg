SPECIFICATION SidesSpec
CONSTANTS
    CPU = {c1, c2}
    Clnt = {k1}
    Srv = {v}
    NoConn = NoConn
    User = {u1, u2}
    MaxSock = 4
    DEATHCNT <- MCDeath
INVARIANTS
    ShutdownSafe
    ReleasedOnce
PROPERTIES
    StopTerminates
    SrvConnGoesOn
CHECK_DEADLOCK FALSE
