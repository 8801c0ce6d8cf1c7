SPECIFICATION ServeSpec
CONSTANTS
    Req = {r1, r2, r3}
    NonIdemp = {r2}
    Conn = {c1, c2}
    RetryNip = FALSE
    MaxRefwd = 1
    MaxDrop = 1
    StaleCheck = FALSE
SYMMETRY Symmetry
INVARIANTS
    NoneLost
    WireMatchesQueue
    NipSentOnce
    
    
    
    
CHECK_DEADLOCK FALSE
