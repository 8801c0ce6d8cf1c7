SPECIFICATION Spec
CONSTANTS
    Req = {r1, r2}
    NonIdemp = {}
    Conn = {c1}
    RetryNip = FALSE
    MaxRefwd = 2
    MaxDrop = 1
    StaleCheck = TRUE
INVARIANTS
    OwnResponse
CHECK_DEADLOCK FALSE
