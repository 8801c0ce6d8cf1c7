SPECIFICATION FairSpec
CONSTANTS
    Req = {r1, r2}
    NonIdemp = {r2}
    Conn = {c1}
    RetryNip = FALSE
    MaxRefwd = 2
    MaxDrop = 2
    StaleCheck = TRUE
PROPERTIES
    EveryRequestAnswered
CHECK_DEADLOCK FALSE
