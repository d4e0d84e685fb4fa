SPECIFICATION FairSpec
CONSTANTS
    Callers = {"w1"}
    FailureMinCount = 2
    FailureThreshold = 50
    RecoveryMinCount = 1
    RecoveryThreshold = 50
    SuccessCount = 2
    Cooldown = 1
    TTL = 2
    MinCalls = 2
    MaxCalls = 2
    Troubles = TRUE
PROPERTIES SuccessHeals FailureTrips
CHECK_DEADLOCK FALSE
