SPECIFICATION RouterSpec
CONSTANTS
    Pool = {p1}
    Policies <- TwoInstances
    Caller = {router}
    SpawnOutcomes = {"Ready"}
    Threshold = 3
    Window = 0
    Cooldown = 0
    MaxSerial = 3
    Session = {s1, s2}
    NoSession = none
    Router = router
    IdleTimeout = 1
    MaxLease = 3
PROPERTY
    DrainKeepsSessions
CHECK_DEADLOCK FALSE
