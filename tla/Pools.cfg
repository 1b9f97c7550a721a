SPECIFICATION PoolsSpec
CONSTANTS
    Pool = {p1}
    Policies <- TwoInstances
    Caller = {router}
    SpawnOutcomes = {"Ready"}
    Threshold = 3
    Window = 0
    Cooldown = 0
    MaxSerial = 2
    Session = {s1}
    NoSession = none
    Router = router
    IdleTimeout = 2
    MaxLease = 2
    Thread = {t1, t2}
    NoThread = noThread
    SavedPool = {q1}
    Setting = {v1, v2}
    DefaultSetting = v1
    PatchSection = {"security"}
    Activity = {"clients", "edit", "patch", "post", "pools", "crash", "crashInCopy"}
    Torn = torn
INVARIANT
    PoolTypes
PROPERTIES
    
    KeepsAffinity
    SecurityOffIsConfirmed
SYMMETRY ThreadSymmetry
CHECK_DEADLOCK FALSE
