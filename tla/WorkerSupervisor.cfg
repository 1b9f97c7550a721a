SPECIFICATION SupFairSpec
CONSTANTS
    Pool = {p1}
    Policies <- MCPolicies
    Caller = {c1, c2}
    SpawnOutcomes = {"Ready", "Failed"}
    Threshold = 2
    Window = 1
    Cooldown = 1
    MaxSerial = 4
INVARIANTS
    SupTypeOK
    NoOrphanWorker
    BookkeepingAgrees
PROPERTIES
    FloorRestored
    StartsAreAllowed
CHECK_DEADLOCK FALSE
