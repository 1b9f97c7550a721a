SPECIFICATION GovSpec
CONSTANTS
    Operator = {o1, o2}
    NoOperator = noOperator
    MaxActions = 3
    Doctrine = {d1, d2}
    SplitDoctrine = {d3}
    NoDoctrine = noDoctrine
    Caller = {c1, c2}
    Autonomous = {c2}
    Id = {i1, i2, s}
    ReservedId = {}
    SeededId = {s}
    CatRequests = 3
    CatOps = {"upsertAgent", "removeAgent", "upsertMcp", "removeMcp", "upsertGroup", "removeGroup", "envelope"}
INVARIANTS
    GovTypes
    ApprovalsAreExact
    CatalogsConsistent
PROPERTIES
    InventoryCatchesUp
CHECK_DEADLOCK FALSE
