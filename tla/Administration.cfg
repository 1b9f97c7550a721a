SPECIFICATION AdministrationSpec
CONSTANTS
    Client = {c1, c2}
    CatalogPool = {q1, q2}
    CatalogTool = {t}
    AnyPool = anyPool
    Ttl = 2
    RpcTime = 1
    Horizon = 5
    AdminWorker = {a1, a2}
    Caller = {"operator", "granted", "lacking", "anonymous", "unknown", "disabled"}
    Contended <- PoolRoutes
    Governed = {"allow", "stage", "block"}
    Worker = {w1}
    Pools <- MCPools
    WatchClient = {k1}
    WkWrites = 3
    WkVersions = 4
    WkKills = 1
    WkFaults = {}
INVARIANTS
    AdministrationTypes
    RoutesAreGated
    VerbsAreAllowed
    
    

    
SYMMETRY CatSymmetry
CHECK_DEADLOCK FALSE
