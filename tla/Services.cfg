SPECIFICATION SvcSpec
CONSTANTS
    sse = sse
    poll = poll
    Capacity = 2
    FileMax = 2
    ActEvents = 4
    Wanted = {2, 3}
    Reader = {sse, poll}
    Stream = {sse}
    Filtered = {}
    MaxCount <- MCMaxCount
    Fresh = Fresh
    ActRestarts = 1
    ActFaults = {"disconnect", "append"}
    Admin = {a1}
    Provider = {claude, grok}
    NoProvider = noProvider
    Client = {k1}
    NoClient = noClient
    MaxConfigs = 2
    Threshold = 1
    SupRestarts = 1
    SupFaults = {}
    Conn = {c1, c2}
    HttpWorker = {w1, w2}
    NoConn = noConn
    HttpDepth = 1
    HttpKinds = {"request", "stream", "preflight"}
    HttpFaults = {"bind"}
INVARIANTS
    SvcTypes
    
    ConnectedByTheConfigInForce
    ServerLeavesNothing

    
CHECK_DEADLOCK FALSE
