SPECIFICATION AppleSpec
CONSTANTS
    AppleCaller = {c1, c2}
    AppleHostId = {"h1", "h2"}
    HostForms <- MCHostForms
    FirstHosts <- MCFirstHosts
    Probes <- MCProbes
    EditedHosts = {"h1"}
    SharedRequests <- MCSharedRequests
    MaxOperations = 2
    MaxLives = 2
    MaxHostEdits = 1
    RecentLimit = 2
    AppleFaults = {"crash", "payload", "late"}
INVARIANTS
    AppleTypeOK
    
PROPERTIES
    OperationsEnd
CHECK_DEADLOCK FALSE
