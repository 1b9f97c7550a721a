SPECIFICATION ShellSpec
CONSTANTS
    ActiveSets <- MCActive
    ShellFaults = {"capture", "offline", "apply"}
    MaxVersions = 1
    MaxClicks = 2
    Modules = {"dashboard-ui", "gateway-macos", "governance-macos"}
    ModuleCaller = {"c1", "c2"}
    ForsettiFaults = {"write", "dns", "http"}
    MaxChanges = 2
    MaxEdits = 1
    MaxRuns = 2
    MaxJobs = 3
    Modes = {"install", "repair", "upgrade", "uninstall"}
    Selections = {{"service", "firewall", "shortcuts", "entry"}, {"firewall"}}
    TornConfig = TRUE
INVARIANTS
    
    ModulesAreInForce
PROPERTIES
    SetAsideStaysAside
    WindowCatchesUp
    
CHECK_DEADLOCK FALSE
