SPECIFICATION ShellSpec
CONSTANTS
    ActiveSets <- MCActive
    ShellFaults = {}
    MaxVersions = 0
    MaxClicks = 0
    Modules = {"dashboard-ui"}
    ModuleCaller = {"c1"}
    ForsettiFaults = {}
    MaxChanges = 0
    MaxEdits = 0
    MaxRuns = 1
    MaxJobs = 0
    Modes = {"install"}
    Selections = {{"firewall"}}
    TornConfig = FALSE
INVARIANT
    FirstRunShowsTheWizard
CHECK_DEADLOCK FALSE
