SPECIFICATION CfgSpec
CONSTANTS
    Thread = {t1, t2}
    NoThread = noThread
    SavedPool = {p1}
    Setting = {s1, s2}
    DefaultSetting = s1
    PatchSection = {"settings"}
    Activity = {"clients", "patch"}
    Torn = torn
INVARIANT
    NoLostUpdate
