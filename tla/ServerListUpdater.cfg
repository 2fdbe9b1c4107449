SPECIFICATION Spec
CONSTANTS
    Delays = {0, 1}
    Job = {j1}
    NoJob = NoJob
    Zone = {z1, z2}
    ExitZone = ExitZone
    NoZone = NoZone
    ListCaller = {"plan"}
    MinDelay = 1
    LocationDelay = 1
    LoadsDelay = 1
    ListDelay = 2
INVARIANTS
    TypeOK
    TaskInv
    ListZoneKnown
    UpdatesGoOn
PROPERTIES
    
    TaskRefines
    ListFollowsZone
