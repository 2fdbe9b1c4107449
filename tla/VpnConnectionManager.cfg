SPECIFICATION Spec
CONSTANTS
    Profiles = {p1}
    WireGuard = WireGuard
    OpenVpn = OpenVpn
    Coroutines = {c1, c2}
    ReportedStates = {"Connected", "UNREACHABLE_INTERNAL", "MAX_SESSIONS"}
    None = None
    ColdCertPrefs = FALSE
    MaxCommands = 3
    MaxReports = 1
    MaxRestarts = 1
SYMMETRY CoroutineSymmetry
INVARIANTS
    TypeOK
    DisconnectSettles
PROPERTIES
    NoBackendReplaced
CHECK_DEADLOCK FALSE
