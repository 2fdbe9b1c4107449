SPECIFICATION Spec
CONSTANTS
    Profiles = {p1}
    WireGuard = WireGuard
    OpenVpn = OpenVpn
    Coroutines = {c1, c2}
    ReportedStates = {"Connected", "WaitingForNetwork", "AUTH_FAILED_INTERNAL", "UNREACHABLE_INTERNAL", "GENERIC_ERROR"}
    None = None
    ColdCertPrefs = TRUE
    MaxCommands = 2
    MaxReports = 2
    MaxRestarts = 1
SYMMETRY CoroutineSymmetry
INVARIANTS
    UpHasBackend
    StatusHasBackend
PROPERTIES
    StateIsSaved
CHECK_DEADLOCK FALSE
