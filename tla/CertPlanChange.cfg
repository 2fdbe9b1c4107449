SPECIFICATION Spec
CONSTANTS
    Sessions = {s1}
    Requests = {r1, r2}
    NoSession = NoSession
    NoRequest = NoRequest
    MAX_REFRESH_COUNT = 2
    MaxKeys = 2
INVARIANTS
    PlanChangeRefreshes
