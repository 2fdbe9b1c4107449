SPECIFICATION Spec
CONSTANTS
    Sessions = {s1, s2}
    Requests = {r1, r2, r3}
    NoSession = NoSession
    NoRequest = NoRequest
    MAX_REFRESH_COUNT = 1
    MaxKeys = 2
SYMMETRY RequestSymmetry
INVARIANTS
    TypeOK
    CertMatchesKey
    RequestRegistered
    AnswerIsCurrent
PROPERTIES
    KeysOnlyAdvance
