SPECIFICATION Spec
CONSTANTS
    Call = {c1, c2}
    Locker = {l1, l2}
    NoCall = NoCall
    MaxServers = 2
    Interference = {"user", "cancel"}
INVARIANTS
    TypeOK
    
PROPERTIES
    
    NotClosedUnderCall
