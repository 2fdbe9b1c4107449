SPECIFICATION Safety
CONSTANTS
    Call = {c1}
    Locker = {l1}
    NoCall = NoCall
    MaxServers = 2
    Interference = {}
INVARIANT NextServerTried
