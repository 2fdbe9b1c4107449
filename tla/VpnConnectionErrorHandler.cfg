SPECIFICATION Spec
CONSTANTS
    Worlds <- MCWorlds
    Address <- MCAddress
    Country <- MCCountry
    City <- MCCity
    FallbackServersCount = 3
    Triggers = {"unreachable", "unavailable", "maintenance", "auth"}
INVARIANTS TypeOK CandidatesVary CandidatesUsable LossOfSecureCoreTold
CHECK_DEADLOCK FALSE
