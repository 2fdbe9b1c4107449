SPECIFICATION Safety
CONSTANTS
    MaxJobs = 7
    MaxCommands = 2
    MaxInputs = 5
    Commands = {"connect", "disconnect"}
    AgentErrors = {"revoked"}
    Flaps = FALSE
INVARIANTS DisconnectHolds
CHECK_DEADLOCK FALSE
