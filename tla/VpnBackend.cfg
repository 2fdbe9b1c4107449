SPECIFICATION Spec
CONSTANTS
    MaxJobs = 7
    MaxCommands = 2
    MaxInputs = 5
    Commands = {"connect", "disconnect", "reconnect"}
    AgentErrors = {"expired", "unknownCA", "revoked", "fatal"}
    Flaps = TRUE
INVARIANTS TypeOK ShownConnected ReachedDisconnectHolds KeyInUse OneAgent
PROPERTY DisconnectCloses
CHECK_DEADLOCK FALSE
