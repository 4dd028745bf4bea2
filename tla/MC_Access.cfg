SPECIFICATION ExploredSpec
CONSTANTS
    Clients = {1, 2}
    Keys = {"none", "k"}
    KeysOf <- KeysOfValue
    MaxSessions = 2
    EnvLimit = 2
    InstanceLimit = 1
    Streamed = {1}
    MaxFaults = 1
    FrameCap = 1
    Callers = {a, b}
    MaxTokens = 3
    CacheSize = 1
INVARIANTS
    AuditTrail
    ExitCodeRecorded
    OneLineage
PROPERTIES
    SessionsEnd
    SignOutHolds
CHECK_DEADLOCK FALSE
