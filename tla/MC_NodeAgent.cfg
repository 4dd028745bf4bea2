SPECIFICATION FairAgentSpec
CONSTANTS
    r1 = r1
    r2 = r2
    Insts = {1}
    Releases = {r1, r2}
    Volumes <- VolumesValue
    WithSecrets = {r2}
    HelloKinds = {"unnamed", "named", "told"}
    WireCap = 1
    MaxVms = 4
    MaxFaults = 1
    MaxActors = 2
    MaxRevs = 2
    BoxCap = 2
    ChanCap = 1
    MaxPlans = 1
    MaxRestarts = 1
    Pullers = {c1, c2}
    Digests = {d1, d2}
    HighWater = 1
    LowWater = 0
    ActorLimit = 1
    MaxCalls = 4
INVARIANTS
    ReadyMeansSaidSo
    VmsAccountedFor
    ConfiguredAsBuilt
    RootDisksSound
PROPERTIES
    UnwantedStopped
CHECK_DEADLOCK FALSE
