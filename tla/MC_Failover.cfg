SPECIFICATION IngressSpec
CONSTANTS
    RouteIds = {1, 2}
    EnvOf <- EnvOfValue
    NewRoutes <- NewRoutesValue
    Targets = {"api"}
    FetchFactor = 2
    StreamLimit = 1
    MaxEvents = 3
    MaxTurns = 2
    FetchLimit = 2
    Stores = {"state", "cursor"}
    Instances = {1, 2, 3, 4}
    InstanceOf <- InstanceOfValue
    Flaky = {1}
    BackendLimit = 2
    Conns = {c1}
    MaxConnections = 1
    Clients <- ClientsValue
    Spellings <- SpellingsValue
    Filters = {"off", "all", "created"}
INVARIANTS FailsOver
CHECK_DEADLOCK FALSE
