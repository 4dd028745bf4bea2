\* Two requests on two environments that share two addresses.
CONSTANTS
    Envs = {e1, e2}
    Pool = {1, 2}
    Clients = {c1, c2}
    Quota = 2
    MaxAllocs = 2
    MaxEvents = 4
SPECIFICATION Spec
INVARIANTS
    RowsMatchLog
    ExclusiveUnlessCut
CHECK_DEADLOCK FALSE
