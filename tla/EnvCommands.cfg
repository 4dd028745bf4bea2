\* Two clients update, scale and delete one environment; up to four events.
CONSTANTS
    Clients = {c1, c2}
    MaxEvents = 4
SPECIFICATION Spec
INVARIANTS
    UpdatesSerialized
    NothingAfterDelete
    ReadYourWrites
CHECK_DEADLOCK FALSE
