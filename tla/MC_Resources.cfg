\* Two handlers, two keys and two values; three events of each family; pages of one row.
CONSTANTS
    Handlers = {c1, c2}
    Keys = {k1, k2}
    Values = {v1, v2}
    EventBound = 3
    PageLimit = 1
    Families = {"org", "project", "app", "route", "secret", "volume"}
SPECIFICATION ResourceSpec
SYMMETRY HandlerSymmetry
INVARIANTS
    IndexesHoldUnlessRaced
    OwnerLeftUnlessRaced
    ReferencesResolve
    HistoriesWellFormed
    MaterializedWhenAwaited
    PagesComplete
CHECK_DEADLOCK FALSE
