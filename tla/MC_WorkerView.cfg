\* One writer at a time: ids become visible in order.  Two faults of the worker.
CONSTANTS
    Writers = {w1}
    Aggregates = {a, b}
    p = p
    q = q
    k1 = k1
    k2 = k2
    Kinds = {k1, k2}
    Projections = {p, q}
    Handles <- MCHandles
    MaxId = 3
    MaxRows = 2
    BatchSize = 1
    MaxFaults = 2
SPECIFICATION FairSpec
PROPERTIES
    ImplementsView
    EventuallyApplied
CHECK_DEADLOCK FALSE
