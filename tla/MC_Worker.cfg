\* Two concurrent writers, so that events may commit out of id order, and one
\* error or crash of the worker.
CONSTANTS
    Writers = {w1, w2}
    Aggregates = {a, b}
    p = p
    q = q
    k1 = k1
    k2 = k2
    Kinds = {k1, k2}
    Projections = {p, q}
    Handles <- MCHandles
    MaxId = 3
    MaxRows = 2
    BatchSize = 2
    MaxFaults = 1
SPECIFICATION Spec
SYMMETRY MCSymmetry
INVARIANTS
    LogSound
    CheckpointCovers
    AppliedOnceInOrder
PROPERTIES
    CheckpointNeverRegresses
CHECK_DEADLOCK FALSE
