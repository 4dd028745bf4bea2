\* Passes over views of any age: they allocate a surplus and drain it.
CONSTANTS
    Specs = {s1, s2}
    MaxReplicas = 2
    HasVolumes = FALSE
    MaxChanges = 2
    MaxEvents = 7
    MaxFailures = 1
    MaxLag = 7
SPECIFICATION FairSpec
INVARIANTS
    GroupWithinBounds
PROPERTIES
    Settles
CHECK_DEADLOCK FALSE
