\* One or two nodes with memory for one instance, two instances, three events, one request
\* given up.
CONSTANTS
    Keys = {k1}
    Enrollers = {e1, e2}
    None = None
    Capacity = 1
    NodeBound = 2
    InstanceBound = 2
    EventBound = 3
    TimeoutBound = 1
SPECIFICATION FairNodeSpec
INVARIANTS
    IdentitiesUnique
    ReportsInOrder
    ReadsAgree
PROPERTIES
    ShownDrainingForGood
    PlansDelivered
CHECK_DEADLOCK FALSE
