\* Two clients share two keys and two request bodies; up to three deploys.
CONSTANTS
    Clients = {c1, c2}
    Slots = {k1, k2}
    Releases = {r1, r2}
    MaxDeploys = 3
SPECIFICATION Spec
INVARIANTS
    Truthful
    OneDeployUnlessExposed
CHECK_DEADLOCK FALSE
