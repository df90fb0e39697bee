\* The cores stop after their last call: EventuallyAllReturn excludes any
\* other stop.
CHECK_DEADLOCK FALSE
CONSTANTS
    Clusters = {c1, c2}
    Cores = {dm, k1, k2}
    DM = dm
    W = 3
    MaxRounds = 4
SPECIFICATION Spec
INVARIANTS
    ClustersSynced
    AtMostOneBehind
PROPERTIES
    EventuallyAllReturn
