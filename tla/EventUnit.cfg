\* All cores stop when the workers have left: AllLeave excludes any other stop.
CHECK_DEADLOCK FALSE
CONSTANTS
    N = 3
    Programs <- RegionPrograms
SPECIFICATION Spec
INVARIANTS
    NoReexecution
    JoinMeansDone
PROPERTIES
    AllLeave
