\* The master stops after its last fork.
CHECK_DEADLOCK FALSE
CONSTANTS
    Teams = {1, 2, 3, 4}
    KMP_FORK_MAX_NARGS = 12
    Argcs = {0, 7, 8, 11}
    MaxForks = 2
    MaxUpper = 10
    Loops <- NormalisedLoops
    W = 64
SPECIFICATION Spec
INVARIANTS
    ArgsDelivered
    SharesPartition
    LastFlagRight
