SPECIFICATION Spec
CONSTANTS
    N_CLUSTERS = 2
    N_CORES_PER_CLUSTER = 2
    FIELDS = 2
    ROUNDS = 2
    RTC_PERIOD = 2
    Selections <- MCSelections
    Intervals <- MCIntervals
CHECK_DEADLOCK FALSE
INVARIANTS InterruptsKept DelayHonoured AllTookPart
PROPERTY HostReturns
