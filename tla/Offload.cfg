\* The host returns after its last job and the harts then sleep for good:
\* HostFinishes excludes any other stop.
CHECK_DEADLOCK FALSE
CONSTANTS
    N_CLUSTERS = 2
    Compute = {k1}
    N_JOBS = 2
SPECIFICATION Spec
INVARIANTS
    JobLocallyAvailable
    JobRunOnce
    ResultsBeforeReturn
PROPERTIES
    HostFinishes
