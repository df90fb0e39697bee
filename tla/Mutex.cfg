\* The harts stop after their last release: EventuallyAllServed excludes any
\* other stop.
CHECK_DEADLOCK FALSE
CONSTANTS
    Harts = {h1, h2, h3}
    MaxAcquires = 3
SPECIFICATION LockSpec
INVARIANTS
    MutualExclusion
PROPERTIES
    EventuallyAllServed
