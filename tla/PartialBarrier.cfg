\* The harts stop after their last call: ImplementsBarrier excludes any
\* other stop inside a call.
CHECK_DEADLOCK FALSE
CONSTANTS
    Harts = {h1, h2, h3}
    W = 4
    MaxRounds = 5
SPECIFICATION Spec
INVARIANTS
    NoEarlyExit
    NoMissedRelease
PROPERTIES
    ImplementsBarrier
