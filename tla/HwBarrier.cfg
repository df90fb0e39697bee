CONSTANTS
    Ports = {p1, p2, p3}
    MaxLoads = 4
SPECIFICATION PortSpec
INVARIANTS
    NoEarlyExit
PROPERTIES
    ImplementsBarrier
    OthersPass
