\* The clients stop after their last call and the DM core then sleeps or has
\* left: SoleClientServed excludes any other stop of a single client.
CHECK_DEADLOCK FALSE
CONSTANTS
    c1 = c1
    Clients = {c1, c2}
    Programs <- AllPrograms
    DM_TASK_QUEUE_SIZE = 2
    DmaDepth = 1
SPECIFICATION Spec
INVARIANTS
    QueueBounded
    IssuedInOrder
    WaitMeansComplete
    OneOwner
PROPERTIES
    SoleClientServed
