\* A long run whose idle queue is swept: the next message is ignored.
SPECIFICATION Spec
CONSTANTS
    k1 = k1
    k2 = k2
    Keys = {k1}
    Consumers = {c1, c2}
    Messages = {1, 2}
    Session <- ToOne
    None = None
    QueueMax = 2
    MaxSweeps = 1
    MayStop = FALSE
INVARIANTS
    NoMessageIgnored
CHECK_DEADLOCK FALSE
