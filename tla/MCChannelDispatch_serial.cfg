\* No cleanup, queues that never fill: four messages, two sessions, channel
\* swaps, errors, /stop at any time.  A third consumer identity is there for
\* anything that would create one too many.
SPECIFICATION FairSpec
CONSTANTS
    k1 = k1
    k2 = k2
    Keys = {k1, k2}
    Consumers = {c1, c2, c3}
    Messages = {1, 2, 3, 4}
    Session <- ToTwo
    None = None
    QueueMax = 4
    MaxSweeps = 0
    MayStop = FALSE
INVARIANTS
    NoMessageIgnored
    ArrivalOrder
PROPERTIES
    EveryMessageHandled
\* Nothing more happens once all messages have been dealt with.
CHECK_DEADLOCK FALSE
