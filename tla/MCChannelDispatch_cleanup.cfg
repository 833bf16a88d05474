\* Two sessions, of three messages and of one; two rounds of a sweep that may
\* remove both queues, one after the other, and a shutdown at any time.
SPECIFICATION Spec
CONSTANTS
    k1 = k1
    k2 = k2
    Keys = {k1, k2}
    Consumers = {c1, c2, c3}
    Messages = {1, 2, 3, 4}
    Session <- ToTwo
    None = None
    QueueMax = 1
    MaxSweeps = 2
    MayStop = TRUE
SYMMETRY Symmetry
INVARIANTS
    TypeOK
    NoStranding
    BoundedConsumers
\* Nothing more happens once the messages and the sweeps are used up.
CHECK_DEADLOCK FALSE
VIEW View
