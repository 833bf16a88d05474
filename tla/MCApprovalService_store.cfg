\* Three requests with a store of two: replays, evictions, stops and answers.
SPECIFICATION Spec
CONSTANTS
    call1 = call1
    call2 = call2
    main = main
    other = other
    Requests = {1, 2, 3}
    Calls = {call1, call2}
    Anonymous = {call2}
    Roots = {main, other}
    Root <- MCRoot
    NoCall = NoCall
    MaxPending = 2
    LongTimeout = TRUE
INVARIANTS
    TypeOK
    WaiterReachable
    UserDecides
\* Nothing more happens once all records are used up and settled.
CHECK_DEADLOCK FALSE
