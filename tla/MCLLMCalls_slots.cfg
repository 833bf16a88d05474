\* Three calls compete for one place and two claims per window; failures,
\* 429s, streams that break off, timeouts and cancellations at any point.
SPECIFICATION Spec
CONSTANTS
    Calls = {c1, c2, c3}
    MaxConcurrent = 1
    MaxQpm = 2
    Window = 0
    Jitter = 0
    AcquireTimeout = 1
    Attempts = 2
    Backoff = 1
    RetryAfters = {1}
    MaxPause = 1
    Streams = TRUE
INVARIANTS
    TypeOK
    SlotsConserved
    NoLostWakeup
PROPERTIES
    RetryAfterHonoured
SYMMETRY Symmetry
\* Nothing more happens once every call has ended and all timers are at rest.
CHECK_DEADLOCK FALSE
