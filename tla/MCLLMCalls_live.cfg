\* Two calls, one place, streams; a 429 may ask for more than the cap: every
\* call ends.  No symmetry.
SPECIFICATION FairSpec
CONSTANTS
    Calls = {c1, c2}
    MaxConcurrent = 1
    MaxQpm = 2
    Window = 1
    Jitter = 1
    AcquireTimeout = 2
    Attempts = 2
    Backoff = 1
    RetryAfters = {1, 2}
    MaxPause = 1
    Streams = TRUE
PROPERTIES
    EveryCallEnds
\* Nothing more happens once every call has ended and all timers are at rest.
CHECK_DEADLOCK FALSE
