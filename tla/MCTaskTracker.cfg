\* One key run twice; two subscribers that attach, leave and attach again;
\* streams of an event and an error; one caller of request_stop.
SPECIFICATION FairSpec
CONSTANTS
    Keys = {k1, k2}
    Runs = {r1, r2}
    Subs = {s1, s2}
    Stoppers = {p1}
    Events = {e1}
    ErrSse = errSse
    ReplayEnd = replayEnd
    Sentinel = sentinel
    NoRun = noRun
    NoKey = noKey
    MaxEvents = 1
INVARIANTS
    TypeOK
    SingleProducer
    ExactReplay
    NoLeakedQueue
PROPERTIES
    ImplementsEventLog
    StopEventuallyReturns
    StopReleasesReaders
\* Quiescent once every run and subscriber identity has been used.
CHECK_DEADLOCK FALSE
