SPECIFICATION FairSpec
CONSTANTS
    Calls = {c1, c2, c3}
    First = First
    None = None
    Other = Other
    MaxOthers = 1
INVARIANTS
    TypeOK
    OneStarter
    NoOrphan
    ServesStarted
    RunsNotCut
    RunsReachable
PROPERTIES
    CallsReturn
CHECK_DEADLOCK FALSE
