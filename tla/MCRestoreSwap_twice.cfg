\* A crash while the new content is installed, and another one during the
\* rollback that follows.
SPECIFICATION Spec
CONSTANTS
    N = 1
    Mounts = {1}
    Fresh = {}
    Known = {1}
    Names = {a, b}
    Reliable = {"rename_back", "undo_rename", "roll_back"}
    Unbroken = {}
    MaxRestores = 1
    MaxCrashes = 2
    MaxFailures = 0
INVARIANTS
    NothingLost
CHECK_DEADLOCK FALSE
