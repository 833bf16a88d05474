\* A directory that is renamed, a mount point whose children are moved, and a
\* directory that does not exist yet; crashes and failures at every step but
\* those of Reliable and Unbroken.
SPECIFICATION Spec
CONSTANTS
    N = 3
    Mounts = {2}
    Fresh = {3}
    Known = {2, 3}
    Names = {a, b}
    Reliable = {"rename_back", "undo_rename", "roll_back"}
    Unbroken = {"roll_back"}
    MaxRestores = 2
    MaxCrashes = 2
    MaxFailures = 2
INVARIANTS
    TypeOK
    NothingLost
    WholeAfterStart
    SuccessMeansNew
\* Nothing more happens once the restores are used up.
CHECK_DEADLOCK FALSE
