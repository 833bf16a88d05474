--------------------------- MODULE MCTaskTracker ---------------------------
(* Instances of TaskTracker for TLC. *)
EXTENDS TaskTracker, TLC


=============================================================================
