---------------------------- MODULE RestoreSwap ----------------------------
(***************************************************************************)
(* The restore of directories from a backup: staging next to the           *)
(* destination, the swap by two renames, the swap of the children of a     *)
(* directory that cannot be renamed, and the recovery after a crash        *)
(* (src/src/hanbao/backup/_utils/safe_swap.py, _mount_swap.py and          *)
(* backup/_ops/restore.py).                                                *)
(*                                                                         *)
(* One step is one call of the file system: a rename, the copy or removal  *)
(* of one child.  The process may crash between any two of them, and a     *)
(* call may fail.  restore_process_lock keeps other restores and clean-ups *)
(* out, so there is one process.                                           *)
(*                                                                         *)
(* A place is a directory on disk that belongs to a destination:           *)
(*   "dst"  the destination       "tmp"   <dst>.restore_tmp                *)
(*   "old"  <dst>.restore_old     "evac"  <dst>/.hanbao_restore_old        *)
(* The contents are children of a generation: 0 is what was there before   *)
(* the first restore, n what restore n brings.  A child that is being      *)
(* copied to another file system is "torn".                                *)
(***************************************************************************)
EXTENDS Naturals

CONSTANTS
    N,            \* number of destinations; they are restored in order 1 .. N
    Mounts,       \* the destinations that cannot be renamed
    Fresh,        \* the destinations that do not exist before the first restore
    Known,        \* the destinations that start-up looks at in any case: secrets, skill
                  \* pool, agents whose path is the same in the restored configuration
    Names,        \* names of children
    Reliable,     \* steps that do not fail
    Unbroken,     \* steps during which the process does not die
    MaxRestores,  \* bound on restores
    MaxCrashes,   \* bound on crashes
    MaxFailures   \* bound on failing calls

Dirs == 1 .. N

ASSUME RestoreConstants ==
    /\ N \in Nat \ {0}
    /\ Mounts \subseteq Dirs
    /\ Fresh \subseteq Dirs \ Mounts
    /\ Known \subseteq Dirs
    /\ MaxRestores \in Nat /\ MaxCrashes \in Nat /\ MaxFailures \in Nat

VARIABLES
    exists,   \* destination -> the places that exist
    files,    \* destination -> place -> the children in it
    marker,   \* destination -> .hanbao_restore_state
    marktmp,  \* destination -> .hanbao_restore_state.tmp exists
    config,   \* generation of the global configuration
    named,    \* the destinations it names, and Known
    pc,       \* next call of the process
    task,     \* what the process is doing
    at,       \* the destination it is at
    drop,     \* the destinations whose staged copy is still to be discarded
    round,    \* number of the last restore
    result,   \* how that restore ended
    gen,      \* history: destination -> generation that was last put in place
    crashes,  \* number of crashes
    failures  \* number of failed calls

disk  == <<exists, files, marker, marktmp, config, named, gen>>
count == <<round, crashes, failures>>
vars  == <<disk, pc, task, at, drop, result, count>>

Places == {"dst", "tmp", "old", "evac"}
States == {"none", "evacuating_old", "installing_new", "committed"}
Child  == Names \X (0 .. MaxRestores) \X {"whole", "torn"}

\* What generation g of destination d consists of.
Content(d, g) ==
    IF g = 0 /\ d \in Fresh THEN {} ELSE {<<n, g, "whole">> : n \in Names}

Init ==
    /\ exists   = [d \in Dirs |-> IF d \in Fresh THEN {} ELSE {"dst"}]
    /\ files    = [d \in Dirs |-> [p \in Places |->
                     IF p = "dst" THEN Content(d, 0) ELSE {}]]
    /\ marker   = [d \in Dirs |-> "none"]
    /\ marktmp  = [d \in Dirs |-> FALSE]
    /\ config   = 0
    /\ named    = Known \cup (Dirs \ Fresh)
    /\ pc       = "idle"
    /\ task     = "none"
    /\ at       = 1
    /\ drop     = {}
    /\ round    = 0
    /\ result   = "none"
    /\ gen      = [d \in Dirs |-> 0]
    /\ crashes  = 0
    /\ failures = 0

-----------------------------------------------------------------------------
(* Calls of the file system.  They leave the process where it is. *)

\* One step of rmtree of place p: a child, or the directory once it is empty.
RemoveStep(d, p) ==
    /\ p \in exists[d]
    /\ \/ \E c \in files[d][p] :
             files' = [files EXCEPT ![d][p] = @ \ {c}] /\ UNCHANGED exists
       \/ /\ files[d][p] = {}
          /\ exists' = [exists EXCEPT ![d] = @ \ {p}]
          /\ UNCHANGED files
    /\ UNCHANGED <<marker, marktmp, config, named, gen>>

\* Path.rename of place p to place q, which does not exist or is empty.
Renamed(d, p, q) ==
    /\ exists' = [exists EXCEPT ![d] = (@ \ {p}) \cup {q}]
    /\ files'  = [files EXCEPT ![d][q] = files[d][p], ![d][p] = {}]
    /\ UNCHANGED <<marker, marktmp, config, named>>

\* shutil.move of one child of p to q within one file system.
MoveChild(d, p, q) ==
    /\ \E c \in files[d][p] :
          files' = [files EXCEPT ![d][p] = @ \ {c}, ![d][q] = @ \cup {c}]
    /\ UNCHANGED <<exists, marker, marktmp, config, named, gen>>

-----------------------------------------------------------------------------
(* Control *)

Stay      == UNCHANGED <<pc, task, at, drop, result, count>>
Goto(p)   == pc' = p /\ UNCHANGED <<task, at, drop, result, count>>

\* Discard the staged copies of S and report the failure.
GiveUp(S, why) ==
    /\ pc' = "discard" /\ drop' = S /\ result' = why
    /\ UNCHANGED <<task, at>>

\* Mutant of NextCommit: the last destination is left out.
NextCommitOneShort ==
    IF at + 1 < N
    THEN /\ pc' = "prepare" /\ at' = at + 1
         /\ UNCHANGED <<task, drop, result, count>>
    ELSE Goto("paths")

\* Mutant of NextCommit: on past the end.
NextCommitPastEnd ==
    /\ pc' = "prepare" /\ at' = at + 1
    /\ UNCHANGED <<task, drop, result, count>>

\* commit_tmp of one destination is done: the next one, or the paths.
NextCommit ==
    IF at < N
    THEN /\ pc' = "prepare" /\ at' = at + 1
         /\ UNCHANGED <<task, drop, result, count>>
    ELSE Goto("paths")

\* What follows the clean-up or recovery of one destination.
Recovered ==
    \/ /\ task = "boot" /\ at < N
       /\ pc' = "rename_back" /\ at' = at + 1
       /\ UNCHANGED <<task, drop, result>>
    \/ /\ task = "boot" /\ at = N
       /\ pc' = "idle" /\ task' = "none"
       /\ UNCHANGED <<at, drop, result>>
    \/ /\ task = "stage"
       /\ pc' = "clear_tmp"
       /\ UNCHANGED <<task, at, drop, result>>
    \/ /\ task = "undo"
       /\ GiveUp(at .. N, "commit_failed")

-----------------------------------------------------------------------------
(* Restore: phase 1, staging *)

\* _restore_sync: the first destination is cleaned up, then staged.
BeginRestore ==
    /\ pc = "idle"
    /\ round < MaxRestores
    /\ round' = round + 1
    /\ pc' = "rename_back" /\ task' = "stage" /\ at' = 1 /\ result' = "none"
    /\ UNCHANGED <<disk, drop, crashes, failures>>

\* extract_to_tmp: remove what is there, make the directory, ...
ClearTmp ==
    /\ pc = "clear_tmp"
    /\ \/ RemoveStep(at, "tmp") /\ Stay
       \/ /\ "tmp" \notin exists[at]
          /\ exists' = [exists EXCEPT ![at] = @ \cup {"tmp"}]
          /\ UNCHANGED <<files, marker, marktmp, config, named, gen>>
          /\ Goto("extract")

\* ... and write the entries of the archive one by one.
Extract ==
    /\ pc = "extract"
    /\ \E c \in Content(at, round) \ files[at]["tmp"] :
          files' = [files EXCEPT ![at]["tmp"] = @ \cup {c}]
    /\ UNCHANGED <<exists, marker, marktmp, config, named, gen>>
    /\ Stay

\* The destination is staged: on to the next one, or to phase 2.
Staged ==
    /\ pc = "extract"
    /\ files[at]["tmp"] = Content(at, round)
    /\ IF at < N THEN pc' = "rename_back" /\ at' = at + 1 /\ UNCHANGED task
                 ELSE pc' = "config" /\ UNCHANGED <<at, task>>
    /\ UNCHANGED <<disk, drop, result, count>>

-----------------------------------------------------------------------------
(* Restore: phase 2, commit *)

\* _commit_staged_global_config: the configuration has the paths of the backup.
CommitConfig ==
    /\ pc = "config"
    /\ config' = round
    /\ named' = Known
    /\ pc' = "prepare" /\ task' = "commit" /\ at' = 1
    /\ UNCHANGED <<exists, files, marker, marktmp, gen, drop, result, count>>

\* prepare_destination_for_swap.
Prepare ==
    /\ pc = "prepare"
    /\ \/ /\ "dst" \notin exists[at]
          /\ UNCHANGED disk
          /\ Goto("rename_first")
       \/ /\ "dst" \in exists[at]
          /\ at \in Mounts
          /\ UNCHANGED disk
          /\ IF "evac" \in exists[at]
             THEN pc' = "recover" /\ task' = "undo" /\ UNCHANGED <<at, drop, result, count>>
             ELSE Goto("mark_evac")
       \/ /\ "dst" \in exists[at]
          /\ at \notin Mounts
          /\ IF files[at]["old"] = {}
             THEN Renamed(at, "dst", "old") /\ UNCHANGED gen /\ Goto("rename_in")
             ELSE UNCHANGED <<disk, count>> /\ GiveUp(at .. N, "commit_failed")

\* _swap_directories: tmp_dst.rename(dst).
RenameIn ==
    /\ pc \in {"rename_in", "rename_first"}
    /\ Renamed(at, "tmp", "dst")
    /\ gen' = [gen EXCEPT ![at] = round]
    /\ Goto("discard_old")

\* The rollback of a failed second rename.
UndoRename ==
    /\ pc = "undo_rename"
    /\ Renamed(at, "old", "dst") /\ UNCHANGED gen
    /\ GiveUp(at .. N, "commit_failed") /\ UNCHANGED count

\* _discard_old, phase 3.
DiscardOld ==
    /\ pc = "discard_old"
    /\ \/ RemoveStep(at, "old") /\ Stay
       \/ "old" \notin exists[at] /\ UNCHANGED disk /\ NextCommit

\* _write_state: a temporary file that replaces the marker.
WriteState(s) ==
    /\ UNCHANGED <<exists, files, config, named>>
    /\ \/ /\ ~marktmp[at]
          /\ marktmp' = [marktmp EXCEPT ![at] = TRUE]
          /\ UNCHANGED <<marker, gen>>
          /\ Stay
       \/ /\ marktmp[at]
          /\ marktmp' = [marktmp EXCEPT ![at] = FALSE]
          /\ marker'  = [marker EXCEPT ![at] = s]
          /\ gen' = IF s = "committed" THEN [gen EXCEPT ![at] = round] ELSE gen
          /\ Goto(CASE s = "evacuating_old" -> "evacuate"
                    [] s = "installing_new" -> "install"
                    [] s = "committed"      -> "rm_evac")

\* _swap_mount_point_contents, from marker to marker.
Mark ==
    \/ pc = "mark_evac"    /\ WriteState("evacuating_old")
    \/ pc = "mark_install" /\ WriteState("installing_new")
    \/ pc = "mark_commit"  /\ WriteState("committed")

Evacuate ==
    /\ pc = "evacuate"
    /\ \/ /\ "evac" \notin exists[at]
          /\ exists' = [exists EXCEPT ![at] = @ \cup {"evac"}]
          /\ UNCHANGED <<files, marker, marktmp, config, named, gen>>
          /\ Stay
       \/ "evac" \in exists[at] /\ MoveChild(at, "dst", "evac") /\ Stay
       \/ /\ "evac" \in exists[at] /\ files[at]["dst"] = {}
          /\ UNCHANGED disk
          /\ Goto("mark_install")

\* The staged directory is on another file system: a child is copied, then
\* removed there.
Install ==
    /\ pc = "install"
    /\ UNCHANGED <<exists, marker, marktmp, config, named, gen>>
    /\ \/ \E c \in files[at]["tmp"] :
             /\ \A b \in files[at]["dst"] : b[3] = "whole"
             /\ files' = [files EXCEPT ![at]["dst"] = @ \cup {<<c[1], c[2], "torn">>}]
             /\ Stay
       \/ \E c \in files[at]["tmp"] :
             LET torn == <<c[1], c[2], "torn">>
             IN  /\ torn \in files[at]["dst"]
                 /\ files' = [files EXCEPT ![at]["dst"] = (@ \ {torn}) \cup {c},
                                           ![at]["tmp"] = @ \ {c}]
                 /\ Stay
       \/ /\ files[at]["tmp"] = {}
          /\ UNCHANGED files
          /\ Goto("mark_commit")

\* _apply_workspace_paths_and_save: agents that are new, and the paths of all.
SavePaths ==
    /\ pc = "paths"
    /\ named' = Dirs
    /\ pc' = "idle" /\ task' = "none" /\ result' = "ok"
    /\ UNCHANGED <<exists, files, marker, marktmp, config, gen, at, drop, count>>

\* discard_tmp for what a failed restore leaves staged.
Discard ==
    /\ pc = "discard"
    /\ UNCHANGED <<task, at, result, count>>
    /\ \/ \E d \in drop : RemoveStep(d, "tmp") /\ UNCHANGED <<pc, drop>>
       \/ \E d \in drop :
             /\ "tmp" \notin exists[d]
             /\ drop' = drop \ {d}
             /\ UNCHANGED <<disk, pc>>
       \/ drop = {} /\ pc' = "idle" /\ UNCHANGED <<disk, drop>>

-----------------------------------------------------------------------------
(* cleanup_stale_restore_artifacts, at start-up and before staging *)

\* _startup_restore_targets: start-up passes over what no configuration names.
PassOver ==
    /\ pc = "rename_back" /\ task = "boot"
    /\ at \notin named
    /\ UNCHANGED <<disk, count>>
    /\ Recovered

\* Mutant of RenameBack: scenario 1 is forgotten.
NoRenameBack ==
    /\ pc = "rename_back"
    /\ task = "boot" => at \in named
    /\ UNCHANGED disk
    /\ Goto("rm_tmp")

\* Scenario 1: a crash between the two renames.
RenameBack ==
    /\ pc = "rename_back"
    /\ task = "boot" => at \in named
    /\ IF "old" \in exists[at] /\ "dst" \notin exists[at]
       THEN Renamed(at, "old", "dst") /\ UNCHANGED gen
       ELSE UNCHANGED disk
    /\ Goto("rm_tmp")

\* Scenario 2: an incomplete extraction.
RemoveTmp ==
    /\ pc = "rm_tmp"
    /\ \/ RemoveStep(at, "tmp") /\ Stay
       \/ "tmp" \notin exists[at] /\ UNCHANGED disk /\ Goto("rm_old")

\* Scenario 3: an interrupted removal of the old directory.
RemoveOld ==
    /\ pc = "rm_old"
    /\ \/ RemoveStep(at, "old") /\ Stay
       \/ "old" \notin exists[at] /\ UNCHANGED disk /\ Goto("recover")

\* Mutant of Recover: a half-installed swap is only moved back.
RecoverWithoutWipe ==
    /\ pc = "recover"
    /\ UNCHANGED <<disk, count>>
    /\ IF marker[at] = "none" /\ ~marktmp[at]
       THEN Recovered
       ELSE /\ pc' = IF marker[at] = "committed" THEN "rm_evac" ELSE "move_back"
            /\ UNCHANGED <<task, at, drop, result>>

\* Mutant of Recover: after the commit only the markers are removed.
RecoverLeavesEvac ==
    /\ pc = "recover"
    /\ UNCHANGED <<disk, count>>
    /\ IF marker[at] = "none" /\ ~marktmp[at]
       THEN Recovered
       ELSE /\ pc' = CASE marker[at] = "committed" -> "rm_artifacts"
                       [] marker[at] = "installing_new" ->
                             IF "evac" \in exists[at] THEN "wipe" ELSE "rm_artifacts"
                       [] OTHER -> "move_back"
            /\ UNCHANGED <<task, at, drop, result>>

\* recover_mount_point_swap: what the marker says is to be done.
Recover ==
    /\ pc = "recover"
    /\ UNCHANGED <<disk, count>>
    /\ IF marker[at] = "none" /\ ~marktmp[at]
       THEN Recovered
       ELSE /\ pc' = CASE marker[at] = "committed" -> "rm_evac"
                       [] marker[at] = "installing_new" ->
                             IF "evac" \in exists[at] THEN "wipe" ELSE "rm_artifacts"
                       [] OTHER -> "move_back"
            /\ UNCHANGED <<task, at, drop, result>>

\* _rollback_installing_new: _remove_children of the destination.
Wipe ==
    /\ pc = "wipe"
    /\ \/ /\ \E c \in files[at]["dst"] : files' = [files EXCEPT ![at]["dst"] = @ \ {c}]
          /\ UNCHANGED <<exists, marker, marktmp, config, named, gen>>
          /\ Stay
       \/ files[at]["dst"] = {} /\ UNCHANGED disk /\ Goto("roll_back")

\* _restore_old_content, after Wipe or on its own.
MoveBack ==
    /\ pc \in {"roll_back", "move_back"}
    /\ \/ MoveChild(at, "evac", "dst") /\ Stay
       \/ files[at]["evac"] = {} /\ RemoveStep(at, "evac") /\ Stay
       \/ "evac" \notin exists[at] /\ UNCHANGED disk /\ Goto("rm_artifacts")

\* _cleanup_artifacts of a committed swap.
RemoveEvac ==
    /\ pc = "rm_evac"
    /\ \/ RemoveStep(at, "evac") /\ Stay
       \/ "evac" \notin exists[at] /\ UNCHANGED disk /\ Goto("rm_artifacts")

\* _remove_tmp_and_state_markers.
RemoveArtifacts ==
    /\ pc = "rm_artifacts"
    /\ \/ RemoveStep(at, "tmp") /\ Stay
       \/ /\ "tmp" \notin exists[at]
          /\ marktmp[at]
          /\ marktmp' = [marktmp EXCEPT ![at] = FALSE]
          /\ UNCHANGED <<exists, files, marker, config, named, gen>>
          /\ Stay
       \/ /\ "tmp" \notin exists[at]
          /\ ~marktmp[at]
          /\ marker' = [marker EXCEPT ![at] = "none"]
          /\ UNCHANGED <<exists, files, marktmp, config, named, gen>>
          /\ IF task = "commit" THEN NextCommit ELSE Recovered /\ UNCHANGED count

-----------------------------------------------------------------------------
(* Failures, crashes and the running service *)

Recovery == {"wipe", "roll_back", "move_back", "rm_evac", "rm_artifacts"}
Swapping == {"mark_evac", "evacuate", "mark_install", "install", "mark_commit"}

\* A call fails with OSError.
Fail ==
    /\ failures < MaxFailures
    /\ pc \notin Reliable
    /\ failures' = failures + 1
    /\ UNCHANGED <<disk, round, crashes>>
    /\ \/ /\ pc = "rename_back" /\ "old" \in exists[at] /\ "dst" \notin exists[at]
          /\ task = "boot" => at \in named
          /\ Recovered
       \/ pc = "rm_tmp" /\ pc' = "rm_old" /\ UNCHANGED <<task, at, drop, result>>
       \/ pc = "rm_old" /\ pc' = "recover" /\ UNCHANGED <<task, at, drop, result>>
       \/ /\ pc \in Recovery /\ task = "boot"
          /\ pc' = "down" /\ UNCHANGED <<task, at, drop, result>>
       \/ /\ \/ pc \in Recovery /\ task = "stage"
             \/ pc \in {"clear_tmp", "extract"}
          /\ GiveUp(1 .. at - 1, "stage_failed")
       \/ /\ pc \in {"config", "paths"}
          /\ pc' = "idle" /\ result' = "commit_failed" /\ UNCHANGED <<task, at, drop>>
       \/ /\ pc = "rename_in"
          /\ pc' = "undo_rename" /\ UNCHANGED <<task, at, drop, result>>
       \/ /\ \/ pc = "prepare" /\ at \notin Mounts
             \/ pc \in {"rename_first", "undo_rename", "discard_old"}
             \/ pc \in Recovery /\ task = "undo"
          /\ GiveUp(at .. N, "commit_failed")
       \/ /\ \/ pc \in Swapping
             \/ pc \in Recovery /\ task = "commit"
          /\ pc' = "recover" /\ task' = "undo" /\ UNCHANGED <<at, drop, result>>
       \/ /\ pc = "discard"
          /\ \E d \in drop : drop' = drop \ {d}
          /\ UNCHANGED <<pc, task, at, result>>

\* The process dies.
Crash ==
    /\ crashes < MaxCrashes
    /\ pc \notin Unbroken \cup {"down"}
    /\ crashes' = crashes + 1
    /\ pc' = "down"
    /\ UNCHANGED <<disk, task, at, drop, round, result, failures>>

\* Start-up: recovery comes first.
Start ==
    /\ pc = "down"
    /\ pc' = "rename_back" /\ task' = "boot" /\ at' = 1 /\ drop' = {}
    /\ result' = "none"
    /\ UNCHANGED <<disk, count>>

\* A workspace that is started creates its directory if that is missing.
Recreate(d) ==
    /\ pc = "idle"
    /\ d \in named
    /\ "dst" \notin exists[d]
    /\ exists' = [exists EXCEPT ![d] = @ \cup {"dst"}]
    /\ UNCHANGED <<files, marker, marktmp, config, named, gen>>
    /\ Stay

Next ==
    \/ BeginRestore \/ ClearTmp \/ Extract \/ Staged
    \/ CommitConfig \/ Prepare \/ RenameIn \/ UndoRename \/ DiscardOld
    \/ Mark \/ Evacuate \/ Install \/ SavePaths \/ Discard
    \/ PassOver \/ RenameBack \/ RemoveTmp \/ RemoveOld \/ Recover
    \/ Wipe \/ MoveBack \/ RemoveEvac \/ RemoveArtifacts
    \/ Fail \/ Crash \/ Start
    \/ \E d \in Dirs : Recreate(d)

Spec == Init /\ [][Next]_vars

-----------------------------------------------------------------------------
(* Properties *)

\* Variables have the values the code can give them.
TypeOK ==
    /\ exists  \in [Dirs -> SUBSET Places]
    /\ files   \in [Dirs -> [Places -> SUBSET Child]]
    /\ marker  \in [Dirs -> States]
    /\ marktmp \in [Dirs -> BOOLEAN]
    /\ config  \in 0 .. MaxRestores
    /\ named   \subseteq Dirs
    /\ gen     \in [Dirs -> 0 .. MaxRestores]
    /\ task    \in {"none", "boot", "stage", "commit", "undo"}
    /\ at      \in Dirs
    /\ drop    \subseteq Dirs
    /\ round   \in 0 .. MaxRestores
    /\ result  \in {"none", "ok", "stage_failed", "commit_failed"}

\* At no point, crashed or not, is the content lost that was last put in
\* place: it is in the destination, or where the next recovery takes it from.
NothingLost ==
    \A d \in Dirs :
        Content(d, gen[d]) \subseteq
            files[d]["dst"] \cup files[d]["evac"] \cup files[d]["old"]

\* Once start-up has recovered, a destination that it knows of is what it was
\* before the interrupted restore or all of what that restore brings.  It need
\* not know of an agent's: from the commit of the configuration to the saving of
\* the paths that is found under the path of the backup, and a new one not at
\* all.
WholeAfterStart ==
    pc = "idle" /\ result = "none" =>
        \A d \in named : files[d]["dst"] = Content(d, gen[d])

\* A restore that reports success has put all of its content in place, in
\* every destination, and the configuration that goes with it.
SuccessMeansNew ==
    pc = "idle" /\ result = "ok" =>
        /\ config = round
        /\ \A d \in Dirs : gen[d] = round /\ files[d]["dst"] = Content(d, round)

\* Evacuated content always has a marker beside it: without one, no recovery
\* would touch it and every later restore would be refused.
MarkedEvacuation ==
    \A d \in Dirs : "evac" \in exists[d] => marker[d] # "none" \/ marktmp[d]
=============================================================================
