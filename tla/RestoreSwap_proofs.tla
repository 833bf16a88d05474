------------------------ MODULE RestoreSwap_proofs -------------------------
(* Machine-checked proofs about RestoreSwap, for any number of destinations  *)
(* of any kind, any number of restores, crashes and failing calls: if three  *)
(* weak steps do not fail and one of them is not interrupted, nothing is     *)
(* lost, start-up leaves every destination it knows of old or new, and a     *)
(* reported success is one.                                                  *)
EXTENDS RestoreSwap, TLAPS

\* The steps that must not fail, and the one that must not be interrupted.
WeakSteps == {"rename_back", "undo_rename", "roll_back"}

\* What the theorems assume of failures and crashes.
WeakStepsGoWell == WeakSteps \subseteq Reliable /\ "roll_back" \in Unbroken

-----------------------------------------------------------------------------
(* The inductive invariant *)

\* The staged copy of d is complete.
Ready(d) == "tmp" \in exists[d] /\ files[d]["tmp"] = Content(d, round)

\* d is between the two renames.
Away(d) == "dst" \notin exists[d] /\ "old" \in exists[d]

\* No recovery has anything to do for d.
Clean(d) == marker[d] = "none" /\ ~marktmp[d] /\ ~Away(d)

\* What is not there holds nothing.
Absent ==
    \A d \in Dirs, p \in Places : p \notin exists[d] => files[d][p] = {}

\* Where the content of a destination is that is renamed.
PlainContent ==
    \A d \in Dirs \ Mounts :
        /\ marker[d] = "none" /\ ~marktmp[d] /\ "evac" \notin exists[d]
        /\ "dst" \in exists[d] => files[d]["dst"] = Content(d, gen[d])
        /\ Away(d) => files[d]["old"] = Content(d, gen[d])
        /\ "dst" \notin exists[d] /\ "old" \notin exists[d]
             => Content(d, gen[d]) = {}

\* Where the content of a mount point is, by its marker.
MountContent ==
    \A d \in Mounts :
        /\ "dst" \in exists[d] /\ "old" \notin exists[d]
        /\ marker[d] = "none" =>
             "evac" \notin exists[d] /\ files[d]["dst"] = Content(d, gen[d])
        /\ marker[d] = "evacuating_old" =>
             files[d]["dst"] \cup files[d]["evac"] = Content(d, gen[d])
        /\ marker[d] = "installing_new" =>
             \/ "evac" \in exists[d] /\ files[d]["evac"] = Content(d, gen[d])
             \/ "evac" \notin exists[d] /\ files[d]["dst"] = Content(d, gen[d])
             \/ /\ pc = "roll_back" /\ d = at
                /\ files[d]["dst"] \cup files[d]["evac"] = Content(d, gen[d])
        /\ marker[d] = "committed" => files[d]["dst"] = Content(d, gen[d])

\* A destination that start-up looks at is between the renames only while
\* somebody is about to end that.
WhenAway ==
    \A d \in Dirs : d \in named /\ Away(d) =>
        \/ pc = "down"
        \/ task = "boot" /\ (d > at \/ (d = at /\ pc = "rename_back"))
        \/ d = at /\ pc \in {"rename_in", "undo_rename"}

CommitSteps == {"prepare", "rename_in", "rename_first", "undo_rename", "discard_old"}

\* Who does which steps, and to which kind of destination.
Control ==
    /\ pc = "idle" => task # "boot"
    /\ task = "boot" => result = "none"
    /\ pc \in {"rename_back", "rm_tmp", "rm_old"} => task \in {"boot", "stage"}
    /\ pc \in {"recover", "wipe", "roll_back", "move_back"}
         => task \in {"boot", "stage", "undo"}
    /\ pc \in {"rm_evac", "rm_artifacts"} => task # "none"
    /\ pc \in {"clear_tmp", "extract", "config"} => task = "stage"
    /\ pc \in {"config", "paths"} => at = N
    /\ pc \in CommitSteps \cup Swapping \cup {"paths"} => task = "commit"
    /\ pc \in Recovery \cup Swapping => at \in Mounts
    /\ pc \in CommitSteps \ {"prepare"} => at \notin Mounts
    /\ pc = "recover" /\ task = "undo" => at \in Mounts
    /\ pc = "discard" => result \in {"stage_failed", "commit_failed"} /\ task # "boot"

\* What the process knows of the destination it is at.
Here ==
    /\ pc \in {"rm_tmp", "rm_old", "recover"} => ~Away(at)
    /\ pc \in {"clear_tmp", "extract", "config", "prepare", "paths"} => Clean(at)
    /\ pc = "paths" => gen[at] = round
    /\ pc = "extract" =>
         "tmp" \in exists[at] /\ files[at]["tmp"] \subseteq Content(at, round)
    /\ pc \in {"config", "prepare", "rename_in", "rename_first", "mark_evac", "evacuate",
               "mark_install"} => Ready(at)
    /\ pc \in {"rename_in", "undo_rename"} => Away(at)
    /\ pc = "rename_first" => "dst" \notin exists[at]
    /\ pc = "discard_old" => "dst" \in exists[at] /\ gen[at] = round
    /\ pc = "mark_evac" => marker[at] = "none"
    /\ pc \in {"evacuate", "mark_install"} => marker[at] = "evacuating_old"
    /\ pc = "mark_install" => "evac" \in exists[at] /\ files[at]["dst"] = {}
    /\ pc \in {"install", "mark_commit", "wipe", "roll_back"} => marker[at] = "installing_new"
    /\ pc \in {"install", "mark_commit", "wipe"} =>
         "evac" \in exists[at] /\ files[at]["evac"] = Content(at, gen[at])
    /\ pc = "roll_back" =>
         files[at]["dst"] \cup files[at]["evac"] = Content(at, gen[at])
    /\ pc = "mark_commit" => files[at]["dst"] = Content(at, round)
    /\ pc = "move_back" => marker[at] \in {"none", "evacuating_old"}
    /\ pc = "rm_evac" => marker[at] = "committed"
    /\ pc = "rm_artifacts" =>
         "evac" \notin exists[at] /\ files[at]["dst"] = Content(at, gen[at])
    /\ pc \in {"rm_evac", "rm_artifacts"} /\ task = "commit" => gen[at] = round

\* While new children are copied: each is whole in the destination, or staged
\* still, and torn ones are staged still.
Installing ==
    pc = "install" =>
        /\ Content(at, round) = files[at]["tmp"] \cup
                                {c \in files[at]["dst"] : c[3] = "whole"}
        /\ \A c \in files[at]["dst"] :
              c[3] = "torn" => <<c[1], c[2], "whole">> \in files[at]["tmp"]

Working == pc \notin {"down", "idle", "discard"}

\* What has been done to the destinations before, and is there for those behind.
Others ==
    /\ Working /\ task = "boot" => \A d \in Dirs : d \in named /\ d < at => Clean(d)
    /\ Working /\ task = "stage" => \A d \in Dirs : d < at => Clean(d) /\ Ready(d)
    /\ Working /\ task = "commit" =>
         /\ config = round
         /\ \A d \in Dirs : d < at => Clean(d) /\ gen[d] = round
         /\ \A d \in Dirs : d > at => Clean(d) /\ Ready(d)

\* What is known when the process has come to an end.
AtRest ==
    /\ pc = "idle" /\ result = "none" => \A d \in Dirs : d \in named => Clean(d)
    /\ pc = "idle" /\ result = "ok" =>
         config = round /\ \A d \in Dirs : Clean(d) /\ gen[d] = round

IInv ==
    /\ TypeOK /\ Absent /\ PlainContent /\ MountContent /\ WhenAway
    /\ Control /\ Here /\ Installing /\ Others /\ AtRest

-----------------------------------------------------------------------------
(* Initially, and calls of the file system *)

LEMMA InitInvariant == Init => IInv
<1> SUFFICES ASSUME Init PROVE IInv
    OBVIOUS
<1>1. \A d \in Dirs : Content(d, 0) \subseteq Child
    BY RestoreConstants DEF Content, Child
<1>2. TypeOK
    BY <1>1, RestoreConstants DEF Init, TypeOK, Places, States, Dirs
<1>3. Absent /\ PlainContent /\ MountContent
    BY RestoreConstants DEF Init, Absent, PlainContent, MountContent, Places, Away, Content
<1>4. WhenAway /\ Control /\ Here /\ Installing /\ Others /\ AtRest
    BY DEF Init, WhenAway, Control, Here, Installing, Others, AtRest, Away, Clean,
           Working, CommitSteps, Recovery, Swapping
<1> QED
    BY <1>2, <1>3, <1>4 DEF IInv

\* What a step of rmtree does.
LEMMA RemoveEffect ==
    ASSUME TypeOK, Absent, NEW d \in Dirs, NEW p \in Places, RemoveStep(d, p)
    PROVE  /\ exists' \in [Dirs -> SUBSET Places]
           /\ files' \in [Dirs -> [Places -> SUBSET Child]]
           /\ \A e \in Dirs, q \in Places : e # d \/ q # p =>
                files'[e][q] = files[e][q] /\ (q \in exists'[e] <=> q \in exists[e])
           /\ files'[d][p] \subseteq files[d][p]
           /\ p \in exists[d]
           /\ p \notin exists'[d] => files'[d][p] = {} /\ files[d][p] = {}
           /\ Absent'
           /\ UNCHANGED <<marker, marktmp, config, named, gen>>
<1>1. ASSUME NEW c \in files[d][p], files' = [files EXCEPT ![d][p] = @ \ {c}],
             UNCHANGED exists
      PROVE  /\ files' \in [Dirs -> [Places -> SUBSET Child]]
             /\ \A e \in Dirs, q \in Places : e # d \/ q # p =>
                  files'[e][q] = files[e][q] /\ (q \in exists'[e] <=> q \in exists[e])
             /\ files'[d][p] \subseteq files[d][p]
             /\ Absent'
    BY <1>1 DEF TypeOK, Absent
<1>2. ASSUME files[d][p] = {}, exists' = [exists EXCEPT ![d] = @ \ {p}], UNCHANGED files
      PROVE  /\ exists' \in [Dirs -> SUBSET Places]
             /\ \A e \in Dirs, q \in Places : e # d \/ q # p =>
                  files'[e][q] = files[e][q] /\ (q \in exists'[e] <=> q \in exists[e])
             /\ Absent'
    BY <1>2 DEF TypeOK, Absent
<1> QED
    BY <1>1, <1>2 DEF TypeOK, RemoveStep

\* What a rename does.
LEMMA RenameEffect ==
    ASSUME TypeOK, Absent, NEW d \in Dirs, NEW p \in Places, NEW q \in Places,
           p # q, Renamed(d, p, q), p \in exists[d]
    PROVE  /\ exists' \in [Dirs -> SUBSET Places]
           /\ files' \in [Dirs -> [Places -> SUBSET Child]]
           /\ \A e \in Dirs, r \in Places : e # d \/ (r # p /\ r # q) =>
                files'[e][r] = files[e][r] /\ (r \in exists'[e] <=> r \in exists[e])
           /\ files'[d][q] = files[d][p] /\ files'[d][p] = {}
           /\ p \notin exists'[d] /\ q \in exists'[d]
           /\ Absent'
           /\ UNCHANGED <<marker, marktmp, config, named>>
  BY DEF TypeOK, Absent, Renamed

\* What the move of a child does.
LEMMA MoveEffect ==
    ASSUME TypeOK, Absent, NEW d \in Dirs, NEW p \in Places, NEW q \in Places,
           p # q, MoveChild(d, p, q), q \in exists[d]
    PROVE  /\ files' \in [Dirs -> [Places -> SUBSET Child]]
           /\ \A e \in Dirs, r \in Places : e # d \/ (r # p /\ r # q) =>
                files'[e][r] = files[e][r]
           /\ files'[d][p] \cup files'[d][q] = files[d][p] \cup files[d][q]
           /\ files'[d][p] \subseteq files[d][p]
           /\ Absent'
           /\ UNCHANGED <<exists, marker, marktmp, config, named, gen>>
<1> PICK c \in files[d][p] :
       files' = [files EXCEPT ![d][p] = @ \ {c}, ![d][q] = @ \cup {c}]
    BY DEF MoveChild
<1>1. /\ files' \in [Dirs -> [Places -> SUBSET Child]]
      /\ \A e \in Dirs, r \in Places : e # d \/ (r # p /\ r # q) =>
           files'[e][r] = files[e][r]
      /\ files'[d][p] = files[d][p] \ {c}
      /\ files'[d][q] = files[d][q] \cup {c}
    BY DEF TypeOK
<1>2. UNCHANGED <<exists, marker, marktmp, config, named, gen>>
    BY DEF MoveChild
<1>3. Absent'
    BY <1>1, <1>2 DEF Absent
<1> QED
    BY <1>1, <1>2, <1>3

-----------------------------------------------------------------------------
(* Control *)

\* A step that only moves the process on keeps what is said of the disk.
LEMMA DiskKept ==
    ASSUME IInv, UNCHANGED disk,
           pc = "roll_back" => "evac" \notin exists[at] \/ UNCHANGED <<pc, at>>
    PROVE  Absent' /\ PlainContent' /\ MountContent'
<1>1. UNCHANGED <<exists, files, marker, marktmp, gen>>
    BY DEF disk
<1>2. Absent' /\ PlainContent'
    BY <1>1 DEF IInv, Absent, PlainContent, Away
<1>3. ASSUME NEW d \in Mounts, marker[d] = "installing_new",
             pc = "roll_back", d = at, "evac" \notin exists[d],
             files[d]["dst"] \cup files[d]["evac"] = Content(d, gen[d])
      PROVE  files[d]["dst"] = Content(d, gen[d])
    BY <1>3, RestoreConstants DEF IInv, Absent, Places
<1>4. MountContent'
    BY <1>1, <1>3 DEF IInv, MountContent
<1> QED
    BY <1>2, <1>4

\* Giving up is safe when no destination is between the renames.
LEMMA GiveUpStep ==
    ASSUME IInv, NEW S \in SUBSET Dirs, NEW why \in {"stage_failed", "commit_failed"},
           GiveUp(S, why), UNCHANGED <<config, named, round>>, task # "boot",
           \A d \in Dirs : d \in named => ~Away(d)'
    PROVE  /\ WhenAway' /\ Control' /\ Here' /\ Installing' /\ Others' /\ AtRest'
           /\ at' \in Dirs /\ drop' \subseteq Dirs /\ result' = why /\ task' = task
<1>1. pc' = "discard" /\ result' = why /\ task' = task /\ at' = at /\ drop' = S
    BY DEF GiveUp
<1>2. WhenAway' /\ Here' /\ Installing' /\ Others' /\ AtRest'
    BY <1>1 DEF WhenAway, Here, Installing, Others, AtRest, Working
<1>3. Control'
    BY <1>1 DEF Control, CommitSteps, Recovery, Swapping
<1> QED
    BY <1>1, <1>2, <1>3 DEF IInv, TypeOK

LEMMA BeginRestoreStep == IInv /\ BeginRestore => IInv'
<1> SUFFICES ASSUME IInv, BeginRestore PROVE IInv'
    OBVIOUS
<1> USE RestoreConstants DEF IInv, BeginRestore
<1>1. TypeOK'
    BY DEF TypeOK, Dirs, disk
<1>2. Absent' /\ PlainContent' /\ MountContent'
    BY DiskKept
<1>3. WhenAway'
    BY DEF WhenAway, Away, Control, disk
<1>4. Control' /\ Here' /\ Installing' /\ AtRest'
    BY DEF Control, Here, Installing, AtRest, CommitSteps, Recovery, Swapping
<1>5. Others'
  <2>1. \A d \in Dirs : ~ (d < at')
    BY DEF Dirs
  <2> QED
    BY <2>1 DEF Others
<1> QED
    BY <1>1, <1>2, <1>3, <1>4, <1>5

LEMMA StartStep == IInv /\ Start => IInv'
<1> SUFFICES ASSUME IInv, Start PROVE IInv'
    OBVIOUS
<1> USE RestoreConstants DEF IInv, Start
<1>1. TypeOK'
    BY DEF TypeOK, Dirs, disk, count
<1>2. Absent' /\ PlainContent' /\ MountContent'
    BY DiskKept
<1>3. WhenAway'
    BY DEF WhenAway, Dirs
<1>4. Control' /\ Here' /\ Installing' /\ AtRest'
    BY DEF Control, Here, Installing, AtRest, CommitSteps, Recovery, Swapping
<1>5. Others'
  <2>1. \A d \in Dirs : ~ (d < at')
    BY DEF Dirs
  <2> QED
    BY <2>1 DEF Others
<1> QED
    BY <1>1, <1>2, <1>3, <1>4, <1>5

LEMMA CrashStep == IInv /\ Crash /\ WeakStepsGoWell => IInv'
<1> SUFFICES ASSUME IInv, Crash, WeakStepsGoWell PROVE IInv'
    OBVIOUS
<1>1. /\ pc # "roll_back" /\ pc' = "down"
      /\ UNCHANGED disk /\ UNCHANGED <<task, at, drop, round, result>>
    BY DEF Crash, WeakStepsGoWell
<1>2. TypeOK'
    BY <1>1 DEF IInv, TypeOK, disk
<1>3. Absent' /\ PlainContent' /\ MountContent'
    BY <1>1, DiskKept
<1>4. WhenAway' /\ Here' /\ Installing' /\ Others' /\ AtRest'
    BY <1>1 DEF WhenAway, Here, Installing, Others, AtRest, Working
<1>5. Control'
    BY <1>1 DEF IInv, Control, CommitSteps, Recovery, Swapping
<1> QED
    BY <1>2, <1>3, <1>4, <1>5 DEF IInv

LEMMA RecreateStep == ASSUME IInv, NEW d \in Dirs, Recreate(d) PROVE IInv'
<1> USE RestoreConstants DEF IInv, Recreate, Stay
<1>1. d \notin Mounts
    BY DEF MountContent
<1>2. files[d]["dst"] = {} /\ Content(d, gen[d]) = {}
    BY <1>1 DEF Absent, Places, PlainContent, WhenAway, Control, Away
<1>3. TypeOK' /\ Absent'
    BY DEF TypeOK, Absent, Places, count
<1>4. PlainContent'
    BY <1>2 DEF TypeOK, PlainContent, Away
<1>5. MountContent'
    BY <1>1 DEF TypeOK, MountContent
<1>6. WhenAway' /\ AtRest'
    BY DEF TypeOK, WhenAway, AtRest, Away, Clean, count
<1>7. Control' /\ Here' /\ Installing' /\ Others'
    BY DEF Control, Here, Installing, Others, Working, CommitSteps, Recovery, Swapping
<1> QED
    BY <1>3, <1>4, <1>5, <1>6, <1>7

\* The recovery of the destination the process is at has come to an end.
LEMMA RecoveredStep ==
    ASSUME IInv, Recovered, UNCHANGED <<exists, files, gen, config, named, count>>,
           pc \in {"recover", "rm_artifacts"},
           NEW h \in Dirs, h = at, Clean(h)',
           \A d \in Dirs : d # h => UNCHANGED <<marker[d], marktmp[d]>>
    PROVE  /\ WhenAway' /\ Control' /\ Here' /\ Installing' /\ Others' /\ AtRest'
           /\ task' \in {"none", "boot", "stage", "undo"}
           /\ at' \in Dirs /\ drop' \subseteq Dirs
           /\ result' \in {"none", "ok", "stage_failed", "commit_failed"}
<1> USE RestoreConstants DEF IInv
<1>1. /\ UNCHANGED <<round, config, named, gen, exists, files>>
      /\ at \in Dirs /\ N \in Nat /\ \A d \in Dirs : d \in Nat /\ d <= N
    BY DEF count, TypeOK, Dirs
<1>2. \A d \in Dirs : (Away(d)' <=> Away(d)) /\ (Ready(d)' <=> Ready(d))
    BY <1>1 DEF Away, Ready
<1>3. \A d \in Dirs : d # h /\ Clean(d) => Clean(d)'
    BY <1>1 DEF Clean, Away
<1>4. ~Away(h) /\ ~Away(h)'
    BY <1>1 DEF Clean, Away
<1>5. CASE task = "boot" /\ at < N
  <2>1. pc' = "rename_back" /\ at' = at + 1 /\ at + 1 \in Dirs /\ UNCHANGED <<task, drop, result>>
    BY <1>5, <1>1 DEF Recovered, Dirs
  <2>2. WhenAway'
    BY <1>5, <2>1, <1>1, <1>4 DEF WhenAway, Away
  <2>3. Others'
    <3>1. \A d \in Dirs : d < at + 1 => d < at \/ d = at
      BY <1>1
    <3> QED
      BY <1>5, <2>1, <3>1, <1>1 DEF Others, Working, Clean, Away
  <2>4. Control' /\ Here' /\ Installing' /\ AtRest'
    BY <1>5, <2>1 DEF Control, Here, Installing, AtRest, CommitSteps, Recovery, Swapping
  <2> QED
    BY <1>5, <2>1, <2>2, <2>3, <2>4 DEF TypeOK
<1>6. CASE task = "boot" /\ at = N
  <2>1. pc' = "idle" /\ task' = "none" /\ UNCHANGED <<at, drop, result>>
    BY <1>6, <1>1 DEF Recovered
  <2>2. result = "none" => \A d \in Dirs : d \in named => Clean(d)'
    BY <1>6, <1>1 DEF Others, Working, Clean, Away
  <2>3. \A d \in Dirs : d \in named => ~Away(d)'
    BY <1>6, <1>1, <1>4 DEF WhenAway, Away
  <2>4. WhenAway' /\ Control' /\ Here' /\ Installing' /\ Others'
    BY <2>1, <2>3 DEF WhenAway, Control, Here, Installing, Others, Working, CommitSteps,
       Recovery, Swapping
  <2>5. AtRest'
    BY <2>1, <2>2, <1>6 DEF AtRest, Control
  <2> QED
    BY <2>1, <2>4, <2>5 DEF TypeOK
<1>7. CASE task = "stage"
  <2>1. pc' = "clear_tmp" /\ UNCHANGED <<task, at, drop, result>>
    BY <1>7 DEF Recovered
  <2>2. WhenAway'
    BY <1>7, <2>1, <1>1 DEF WhenAway, Away
  <2>3. Others'
    BY <1>7, <2>1, <1>1 DEF Others, Working, Clean, Ready, Away
  <2>4. Control' /\ Here' /\ Installing' /\ AtRest'
    BY <1>7, <2>1 DEF Control, Here, Installing, AtRest, CommitSteps, Recovery, Swapping
  <2> QED
    BY <1>7, <2>1, <2>2, <2>3, <2>4 DEF TypeOK
<1>8. CASE task = "undo"
  <2>1. GiveUp(at .. N, "commit_failed") /\ at .. N \in SUBSET Dirs
    BY <1>8, <1>1 DEF Recovered, Dirs
  <2>2. \A d \in Dirs : d \in named => ~Away(d)'
    BY <1>8, <1>1 DEF WhenAway, Away
  <2> QED
    BY <1>8, <1>1, <2>1, <2>2, GiveUpStep
<1> QED
    BY <1>5, <1>6, <1>7, <1>8 DEF Recovered

\* The commit of the destination the process is at has come to an end.
LEMMA NextCommitStep ==
    ASSUME IInv, NextCommit, UNCHANGED <<exists, files, gen, config, named>>,
           pc \in {"discard_old", "rm_artifacts"}, task = "commit",
           NEW h \in Dirs, h = at, Clean(h)',
           \A d \in Dirs : d # h => UNCHANGED <<marker[d], marktmp[d]>>,
           gen[at] = round
    PROVE  /\ WhenAway' /\ Control' /\ Here' /\ Installing' /\ Others' /\ AtRest'
           /\ task' = "commit" /\ at' \in Dirs /\ drop' = drop
           /\ result' \in {"none", "ok", "stage_failed", "commit_failed"}
<1> USE RestoreConstants DEF IInv
<1>1. /\ UNCHANGED <<round, config, named, gen, exists, files>>
      /\ at \in Dirs /\ N \in Nat /\ \A d \in Dirs : d \in Nat /\ d <= N
    BY DEF NextCommit, Goto, count, TypeOK, Dirs
<1>2. \A d \in Dirs : (Away(d)' <=> Away(d)) /\ (Ready(d)' <=> Ready(d))
    BY <1>1 DEF Away, Ready
<1>3. \A d \in Dirs : d # h /\ Clean(d) => Clean(d)'
    BY <1>1 DEF Clean, Away
<1>4. \A d \in Dirs : d \in named => ~Away(d)'
    BY <1>1 DEF Clean, WhenAway, Away
<1>5. CASE at < N
  <2>1. pc' = "prepare" /\ at' = at + 1 /\ at + 1 \in Dirs /\ UNCHANGED <<task, drop, result>>
    BY <1>5, <1>1 DEF NextCommit, Dirs
  <2>2. Others'
    <3>1. \A d \in Dirs : d < at + 1 => d < at \/ d = at
      BY <1>1
    <3>2. \A d \in Dirs : d > at + 1 => d > at /\ d # at
      BY <1>1
    <3> QED
      BY <2>1, <3>1, <3>2, <1>1 DEF Others, Working, Clean, Ready, Away
  <2>3. Here'
    <3>1. at + 1 > at /\ at + 1 # h
      BY <1>1
    <3>2. Clean(at + 1) /\ Ready(at + 1)
      BY <2>1, <3>1 DEF Others, Working
    <3> QED
      BY <2>1, <3>1, <3>2, <1>1 DEF Here, Clean, Ready, Away
  <2>4. WhenAway' /\ Control' /\ Installing' /\ AtRest'
    BY <2>1, <1>4 DEF WhenAway, Control, Installing, AtRest, CommitSteps, Recovery, Swapping
  <2> QED
    BY <2>1, <2>2, <2>3, <2>4 DEF TypeOK
<1>6. CASE ~(at < N)
  <2>1. pc' = "paths" /\ at = N /\ UNCHANGED <<task, at, drop, result>>
    BY <1>6, <1>1 DEF NextCommit, Goto
  <2>2. WhenAway' /\ Control' /\ Here' /\ Installing' /\ AtRest'
    BY <2>1, <1>1, <1>4 DEF WhenAway, Control, Here, Installing, AtRest, Clean, Away,
       CommitSteps, Recovery, Swapping
  <2>3. Others'
    BY <2>1, <1>1, <1>3, <1>4 DEF Others, Working, Clean, Ready, Away
  <2> QED
    BY <2>1, <2>2, <2>3 DEF TypeOK
<1> QED
    BY <1>5, <1>6

-----------------------------------------------------------------------------
(* Staging *)

\* Removing a staged copy disturbs nothing as long as nobody counts on it.
LEMMA RemoveTmpStep ==
    ASSUME IInv, NEW d \in Dirs, RemoveStep(d, "tmp"),
           UNCHANGED <<pc, task, at, result, count>>, drop' = drop,
           pc = "discard" \/ (d = at /\ pc \in {"clear_tmp", "rm_tmp", "rm_artifacts"})
    PROVE  IInv'
<1> USE RestoreConstants DEF IInv
<1>1. "tmp" \in Places /\ "dst" \in Places /\ "old" \in Places /\ "evac" \in Places
    BY DEF Places
<1>2. /\ exists' \in [Dirs -> SUBSET Places]
      /\ files' \in [Dirs -> [Places -> SUBSET Child]]
      /\ \A e \in Dirs, q \in Places : e # d \/ q # "tmp" =>
           files'[e][q] = files[e][q] /\ (q \in exists'[e] <=> q \in exists[e])
      /\ Absent'
      /\ UNCHANGED <<marker, marktmp, config, named, gen>>
    BY <1>1, RemoveEffect
<1>3. UNCHANGED <<round, crashes, failures>>
    BY DEF count
<1>4. \A e \in Dirs : /\ "dst" \in exists'[e] <=> "dst" \in exists[e]
                      /\ "old" \in exists'[e] <=> "old" \in exists[e]
                      /\ "evac" \in exists'[e] <=> "evac" \in exists[e]
                      /\ files'[e]["dst"] = files[e]["dst"]
                      /\ files'[e]["old"] = files[e]["old"]
                      /\ files'[e]["evac"] = files[e]["evac"]
                      /\ e # d => files'[e]["tmp"] = files[e]["tmp"]
                                  /\ ("tmp" \in exists'[e] <=> "tmp" \in exists[e])
    BY <1>1, <1>2
<1>5. TypeOK'
    BY <1>2, <1>3 DEF TypeOK
<1>6. PlainContent'
    BY <1>2, <1>4 DEF PlainContent, Away
<1>7. MountContent'
    BY <1>2, <1>4 DEF MountContent
<1>8. WhenAway'
    BY <1>2, <1>4 DEF WhenAway, Away
<1>9. Control' /\ Installing'
    BY DEF Control, Installing
<1>10. Here'
    BY <1>2, <1>3, <1>4 DEF TypeOK, Here, Clean, Ready, Away
<1>11. Others' /\ AtRest'
    BY <1>2, <1>3, <1>4 DEF TypeOK, Dirs, Others, AtRest, Working, Clean, Ready, Away, Control
<1> QED
    BY <1>2, <1>5, <1>6, <1>7, <1>8, <1>9, <1>10, <1>11

LEMMA ClearTmpStep == IInv /\ ClearTmp => IInv'
<1> SUFFICES ASSUME IInv, ClearTmp PROVE IInv'
    OBVIOUS
<1> USE RestoreConstants DEF IInv
<1>1. CASE RemoveStep(at, "tmp") /\ Stay
    BY <1>1, RemoveTmpStep DEF ClearTmp, Stay, TypeOK
<1>2. ASSUME exists' = [exists EXCEPT ![at] = @ \cup {"tmp"}],
             UNCHANGED <<files, marker, marktmp, config, named, gen>>, Goto("extract"),
             "tmp" \notin exists[at]
      PROVE  IInv'
  <2>1. /\ exists' \in [Dirs -> SUBSET Places] /\ at \in Dirs
        /\ "tmp" \in exists'[at] /\ files[at]["tmp"] = {}
        /\ \A d \in Dirs : /\ "dst" \in exists'[d] <=> "dst" \in exists[d]
                           /\ "old" \in exists'[d] <=> "old" \in exists[d]
                           /\ "evac" \in exists'[d] <=> "evac" \in exists[d]
                           /\ "tmp" \in exists[d] => "tmp" \in exists'[d]
    BY <1>2 DEF TypeOK, Places, Absent
  <2>2. UNCHANGED <<task, at, drop, result, round, crashes, failures>> /\ pc' = "extract"
    BY <1>2 DEF Goto, count
  <2>3. pc = "clear_tmp"
    BY DEF ClearTmp
  <2>4. TypeOK' /\ Absent'
    BY <1>2, <2>1, <2>2 DEF TypeOK, Absent, Places
  <2>5. PlainContent' /\ MountContent'
    BY <1>2, <2>1, <2>2, <2>3 DEF PlainContent, MountContent, Away
  <2>6. WhenAway' /\ AtRest'
    BY <1>2, <2>1, <2>2, <2>3 DEF WhenAway, AtRest, Away
  <2>7. Control' /\ Installing'
    BY <2>2, <2>3 DEF Control, Installing, CommitSteps, Recovery, Swapping
  <2>8. Here'
    BY <1>2, <2>1, <2>2, <2>3 DEF Here, Clean, Away
  <2>9. Others'
    BY <1>2, <2>1, <2>2, <2>3 DEF Others, Working, Clean, Ready, Away, Control
  <2> QED
    BY <2>4, <2>5, <2>6, <2>7, <2>8, <2>9
<1> QED
    BY <1>1, <1>2 DEF ClearTmp

LEMMA ExtractStep == IInv /\ Extract => IInv'
<1> SUFFICES ASSUME IInv, Extract PROVE IInv'
    OBVIOUS
<1> USE RestoreConstants DEF IInv
<1>1. PICK c \in Content(at, round) : files' = [files EXCEPT ![at]["tmp"] = @ \cup {c}]
    BY DEF Extract
<1>2. /\ pc = "extract" /\ UNCHANGED <<exists, marker, marktmp, config, named, gen>>
      /\ UNCHANGED <<pc, task, at, drop, result, round, crashes, failures>>
    BY DEF Extract, Stay, count
<1>3. at \in Dirs /\ c \in Child /\ "tmp" \in exists[at]
    BY <1>2 DEF TypeOK, Content, Child, Here
<1>4. /\ files' \in [Dirs -> [Places -> SUBSET Child]]
      /\ files'[at]["tmp"] = files[at]["tmp"] \cup {c}
      /\ \A d \in Dirs : /\ files'[d]["dst"] = files[d]["dst"]
                         /\ files'[d]["old"] = files[d]["old"]
                         /\ files'[d]["evac"] = files[d]["evac"]
                         /\ d # at => files'[d]["tmp"] = files[d]["tmp"]
    BY <1>1, <1>3 DEF TypeOK, Places
<1>5. TypeOK' /\ Absent'
    BY <1>2, <1>3, <1>4 DEF TypeOK, Absent, Places
<1>6. PlainContent' /\ MountContent'
    BY <1>2, <1>4 DEF PlainContent, MountContent, Away
<1>7. WhenAway' /\ AtRest' /\ Control' /\ Installing'
    BY <1>2, <1>4 DEF WhenAway, AtRest, Away, Control, Installing, CommitSteps, Recovery,
       Swapping
<1>8. Here'
    BY <1>2, <1>3, <1>4 DEF Here, Clean, Away
<1>9. Others'
    BY <1>2, <1>4 DEF TypeOK, Dirs, Others, Working, Clean, Ready, Away, Control
<1> QED
    BY <1>5, <1>6, <1>7, <1>8, <1>9

LEMMA StagedStep == IInv /\ Staged => IInv'
<1> SUFFICES ASSUME IInv, Staged PROVE IInv'
    OBVIOUS
<1> USE RestoreConstants DEF IInv
<1>1. /\ pc = "extract" /\ task = "stage" /\ UNCHANGED disk
      /\ UNCHANGED <<drop, result, round, crashes, failures, task>>
      /\ files[at]["tmp"] = Content(at, round)
    BY DEF Staged, count, Control
<1>2. at \in Dirs /\ N \in Nat /\ (\A d \in Dirs : d \in Nat /\ d <= N)
      /\ Clean(at) /\ Ready(at)
    BY <1>1 DEF TypeOK, Dirs, Here, Ready
<1>3. /\ at < N => pc' = "rename_back" /\ at' = at + 1 /\ at + 1 \in Dirs
      /\ ~(at < N) => pc' = "config" /\ at' = at /\ at = N
    BY <1>2 DEF Staged, Dirs
<1>4. TypeOK'
    BY <1>1, <1>2, <1>3 DEF TypeOK, disk
<1>5. Absent' /\ PlainContent' /\ MountContent'
    BY <1>1, DiskKept
<1>6. WhenAway' /\ AtRest' /\ Control' /\ Installing'
    BY <1>1, <1>2, <1>3 DEF disk, WhenAway, AtRest, Away, Control, Installing, CommitSteps,
       Recovery, Swapping
<1>7. Here'
    BY <1>1, <1>2, <1>3 DEF disk, Here, Clean, Ready, Away
<1>8. Others'
  <2>1. \A d \in Dirs : d < at + 1 => d < at \/ d = at
    BY <1>2
  <2> QED
    BY <1>1, <1>2, <1>3, <2>1 DEF disk, Others, Working, Clean, Ready, Away
<1> QED
    BY <1>4, <1>5, <1>6, <1>7, <1>8

-----------------------------------------------------------------------------
(* Commit of a directory that can be renamed *)

LEMMA CommitConfigStep == IInv /\ CommitConfig => IInv'
<1> SUFFICES ASSUME IInv, CommitConfig PROVE IInv'
    OBVIOUS
<1> USE RestoreConstants DEF IInv
<1>1. /\ pc = "config" /\ task = "stage" /\ at = N
      /\ pc' = "prepare" /\ task' = "commit" /\ at' = 1 /\ config' = round
      /\ named' = Known
      /\ UNCHANGED <<exists, files, marker, marktmp, gen, drop, result>>
      /\ UNCHANGED <<round, crashes, failures>>
    BY DEF CommitConfig, Control, count
<1>2. /\ 1 \in Dirs /\ N \in Dirs /\ (\A d \in Dirs : d \in Nat /\ 1 <= d /\ d <= N)
      /\ \A d \in Dirs : d < N \/ d = N
    BY DEF Dirs
<1>3. \A d \in Dirs : Clean(d) /\ Ready(d)
    BY <1>1, <1>2 DEF Here, Others, Working
<1>4. TypeOK'
    BY <1>1, <1>2 DEF TypeOK
<1>5. Absent' /\ PlainContent' /\ MountContent'
    BY <1>1 DEF Absent, PlainContent, MountContent, Away
<1>6. WhenAway' /\ AtRest' /\ Control' /\ Installing'
    BY <1>1, <1>3 DEF WhenAway, AtRest, Away, Clean, Control, Installing, CommitSteps,
       Recovery, Swapping
<1>7. Here' /\ Others'
    BY <1>1, <1>2, <1>3 DEF Here, Others, Working, Clean, Ready, Away
<1> QED
    BY <1>4, <1>5, <1>6, <1>7

LEMMA PrepareStep == IInv /\ Prepare => IInv'
<1> SUFFICES ASSUME IInv, Prepare PROVE IInv'
    OBVIOUS
<1> USE RestoreConstants DEF IInv
<1>1. /\ pc = "prepare" /\ task = "commit" /\ at \in Dirs
      /\ Clean(at) /\ Ready(at)
      /\ \A d \in Dirs : d \in named => ~Away(d)
    BY DEF Prepare, Control, CommitSteps, TypeOK, Here, WhenAway
<1>2. ASSUME UNCHANGED disk,
             \/ "dst" \notin exists[at] /\ Goto("rename_first")
             \/ at \in Mounts /\ Goto("mark_evac")
      PROVE  IInv'
  <2>1. UNCHANGED <<task, at, drop, result, round, crashes, failures>>
    BY <1>2 DEF Goto, count
  <2>2. /\ pc' \in {"rename_first", "mark_evac"}
        /\ pc' = "rename_first" => "dst" \notin exists[at] /\ at \notin Mounts
        /\ pc' = "mark_evac" => at \in Mounts
    BY <1>2 DEF Goto, MountContent
  <2>3. TypeOK'
    BY <1>2, <2>1 DEF TypeOK, disk
  <2>4. Absent' /\ PlainContent' /\ MountContent'
    BY <1>1, <1>2, DiskKept
  <2>5. WhenAway' /\ AtRest' /\ Control' /\ Installing'
    BY <1>1, <1>2, <2>1, <2>2 DEF disk, WhenAway, AtRest, Away, Control, Installing,
       CommitSteps, Recovery, Swapping
  <2>6. Here'
    BY <1>1, <1>2, <2>1, <2>2 DEF disk, Here, Clean, Ready, Away
  <2>7. Others'
    BY <1>1, <1>2, <2>1, <2>2 DEF disk, Others, Working, Clean, Ready, Away
  <2> QED
    BY <2>3, <2>4, <2>5, <2>6, <2>7
<1>3. ASSUME at \in Mounts
      PROVE  "evac" \notin exists[at]
    BY <1>1, <1>3 DEF MountContent, Clean
<1>4. ASSUME at \notin Mounts, "dst" \in exists[at],
             Renamed(at, "dst", "old"), UNCHANGED gen, Goto("rename_in")
      PROVE  IInv'
  <2>1. pc' = "rename_in" /\ UNCHANGED <<task, at, drop, result, round, crashes, failures>>
    BY <1>4 DEF Goto, count
  <2>2. /\ exists' \in [Dirs -> SUBSET Places]
        /\ files' \in [Dirs -> [Places -> SUBSET Child]]
        /\ \A e \in Dirs, r \in Places : e # at \/ (r # "dst" /\ r # "old") =>
             files'[e][r] = files[e][r] /\ (r \in exists'[e] <=> r \in exists[e])
        /\ files'[at]["old"] = files[at]["dst"]
        /\ "dst" \notin exists'[at] /\ "old" \in exists'[at]
        /\ Absent' /\ UNCHANGED <<marker, marktmp, config, named>>
    BY <1>1, <1>4, RenameEffect DEF Places
  <2>3. TypeOK'
    BY <1>4, <2>1, <2>2 DEF TypeOK
  <2>4. PlainContent' /\ MountContent'
    <3>1. PlainContent'
      BY ZenonT(60), <1>1, <1>4, <2>1, <2>2 DEF PlainContent, Away, Places
    <3>2. MountContent'
      BY <1>1, <1>4, <2>1, <2>2 DEF MountContent, Places
    <3> QED
      BY <3>1, <3>2
  <2>5. WhenAway' /\ AtRest' /\ Control' /\ Installing'
    BY <1>1, <1>4, <2>1, <2>2 DEF WhenAway, AtRest, Away, Control, Installing, CommitSteps,
       Recovery, Swapping, Places
  <2>6. Here'
    BY <1>1, <2>1, <2>2 DEF Here, Clean, Ready, Away, Places
  <2>7. Others'
    BY <1>1, <1>4, <2>1, <2>2 DEF TypeOK, Dirs, Others, Working, Clean, Ready, Away, Places
  <2> QED
    BY <2>2, <2>3, <2>4, <2>5, <2>6, <2>7
<1>5. ASSUME UNCHANGED <<disk, count>>, GiveUp(at .. N, "commit_failed")
      PROVE  IInv'
  <2>1. at .. N \in SUBSET Dirs /\ UNCHANGED disk /\ UNCHANGED <<config, named, round, exists>>
    BY <1>1, <1>5 DEF Dirs, disk, count
  <2>2. \A d \in Dirs : d \in named => ~Away(d)'
    BY <1>1, <2>1 DEF Away
  <2>3. /\ WhenAway' /\ Control' /\ Here' /\ Installing' /\ Others' /\ AtRest'
        /\ at' \in Dirs /\ drop' \subseteq Dirs /\ result' = "commit_failed" /\ task' = task
    BY <1>1, <1>5, <2>1, <2>2, GiveUpStep
  <2>4. Absent' /\ PlainContent' /\ MountContent'
    BY <1>1, <2>1, DiskKept
  <2>5. TypeOK'
    BY <1>5, <2>1, <2>3 DEF TypeOK, disk, count
  <2> QED
    BY <2>3, <2>4, <2>5
<1> QED
    BY <1>2, <1>3, <1>4, <1>5 DEF Prepare

LEMMA RenameInStep == IInv /\ RenameIn => IInv'
<1> SUFFICES ASSUME IInv, RenameIn PROVE IInv'
    OBVIOUS
<1> USE RestoreConstants DEF IInv
<1>1. /\ pc \in {"rename_in", "rename_first"} /\ task = "commit" /\ at \in Dirs
      /\ at \notin Mounts /\ Ready(at) /\ round \in 0 .. MaxRestores
      /\ \A d \in Dirs : d \in named /\ d # at => ~Away(d)
    BY DEF RenameIn, Control, CommitSteps, TypeOK, Here, WhenAway
<1>2. pc' = "discard_old" /\ UNCHANGED <<task, at, drop, result, round, crashes, failures>>
    BY DEF RenameIn, Goto, count
<1>3. /\ exists' \in [Dirs -> SUBSET Places]
      /\ files' \in [Dirs -> [Places -> SUBSET Child]]
      /\ \A e \in Dirs, r \in Places : e # at \/ (r # "tmp" /\ r # "dst") =>
           files'[e][r] = files[e][r] /\ (r \in exists'[e] <=> r \in exists[e])
      /\ files'[at]["dst"] = Content(at, round)
      /\ "dst" \in exists'[at]
      /\ Absent' /\ UNCHANGED <<marker, marktmp, config, named>>
    BY <1>1, RenameEffect DEF RenameIn, Ready, Places
<1>4. /\ gen' \in [Dirs -> 0 .. MaxRestores] /\ gen'[at] = round
      /\ \A d \in Dirs : d # at => gen'[d] = gen[d]
    BY <1>1 DEF RenameIn, TypeOK
<1>5. TypeOK'
    BY <1>2, <1>3, <1>4 DEF TypeOK
<1>6. PlainContent' /\ MountContent'
  <2>1. \A d \in Dirs : d # at => Content(d, gen'[d]) = Content(d, gen[d])
    BY <1>4
  <2>2. Content(at, gen'[at]) = Content(at, round)
    BY <1>4
  <2>3. PlainContent'
    BY ZenonT(60), <1>1, <1>3, <2>1, <2>2 DEF PlainContent, Away, Places
  <2>4. MountContent'
    BY <1>1, <1>2, <1>3, <2>1 DEF MountContent, Places
  <2> QED
    BY <2>3, <2>4
<1>7. WhenAway' /\ AtRest' /\ Control' /\ Installing'
    BY <1>1, <1>2, <1>3 DEF WhenAway, AtRest, Away, Control, Installing, CommitSteps,
       Recovery, Swapping, Places
<1>8. Here'
    BY <1>1, <1>2, <1>3, <1>4 DEF Here
<1>9. Others'
    BY <1>1, <1>2, <1>3, <1>4 DEF TypeOK, Dirs, Others, Working, Clean, Ready, Away, Places
<1> QED
    BY <1>3, <1>5, <1>6, <1>7, <1>8, <1>9

LEMMA UndoRenameStep == IInv /\ UndoRename => IInv'
<1> SUFFICES ASSUME IInv, UndoRename PROVE IInv'
    OBVIOUS
<1> USE RestoreConstants DEF IInv
<1>1. /\ pc = "undo_rename" /\ task = "commit" /\ at \in Dirs /\ at \notin Mounts
      /\ Away(at)
      /\ \A d \in Dirs : d \in named /\ d # at => ~Away(d)
    BY DEF UndoRename, Control, CommitSteps, TypeOK, Here, WhenAway
<1>2. /\ exists' \in [Dirs -> SUBSET Places]
      /\ files' \in [Dirs -> [Places -> SUBSET Child]]
      /\ \A e \in Dirs, r \in Places : e # at \/ (r # "old" /\ r # "dst") =>
           files'[e][r] = files[e][r] /\ (r \in exists'[e] <=> r \in exists[e])
      /\ files'[at]["dst"] = files[at]["old"]
      /\ "dst" \in exists'[at]
      /\ Absent' /\ UNCHANGED <<marker, marktmp, config, named>>
    BY <1>1, RenameEffect DEF UndoRename, Away, Places
<1>3. /\ at .. N \in SUBSET Dirs /\ UNCHANGED <<gen, round, crashes, failures>>
      /\ GiveUp(at .. N, "commit_failed")
    BY <1>1 DEF UndoRename, Dirs, count
<1>4. \A d \in Dirs : d \in named => ~Away(d)'
    BY <1>1, <1>2 DEF Away, Places
<1>5. /\ WhenAway' /\ Control' /\ Here' /\ Installing' /\ Others' /\ AtRest'
      /\ at' \in Dirs /\ drop' \subseteq Dirs /\ result' = "commit_failed" /\ task' = task
    BY <1>1, <1>2, <1>3, <1>4, GiveUpStep
<1>6. TypeOK'
    BY <1>2, <1>3, <1>5 DEF TypeOK
<1>7. PlainContent'
    BY <1>1, <1>2, <1>3 DEF PlainContent, Away, Places
<1>8. MountContent'
    BY <1>1, <1>2, <1>3 DEF MountContent, Places
<1> QED
    BY <1>2, <1>5, <1>6, <1>7, <1>8

LEMMA DiscardOldStep == IInv /\ DiscardOld => IInv'
<1> SUFFICES ASSUME IInv, DiscardOld PROVE IInv'
    OBVIOUS
<1> USE RestoreConstants DEF IInv
<1>1. /\ pc = "discard_old" /\ task = "commit" /\ at \in Dirs /\ at \notin Mounts
      /\ "dst" \in exists[at] /\ gen[at] = round
      /\ marker[at] = "none" /\ ~marktmp[at]
    BY DEF DiscardOld, Control, CommitSteps, TypeOK, Here, PlainContent
<1>2. ASSUME RemoveStep(at, "old"), Stay
      PROVE  IInv'
  <2>1. UNCHANGED <<pc, task, at, drop, result, round, crashes, failures>>
    BY <1>2 DEF Stay, count
  <2>2. /\ exists' \in [Dirs -> SUBSET Places]
        /\ files' \in [Dirs -> [Places -> SUBSET Child]]
        /\ \A e \in Dirs, q \in Places : e # at \/ q # "old" =>
             files'[e][q] = files[e][q] /\ (q \in exists'[e] <=> q \in exists[e])
        /\ Absent' /\ UNCHANGED <<marker, marktmp, config, named, gen>>
    BY <1>1, <1>2, RemoveEffect DEF Places
  <2>3. TypeOK'
    BY <2>1, <2>2 DEF TypeOK
  <2>4. PlainContent' /\ MountContent'
    <3>1. PlainContent'
      BY <1>1, <2>1, <2>2 DEF PlainContent, Away, Places
    <3>2. MountContent'
      BY <1>1, <2>1, <2>2 DEF MountContent, Away, Places
    <3> QED
      BY <3>1, <3>2
  <2>5. WhenAway' /\ AtRest' /\ Control' /\ Installing'
    BY <1>1, <2>1, <2>2 DEF WhenAway, AtRest, Away, Control, Installing, Places
  <2>6. Here'
    BY <1>1, <2>1, <2>2 DEF Here, Places
  <2>7. Others'
    BY <1>1, <2>1, <2>2 DEF TypeOK, Dirs, Others, Working, Clean, Ready, Away, Places
  <2> QED
    BY <2>2, <2>3, <2>4, <2>5, <2>6, <2>7
<1>3. ASSUME UNCHANGED disk, NextCommit
      PROVE  IInv'
  <2>1. UNCHANGED <<exists, files, marker, marktmp, config, named, gen>>
    BY <1>3 DEF disk
  <2>2. PICK h \in Dirs : h = at
    BY <1>1
  <2>3. Clean(h)'
    BY <1>1, <2>1, <2>2 DEF Clean, Away
  <2>4. /\ WhenAway' /\ Control' /\ Here' /\ Installing' /\ Others' /\ AtRest'
        /\ task' \in {"none", "commit"} /\ at' \in Dirs /\ drop' = drop
        /\ result' \in {"none", "ok", "stage_failed", "commit_failed"}
    BY <1>1, <1>3, <2>1, <2>2, <2>3, NextCommitStep
  <2>5. Absent' /\ PlainContent' /\ MountContent'
    BY <1>1, <1>3, DiskKept
  <2>6. TypeOK'
    BY <1>3, <2>1, <2>4 DEF TypeOK, NextCommit, Goto, count
  <2> QED
    BY <2>4, <2>5, <2>6
<1> QED
    BY <1>2, <1>3 DEF DiscardOld

-----------------------------------------------------------------------------
(* Commit of a mount point *)

\* The temporary file of a marker is written.
LEMMA MarkTmpStep ==
    ASSUME IInv, pc \in {"mark_evac", "mark_install", "mark_commit"},
           marktmp' = [marktmp EXCEPT ![at] = TRUE],
           UNCHANGED <<exists, files, config, named, marker, gen>>, Stay
    PROVE  IInv'
<1> USE RestoreConstants DEF IInv
<1>1. /\ UNCHANGED <<pc, task, at, drop, result, round, crashes, failures>>
      /\ task = "commit" /\ at \in Dirs /\ at \in Mounts
    BY DEF Stay, count, Control, Swapping, TypeOK
<1>2. /\ marktmp' \in [Dirs -> BOOLEAN]
      /\ \A d \in Dirs : d # at => marktmp'[d] = marktmp[d]
    BY <1>1 DEF TypeOK
<1>3. TypeOK' /\ Absent'
    BY <1>1, <1>2 DEF TypeOK, Absent
<1>4. PlainContent' /\ MountContent'
    BY <1>1, <1>2 DEF PlainContent, MountContent, Away
<1>5. WhenAway' /\ AtRest' /\ Control' /\ Installing'
    BY <1>1 DEF WhenAway, AtRest, Away, Control, Installing
<1>6. Here'
    BY <1>1 DEF Here, Ready, Away
<1>7. Others'
    BY <1>1, <1>2 DEF TypeOK, Dirs, Others, Working, Clean, Ready, Away
<1> QED
    BY <1>3, <1>4, <1>5, <1>6, <1>7

LEMMA MarkStep == IInv /\ Mark => IInv'
<1> SUFFICES ASSUME IInv, Mark PROVE IInv'
    OBVIOUS
<1> USE RestoreConstants DEF IInv
<1>1. /\ pc \in {"mark_evac", "mark_install", "mark_commit"}
      /\ task = "commit" /\ at \in Dirs /\ at \in Mounts /\ "dst" \in exists[at]
      /\ round \in 0 .. MaxRestores /\ UNCHANGED <<exists, files, config, named>>
    BY DEF Mark, WriteState, Control, Swapping, TypeOK, MountContent
<1>2. PICK s \in {"evacuating_old", "installing_new", "committed"} :
        /\ s = "evacuating_old" <=> pc = "mark_evac"
        /\ s = "installing_new" <=> pc = "mark_install"
        /\ s = "committed" <=> pc = "mark_commit"
        /\ WriteState(s)
    BY DEF Mark
<1>3. CASE ~marktmp[at]
    BY <1>1, <1>2, <1>3, MarkTmpStep DEF WriteState
<1>4. ASSUME marktmp' = [marktmp EXCEPT ![at] = FALSE],
             marker' = [marker EXCEPT ![at] = s],
             gen' = IF s = "committed" THEN [gen EXCEPT ![at] = round] ELSE gen,
             Goto(CASE s = "evacuating_old" -> "evacuate"
                    [] s = "installing_new" -> "install"
                    [] s = "committed"      -> "rm_evac")
      PROVE  IInv'
  <2>1. /\ UNCHANGED <<task, at, drop, result, round, crashes, failures>>
        /\ pc' \in {"evacuate", "install", "rm_evac"}
        /\ pc' = "evacuate" <=> s = "evacuating_old"
        /\ pc' = "install" <=> s = "installing_new"
        /\ pc' = "rm_evac" <=> s = "committed"
    BY <1>2, <1>4 DEF Goto, count
  <2>2. /\ marktmp' \in [Dirs -> BOOLEAN] /\ marker' \in [Dirs -> States]
        /\ gen' \in [Dirs -> 0 .. MaxRestores] /\ marker'[at] = s
        /\ s = "committed" => gen'[at] = round
        /\ s # "committed" => gen' = gen
        /\ \A d \in Dirs : d # at => marktmp'[d] = marktmp[d] /\ marker'[d] = marker[d]
                                     /\ gen'[d] = gen[d]
    BY <1>1, <1>4 DEF TypeOK, States
  <2>3. /\ s = "evacuating_old" =>
             Ready(at) /\ files[at]["dst"] \cup files[at]["evac"] = Content(at, gen'[at])
        /\ s = "installing_new" =>
             /\ Ready(at) /\ files[at]["dst"] = {}
             /\ "evac" \in exists[at] /\ files[at]["evac"] = Content(at, gen'[at])
        /\ s = "committed" => files[at]["dst"] = Content(at, gen'[at])
    BY ZenonT(60), <1>1, <1>2, <2>2 DEF Here, MountContent, Absent, Places
  <2>4. TypeOK' /\ Absent'
    BY <1>1, <2>1, <2>2 DEF TypeOK, Absent
  <2>5. PlainContent'
    BY <1>1, <2>2 DEF PlainContent, Away
  <2>6. MountContent'
    BY <1>1, <1>2, <2>1, <2>2, <2>3 DEF MountContent, TypeOK
  <2>7. WhenAway' /\ AtRest' /\ Control'
    BY <1>1, <2>1 DEF WhenAway, AtRest, Away, Control, CommitSteps, Recovery, Swapping
  <2>8. Here'
    BY <1>1, <2>1, <2>2, <2>3 DEF Here, Ready
  <2>9. Installing'
    BY <1>1, <2>1, <2>3 DEF Installing, Ready
  <2>10. Others'
    BY <1>1, <2>1, <2>2 DEF TypeOK, Dirs, Others, Working, Clean, Ready, Away
  <2> QED
    BY <2>4, <2>5, <2>6, <2>7, <2>8, <2>9, <2>10
<1> QED
    BY <1>2, <1>3, <1>4 DEF WriteState

LEMMA EvacuateStep == IInv /\ Evacuate => IInv'
<1> SUFFICES ASSUME IInv, Evacuate PROVE IInv'
    OBVIOUS
<1> USE RestoreConstants DEF IInv
<1>1. /\ pc = "evacuate" /\ task = "commit" /\ at \in Dirs /\ at \in Mounts
      /\ Ready(at) /\ marker[at] = "evacuating_old"
      /\ \A d \in Dirs : d \in named => ~Away(d)
    BY DEF Evacuate, Control, Swapping, TypeOK, Here, WhenAway
<1>2. ASSUME exists' = [exists EXCEPT ![at] = @ \cup {"evac"}], Stay,
             UNCHANGED <<files, marker, marktmp, config, named, gen>>
      PROVE  IInv'
  <2>1. UNCHANGED <<pc, task, at, drop, result, round, crashes, failures>>
    BY <1>2 DEF Stay, count
  <2>2. /\ exists' \in [Dirs -> SUBSET Places]
        /\ \A d \in Dirs : /\ "dst" \in exists'[d] <=> "dst" \in exists[d]
                           /\ "old" \in exists'[d] <=> "old" \in exists[d]
                           /\ "tmp" \in exists'[d] <=> "tmp" \in exists[d]
                           /\ d # at => exists'[d] = exists[d]
                           /\ exists[d] \subseteq exists'[d]
    BY <1>1, <1>2 DEF TypeOK, Places
  <2>3. TypeOK' /\ Absent'
    BY <1>2, <2>1, <2>2 DEF TypeOK, Absent
  <2>4. PlainContent' /\ MountContent'
    BY <1>1, <1>2, <2>1, <2>2 DEF PlainContent, MountContent, Away
  <2>5. WhenAway' /\ AtRest' /\ Control' /\ Installing'
    BY <1>1, <1>2, <2>1, <2>2 DEF WhenAway, AtRest, Away, Control, Installing
  <2>6. Here'
    BY <1>1, <1>2, <2>1, <2>2 DEF Here, Ready
  <2>7. Others'
    BY <1>1, <1>2, <2>1, <2>2 DEF Others, Working, Clean, Ready, Away
  <2> QED
    BY <2>3, <2>4, <2>5, <2>6, <2>7
<1>3. ASSUME "evac" \in exists[at], MoveChild(at, "dst", "evac"), Stay
      PROVE  IInv'
  <2>1. UNCHANGED <<pc, task, at, drop, result, round, crashes, failures>>
    BY <1>3 DEF Stay, count
  <2>2. /\ files' \in [Dirs -> [Places -> SUBSET Child]]
        /\ \A e \in Dirs, r \in Places : e # at \/ (r # "dst" /\ r # "evac") =>
             files'[e][r] = files[e][r]
        /\ files'[at]["dst"] \cup files'[at]["evac"] = files[at]["dst"] \cup files[at]["evac"]
        /\ Absent' /\ UNCHANGED <<exists, marker, marktmp, config, named, gen>>
    BY <1>1, <1>3, MoveEffect DEF Places
  <2>3. TypeOK'
    BY <2>1, <2>2 DEF TypeOK
  <2>4. PlainContent' /\ MountContent'
    <3>1. PlainContent'
      BY <1>1, <2>1, <2>2 DEF PlainContent, Away, Places
    <3>2. MountContent'
      BY <1>1, <2>1, <2>2 DEF MountContent, Away, Places
    <3> QED
      BY <3>1, <3>2
  <2>5. WhenAway' /\ AtRest' /\ Control' /\ Installing'
    BY <1>1, <2>1, <2>2 DEF WhenAway, AtRest, Away, Control, Installing
  <2>6. Here'
    BY <1>1, <2>1, <2>2 DEF Here, Ready, Places
  <2>7. Others'
    BY <1>1, <2>1, <2>2 DEF TypeOK, Dirs, Others, Working, Clean, Ready, Away, Places
  <2> QED
    BY <2>2, <2>3, <2>4, <2>5, <2>6, <2>7
<1>4. ASSUME "evac" \in exists[at], files[at]["dst"] = {}, UNCHANGED disk,
             Goto("mark_install")
      PROVE  IInv'
  <2>1. /\ pc' = "mark_install"
        /\ UNCHANGED <<task, at, drop, result, round, crashes, failures>>
    BY <1>4 DEF Goto, count
  <2>2. TypeOK'
    BY <1>4, <2>1 DEF TypeOK, disk
  <2>3. Absent' /\ PlainContent' /\ MountContent'
    BY <1>1, <1>4, DiskKept
  <2>4. WhenAway' /\ AtRest' /\ Control' /\ Installing'
    BY <1>1, <1>4, <2>1 DEF disk, WhenAway, AtRest, Away, Control, Installing, CommitSteps,
       Recovery, Swapping
  <2>5. Here'
    BY <1>1, <1>4, <2>1 DEF disk, Here, Ready
  <2>6. Others'
    BY <1>1, <1>4, <2>1 DEF disk, Others, Working, Clean, Ready, Away
  <2> QED
    BY <2>2, <2>3, <2>4, <2>5, <2>6
<1> QED
    BY <1>2, <1>3, <1>4 DEF Evacuate

\* Copying touches what is staged and what is in the destination only.
LEMMA InstallFrame ==
    ASSUME IInv, pc = "install", Stay, UNCHANGED <<exists, marker, marktmp, config, named, gen>>,
           files' \in [Dirs -> [Places -> SUBSET Child]],
           \A e \in Dirs, r \in Places : e # at \/ (r # "dst" /\ r # "tmp") =>
              files'[e][r] = files[e][r],
           files'[at]["tmp"] \subseteq files[at]["tmp"],
           Installing'
    PROVE  IInv'
<1> USE RestoreConstants DEF IInv
<1>1. /\ UNCHANGED <<pc, task, at, drop, result, round, crashes, failures>>
      /\ task = "commit" /\ at \in Dirs /\ at \in Mounts
      /\ marker[at] = "installing_new" /\ "dst" \in exists[at]
      /\ "evac" \in exists[at] /\ files[at]["evac"] = Content(at, gen[at])
    BY DEF Stay, count, Control, Swapping, TypeOK, Here, MountContent
<1>2. TypeOK' /\ Absent'
    BY <1>1 DEF TypeOK, Absent, Places
<1>3. PlainContent' /\ MountContent'
  <2>1. PlainContent'
    BY <1>1 DEF PlainContent, Away, Places
  <2>2. MountContent'
    BY <1>1 DEF MountContent, Away, Places
  <2> QED
    BY <2>1, <2>2
<1>4. WhenAway' /\ AtRest' /\ Control'
    BY <1>1 DEF WhenAway, AtRest, Away, Control
<1>5. Here'
    BY <1>1 DEF Here, Places
<1>6. Others'
    BY <1>1 DEF TypeOK, Dirs, Others, Working, Clean, Ready, Away, Places
<1> QED
    BY <1>2, <1>3, <1>4, <1>5, <1>6

LEMMA InstallStep == IInv /\ Install => IInv'
<1> SUFFICES ASSUME IInv, Install PROVE IInv'
    OBVIOUS
<1>1. /\ pc = "install" /\ task = "commit" /\ at \in Dirs /\ at \in Mounts
      /\ UNCHANGED <<exists, marker, marktmp, config, named, gen>>
      /\ Installing
    BY RestoreConstants DEF IInv, Install, Control, Swapping, TypeOK
<1>2. /\ files[at]["tmp"] \subseteq Content(at, round)
      /\ files[at]["dst"] \subseteq Child
      /\ \A c \in files[at]["tmp"] : c \in Child /\ c = <<c[1], c[2], "whole">>
      /\ \A c \in files[at]["dst"] : c[3] \in {"whole", "torn"} /\ c = <<c[1], c[2], c[3]>>
    BY <1>1 DEF IInv, TypeOK, Installing, Content, Child, Places
<1>3. ASSUME NEW c \in files[at]["tmp"],
             \A b \in files[at]["dst"] : b[3] = "whole",
             files' = [files EXCEPT ![at]["dst"] = @ \cup {<<c[1], c[2], "torn">>}], Stay
      PROVE  IInv'
  <2>1. <<c[1], c[2], "torn">> \in Child
    BY <1>2 DEF Child
  <2>2. /\ files' \in [Dirs -> [Places -> SUBSET Child]]
        /\ \A e \in Dirs, r \in Places : e # at \/ r # "dst" => files'[e][r] = files[e][r]
        /\ files'[at]["dst"] = files[at]["dst"] \cup {<<c[1], c[2], "torn">>}
        /\ files'[at]["tmp"] = files[at]["tmp"]
    <3>1. /\ files \in [Dirs -> [Places -> SUBSET Child]] /\ at \in Dirs
          /\ "dst" \in Places /\ "tmp" \in Places
      BY <1>1 DEF IInv, TypeOK, Places
    <3>2. files' = [files EXCEPT ![at]["dst"] = @ \cup {<<c[1], c[2], "torn">>}]
      BY <1>3
    <3> QED
      BY <2>1, <3>1, <3>2
  <2>3. Installing'
    BY <1>1, <1>2, <1>3, <2>2 DEF Installing, Stay, count
  <2> QED
    BY <1>1, <1>3, <2>2, <2>3, InstallFrame
<1>4. ASSUME NEW c \in files[at]["tmp"], <<c[1], c[2], "torn">> \in files[at]["dst"],
             files' = [files EXCEPT
                ![at]["dst"] = (@ \ {<<c[1], c[2], "torn">>}) \cup {c},
                ![at]["tmp"] = @ \ {c}], Stay
      PROVE  IInv'
  <2>1. /\ files' \in [Dirs -> [Places -> SUBSET Child]]
        /\ \A e \in Dirs, r \in Places : e # at \/ (r # "dst" /\ r # "tmp") =>
             files'[e][r] = files[e][r]
        /\ files'[at]["dst"] = (files[at]["dst"] \ {<<c[1], c[2], "torn">>}) \cup {c}
        /\ files'[at]["tmp"] = files[at]["tmp"] \ {c}
    BY <1>1, <1>2, <1>4 DEF IInv, TypeOK, Places
  <2>2. UNCHANGED <<pc, at, round>>
    BY <1>4 DEF Stay, count
  <2>3. Content(at, round) = files'[at]["tmp"] \cup
                             {b \in files'[at]["dst"] : b[3] = "whole"}
    BY <1>1, <1>2, <2>1 DEF Installing
  <2>4. ASSUME NEW b \in files'[at]["dst"], b[3] = "torn"
        PROVE  <<b[1], b[2], "whole">> \in files'[at]["tmp"]
    <3>1. b \in files[at]["dst"] /\ b # <<c[1], c[2], "torn">>
      BY <1>2, <2>1, <2>4
    <3>2. <<b[1], b[2], "whole">> \in files[at]["tmp"]
      BY <1>1, <3>1, <2>4 DEF Installing
    <3>3. b = <<b[1], b[2], "torn">> /\ c = <<c[1], c[2], "whole">>
      BY <1>2, <3>1, <2>4
    <3>4. <<b[1], b[2], "whole">> # c
      BY <3>1, <3>3
    <3> QED
      BY <2>1, <3>2, <3>4
  <2>5. Installing'
    BY <2>2, <2>3, <2>4 DEF Installing
  <2> QED
    BY <1>1, <1>4, <2>1, <2>5, InstallFrame
<1>5. ASSUME files[at]["tmp"] = {}, UNCHANGED files, Goto("mark_commit")
      PROVE  IInv'
  <2> USE RestoreConstants DEF IInv
  <2>1. /\ pc' = "mark_commit" /\ UNCHANGED disk
        /\ UNCHANGED <<task, at, drop, result, round, crashes, failures>>
    BY <1>1, <1>5 DEF Goto, count, disk
  <2>2. files[at]["dst"] = Content(at, round)
    BY <1>1, <1>2, <1>5 DEF Installing
  <2>3. TypeOK'
    BY <2>1 DEF TypeOK, disk
  <2>4. Absent' /\ PlainContent' /\ MountContent'
    BY <1>1, <2>1, DiskKept
  <2>5. WhenAway' /\ AtRest' /\ Control' /\ Installing'
    BY <1>1, <2>1 DEF disk, WhenAway, AtRest, Away, Control, Installing, CommitSteps,
       Recovery, Swapping
  <2>6. Here'
    BY <1>1, <2>1, <2>2 DEF disk, Here
  <2>7. Others'
    BY <1>1, <2>1 DEF disk, Others, Working, Clean, Ready, Away
  <2> QED
    BY <2>3, <2>4, <2>5, <2>6, <2>7
<1> QED
    BY <1>3, <1>4, <1>5 DEF Install

\* The paths of all destinations are saved.
LEMMA SavePathsStep == IInv /\ SavePaths => IInv'
<1> SUFFICES ASSUME IInv, SavePaths PROVE IInv'
    OBVIOUS
<1> USE RestoreConstants DEF IInv
<1>1. /\ pc = "paths" /\ task = "commit" /\ at = N /\ named' = Dirs
      /\ pc' = "idle" /\ task' = "none" /\ result' = "ok"
      /\ UNCHANGED <<exists, files, marker, marktmp, config, gen, at, drop>>
      /\ UNCHANGED <<round, crashes, failures>>
    BY DEF SavePaths, Control, count
<1>2. \A d \in Dirs : d < N \/ d = N
    BY DEF Dirs
<1>3. config = round /\ \A d \in Dirs : Clean(d) /\ gen[d] = round
    BY <1>1, <1>2 DEF Others, Working, Here
<1>4. TypeOK' /\ Absent' /\ PlainContent'
    BY <1>1 DEF TypeOK, Absent, PlainContent, Away
<1>5. MountContent'
    BY <1>1 DEF MountContent
<1>6. WhenAway' /\ AtRest'
    BY <1>1, <1>3 DEF WhenAway, AtRest, Clean, Away
<1>7. Control' /\ Here' /\ Installing' /\ Others'
    BY <1>1 DEF Control, Here, Installing, Others, Working, CommitSteps, Recovery, Swapping
<1> QED
    BY <1>4, <1>5, <1>6, <1>7

LEMMA DiscardStep == IInv /\ Discard => IInv'
<1> SUFFICES ASSUME IInv, Discard PROVE IInv'
    OBVIOUS
<1> USE RestoreConstants DEF IInv
<1>1. pc = "discard" /\ UNCHANGED <<task, at, result, count>>
      /\ drop \subseteq Dirs
    BY DEF Discard, TypeOK
<1>2. ASSUME NEW d \in drop, RemoveStep(d, "tmp"), UNCHANGED <<pc, drop>>
      PROVE  IInv'
    BY <1>1, <1>2, RemoveTmpStep
<1>3. ASSUME UNCHANGED disk, drop' \subseteq drop, pc' \in {"discard", "idle"}
      PROVE  IInv'
  <2>1. UNCHANGED <<task, at, result, round, crashes, failures>>
        /\ result \in {"stage_failed", "commit_failed"} /\ task # "boot"
    BY <1>1 DEF count, Control
  <2>2. TypeOK'
    BY <1>1, <1>3, <2>1 DEF TypeOK, disk
  <2>3. Absent' /\ PlainContent' /\ MountContent'
    BY <1>1, <1>3, DiskKept
  <2>4. WhenAway' /\ AtRest' /\ Control' /\ Installing' /\ Here' /\ Others'
    BY <1>1, <1>3, <2>1 DEF disk, WhenAway, AtRest, Away, Control, Installing, Here, Others,
       Working, CommitSteps, Recovery, Swapping
  <2> QED
    BY <2>2, <2>3, <2>4
<1> QED
    BY <1>1, <1>2, <1>3 DEF Discard

-----------------------------------------------------------------------------
(* Recovery *)

\* The process moves on to the next step of the recovery of its destination.
LEMMA NextRecoveryStep ==
    ASSUME IInv, UNCHANGED disk, UNCHANGED <<task, at, drop, result, round>>,
           pc \in {"rename_back", "rm_tmp", "rm_old"} \cup Recovery \cup {"recover"},
           pc' \in {"rm_tmp", "rm_old", "recover", "wipe", "roll_back", "move_back",
                    "rm_evac", "rm_artifacts"},
           pc = "roll_back" => "evac" \notin exists[at],
           \A d \in Dirs : d \in named => ~Away(d) \/ (task = "boot" /\ d > at),
           Control', Here'
    PROVE  IInv'
<1> USE RestoreConstants DEF IInv
<1>1. TypeOK'
    BY DEF TypeOK, disk
<1>2. Absent' /\ PlainContent' /\ MountContent'
    BY DiskKept
<1>3. WhenAway' /\ AtRest' /\ Installing'
    BY DEF disk, WhenAway, AtRest, Away, Installing
<1>4. Others'
    BY DEF disk, Others, Working, Clean, Ready, Away, Recovery
<1> QED
    BY <1>1, <1>2, <1>3, <1>4

\* Start-up passes over a destination that it does not know of.
LEMMA PassOverStep == IInv /\ PassOver => IInv'
<1> SUFFICES ASSUME IInv, PassOver PROVE IInv'
    OBVIOUS
<1> USE RestoreConstants DEF IInv
<1>1. /\ pc = "rename_back" /\ task = "boot" /\ at \notin named /\ result = "none"
      /\ UNCHANGED disk /\ UNCHANGED <<round, crashes, failures>>
      /\ UNCHANGED <<exists, files, marker, marktmp, config, named, gen, drop, result>>
      /\ at \in Dirs /\ \A d \in Dirs : d \in Nat /\ d <= N
    BY DEF PassOver, Recovered, Control, TypeOK, Dirs, disk, count
<1>2. \A d \in named : d \in Dirs /\ d # at
    BY <1>1 DEF TypeOK
<1>3. Absent' /\ PlainContent' /\ MountContent'
    BY <1>1, DiskKept
<1>4. CASE at < N
  <2>1. pc' = "rename_back" /\ at' = at + 1 /\ at + 1 \in Dirs /\ task' = task
    BY <1>4, <1>1 DEF PassOver, Recovered, Dirs
  <2>2. \A d \in named : (d < at + 1 => d < at) /\ (d > at => d > at + 1 \/ d = at + 1)
    BY <1>1, <1>2
  <2>3. TypeOK'
    BY <1>1, <2>1 DEF TypeOK
  <2>4. WhenAway' /\ Others'
    BY <1>1, <1>2, <2>1, <2>2 DEF WhenAway, Others, Working, Clean, Away
  <2>5. Control' /\ Here' /\ Installing' /\ AtRest'
    BY <1>1, <2>1 DEF Control, Here, Installing, AtRest, CommitSteps, Recovery, Swapping
  <2> QED
    BY <1>3, <2>3, <2>4, <2>5
<1>5. CASE at = N
  <2>1. pc' = "idle" /\ task' = "none" /\ at' = at
    BY <1>5, <1>1 DEF PassOver, Recovered
  <2>2. \A d \in Dirs : d \in named => d < at /\ Clean(d)
    BY <1>1, <1>2, <1>5 DEF Others, Working
  <2>3. TypeOK'
    BY <1>1, <2>1 DEF TypeOK
  <2>4. WhenAway' /\ AtRest'
    BY <1>1, <2>1, <2>2 DEF WhenAway, AtRest, Clean, Away
  <2>5. Control' /\ Here' /\ Installing' /\ Others'
    BY <1>1, <2>1 DEF Control, Here, Installing, Others, Working, CommitSteps, Recovery,
       Swapping
  <2> QED
    BY <1>3, <2>3, <2>4, <2>5
<1> QED
    BY <1>1, <1>4, <1>5 DEF PassOver, Recovered

LEMMA RenameBackStep == IInv /\ RenameBack => IInv'
<1> SUFFICES ASSUME IInv, RenameBack PROVE IInv'
    OBVIOUS
<1> USE RestoreConstants DEF IInv
<1>1. /\ pc = "rename_back" /\ task \in {"boot", "stage"} /\ at \in Dirs
      /\ pc' = "rm_tmp"
      /\ UNCHANGED <<task, at, drop, result, round, crashes, failures>>
      /\ \A d \in Dirs : d \in named /\ Away(d) => task = "boot" /\ (d > at \/ d = at)
    BY DEF RenameBack, Control, TypeOK, Goto, count, WhenAway
<1>2. Control'
    BY <1>1 DEF Control, CommitSteps, Recovery, Swapping
<1>3. CASE ~Away(at)
  <2>1. UNCHANGED disk
    BY <1>3 DEF RenameBack, Away
  <2>2. Here'
    BY <1>1, <1>3, <2>1 DEF Here, Away, disk
  <2> QED
    BY <1>1, <1>2, <1>3, <2>1, <2>2, NextRecoveryStep
<1>4. CASE Away(at)
  <2>1. /\ exists' \in [Dirs -> SUBSET Places]
        /\ files' \in [Dirs -> [Places -> SUBSET Child]]
        /\ \A e \in Dirs, r \in Places : e # at \/ (r # "old" /\ r # "dst") =>
             files'[e][r] = files[e][r] /\ (r \in exists'[e] <=> r \in exists[e])
        /\ files'[at]["dst"] = files[at]["old"]
        /\ "dst" \in exists'[at]
        /\ Absent' /\ UNCHANGED <<marker, marktmp, config, named>>
    BY <1>1, <1>4, RenameEffect DEF RenameBack, Away, Places
  <2>2. UNCHANGED gen /\ at \notin Mounts
    BY <1>4 DEF RenameBack, Away, MountContent
  <2>3. TypeOK'
    BY <1>1, <2>1, <2>2 DEF TypeOK
  <2>4. PlainContent' /\ MountContent'
    <3>1. PlainContent'
      <4>1. ASSUME NEW d \in Dirs \ Mounts, d # at
            PROVE  /\ marker'[d] = marker[d] /\ marktmp' = marktmp /\ gen' = gen
                   /\ \A p \in {"dst", "old"} : /\ p \in exists'[d] <=> p \in exists[d]
                                                /\ files'[d][p] = files[d][p]
                   /\ "evac" \in exists'[d] <=> "evac" \in exists[d]
        BY <2>1, <2>2, <4>1 DEF Places
      <4>2. /\ files'[at]["dst"] = Content(at, gen[at]) /\ "dst" \in exists'[at]
            /\ marker'[at] = "none" /\ ~marktmp'[at] /\ "evac" \notin exists'[at]
        BY <1>1, <1>4, <2>1, <2>2 DEF PlainContent, Places
      <4> QED
        BY <1>1, <2>2, <4>1, <4>2 DEF PlainContent, Away
    <3>2. MountContent'
      BY <1>1, <1>4, <2>1, <2>2 DEF MountContent, Places
    <3> QED
      BY <3>1, <3>2
  <2>5. WhenAway' /\ AtRest' /\ Here' /\ Installing'
    BY <1>1, <2>1 DEF WhenAway, AtRest, Away, Here, Installing, Places
  <2>6. Others'
    BY <1>1, <2>1, <2>2 DEF TypeOK, Dirs, Others, Working, Clean, Ready, Away, Places
  <2> QED
    BY <1>2, <2>1, <2>3, <2>4, <2>5, <2>6
<1> QED
    BY <1>3, <1>4

\* Who recovers, and which destinations may still be between the renames.
LEMMA Recovering ==
    ASSUME IInv, pc \in {"rm_tmp", "rm_old", "recover"} \cup Recovery
    PROVE  /\ at \in Dirs /\ task # "none" /\ ~Away(at)
           /\ \A d \in Dirs : d \in named => ~Away(d) \/ (task = "boot" /\ d > at)
           /\ pc \in Recovery => at \in Mounts /\ "dst" \in exists[at]
           /\ pc \in {"rm_tmp", "rm_old"} => task \in {"boot", "stage"}
           /\ pc \in {"recover", "wipe", "roll_back", "move_back"} =>
                task \in {"boot", "stage", "undo"}
<1>1. at \in Dirs /\ task # "none"
    BY DEF IInv, TypeOK, Control, Recovery
<1>2. pc \in Recovery => at \in Mounts /\ "dst" \in exists[at]
    BY DEF IInv, Control, MountContent
<1>3. ~Away(at)
    BY <1>2 DEF IInv, Here, Away
<1> QED
    BY <1>1, <1>2, <1>3 DEF IInv, Control, WhenAway, Recovery

LEMMA RemoveTmpOnStart == IInv /\ RemoveTmp => IInv'
<1> SUFFICES ASSUME IInv, RemoveTmp PROVE IInv'
    OBVIOUS
<1>1. pc = "rm_tmp" /\ at \in Dirs /\ task \in {"boot", "stage"} /\ ~Away(at)
      /\ \A d \in Dirs : d \in named => ~Away(d) \/ (task = "boot" /\ d > at)
    BY Recovering DEF RemoveTmp
<1>2. CASE RemoveStep(at, "tmp") /\ Stay
    BY <1>1, <1>2, RemoveTmpStep DEF Stay
<1>3. ASSUME UNCHANGED disk, Goto("rm_old")
      PROVE  IInv'
  <2>1. pc' = "rm_old" /\ UNCHANGED <<task, at, drop, result, round>>
    BY <1>3 DEF Goto, count
  <2>2. Control' /\ Here'
    BY <1>1, <1>3, <2>1 DEF IInv, Control, Here, CommitSteps, Recovery, Swapping, Away, disk
  <2> QED
    BY <1>1, <1>3, <2>1, <2>2, NextRecoveryStep
<1> QED
    BY <1>2, <1>3 DEF RemoveTmp

LEMMA RemoveOldStep == IInv /\ RemoveOld => IInv'
<1> SUFFICES ASSUME IInv, RemoveOld PROVE IInv'
    OBVIOUS
<1> USE RestoreConstants DEF IInv
<1>1. pc = "rm_old" /\ at \in Dirs /\ task \in {"boot", "stage"} /\ ~Away(at)
      /\ \A d \in Dirs : d \in named => ~Away(d) \/ (task = "boot" /\ d > at)
    BY Recovering DEF RemoveOld, TypeOK, Dirs
<1>2. ASSUME RemoveStep(at, "old"), Stay
      PROVE  IInv'
  <2>1. UNCHANGED <<pc, task, at, drop, result, round, crashes, failures>>
    BY <1>2 DEF Stay, count
  <2>2. /\ exists' \in [Dirs -> SUBSET Places]
        /\ files' \in [Dirs -> [Places -> SUBSET Child]]
        /\ \A e \in Dirs, q \in Places : e # at \/ q # "old" =>
             files'[e][q] = files[e][q] /\ (q \in exists'[e] <=> q \in exists[e])
        /\ "old" \in exists[at]
        /\ Absent' /\ UNCHANGED <<marker, marktmp, config, named, gen>>
    BY <1>1, <1>2, RemoveEffect DEF Places
  <2>3. "dst" \in exists[at] /\ "dst" \in exists'[at] /\ at \notin Mounts
    BY <1>1, <2>2 DEF Away, Places, MountContent
  <2>4. TypeOK'
    BY <2>1, <2>2 DEF TypeOK
  <2>5. PlainContent' /\ MountContent'
    <3>1. PlainContent'
      BY <1>1, <2>1, <2>2, <2>3 DEF PlainContent, Away, Places
    <3>2. MountContent'
      BY <1>1, <2>1, <2>2, <2>3 DEF MountContent, Away, Places
    <3> QED
      BY <3>1, <3>2
  <2>6. WhenAway' /\ AtRest' /\ Control' /\ Installing' /\ Here'
    BY <1>1, <2>1, <2>2, <2>3 DEF WhenAway, AtRest, Away, Control, Installing, Here, Places
  <2>7. Others'
    BY <1>1, <2>1, <2>2, <2>3 DEF TypeOK, Dirs, Others, Working, Clean, Ready, Away, Places
  <2> QED
    BY <2>2, <2>4, <2>5, <2>6, <2>7
<1>3. ASSUME UNCHANGED disk, Goto("recover")
      PROVE  IInv'
  <2>1. pc' = "recover" /\ UNCHANGED <<task, at, drop, result, round>>
    BY <1>3 DEF Goto, count
  <2>2. Control' /\ Here'
    BY <1>1, <1>3, <2>1 DEF Control, Here, CommitSteps, Recovery, Swapping, Away, disk
  <2> QED
    BY <1>1, <1>3, <2>1, <2>2, NextRecoveryStep
<1> QED
    BY <1>2, <1>3 DEF RemoveOld

LEMMA RecoverStep == IInv /\ Recover => IInv'
<1> SUFFICES ASSUME IInv, Recover PROVE IInv'
    OBVIOUS
<1> USE RestoreConstants DEF IInv
<1>1. /\ pc = "recover" /\ at \in Dirs /\ task \in {"boot", "stage", "undo"} /\ ~Away(at)
      /\ \A d \in Dirs : d \in named => ~Away(d) \/ (task = "boot" /\ d > at)
      /\ UNCHANGED disk /\ UNCHANGED <<round, crashes, failures>>
      /\ UNCHANGED <<exists, files, marker, marktmp, config, named, gen>>
    BY Recovering DEF Recover, TypeOK, Dirs, disk, count
<1>2. CASE marker[at] = "none" /\ ~marktmp[at]
  <2>1. PICK h \in Dirs : h = at
    BY <1>1
  <2>2. Clean(h)'
    BY <1>1, <1>2, <2>1 DEF Clean, Away
  <2>3. Recovered /\ UNCHANGED count
    BY <1>2 DEF Recover
  <2>4. /\ WhenAway' /\ Control' /\ Here' /\ Installing' /\ Others' /\ AtRest'
        /\ task' \in {"none", "boot", "stage", "undo"}
        /\ at' \in Dirs /\ drop' \subseteq Dirs
        /\ result' \in {"none", "ok", "stage_failed", "commit_failed"}
    BY <1>1, <2>1, <2>2, <2>3, RecoveredStep
  <2>5. Absent' /\ PlainContent' /\ MountContent'
    BY <1>1, DiskKept
  <2>6. TypeOK'
    BY <1>1, <2>4 DEF TypeOK
  <2> QED
    BY <2>4, <2>5, <2>6
<1>3. CASE ~(marker[at] = "none" /\ ~marktmp[at])
  <2>1. at \in Mounts
    BY <1>1, <1>3 DEF PlainContent
  <2>2. UNCHANGED <<task, at, drop, result>>
    BY <1>3 DEF Recover
  <2>3. \/ pc' = "rm_evac" /\ marker[at] = "committed"
        \/ /\ pc' = "wipe" /\ marker[at] = "installing_new"
           /\ "evac" \in exists[at] /\ files[at]["evac"] = Content(at, gen[at])
        \/ /\ pc' = "rm_artifacts" /\ "evac" \notin exists[at]
           /\ files[at]["dst"] = Content(at, gen[at])
        \/ pc' = "move_back" /\ marker[at] \in {"none", "evacuating_old"}
    BY <1>1, <1>3, <2>1 DEF Recover, TypeOK, States, MountContent
  <2>4. Control' /\ Here'
    BY <1>1, <2>1, <2>2, <2>3 DEF Control, Here, CommitSteps, Recovery, Swapping
  <2> QED
    BY <1>1, <2>2, <2>3, <2>4, NextRecoveryStep
<1> QED
    BY <1>2, <1>3

LEMMA WipeStep == IInv /\ Wipe => IInv'
<1> SUFFICES ASSUME IInv, Wipe PROVE IInv'
    OBVIOUS
<1> USE RestoreConstants DEF IInv
<1>1. /\ pc = "wipe" /\ at \in Dirs /\ task \in {"boot", "stage", "undo"}
      /\ at \in Mounts /\ "dst" \in exists[at] /\ marker[at] = "installing_new"
      /\ "evac" \in exists[at] /\ files[at]["evac"] = Content(at, gen[at])
      /\ \A d \in Dirs : d \in named => ~Away(d) \/ (task = "boot" /\ d > at)
    BY Recovering DEF Wipe, Recovery, Here
<1>2. ASSUME NEW c \in files[at]["dst"],
             files' = [files EXCEPT ![at]["dst"] = @ \ {c}],
             UNCHANGED <<exists, marker, marktmp, config, named, gen>>, Stay
      PROVE  IInv'
  <2>1. UNCHANGED <<pc, task, at, drop, result, round, crashes, failures>>
    BY <1>2 DEF Stay, count
  <2>2. /\ files' \in [Dirs -> [Places -> SUBSET Child]]
        /\ \A e \in Dirs, r \in Places : e # at \/ r # "dst" => files'[e][r] = files[e][r]
    BY <1>1, <1>2 DEF TypeOK, Places
  <2>3. TypeOK' /\ Absent'
    BY <1>1, <1>2, <2>1, <2>2 DEF TypeOK, Absent
  <2>4. PlainContent' /\ MountContent'
    <3>1. PlainContent'
      BY <1>1, <1>2, <2>1, <2>2 DEF PlainContent, Away, Places
    <3>2. MountContent'
      BY <1>1, <1>2, <2>1, <2>2 DEF MountContent, Away, Places
    <3> QED
      BY <3>1, <3>2
  <2>5. WhenAway' /\ AtRest' /\ Control' /\ Installing'
    BY <1>1, <1>2, <2>1 DEF WhenAway, AtRest, Away, Control, Installing
  <2>6. Here'
    BY <1>1, <1>2, <2>1, <2>2 DEF Here, Places
  <2>7. Others'
    BY <1>1, <1>2, <2>1, <2>2 DEF TypeOK, Dirs, Others, Working, Clean, Ready, Away, Places
  <2> QED
    BY <2>3, <2>4, <2>5, <2>6, <2>7
<1>3. ASSUME files[at]["dst"] = {}, UNCHANGED disk, Goto("roll_back")
      PROVE  IInv'
  <2>1. pc' = "roll_back" /\ UNCHANGED <<task, at, drop, result, round>>
    BY <1>3 DEF Goto, count
  <2>2. Control' /\ Here'
    BY <1>1, <1>3, <2>1 DEF disk, Control, Here, CommitSteps, Recovery, Swapping
  <2> QED
    BY <1>1, <1>3, <2>1, <2>2, NextRecoveryStep DEF Recovery
<1> QED
    BY <1>2, <1>3 DEF Wipe

LEMMA MoveBackStep == IInv /\ MoveBack => IInv'
<1> SUFFICES ASSUME IInv, MoveBack PROVE IInv'
    OBVIOUS
<1> USE RestoreConstants DEF IInv
<1>1. /\ pc \in {"roll_back", "move_back"} /\ at \in Dirs
      /\ task \in {"boot", "stage", "undo"} /\ at \in Mounts /\ "dst" \in exists[at]
      /\ pc = "roll_back" => marker[at] = "installing_new"
      /\ pc = "move_back" => marker[at] \in {"none", "evacuating_old"}
      /\ files[at]["dst"] \cup files[at]["evac"] = Content(at, gen[at])
      /\ \A d \in Dirs : d \in named => ~Away(d) \/ (task = "boot" /\ d > at)
    BY Recovering DEF MoveBack, Recovery, Here, MountContent, Absent, Places
<1>2. ASSUME MoveChild(at, "evac", "dst"), Stay
      PROVE  IInv'
  <2>1. UNCHANGED <<pc, task, at, drop, result, round, crashes, failures>>
    BY <1>2 DEF Stay, count
  <2>2. /\ files' \in [Dirs -> [Places -> SUBSET Child]]
        /\ \A e \in Dirs, r \in Places : e # at \/ (r # "dst" /\ r # "evac") =>
             files'[e][r] = files[e][r]
        /\ files'[at]["dst"] \cup files'[at]["evac"] = files[at]["dst"] \cup files[at]["evac"]
        /\ Absent' /\ UNCHANGED <<exists, marker, marktmp, config, named, gen>>
    BY <1>1, <1>2, MoveEffect DEF Places
  <2>3. "evac" \in exists[at]
    BY <1>1, <1>2 DEF MoveChild, Absent, Places
  <2>4. TypeOK'
    BY <2>1, <2>2 DEF TypeOK
  <2>5. PlainContent' /\ MountContent'
    <3>1. PlainContent'
      BY <1>1, <2>1, <2>2 DEF PlainContent, Away, Places
    <3>2. MountContent'
      BY <1>1, <2>1, <2>2, <2>3 DEF MountContent, Places
    <3> QED
      BY <3>1, <3>2
  <2>6. WhenAway' /\ AtRest' /\ Control' /\ Installing'
    BY <1>1, <2>1, <2>2 DEF WhenAway, AtRest, Away, Control, Installing
  <2>7. Here'
    BY <1>1, <2>1, <2>2 DEF Here, Places
  <2>8. Others'
    BY <1>1, <2>1, <2>2 DEF TypeOK, Dirs, Others, Working, Clean, Ready, Away, Places
  <2> QED
    BY <2>2, <2>4, <2>5, <2>6, <2>7, <2>8
<1>3. ASSUME files[at]["evac"] = {}, RemoveStep(at, "evac"), Stay
      PROVE  IInv'
  <2>1. UNCHANGED <<pc, task, at, drop, result, round, crashes, failures>>
    BY <1>3 DEF Stay, count
  <2>2. /\ exists' = [exists EXCEPT ![at] = @ \ {"evac"}]
        /\ UNCHANGED <<files, marker, marktmp, config, named, gen>>
    BY <1>3 DEF RemoveStep
  <2>3. /\ exists' \in [Dirs -> SUBSET Places]
        /\ \A d \in Dirs : /\ "dst" \in exists'[d] <=> "dst" \in exists[d]
                           /\ "old" \in exists'[d] <=> "old" \in exists[d]
                           /\ "tmp" \in exists'[d] <=> "tmp" \in exists[d]
                           /\ d # at => exists'[d] = exists[d]
        /\ "evac" \notin exists'[at]
        /\ \A d \in Dirs, q \in Places :
              q \notin exists'[d] => q \notin exists[d] \/ (d = at /\ q = "evac")
    BY <1>1, <2>2 DEF TypeOK, Places
  <2>4. TypeOK' /\ Absent'
    BY <1>3, <2>1, <2>2, <2>3 DEF TypeOK, Absent
  <2>5. PlainContent' /\ MountContent'
    BY <1>1, <1>3, <2>1, <2>2, <2>3 DEF PlainContent, MountContent, Away
  <2>6. WhenAway' /\ AtRest' /\ Control' /\ Installing'
    BY <1>1, <2>1, <2>2, <2>3 DEF WhenAway, AtRest, Away, Control, Installing
  <2>7. Here'
    BY <1>1, <2>1, <2>2 DEF Here
  <2>8. Others'
    BY <1>1, <2>1, <2>2, <2>3 DEF TypeOK, Dirs, Others, Working, Clean, Ready, Away
  <2> QED
    BY <2>4, <2>5, <2>6, <2>7, <2>8
<1>4. ASSUME "evac" \notin exists[at], UNCHANGED disk, Goto("rm_artifacts")
      PROVE  IInv'
  <2>1. pc' = "rm_artifacts" /\ UNCHANGED <<task, at, drop, result, round>>
    BY <1>4 DEF Goto, count
  <2>2. files[at]["dst"] = Content(at, gen[at])
    BY <1>1, <1>4 DEF Absent, Places
  <2>3. Control' /\ Here'
    BY <1>1, <1>4, <2>1, <2>2 DEF disk, Control, Here, CommitSteps, Recovery, Swapping
  <2> QED
    BY <1>1, <1>4, <2>1, <2>3, NextRecoveryStep DEF Recovery
<1> QED
    BY <1>2, <1>3, <1>4 DEF MoveBack

LEMMA RemoveEvacStep == IInv /\ RemoveEvac => IInv'
<1> SUFFICES ASSUME IInv, RemoveEvac PROVE IInv'
    OBVIOUS
<1> USE RestoreConstants DEF IInv
<1>1. /\ pc = "rm_evac" /\ at \in Dirs /\ task # "none" /\ at \in Mounts
      /\ "dst" \in exists[at] /\ marker[at] = "committed"
      /\ files[at]["dst"] = Content(at, gen[at])
      /\ task = "commit" => gen[at] = round
      /\ \A d \in Dirs : d \in named => ~Away(d) \/ (task = "boot" /\ d > at)
    BY Recovering DEF RemoveEvac, Recovery, Here, MountContent
<1>2. ASSUME RemoveStep(at, "evac"), Stay
      PROVE  IInv'
  <2>1. UNCHANGED <<pc, task, at, drop, result, round, crashes, failures>>
    BY <1>2 DEF Stay, count
  <2>2. /\ exists' \in [Dirs -> SUBSET Places]
        /\ files' \in [Dirs -> [Places -> SUBSET Child]]
        /\ \A e \in Dirs, q \in Places : e # at \/ q # "evac" =>
             files'[e][q] = files[e][q] /\ (q \in exists'[e] <=> q \in exists[e])
        /\ Absent' /\ UNCHANGED <<marker, marktmp, config, named, gen>>
    BY <1>1, <1>2, RemoveEffect DEF Places
  <2>3. TypeOK'
    BY <2>1, <2>2 DEF TypeOK
  <2>4. PlainContent' /\ MountContent'
    <3>1. PlainContent'
      BY <1>1, <2>1, <2>2 DEF PlainContent, Away, Places
    <3>2. MountContent'
      BY <1>1, <2>1, <2>2 DEF MountContent, Away, Places
    <3> QED
      BY <3>1, <3>2
  <2>5. WhenAway' /\ AtRest' /\ Control' /\ Installing'
    BY <1>1, <2>1, <2>2 DEF WhenAway, AtRest, Away, Control, Installing, Places
  <2>6. Here'
    BY <1>1, <2>1, <2>2 DEF Here
  <2>7. Others'
    BY <1>1, <2>1, <2>2 DEF TypeOK, Dirs, Others, Working, Clean, Ready, Away, Places
  <2> QED
    BY <2>2, <2>3, <2>4, <2>5, <2>6, <2>7
<1>3. ASSUME "evac" \notin exists[at], UNCHANGED disk, Goto("rm_artifacts")
      PROVE  IInv'
  <2>1. pc' = "rm_artifacts" /\ UNCHANGED <<task, at, drop, result, round>>
    BY <1>3 DEF Goto, count
  <2>2. Control' /\ Here'
    BY <1>1, <1>3, <2>1 DEF disk, Control, Here, CommitSteps, Recovery, Swapping
  <2> QED
    BY <1>1, <1>3, <2>1, <2>2, NextRecoveryStep DEF Recovery
<1> QED
    BY <1>2, <1>3 DEF RemoveEvac

LEMMA RemoveArtifactsStep == IInv /\ RemoveArtifacts => IInv'
<1> SUFFICES ASSUME IInv, RemoveArtifacts PROVE IInv'
    OBVIOUS
<1> USE RestoreConstants DEF IInv
<1>1. /\ pc = "rm_artifacts" /\ at \in Dirs /\ task # "none" /\ at \in Mounts
      /\ "dst" \in exists[at] /\ "evac" \notin exists[at]
      /\ files[at]["dst"] = Content(at, gen[at])
      /\ task = "commit" => gen[at] = round
      /\ \A d \in Dirs : d \in named => ~Away(d) \/ (task = "boot" /\ d > at)
    BY Recovering DEF RemoveArtifacts, Recovery, Here
<1>2. CASE RemoveStep(at, "tmp") /\ Stay
    BY <1>1, <1>2, RemoveTmpStep DEF Stay
<1>3. ASSUME marktmp' = [marktmp EXCEPT ![at] = FALSE],
             UNCHANGED <<exists, files, marker, config, named, gen>>, Stay
      PROVE  IInv'
  <2>1. UNCHANGED <<pc, task, at, drop, result, round, crashes, failures>>
    BY <1>3 DEF Stay, count
  <2>2. /\ marktmp' \in [Dirs -> BOOLEAN]
        /\ \A d \in Dirs : d # at => marktmp'[d] = marktmp[d]
    BY <1>1, <1>3 DEF TypeOK
  <2>3. TypeOK' /\ Absent'
    BY <1>3, <2>1, <2>2 DEF TypeOK, Absent
  <2>4. PlainContent' /\ MountContent'
    BY <1>1, <1>3, <2>1, <2>2 DEF PlainContent, MountContent, Away
  <2>5. WhenAway' /\ AtRest' /\ Control' /\ Installing' /\ Here'
    BY <1>1, <1>3, <2>1 DEF WhenAway, AtRest, Away, Control, Installing, Here
  <2>6. Others'
    BY <1>1, <1>3, <2>1, <2>2 DEF TypeOK, Dirs, Others, Working, Clean, Ready, Away
  <2> QED
    BY <2>3, <2>4, <2>5, <2>6
<1>4. ASSUME ~marktmp[at], marker' = [marker EXCEPT ![at] = "none"],
             UNCHANGED <<exists, files, marktmp, config, named, gen>>,
             IF task = "commit" THEN NextCommit ELSE Recovered /\ UNCHANGED count
      PROVE  IInv'
  <2>1. PICK h \in Dirs : h = at
    BY <1>1
  <2>2. /\ marker' \in [Dirs -> States] /\ marker'[h] = "none"
        /\ \A d \in Dirs : d # h => marker'[d] = marker[d]
    BY <1>4, <2>1 DEF TypeOK, States
  <2>3. Clean(h)'
    BY <1>1, <1>4, <2>1, <2>2 DEF Clean, Away
  <2>4. \A d \in Dirs : d # h => UNCHANGED <<marker[d], marktmp[d]>>
    BY <1>4, <2>2
  <2>5. Absent' /\ PlainContent'
    BY <1>1, <1>4, <2>1, <2>2 DEF Absent, PlainContent, Away
  <2>6. MountContent'
    BY <1>1, <1>4, <2>1, <2>2 DEF MountContent
  <2>7. CASE task = "commit"
    <3>1. NextCommit /\ UNCHANGED count
      BY <1>4, <2>7 DEF NextCommit, Goto
    <3>2. /\ WhenAway' /\ Control' /\ Here' /\ Installing' /\ Others' /\ AtRest'
          /\ task' = "commit" /\ at' \in Dirs /\ drop' = drop
          /\ result' \in {"none", "ok", "stage_failed", "commit_failed"}
      BY <1>1, <1>4, <2>1, <2>3, <2>4, <2>7, <3>1, NextCommitStep
    <3>3. TypeOK'
      BY <1>4, <2>2, <3>1, <3>2 DEF TypeOK, count
    <3> QED
      BY <2>5, <2>6, <3>2, <3>3
  <2>8. CASE task # "commit"
    <3>1. Recovered /\ UNCHANGED count
      BY <1>4, <2>8
    <3>2. /\ WhenAway' /\ Control' /\ Here' /\ Installing' /\ Others' /\ AtRest'
          /\ task' \in {"none", "boot", "stage", "undo"}
          /\ at' \in Dirs /\ drop' \subseteq Dirs
          /\ result' \in {"none", "ok", "stage_failed", "commit_failed"}
      BY <1>1, <1>4, <2>1, <2>3, <2>4, <3>1, RecoveredStep
    <3>3. TypeOK'
      BY <1>4, <2>2, <3>1, <3>2 DEF TypeOK, count
    <3> QED
      BY <2>5, <2>6, <3>2, <3>3
  <2> QED
    BY <2>7, <2>8
<1> QED
    BY <1>2, <1>3, <1>4 DEF RemoveArtifacts

-----------------------------------------------------------------------------
(* Failing calls *)

\* A call fails, and staging or the commit is given up.
LEMMA FailGivesUp ==
    ASSUME IInv, UNCHANGED disk, UNCHANGED <<round, crashes>>,
           NEW S \in SUBSET Dirs, NEW why \in {"stage_failed", "commit_failed"},
           GiveUp(S, why), task # "boot", pc \notin WeakSteps \cup {"rename_in", "down"}
    PROVE  IInv'
<1>1. UNCHANGED <<exists, files, marker, marktmp, config, named, gen>>
    BY DEF disk
<1>2. \A d \in Dirs : d \in named => ~Away(d)'
    BY <1>1 DEF IInv, WhenAway, Away, WeakSteps
<1>3. /\ WhenAway' /\ Control' /\ Here' /\ Installing' /\ Others' /\ AtRest'
      /\ at' \in Dirs /\ drop' \subseteq Dirs /\ result' = why /\ task' = task
    BY <1>1, <1>2, GiveUpStep
<1>4. Absent' /\ PlainContent' /\ MountContent'
    BY DiskKept DEF WeakSteps
<1>5. TypeOK'
    BY <1>1, <1>3 DEF IInv, TypeOK
<1> QED
    BY <1>3, <1>4, <1>5 DEF IInv

\* A call fails, and the recovery of the mount point begins.
LEMMA FailUndoes ==
    ASSUME IInv, UNCHANGED disk, UNCHANGED <<round, crashes>>,
           pc \in Swapping \/ (pc \in Recovery /\ task = "commit"),
           pc' = "recover", task' = "undo", UNCHANGED <<at, drop, result>>
    PROVE  IInv'
<1> USE RestoreConstants DEF IInv
<1>1. /\ pc \notin {"roll_back", "rename_in", "undo_rename", "down"}
      /\ task = "commit" /\ at \in Mounts
    BY DEF Control, Swapping, Recovery
<1>2. TypeOK'
    BY DEF TypeOK, disk
<1>3. Absent' /\ PlainContent' /\ MountContent'
    BY <1>1, DiskKept
<1>4. WhenAway'
    BY <1>1 DEF disk, WhenAway, Away
<1>5. AtRest' /\ Control' /\ Installing' /\ Others'
    BY <1>1 DEF AtRest, Control, Installing, Others, Working, CommitSteps, Recovery, Swapping
<1>6. Here'
    BY <1>1 DEF disk, Here, MountContent, Away
<1> QED
    BY <1>2, <1>3, <1>4, <1>5, <1>6

\* A call fails, and the process goes on or down.
LEMMA FailGoesOn ==
    ASSUME IInv, UNCHANGED disk, UNCHANGED <<round, crashes, task, at>>,
           \/ /\ \/ pc = "rm_tmp" /\ pc' = "rm_old"
                 \/ pc = "rm_old" /\ pc' = "recover"
                 \/ pc \in Recovery \ {"roll_back"} /\ task = "boot" /\ pc' = "down"
                 \/ pc = "rename_in" /\ pc' = "undo_rename"
              /\ UNCHANGED <<drop, result>>
           \/ /\ pc \in {"config", "paths"} /\ pc' = "idle"
              /\ result' = "commit_failed" /\ drop' = drop
           \/ pc = "discard" /\ pc' = pc /\ drop' \subseteq drop /\ result' = result
    PROVE  IInv'
<1> USE RestoreConstants DEF IInv
<1>1. pc # "roll_back"
    BY DEF Recovery
<1>2. TypeOK'
    BY DEF TypeOK, disk
<1>3. Absent' /\ PlainContent' /\ MountContent'
    BY <1>1, DiskKept
<1>4. WhenAway'
    BY DEF disk, WhenAway, Away, Recovery
<1>5. Control'
    BY DEF Control, CommitSteps, Recovery, Swapping
<1>6. Here'
    BY DEF disk, Here, Away, Recovery
<1>7. AtRest' /\ Installing'
    BY DEF disk, AtRest, Installing, Recovery
<1>8. Others'
    BY DEF disk, Others, Working, Clean, Ready, Away, Recovery
<1> QED
    BY <1>2, <1>3, <1>4, <1>5, <1>6, <1>7, <1>8

LEMMA FailStep == IInv /\ Fail /\ WeakStepsGoWell => IInv'
<1> SUFFICES ASSUME IInv, Fail, WeakStepsGoWell PROVE IInv'
    OBVIOUS
<1>1. /\ pc \notin WeakSteps /\ UNCHANGED disk /\ UNCHANGED <<round, crashes>>
      /\ at \in Dirs /\ drop \subseteq Dirs
      /\ 1 .. at - 1 \in SUBSET Dirs /\ at .. N \in SUBSET Dirs
    BY RestoreConstants DEF IInv, Fail, TypeOK, Dirs, WeakStepsGoWell
<1>2. ASSUME NEW S \in SUBSET Dirs, NEW why \in {"stage_failed", "commit_failed"},
             GiveUp(S, why), task # "boot",
             pc \in Recovery \cup {"clear_tmp", "extract", "prepare", "rename_first",
                                   "discard_old"}
      PROVE  IInv'
    BY <1>1, <1>2, FailGivesUp DEF Recovery
<1>3. CASE \/ pc \in Recovery /\ task = "stage" /\ GiveUp(1 .. at - 1, "stage_failed")
           \/ pc \in {"clear_tmp", "extract"} /\ GiveUp(1 .. at - 1, "stage_failed")
    BY <1>1, <1>2, <1>3 DEF IInv, Control
<1>4. CASE /\ \/ pc = "prepare"
              \/ pc \in {"rename_first", "undo_rename", "discard_old"}
              \/ pc \in Recovery /\ task = "undo"
           /\ GiveUp(at .. N, "commit_failed")
    BY <1>1, <1>2, <1>4 DEF IInv, Control, CommitSteps, WeakSteps
<1>5. CASE /\ \/ pc \in Swapping
              \/ pc \in Recovery /\ task = "commit"
           /\ pc' = "recover" /\ task' = "undo" /\ UNCHANGED <<at, drop, result>>
    BY <1>1, <1>5, FailUndoes
<1>6. CASE \/ pc = "rm_tmp" /\ pc' = "rm_old" /\ UNCHANGED <<task, at, drop, result>>
           \/ pc = "rm_old" /\ pc' = "recover" /\ UNCHANGED <<task, at, drop, result>>
           \/ /\ pc \in Recovery /\ task = "boot"
              /\ pc' = "down" /\ UNCHANGED <<task, at, drop, result>>
           \/ pc = "rename_in" /\ pc' = "undo_rename" /\ UNCHANGED <<task, at, drop, result>>
    BY <1>1, <1>6, FailGoesOn DEF WeakSteps
<1>7. CASE \/ /\ pc \in {"config", "paths"}
              /\ pc' = "idle" /\ result' = "commit_failed" /\ UNCHANGED <<task, at, drop>>
           \/ /\ pc = "discard"
              /\ \E d \in drop : drop' = drop \ {d}
              /\ UNCHANGED <<pc, task, at, result>>
    BY <1>1, <1>7, FailGoesOn
<1> QED
    BY <1>1, <1>3, <1>4, <1>5, <1>6, <1>7 DEF Fail, WeakSteps

-----------------------------------------------------------------------------
(* Theorems *)

LEMMA NextInvariant == IInv /\ [Next]_vars /\ WeakStepsGoWell => IInv'
<1> SUFFICES ASSUME IInv, [Next]_vars, WeakStepsGoWell PROVE IInv'
    OBVIOUS
<1>1. CASE UNCHANGED vars
  <2>1. UNCHANGED disk /\ UNCHANGED <<pc, task, at, drop, result>> /\ UNCHANGED count
    BY <1>1 DEF vars
  <2>2. UNCHANGED <<exists, files, marker, marktmp, config, named, gen, round, crashes, failures>>
    BY <2>1 DEF disk, count
  <2>3. TypeOK' /\ Absent' /\ PlainContent' /\ MountContent'
    BY <2>1, <2>2 DEF IInv, TypeOK, Absent, PlainContent, MountContent, Away
  <2>4. WhenAway' /\ Control' /\ Installing' /\ AtRest'
    BY <2>1, <2>2 DEF IInv, WhenAway, Control, Installing, AtRest, Away, Clean
  <2>5. Here' /\ Others'
    BY <2>1, <2>2 DEF IInv, Here, Others, Away, Clean, Ready, Working
  <2> QED
    BY <2>3, <2>4, <2>5 DEF IInv
<1>2. CASE BeginRestore \/ ClearTmp \/ Extract \/ Staged
    BY <1>2, BeginRestoreStep, ClearTmpStep, ExtractStep, StagedStep
<1>3. CASE CommitConfig \/ Prepare \/ RenameIn \/ UndoRename \/ DiscardOld
    BY <1>3, CommitConfigStep, PrepareStep, RenameInStep, UndoRenameStep, DiscardOldStep
<1>4. CASE Mark \/ Evacuate \/ Install \/ SavePaths \/ Discard
    BY <1>4, MarkStep, EvacuateStep, InstallStep, SavePathsStep, DiscardStep
<1>5. CASE PassOver \/ RenameBack \/ RemoveTmp \/ RemoveOld \/ Recover
    BY <1>5, PassOverStep, RenameBackStep, RemoveTmpOnStart, RemoveOldStep, RecoverStep
<1>6. CASE Wipe \/ MoveBack \/ RemoveEvac \/ RemoveArtifacts
    BY <1>6, WipeStep, MoveBackStep, RemoveEvacStep, RemoveArtifactsStep
<1>7. CASE Fail \/ Crash \/ Start \/ \E d \in Dirs : Recreate(d)
    BY <1>7, FailStep, CrashStep, StartStep, RecreateStep
<1> QED
    BY <1>1, <1>2, <1>3, <1>4, <1>5, <1>6, <1>7 DEF Next

\* In every reachable state of a system whose weak steps go well, the
\* invariant holds: for each destination the disk says, in the way the
\* recovery reads it, where the content is.
THEOREM Invariance == ASSUME WeakStepsGoWell PROVE Spec => []IInv
<1>1. Init => IInv
    BY InitInvariant
<1>2. IInv /\ [Next]_vars => IInv'
    BY NextInvariant
<1> QED
    BY <1>1, <1>2, PTL DEF Spec

\* The variables have the values TypeOK gives them.
THEOREM TypeCorrect == ASSUME WeakStepsGoWell PROVE Spec => []TypeOK
<1>1. IInv => TypeOK
    BY DEF IInv
<1> QED
    BY <1>1, Invariance, PTL

\* Whatever calls fail and whenever the process dies, except in the weak
\* steps, no content that was put in place is lost.
THEOREM ContentSurvives == ASSUME WeakStepsGoWell PROVE Spec => []NothingLost
<1>1. IInv => NothingLost
  <2> SUFFICES ASSUME IInv, NEW d \in Dirs
               PROVE  Content(d, gen[d]) \subseteq
                         files[d]["dst"] \cup files[d]["evac"] \cup files[d]["old"]
    BY DEF NothingLost
  <2>1. CASE d \notin Mounts
    BY <2>1 DEF IInv, PlainContent, Away
  <2>2. CASE d \in Mounts
    BY <2>2 DEF IInv, TypeOK, States, MountContent
  <2> QED
    BY <2>1, <2>2
<1> QED
    BY <1>1, Invariance, PTL

\* When start-up has recovered, every destination that it knows of is all old
\* or all new.
THEOREM OldOrNew == ASSUME WeakStepsGoWell PROVE Spec => []WholeAfterStart
<1>1. IInv => WholeAfterStart
  <2> SUFFICES ASSUME IInv, pc = "idle", result = "none", NEW d \in named
               PROVE  files[d]["dst"] = Content(d, gen[d])
    BY DEF WholeAfterStart
  <2>1. Clean(d) /\ d \in Dirs
    BY DEF IInv, TypeOK, AtRest
  <2>2. CASE d \notin Mounts
    BY <2>1, <2>2 DEF IInv, PlainContent, Absent, Places, Clean, Away
  <2>3. CASE d \in Mounts
    BY <2>1, <2>3 DEF IInv, MountContent, Clean
  <2> QED
    BY <2>2, <2>3
<1> QED
    BY <1>1, Invariance, PTL

\* A reported success means that every destination and the configuration are
\* those of the restore.
THEOREM SuccessIsReal == ASSUME WeakStepsGoWell PROVE Spec => []SuccessMeansNew
<1>1. IInv => SuccessMeansNew
  <2> SUFFICES ASSUME IInv, pc = "idle", result = "ok"
               PROVE  /\ config = round
                      /\ \A d \in Dirs : gen[d] = round /\ files[d]["dst"] = Content(d, round)
    BY DEF SuccessMeansNew
  <2>1. config = round /\ \A d \in Dirs : Clean(d) /\ gen[d] = round
    BY DEF IInv, AtRest
  <2>2. ASSUME NEW d \in Dirs PROVE files[d]["dst"] = Content(d, round)
    <3>1. CASE d \notin Mounts
      BY <2>1, <3>1 DEF IInv, PlainContent, Absent, Places, Clean, Away
    <3>2. CASE d \in Mounts
      BY <2>1, <3>2 DEF IInv, MountContent, Clean
    <3> QED
      BY <3>1, <3>2
  <2> QED
    BY <2>1, <2>2
<1> QED
    BY <1>1, Invariance, PTL

\* Evacuated content is never left without a marker.
THEOREM EvacuationIsMarked ==
    ASSUME WeakStepsGoWell PROVE Spec => []MarkedEvacuation
<1>1. IInv => MarkedEvacuation
    BY RestoreConstants DEF IInv, PlainContent, MountContent, MarkedEvacuation
<1> QED
    BY <1>1, Invariance, PTL

=============================================================================
