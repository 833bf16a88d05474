----------------------------- MODULE CronManager -----------------------------
(***************************************************************************)
(* CronManager (app/crons/manager.py) and the repository of jobs and of    *)
(* their history (app/crons/repo/), for one job of one agent.              *)
(*                                                                         *)
(* A version of the job's specification and a semaphore are named by the   *)
(* edit that made them, a semaphore made by a run and a history lock by    *)
(* the run or edit.  Files are written by worker threads: what another     *)
(* task sees may change whenever a task awaits one.                        *)
(***************************************************************************)
EXTENDS Naturals, Sequences, FiniteSets

CONSTANTS
    Runs,     \* firings of the job, manual or by the scheduler
    Edits,    \* calls of create_or_replace_job and delete_job
    First,    \* the version of the job that is there at the beginning
    None,     \* no job, semaphore, lock or holder
    MaxCap,   \* bound: runtime.max_concurrency of a version
    Limit     \* CRON_HISTORY_LIMIT

ASSUME CronConstants ==
    /\ Runs \cap Edits = {} /\ First \notin Runs \cup Edits
    /\ None \notin Runs \cup Edits \cup {First}
    /\ MaxCap \in Nat \ {0} /\ Limit \in Nat

VARIABLES
    spec,     \* the version in jobs.json
    sched,    \* the scheduler's job: none, active, paused; or down
    lock,     \* holder of _lock over an await
    rt,       \* _rt[id].sem
    cap,      \* the permits a semaphore was made with
    states,   \* _states[id].last_status, or none
    file,     \* the history file, newest first
    cache,    \* _history[id], or None
    hlock,    \* _history_write_locks[id]
    kind,     \* what each run is: manual, scheduled or a record of a skipped one
    pc,       \* where it is
    sem,      \* the semaphore it waits for or holds
    hl,       \* the history lock a run or an edit waits for or holds
    records,  \* the records a run is about to write
    todo,     \* where each edit is
    reader,   \* get_history: what it has read, or None
    written,  \* history: runs in the order in which they were recorded
    hung,     \* runs of a text job whose message is never sent
    replaced, \* history: how many registered semaphores were put aside
    deleted,  \* history: delete_job has been called
    outdated  \* history: get_history has stored what was no longer the file

repoVars == <<spec, file, hlock>>
managerVars == <<sched, lock, rt, cap, states, cache>>
runVars == <<kind, pc, sem, hl, records, hung>>
history == <<written, replaced, deleted, outdated>>
vars == <<repoVars, managerVars, runVars, todo, reader, history>>

Makers == Runs \cup Edits \cup {First}
InFlight == {r \in Runs : pc[r] \notin {"idle", "done"}}
Newest(s) == IF Len(s) <= Limit THEN s ELSE SubSeq(s, 1, Limit)
Executing == {r \in Runs : pc[r] = "exec"}

\* start() has been called.  A job whose schedule it could not register is in
\* the file, switched off, and has neither a scheduler's job nor a semaphore.
Init ==
    /\ spec \in {First, None} /\ file = <<>> /\ hlock = None
    /\ lock = None
    /\ \/ spec = First /\ sched \in {"active", "paused"}
          /\ rt = First /\ states = "fresh"
       \/ sched = "none" /\ rt = None /\ states = "none"
    /\ \E n \in 1..MaxCap : cap = [m \in Makers |-> n]
    /\ cache = None
    /\ kind = [r \in Runs |-> "manual"]
    /\ pc = [r \in Runs |-> "idle"]
    /\ sem = [r \in Runs |-> None]
    /\ hl = [m \in Makers |-> None]
    /\ records = [r \in Runs |-> <<>>]
    /\ todo = [e \in Edits |-> "idle"]
    /\ reader = None
    /\ hung = {}
    /\ written = <<>> /\ replaced = 0 /\ deleted = FALSE /\ outdated = FALSE

----------------------------------------------------------------------------
(* The history of the job (json_repo.py).                                  *)

\* Mutant of GetHistoryLock: the lock of a job without history is not made.
FindHistoryLock(m) ==
    /\ hlock' = hlock
    /\ hl' = [hl EXCEPT ![m] = hlock]

\* _get_history_write_lock: task m gets the lock, which may be new.
GetHistoryLock(m) ==
    /\ hlock' = IF hlock = None THEN m ELSE hlock
    /\ hl' = [hl EXCEPT ![m] = hlock']

\* Mutant of HistoryFree: only delete_history locks.
NotDeleting(m) == \A e \in Edits : todo[e] = "unlink" => hl[e] # hl[m]

HistoryFree(m) ==
    /\ \A r \in Runs : pc[r] = "write" => hl[r] # hl[m]
    /\ \A e \in Edits : todo[e] = "unlink" => hl[e] # hl[m]

\* append_history: the lock is there and the file has been read ...
AppendReads(r) ==
    /\ pc[r] = "record" /\ HistoryFree(r)
    /\ pc' = [pc EXCEPT ![r] = "write"]
    /\ records' = [records EXCEPT ![r] = Newest(<<r>> \o file)]
    /\ UNCHANGED <<repoVars, managerVars, kind, sem, hl, hung, todo, reader,
                   history>>

\* ... and written.  The run is over; a scheduled one looks up its next time.
AppendWrites(r) ==
    /\ pc[r] = "write"
    /\ pc' = [pc EXCEPT ![r] = "done"]
    /\ file' = records[r] /\ cache' = records[r]
    /\ written' = <<r>> \o written
    /\ states' = IF kind[r] = "scheduled" /\ states = "none"
                 THEN "fresh" ELSE states
    /\ records' = [records EXCEPT ![r] = <<>>]
    /\ sem' = [sem EXCEPT ![r] = None] /\ hl' = [hl EXCEPT ![r] = None]
    /\ UNCHANGED <<spec, hlock, sched, lock, rt, cap, kind, hung, todo, reader,
                   replaced, deleted, outdated>>

\* get_history: what is not in memory is read from the file and kept.
HistoryRead ==
    /\ cache = None /\ reader = None
    /\ reader' = file
    /\ UNCHANGED <<repoVars, managerVars, runVars, todo, history>>

HistoryKept ==
    /\ reader # None /\ cache' = reader /\ reader' = None
    /\ outdated' = (outdated \/ reader # file)
    /\ UNCHANGED <<repoVars, sched, lock, rt, cap, states, runVars, todo, written,
                   replaced, deleted>>

----------------------------------------------------------------------------
(* Runs.                                                                   *)

\* run_job, or the scheduler calls _scheduled_callback: with max_instances
\* left at its default, it does so while no other such run is in flight.
Fire(r) ==
    /\ pc[r] = "idle"
    /\ pc' = [pc EXCEPT ![r] = "look"]
    /\ \/ kind' = [kind EXCEPT ![r] = "manual"]
       \/ /\ sched = "active"
          /\ \A o \in InFlight : kind[o] # "scheduled"
          /\ kind' = [kind EXCEPT ![r] = "scheduled"]
       \/ sched = "active" /\ kind' = [kind EXCEPT ![r] = "skipped"]
    /\ UNCHANGED <<repoVars, managerVars, sem, hl, records, hung, todo, reader,
                   history>>

\* The job is looked up in the repository.
LookUp(r) ==
    /\ pc[r] = "look"
    /\ pc' = [pc EXCEPT ![r] = IF spec = None THEN "done" ELSE "found"]
    /\ sem' = [sem EXCEPT ![r] = spec]
    /\ UNCHANGED <<repoVars, managerVars, kind, hl, records, hung, todo, reader,
                   history>>

\* _record_skipped.
RecordSkipped(r) ==
    /\ pc[r] = "found" /\ kind[r] = "skipped"
    /\ pc' = [pc EXCEPT ![r] = "record"]
    /\ states' = "skipped"
    /\ GetHistoryLock(r)
    /\ UNCHANGED <<spec, file, sched, lock, rt, cap, cache, kind, sem, records,
                   hung, todo, reader, history>>

\* Mutant of FindSemaphore: the new semaphore is not registered.
FindSemaphoreAlone(r) ==
    /\ pc[r] = "found" /\ kind[r] # "skipped"
    /\ pc' = [pc EXCEPT ![r] = "sem"]
    /\ cap' = IF rt = None THEN [cap EXCEPT ![r] = cap[sem[r]]] ELSE cap
    /\ sem' = [sem EXCEPT ![r] = IF rt = None THEN r ELSE rt]
    /\ UNCHANGED <<repoVars, sched, lock, rt, states, cache, kind, hl, records,
                   hung, todo, reader, history>>

\* _execute_once: the registered semaphore, or a new one with the limit of the
\* version that was looked up.
FindSemaphore(r) ==
    /\ pc[r] = "found" /\ kind[r] # "skipped"
    /\ pc' = [pc EXCEPT ![r] = "sem"]
    /\ rt' = IF rt = None THEN r ELSE rt
    /\ cap' = IF rt = None THEN [cap EXCEPT ![r] = cap[sem[r]]] ELSE cap
    /\ sem' = [sem EXCEPT ![r] = rt']
    /\ UNCHANGED <<repoVars, sched, lock, states, cache, kind, hl, records, hung,
                   todo, reader, history>>

\* A permit is held until the run is recorded.
Holders(s) == {r \in Runs : pc[r] \in {"exec", "record", "write"}
                              /\ kind[r] # "skipped" /\ sem[r] = s}

StartRun(r) ==
    /\ pc[r] = "sem" /\ Cardinality(Holders(sem[r])) < cap[sem[r]]
    /\ pc' = [pc EXCEPT ![r] = "exec"]
    /\ states' = "running"
    /\ UNCHANGED <<repoVars, sched, lock, rt, cap, cache, kind, sem, hl, records,
                   hung, todo, reader, history>>

\* The executor of a text job awaits send_text, on which there is no timeout.
SendHangs(r) ==
    /\ pc[r] = "exec" /\ hung' = hung \cup {r}
    /\ UNCHANGED <<repoVars, managerVars, kind, pc, sem, hl, records, todo, reader,
                   history>>

\* The executor returns or raises, the agent's at its timeout at the latest; the
\* finally clause.
EndRun(r) ==
    /\ pc[r] = "exec" /\ r \notin hung
    /\ pc' = [pc EXCEPT ![r] = "record"]
    /\ states' \in {"success", "error"}
    /\ GetHistoryLock(r)
    /\ UNCHANGED <<spec, file, sched, lock, rt, cap, cache, kind, sem, records,
                   hung, todo, reader, history>>

----------------------------------------------------------------------------
(* Edits, under _lock.                                                     *)

Locks(e) == todo[e] = "idle" /\ lock = None /\ lock' = e

Unlocks(e) ==
    /\ lock' = None /\ todo' = [todo EXCEPT ![e] = "done"]

\* create_or_replace_job: the version is saved first.
ReplaceBegins(e) ==
    /\ Locks(e) /\ todo' = [todo EXCEPT ![e] = "save"]
    /\ UNCHANGED <<repoVars, sched, rt, cap, states, cache, runVars, reader, history>>

ReplaceSaves(e) ==
    /\ todo[e] = "save" /\ todo' = [todo EXCEPT ![e] = "register"]
    /\ spec' = e
    /\ \E n \in 1..MaxCap : cap' = [cap EXCEPT ![e] = n]
    /\ UNCHANGED <<file, hlock, sched, lock, rt, states, cache, runVars, reader,
                   history>>

PutAside == replaced' = IF rt = None THEN replaced ELSE replaced + 1

\* Mutant of Register: the lock stays taken when the schedule is refused.
RegisterRaises(e) ==
    /\ todo[e] = "register" /\ todo' = [todo EXCEPT ![e] = "done"]
    /\ \/ /\ sched # "down" /\ lock' = None
          /\ sched' \in {"active", "paused"}
          /\ rt' = e
          /\ states' = IF states = "none" THEN "fresh" ELSE states
          /\ PutAside
       \/ UNCHANGED <<sched, lock, rt, states, replaced>>
    /\ UNCHANGED <<repoVars, cap, cache, runVars, reader, written, deleted, outdated>>

\* _register_or_update: a new semaphore and a new job of the scheduler.  A
\* schedule that no trigger can be built from changes neither, nor does a manager
\* that is not started; the version stays saved.
Register(e) ==
    /\ todo[e] = "register" /\ Unlocks(e)
    /\ \/ /\ sched # "down"
          /\ sched' \in {"active", "paused"}
          /\ rt' = e
          /\ states' = IF states = "none" THEN "fresh" ELSE states
          /\ PutAside
       \/ UNCHANGED <<sched, rt, states, replaced>>
    /\ UNCHANGED <<repoVars, cap, cache, runVars, reader, written, deleted, outdated>>

\* delete_job: what is in memory goes first ...
DeleteBegins(e) ==
    /\ Locks(e) /\ todo' = [todo EXCEPT ![e] = "take"]
    /\ sched' = IF sched = "down" THEN "down" ELSE "none"
    /\ states' = "none" /\ cache' = None
    /\ GetHistoryLock(e)
    /\ deleted' = TRUE
    /\ UNCHANGED <<spec, file, rt, cap, kind, pc, sem, records, hung, reader,
                   written, replaced, outdated>>

DeleteTakes(e) ==
    /\ todo[e] = "take" /\ HistoryFree(e)
    /\ todo' = [todo EXCEPT ![e] = "unlink"]
    /\ UNCHANGED <<repoVars, managerVars, runVars, reader, history>>

\* ... then the history file, its lock and the semaphore ...
DeleteUnlinks(e) ==
    /\ todo[e] = "unlink"
    /\ todo' = [todo EXCEPT ![e] = "erase"]
    /\ file' = <<>> /\ hlock' = None /\ rt' = None /\ PutAside
    /\ hl' = [hl EXCEPT ![e] = None]
    /\ UNCHANGED <<spec, sched, lock, cap, states, cache, kind, pc, sem, records,
                   hung, reader, written, deleted, outdated>>

\* ... and the job itself.
DeleteErases(e) ==
    /\ todo[e] = "erase" /\ Unlocks(e)
    /\ spec' = None
    /\ UNCHANGED <<file, hlock, sched, rt, cap, states, cache, runVars, reader,
                   history>>

\* pause_job and resume_job raise when the scheduler has no such job.
PauseOrResume ==
    /\ lock = None /\ sched \in {"active", "paused"}
    /\ sched' = IF sched = "active" THEN "paused" ELSE "active"
    /\ UNCHANGED <<repoVars, lock, rt, cap, states, cache, runVars, todo, reader,
                   history>>

\* Mutant of Stop: a cancelled run leaves its status as it was.
StopSilently ==
    /\ lock = None /\ sched # "down" /\ sched' = "down"
    /\ LET mine == {r \in InFlight : kind[r] = "scheduled"}
           cut == {r \in mine : pc[r] = "exec"}
           saved == {r \in mine : pc[r] = "write"}
       IN /\ pc' = [r \in Runs |-> IF r \in cut THEN "record"
                                   ELSE IF r \in mine THEN "done" ELSE pc[r]]
          /\ hung' = hung \ cut
          /\ UNCHANGED states
          /\ IF cut # {}
             THEN GetHistoryLock(CHOOSE r \in cut : TRUE)
             ELSE UNCHANGED <<hlock, hl>>
          /\ \/ UNCHANGED <<file, written, outdated>>
             \/ \E r \in saved : /\ file' = records[r]
                                 /\ written' = <<r>> \o written
                                 /\ outdated' = TRUE
    /\ UNCHANGED <<spec, lock, rt, cap, cache, kind, sem, records, todo, reader,
                   replaced, deleted>>

\* stop: the scheduler cancels its run.  In execute() it is recorded as such; a
\* worker thread that is writing is waited for, which leaves the cache behind.
Stop ==
    /\ lock = None /\ sched # "down" /\ sched' = "down"
    /\ LET mine == {r \in InFlight : kind[r] = "scheduled"}
           cut == {r \in mine : pc[r] = "exec"}
           saved == {r \in mine : pc[r] = "write"}
       IN /\ pc' = [r \in Runs |-> IF r \in cut THEN "record"
                                   ELSE IF r \in mine THEN "done" ELSE pc[r]]
          /\ hung' = hung \ cut
          /\ states' = IF cut # {} THEN "cancelled" ELSE states
          /\ IF cut # {}
             THEN GetHistoryLock(CHOOSE r \in cut : TRUE)
             ELSE UNCHANGED <<hlock, hl>>
          /\ \/ UNCHANGED <<file, written, outdated>>
             \/ \E r \in saved : /\ file' = records[r]
                                 /\ written' = <<r>> \o written
                                 /\ outdated' = TRUE
    /\ UNCHANGED <<spec, lock, rt, cap, cache, kind, sem, records, todo, reader,
                   replaced, deleted>>

----------------------------------------------------------------------------

RunStep(r) ==
    \/ LookUp(r) \/ RecordSkipped(r) \/ FindSemaphore(r) \/ StartRun(r)
    \/ EndRun(r) \/ AppendReads(r) \/ AppendWrites(r)

EditStep(e) ==
    \/ ReplaceSaves(e) \/ Register(e)
    \/ DeleteTakes(e) \/ DeleteUnlinks(e) \/ DeleteErases(e)

Next ==
    \/ HistoryRead \/ HistoryKept \/ PauseOrResume \/ Stop
    \/ \E r \in Runs : Fire(r) \/ SendHangs(r) \/ RunStep(r)
    \/ \E e \in Edits : ReplaceBegins(e) \/ DeleteBegins(e) \/ EditStep(e)

Spec == Init /\ [][Next]_vars

\* The event loop runs what is ready and the executor returns or times out,
\* unless it hangs.  Firings are finitely many here, so that weak fairness is
\* enough for those that wait for a lock or a permit.
FairSpec ==
    /\ Spec
    /\ \A r \in Runs : WF_vars(RunStep(r))
    /\ \A e \in Edits : WF_vars(EditStep(e))

----------------------------------------------------------------------------
(* Properties.                                                             *)

\* The types of the variables; who is about to write the history has a lock for it.
TypeOK ==
    /\ spec \in Edits \cup {First, None}
    /\ sched \in {"none", "active", "paused", "down"}
    /\ lock \in Edits \cup {None}
    /\ rt \in Makers \cup {None} /\ cap \in [Makers -> 1..MaxCap]
    /\ states \in {"none", "fresh", "running", "success", "error", "cancelled",
                   "skipped"}
    /\ file \in Seq(Runs) /\ (cache = None \/ cache \in Seq(Runs))
    /\ reader = None \/ reader \in Seq(Runs)
    /\ hlock \in Makers \cup {None} /\ hl \in [Makers -> Makers \cup {None}]
    /\ kind \in [Runs -> {"manual", "scheduled", "skipped"}]
    /\ pc \in [Runs -> {"idle", "look", "found", "sem", "exec", "record",
                        "write", "done"}]
    /\ sem \in [Runs -> Makers \cup {None}]
    /\ \A r \in Runs : pc[r] \in {"record", "write"} => hl[r] # None
    /\ records \in [Runs -> Seq(Runs)]
    /\ todo \in [Edits -> {"idle", "save", "register", "take", "unlink", "erase",
                           "done"}]
    /\ written \in Seq(Runs)
    /\ hung \subseteq Runs /\ replaced \in Nat
    /\ deleted \in BOOLEAN /\ outdated \in BOOLEAN

\* Runs that end together do not overwrite each other's record: the history of
\* a job that is not deleted holds the latest records, each once, and what the
\* manager keeps of it in memory is the file.
HistoryComplete ==
    ~deleted => /\ file = Newest(written)
                /\ outdated \/ cache = None \/ cache = file

\* Runs that have asked for a permit and not given it back.
Asked == {r \in Runs : pc[r] \in {"sem", "exec", "record", "write"}
                         /\ kind[r] # "skipped"}
InUse == {sem[r] : r \in Asked}

\* Updates and deletions put a semaphore aside that runs go on using, and a run
\* makes one where there is none; each of them admits max_concurrency runs.  Of
\* those no longer registered only as many are in use as were put aside, so that
\* n changes multiply the limit by n + 1 at most, and runs that meet at a
\* missing semaphore do not multiply it.
LimitBounded ==
    /\ \A s \in Makers : Cardinality(Holders(s)) <= cap[s]
    /\ Cardinality(InUse \ {rt}) <= replaced

\* A job shown as running does run, though runs share one status and deletes
\* and skipped firings reset it.
RunningIsTrue == states = "running" => Executing # {}

\* Every firing is over in the end, unless its own message is never sent or those
\* whose messages are not have all the permits; every edit gives the lock back.
AllEnds ==
    /\ \A r \in Runs :
         pc[r] = "look" ~>
           \/ pc[r] = "done" \/ r \in hung
           \/ pc[r] = "sem" /\ Cardinality(Holders(sem[r]) \cap hung) = cap[sem[r]]
    /\ \A e \in Edits : lock = e ~> lock # e
=============================================================================
