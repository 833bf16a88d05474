-------------------------- MODULE CronManager_proofs --------------------------
(* Machine-checked proofs about CronManager, for any number of runs, edits,  *)
(* permits and records.                                                      *)
EXTENDS CronManager, FiniteSetTheorems, SequenceTheorems, TLAPS

-----------------------------------------------------------------------------
(* The inductive invariant *)

\* Runs in flight are finitely many, one of the scheduler's at most; one that
\* was skipped takes no part in the semaphore.  Who found the job knows its
\* version.
RunsOK ==
    /\ IsFiniteSet(InFlight)
    /\ \A r, o \in InFlight :
          kind[r] = "scheduled" /\ kind[o] = "scheduled" => r = o
    /\ \A r \in Runs : kind[r] = "skipped" => pc[r] \notin {"sem", "exec"}
    /\ \A r \in Runs : pc[r] = "found" => sem[r] # None

\* Whose semaphore is not made yet.
Unmade == {r \in Runs : pc[r] \in {"idle", "look", "found"}}
            \cup {e \in Edits : todo[e] \in {"idle", "save"}}

\* The semaphores in use, and the one that is registered, have been made.
SemaphoreOK ==
    /\ IsFiniteSet(InUse) /\ InUse \subseteq Makers
    /\ InUse \cap Unmade = {} /\ rt \notin Unmade

\* Before a deletion those who record a run share one lock, and the one that
\* writes has put its record in front of what is in the file.
HistoryOK ==
    ~deleted =>
        /\ \A e \in Edits : todo[e] \notin {"take", "unlink", "erase"}
        /\ \A r \in Runs :
              pc[r] \in {"record", "write"} => hl[r] = hlock /\ hlock # None
        /\ \A r, o \in Runs : pc[r] = "write" /\ pc[o] = "write" => r = o
        /\ \A r \in Runs :
              pc[r] = "write" => records[r] = Newest(<<r>> \o file)

CronInv ==
    /\ TypeOK /\ RunsOK /\ SemaphoreOK /\ HistoryOK
    /\ HistoryComplete /\ LimitBounded /\ RunningIsTrue

-----------------------------------------------------------------------------
(* The latest records *)

LEMMA NewestIs ==
    ASSUME NEW s \in Seq(Runs)
    PROVE  /\ Newest(s) \in Seq(Runs)
           /\ Len(Newest(s)) = IF Len(s) <= Limit THEN Len(s) ELSE Limit
           /\ \A i \in 1..Len(Newest(s)) : Newest(s)[i] = s[i]
<1> USE CronConstants
<1>1. CASE Len(s) <= Limit
    BY <1>1 DEF Newest
<1>2. CASE ~(Len(s) <= Limit)
  <2>1. Newest(s) = SubSeq(s, 1, Limit) /\ Len(s) \in Nat
    BY <1>2 DEF Newest
  <2>2. \A i \in 1..Limit : s[i] \in Runs
    BY <1>2, <2>1, ElementOfSeq
  <2>3. /\ SubSeq(s, 1, Limit) \in Seq(Runs)
        /\ Len(SubSeq(s, 1, Limit)) = Limit
        /\ \A i \in 1..Limit : SubSeq(s, 1, Limit)[i] = s[i]
    BY <2>2, SubSeqProperties, <1>2
  <2> QED
    BY <1>2, <2>1, <2>3
<1> QED
    BY <1>1, <1>2

\* A record in front of the latest ones makes the latest of all.
LEMMA NewestOfNewest ==
    ASSUME NEW w \in Seq(Runs), NEW r \in Runs
    PROVE  /\ <<r>> \o w \in Seq(Runs)
           /\ Newest(<<r>> \o Newest(w)) = Newest(<<r>> \o w)
<1> USE CronConstants
<1> DEFINE n == Newest(w)
           a == <<r>> \o n
           b == <<r>> \o w
<1>1. /\ n \in Seq(Runs) /\ Len(w) \in Nat /\ Len(n) \in Nat
      /\ Len(n) = IF Len(w) <= Limit THEN Len(w) ELSE Limit
      /\ \A i \in 1..Len(n) : n[i] = w[i]
    BY NewestIs
<1> HIDE DEF n
<1>2. /\ a \in Seq(Runs) /\ Len(a) = Len(n) + 1
      /\ \A i \in 1..Len(a) : a[i] = IF i = 1 THEN r ELSE n[i - 1]
    BY <1>1
<1>3. /\ b \in Seq(Runs) /\ Len(b) = Len(w) + 1
      /\ \A i \in 1..Len(b) : b[i] = IF i = 1 THEN r ELSE w[i - 1]
    OBVIOUS
<1> HIDE DEF a, b
<1>4. /\ Newest(a) \in Seq(Runs)
      /\ Len(Newest(a)) = IF Len(a) <= Limit THEN Len(a) ELSE Limit
      /\ \A i \in 1..Len(Newest(a)) : Newest(a)[i] = a[i]
    BY <1>2, NewestIs
<1>5. /\ Newest(b) \in Seq(Runs)
      /\ Len(Newest(b)) = IF Len(b) <= Limit THEN Len(b) ELSE Limit
      /\ \A i \in 1..Len(Newest(b)) : Newest(b)[i] = b[i]
    BY <1>3, NewestIs
<1>6. Len(Newest(a)) = Len(Newest(b))
    BY <1>1, <1>2, <1>3, <1>4, <1>5
<1>7. \A i \in 1..Len(Newest(a)) : Newest(a)[i] = Newest(b)[i]
  <2> TAKE i \in 1..Len(Newest(a))
  <2>1. i \in 1..Len(a) /\ i \in 1..Len(b) /\ i \in 1..Len(Newest(b))
    BY <1>1, <1>2, <1>3, <1>4, <1>5, <1>6
  <2>2. CASE i = 1
    BY <1>2, <1>3, <1>4, <1>5, <2>1, <2>2
  <2>3. CASE i # 1
    <3>1. i - 1 \in 1..Len(n)
      BY <1>1, <1>2, <2>1, <2>3
    <3>2. a[i] = n[i - 1] /\ b[i] = w[i - 1] /\ n[i - 1] = w[i - 1]
      BY <1>1, <1>2, <1>3, <2>1, <2>3, <3>1
    <3> QED
      BY <1>4, <1>5, <2>1, <3>2
  <2> QED
    BY <2>2, <2>3
<1>8. Newest(a) = Newest(b)
    BY <1>4, <1>5, <1>6, <1>7, SeqEqual
<1> QED
    BY <1>3, <1>8 DEF a, b, n

-----------------------------------------------------------------------------
(* Each conjunct along the steps *)

LEMMA InitCron == Init => CronInv
<1> USE CronConstants
<1> SUFFICES ASSUME Init PROVE CronInv
    OBVIOUS
<1>1. TypeOK
  <2>1. cap \in [Makers -> 1..MaxCap] /\ rt \in Makers \cup {None}
    BY DEF Init, Makers
  <2>2. spec \in Edits \cup {First, None} /\ file \in Seq(Runs)
        /\ written \in Seq(Runs) /\ records \in [Runs -> Seq(Runs)]
    BY DEF Init
  <2>3. /\ hl \in [Makers -> Makers \cup {None}]
        /\ sem \in [Runs -> Makers \cup {None}]
    BY DEF Init
  <2> QED
    BY <2>1, <2>2, <2>3 DEF Init, TypeOK
<1>2. InFlight = {} /\ Asked = {} /\ InUse = {} /\ \A s : Holders(s) = {}
    BY DEF Init, InFlight, Asked, InUse, Holders
<1>3. Cardinality({}) = 0 /\ IsFiniteSet({})
    BY FS_EmptySet
<1>4. RunsOK
    BY <1>2, <1>3 DEF Init, RunsOK
<1>5. SemaphoreOK
    BY <1>2, <1>3 DEF Init, SemaphoreOK, Unmade, Makers
<1>6. HistoryOK
    BY DEF Init, HistoryOK
<1>7. HistoryComplete
    BY DEF Init, HistoryComplete, Newest
<1>8. LimitBounded
  <2>1. cap \in [Makers -> 1..MaxCap] /\ replaced = 0
    BY <1>1 DEF TypeOK, Init
  <2> QED
    BY <1>2, <1>3, <2>1 DEF LimitBounded
<1>9. RunningIsTrue
    BY DEF Init, RunningIsTrue
<1> QED
    BY <1>1, <1>4, <1>5, <1>6, <1>7, <1>8, <1>9 DEF CronInv

LEMMA NextTypes ==
    ASSUME TypeOK, RunsOK, [Next]_vars
    PROVE  TypeOK'
<1> USE CronConstants
<1> USE DEF repoVars, managerVars, runVars, history
<1> USE DEF TypeOK, Makers
<1>1. ASSUME NEW r \in Runs, Fire(r) \/ SendHangs(r) \/ RunStep(r) PROVE TypeOK'
  <2>1. CASE Fire(r)
    <3>1. \E k \in {"manual", "scheduled", "skipped"} :
             kind' = [kind EXCEPT ![r] = k]
      BY <2>1 DEF Fire
    <3>2. kind' \in [Runs -> {"manual", "scheduled", "skipped"}]
      BY <3>1
    <3>3. /\ pc' = [pc EXCEPT ![r] = "look"]
          /\ UNCHANGED <<repoVars, managerVars, sem, hl, records, hung, todo, reader,
                         history>>
      BY <2>1 DEF Fire
    <3>4. /\ pc' \in [Runs -> {"idle", "look", "found", "sem", "exec", "record",
                               "write", "done"}]
          /\ \A o \in Runs : pc'[o] \in {"record", "write"} => hl'[o] # None
      BY <3>3
    <3> QED
      BY <3>2, <3>3, <3>4
  <2>2. CASE LookUp(r)
    BY <2>2 DEF LookUp
  <2>3. CASE RecordSkipped(r)
    BY SMTT(30), <2>3 DEF RecordSkipped, GetHistoryLock
  <2>4. CASE FindSemaphore(r)
    <3>1. rt' \in Makers /\ cap' \in [Makers -> 1..MaxCap]
      BY <2>4 DEF FindSemaphore, RunsOK
    <3>2. /\ pc' = [pc EXCEPT ![r] = "sem"] /\ sem' = [sem EXCEPT ![r] = rt']
          /\ UNCHANGED <<repoVars, sched, lock, states, cache, kind, hl, records,
                         hung, todo, reader, history>>
      BY <2>4 DEF FindSemaphore
    <3>3. sem' \in [Runs -> Makers \cup {None}]
      BY <3>1, <3>2
    <3>4. /\ pc' \in [Runs -> {"idle", "look", "found", "sem", "exec", "record",
                               "write", "done"}]
          /\ \A o \in Runs : pc'[o] \in {"record", "write"} => hl'[o] # None
      BY <3>2
    <3>5. /\ spec' \in Edits \cup {First, None} /\ lock' \in Edits \cup {None}
          /\ file' \in Seq(Runs) /\ (cache' = None \/ cache' \in Seq(Runs))
          /\ reader' = None \/ reader' \in Seq(Runs)
          /\ hlock' \in Makers \cup {None}
          /\ hl' \in [Makers -> Makers \cup {None}]
          /\ records' \in [Runs -> Seq(Runs)]
      BY <3>2
    <3> QED
      BY <3>1, <3>2, <3>3, <3>4, <3>5
  <2>5. CASE StartRun(r)
    <3>1. /\ pc' = [pc EXCEPT ![r] = "exec"] /\ states' = "running"
          /\ UNCHANGED <<repoVars, sched, lock, rt, cap, cache, kind, sem, hl,
                         records, hung, todo, reader, history>>
      BY <2>5 DEF StartRun
    <3> QED
      BY <3>1
  <2>6. CASE EndRun(r)
    BY <2>6 DEF EndRun, GetHistoryLock
  <2>7. CASE AppendReads(r)
    <3>1. <<r>> \o file \in Seq(Runs)
      OBVIOUS
    <3>2. Newest(<<r>> \o file) \in Seq(Runs)
      BY <3>1, NewestIs
    <3>3. /\ pc[r] = "record" /\ pc' = [pc EXCEPT ![r] = "write"]
          /\ records' \in [Runs -> Seq(Runs)]
          /\ UNCHANGED <<repoVars, managerVars, kind, sem, hl, hung, todo, reader,
                         history>>
      BY <2>7, <3>2 DEF AppendReads
    <3> QED
      BY SMTT(30), <3>3
  <2>8. CASE AppendWrites(r)
    BY <2>8 DEF AppendWrites
  <2>9. CASE SendHangs(r)
    <3>1. /\ hung' \subseteq Runs
          /\ UNCHANGED <<repoVars, managerVars, kind, pc, sem, hl, records, todo,
                         reader, history>>
      BY <2>9 DEF SendHangs
    <3> QED
      BY <3>1
  <2> QED
    BY <1>1, <2>1, <2>2, <2>3, <2>4, <2>5, <2>6, <2>7, <2>8, <2>9
    DEF RunStep
<1>2. ASSUME NEW e \in Edits,
              ReplaceBegins(e) \/ DeleteBegins(e) \/ EditStep(e)
      PROVE  TypeOK'
  <2>1. CASE ReplaceBegins(e)
    BY <2>1 DEF ReplaceBegins, Locks
  <2>2. CASE DeleteBegins(e)
    BY <2>2 DEF DeleteBegins, Locks, GetHistoryLock
  <2>3. CASE ReplaceSaves(e)
    BY <2>3 DEF ReplaceSaves
  <2>4. CASE Register(e)
    <3>1. /\ sched' \in {"none", "active", "paused", "down"}
          /\ rt' \in Makers \cup {None} /\ replaced' \in Nat
          /\ states' \in {"none", "fresh", "running", "success", "error",
                          "cancelled", "skipped"}
          /\ lock' = None /\ todo' = [todo EXCEPT ![e] = "done"]
          /\ UNCHANGED <<repoVars, cap, cache, runVars, reader, written, deleted,
                         outdated>>
      BY <2>4 DEF Register, Unlocks, PutAside
    <3>2. /\ todo' \in [Edits -> {"idle", "save", "register", "take", "unlink",
                                  "erase", "done"}]
          /\ \A r \in Runs : pc'[r] \in {"record", "write"} => hl'[r] # None
      BY <3>1
    <3> QED
      BY <3>1, <3>2
  <2>5. CASE DeleteTakes(e)
    BY <2>5 DEF DeleteTakes
  <2>6. CASE DeleteUnlinks(e)
    <3>1. /\ replaced' \in Nat /\ rt' = None /\ hlock' = None /\ file' = <<>>
          /\ hl' = [hl EXCEPT ![e] = None] /\ todo' = [todo EXCEPT ![e] = "erase"]
          /\ UNCHANGED <<spec, sched, lock, cap, states, cache, kind, pc, sem,
                         records, hung, reader, written, deleted, outdated>>
      BY <2>6 DEF DeleteUnlinks, PutAside
    <3>2. /\ hl' \in [Makers -> Makers \cup {None}]
          /\ \A o \in Runs : pc'[o] \in {"record", "write"} => hl'[o] # None
      BY <3>1
    <3> QED
      BY <3>1, <3>2
  <2>7. CASE DeleteErases(e)
    BY <2>7 DEF DeleteErases, Unlocks
  <2> QED
    BY <1>2, <2>1, <2>2, <2>3, <2>4, <2>5, <2>6, <2>7
    DEF EditStep
<1>3. CASE HistoryRead
    BY <1>3 DEF HistoryRead
<1>4. CASE HistoryKept
    BY <1>4 DEF HistoryKept
<1>5. CASE PauseOrResume
    BY <1>5 DEF PauseOrResume
<1>6. CASE Stop
  <2> DEFINE mine == {r \in InFlight : kind[r] = "scheduled"}
             cut == {r \in mine : pc[r] = "exec"}
             saved == {r \in mine : pc[r] = "write"}
  <2>1. \A r, o \in cut : r = o
    BY DEF RunsOK
  <2>2. cut \subseteq Runs /\ saved \subseteq Runs
    BY DEF InFlight
  <2>3. /\ pc' = [r \in Runs |-> IF r \in cut THEN "record"
                                 ELSE IF r \in mine THEN "done" ELSE pc[r]]
        /\ sched' = "down" /\ hung' \subseteq hung
        /\ states' = IF cut # {} THEN "cancelled" ELSE states
        /\ IF cut # {} THEN GetHistoryLock(CHOOSE r \in cut : TRUE)
                       ELSE UNCHANGED <<hlock, hl>>
        /\ \/ UNCHANGED <<file, written, outdated>>
           \/ \E r \in saved : /\ file' = records[r]
                               /\ written' = <<r>> \o written
                               /\ outdated' = TRUE
        /\ UNCHANGED <<spec, lock, rt, cap, cache, kind, sem, records, todo,
                       reader, replaced, deleted>>
    BY <1>6 DEF Stop
  <2> HIDE DEF cut, saved, mine
  <2>4. file' \in Seq(Runs) /\ written' \in Seq(Runs) /\ outdated' \in BOOLEAN
    <3>1. CASE UNCHANGED <<file, written, outdated>>
      BY <3>1
    <3>2. ASSUME NEW r \in saved, file' = records[r], written' = <<r>> \o written,
                 outdated' = TRUE
          PROVE  file' \in Seq(Runs) /\ written' \in Seq(Runs)
      BY <2>2, <3>2
    <3> QED
      BY <2>3, <3>1, <3>2
  <2>5. /\ hlock' \in Makers \cup {None} /\ hl' \in [Makers -> Makers \cup {None}]
        /\ \A r \in Runs \ cut : hl[r] # None => hl'[r] # None
        /\ \A r \in cut : hl'[r] # None
    <3>1. CASE cut = {}
      BY <2>3, <3>1
    <3>2. CASE cut # {}
      <4> DEFINE c == CHOOSE r \in cut : TRUE
      <4>1. c \in cut
        BY <3>2
      <4> HIDE DEF c
      <4>2. cut = {c} /\ c \in Makers
        BY <2>1, <2>2, <4>1
      <4>3. GetHistoryLock(c)
        BY <2>3, <3>2 DEF c
      <4> QED
        BY <4>1, <4>2, <4>3 DEF GetHistoryLock
    <3> QED
      BY <3>1, <3>2
  <2>6. /\ pc' \in [Runs -> {"idle", "look", "found", "sem", "exec", "record",
                             "write", "done"}]
        /\ \A r \in Runs : pc'[r] \in {"record", "write"} => hl'[r] # None
    BY <2>3, <2>5
  <2> QED
    BY <2>3, <2>4, <2>5, <2>6
<1>7. CASE UNCHANGED vars
    BY <1>7 DEF vars
<1> QED
    BY <1>1, <1>2, <1>3, <1>4, <1>5, <1>6, <1>7 DEF Next

\* The state of the runs at the steps of edits and the rest.
LEMMA EditsLeaveRuns ==
    ASSUME NEW e \in Edits, ReplaceBegins(e) \/ DeleteBegins(e) \/ EditStep(e)
    PROVE  /\ UNCHANGED <<kind, pc, sem, records, hung, written>>
           /\ todo[e] = "idle" => lock = None
BY DEF ReplaceBegins, DeleteBegins, EditStep, ReplaceSaves, Register,
       DeleteTakes, DeleteUnlinks, DeleteErases, Locks, Unlocks, repoVars,
       managerVars, runVars, history

LEMMA OthersLeaveRuns ==
    ASSUME HistoryRead \/ HistoryKept \/ PauseOrResume \/ UNCHANGED vars
    PROVE  /\ UNCHANGED <<runVars, todo, spec, file, hlock, lock, rt, cap, states>>
           /\ UNCHANGED <<written, replaced, deleted>>
BY DEF HistoryRead, HistoryKept, PauseOrResume, vars, repoVars, managerVars,
       runVars, history

\* The same at a step of a run: what edits have to do with is left alone, and
\* a semaphore is made only where there is none.
LEMMA RunsLeaveEdits ==
    ASSUME NEW r \in Runs, Fire(r) \/ SendHangs(r) \/ RunStep(r), TypeOK
    PROVE  /\ UNCHANGED <<spec, lock, todo, replaced, deleted>>
           /\ \A o \in Runs \ {r} : pc'[o] = pc[o] /\ kind'[o] = kind[o]
           /\ pc[r] = "idle" <=> Fire(r)
<1> USE DEF repoVars, managerVars, runVars, history, TypeOK
<1>1. CASE Fire(r) \/ SendHangs(r)
    BY <1>1 DEF Fire, SendHangs
<1>2. CASE RunStep(r)
    BY <1>2 DEF RunStep, Fire, LookUp, RecordSkipped, FindSemaphore, StartRun,
       EndRun, AppendReads, AppendWrites
<1> QED
    BY <1>1, <1>2

LEMMA FiniteWithOneMore ==
    ASSUME NEW r, IsFiniteSet(InFlight), InFlight' \subseteq InFlight \cup {r}
    PROVE  IsFiniteSet(InFlight')
<1>1. IsFiniteSet(InFlight \cup {r})
    BY FS_AddElement
<1> QED
    BY <1>1, FS_Subset

LEMMA NextRunsOK ==
    ASSUME TypeOK, RunsOK, [Next]_vars
    PROVE  RunsOK'
<1> USE DEF TypeOK, RunsOK, InFlight
<1>1. ASSUME NEW r \in Runs, Fire(r) PROVE RunsOK'
  <2>1. InFlight' \subseteq InFlight \cup {r}
    BY <1>1 DEF Fire
  <2>2. IsFiniteSet(InFlight')
    BY <2>1, FiniteWithOneMore
  <2> QED
    BY <1>1, <2>2 DEF Fire
<1>2. ASSUME NEW r \in Runs, SendHangs(r) \/ RunStep(r) PROVE RunsOK'
  <2>1. /\ kind' = kind /\ pc[r] \notin {"idle", "done"}
        /\ kind[r] = "skipped" => pc'[r] \notin {"sem", "exec"}
        /\ pc'[r] = "found" => sem'[r] # None
        /\ \A o \in Runs \ {r} : pc'[o] = pc[o] /\ sem'[o] = sem[o]
    BY <1>2 DEF RunStep, SendHangs, LookUp, RecordSkipped, FindSemaphore,
       StartRun, EndRun, AppendReads, AppendWrites, runVars
  <2>2. InFlight' \subseteq InFlight
    BY <2>1
  <2>3. IsFiniteSet(InFlight')
    BY <2>2, FS_Subset
  <2> QED
    BY <2>1, <2>2, <2>3
<1>3. ASSUME NEW e \in Edits, ReplaceBegins(e) \/ DeleteBegins(e) \/ EditStep(e)
      PROVE  RunsOK'
    BY <1>3, EditsLeaveRuns
<1>4. CASE HistoryRead \/ HistoryKept \/ PauseOrResume \/ UNCHANGED vars
    BY <1>4, OthersLeaveRuns DEF runVars
<1>5. CASE Stop
  <2>1. kind' = kind /\ sem' = sem /\ \A r \in Runs :
          pc'[r] = pc[r] \/ (pc[r] \notin {"idle", "done"}
                              /\ pc'[r] \in {"record", "done"})
    BY <1>5 DEF Stop
  <2>2. InFlight' \subseteq InFlight
    BY <2>1
  <2>3. IsFiniteSet(InFlight')
    BY <2>2, FS_Subset
  <2> QED
    BY <2>1, <2>2, <2>3
<1> QED
    BY <1>1, <1>2, <1>3, <1>4, <1>5 DEF Next

\* A step of a run that looks for no semaphore brings none into use.
LEMMA RunsUseNoMore ==
    ASSUME NEW r \in Runs, TypeOK, RunsOK,
           Fire(r) \/ SendHangs(r) \/ (RunStep(r) /\ ~FindSemaphore(r))
    PROVE  /\ UNCHANGED <<rt, cap, replaced, todo>>
           /\ Asked' \subseteq Asked /\ \A o \in Asked' : sem'[o] = sem[o]
           /\ \A o \in Runs : pc'[o] \in {"idle", "look", "found"} =>
                                pc[o] \in {"idle", "look", "found"}
<1> USE DEF repoVars, managerVars, runVars, history
<1>1. UNCHANGED <<rt, cap, replaced, todo>>
    BY DEF Fire, SendHangs, RunStep, LookUp, RecordSkipped, StartRun, EndRun,
       AppendReads, AppendWrites
<1>2. /\ \A o \in Runs \ {r} : UNCHANGED <<pc[o], kind[o], sem[o]>>
      /\ pc'[r] \in {"idle", "look", "found"} => pc[r] \in {"idle", "look", "found"}
      /\ pc'[r] \in {"sem", "exec", "record", "write"} /\ kind'[r] # "skipped" =>
           /\ pc[r] \in {"sem", "exec", "record", "write"} /\ kind[r] # "skipped"
           /\ sem'[r] = sem[r]
  <2>1. CASE Fire(r) \/ SendHangs(r)
    BY <2>1 DEF Fire, SendHangs, TypeOK
  <2>2. CASE LookUp(r) \/ RecordSkipped(r)
    BY <2>2 DEF LookUp, RecordSkipped, TypeOK
  <2>3. CASE StartRun(r) \/ EndRun(r)
    BY <2>3 DEF StartRun, EndRun, TypeOK
  <2>4. CASE AppendReads(r) \/ AppendWrites(r)
    BY <2>4 DEF AppendReads, AppendWrites, TypeOK
  <2> QED
    BY <2>1, <2>2, <2>3, <2>4 DEF RunStep
<1> QED
    BY <1>1, <1>2 DEF Asked

LEMMA InUseShrinks ==
    ASSUME Asked' \subseteq Asked, \A o \in Asked' : sem'[o] = sem[o]
    PROVE  InUse' \subseteq InUse
BY DEF InUse

\* Who finds a semaphore, or none, shares the one that is registered then.
LEMMA FindShares ==
    ASSUME NEW r \in Runs, FindSemaphore(r), TypeOK, RunsOK, SemaphoreOK
    PROVE  /\ rt' = (IF rt = None THEN r ELSE rt) /\ rt' \in Makers
           /\ InUse' \subseteq InUse \cup {rt'} /\ replaced' = replaced
           /\ \A s \in Makers : Holders(s)' = Holders(s)
           /\ \A s \in Makers \ {r} : cap'[s] = cap[s]
           /\ cap' \in [Makers -> 1..MaxCap]
<1> USE CronConstants DEF TypeOK, RunsOK, Makers
<1>1. /\ pc[r] = "found" /\ kind[r] # "skipped" /\ kind' = kind
      /\ pc' = [pc EXCEPT ![r] = "sem"] /\ sem' = [sem EXCEPT ![r] = rt']
      /\ rt' = (IF rt = None THEN r ELSE rt) /\ replaced' = replaced
      /\ cap' = IF rt = None THEN [cap EXCEPT ![r] = cap[sem[r]]] ELSE cap
    BY DEF FindSemaphore, history
<1>2. Asked' = Asked \cup {r} /\ r \notin Asked
    BY <1>1 DEF Asked
<1>3. \A o \in Asked : sem'[o] = sem[o] /\ sem'[r] = rt'
    BY <1>1, <1>2 DEF Asked
<1>4. InUse' \subseteq InUse \cup {rt'}
  <2> SUFFICES ASSUME NEW u \in InUse'
               PROVE  u \in InUse \cup {rt'}
    OBVIOUS
  <2>1. PICK o \in Asked' : u = sem'[o]
    BY DEF InUse
  <2>2. CASE o = r
    BY <1>1, <2>1, <2>2
  <2>3. CASE o \in Asked
    BY <1>3, <2>1, <2>3 DEF InUse
  <2> QED
    BY <1>2, <2>1, <2>2, <2>3
<1>5. \A s \in Makers : Holders(s)' = Holders(s)
    BY <1>1 DEF Holders
<1>6. cap' \in [Makers -> 1..MaxCap] /\ \A s \in Makers \ {r} : cap'[s] = cap[s]
    BY <1>1
<1> QED
    BY <1>1, <1>4, <1>5, <1>6

LEMMA NextSemaphore ==
    ASSUME TypeOK, RunsOK, SemaphoreOK, [Next]_vars
    PROVE  SemaphoreOK'
<1> USE CronConstants
<1> USE DEF SemaphoreOK
\* A step that brings no semaphore into use.
<1>1. ASSUME InUse' \subseteq InUse, Unmade' \subseteq Unmade, rt' \notin Unmade'
      PROVE  SemaphoreOK'
  <2>1. IsFiniteSet(InUse')
    BY <1>1, FS_Subset
  <2> QED
    BY <1>1, <2>1
<1>2. ASSUME NEW r \in Runs,
              Fire(r) \/ SendHangs(r) \/ (RunStep(r) /\ ~FindSemaphore(r))
      PROVE  SemaphoreOK'
  <2>1. InUse' \subseteq InUse
    BY <1>2, RunsUseNoMore, InUseShrinks
  <2>2. Unmade' \subseteq Unmade /\ rt' = rt
    BY <1>2, RunsUseNoMore DEF Unmade
  <2> QED
    BY <1>1, <2>1, <2>2
<1>3. ASSUME NEW r \in Runs, FindSemaphore(r) PROVE SemaphoreOK'
  <2>1. IsFiniteSet(InUse')
    BY <1>3, FindShares, FS_AddElement, FS_Subset
  <2>2. Unmade' = Unmade \ {r}
    BY <1>3 DEF FindSemaphore, Unmade, TypeOK
  <2>3. rt' \notin Unmade'
    BY <1>3, FindShares, <2>2
  <2> QED
    BY <1>3, FindShares, <2>1, <2>2, <2>3
<1>4. ASSUME NEW e \in Edits, ReplaceBegins(e) \/ DeleteBegins(e) \/ EditStep(e)
      PROVE  SemaphoreOK'
  <2>1. InUse' \subseteq InUse
    BY <1>4, EditsLeaveRuns, InUseShrinks DEF Asked
  <2>2. /\ \A x \in Edits : todo'[x] \in {"idle", "save"} =>
                                todo[x] \in {"idle", "save"}
        /\ rt' \in {rt, None} \/ (rt' = e /\ todo'[e] = "done")
    BY <1>4 DEF EditStep, ReplaceBegins, DeleteBegins, ReplaceSaves, Register,
       DeleteTakes, DeleteUnlinks, DeleteErases, Locks, Unlocks, TypeOK,
       managerVars
  <2>3. Unmade' \subseteq Unmade
    BY <1>4, <2>2, EditsLeaveRuns DEF Unmade
  <2>4. rt' \notin Unmade'
    BY <2>2, <2>3 DEF Unmade
  <2> QED
    BY <1>1, <2>1, <2>3, <2>4
<1>5. CASE HistoryRead \/ HistoryKept \/ PauseOrResume \/ UNCHANGED vars
    BY <1>5, OthersLeaveRuns DEF runVars, InUse, Asked, Unmade
<1>6. CASE Stop
  <2>1. /\ Asked' \subseteq Asked /\ \A o \in Asked' : sem'[o] = sem[o]
        /\ rt' = rt /\ Unmade' \subseteq Unmade
    BY <1>6 DEF Stop, Asked, Unmade, InFlight
  <2> QED
    BY <1>1, <2>1, InUseShrinks
<1> QED
    BY <1>2, <1>3, <1>4, <1>5, <1>6 DEF Next, RunStep

LEMMA OneMore ==
    ASSUME NEW S, NEW x, NEW T, IsFiniteSet(S), T \subseteq S \cup {x}
    PROVE  /\ Cardinality(T) <= Cardinality(S) + 1
           /\ Cardinality(T) \in Nat /\ Cardinality(S) \in Nat
<1>1. IsFiniteSet(S \cup {x}) /\ Cardinality(S) \in Nat
    BY FS_AddElement, FS_CardinalityType
<1>2. /\ Cardinality(S \cup {x}) = Cardinality(S)
        \/ Cardinality(S \cup {x}) = Cardinality(S) + 1
    BY FS_AddElement
<1>3. /\ Cardinality(T) <= Cardinality(S \cup {x}) /\ IsFiniteSet(T)
      /\ Cardinality(S \cup {x}) \in Nat
    BY <1>1, FS_Subset, FS_CardinalityType
<1>4. Cardinality(T) \in Nat
    BY <1>3, FS_CardinalityType
<1> QED
    BY <1>1, <1>2, <1>3, <1>4

\* A step that takes no permit keeps the limit of each semaphore.
LEMMA NoNewHolder ==
    ASSUME NEW s \in Makers, TypeOK, RunsOK, LimitBounded,
           Holders(s)' \subseteq Holders(s), cap'[s] = cap[s]
    PROVE  Cardinality(Holders(s)') <= cap'[s]
<1>1. IsFiniteSet(Holders(s))
    BY FS_Subset DEF RunsOK, Holders, InFlight
<1>2. /\ Cardinality(Holders(s)') <= Cardinality(Holders(s))
      /\ Cardinality(Holders(s)) \in Nat /\ Cardinality(Holders(s)') \in Nat
    BY <1>1, FS_Subset, FS_CardinalityType
<1>3. cap[s] \in Nat /\ Cardinality(Holders(s)) <= cap[s]
    BY CronConstants DEF TypeOK, LimitBounded
<1> QED
    BY <1>2, <1>3

\* Without a change of the registered semaphore none is put aside, ...
LEMMA NoneAside ==
    ASSUME TypeOK, SemaphoreOK, LimitBounded, replaced' = replaced,
           InUse' \ {rt'} \subseteq InUse \ {rt}
    PROVE  Cardinality(InUse' \ {rt'}) <= replaced'
<1>1. IsFiniteSet(InUse \ {rt})
    BY FS_Subset DEF SemaphoreOK
<1>2. /\ Cardinality(InUse' \ {rt'}) <= Cardinality(InUse \ {rt})
      /\ Cardinality(InUse \ {rt}) \in Nat
      /\ Cardinality(InUse' \ {rt'}) \in Nat
    BY <1>1, FS_Subset, FS_CardinalityType
<1> QED
    BY <1>2 DEF TypeOK, LimitBounded

\* ... and with one, one at most.
LEMMA OneAside ==
    ASSUME TypeOK, SemaphoreOK, LimitBounded, PutAside, InUse' \subseteq InUse
    PROVE  Cardinality(InUse' \ {rt'}) <= replaced'
<1>1. CASE rt = None
  <2>1. None \notin InUse
    BY CronConstants DEF SemaphoreOK, Makers
  <2> QED
    BY <1>1, <2>1, NoneAside DEF PutAside
<1>2. CASE rt # None
  <2> DEFINE aside == InUse \ {rt}
  <2>1. IsFiniteSet(aside) /\ Cardinality(aside) <= replaced
    BY FS_Subset DEF SemaphoreOK, LimitBounded
  <2>2. InUse' \ {rt'} \subseteq aside \cup {rt}
    OBVIOUS
  <2> HIDE DEF aside
  <2>3. /\ Cardinality(InUse' \ {rt'}) <= Cardinality(aside) + 1
        /\ Cardinality(InUse' \ {rt'}) \in Nat /\ Cardinality(aside) \in Nat
    BY <2>1, <2>2, OneMore
  <2> QED
    BY <1>2, <2>1, <2>3 DEF TypeOK, PutAside
<1> QED
    BY <1>1, <1>2

LEMMA NextLimit ==
    ASSUME TypeOK, RunsOK, SemaphoreOK, LimitBounded, [Next]_vars
    PROVE  LimitBounded'
<1> USE CronConstants
<1>1. ASSUME NEW r \in Runs,
              Fire(r) \/ SendHangs(r) \/ (RunStep(r) /\ ~FindSemaphore(r))
      PROVE  LimitBounded'
  <2>1. /\ InUse' \subseteq InUse /\ rt' = rt /\ replaced' = replaced
        /\ cap' = cap
    BY <1>1, RunsUseNoMore, InUseShrinks
  <2>2. Cardinality(InUse' \ {rt'}) <= replaced'
    BY <2>1, NoneAside
  <2>3. ASSUME NEW s \in Makers PROVE Cardinality(Holders(s)') <= cap'[s]
    <3>1. CASE Holders(s)' \subseteq Holders(s)
      BY <2>1, <3>1, NoNewHolder
    <3>2. CASE StartRun(r) /\ s = sem[r]
      <4>1. /\ Holders(s)' \subseteq Holders(s) \cup {r}
            /\ Cardinality(Holders(s)) < cap[s]
        <5>1. /\ pc' = [pc EXCEPT ![r] = "exec"] /\ kind' = kind /\ sem' = sem
              /\ Cardinality(Holders(s)) < cap[s]
          BY <3>2 DEF StartRun
        <5> QED
          BY <5>1 DEF Holders, TypeOK
      <4>2. IsFiniteSet(Holders(s))
        BY FS_Subset DEF RunsOK, Holders, InFlight
      <4>3. /\ Cardinality(Holders(s)') <= Cardinality(Holders(s)) + 1
            /\ Cardinality(Holders(s)) \in Nat /\ Cardinality(Holders(s)') \in Nat
        BY <4>1, <4>2, OneMore
      <4> QED
        BY <2>1, <4>1, <4>3 DEF TypeOK
    <3>3. StartRun(r) /\ s # sem[r] => Holders(s)' \subseteq Holders(s)
      BY DEF StartRun, Holders, TypeOK
    <3>4. ~StartRun(r) => Holders(s)' \subseteq Holders(s)
      BY <1>1 DEF RunStep, Fire, SendHangs, LookUp, RecordSkipped, EndRun,
         AppendReads, AppendWrites, Holders, TypeOK, RunsOK, runVars
    <3> QED
      BY <3>1, <3>2, <3>3, <3>4
  <2> QED
    BY <2>2, <2>3 DEF LimitBounded
<1>2. ASSUME NEW r \in Runs, FindSemaphore(r) PROVE LimitBounded'
  <2>1. None \notin InUse /\ r \notin InUse
    BY <1>2 DEF SemaphoreOK, Unmade, Makers, FindSemaphore
  <2>2. Cardinality(InUse' \ {rt'}) <= replaced'
    BY <1>2, <2>1, FindShares, NoneAside
  <2>3. ASSUME NEW s \in Makers PROVE Cardinality(Holders(s)') <= cap'[s]
    <3>1. CASE s = r
      <4>1. Holders(s)' = {}
        BY <1>2, <2>1, <3>1, FindShares DEF Holders, InUse, Asked
      <4> QED
        BY <1>2, <4>1, FindShares, FS_EmptySet
    <3>2. CASE s # r
      BY <1>2, <3>2, FindShares, NoNewHolder
    <3> QED
      BY <3>1, <3>2
  <2> QED
    BY <2>2, <2>3 DEF LimitBounded
<1>3. ASSUME NEW e \in Edits, ReplaceBegins(e) \/ DeleteBegins(e) \/ EditStep(e)
      PROVE  LimitBounded'
  <2>1. /\ InUse' = InUse /\ \A s \in Makers : Holders(s)' = Holders(s)
        /\ InUse' \subseteq InUse
    BY <1>3, EditsLeaveRuns DEF InUse, Asked, Holders
  <2>2. PutAside \/ UNCHANGED <<rt, replaced>>
    BY <1>3 DEF EditStep, ReplaceBegins, DeleteBegins, ReplaceSaves, Register,
       DeleteTakes, DeleteUnlinks, DeleteErases, managerVars, history
  <2>3. Cardinality(InUse' \ {rt'}) <= replaced'
    BY <2>1, <2>2, NoneAside, OneAside
  <2>4. \/ cap' = cap
        \/ /\ todo[e] = "save" /\ \A s \in Makers \ {e} : cap'[s] = cap[s]
           /\ cap' \in [Makers -> 1..MaxCap]
    <3>1. CASE ReplaceSaves(e)
      BY <3>1 DEF ReplaceSaves, TypeOK
    <3>2. CASE ~ReplaceSaves(e)
      BY <1>3, <3>2 DEF EditStep, ReplaceBegins, DeleteBegins, Register,
         DeleteTakes, DeleteUnlinks, DeleteErases, managerVars
    <3> QED
      BY <3>1, <3>2
  <2>5. ASSUME NEW s \in Makers PROVE Cardinality(Holders(s)') <= cap'[s]
    <3>1. CASE cap'[s] = cap[s]
      BY <2>1, <3>1, NoNewHolder
    <3>2. CASE s = e /\ todo[e] = "save" /\ cap' \in [Makers -> 1..MaxCap]
      <4>1. Holders(s)' = {}
        BY <2>1, <3>2 DEF Holders, SemaphoreOK, Unmade, InUse, Asked
      <4> QED
        BY <3>2, <4>1, FS_EmptySet
    <3> QED
      BY <2>4, <3>1, <3>2
  <2> QED
    BY <2>3, <2>5 DEF LimitBounded
<1>4. CASE HistoryRead \/ HistoryKept \/ PauseOrResume \/ Stop \/ UNCHANGED vars
  <2>1. /\ UNCHANGED <<rt, replaced, cap>>
        /\ Asked' \subseteq Asked /\ \A o \in Asked' : sem'[o] = sem[o]
        /\ \A s \in Makers : Holders(s)' \subseteq Holders(s)
    BY <1>4 DEF HistoryRead, HistoryKept, PauseOrResume, Stop, vars, repoVars,
       managerVars, runVars, history, Asked, Holders, InFlight
  <2>2. Cardinality(InUse' \ {rt'}) <= replaced'
    BY <2>1, InUseShrinks, NoneAside
  <2>3. \A s \in Makers : Cardinality(Holders(s)') <= cap'[s]
    BY <2>1, NoNewHolder
  <2> QED
    BY <2>2, <2>3 DEF LimitBounded
<1> QED
    BY <1>1, <1>2, <1>3, <1>4 DEF Next, RunStep

LEMMA NextHistory ==
    ASSUME TypeOK, RunsOK, HistoryOK, [Next]_vars
    PROVE  HistoryOK'
<1> USE CronConstants
<1> USE DEF TypeOK, HistoryOK, Makers
<1> SUFFICES ASSUME ~deleted' PROVE HistoryOK'
    OBVIOUS
<1>1. ASSUME NEW r \in Runs, Fire(r) \/ SendHangs(r) \/ RunStep(r) PROVE HistoryOK'
  <2> USE DEF repoVars, managerVars, runVars, history
  <2>1. ~deleted /\ todo' = todo
    BY <1>1, RunsLeaveEdits
  <2>2. CASE \/ Fire(r) \/ LookUp(r) \/ FindSemaphore(r) \/ StartRun(r)
             \/ SendHangs(r)
    <3>1. /\ \A o \in Runs : pc'[o] \in {"record", "write"} => pc'[o] = pc[o]
          /\ UNCHANGED <<hl, hlock, file, records>>
      BY SMTT(30), <2>2 DEF Fire, LookUp, FindSemaphore, StartRun, SendHangs
    <3> QED
      BY <2>1, <3>1
  <2>3. CASE RecordSkipped(r) \/ EndRun(r)
    <3>1. /\ pc' = [pc EXCEPT ![r] = "record"] /\ pc[r] \in {"found", "exec"}
          /\ hlock' = IF hlock = None THEN r ELSE hlock
          /\ hl' = [hl EXCEPT ![r] = hlock']
          /\ UNCHANGED <<file, records>>
      BY <2>3 DEF RecordSkipped, EndRun, GetHistoryLock
    <3> QED
      BY <2>1, <3>1
  <2>4. CASE AppendReads(r)
    <3>1. /\ \A o \in Runs : pc[o] # "write"
          /\ pc[r] = "record" /\ pc' = [pc EXCEPT ![r] = "write"]
          /\ records' = [records EXCEPT ![r] = Newest(<<r>> \o file)]
          /\ UNCHANGED <<hl, hlock, file>>
      BY <2>1, <2>4 DEF AppendReads, HistoryFree
    <3>2. file' = file
      BY <3>1
    <3>3. \A o \in Runs : pc'[o] = "write" => o = r
      BY <3>1
    <3>4. records'[r] = Newest(<<r>> \o file')
      BY <3>1, <3>2
    <3> QED
      BY <2>1, <3>1, <3>2, <3>3, <3>4
  <2>5. CASE AppendWrites(r)
    <3>1. /\ \A o \in Runs \ {r} : pc[o] # "write"
          /\ pc' = [pc EXCEPT ![r] = "done"] /\ hl' = [hl EXCEPT ![r] = None]
          /\ hlock' = hlock
      BY <2>1, <2>5 DEF AppendWrites
    <3>2. \A o \in Runs : pc'[o] # "write"
      BY <3>1
    <3> QED
      BY <2>1, <3>1, <3>2
  <2> QED
    BY <1>1, <2>2, <2>3, <2>4, <2>5 DEF RunStep
<1>2. ASSUME NEW e \in Edits, ReplaceBegins(e) \/ DeleteBegins(e) \/ EditStep(e)
      PROVE  HistoryOK'
  <2>1. /\ ~deleted /\ UNCHANGED <<file, hlock, hl>>
        /\ \A x \in Edits : todo'[x] \notin {"take", "unlink", "erase"}
    BY SMTT(30), <1>2 DEF EditStep, ReplaceBegins, DeleteBegins, ReplaceSaves, Register,
       DeleteTakes, DeleteUnlinks, DeleteErases, Locks, Unlocks, repoVars,
       managerVars, runVars, history
  <2>2. UNCHANGED <<pc, records>>
    BY <1>2, EditsLeaveRuns
  <2> QED
    BY <2>1, <2>2
<1>3. CASE HistoryRead \/ HistoryKept \/ PauseOrResume \/ UNCHANGED vars
  <2>1. UNCHANGED <<deleted, todo, pc, hl, hlock, file, records>>
    BY <1>3, OthersLeaveRuns DEF runVars
  <2> QED
    BY <2>1
<1>4. CASE Stop
  <2> DEFINE mine == {r \in InFlight : kind[r] = "scheduled"}
             cut == {r \in mine : pc[r] = "exec"}
             saved == {r \in mine : pc[r] = "write"}
  <2>1. \A r, o \in cut : r = o
    BY DEF RunsOK
  <2>2. /\ cut \subseteq Runs /\ saved \subseteq mine /\ mine \subseteq Runs
        /\ \A r \in Runs : r \in saved <=> r \in mine /\ pc[r] = "write"
        /\ \A r \in cut : pc[r] = "exec"
    BY DEF InFlight
  <2>3. /\ pc' = [r \in Runs |-> IF r \in cut THEN "record"
                                 ELSE IF r \in mine THEN "done" ELSE pc[r]]
        /\ IF cut # {} THEN GetHistoryLock(CHOOSE r \in cut : TRUE)
                       ELSE UNCHANGED <<hlock, hl>>
        /\ \/ UNCHANGED file
           \/ \E r \in saved : file' = records[r]
        /\ UNCHANGED <<records, todo, deleted>>
    BY <1>4 DEF Stop
  <2> HIDE DEF cut, saved, mine
  <2>4. \A r \in Runs : pc'[r] \in {"record", "write"} => hl'[r] = hlock' /\ hlock' # None
    <3>1. CASE cut = {}
      BY <2>3, <3>1
    <3>2. CASE cut # {}
      <4> DEFINE c == CHOOSE r \in cut : TRUE
      <4>1. c \in cut
        BY <3>2
      <4> HIDE DEF c
      <4>2. cut = {c} /\ c \in Makers
        BY <2>1, <2>2, <4>1
      <4>3. GetHistoryLock(c)
        BY <2>3, <3>2 DEF c
      <4> QED
        BY <2>2, <2>3, <4>1, <4>2, <4>3 DEF GetHistoryLock
    <3> QED
      BY <3>1, <3>2
  <2>5. \A r \in Runs : pc'[r] = "write" => pc[r] = "write" /\ r \notin mine
    BY <2>2, <2>3
  <2>6. ASSUME NEW r \in Runs, pc'[r] = "write" PROVE file' = file
    BY <2>2, <2>3, <2>5, <2>6
  <2> QED
    BY <2>3, <2>4, <2>5, <2>6
<1> QED
    BY <1>1, <1>2, <1>3, <1>4 DEF Next

LEMMA NextComplete ==
    ASSUME TypeOK, HistoryOK, HistoryComplete, [Next]_vars
    PROVE  HistoryComplete'
<1> USE DEF repoVars, managerVars, runVars, history
<1> SUFFICES ASSUME ~deleted' PROVE HistoryComplete'
    BY DEF HistoryComplete
\* The record of run r reaches the file.
<1>1. ASSUME NEW r \in Runs, ~deleted, pc[r] = "write", file' = records[r],
             written' = <<r>> \o written
      PROVE  file' = Newest(written')
    BY <1>1, NewestOfNewest DEF TypeOK, HistoryOK, HistoryComplete
<1>2. ASSUME NEW r \in Runs, AppendWrites(r) PROVE HistoryComplete'
    BY <1>1, <1>2 DEF AppendWrites, HistoryComplete
<1>3. CASE Stop
  <2>1. ~deleted /\ cache' = cache
    BY <1>3 DEF Stop
  <2>2. CASE UNCHANGED <<file, written, outdated>>
    BY <2>1, <2>2 DEF HistoryComplete
  <2>3. ASSUME NEW r \in Runs, pc[r] = "write", file' = records[r],
               written' = <<r>> \o written, outdated' = TRUE
        PROVE  HistoryComplete'
    BY <1>1, <2>1, <2>3 DEF HistoryComplete
  <2>4. \/ UNCHANGED <<file, written, outdated>>
        \/ \E r \in Runs : /\ pc[r] = "write" /\ file' = records[r]
                           /\ written' = <<r>> \o written /\ outdated' = TRUE
    BY <1>3 DEF Stop, InFlight
  <2> QED
    BY <2>2, <2>3, <2>4
<1>4. CASE HistoryKept
    BY <1>4 DEF HistoryKept, HistoryComplete
<1>5. ASSUME NEW r \in Runs,
              Fire(r) \/ SendHangs(r) \/ (RunStep(r) /\ ~AppendWrites(r))
      PROVE  HistoryComplete'
    BY <1>5 DEF RunStep, Fire, SendHangs, LookUp, RecordSkipped, FindSemaphore, StartRun,
       EndRun, AppendReads, HistoryComplete
<1>6. ASSUME NEW e \in Edits, ReplaceBegins(e) \/ DeleteBegins(e) \/ EditStep(e)
      PROVE  HistoryComplete'
    BY <1>6 DEF EditStep, ReplaceBegins, DeleteBegins, ReplaceSaves, Register,
       DeleteTakes, DeleteUnlinks, DeleteErases, HistoryComplete, HistoryOK
<1>7. CASE HistoryRead \/ PauseOrResume \/ UNCHANGED vars
    BY <1>7 DEF HistoryRead, PauseOrResume, vars, HistoryComplete
<1> QED
    BY <1>2, <1>3, <1>4, <1>5, <1>6, <1>7 DEF Next

LEMMA NextRunning ==
    ASSUME TypeOK, RunningIsTrue, [Next]_vars
    PROVE  RunningIsTrue'
<1> USE DEF TypeOK, RunningIsTrue, Executing
<1> USE DEF repoVars, managerVars, runVars, history
<1>1. ASSUME NEW r \in Runs, Fire(r) \/ SendHangs(r) \/ RunStep(r) PROVE RunningIsTrue'
    BY <1>1 DEF Fire, SendHangs, RunStep, LookUp, RecordSkipped, FindSemaphore,
       StartRun, EndRun, AppendReads, AppendWrites
<1>2. ASSUME NEW e \in Edits, ReplaceBegins(e) \/ DeleteBegins(e) \/ EditStep(e)
      PROVE  RunningIsTrue'
  <2>1. states' = "running" => states = "running"
    BY <1>2 DEF EditStep, ReplaceBegins, DeleteBegins, ReplaceSaves, Register,
       DeleteTakes, DeleteUnlinks, DeleteErases
  <2> QED
    BY <1>2, <2>1, EditsLeaveRuns
<1>3. CASE HistoryRead \/ HistoryKept \/ PauseOrResume \/ UNCHANGED vars
    BY <1>3, OthersLeaveRuns
<1>4. CASE Stop
  <2>1. states' = "running" =>
          /\ states = "running"
          /\ \A r \in Runs : pc[r] = "exec" => pc'[r] = "exec"
    BY <1>4 DEF Stop
  <2> QED
    BY <2>1
<1> QED
    BY <1>1, <1>2, <1>3, <1>4 DEF Next

LEMMA NextCron == CronInv /\ [Next]_vars => CronInv'
BY NextTypes, NextRunsOK, NextSemaphore, NextLimit, NextHistory,
   NextComplete, NextRunning DEF CronInv

-----------------------------------------------------------------------------

\* The inductive invariant of the job holds in every reachable state.
THEOREM CronInvariance == Spec => []CronInv
BY InitCron, NextCron, PTL DEF Spec

\* Job, status, semaphores, history and locks are well formed.
THEOREM CronTypes == Spec => []TypeOK
<1>1. CronInv => TypeOK
    BY DEF CronInv
<1> QED
    BY <1>1, CronInvariance, PTL

\* Until a deletion the history file holds the latest records in their order,
\* however many runs end together, and get_history knows what is in it.
THEOREM HistoryIsComplete == Spec => []HistoryComplete
<1>1. CronInv => HistoryComplete
    BY DEF CronInv
<1> QED
    BY <1>1, CronInvariance, PTL

\* However many runs fire while the job is changed, each semaphore admits its
\* max_concurrency, and no more of them are in use beside the registered one than
\* updates and deletions have put aside.
THEOREM LimitIsBounded == Spec => []LimitBounded
<1>1. CronInv => LimitBounded
    BY DEF CronInv
<1> QED
    BY <1>1, CronInvariance, PTL

\* A job that is shown as running has a run that executes.
THEOREM StatusIsTrue == Spec => []RunningIsTrue
<1>1. CronInv => RunningIsTrue
    BY DEF CronInv
<1> QED
    BY <1>1, CronInvariance, PTL
=============================================================================
