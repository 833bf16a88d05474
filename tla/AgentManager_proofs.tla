-------------------------- MODULE AgentManager_proofs --------------------------
(* Machine-checked proofs about AgentManager, for any number of calls.       *)
EXTENDS AgentManager, TLAPS

-----------------------------------------------------------------------------
(* The inductive invariant *)

\* What the place of a call says: a workspace that is not yet in the table is
\* that of its own call, a stop and the end of a fruitless reload have the lock,
\* a queued call is the start-up task.
PlacesOK ==
    \A c \in Calls :
        /\ pc[c] \in {"start", "put", "rl_start", "rl_swap", "rl_discard"}
              => inst[c] = c
        /\ pc[c] \in {"st_stop", "rl_discard"} => lock = c
        /\ pc[c] = "rl_discard" => agent = None
        /\ pc[c] = "st_stop" /\ ~down => agent # None /\ inst[c] = agent
        /\ pc[c] \in {"sa_wait", "sa_stop"} => down
        /\ pc[c] = "queued" => startup = c

\* The workspace of call c, if there is one, has not been in the table.
Unpublished(c) ==
    pc[c] \notin {"hooks", "finally", "got", "run", "done", "rl_stop",
                  "rl_discard", "st_stop", "sa_stop"}

\* Nobody else knows of a workspace before it has been in the table, and the
\* one that serves has no clean-up and is started, or is being stopped by
\* stop_agent.
Serving ==
    /\ \A c \in Calls : Unpublished(c) =>
         /\ agent # c /\ cleanup[c] = {}
         /\ \A d \in Calls \ {c} : inst[d] # c
    /\ \A c \in Calls :
         /\ pc[c] \in {"start", "rl_start"} => life[c] = "starting"
         /\ pc[c] \in {"put", "rl_swap"} => life[c] = "started"
    /\ agent # None =>
         /\ cleanup[agent] = {} /\ life[agent] \in {"started", "closing"}
         /\ \/ life[agent] = "started" \/ down
            \/ \E c \in Calls : pc[c] = "st_stop"

\* A run that began on the serving workspace is there, or is waited for by the
\* clean-up of that workspace, or its workspace will not be retired any more,
\* unless that clean-up has waited for its 24 hours.
RunsOK ==
    \A c \in Calls :
        /\ pc[c] \in {"hooks", "got", "run"} => inst[c] # None
        /\ pc[c] = "run" /\ c \notin late /\ inst[c] \notin overdue =>
             /\ life[inst[c]] \notin {"retiring", "stopped"}
             /\ inst[c] # agent =>
                  c \in cleanup[inst[c]] \/ cleanup[inst[c]] = {}

\* What a reload is about to stop is being retired already, and what waits for
\* its clean-up has been left as it was.
Known ==
    ~down =>
      /\ \A c \in Calls : pc[c] = "rl_stop" =>
           inst[c] \in Workspaces /\ life[inst[c]] \notin {"started", "closing"}
      /\ \A i \in Workspaces : cleanup[i] # {} =>
           life[i] \notin {"retiring", "closing"}

\* Nobody takes the parts of a workspace that has not been in the table; the one
\* that get_agent is about to put there has its own.
PartsOK ==
    \A c \in Calls :
        /\ pc[c] \in {"idle", "await", "woken", "queued", "ask", "join", "released",
                      "rl_create", "rl_take"} => life[c] = "none"
        /\ Unpublished(c) => \A i \in Workspaces \ {c} : parts[i] # c
        /\ pc[c] \in {"start", "put"} => parts[c] = c
        /\ pc[c] = "put" /\ ~down => c \in open

\* The parts of workspace i are those of the one that serves, or of one that was
\* closed.
Reached(i) ==
    \/ agent # None /\ parts[agent] = parts[i]
    \/ \E k \in Workspaces : life[k] = "closed" /\ parts[k] = parts[i]

\* A reload that was not overtaken has the parts of the workspace that serves.
ReachOK ==
    ~crossed /\ ~down =>
        /\ \A c \in Calls :
             /\ pc[c] \in {"rl_start", "rl_swap"} /\ c \notin overtaken
                  /\ agent # None => parts[c] = parts[agent]
             /\ pc[c] \in {"hooks", "got", "run"} => Reached(inst[c])
        /\ agent # None /\ life[agent] = "started" => parts[agent] \in open

AgentInv ==
    /\ TypeOK /\ PlacesOK /\ OneStarter /\ Serving /\ RunsOK
    /\ Known /\ NoOrphan /\ PartsOK /\ ReachOK

-----------------------------------------------------------------------------
(* Each conjunct along the steps *)

LEMMA InitAgent == Init => AgentInv
<1> SUFFICES ASSUME Init PROVE AgentInv
    OBVIOUS
<1>1. TypeOK
  <2>1. /\ First \in Workspaces /\ MaxOthers \in Nat
        /\ Calls \subseteq Workspaces
        /\ "idle" \in Pcs /\ {"none", "started"} \subseteq Lives
    BY ManagerConstants DEF Workspaces, Pcs, Lives
  <2>2. /\ pc \in [Calls -> Pcs] /\ inst \in [Calls -> Workspaces \cup {None}]
        /\ life \in [Workspaces -> Lives]
        /\ parts \in [Workspaces -> Workspaces]
        /\ cleanup \in [Workspaces -> SUBSET Calls]
    BY <2>1 DEF Init
  <2>3. /\ agent \in Workspaces \cup {None} /\ open \subseteq Workspaces
        /\ {pending, startup} \subseteq Calls \cup {None}
        /\ lock \in Calls \cup {None, Other} /\ others \in 0..MaxOthers
    BY <2>1 DEF Init
  <2> QED
    BY <2>2, <2>3 DEF Init, TypeOK
<1>2. PlacesOK /\ OneStarter
    BY DEF Init, PlacesOK, OneStarter
<1>3. Serving /\ RunsOK
    BY ManagerConstants DEF Init, Serving, RunsOK, Workspaces
<1>4. Known /\ NoOrphan
    BY ManagerConstants DEF Init, Known, NoOrphan, Workspaces
<1>5. PartsOK /\ ReachOK
    BY ManagerConstants DEF Init, PartsOK, ReachOK, Workspaces
<1> QED
    BY <1>1, <1>2, <1>3, <1>4, <1>5 DEF AgentInv

LEMMA NextTypes ==
    ASSUME TypeOK, PlacesOK, [Next]_vars
    PROVE  TypeOK'
<1> USE ManagerConstants
<1> USE DEF callVars, workspaceVars, bootVars, history
<1> USE DEF TypeOK, PlacesOK, Workspaces, Pcs, Lives
<1>1. ASSUME NEW c \in Calls, GetAgent(c) PROVE TypeOK'
  <2>1. CASE GetAwaits(c)
    BY <2>1 DEF GetAwaits, Requests
  <2>2. CASE GetFast(c)
    BY <2>2 DEF GetFast, AtGet, Requests, Finds, Ends
  <2>3. CASE GetBlocks(c)
    BY <2>3 DEF GetBlocks, AtGet, Requests
  <2>4. CASE GetRechecks(c)
    BY <2>4 DEF GetRechecks, UnderLock, AtGet, Requests, Finds, Ends
  <2>5. CASE GetJoins(c)
    BY <2>5 DEF GetJoins, UnderLock, AtGet, Requests
  <2>6. CASE GetRefuses(c)
    BY <2>6 DEF GetRefuses, UnderLock, AtGet, Requests, Ends
  <2>7. CASE GetClaims(c)
    BY <2>7 DEF GetClaims, UnderLock, AtGet, Requests, Create
  <2>8. CASE GetStarted(c)
    BY <2>8 DEF GetStarted, Starts
  <2>9. CASE GetFails(c)
    BY <2>9 DEF GetFails, StartBreaks
  <2>10. CASE GetPuts(c)
    BY <2>10 DEF GetPuts
  <2>11. CASE GetFinishes(c)
    BY <2>11 DEF GetFinishes
  <2>12. CASE JoinReturns(c)
    BY <2>12 DEF JoinReturns, Finds, Ends
  <2> QED
    BY <1>1, <2>1, <2>2, <2>3, <2>4, <2>5, <2>6, <2>7, <2>8, <2>9, <2>10,
       <2>11, <2>12 DEF GetAgent
<1>2. ASSUME NEW c \in Calls, Reload(c) PROVE TypeOK'
  <2>1. CASE ReloadBegins(c)
    BY <2>1 DEF ReloadBegins
  <2>2. CASE ReloadRefuses(c)
    BY <2>2 DEF ReloadRefuses
  <2>3. CASE ReloadBlocks(c)
    BY <2>3 DEF ReloadBlocks
  <2>4. CASE ReloadCreates(c)
    BY <2>4 DEF ReloadCreates, Create
  <2>5. CASE ReloadStarted(c)
    BY <2>5 DEF ReloadStarted, Starts
  <2>6. CASE ReloadFails(c)
    BY <2>6 DEF ReloadFails, StartBreaks
  <2>7. CASE ReloadSwaps(c)
    BY <2>7 DEF ReloadSwaps, ActiveRuns
  <2>8. CASE ReloadRetires(c)
    <3>1. pc' \in [Calls -> Pcs]
      BY <2>8 DEF ReloadRetires, TypeOK, Pcs
    <3>2. life' \in [Workspaces -> Lives]
      BY <2>8 DEF ReloadRetires, TypeOK, Lives
    <3> QED
      BY <2>8, <3>1, <3>2 DEF ReloadRetires, TypeOK
  <2>9. CASE ReloadDiscards(c)
    BY <2>9 DEF ReloadDiscards, Close
  <2>10. CASE ReloadDiscarded(c)
    BY <2>10 DEF ReloadDiscarded, Closed
  <2> QED
    BY <1>2, <2>1, <2>2, <2>3, <2>4, <2>5, <2>6, <2>7, <2>8, <2>9, <2>10
    DEF Reload
<1>3. ASSUME NEW c \in Calls, Stop(c) PROVE TypeOK'
  <2>1. CASE StopBlocks(c)
    BY <2>1 DEF StopBlocks, StopAsked
  <2>2. CASE StopFindsNothing(c)
    BY <2>2 DEF StopFindsNothing, StopAsked, ConfigSaved
  <2>3. CASE StopBegins(c)
    BY <2>3 DEF StopBegins, StopAsked, Close
  <2>4. CASE StopEnds(c)
    BY <2>4 DEF StopEnds, Closed, ConfigSaved
  <2> QED
    BY <1>3, <2>1, <2>2, <2>3, <2>4 DEF Stop
<1>4. ASSUME NEW c \in Calls, StopAll(c) PROVE TypeOK'
  <2>1. CASE StopAllBegins(c)
    BY <2>1 DEF StopAllBegins
  <2>2. CASE StartupCancelled(c)
    BY <2>2 DEF StartupCancelled, Ends, StartBreaks
  <2>3. CASE StopAllStops(c)
    BY <2>3 DEF StopAllStops, Close
  <2>4. CASE StopAllEnds(c)
    <3>1. /\ life' \in [Workspaces -> Lives] /\ agent' = None /\ open' \subseteq open
          /\ pc' \in [Calls -> Pcs]
          /\ UNCHANGED <<pending, startup, status, lock, others, bootVars, inst,
                         parts, cleanup, overdue, history>>
      BY <2>4 DEF StopAllEnds, Closed
    <3> QED
      BY <3>1
  <2> QED
    BY <1>4, <2>1, <2>2, <2>3, <2>4 DEF StopAll
<1>5. ASSUME NEW c \in Calls, Startup(c) PROVE TypeOK'
  <2>1. CASE Schedule(c)
    BY <2>1 DEF Schedule, QueueStartup
  <2>2. CASE CoreReady(c)
    BY <2>2 DEF CoreReady, QueueStartup
  <2>3. CASE StartupSkips(c)
    BY <2>3 DEF StartupSkips, Ends
  <2> QED
    BY <1>5, <2>1, <2>2, <2>3 DEF Startup
<1>6. ASSUME NEW c \in Calls, StartRun(c) \/ EndRun(c) PROVE TypeOK'
    BY <1>6 DEF StartRun, EndRun
<1>7. ASSUME NEW i \in Workspaces, WaitExpires(i) \/ CleanupStops(i)
      PROVE  TypeOK'
    BY <1>7 DEF WaitExpires, CleanupStops, SnapshotOver
<1>8. CASE BootBegins \/ CoreEnds \/ OtherLocks \/ OtherUnlocks
    BY <1>8 DEF BootBegins, CoreEnds, OtherLocks, OtherUnlocks
<1>9. CASE UNCHANGED vars
    BY <1>9 DEF vars
<1> QED
    BY <1>1, <1>2, <1>3, <1>4, <1>5, <1>6, <1>7, <1>8, <1>9 DEF Next

LEMMA NextPlaces ==
    ASSUME TypeOK, PlacesOK, OneStarter, [Next]_vars
    PROVE  PlacesOK'
<1> USE ManagerConstants
<1> USE DEF callVars, workspaceVars, bootVars, history
<1> USE DEF TypeOK, PlacesOK, OneStarter, Workspaces
<1>1. ASSUME NEW c \in Calls, GetAgent(c) PROVE PlacesOK'
  <2>1. CASE GetAwaits(c)
    BY <2>1 DEF GetAwaits, Requests
  <2>2. CASE GetFast(c)
    BY <2>2 DEF GetFast, AtGet, Requests, Finds, Ends
  <2>3. CASE GetBlocks(c)
    BY <2>3 DEF GetBlocks, AtGet, Requests
  <2>4. CASE GetRechecks(c)
    BY <2>4 DEF GetRechecks, UnderLock, AtGet, Requests, Finds, Ends
  <2>5. CASE GetJoins(c)
    BY <2>5 DEF GetJoins, UnderLock, AtGet, Requests
  <2>6. CASE GetRefuses(c)
    BY <2>6 DEF GetRefuses, UnderLock, AtGet, Requests, Ends
  <2>7. CASE GetClaims(c)
    BY <2>7 DEF GetClaims, UnderLock, AtGet, Requests, Create
  <2>8. CASE GetStarted(c)
    BY <2>8 DEF GetStarted, Starts
  <2>9. CASE GetFails(c)
    BY <2>9 DEF GetFails, StartBreaks
  <2>10. CASE GetPuts(c)
    BY <2>10 DEF GetPuts
  <2>11. CASE GetFinishes(c)
    BY <2>11 DEF GetFinishes
  <2>12. CASE JoinReturns(c)
    BY <2>12 DEF JoinReturns, Finds, Ends
  <2> QED
    BY <1>1, <2>1, <2>2, <2>3, <2>4, <2>5, <2>6, <2>7, <2>8, <2>9, <2>10,
       <2>11, <2>12 DEF GetAgent
<1>2. ASSUME NEW c \in Calls, Reload(c) PROVE PlacesOK'
  <2>1. CASE ReloadBegins(c)
    BY <2>1 DEF ReloadBegins
  <2>2. CASE ReloadRefuses(c)
    BY <2>2 DEF ReloadRefuses
  <2>3. CASE ReloadBlocks(c)
    BY <2>3 DEF ReloadBlocks
  <2>4. CASE ReloadCreates(c)
    BY <2>4 DEF ReloadCreates, Create
  <2>5. CASE ReloadStarted(c)
    BY <2>5 DEF ReloadStarted, Starts
  <2>6. CASE ReloadFails(c)
    BY <2>6 DEF ReloadFails, StartBreaks
  <2>7. CASE ReloadSwaps(c)
    BY <2>7 DEF ReloadSwaps, ActiveRuns
  <2>8. CASE ReloadRetires(c)
    BY <2>8 DEF ReloadRetires
  <2>9. CASE ReloadDiscards(c)
    BY <2>9 DEF ReloadDiscards, Close
  <2>10. CASE ReloadDiscarded(c)
    BY <2>10 DEF ReloadDiscarded, Closed
  <2> QED
    BY <1>2, <2>1, <2>2, <2>3, <2>4, <2>5, <2>6, <2>7, <2>8, <2>9, <2>10
    DEF Reload
<1>3. ASSUME NEW c \in Calls, Stop(c) PROVE PlacesOK'
  <2>1. CASE StopBlocks(c)
    BY <2>1 DEF StopBlocks, StopAsked
  <2>2. CASE StopFindsNothing(c)
    BY <2>2 DEF StopFindsNothing, StopAsked, ConfigSaved
  <2>3. CASE StopBegins(c)
    BY <2>3 DEF StopBegins, StopAsked, Close
  <2>4. CASE StopEnds(c)
    BY <2>4 DEF StopEnds, Closed, ConfigSaved
  <2> QED
    BY <1>3, <2>1, <2>2, <2>3, <2>4 DEF Stop
<1>4. ASSUME NEW c \in Calls, StopAll(c) PROVE PlacesOK'
  <2>1. CASE StopAllBegins(c)
    BY <2>1 DEF StopAllBegins
  <2>2. CASE StartupCancelled(c)
    BY <2>2 DEF StartupCancelled, Ends, StartBreaks
  <2>3. CASE StopAllStops(c)
    BY <2>3 DEF StopAllStops, Close
  <2>4. CASE StopAllEnds(c)
    BY <2>4 DEF StopAllEnds, Closed
  <2> QED
    BY <1>4, <2>1, <2>2, <2>3, <2>4 DEF StopAll
<1>5. ASSUME NEW c \in Calls, Startup(c) PROVE PlacesOK'
  <2>1. CASE Schedule(c)
    BY <2>1 DEF Schedule, QueueStartup
  <2>2. CASE CoreReady(c)
    BY <2>2 DEF CoreReady, QueueStartup
  <2>3. CASE StartupSkips(c)
    BY <2>3 DEF StartupSkips, Ends
  <2> QED
    BY <1>5, <2>1, <2>2, <2>3 DEF Startup
<1>6. ASSUME NEW c \in Calls, StartRun(c) \/ EndRun(c) PROVE PlacesOK'
    BY <1>6 DEF StartRun, EndRun
<1>7. ASSUME NEW i \in Workspaces, WaitExpires(i) \/ CleanupStops(i)
      PROVE  PlacesOK'
    BY <1>7 DEF WaitExpires, CleanupStops, SnapshotOver
<1>8. CASE BootBegins \/ CoreEnds \/ OtherLocks \/ OtherUnlocks
    BY <1>8 DEF BootBegins, CoreEnds, OtherLocks, OtherUnlocks
<1>9. CASE UNCHANGED vars
    BY <1>9 DEF vars
<1> QED
    BY <1>1, <1>2, <1>3, <1>4, <1>5, <1>6, <1>7, <1>8, <1>9 DEF Next

LEMMA NextStarter ==
    ASSUME TypeOK, PlacesOK, OneStarter, [Next]_vars
    PROVE  OneStarter'
<1> USE ManagerConstants
<1> USE DEF callVars, workspaceVars, bootVars, history
<1> USE DEF TypeOK, PlacesOK, OneStarter, Workspaces
<1>1. ASSUME NEW c \in Calls, GetAgent(c) PROVE OneStarter'
  <2>1. CASE GetAwaits(c)
    BY <2>1 DEF GetAwaits, Requests
  <2>2. CASE GetFast(c)
    BY <2>2 DEF GetFast, AtGet, Requests, Finds, Ends
  <2>3. CASE GetBlocks(c)
    BY <2>3 DEF GetBlocks, AtGet, Requests
  <2>4. CASE GetRechecks(c)
    BY <2>4 DEF GetRechecks, UnderLock, AtGet, Requests, Finds, Ends
  <2>5. CASE GetJoins(c)
    BY <2>5 DEF GetJoins, UnderLock, AtGet, Requests
  <2>6. CASE GetRefuses(c)
    BY <2>6 DEF GetRefuses, UnderLock, AtGet, Requests, Ends
  <2>7. CASE GetClaims(c)
    BY <2>7 DEF GetClaims, UnderLock, AtGet, Requests, Create
  <2>8. CASE GetStarted(c)
    BY <2>8 DEF GetStarted, Starts
  <2>9. CASE GetFails(c)
    BY <2>9 DEF GetFails, StartBreaks
  <2>10. CASE GetPuts(c)
    BY <2>10 DEF GetPuts
  <2>11. CASE GetFinishes(c)
    BY <2>11 DEF GetFinishes
  <2>12. CASE JoinReturns(c)
    BY <2>12 DEF JoinReturns, Finds, Ends
  <2> QED
    BY <1>1, <2>1, <2>2, <2>3, <2>4, <2>5, <2>6, <2>7, <2>8, <2>9, <2>10,
       <2>11, <2>12 DEF GetAgent
<1>2. ASSUME NEW c \in Calls, Reload(c) PROVE OneStarter'
  <2>1. CASE ReloadBegins(c)
    BY <2>1 DEF ReloadBegins
  <2>2. CASE ReloadRefuses(c)
    BY <2>2 DEF ReloadRefuses
  <2>3. CASE ReloadBlocks(c)
    BY <2>3 DEF ReloadBlocks
  <2>4. CASE ReloadCreates(c)
    BY <2>4 DEF ReloadCreates, Create
  <2>5. CASE ReloadStarted(c)
    BY <2>5 DEF ReloadStarted, Starts
  <2>6. CASE ReloadFails(c)
    BY <2>6 DEF ReloadFails, StartBreaks
  <2>7. CASE ReloadSwaps(c)
    BY <2>7 DEF ReloadSwaps, ActiveRuns
  <2>8. CASE ReloadRetires(c)
    BY <2>8 DEF ReloadRetires
  <2>9. CASE ReloadDiscards(c)
    BY <2>9 DEF ReloadDiscards, Close
  <2>10. CASE ReloadDiscarded(c)
    BY <2>10 DEF ReloadDiscarded, Closed
  <2> QED
    BY <1>2, <2>1, <2>2, <2>3, <2>4, <2>5, <2>6, <2>7, <2>8, <2>9, <2>10
    DEF Reload
<1>3. ASSUME NEW c \in Calls, Stop(c) PROVE OneStarter'
  <2>1. CASE StopBlocks(c)
    BY <2>1 DEF StopBlocks, StopAsked
  <2>2. CASE StopFindsNothing(c)
    BY <2>2 DEF StopFindsNothing, StopAsked, ConfigSaved
  <2>3. CASE StopBegins(c)
    BY <2>3 DEF StopBegins, StopAsked, Close
  <2>4. CASE StopEnds(c)
    BY <2>4 DEF StopEnds, Closed, ConfigSaved
  <2> QED
    BY <1>3, <2>1, <2>2, <2>3, <2>4 DEF Stop
<1>4. ASSUME NEW c \in Calls, StopAll(c) PROVE OneStarter'
  <2>1. CASE StopAllBegins(c)
    BY <2>1 DEF StopAllBegins
  <2>2. CASE StartupCancelled(c)
    BY <2>2 DEF StartupCancelled, Ends, StartBreaks
  <2>3. CASE StopAllStops(c)
    BY <2>3 DEF StopAllStops, Close
  <2>4. CASE StopAllEnds(c)
    BY <2>4 DEF StopAllEnds, Closed
  <2> QED
    BY <1>4, <2>1, <2>2, <2>3, <2>4 DEF StopAll
<1>5. ASSUME NEW c \in Calls, Startup(c) PROVE OneStarter'
  <2>1. CASE Schedule(c)
    BY <2>1 DEF Schedule, QueueStartup
  <2>2. CASE CoreReady(c)
    BY <2>2 DEF CoreReady, QueueStartup
  <2>3. CASE StartupSkips(c)
    BY <2>3 DEF StartupSkips, Ends
  <2> QED
    BY <1>5, <2>1, <2>2, <2>3 DEF Startup
<1>6. ASSUME NEW c \in Calls, StartRun(c) \/ EndRun(c) PROVE OneStarter'
    BY <1>6 DEF StartRun, EndRun
<1>7. ASSUME NEW i \in Workspaces, WaitExpires(i) \/ CleanupStops(i)
      PROVE  OneStarter'
    BY <1>7 DEF WaitExpires, CleanupStops, SnapshotOver
<1>8. CASE BootBegins \/ CoreEnds \/ OtherLocks \/ OtherUnlocks
    BY <1>8 DEF BootBegins, CoreEnds, OtherLocks, OtherUnlocks
<1>9. CASE UNCHANGED vars
    BY <1>9 DEF vars
<1> QED
    BY <1>1, <1>2, <1>3, <1>4, <1>5, <1>6, <1>7, <1>8, <1>9 DEF Next

LEMMA NextServing ==
    ASSUME TypeOK, PlacesOK, OneStarter, Serving, [Next]_vars
    PROVE  Serving'
<1> USE ManagerConstants
<1> USE DEF callVars, workspaceVars, bootVars, history
<1> USE DEF TypeOK, PlacesOK, OneStarter, Serving, Unpublished, Workspaces
<1>1. ASSUME NEW c \in Calls, GetAgent(c) PROVE Serving'
  <2>1. CASE GetAwaits(c)
    BY <2>1 DEF GetAwaits, Requests
  <2>2. CASE GetFast(c)
    BY <2>2 DEF GetFast, AtGet, Requests, Finds, Ends
  <2>3. CASE GetBlocks(c)
    BY <2>3 DEF GetBlocks, AtGet, Requests
  <2>4. CASE GetRechecks(c)
    BY <2>4 DEF GetRechecks, UnderLock, AtGet, Requests, Finds, Ends
  <2>5. CASE GetJoins(c)
    BY <2>5 DEF GetJoins, UnderLock, AtGet, Requests
  <2>6. CASE GetRefuses(c)
    BY <2>6 DEF GetRefuses, UnderLock, AtGet, Requests, Ends
  <2>7. CASE GetClaims(c)
    BY <2>7 DEF GetClaims, UnderLock, AtGet, Requests, Create
  <2>8. CASE GetStarted(c)
    BY <2>8 DEF GetStarted, Starts
  <2>9. CASE GetFails(c)
    BY <2>9 DEF GetFails, StartBreaks
  <2>10. CASE GetPuts(c)
    BY <2>10 DEF GetPuts
  <2>11. CASE GetFinishes(c)
    BY <2>11 DEF GetFinishes
  <2>12. CASE JoinReturns(c)
    BY <2>12 DEF JoinReturns, Finds, Ends
  <2> QED
    BY <1>1, <2>1, <2>2, <2>3, <2>4, <2>5, <2>6, <2>7, <2>8, <2>9, <2>10,
       <2>11, <2>12 DEF GetAgent
<1>2. ASSUME NEW c \in Calls, Reload(c) PROVE Serving'
  <2>1. CASE ReloadBegins(c)
    BY <2>1 DEF ReloadBegins
  <2>2. CASE ReloadRefuses(c)
    BY <2>2 DEF ReloadRefuses
  <2>3. CASE ReloadBlocks(c)
    BY <2>3 DEF ReloadBlocks
  <2>4. CASE ReloadCreates(c)
    BY <2>4 DEF ReloadCreates, Create
  <2>5. CASE ReloadStarted(c)
    BY <2>5 DEF ReloadStarted, Starts
  <2>6. CASE ReloadFails(c)
    BY <2>6 DEF ReloadFails, StartBreaks
  <2>7. CASE ReloadSwaps(c)
    BY <2>7 DEF ReloadSwaps, ActiveRuns
  <2>8. CASE ReloadRetires(c)
    BY <2>8 DEF ReloadRetires
  <2>9. CASE ReloadDiscards(c)
    BY <2>9 DEF ReloadDiscards, Close
  <2>10. CASE ReloadDiscarded(c)
    BY <2>10 DEF ReloadDiscarded, Closed
  <2> QED
    BY <1>2, <2>1, <2>2, <2>3, <2>4, <2>5, <2>6, <2>7, <2>8, <2>9, <2>10
    DEF Reload
<1>3. ASSUME NEW c \in Calls, Stop(c) PROVE Serving'
  <2>1. CASE StopBlocks(c)
    BY <2>1 DEF StopBlocks, StopAsked
  <2>2. CASE StopFindsNothing(c)
    BY <2>2 DEF StopFindsNothing, StopAsked, ConfigSaved
  <2>3. CASE StopBegins(c)
    BY <2>3 DEF StopBegins, StopAsked, Close
  <2>4. CASE StopEnds(c)
    BY <2>4 DEF StopEnds, Closed, ConfigSaved
  <2> QED
    BY <1>3, <2>1, <2>2, <2>3, <2>4 DEF Stop
<1>4. ASSUME NEW c \in Calls, StopAll(c) PROVE Serving'
  <2>1. CASE StopAllBegins(c)
    BY <2>1 DEF StopAllBegins
  <2>2. CASE StartupCancelled(c)
    BY <2>2 DEF StartupCancelled, Ends, StartBreaks
  <2>3. CASE StopAllStops(c)
    BY <2>3 DEF StopAllStops, Close
  <2>4. CASE StopAllEnds(c)
    BY <2>4 DEF StopAllEnds, Closed
  <2> QED
    BY <1>4, <2>1, <2>2, <2>3, <2>4 DEF StopAll
<1>5. ASSUME NEW c \in Calls, Startup(c) PROVE Serving'
  <2>1. CASE Schedule(c)
    BY <2>1 DEF Schedule, QueueStartup
  <2>2. CASE CoreReady(c)
    BY <2>2 DEF CoreReady, QueueStartup
  <2>3. CASE StartupSkips(c)
    BY <2>3 DEF StartupSkips, Ends
  <2> QED
    BY <1>5, <2>1, <2>2, <2>3 DEF Startup
<1>6. ASSUME NEW c \in Calls, StartRun(c) \/ EndRun(c) PROVE Serving'
    BY <1>6 DEF StartRun, EndRun
<1>7. ASSUME NEW i \in Workspaces, WaitExpires(i) \/ CleanupStops(i)
      PROVE  Serving'
    BY <1>7 DEF WaitExpires, CleanupStops, SnapshotOver
<1>8. CASE BootBegins \/ CoreEnds \/ OtherLocks \/ OtherUnlocks
    BY <1>8 DEF BootBegins, CoreEnds, OtherLocks, OtherUnlocks
<1>9. CASE UNCHANGED vars
    BY <1>9 DEF vars
<1> QED
    BY <1>1, <1>2, <1>3, <1>4, <1>5, <1>6, <1>7, <1>8, <1>9 DEF Next

LEMMA NextRuns ==
    ASSUME AgentInv, [Next]_vars
    PROVE  RunsOK'
<1> USE ManagerConstants
<1> USE DEF callVars, workspaceVars, bootVars, history
<1> USE DEF AgentInv, TypeOK, PlacesOK, Serving, RunsOK, Unpublished, Workspaces
<1>1. ASSUME NEW c \in Calls, GetAgent(c) PROVE RunsOK'
  <2>1. CASE GetAwaits(c)
    BY <2>1 DEF GetAwaits, Requests
  <2>2. CASE GetFast(c)
    BY <2>2 DEF GetFast, AtGet, Requests, Finds, Ends
  <2>3. CASE GetBlocks(c)
    BY <2>3 DEF GetBlocks, AtGet, Requests
  <2>4. CASE GetRechecks(c)
    BY <2>4 DEF GetRechecks, UnderLock, AtGet, Requests, Finds, Ends
  <2>5. CASE GetJoins(c)
    BY <2>5 DEF GetJoins, UnderLock, AtGet, Requests
  <2>6. CASE GetRefuses(c)
    BY <2>6 DEF GetRefuses, UnderLock, AtGet, Requests, Ends
  <2>7. CASE GetClaims(c)
    BY <2>7 DEF GetClaims, UnderLock, AtGet, Requests, Create
  <2>8. CASE GetStarted(c)
    BY <2>8 DEF GetStarted, Starts
  <2>9. CASE GetFails(c)
    BY <2>9 DEF GetFails, StartBreaks
  <2>10. CASE GetPuts(c)
    BY <2>10 DEF GetPuts
  <2>11. CASE GetFinishes(c)
    BY <2>11 DEF GetFinishes
  <2>12. CASE JoinReturns(c)
    BY <2>12 DEF JoinReturns, Finds, Ends
  <2> QED
    BY <1>1, <2>1, <2>2, <2>3, <2>4, <2>5, <2>6, <2>7, <2>8, <2>9, <2>10,
       <2>11, <2>12 DEF GetAgent
<1>2. ASSUME NEW c \in Calls, Reload(c) PROVE RunsOK'
  <2>1. CASE ReloadBegins(c)
    BY <2>1 DEF ReloadBegins
  <2>2. CASE ReloadRefuses(c)
    BY <2>2 DEF ReloadRefuses
  <2>3. CASE ReloadBlocks(c)
    BY <2>3 DEF ReloadBlocks
  <2>4. CASE ReloadCreates(c)
    BY <2>4 DEF ReloadCreates, Create
  <2>5. CASE ReloadStarted(c)
    BY <2>5 DEF ReloadStarted, Starts
  <2>6. CASE ReloadFails(c)
    BY <2>6 DEF ReloadFails, StartBreaks
  <2>7. CASE ReloadSwaps(c)
    BY <2>7 DEF ReloadSwaps, ActiveRuns
  <2>8. CASE ReloadRetires(c)
    BY <2>8 DEF ReloadRetires
  <2>9. CASE ReloadDiscards(c)
    BY <2>9 DEF ReloadDiscards, Close
  <2>10. CASE ReloadDiscarded(c)
    BY <2>10 DEF ReloadDiscarded, Closed
  <2> QED
    BY <1>2, <2>1, <2>2, <2>3, <2>4, <2>5, <2>6, <2>7, <2>8, <2>9, <2>10
    DEF Reload
<1>3. ASSUME NEW c \in Calls, Stop(c) PROVE RunsOK'
  <2>1. CASE StopBlocks(c)
    BY <2>1 DEF StopBlocks, StopAsked
  <2>2. CASE StopFindsNothing(c)
    BY <2>2 DEF StopFindsNothing, StopAsked, ConfigSaved
  <2>3. CASE StopBegins(c)
    BY <2>3 DEF StopBegins, StopAsked, Close
  <2>4. CASE StopEnds(c)
    BY <2>4 DEF StopEnds, Closed, ConfigSaved
  <2> QED
    BY <1>3, <2>1, <2>2, <2>3, <2>4 DEF Stop
<1>4. ASSUME NEW c \in Calls, StopAll(c) PROVE RunsOK'
  <2>1. CASE StopAllBegins(c)
    BY <2>1 DEF StopAllBegins
  <2>2. CASE StartupCancelled(c)
    BY <2>2 DEF StartupCancelled, Ends, StartBreaks
  <2>3. CASE StopAllStops(c)
    BY <2>3 DEF StopAllStops, Close
  <2>4. CASE StopAllEnds(c)
    BY <2>4 DEF StopAllEnds, Closed
  <2> QED
    BY <1>4, <2>1, <2>2, <2>3, <2>4 DEF StopAll
<1>5. ASSUME NEW c \in Calls, Startup(c) PROVE RunsOK'
  <2>1. CASE Schedule(c)
    BY <2>1 DEF Schedule, QueueStartup
  <2>2. CASE CoreReady(c)
    BY <2>2 DEF CoreReady, QueueStartup
  <2>3. CASE StartupSkips(c)
    BY <2>3 DEF StartupSkips, Ends
  <2> QED
    BY <1>5, <2>1, <2>2, <2>3 DEF Startup
<1>6. ASSUME NEW c \in Calls, StartRun(c) \/ EndRun(c) PROVE RunsOK'
    BY <1>6 DEF StartRun, EndRun
<1>7. ASSUME NEW i \in Workspaces, WaitExpires(i) \/ CleanupStops(i)
      PROVE  RunsOK'
    BY <1>7 DEF WaitExpires, CleanupStops, SnapshotOver
<1>8. CASE BootBegins \/ CoreEnds \/ OtherLocks \/ OtherUnlocks
    BY <1>8 DEF BootBegins, CoreEnds, OtherLocks, OtherUnlocks
<1>9. CASE UNCHANGED vars
    BY <1>9 DEF vars
<1> QED
    BY <1>1, <1>2, <1>3, <1>4, <1>5, <1>6, <1>7, <1>8, <1>9 DEF Next

LEMMA NextKnown ==
    ASSUME TypeOK, PlacesOK, OneStarter, Serving, Known, [Next]_vars
    PROVE  Known'
<1> USE ManagerConstants
<1> USE DEF callVars, workspaceVars, bootVars, history
<1> USE DEF TypeOK, PlacesOK, OneStarter, Serving, Unpublished, Workspaces, Known
<1>1. ASSUME NEW c \in Calls, GetAgent(c) PROVE Known'
  <2>1. CASE GetAwaits(c)
    BY <2>1 DEF GetAwaits, Requests
  <2>2. CASE GetFast(c)
    BY <2>2 DEF GetFast, AtGet, Requests, Finds, Ends
  <2>3. CASE GetBlocks(c)
    BY <2>3 DEF GetBlocks, AtGet, Requests
  <2>4. CASE GetRechecks(c)
    BY <2>4 DEF GetRechecks, UnderLock, AtGet, Requests, Finds, Ends
  <2>5. CASE GetJoins(c)
    BY <2>5 DEF GetJoins, UnderLock, AtGet, Requests
  <2>6. CASE GetRefuses(c)
    BY <2>6 DEF GetRefuses, UnderLock, AtGet, Requests, Ends
  <2>7. CASE GetClaims(c)
    BY <2>7 DEF GetClaims, UnderLock, AtGet, Requests, Create
  <2>8. CASE GetStarted(c)
    BY <2>8 DEF GetStarted, Starts
  <2>9. CASE GetFails(c)
    BY <2>9 DEF GetFails, StartBreaks
  <2>10. CASE GetPuts(c)
    BY <2>10 DEF GetPuts
  <2>11. CASE GetFinishes(c)
    BY <2>11 DEF GetFinishes
  <2>12. CASE JoinReturns(c)
    BY <2>12 DEF JoinReturns, Finds, Ends
  <2> QED
    BY <1>1, <2>1, <2>2, <2>3, <2>4, <2>5, <2>6, <2>7, <2>8, <2>9, <2>10,
       <2>11, <2>12 DEF GetAgent
<1>2. ASSUME NEW c \in Calls, Reload(c) PROVE Known'
  <2>1. CASE ReloadBegins(c)
    BY <2>1 DEF ReloadBegins
  <2>2. CASE ReloadRefuses(c)
    BY <2>2 DEF ReloadRefuses
  <2>3. CASE ReloadBlocks(c)
    BY <2>3 DEF ReloadBlocks
  <2>4. CASE ReloadCreates(c)
    BY <2>4 DEF ReloadCreates, Create
  <2>5. CASE ReloadStarted(c)
    BY <2>5 DEF ReloadStarted, Starts
  <2>6. CASE ReloadFails(c)
    BY <2>6 DEF ReloadFails, StartBreaks
  <2>7. CASE ReloadSwaps(c)
    BY <2>7 DEF ReloadSwaps, ActiveRuns
  <2>8. CASE ReloadRetires(c)
    BY <2>8 DEF ReloadRetires
  <2>9. CASE ReloadDiscards(c)
    BY <2>9 DEF ReloadDiscards, Close
  <2>10. CASE ReloadDiscarded(c)
    BY <2>10 DEF ReloadDiscarded, Closed
  <2> QED
    BY <1>2, <2>1, <2>2, <2>3, <2>4, <2>5, <2>6, <2>7, <2>8, <2>9, <2>10
    DEF Reload
<1>3. ASSUME NEW c \in Calls, Stop(c) PROVE Known'
  <2>1. CASE StopBlocks(c)
    BY <2>1 DEF StopBlocks, StopAsked
  <2>2. CASE StopFindsNothing(c)
    BY <2>2 DEF StopFindsNothing, StopAsked, ConfigSaved
  <2>3. CASE StopBegins(c)
    BY <2>3 DEF StopBegins, StopAsked, Close
  <2>4. CASE StopEnds(c)
    BY <2>4 DEF StopEnds, Closed, ConfigSaved
  <2> QED
    BY <1>3, <2>1, <2>2, <2>3, <2>4 DEF Stop
<1>4. ASSUME NEW c \in Calls, StopAll(c) PROVE Known'
  <2>1. CASE StopAllBegins(c)
    BY <2>1 DEF StopAllBegins
  <2>2. CASE StartupCancelled(c)
    BY <2>2 DEF StartupCancelled, Ends, StartBreaks
  <2>3. CASE StopAllStops(c)
    BY <2>3 DEF StopAllStops, Close
  <2>4. CASE StopAllEnds(c)
    BY <2>4 DEF StopAllEnds, Closed
  <2> QED
    BY <1>4, <2>1, <2>2, <2>3, <2>4 DEF StopAll
<1>5. ASSUME NEW c \in Calls, Startup(c) PROVE Known'
  <2>1. CASE Schedule(c)
    BY <2>1 DEF Schedule, QueueStartup
  <2>2. CASE CoreReady(c)
    BY <2>2 DEF CoreReady, QueueStartup
  <2>3. CASE StartupSkips(c)
    BY <2>3 DEF StartupSkips, Ends
  <2> QED
    BY <1>5, <2>1, <2>2, <2>3 DEF Startup
<1>6. ASSUME NEW c \in Calls, StartRun(c) \/ EndRun(c) PROVE Known'
    BY <1>6 DEF StartRun, EndRun
<1>7. ASSUME NEW i \in Workspaces, WaitExpires(i) \/ CleanupStops(i)
      PROVE  Known'
    BY <1>7 DEF WaitExpires, CleanupStops, SnapshotOver
<1>8. CASE BootBegins \/ CoreEnds \/ OtherLocks \/ OtherUnlocks
    BY <1>8 DEF BootBegins, CoreEnds, OtherLocks, OtherUnlocks
<1>9. CASE UNCHANGED vars
    BY <1>9 DEF vars
<1> QED
    BY <1>1, <1>2, <1>3, <1>4, <1>5, <1>6, <1>7, <1>8, <1>9 DEF Next

LEMMA NextOrphan ==
    ASSUME TypeOK, PlacesOK, OneStarter, Serving, Known, NoOrphan,
           [Next]_vars
    PROVE  NoOrphan'
<1> USE ManagerConstants
<1> USE DEF callVars, workspaceVars, bootVars, history
<1> USE DEF TypeOK, PlacesOK, OneStarter, Serving, Unpublished, Workspaces,
            Known, NoOrphan
<1>1. ASSUME NEW c \in Calls, GetAgent(c) PROVE NoOrphan'
  <2>1. CASE GetAwaits(c)
    BY <2>1 DEF GetAwaits, Requests
  <2>2. CASE GetFast(c)
    BY <2>2 DEF GetFast, AtGet, Requests, Finds, Ends
  <2>3. CASE GetBlocks(c)
    BY <2>3 DEF GetBlocks, AtGet, Requests
  <2>4. CASE GetRechecks(c)
    BY <2>4 DEF GetRechecks, UnderLock, AtGet, Requests, Finds, Ends
  <2>5. CASE GetJoins(c)
    BY <2>5 DEF GetJoins, UnderLock, AtGet, Requests
  <2>6. CASE GetRefuses(c)
    BY <2>6 DEF GetRefuses, UnderLock, AtGet, Requests, Ends
  <2>7. CASE GetClaims(c)
    BY <2>7 DEF GetClaims, UnderLock, AtGet, Requests, Create
  <2>8. CASE GetStarted(c)
    BY <2>8 DEF GetStarted, Starts
  <2>9. CASE GetFails(c)
    BY <2>9 DEF GetFails, StartBreaks
  <2>10. CASE GetPuts(c)
    BY <2>10 DEF GetPuts
  <2>11. CASE GetFinishes(c)
    BY <2>11 DEF GetFinishes
  <2>12. CASE JoinReturns(c)
    BY <2>12 DEF JoinReturns, Finds, Ends
  <2> QED
    BY <1>1, <2>1, <2>2, <2>3, <2>4, <2>5, <2>6, <2>7, <2>8, <2>9, <2>10,
       <2>11, <2>12 DEF GetAgent
<1>2. ASSUME NEW c \in Calls, Reload(c) PROVE NoOrphan'
  <2>1. CASE ReloadBegins(c)
    BY <2>1 DEF ReloadBegins
  <2>2. CASE ReloadRefuses(c)
    BY <2>2 DEF ReloadRefuses
  <2>3. CASE ReloadBlocks(c)
    BY <2>3 DEF ReloadBlocks
  <2>4. CASE ReloadCreates(c)
    BY <2>4 DEF ReloadCreates, Create
  <2>5. CASE ReloadStarted(c)
    BY <2>5 DEF ReloadStarted, Starts
  <2>6. CASE ReloadFails(c)
    BY <2>6 DEF ReloadFails, StartBreaks
  <2>7. CASE ReloadSwaps(c)
    BY <2>7 DEF ReloadSwaps, ActiveRuns
  <2>8. CASE ReloadRetires(c)
    BY <2>8 DEF ReloadRetires
  <2>9. CASE ReloadDiscards(c)
    BY <2>9 DEF ReloadDiscards, Close
  <2>10. CASE ReloadDiscarded(c)
    BY <2>10 DEF ReloadDiscarded, Closed
  <2> QED
    BY <1>2, <2>1, <2>2, <2>3, <2>4, <2>5, <2>6, <2>7, <2>8, <2>9, <2>10
    DEF Reload
<1>3. ASSUME NEW c \in Calls, Stop(c) PROVE NoOrphan'
  <2>1. CASE StopBlocks(c)
    BY <2>1 DEF StopBlocks, StopAsked
  <2>2. CASE StopFindsNothing(c)
    BY <2>2 DEF StopFindsNothing, StopAsked, ConfigSaved
  <2>3. CASE StopBegins(c)
    BY <2>3 DEF StopBegins, StopAsked, Close
  <2>4. CASE StopEnds(c)
    BY <2>4 DEF StopEnds, Closed, ConfigSaved
  <2> QED
    BY <1>3, <2>1, <2>2, <2>3, <2>4 DEF Stop
<1>4. ASSUME NEW c \in Calls, StopAll(c) PROVE NoOrphan'
  <2>1. CASE StopAllBegins(c)
    BY <2>1 DEF StopAllBegins
  <2>2. CASE StartupCancelled(c)
    BY <2>2 DEF StartupCancelled, Ends, StartBreaks
  <2>3. CASE StopAllStops(c)
    BY <2>3 DEF StopAllStops, Close
  <2>4. CASE StopAllEnds(c)
    BY <2>4 DEF StopAllEnds, Closed
  <2> QED
    BY <1>4, <2>1, <2>2, <2>3, <2>4 DEF StopAll
<1>5. ASSUME NEW c \in Calls, Startup(c) PROVE NoOrphan'
  <2>1. CASE Schedule(c)
    BY <2>1 DEF Schedule, QueueStartup
  <2>2. CASE CoreReady(c)
    BY <2>2 DEF CoreReady, QueueStartup
  <2>3. CASE StartupSkips(c)
    BY <2>3 DEF StartupSkips, Ends
  <2> QED
    BY <1>5, <2>1, <2>2, <2>3 DEF Startup
<1>6. ASSUME NEW c \in Calls, StartRun(c) \/ EndRun(c) PROVE NoOrphan'
    BY <1>6 DEF StartRun, EndRun
<1>7. ASSUME NEW i \in Workspaces, WaitExpires(i) \/ CleanupStops(i)
      PROVE  NoOrphan'
    BY <1>7 DEF WaitExpires, CleanupStops, SnapshotOver
<1>8. CASE BootBegins \/ CoreEnds \/ OtherLocks \/ OtherUnlocks
    BY <1>8 DEF BootBegins, CoreEnds, OtherLocks, OtherUnlocks
<1>9. CASE UNCHANGED vars
    BY <1>9 DEF vars
<1> QED
    BY <1>1, <1>2, <1>3, <1>4, <1>5, <1>6, <1>7, <1>8, <1>9 DEF Next

LEMMA NextParts ==
    ASSUME TypeOK, PlacesOK, OneStarter, Serving, PartsOK, [Next]_vars
    PROVE  PartsOK'
<1> USE ManagerConstants
<1> USE DEF callVars, workspaceVars, bootVars, history
<1> USE DEF TypeOK, PlacesOK, OneStarter, Serving, Unpublished, Workspaces,
            PartsOK
<1>1. ASSUME NEW c \in Calls, GetAgent(c) PROVE PartsOK'
  <2>1. CASE GetAwaits(c)
    BY <2>1 DEF GetAwaits, Requests
  <2>2. CASE GetFast(c)
    BY <2>2 DEF GetFast, AtGet, Requests, Finds, Ends
  <2>3. CASE GetBlocks(c)
    BY <2>3 DEF GetBlocks, AtGet, Requests
  <2>4. CASE GetRechecks(c)
    BY <2>4 DEF GetRechecks, UnderLock, AtGet, Requests, Finds, Ends
  <2>5. CASE GetJoins(c)
    BY <2>5 DEF GetJoins, UnderLock, AtGet, Requests
  <2>6. CASE GetRefuses(c)
    BY <2>6 DEF GetRefuses, UnderLock, AtGet, Requests, Ends
  <2>7. CASE GetClaims(c)
    BY <2>7 DEF GetClaims, UnderLock, AtGet, Requests, Create
  <2>8. CASE GetStarted(c)
    BY <2>8 DEF GetStarted, Starts
  <2>9. CASE GetFails(c)
    BY <2>9 DEF GetFails, StartBreaks
  <2>10. CASE GetPuts(c)
    BY <2>10 DEF GetPuts
  <2>11. CASE GetFinishes(c)
    BY <2>11 DEF GetFinishes
  <2>12. CASE JoinReturns(c)
    BY <2>12 DEF JoinReturns, Finds, Ends
  <2> QED
    BY <1>1, <2>1, <2>2, <2>3, <2>4, <2>5, <2>6, <2>7, <2>8, <2>9, <2>10,
       <2>11, <2>12 DEF GetAgent
<1>2. ASSUME NEW c \in Calls, Reload(c) PROVE PartsOK'
  <2>1. CASE ReloadBegins(c)
    BY <2>1 DEF ReloadBegins
  <2>2. CASE ReloadRefuses(c)
    BY <2>2 DEF ReloadRefuses
  <2>3. CASE ReloadBlocks(c)
    BY <2>3 DEF ReloadBlocks
  <2>4. CASE ReloadCreates(c)
    BY <2>4 DEF ReloadCreates, Create
  <2>5. CASE ReloadStarted(c)
    BY <2>5 DEF ReloadStarted, Starts
  <2>6. CASE ReloadFails(c)
    BY <2>6 DEF ReloadFails, StartBreaks
  <2>7. CASE ReloadSwaps(c)
    BY <2>7 DEF ReloadSwaps, ActiveRuns
  <2>8. CASE ReloadRetires(c)
    BY <2>8 DEF ReloadRetires
  <2>9. CASE ReloadDiscards(c)
    BY <2>9 DEF ReloadDiscards, Close
  <2>10. CASE ReloadDiscarded(c)
    BY <2>10 DEF ReloadDiscarded, Closed
  <2> QED
    BY <1>2, <2>1, <2>2, <2>3, <2>4, <2>5, <2>6, <2>7, <2>8, <2>9, <2>10
    DEF Reload
<1>3. ASSUME NEW c \in Calls, Stop(c) PROVE PartsOK'
  <2>1. CASE StopBlocks(c)
    BY <2>1 DEF StopBlocks, StopAsked
  <2>2. CASE StopFindsNothing(c)
    BY <2>2 DEF StopFindsNothing, StopAsked, ConfigSaved
  <2>3. CASE StopBegins(c)
    BY <2>3 DEF StopBegins, StopAsked, Close
  <2>4. CASE StopEnds(c)
    BY <2>4 DEF StopEnds, Closed, ConfigSaved
  <2> QED
    BY <1>3, <2>1, <2>2, <2>3, <2>4 DEF Stop
<1>4. ASSUME NEW c \in Calls, StopAll(c) PROVE PartsOK'
  <2>1. CASE StopAllBegins(c)
    BY <2>1 DEF StopAllBegins
  <2>2. CASE StartupCancelled(c)
    BY <2>2 DEF StartupCancelled, Ends, StartBreaks
  <2>3. CASE StopAllStops(c)
    BY <2>3 DEF StopAllStops, Close
  <2>4. CASE StopAllEnds(c)
    BY <2>4 DEF StopAllEnds, Closed
  <2> QED
    BY <1>4, <2>1, <2>2, <2>3, <2>4 DEF StopAll
<1>5. ASSUME NEW c \in Calls, Startup(c) PROVE PartsOK'
  <2>1. CASE Schedule(c)
    BY <2>1 DEF Schedule, QueueStartup
  <2>2. CASE CoreReady(c)
    BY <2>2 DEF CoreReady, QueueStartup
  <2>3. CASE StartupSkips(c)
    BY <2>3 DEF StartupSkips, Ends
  <2> QED
    BY <1>5, <2>1, <2>2, <2>3 DEF Startup
<1>6. ASSUME NEW c \in Calls, StartRun(c) \/ EndRun(c) PROVE PartsOK'
    BY <1>6 DEF StartRun, EndRun
<1>7. ASSUME NEW i \in Workspaces, WaitExpires(i) \/ CleanupStops(i)
      PROVE  PartsOK'
    BY <1>7 DEF WaitExpires, CleanupStops, SnapshotOver
<1>8. CASE BootBegins \/ CoreEnds \/ OtherLocks \/ OtherUnlocks
    BY <1>8 DEF BootBegins, CoreEnds, OtherLocks, OtherUnlocks
<1>9. CASE UNCHANGED vars
    BY <1>9 DEF vars
<1> QED
    BY <1>1, <1>2, <1>3, <1>4, <1>5, <1>6, <1>7, <1>8, <1>9 DEF Next

LEMMA NextReach ==
    ASSUME TypeOK, PlacesOK, OneStarter, Serving, RunsOK, PartsOK, ReachOK,
           [Next]_vars
    PROVE  ReachOK'
<1> USE ManagerConstants
<1> USE DEF callVars, workspaceVars, bootVars, history
<1> USE DEF TypeOK, PlacesOK, OneStarter, Serving, Unpublished, Workspaces,
            RunsOK, PartsOK, ReachOK, Reached
<1>1. ASSUME NEW c \in Calls, GetAgent(c) PROVE ReachOK'
  <2>1. CASE GetAwaits(c)
    BY <2>1 DEF GetAwaits, Requests
  <2>2. CASE GetFast(c)
    BY <2>2 DEF GetFast, AtGet, Requests, Finds, Ends
  <2>3. CASE GetBlocks(c)
    BY <2>3 DEF GetBlocks, AtGet, Requests
  <2>4. CASE GetRechecks(c)
    BY <2>4 DEF GetRechecks, UnderLock, AtGet, Requests, Finds, Ends
  <2>5. CASE GetJoins(c)
    BY <2>5 DEF GetJoins, UnderLock, AtGet, Requests
  <2>6. CASE GetRefuses(c)
    BY <2>6 DEF GetRefuses, UnderLock, AtGet, Requests, Ends
  <2>7. CASE GetClaims(c)
    BY <2>7 DEF GetClaims, UnderLock, AtGet, Requests, Create
  <2>8. CASE GetStarted(c)
    BY <2>8 DEF GetStarted, Starts
  <2>9. CASE GetFails(c)
    BY <2>9 DEF GetFails, StartBreaks
  <2>10. CASE GetPuts(c)
    BY <2>10 DEF GetPuts
  <2>11. CASE GetFinishes(c)
    BY <2>11 DEF GetFinishes
  <2>12. CASE JoinReturns(c)
    BY <2>12 DEF JoinReturns, Finds, Ends
  <2> QED
    BY <1>1, <2>1, <2>2, <2>3, <2>4, <2>5, <2>6, <2>7, <2>8, <2>9, <2>10,
       <2>11, <2>12 DEF GetAgent
<1>2. ASSUME NEW c \in Calls, Reload(c) PROVE ReachOK'
  <2>1. CASE ReloadBegins(c)
    BY <2>1 DEF ReloadBegins
  <2>2. CASE ReloadRefuses(c)
    BY <2>2 DEF ReloadRefuses
  <2>3. CASE ReloadBlocks(c)
    BY <2>3 DEF ReloadBlocks
  <2>4. CASE ReloadCreates(c)
    BY <2>4 DEF ReloadCreates, Create
  <2>5. CASE ReloadStarted(c)
    BY <2>5 DEF ReloadStarted, Starts
  <2>6. CASE ReloadFails(c)
    BY <2>6 DEF ReloadFails, StartBreaks
  <2>7. CASE ReloadSwaps(c)
    <3>1. /\ pc[c] = "rl_swap" /\ lock = None /\ agent # None /\ inst[c] = c
          /\ agent' = c /\ life[c] = "started" /\ agent # c
          /\ crossed' = (crossed \/ c \in overtaken)
          /\ UNCHANGED <<down, parts, open, overtaken>>
      BY <2>7 DEF ReloadSwaps
    <3> SUFFICES ASSUME ~crossed', ~down' PROVE ReachOK'
      BY DEF ReachOK
    <3>2. ~crossed /\ ~down /\ parts[c] = parts[agent]
      BY <3>1
    <3>3. life[agent] = "started"
      BY <3>1, <3>2
    <3>4. /\ pc'[c] \in {"rl_stop", "done"}
          /\ \A d \in Calls \ {c} : pc'[d] = pc[d] /\ inst'[d] = inst[d]
          /\ \A k \in Workspaces : life[k] = "closed" => life'[k] = "closed"
      BY <2>7, <3>3 DEF ReloadSwaps
    <3>5. \A k : Reached(k) => Reached(k)'
      BY <3>1, <3>2, <3>4
    <3>6. ASSUME NEW d \in Calls
          PROVE  /\ pc'[d] \in {"rl_start", "rl_swap"} /\ d \notin overtaken' =>
                      parts'[d] = parts'[agent']
                 /\ pc'[d] \in {"hooks", "got", "run"} => Reached(inst[d])'
      BY <3>1, <3>2, <3>4, <3>5
    <3>7. parts'[agent'] \in open'
      BY <3>1, <3>2, <3>3
    <3> QED
      BY <3>4, <3>6, <3>7
  <2>8. CASE ReloadRetires(c)
    BY <2>8 DEF ReloadRetires
  <2>9. CASE ReloadDiscards(c)
    BY <2>9 DEF ReloadDiscards, Close
  <2>10. CASE ReloadDiscarded(c)
    BY <2>10 DEF ReloadDiscarded, Closed
  <2> QED
    BY <1>2, <2>1, <2>2, <2>3, <2>4, <2>5, <2>6, <2>7, <2>8, <2>9, <2>10
    DEF Reload
<1>3. ASSUME NEW c \in Calls, Stop(c) PROVE ReachOK'
  <2>1. CASE StopBlocks(c)
    BY <2>1 DEF StopBlocks, StopAsked
  <2>2. CASE StopFindsNothing(c)
    BY <2>2 DEF StopFindsNothing, StopAsked, ConfigSaved
  <2>3. CASE StopBegins(c)
    BY <2>3 DEF StopBegins, StopAsked, Close
  <2>4. CASE StopEnds(c)
    BY <2>4 DEF StopEnds, Closed, ConfigSaved
  <2> QED
    BY <1>3, <2>1, <2>2, <2>3, <2>4 DEF Stop
<1>4. ASSUME NEW c \in Calls, StopAll(c) PROVE ReachOK'
  <2>1. CASE StopAllBegins(c)
    BY <2>1 DEF StopAllBegins
  <2>2. CASE StartupCancelled(c)
    BY <2>2 DEF StartupCancelled, Ends, StartBreaks
  <2>3. CASE StopAllStops(c)
    BY <2>3 DEF StopAllStops, Close
  <2>4. CASE StopAllEnds(c)
    BY <2>4 DEF StopAllEnds, Closed
  <2> QED
    BY <1>4, <2>1, <2>2, <2>3, <2>4 DEF StopAll
<1>5. ASSUME NEW c \in Calls, Startup(c) PROVE ReachOK'
  <2>1. CASE Schedule(c)
    BY <2>1 DEF Schedule, QueueStartup
  <2>2. CASE CoreReady(c)
    BY <2>2 DEF CoreReady, QueueStartup
  <2>3. CASE StartupSkips(c)
    BY <2>3 DEF StartupSkips, Ends
  <2> QED
    BY <1>5, <2>1, <2>2, <2>3 DEF Startup
<1>6. ASSUME NEW c \in Calls, StartRun(c) \/ EndRun(c) PROVE ReachOK'
    BY <1>6 DEF StartRun, EndRun
<1>7. ASSUME NEW i \in Workspaces, WaitExpires(i) \/ CleanupStops(i)
      PROVE  ReachOK'
    BY <1>7 DEF WaitExpires, CleanupStops, SnapshotOver
<1>8. CASE BootBegins \/ CoreEnds \/ OtherLocks \/ OtherUnlocks
    BY <1>8 DEF BootBegins, CoreEnds, OtherLocks, OtherUnlocks
<1>9. CASE UNCHANGED vars
    BY <1>9 DEF vars
<1> QED
    BY <1>1, <1>2, <1>3, <1>4, <1>5, <1>6, <1>7, <1>8, <1>9 DEF Next

LEMMA NextAgent == AgentInv /\ [Next]_vars => AgentInv'
BY NextTypes, NextPlaces, NextStarter, NextServing, NextRuns, NextKnown,
   NextOrphan, NextParts, NextReach DEF AgentInv

-----------------------------------------------------------------------------

\* The inductive invariant of the manager holds in every reachable state.
THEOREM AgentInvariance == Spec => []AgentInv
BY InitAgent, NextAgent, PTL DEF Spec

\* The manager's table, claims, statuses and workspaces are well formed.
THEOREM AgentTypes == Spec => []TypeOK
<1>1. AgentInv => TypeOK
    BY DEF AgentInv
<1> QED
    BY <1>1, AgentInvariance, PTL

\* However many requests, start-up tasks, reloads and stops come together, one
\* call of get_agent at most starts a workspace, it overwrites none, and it
\* takes its claim back.
THEOREM StartsOnce == Spec => []OneStarter
<1>1. AgentInv => OneStarter
    BY DEF AgentInv
<1> QED
    BY <1>1, AgentInvariance, PTL

\* No reload, however it overlaps with others, leaves a workspace in the table
\* that is stopped or was never started.
THEOREM TableServes == Spec => []ServesStarted
<1>1. AgentInv => ServesStarted
    BY DEF AgentInv, PlacesOK, Serving, ServesStarted
<1> QED
    BY <1>1, AgentInvariance, PTL

\* Until the shutdown every started workspace serves, or somebody is about to put
\* it in the table or to stop it.
THEOREM NoneForgotten == Spec => []NoOrphan
<1>1. AgentInv => NoOrphan
    BY DEF AgentInv
<1> QED
    BY <1>1, AgentInvariance, PTL

\* Whatever reloads overlap, unless one was overtaken by a stop and a new start,
\* the runs in flight are in the tracker of the workspace that serves, which has
\* its memory open.
THEOREM RunsStayReachable == Spec => []RunsReachable
<1>1. AgentInv => RunsReachable
    BY DEF AgentInv, TypeOK, RunsOK, ReachOK, Reached, RunsReachable
<1> QED
    BY <1>1, AgentInvariance, PTL

\* A reload, at once or after the runs it counted, stops no workspace under a
\* run that began while that workspace was the one in the table, as long as the
\* clean-up has not waited for them for 24 hours.
THEOREM RunsGoOn == Spec => []RunsNotCut
<1>1. AgentInv => RunsNotCut
    BY DEF AgentInv, RunsOK, RunsNotCut
<1> QED
    BY <1>1, AgentInvariance, PTL
=============================================================================
