---------------------------- MODULE AgentManager ----------------------------
(***************************************************************************)
(* MultiAgentManager (app/multi_agent_manager.py) with the parts of        *)
(* Workspace and ServiceManager (app/workspace/) it relies on, the         *)
(* endpoints that switch an agent on and off (app/routers/agents.py) and   *)
(* the runs that requests start on a workspace.                            *)
(*                                                                         *)
(* One agent id is modelled. Others share only the lock with it, which     *)
(* stop_agent keeps while it stops their workspace (OtherLocks). Any call  *)
(* of Calls becomes, at any time, a request that wants the agent, a        *)
(* start-up task, a reload, a stop or the shutdown.                        *)
(***************************************************************************)
EXTENDS Naturals, FiniteSets

CONSTANTS
    Calls,      \* calls of the manager; a workspace is named by the call that
                \* creates it, a run by the request it serves
    First,      \* the workspace of an agent that is loaded at the beginning
    None,       \* no call, no workspace
    Other,      \* holder of the lock on behalf of another agent
    MaxOthers   \* bound: how often another agent's stop takes the lock

ASSUME ManagerConstants ==
    /\ First \notin Calls
    /\ None \notin Calls \cup {First}
    /\ Other \notin Calls \cup {None}
    /\ MaxOthers \in Nat

VARIABLES
    agent,    \* agents[id]
    pending,  \* the call whose event is in _pending_starts
    startup,  \* the call that is the task in _agent_startup_tasks
    status,   \* _agent_startup_statuses[id]
    lock,     \* who keeps _lock over an await
    others,   \* how often another agent's stop has taken it
    config,   \* the agent's profile: enabled, disabled or deleted
    boot,     \* start_all_configured_agents
    down,     \* stop_all has been called
    pc,       \* where each call is suspended
    inst,     \* the workspace each call is about
    life,     \* life of each workspace
    parts,    \* whose task tracker, memory and chat manager it uses
    open,     \* the memory managers that are started and not closed
    cleanup,  \* the runs a delayed clean-up waits for, by old workspace
    overdue,  \* the old workspaces whose clean-up has waited for 24 hours
    late,     \* history: runs started on a workspace already replaced
    overtaken, \* history: reloads during which the agent was started anew
    crossed   \* history: such a reload has come to its end

callVars == <<pc, inst>>
workspaceVars == <<life, parts, open>>
bootVars == <<config, boot, down>>
history == <<late, overtaken, crossed>>
vars == <<agent, pending, startup, status, lock, others, bootVars, callVars,
          workspaceVars, cleanup, overdue, history>>

Pcs == {"idle", "await", "woken", "queued", "ask", "join", "released",
        "start", "put", "hooks", "finally", "got", "run", "done",
        "rl_create", "rl_take", "rl_start", "rl_swap", "rl_stop", "rl_discard",
        "st_lock", "st_stop", "sa_wait", "sa_stop"}

Lives == {"none", "starting", "started", "failed",
          "retiring", "stopped",    \* Workspace.stop(final=False)
          "closing", "closed"}      \* Workspace.stop(final=True)

Workspaces == Calls \cup {First}

\* The application starts, or has been running for a while with the agent up.
Init ==
    /\ pending = None /\ startup = None
    /\ lock = None /\ others = 0
    /\ config = "enabled" /\ down = FALSE
    /\ pc = [c \in Calls |-> "idle"]
    /\ inst = [c \in Calls |-> None]
    /\ parts = [i \in Workspaces |-> i]
    /\ cleanup = [i \in Workspaces |-> {}]
    /\ overdue = {}
    /\ late = {} /\ overtaken = {} /\ crossed = FALSE
    /\ \/ /\ agent = None /\ status = "none" /\ boot = "before"
          /\ life = [i \in Workspaces |-> "none"]
          /\ open = {}
       \/ /\ agent = First /\ status = "running" /\ boot = "done"
          /\ life = [i \in Workspaces |->
                       IF i = First THEN "started" ELSE "none"]
          /\ open = {First}

-----------------------------------------------------------------------------
(* Workspaces *)

\* Mutant of Create: what serves is taken for granted.
CreateUnchecked(c, from) ==
    /\ inst' = [inst EXCEPT ![c] = c]
    /\ life' = [life EXCEPT ![c] = "starting"]
    /\ parts' = [parts EXCEPT ![c] = from]

\* Mutant of Create: the task tracker is not handed on.
CreateAfresh(c, from) ==
    /\ inst' = [inst EXCEPT ![c] = c]
    /\ life' = [life EXCEPT ![c] = "starting"]
    /\ UNCHANGED parts

\* _create_workspace: the workspace that call c is about to start.
Create(c, from) ==
    /\ inst' = [inst EXCEPT ![c] = c]
    /\ life' = [life EXCEPT ![c] = "starting"]
    /\ parts' = [parts EXCEPT ![c] = IF from = None THEN c ELSE parts[from]]

\* Workspace.start succeeds; reused services are not started again.
Starts(i) ==
    /\ life' = [life EXCEPT ![i] = "started"]
    /\ open' = IF parts[i] = i THEN open \cup {i} ELSE open

\* Workspace.start raises or is cancelled: stop() returns early as _started
\* is not set, so services that had come up stay up.
StartBreaks(i) ==
    /\ life' = [life EXCEPT ![i] = "failed"]
    /\ \/ open' = open
       \/ parts[i] = i /\ open' = open \cup {i}

\* Workspace.stop(final=True) begins, and ends.
Close(i) == life' = [life EXCEPT ![i] = IF @ = "started" THEN "closing" ELSE @]
Closed(i) ==
    /\ life' = [life EXCEPT ![i] = "closed"]
    /\ open' = open \ {parts[i]}

-----------------------------------------------------------------------------
(* get_agent *)

\* Call c's get_agent ends. Those that await the startup task c go on, or
\* raise as it did.
Ends(c, ok) ==
    /\ pc' = IF startup = c
             THEN [d \in Calls |->
                     IF d = c \/ (pc[d] = "await" /\ ~ok) THEN "done"
                     ELSE IF pc[d] = "await" THEN "woken" ELSE pc[d]]
             ELSE [pc EXCEPT ![c] = IF ok THEN "got" ELSE "done"]
    /\ startup' = IF startup = c THEN None ELSE startup

Finds(c) == agent # None /\ inst' = [inst EXCEPT ![c] = agent] /\ Ends(c, TRUE)

\* A request (get_agent_for_request has seen that the agent is enabled).
Requests(c) == pc[c] = "idle" /\ config = "enabled" /\ ~down

\* A queued or running startup task is joined.
GetAwaits(c) ==
    /\ Requests(c) /\ startup # None
    /\ pc' = [pc EXCEPT ![c] = "await"]
    /\ UNCHANGED <<agent, pending, startup, status, lock, others, bootVars,
                   inst, workspaceVars, cleanup, overdue, history>>

AtGet(c) == (Requests(c) /\ startup = None) \/ pc[c] \in {"woken", "queued"}

\* The fast path, without the lock.
GetFast(c) ==
    /\ AtGet(c) /\ Finds(c)
    /\ status' = "running"
    /\ UNCHANGED <<agent, pending, lock, others, bootVars, workspaceVars,
                   cleanup, overdue, history>>

GetBlocks(c) ==
    /\ AtGet(c) /\ agent = None /\ lock # None
    /\ pc' = [pc EXCEPT ![c] = "ask"]
    /\ UNCHANGED <<agent, pending, startup, status, lock, others, bootVars,
                   inst, workspaceVars, cleanup, overdue, history>>

UnderLock(c) == lock = None /\ (pc[c] = "ask" \/ (AtGet(c) /\ agent = None))

GetRechecks(c) ==
    /\ UnderLock(c) /\ Finds(c)
    /\ UNCHANGED <<agent, pending, status, lock, others, bootVars,
                   workspaceVars, cleanup, overdue, history>>

GetJoins(c) ==
    /\ UnderLock(c) /\ agent = None /\ pending # None
    /\ pc' = [pc EXCEPT ![c] = "join"]
    /\ UNCHANGED <<agent, pending, startup, status, lock, others, bootVars,
                   inst, workspaceVars, cleanup, overdue, history>>

GetRefuses(c) ==
    /\ UnderLock(c) /\ agent = None /\ pending = None /\ config = "deleted"
    /\ Ends(c, FALSE)
    /\ UNCHANGED <<agent, pending, status, lock, others, bootVars, inst,
                   workspaceVars, cleanup, overdue, history>>

\* Mutant of GetClaims: a start in progress is not looked for.
GetClaimsAgain(c) ==
    /\ UnderLock(c) /\ agent = None /\ config # "deleted"
    /\ pending' = c /\ status' = "starting"
    /\ Create(c, None)
    /\ pc' = [pc EXCEPT ![c] = "start"]
    /\ UNCHANGED <<agent, startup, lock, others, bootVars, open, cleanup,
                   overdue, history>>

GetClaims(c) ==
    /\ UnderLock(c) /\ agent = None /\ pending = None /\ config # "deleted"
    /\ pending' = c /\ status' = "starting"
    /\ Create(c, None)
    /\ pc' = [pc EXCEPT ![c] = "start"]
    /\ UNCHANGED <<agent, startup, lock, others, bootVars, open, cleanup,
                   overdue, history>>

GetStarted(c) ==
    /\ pc[c] = "start" /\ Starts(inst[c])
    /\ pc' = [pc EXCEPT ![c] = "put"]
    /\ UNCHANGED <<agent, pending, startup, status, lock, others, bootVars,
                   inst, parts, cleanup, overdue, history>>

GetFails(c) ==
    /\ pc[c] = "start" /\ StartBreaks(inst[c])
    /\ pc' = [pc EXCEPT ![c] = "finally"]
    /\ UNCHANGED <<agent, pending, startup, status, lock, others, bootVars,
                   inst, parts, cleanup, overdue, history>>

GetPuts(c) ==
    /\ pc[c] = "put" /\ lock = None
    /\ agent' = inst[c]
    /\ pc' = [pc EXCEPT ![c] = "hooks"]
    /\ overtaken' = overtaken \cup {d \in Calls : pc[d] \in {"rl_start", "rl_swap"}}
    /\ UNCHANGED <<pending, startup, status, lock, others, bootVars, inst,
                   workspaceVars, cleanup, overdue, late, crossed>>

\* Mutant of GetFinishes: the event is set only when all went well.
GetFinishesAlone(c) ==
    /\ pc[c] \in {"hooks", "finally"} /\ lock = None
    /\ pending' = None
    /\ status' = IF agent # None THEN "running" ELSE "failed"
    /\ pc' = [d \in Calls |->
                IF d = c THEN "done"
                ELSE IF pc[d] = "join" /\ pc[c] = "hooks" THEN "released"
                ELSE pc[d]]
    /\ startup' = IF startup = c THEN None ELSE startup
    /\ UNCHANGED <<agent, lock, others, bootVars, inst, workspaceVars,
                   cleanup, overdue, history>>

\* The finally clause: the claim is given up and whoever joined is released.
GetFinishes(c) ==
    /\ pc[c] \in {"hooks", "finally"} /\ lock = None
    /\ pending' = None
    /\ status' = CASE agent # None -> "running"
                   [] agent = None /\ status = "starting" -> "failed"
                   [] OTHER -> status
    /\ LET ok == pc[c] = "hooks"
           after(d) == CASE d = c -> IF ok /\ startup # c THEN "got" ELSE "done"
                         [] pc[d] = "join" -> "released"
                         [] startup = c /\ pc[d] = "await" ->
                              IF ok THEN "woken" ELSE "done"
                        [] OTHER -> pc[d]
       IN pc' = [d \in Calls |-> after(d)]
    /\ startup' = IF startup = c THEN None ELSE startup
    /\ UNCHANGED <<agent, lock, others, bootVars, inst, workspaceVars,
                   cleanup, overdue, history>>

JoinReturns(c) ==
    /\ pc[c] = "released"
    /\ \/ Finds(c)
       \/ agent = None /\ Ends(c, FALSE) /\ UNCHANGED inst
    /\ UNCHANGED <<agent, pending, status, lock, others, bootVars,
                   workspaceVars, cleanup, overdue, history>>

-----------------------------------------------------------------------------
(* The request that has its workspace: console.py starts a run on it *)

StartRun(c) ==
    /\ pc[c] = "got"
    /\ pc' = [pc EXCEPT ![c] = "run"]
    /\ late' = IF inst[c] = agent THEN late ELSE late \cup {c}
    /\ UNCHANGED <<agent, pending, startup, status, lock, others, bootVars,
                   inst, workspaceVars, cleanup, overdue, overtaken,
                   crossed>>

\* The run ends, or the request starts none.
EndRun(c) ==
    /\ pc[c] \in {"got", "run"}
    /\ pc' = [pc EXCEPT ![c] = "done"]
    /\ UNCHANGED <<agent, pending, startup, status, lock, others, bootVars,
                   inst, workspaceVars, cleanup, overdue, history>>

\* Mutant of ActiveRuns: the owner is compared the wrong way round.
RunsOfOthers(i) == {r \in Calls : pc[r] = "run" /\ inst[r] # i}

\* snapshot_active_tasks(owner=i)
ActiveRuns(i) == {r \in Calls : pc[r] = "run" /\ inst[r] = i}

-----------------------------------------------------------------------------
(* schedule_agent_startup, and start_all_configured_agents around it *)

QueueStartup(c) ==
    /\ pc[c] = "idle" /\ ~down /\ startup = None /\ config # "deleted"
    /\ status' = IF agent # None THEN "running" ELSE "pending"
    /\ startup' = c
    /\ pc' = [pc EXCEPT ![c] = "queued"]
    /\ UNCHANGED <<agent, pending, lock, others, down, inst, workspaceVars,
                   cleanup, overdue, history>>

\* create_agent, toggle_agent_enabled
Schedule(c) == QueueStartup(c) /\ config' = "enabled" /\ UNCHANGED boot

BootBegins ==
    /\ boot = "before" /\ config = "enabled" /\ lock = None /\ ~down
    /\ boot' = "core"
    /\ status' = CASE agent # None -> "running"
                   [] agent = None /\ pending # None -> "starting"
                   [] OTHER -> "pending"
    /\ UNCHANGED <<agent, pending, startup, lock, others, config, down,
                   callVars, workspaceVars, cleanup, overdue, history>>

\* The default agent is up; the others are scheduled, whatever has become of
\* them since.
CoreReady(c) ==
    /\ boot = "core" /\ boot' = "done"
    /\ QueueStartup(c)
    /\ UNCHANGED config

\* The default agent failed and the others are left alone, or the task is there
\* already.
CoreEnds ==
    /\ boot = "core" /\ boot' = "done"
    /\ UNCHANGED <<agent, pending, startup, status, lock, others, config,
                   down, callVars, workspaceVars, cleanup, overdue, history>>

\* _start_agent_with_limit finds the agent loaded before it asks for a place.
StartupSkips(c) ==
    /\ pc[c] = "queued" /\ agent # None
    /\ Ends(c, TRUE)
    /\ UNCHANGED <<agent, pending, status, lock, others, bootVars, inst,
                   workspaceVars, cleanup, overdue, history>>

-----------------------------------------------------------------------------
(* reload_agent *)

ReloadBegins(c) ==
    /\ pc[c] = "idle" /\ lock = None
    /\ pc' = [pc EXCEPT ![c] = IF agent = None THEN "done" ELSE "rl_create"]
    /\ UNCHANGED <<agent, pending, startup, status, lock, others, bootVars,
                   inst, workspaceVars, cleanup, overdue, history>>

ReloadRefuses(c) ==
    /\ pc[c] = "rl_create" /\ config = "deleted"
    /\ pc' = [pc EXCEPT ![c] = "done"]
    /\ UNCHANGED <<agent, pending, startup, status, lock, others, bootVars,
                   inst, workspaceVars, cleanup, overdue, history>>

ReloadBlocks(c) ==
    /\ pc[c] = "rl_create" /\ config # "deleted" /\ lock # None
    /\ pc' = [pc EXCEPT ![c] = "rl_take"]
    /\ UNCHANGED <<agent, pending, startup, status, lock, others, bootVars,
                   inst, workspaceVars, cleanup, overdue, history>>

\* Steps 3 and 3.5: the new instance takes tracker, memory and chat manager
\* from what serves now.
ReloadCreates(c) ==
    /\ lock = None
    /\ \/ pc[c] = "rl_create" /\ config # "deleted"
       \/ pc[c] = "rl_take"
    /\ Create(c, agent)
    /\ pc' = [pc EXCEPT ![c] = "rl_start"]
    /\ UNCHANGED <<agent, pending, startup, status, lock, others, bootVars,
                   open, cleanup, overdue, history>>

ReloadStarted(c) ==
    /\ pc[c] = "rl_start" /\ Starts(inst[c])
    /\ pc' = [pc EXCEPT ![c] = "rl_swap"]
    /\ UNCHANGED <<agent, pending, startup, status, lock, others, bootVars,
                   inst, parts, cleanup, overdue, history>>

\* Mutant of ReloadFails: the exception is logged and the reload goes on.
ReloadFailsAndSwaps(c) ==
    /\ pc[c] = "rl_start" /\ StartBreaks(inst[c])
    /\ pc' = [pc EXCEPT ![c] = "rl_swap"]
    /\ UNCHANGED <<agent, pending, startup, status, lock, others, bootVars,
                   inst, parts, cleanup, overdue, history>>

ReloadFails(c) ==
    /\ pc[c] = "rl_start" /\ StartBreaks(inst[c])
    /\ pc' = [pc EXCEPT ![c] = "done"]
    /\ UNCHANGED <<agent, pending, startup, status, lock, others, bootVars,
                   inst, parts, cleanup, overdue, history>>

\* Step 4 and the beginning of step 5: what serves is replaced; it is stopped
\* now, or when the runs it owns have ended.
ReloadSwaps(c) ==
    /\ pc[c] = "rl_swap" /\ lock = None /\ agent # None
    /\ agent' = inst[c]
    /\ crossed' = (crossed \/ c \in overtaken)
    /\ IF ActiveRuns(agent) = {}
       THEN /\ pc' = [pc EXCEPT ![c] = "rl_stop"]
            /\ inst' = [inst EXCEPT ![c] = agent]
            /\ life' = [life EXCEPT ![agent] =
                          IF @ = "started" THEN "retiring" ELSE @]
            /\ UNCHANGED cleanup
       ELSE /\ pc' = [pc EXCEPT ![c] = "done"]
            /\ cleanup' = [cleanup EXCEPT ![agent] = ActiveRuns(agent)]
            /\ UNCHANGED <<inst, life>>
    /\ UNCHANGED <<pending, startup, status, lock, others, bootVars, parts,
                   open, overdue, late, overtaken>>

\* _graceful_stop_old_instance without runs: stop(final=False), which leaves the
\* parts that were handed on alone.
ReloadRetires(c) ==
    /\ pc[c] = "rl_stop"
    /\ life' = [life EXCEPT ![inst[c]] =
                  IF @ = "retiring" THEN "stopped" ELSE @]
    /\ pc' = [pc EXCEPT ![c] = "done"]
    /\ UNCHANGED <<agent, pending, startup, status, lock, others, bootVars,
                   inst, parts, open, cleanup, overdue, history>>

\* Mutant of ReloadDiscards: the new instance is left as it is.
ReloadForgets(c) ==
    /\ pc[c] = "rl_swap" /\ lock = None /\ agent = None
    /\ pc' = [pc EXCEPT ![c] = "done"]
    /\ UNCHANGED <<agent, pending, startup, status, lock, others, bootVars,
                   inst, workspaceVars, cleanup, overdue, history>>

\* The agent was removed meanwhile: the new instance is stopped under the
\* lock, for good.
ReloadDiscards(c) ==
    /\ pc[c] = "rl_swap" /\ lock = None /\ agent = None
    /\ lock' = c
    /\ Close(inst[c])
    /\ pc' = [pc EXCEPT ![c] = "rl_discard"]
    /\ UNCHANGED <<agent, pending, startup, status, others, bootVars, inst,
                   parts, open, cleanup, overdue, history>>

ReloadDiscarded(c) ==
    /\ pc[c] = "rl_discard"
    /\ lock' = None
    /\ Closed(inst[c])
    /\ pc' = [pc EXCEPT ![c] = "done"]
    /\ UNCHANGED <<agent, pending, startup, status, others, bootVars, inst,
                   parts, cleanup, overdue, history>>

\* delayed_cleanup: the runs of the snapshot are over, ...
SnapshotOver(i) == \A r \in cleanup[i] : pc[r] # "run"

\* ... or have been waited for 24*60 times a minute.
WaitExpires(i) ==
    /\ cleanup[i] # {} /\ ~SnapshotOver(i)
    /\ overdue' = overdue \cup {i}
    /\ UNCHANGED <<agent, pending, startup, status, lock, others, bootVars,
                   callVars, workspaceVars, cleanup, history>>

\* Either way the old workspace is stopped.
CleanupStops(i) ==
    /\ cleanup[i] # {} /\ (SnapshotOver(i) \/ i \in overdue)
    /\ cleanup' = [cleanup EXCEPT ![i] = {}]
    /\ life' = [life EXCEPT ![i] = IF @ = "started" THEN "stopped" ELSE @]
    /\ UNCHANGED <<agent, pending, startup, status, lock, others, bootVars,
                   callVars, parts, open, overdue, history>>

-----------------------------------------------------------------------------
(* stop_agent, as delete_agent and toggle_agent_enabled call it *)

\* is_agent_startup_in_progress
StartupInProgress == status \in {"pending", "starting"}

StopAsked(c) ==
    pc[c] = "idle" /\ ~down /\ config # "deleted" /\ ~StartupInProgress

StopBlocks(c) ==
    /\ StopAsked(c) /\ lock # None
    /\ pc' = [pc EXCEPT ![c] = "st_lock"]
    /\ UNCHANGED <<agent, pending, startup, status, lock, others, bootVars,
                   inst, workspaceVars, cleanup, overdue, history>>

\* save_config at the end of both endpoints
ConfigSaved == config' \in {"disabled", "deleted"} /\ UNCHANGED <<boot, down>>

StopFindsNothing(c) ==
    /\ StopAsked(c) \/ pc[c] = "st_lock"
    /\ lock = None /\ agent = None
    /\ ConfigSaved
    /\ pc' = [pc EXCEPT ![c] = "done"]
    /\ UNCHANGED <<agent, pending, startup, status, lock, others, inst,
                   workspaceVars, cleanup, overdue, history>>

StopBegins(c) ==
    /\ StopAsked(c) \/ pc[c] = "st_lock"
    /\ lock = None /\ agent # None
    /\ lock' = c
    /\ inst' = [inst EXCEPT ![c] = agent]
    /\ Close(agent)
    /\ pc' = [pc EXCEPT ![c] = "st_stop"]
    /\ UNCHANGED <<agent, pending, startup, status, others, bootVars, parts,
                   open, cleanup, overdue, history>>

StopEnds(c) ==
    /\ pc[c] = "st_stop"
    /\ lock' = None
    /\ Closed(inst[c])
    /\ agent' = None /\ status' = "disabled"
    /\ ConfigSaved
    /\ pc' = [pc EXCEPT ![c] = "done"]
    /\ UNCHANGED <<pending, startup, others, inst, parts, cleanup, overdue, history>>

\* stop_agent for another agent.
OtherLocks ==
    /\ lock = None /\ others < MaxOthers
    /\ lock' = Other /\ others' = others + 1
    /\ UNCHANGED <<agent, pending, startup, status, bootVars, callVars,
                   workspaceVars, cleanup, overdue, history>>

OtherUnlocks ==
    /\ lock = Other /\ lock' = None
    /\ UNCHANGED <<agent, pending, startup, status, others, bootVars,
                   callVars, workspaceVars, cleanup, overdue, history>>

-----------------------------------------------------------------------------
(* stop_all, at the shutdown: requests have ended, reloads and runs go on *)

Background(c) ==
    \/ pc[c] \in {"idle", "run", "done", "rl_create", "rl_take", "rl_start",
                  "rl_swap", "rl_stop", "rl_discard"}
    \/ c = startup

StopAllBegins(c) ==
    /\ pc[c] = "idle" /\ ~down /\ boot # "core"
    /\ \A d \in Calls : Background(d)
    /\ down' = TRUE
    /\ pc' = [pc EXCEPT ![c] = "sa_wait"]
    /\ UNCHANGED <<agent, pending, startup, status, lock, others, config, boot,
                   inst, workspaceVars, cleanup, overdue, history>>

\* cancel_all_startup_tasks
StartupCancelled(c) ==
    /\ down /\ startup = c
    /\ \/ /\ pc[c] \in {"queued", "ask", "join", "released"}
          /\ Ends(c, FALSE)
          /\ UNCHANGED <<life, open>>
       \/ /\ pc[c] = "start" /\ StartBreaks(inst[c])
          /\ pc' = [pc EXCEPT ![c] = "finally"]
          /\ UNCHANGED startup
       \/ /\ pc[c] \in {"put", "hooks"}
          /\ pc' = [pc EXCEPT ![c] = "finally"]
          /\ UNCHANGED <<startup, life, open>>
    /\ UNCHANGED <<agent, pending, status, lock, others, bootVars, inst, parts,
                   cleanup, overdue, history>>

\* cancel_all_cleanup_tasks, then every workspace is stopped, without the lock.
StopAllStops(c) ==
    /\ pc[c] = "sa_wait" /\ startup = None
    /\ cleanup' = [i \in Workspaces |-> {}]
    /\ IF agent = None
       THEN /\ pc' = [pc EXCEPT ![c] = "done"]
            /\ UNCHANGED <<inst, life>>
       ELSE /\ pc' = [pc EXCEPT ![c] = "sa_stop"]
            /\ inst' = [inst EXCEPT ![c] = agent]
            /\ Close(agent)
    /\ UNCHANGED <<agent, pending, startup, status, lock, others, bootVars,
                   parts, open, overdue, history>>

StopAllEnds(c) ==
    /\ pc[c] = "sa_stop"
    /\ Closed(inst[c])
    /\ agent' = None
    /\ pc' = [pc EXCEPT ![c] = "done"]
    /\ UNCHANGED <<pending, startup, status, lock, others, bootVars, inst,
                   parts, cleanup, overdue, history>>

-----------------------------------------------------------------------------
GetAgent(c) ==
    \/ GetAwaits(c) \/ GetFast(c) \/ GetBlocks(c) \/ GetRechecks(c)
    \/ GetJoins(c) \/ GetRefuses(c) \/ GetClaims(c) \/ GetStarted(c)
    \/ GetFails(c) \/ GetPuts(c) \/ GetFinishes(c) \/ JoinReturns(c)

Reload(c) ==
    \/ ReloadBegins(c) \/ ReloadRefuses(c) \/ ReloadBlocks(c)
    \/ ReloadCreates(c) \/ ReloadStarted(c) \/ ReloadFails(c)
    \/ ReloadSwaps(c) \/ ReloadRetires(c) \/ ReloadDiscards(c)
    \/ ReloadDiscarded(c)

Stop(c) == StopBlocks(c) \/ StopFindsNothing(c) \/ StopBegins(c) \/ StopEnds(c)

StopAll(c) ==
    \/ StopAllBegins(c) \/ StartupCancelled(c) \/ StopAllStops(c)
    \/ StopAllEnds(c)

Startup(c) == Schedule(c) \/ CoreReady(c) \/ StartupSkips(c)

Next ==
    \/ \E c \in Calls :
         \/ GetAgent(c) \/ Reload(c) \/ Stop(c) \/ StopAll(c) \/ Startup(c)
         \/ StartRun(c) \/ EndRun(c)
    \/ \E i \in Workspaces : WaitExpires(i) \/ CleanupStops(i)
    \/ BootBegins \/ CoreEnds \/ OtherLocks \/ OtherUnlocks

Spec == Init /\ [][Next]_vars

\* Steps the event loop takes once they are ready; a workspace starts or fails,
\* and a stop ends. Nothing makes a call begin or a run end.
Goes(c) ==
    \/ GetFast(c) \/ GetBlocks(c) \/ GetRechecks(c) \/ GetJoins(c)
    \/ GetRefuses(c) \/ GetClaims(c) \/ GetStarted(c) \/ GetFails(c)
    \/ GetPuts(c) \/ GetFinishes(c) \/ JoinReturns(c) \/ StartupSkips(c)
    \/ ReloadRefuses(c) \/ ReloadBlocks(c) \/ ReloadCreates(c)
    \/ ReloadStarted(c) \/ ReloadFails(c) \/ ReloadSwaps(c)
    \/ ReloadRetires(c) \/ ReloadDiscards(c) \/ ReloadDiscarded(c)
    \/ (pc[c] = "st_lock" /\ (StopFindsNothing(c) \/ StopBegins(c)))
    \/ StopEnds(c)
    \/ StartupCancelled(c) \/ StopAllStops(c) \/ StopAllEnds(c)

Fairness ==
    /\ \A c \in Calls : WF_vars(pc[c] # "idle" /\ Goes(c))
    /\ \A i \in Workspaces : WF_vars(CleanupStops(i))
    /\ WF_vars(OtherUnlocks)
    /\ WF_vars(CoreEnds)

FairSpec == Spec /\ Fairness

-----------------------------------------------------------------------------
(* Properties *)

\* The manager's state is well formed.
TypeOK ==
    /\ agent \in Workspaces \cup {None}
    /\ {pending, startup} \subseteq Calls \cup {None}
    /\ lock \in Calls \cup {None, Other} /\ others \in 0..MaxOthers
    /\ status \in {"none", "pending", "starting", "running", "failed",
                    "disabled"}
    /\ config \in {"enabled", "disabled", "deleted"}
    /\ boot \in {"before", "core", "done"} /\ down \in BOOLEAN
    /\ pc \in [Calls -> Pcs] /\ inst \in [Calls -> Workspaces \cup {None}]
    /\ life \in [Workspaces -> Lives]
    /\ parts \in [Workspaces -> Workspaces]
    /\ open \subseteq Workspaces
    /\ cleanup \in [Workspaces -> SUBSET Calls]
    /\ overdue \subseteq Workspaces
    /\ {late, overtaken} \subseteq SUBSET Calls /\ crossed \in BOOLEAN

\* get_agent starts a workspace outside the lock: whatever reloads and stops
\* do meanwhile, there is one starter, it never puts its workspace over another
\* one in the table, and however it ends it takes its "starting" back.
OneStarter ==
    /\ \A c \in Calls :
         /\ pc[c] \in {"start", "put", "hooks", "finally"} => pending = c
         /\ pc[c] \in {"start", "put"} => agent = None
    /\ status = "starting" /\ ~down => pending # None

\* Until the shutdown every started workspace serves, is about to, or is going
\* to be stopped: none is forgotten with its channels and timers running.
NoOrphan ==
    \A i \in Workspaces :
      life[i] \in {"started", "retiring", "closing"} /\ ~down =>
        \/ agent = i \/ cleanup[i] # {}
        \/ \E c \in Calls :
             /\ inst[c] = i
             /\ pc[c] \in {"put", "rl_swap", "rl_stop", "rl_discard",
                           "st_stop"}

\* The workspace in the table is a started one, unless whoever stops it is
\* about to take it out: no reload leaves a stopped workspace serving.
ServesStarted ==
    agent # None =>
      \/ life[agent] = "started"
      \/ \E c \in Calls :
           pc[c] \in {"st_stop", "sa_stop"} /\ inst[c] = agent
      \/ down

\* "Ongoing SSE/streaming tasks continue uninterrupted": a run that was started
\* on the serving workspace is over before a reload stops that workspace, or
\* has been given the 24 hours of delayed_cleanup.
RunsNotCut ==
    \A c \in Calls :
      pc[c] = "run" /\ life[inst[c]] \in {"retiring", "stopped"} =>
        c \in late \/ inst[c] \in overdue

\* A reload hands the task tracker and the memory on without knowing who else
\* uses or closes them.  Even so reconnect, status and stop requests still reach
\* the runs in flight, which are in the tracker of the workspace that serves now
\* unless the agent was stopped after they began, and the workspace that serves
\* has its memory open.
RunsReachable ==
    ~crossed /\ ~down =>
      /\ \A c \in Calls :
           pc[c] = "run" =>
             \/ agent # None /\ parts[agent] = parts[inst[c]]
             \/ \E i \in Workspaces :
                  life[i] = "closed" /\ parts[i] = parts[inst[c]]
      /\ agent # None /\ life[agent] = "started" => parts[agent] \in open

\* Every call returns, the joined and the blocked ones too.
CallsReturn ==
    \A c \in Calls :
      pc[c] \notin {"idle", "got", "run", "done"} ~> pc[c] \in {"got", "done"}
=============================================================================
