# A TLA+ verification of hanbao

`hanbao` is a personal AI assistant: messages come in from chat channels (a web
console, DingTalk, Feishu, ...), an agent answers them with a language model and
tools, and some calls of external drivers need the user's approval. Almost all of its own logic is
asyncio code on one event loop. This directory holds TLA+ specifications of the
parts of it where steps of several tasks interleave, the TLC configurations that
check them, and proofs for TLAPS. Paths below are relative to `src/src/hanbao/`.

One fact shapes every model: `async with lock:` around a body that does not
await is never contended, so such a body, together with the code around it up to
the next real suspension, is one atomic step. What interleaves is everything on
either side of a suspension: a queue that is empty or full, a future, a sleep, a
lock that some other holder keeps across an await, the start of a new task.

A second one comes back in three components: cancelling a task that has not
made its first step closes its coroutine unstarted, so no `finally` of it runs.

## The system

| component | state | operations | talks to |
|---|---|---|---|
| TaskTracker (`app/task_tracker.py`) | runs by chat id; per run an event log, subscriber queues, a producer task | attach, attach_or_start, request_stop, stream, detach | console router, channels, /stop, workspace reload |
| UnifiedQueueManager (`app/channels/unified_queue_manager.py`) | a queue and consumer task per (channel, session, priority), idle times | enqueue, clear, sweep, stop | ChannelManager gives it the consumer function |
| ChannelManager (`app/channels/manager.py`), BaseChannel (`base.py`) | channel list and its lock, pending enqueue tasks | route a payload, consume a batch, swap a channel, stop | queue manager, TaskTracker |
| ApprovalService (`app/approvals/service.py`) and the gate of driver calls (`app/approvals/driver_gate.py`) | pending records with futures | create, wait, resolve, supersede, cancel by root session, collect | driver calls on one side; /approve, REST and ACP on the other |
| LLMRateLimiter (`providers/rate_limiter.py`), RetryChatModel (`providers/retry_chat_model.py`) | pause, sliding window, semaphore; per call an attempt and a slot | acquire, release, report a 429; retry loops around a call and inside a stream | the model provider |
| ToolCoordinator, ToolStream (`tool_calls/`) | entries by tool call id; per call a context (deadline, cancel event), a stream with its subscribers, a background task | execute, request_offload, extend_deadline, cancel, shutdown, subscribe | runtime, tools, hooks |
| MultiAgentManager, Workspace, ServiceManager (`app/multi_agent_manager.py`, `app/workspace/`) | agents by id, starts in progress, start-up tasks and their statuses, services of each workspace, delayed clean-ups | lazy start, scheduled start-up, reload, stop, shutdown | requests, TaskTracker, all services |
| CronManager and its repository (`app/crons/`) | jobs.json, the scheduler's job, semaphores, states, history files and their copies in memory | create or replace, delete, pause, run, stop, get_history | scheduler, executor |
| Backup and restore (`backup/`) | directories, their staged copies and markers on disk | create, restore in two phases, recover at start-up | file system |
| stores: chats, sessions, inbox, push, token usage, access control | JSON files or bounded lists under one lock | CRUD, flush | routers |
| the rest: auth, watchers, governance policy, drivers/MCP, plugins, PawApp, ACP, CLI/TUI, sandbox, the TypeScript console | | | |

What makes each of them correct, and what is hard:

* **TaskTracker**: one producer per key; every subscriber, however late, gets the
  whole log once and in order; the end marker comes last; a stop returns.
  Hard: attaching while a producer emits, stopping before the first step,
  detaching after the run was replaced.
* **Channel pipeline**: one session's messages are worked on by one consumer, in
  order, and none is lost. Hard: the sweep of idle queues, cancellation that is
  swallowed, full queues, channel swaps, shutdown.
* **Approvals**: a driver call goes ahead by a yes to its own record only, and a
  yes is without effect only where a timer or a stop came first; no gate waits
  for an answer that nobody can give. Hard: the timer against the answer, /stop,
  replays, eviction.
* **LLM calls**: semaphore places are conserved over every path; pauses are
  kept; every call ends. Hard: ownership of the place moves between three
  functions; timeouts and cancellation can hit a wait at the moment it is granted.
* **ToolCoordinator**: a caller gets every chunk once and in order, and every call
  ends. Hard: the deadline, a cancellation and a chunk race for one wait; the
  background task is cancelled while it puts a chunk or the end of the stream.
* **MultiAgentManager**: one live instance per agent; the old one is stopped
  when its runs are done, or 24 hours later under them; no started instance is forgotten; no
  caller waits for ever for another's start. Hard: reloads, lazy starts, start-up
  tasks and stops of one agent overlap, and most of each runs without the lock.
* **CronManager**: at most `max_concurrency` runs of a job on one semaphore, and
  only a change of the job brings another into use; until a deletion its history
  has the latest runs in order; a status of "running" is true. Hard: edits under
  runs; worker threads write files while the event loop goes on.
* **Backup**: after any crash and recovery a directory that the recovery looks at
  is wholly old or wholly new. Hard: what it looks at depends on a configuration
  that the restore replaces first and corrects last.

`PROJECT.json` lists the hazards line by line, with the properties that cover
them.

## Modules

| module | models |
|---|---|
| `EventLog` | abstract: what a tracker promises to those who follow a run |
| `TaskTracker` | all of `task_tracker.py` that changes state; implements `EventLog` |
| `UnifiedQueueManager` | queues, registry, sweep and shutdown; leaves the consumer open |
| `ChannelDispatch` | extends it with the consumer function: the composition of queue manager, channel manager and run tracker |
| `ApprovalService` | records, futures, the driver calls that wait, the user, the clock |
| `LLMCalls` | the limiter as the two retry loops use it, in discrete time |
| `ToolCoordinator` | calls: their two tasks, the stream between them, interventions, shutdown |
| `AgentManager` | the agent table, workspaces, start-up tasks, reloads, stops, shutdown, and the runs on the workspaces |
| `CronManager` | one job: runs, edits, semaphores, status, history file |
| `RestoreSwap` | the restore of directories and its recovery, file operation by file operation |
| `TaskTracker_proofs` | theorems about `TaskTracker`: its invariants, and the refinement |
| `ChannelDispatch_proofs` | theorems about `ChannelDispatch` and the queue manager in it |
| `ApprovalService_proofs`, `LLMCalls_proofs`, `ToolCoordinator_proofs`, `AgentManager_proofs`, `CronManager_proofs`, `RestoreSwap_proofs` | theorems about these modules |
| `MC...` | instances for TLC: definitions for constants, symmetry |

Some modules have definitions that say "Mutant of": a step with a plausible
mistake in it. No specification uses them; they show that the properties would
notice.

### TaskTracker

A run is a `_RunState`; `runs` is `_runs`, `buffer` and `queues` are its fields.
A subscriber queue is written by the tracker and read by one stream, so it is
kept as the whole sequence `out` put in it and the number `cursor` of items
taken: the properties can then speak of what was ever delivered. `attach`,
`attach_or_start` and `request_stop` are one action each up to the first
suspension (`Attach`; `AttachExisting` and `Start`; `RequestStop`, then
`StopReturns` after the `await task`). The producer is `ProducerStart`, any
number of `ProducerEmit`, and `ProducerFinish` or `ProducerError`, which include
the whole `finally`. `ProducerNeverStarts` is the cancellation before the first
step. `Detach` looks the run up again by key, as the code does.

`EventLog` is what is left without queues, replay, markers and sentinels: a log
per run, and readers who get it event by event and are told its end when they
have all of it. In the refinement mapping the log is `buffer`; a run is open
from `Start` until its `finally`; what a reader was given is what it took from
its queue but the replay marker and the sentinel; taking the sentinel is
`Complete`, closing a stream before that is `Leave`. Stopping, detaching and the
marker are stutters.

### UnifiedQueueManager and ChannelDispatch

A `QueueState` and its task are one identity in `Consumers`. `registry` is
`_queues`. A task is created, running or done, with a pending cancellation in
`cancel`; `pc` says which await of `_consume_queue` it is suspended in. A key is
a session at normal priority and also its chat, and of the tracker only this is
kept: who started the active run of the chat (`run`), and how far the producer
of that run is (`producer`). `RunBegins` is its first step, `RunEnds` its end,
with the sentinel; `RunStruck` is a stop before the first step, after which no
sentinel comes and the consumer that streams the run is `Hung`. `where` records what has become of
each message. Enqueueing is one step with the creation of queue and consumer
(the lock body and the put do not suspend unless the queue is full). The sweep
is `Sweep` (scan and first removal), then `SweepNext` for each further key after
the await of the previous consumer, then `SweepDone`. Idle time is a Boolean
`stale` per queue, set by `TimePasses` at any moment at which the code could
find the queue older than `idle_timeout`; a consumer in the middle of a run is
one such moment. `misjudged` is history: consumers that `SweepNext` removed
although their queue was no longer what the scan had found. `CSwallows` is the
`except CancelledError: break` in `stream_from_queue`.

### ApprovalService

The gate is that of driver calls (`driver_gate.py`). The approval flow of the tool
gates is switched off: `tool_guard.py:258-270` and `tool_adapter.py:336-347` and
443 allow or deny without a record, and the functions that would ask are called
by nothing, so nothing is said here of tools other than drivers. The answer (`Resolve`), the supersession and collection in `Ask`, and the
cancellation of a root session are atomic. The end of a wait is not: `TimerFires`
cancels the future, `WaitTimesOut` is the waiting task some steps later; between
them the record is still in the store with a future that is done. `StopRun` is
the cancellation of the gate, which leaves its record behind. Ages are a Boolean
`old`; with `LongTimeout` FALSE (the defaults: 300 s against 1800 s) a record
whose gate waits never becomes old.

### LLMCalls

One action per thing that can happen to a call: it starts, wakes up, is granted
the semaphore, times out; the provider answers, opens a stream, sends a first
chunk, fails, sends a 429; the call's backoff ends; its caller cancels it.
`streaming` tells whether `__call__` or `_wrap_stream` is in charge. `Holds`
says when a call has a place in the semaphore: a retry of `__call__` sleeps
inside the `try` and keeps it, a retry of `_wrap_stream` does not. `acquire()`
runs through its three stages in one step as far as it gets, so `PassPause`
calls `PassWindow`. `Older` evicts claims from the left, as the `popleft` loop
does. Time is `Tick`; a timer that has run out may still be late.
`barred` is a history variable: before what time a call must not go out.

### ToolCoordinator

A call is two tasks. `front` says where the caller's is: in the loop of
`execute()`, in the wait of `_await_next_event`, after the end of the stream,
returned, or gone. `bg` says in which await of `_run_tool_with_hooks` and
`_drain` the background task is; the places differ by what a `CancelledError`
does there. `queue` is the caller's `chunk_queue`; another client of the stream
is only `viewer`, for it shares no more than the fact that the stream has
readers. `append()` and `close()` suspend in a `gather` of puts if there are
readers: `putting` is the item, `Put` the put tasks. What the tool says is
numbered, so that order and gaps can be seen.

The race in `_await_next_event` is as asyncio decides it: an item in the queue
is taken when the wait is armed (`Arm`) or by the getter while it waits (`Get`),
and once it is taken none of the other events ends the wait first. `Strike` is
`task.cancel()`: the put tasks of the gather go with it. `lost` and `untimely`
are history: calls struck while a chunk was being put, and calls struck where
nothing closes the stream. Offloaded calls are not modelled since nothing makes
any: the code that did is disabled (`_coordinator.py:114`).

### AgentManager

One agent id, and the calls that are about it; a call becomes a request, a
start-up task, a reload, a stop or the shutdown when it begins. A workspace is
named by the call that created it, a run by its request. The lock is kept over
an await in three places: by `stop_agent`, by a reload that finds the agent
gone, and by whoever stops another agent (`OtherLocks`); a body that does not
await is part of the step around it. So a lazy start is `GetFast`, `GetBlocks`,
`GetRechecks`, `GetJoins` or `GetClaims`, then `GetStarted` or `GetFails` after
the start outside the lock, `GetPuts`, the hooks and `GetFinishes`, the
`finally` clause that releases those who joined. A reload is `ReloadCreates`
(which takes tracker, memory and chat manager from what serves at that moment:
`parts`), `ReloadStarted`, `ReloadSwaps`, and `ReloadRetires` or, when runs are
in flight, the clean-up `CleanupStops` that waits for those of its snapshot, or for
24 hours: `WaitExpires` makes it `overdue`, and it stops the workspace under
them. A workspace has a `life`, and `open` are the memory managers that are started.

`late`, `overtaken` and `crossed` are history: runs that were started on a workspace
already replaced (the request had looked it up before), and reloads during which the
agent was stopped and started anew. Such a reload puts in place what belongs to a
workspace that is gone; `RunsReachable` and the findings say so.

### CronManager

One job, as `start` leaves it: not there, registered and active or paused, or
saved and switched off because its schedule could not be registered, with neither
a scheduler's job nor a semaphore. Versions of its specification, semaphores and history locks are named
by who made them. `rt` is the registered semaphore, `sem` the one a run holds,
which may be another. File reads and writes are handed to worker threads, so a
step lies on either side of each: `AppendReads` and `AppendWrites`,
`HistoryRead` and `HistoryKept`, `ReplaceBegins`, `ReplaceSaves` and `Register`,
the four steps of `delete_job`. `_lock` is held over them by edits only; runs do
not take it. `Stop` cancels the scheduler's run as well, which is recorded in
the `finally` clause; a worker thread that is writing is waited for. `SendHangs`
is the executor of a text job, which sends without a timeout (agent jobs have
one). `replaced`, `deleted` and `outdated` are history: how many registered
semaphores an update or a deletion has put aside, whether the job was deleted,
and that `get_history` kept what a run had meanwhile replaced.

### RestoreSwap

One action per call of the file system, so that a crash (`Crash`) can come
between any two of them and any of them can fail (`Fail`, with the consequence
its `except` clause gives it). `pc` is the next call, `task` who asked for it:
start-up (`boot`), clean-up before staging (`stage`), the commit, or the
recovery right after a failed swap (`undo`). A destination has four places on
disk and, if it is a mount point, the marker and its temporary file. `rmtree`
removes one child per step; a move to a mount point is a copy, during which the
child is torn. `gen` is a history variable: the generation that was last put in
place, by the rename of the staged directory or by the marker `committed`.
`named` is what start-up would look at: `skill_pool` and the workspaces in the
configuration. A restore that replaces the configuration makes it `Known`, the
destinations whose place is the same on the machine the backup was made on;
`SavePaths` makes it all of them once the commit is over, and start-up passes
over the others (`PassOver`). That a later restore goes to the same places is an
abstraction: after one that died before `SavePaths`, an agent that the
configuration does not place goes to the default directory of its id
(`restore_helpers.py:69-109`). The secrets' directory is recovered by
`envs/store.py:255-261` in the same way, and an application whose recovery raises
does not start (`_app.py:97-108`).
Processes do not overlap (`restore_process_lock`), so there is one. What reached
the disk before a crash stays there: the loss of unsynced pages in a power
failure is not modelled. `Recreate` is the service that runs on: a workspace
makes its directory if that is missing.

## Runs

Deadlock is not checked in any run: every model really stops, when its finite
supply of runs, messages, records or calls is used up.

| run | what it checks | states |
|---|---|---|
| `tracker` | `TypeOK`, `SingleProducer`, `ExactReplay`, `NoLeakedQueue`, the refinement `ImplementsEventLog`, and under fairness `StopEventuallyReturns`, `StopReleasesReaders` | 176 000 |
| `serial` | `NoMessageIgnored`, `ArrivalOrder`, under fairness `EveryMessageHandled` | 58 000 |
| `cleanup` | `TypeOK`, `NoStranding`, `BoundedConsumers` with two rounds of the sweep and shutdown | 702 000 |
| `ignored` | violation of `NoMessageIgnored` with one sweep | |
| `approvals` | `TypeOK`, `WaiterReachable`, `UserDecides` | 3 560 000 |
| `llm` | `TypeOK`, `SlotsConserved`, `NoLostWakeup`, `RetryAfterHonoured` | 270 000 |
| `llm_live` | under fairness `EveryCallEnds` | 61 000 |
| `tools` | `TypeOK`, `Delivered`, under fairness `CallsEnd` | 474 000 |
| `agents` | `TypeOK`, `OneStarter`, `NoOrphan`, `ServesStarted`, `RunsNotCut`, `RunsReachable`, under fairness `CallsReturn` | 185 000 |
| `crons` | `TypeOK`, `HistoryComplete`, `LimitBounded`, `RunningIsTrue`, under fairness `AllEnds` | 499 000 |
| `restore` | `TypeOK`, `NothingLost`, `WholeAfterStart`, `SuccessMeansNew` | 402 000 |
| `restore_twice` | violation of `NothingLost` by a crash during a rollback | |

Bounds, and why they are enough:

* `tracker`: two keys, two runs and two subscribers let a run be replaced under
  its key, one subscriber stay on the old and one attach to the new; one event
  and an error make logs of length two, enough to misorder. The proofs remove
  the bounds for the invariants.
* `serial`: four messages, three of them of one session: one in a run, one held
  during a channel swap, one behind it. The third consumer identity can only be
  used if something creates one consumer too many. Queues do not fill there,
  since asyncio gives blocked puts no order to check.
* `cleanup`: a queue of length one fills with the second message of a session.
  Two sessions let the sweep remove a second queue after it waited for the
  consumer of the first; three messages of one of them, three consumer
  identities and two rounds of the sweep let a swept consumer outlive its
  successor, and the successor be swept as well.
* `approvals`: a store of two and three records, so that the third evicts; one
  call has an id and is replayed, the other has none and belongs to another
  root.
* `llm`: two calls would already compete; the third waits behind a waiter that
  gives up. Two claims per window make the window bind. Attempts are two, so that
  a call fails once and retries once, in either loop. Durations are 0 or 1 tick.
* `tools`: calls with different ids share nothing but `shutdown()`, so one is
  enough; the proof covers any number. Two chunks let one wait in the queue
  while another is being put; two interventions let a deadline be moved and
  reached, or moved while a strike is on its way.
* `agents`: three calls are two that overlap and one in between: a reload, a
  stop and the lazy start that overtakes it, or two requests that join one start
  and a reload. They come upon an agent that is down at start-up or has been up
  for a while. One stop of another agent is enough to block every kind of call.
* `crons`: two runs compete for a permit, a lock and the file, and one edit comes in
  between any of their steps. A history of two records has room for both; the limit
  itself is covered by the proof.
* `restore`: one destination of each kind, two children each, so that a place can be
  half filled; the backup has the place of the first one elsewhere (`Known`). Two restores meet what the first one left; two crashes allow a crash
  during the recovery from another; two failures a failure in the handling of
  one. `Reliable` names the three steps that do not fail: the rename of the old
  directory back, in clean-up and after a failed commit, and the moves of a
  rollback; `Unbroken` the one during which the process does not die, the rollback.
  Without any one of them `NothingLost` or `WholeAfterStart` is violated; with them
  both hold however often the rest fails. So these steps are where the protocol
  is weak, and there are no others.
* `llm_live` has `RetryAfters` on both sides of the cap.

Symmetry is used over consumers in `cleanup` and over calls in `llm`, where
only invariants and action properties are checked. `cleanup` has a view as well,
explained in `MCChannelDispatch`.

### Fairness

Weak fairness on steps the event loop runs once they are ready. Beyond that:

* TaskTracker: a producer must end only once it was cancelled; a run nobody stops
  may wait for its model for ever. Readers that stay connected keep reading.
* ChannelDispatch: runs begin, and those that began end (a stop or the model's own
  timeout); stopping an old channel ends.
* LLMCalls: time passes, and the provider answers somehow: every SDK client has
  a timeout of its own.
* ToolCoordinator: the event loop runs either task when it is ready; a tool ends
  after finitely many chunks. Users and deadlines need not do anything.
* AgentManager: a start or stop of a workspace ends, well or badly. Nothing
  makes a call begin, and no run has to end: a clean-up may wait for its runs
  for up to 24 hours, and nothing is claimed to depend on its end.
* CronManager: the executor returns, raises or, with an agent job, times out; that
  of a text job may hang instead (`SendHangs`), and `AllEnds` claims nothing of
  such a run and of those for which only its permit would be left. Worker threads
  write. Waiters of a semaphore are served in turn; as
  firings are finitely many, weak fairness of the waiting run is enough.

### What the runs found

Places where the code does not do what a comment, docstring or text of the program
says. For two a run ends in a counterexample:

1. `ignored`: "This should not happen with UnifiedQueueManager" happens when a
   run takes longer than `idle_timeout`: its consumer is swept away, and the next
   message finds the run still active.
2. `restore_twice`: a rollback on a mount point that is interrupted starts over by
   removing what it had already moved back.

The others were met while modelling and are listed with their lines in
`PROJECT.json`. The models behave as the code does there, and the properties
name the condition under which they hold:

3. The sweep removes a queue that is no longer idle, and loses the message in it
   (`unified_queue_manager.py:405`; `misjudged` in `NoStranding`).
4. An approval given after the timer fired, or after /stop, is confirmed and has no
   effect (`approvals/service.py:315`).
5. A stream's 429 with a Retry-After above the cap is retried
   (`retry_chat_model.py:652`; `RetryAfterHonoured` is checked with a cap that no
   Retry-After is above, `EveryCallEnds` with one).
6. A status of "pending" that a failed lazy start leaves behind lets the endpoints
   answer 409 from then on (`multi_agent_manager.py:610`).
7. A reload overtaken by a stop and a new start puts closed parts in place
   (`multi_agent_manager.py:446`; `crossed` in `RunsReachable`).
8. A workspace whose start fails keeps the services that had come up
   (`workspace.py:517`).
9. No deadline ends a tool call, and `request_offload` returns True without effect
   (`_coordinator.py:118`).
10. A run that is on when its job is deleted puts state and history back
    (`crons/manager.py:222`; `deleted` in `HistoryComplete`).
11. An update of a job under its runs lets more than `max_concurrency` of them
    execute, and so does a deletion that meets a run which has looked the job up
    (`crons/manager.py:489`; `LimitBounded` says how many more).
12. Under the sweep a session is not served strictly one message after the other:
    a swept consumer goes on beside its successor
    (`unified_queue_manager.py:266`; `BoundedConsumers` says how many).
13. A run stopped before its producer's first step leaves its reader waiting, and
    with a consumer as the reader, its session (`task_tracker.py:299`; `Hung` in
    `EveryMessageHandled` and `NoStranding`; `StopReleasesReaders` speaks of runs
    whose producer had begun).
14. Start-up after a crash in a restore looks for destinations where the backup
    had them (`safe_swap.py:200`; `named` in `WholeAfterStart`).
15. The time limit of a job does not hold for text jobs (`crons/executor.py:63`;
    `hung` in `AllEnds`).

Hazards that contradict no clear statement are in `PROJECT.json` only: a sweep
that never ends because a consumer swallowed its cancellation, a sliding window
that counts claims rather than requests sent, a stream that is never closed when
its task is struck before it began (`untimely`), an update of a job that is
refused for its schedule but has been saved (`Register`), and a clean-up that cuts runs
after 24 hours, as it says it does (`overdue`).

## Proofs

Every theorem holds for any values of the constants that satisfy the named
assumption of its module, which says little more than that names are distinct
and bounds are numbers (`ItemsDistinct`, `ApprovalConstants`,
`LimiterAssumption`, `CoordinatorConstants`, `ManagerConstants`,
`CronConstants`, `RestoreConstants`, and `QueueConstants` of the queue manager).
TLC evaluates them in every run. Where a theorem assumes more, it is said below.

| module | theorems | inductive invariant |
|---|---|---|
| `TaskTracker_proofs` | `Invariance`, `TypeCorrect`, `OneProducerPerKey`, `ReplayIsExact`, `StreamsDetach`, `EndIsComplete`; `Refinement`: the tracker implements `EventLog` | `IInv`, with `SentinelEnds` for the refinement |
| `ChannelDispatch_proofs` | `DispatchInvariance`, `DispatchTypes`, `NothingStranded`, `ConsumersAreBounded`, `NoneIgnoredUntilSweep`, `HandledAtMostOnce`, `ArrivalOrderUnblocked`, `ArrivalOrderWithRoom` | `DispatchInv`, with `CountOK` for the consumers and `OrderOK` for the order |
| `ApprovalService_proofs` | `ApprovalInvariance`, `ApprovalTypes`, `WaitersReachable`, `UsersDecide` | `ApprovalInv` |
| `LLMCalls_proofs` | `SemaphoreInvariance`, `NoPlaceIsLost`, `WaitersAreServed`, `TimersInvariance`, `LimiterTypes`, `RetryAfterIsKept`, `RetryAfterIsKeptBeforeStreams` | `SemaphoreInv`, `TimersInv`, `CooldownOK` |
| `ToolCoordinator_proofs` | `CoordinatorInvariance`, `CoordinatorTypes`, `DeliveredAll` | `CoordinatorInv` |
| `AgentManager_proofs` | `AgentInvariance`, `AgentTypes`, `StartsOnce`, `NoneForgotten`, `TableServes`, `RunsGoOn`, `RunsStayReachable` | `AgentInv` |
| `CronManager_proofs` | `CronInvariance`, `CronTypes`, `HistoryIsComplete`, `LimitIsBounded`, `StatusIsTrue` | `CronInv` |
| `RestoreSwap_proofs` | `Invariance`, `TypeCorrect`, `ContentSurvives`, `OldOrNew`, `SuccessIsReal`, `EvacuationIsMarked` | `IInv` |

In each of them one lemma per action, or kind of action, shows that the invariant is
kept. What the invariants add to the properties, and why that is needed:

**TaskTracker.** `SingleProducer` alone is not inductive: the `finally` pops by
key, and what protects another run from being popped is that a run which is
still running is the one registered under its own key, that `Start` looks for a
live run, and that a run's key never changes. `Registry` says so. `ExactReplay`
needs to know that a queue subscribed to a run was handed out for that run
(`Subscription`) and has not run ahead of it (`Bounds`): a broadcast then
appends the very item the queue is owed next. The part about streams rests on
lemmas about a single log and a single queue (what appending an item does to
what is owed), which know nothing of the tracker. `EndMeansComplete` follows
from the invariant without induction.

For the refinement the invariant is exactly what makes `Read` a step of the
abstract log: the item at the cursor is the event that the reader is owed, or
the marker. It needs one more fact: only a closed stream has taken the sentinel
(`SentinelEnds`), so that closing a stream is not mistaken for completing it.
The proof goes action by action; lemmas say what each leaves of log, phases and
what was given.

**ChannelDispatch.** Most of what is claimed is about messages, which the
actions of three components move about, so the proof first sums up what any step
can do to them: `CargoStep` lists ten ways, and `EveryStepCargo` shows that
every action is one of these or leaves the messages alone. The lemmas about
`PlacesOK` (each message is in one place, the one that `where` says), `FoundOK`
(and is there) and `HomeOK` (with a consumer of its session) go through those ten
instead of some thirty actions. `HandledAtMostOnce` follows from them at once:
with sweeps, clearing, timeouts and the shutdown, a message only goes forward.

Then the readers. `ReadersOK` says that until the shutdown whoever is registered
is alive, and that a consumer which is not, or has been told to stop, left an
empty queue and no blocked put, unless the sweep misjudged it. That the sweep
takes only idle queues is not enough for this: a stale queue must have no
blocked put either, since one that wakes up would fill the queue of a consumer
that is leaving. `NothingStranded` follows, for any number of sweeps.

A session has one consumer only as long as nothing is swept (finding 12).
`CountOK` counts the strays of a key, the live consumers that are not registered
under it: they are no more than the rounds of the sweep, or one fewer while the
key still has to be dealt with in the current round (`Allowance`). A sweep makes
one stray; the late end of a stray pops the entry of its successor, which is then
a stray in its place; nothing else makes any. `ConsumersAreBounded` follows.

`NoMessageIgnored` can be violated once the sweep has run (finding 1), and its
theorem says so: it holds before the first sweep and the shutdown. Its invariants
are `SoleOK` (before the first sweep two live consumers of a key are one, and it
is the registered one; so the `finally` of `_run_consumer`, which pops by key,
pops its own entry) and `CalmOK` (nobody is cancelled or done, and the active
run of a session is the one its consumer streams). The order of arrival, before both too, needs a hypothesis more: a
blocked put that wakes late goes behind those that came after it, so the theorem
is for behaviours without blocked puts (`Unblocked`), and a corollary has this
from the constants, queues with room for all messages, as in `serial`.
`Pipe(c)` is a consumer's batch with the queue behind it, and the invariant is
that it increases; lemmas say that appending the latest message, taking the head
and merging the rest keep a sequence in order.

**ApprovalService.** Records are made in the order of their numbers
(`Creation`), so the one just made is the youngest and the eviction, which takes
the oldest, spares it (`NewestStays`). A pending record is undecided, the decision
to approve stands on the record, and an approved record whose future does not say
so belongs to a gate whose timer had fired or whose run was stopped
(`Decisions`); with it `WaiterReachable` and `UserDecides` are inductive.

**LLMCalls.** The semaphore is treated by itself first: `Balanced` relates
holders, free places and waiters of any semaphore, and lemmas say what taking a
place, giving one back, promising it to a waiter, and a waiter that gives up do
to it. The invariant says that the calls which `Holds` counts are the holders
and the queued ones the waiters; each action of the retry loops is then one of
those steps or none. Time, windows and pauses take no part in it.

`TimersInv` is about those. A call sleeps before a retry only with an attempt
left, which bounds the attempts over both loops. The window is pruned from the
left, up to the first claim that is still in it, as the `popleft` loop does:
that no claim older than the window stays behind needs to know that claims lie
in the order in which they were made (`Sorted`), and that the first claim to
stay exists, which comes from the well-foundedness of the numbers
(`LeastOf`).

`CooldownOK` is why no call goes out too early: one that has yet to look at the
pause is barred no longer than the pause lasts, and one past it is not barred.
A 429 that comes in extends the pause and never shortens it, so this survives
any overlap; that callers look again after their sleep is what uses it.
It breaks where finding 5 is: for a 429 inside a stream whose Retry-After is
above the cap. `RetryAfterIsKept` therefore assumes `WithinCap`, that there is
none such when answers are streams (true in `llm`), and
`RetryAfterIsKeptBeforeStreams` has no such assumption and speaks of calls whose
stream has not been opened.

**ToolCoordinator.** `PlacesOK` ties the caller's place, its getter and the
background task together; `PuttingOK` says what can be about to be put, and that
a strike leaves nothing to put; `FlowOK` accounts for every chunk: those the
caller has, the one the getter holds, those in the queue and the one about to be
put are consecutive and, if none was struck, as many as the tool has said, with
the end only behind them. A lemma each for taking the first item of a queue and
for putting one behind the others carries the arithmetic.

**AgentManager.** `PlacesOK` says what the place of a call implies: who has the
lock, whose workspace is at hand. `Serving` says that nobody but its own call
knows of a workspace before it has been in the table, and that the one in the
table has no clean-up. `RunsOK` follows a run on the serving workspace: when
that is replaced, the run is in the snapshot of the clean-up, which stops the workspace
after it or when it is overdue. `Known` is why no
workspace is forgotten: what a reload is about to stop is being retired already.
`PartsOK` and `ReachOK` are about what is handed on: nobody takes parts of a
workspace that has not been in the table, and a reload that was not overtaken
has those of the one that serves.

**CronManager.** `RunsOK` has the runs in flight finite, at most one of them the
scheduler's. `LimitBounded` is about the semaphores that runs use (`InUse`): it
is inductive once they are known to be finitely many and made by somebody who has
passed the step that makes one (`SemaphoreOK`), so that a new one is new. A run
that finds none registers its own, and those after it share that one
(`FindShares`); only the steps that count in `replaced` leave a semaphore in use
unregistered (`OneAside`, `NoneAside`). `HistoryOK` is why no
record is lost: before a deletion all of them use one lock, and who writes has
put its record in front of what is in the file; `NewestOfNewest` says that
cutting the history off at the limit each time is cutting it off once.

**RestoreSwap.** The theorems assume besides `RestoreConstants` that the three
steps named under the bounds of `restore` do not fail, and that the rollback of
a mount point is not interrupted (`WeakStepsGoWell`). The runs show that this is
needed; the proof that it is enough. The properties speak of the outcome, so
they are far from inductive. The invariant says what each step of the protocol
relies on, in three layers. On disk, whatever the process does: where the
content of a destination is, by which of its directories exist (`PlainContent`)
or by its marker (`MountContent`). This is what a recovery after a crash starts
from; a crash forgets the rest. Then what the process knows of the destination
it is at (`Here`, and `Installing` while children are copied), and of those
before and behind it (`Others`: cleaned up, staged or committed), as far as
start-up knows of them (`named`). And who can be
at which step (`Control`): only clean-up and start-up rename back, and only a
mount point is rolled back. `WhenAway` ties them together: a named destination is
between its two renames only when the process is dead, about to come to it in
start-up, or in the middle of its swap. Lemmas about removal, rename and move
say what these do to the places of one destination, and lemmas about the steps
that several actions share (`NextCommitStep`, `RecoveredStep`,
`NextRecoveryStep`, `GiveUpStep`) carry the rest.

Model-checked only:

* all liveness, which is out of the prover's reach: `StopEventuallyReturns`,
  `StopReleasesReaders`, `EveryMessageHandled`, `EveryCallEnds`, `CallsEnd`,
  `CallsReturn` and `AllEnds`.

Every invariant and every action property that a passing run checks, and the
refinement, is stated by a theorem.

## Not modelled

* `TaskTracker.wait_all_done` and status queries only read.
* Queues of other priorities, and control commands that bypass the tracker:
  independent keys, with no run.
* The debounce buffer of BaseChannel: a payload it keeps is `skipped`.
* Approval scope and the notification of channels; `max_qpm = 0`; statistics.
* Offloaded tool calls and completion handlers: nothing makes one. A tool call
  id used twice at the same time.
* The order and dependencies of services within a workspace's start; plugin
  hooks; the configuration watchers, whose only effect on other components is a
  reload.
* Heartbeat and dream jobs, and of the executor of cron jobs all but how it ends.
* In `RestoreSwap`: how a restore chooses its destinations, signatures, merging of configurations, the
  rewriting of agent files after the commit.
* Everything `PROJECT.json` lists as `not_modelled`, each with its reason. Most
  of the repository by lines is of this kind: adapters to chat platforms and
  model providers, sandboxes, configuration, command line, terminal and web
  front ends. They are input and output around the components above, or
  sequential code on data, where a model would repeat the code and a test says
  as much.

## Plan

1. Done: TaskTracker, its abstract log and the refinement; the channel pipeline;
   approvals; LLM calls; tool calls; agents; cron jobs; the restore of
   directories; proofs of the safety of each.
2. Next, smaller components with state of their own: the flush of token usage
   against the shutdown; chats and sessions, where a read and a write lie on
   either side of an await; the console push store.
3. Abstract specifications still missing: a FIFO server per session, implemented by
   ChannelDispatch before the first sweep (the steps are those of `CargoStep`); a
   counting semaphore, implemented by LLMCalls. Then the proofs of both.
