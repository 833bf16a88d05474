------------------------ MODULE UnifiedQueueManager ------------------------
(***************************************************************************)
(* UnifiedQueueManager (src/src/hanbao/app/channels/                       *)
(* unified_queue_manager.py): one bounded queue and one consumer task per  *)
(* key, created on demand, and a background sweep that removes idle        *)
(* queues.                                                                 *)
(*                                                                         *)
(* The bodies under `_lock` never await, so each is one atomic step with   *)
(* the code around it up to the next suspension.  A QueueState and its     *)
(* consumer task are one identity c.  The registry `_queues` maps a key to *)
(* such an identity, and every removal but the sweep's is by key.          *)
(*                                                                         *)
(* What a consumer does with a message is the consumer function's affair:  *)
(* ChannelDispatch supplies it and composes the two.                       *)
(***************************************************************************)
EXTENDS Naturals, Sequences, FiniteSets

CONSTANTS
    Keys,       \* QueueKeys (channel, session, priority)
    Consumers,  \* identities of QueueStates and their consumer tasks
    Messages,   \* payloads, numbered in the order in which they arrive
    Session,    \* message -> the key it is routed to
    None,       \* absence
    QueueMax,   \* _queue_maxsize
    MaxSweeps,  \* bound: sweeps of the cleanup loop that find idle queues
    MayStop     \* whether the manager may be shut down

ASSUME QueueConstants ==
    /\ None \notin Keys \cup Consumers
    /\ Messages \subseteq Nat
    /\ Session \in [Messages -> Keys]
    /\ QueueMax \in Nat \ {0}
    /\ MaxSweeps \in Nat
    /\ MayStop \in BOOLEAN

VARIABLES
    registry,  \* _queues: key -> the registered QueueState
    keyOf,     \* consumer -> its key
    queue,     \* consumer -> contents of its asyncio.Queue
    putters,   \* consumer -> messages blocked in put() on its full queue;
               \* a put() woken too late waits again behind the others, so
               \* no order among them survives
    stale,     \* consumer -> last_activity is more than idle_timeout ago
    task,      \* consumer -> state of its task
    cancel,    \* consumer -> a cancellation is pending on its task
    where,     \* message -> what has become of it
    sweeper,   \* cleanup loop: "asleep", "waiting" (awaits a task) or "ended"
    toClean,   \* rest of to_cleanup
    awaited,   \* the consumer the cleanup loop awaits
    sweeps,    \* sweeps made so far
    misjudged, \* history: consumers removed with a queue that was not idle
    stopping   \* how far ChannelManager.stop_all has got

queueVars == <<registry, keyOf, queue, putters, stale, task, cancel>>
sweepVars == <<sweeper, toClean, awaited, sweeps, misjudged>>
mgrVars   == <<queueVars, where, sweepVars, stopping>>

TaskState == {"absent", "created", "running", "done"}
StopState == {"no", "enqueues", "sweeper", "consumers", "stopped"}
Places    == {"new", "putting", "queued", "taken", "started", "ignored",
              "skipped", "failed", "lost", "cleared", "timedout"}

ManagerInit ==
    /\ registry = [k \in Keys |-> None]
    /\ keyOf    = [c \in Consumers |-> None]
    /\ queue    = [c \in Consumers |-> <<>>]
    /\ putters  = [c \in Consumers |-> {}]
    /\ stale    = [c \in Consumers |-> FALSE]
    /\ task     = [c \in Consumers |-> "absent"]
    /\ cancel   = [c \in Consumers |-> FALSE]
    /\ where    = [m \in Messages |-> "new"]
    /\ sweeper  = "asleep"
    /\ toClean  = {}
    /\ awaited  = None
    /\ sweeps   = 0
    /\ misjudged = {}
    /\ stopping = "no"

-----------------------------------------------------------------------------
(* Helpers *)

Live(c) == task[c] \in {"created", "running"}

Elements(seq) == {seq[i] : i \in DOMAIN seq}

\* Every message of the set S is now at place p.
Move(S, p) == where' = [m \in Messages |-> IF m \in S THEN p ELSE where[m]]

\* Mutant of PopAndCancel: the key is awaited instead of the task.
PopAndAwaitKey(k) ==
    /\ registry' = [registry EXCEPT ![k] = None]
    /\ cancel'   = [cancel EXCEPT ![registry[k]] = TRUE]
    /\ awaited'  = k
    /\ sweeper'  = "waiting"

\* `self._queues.pop(key)` by the sweep, then consumer_task.cancel().
PopAndCancel(k) ==
    /\ registry' = [registry EXCEPT ![k] = None]
    /\ cancel'   = [cancel EXCEPT ![registry[k]] = TRUE]
    /\ awaited'  = registry[k]
    /\ sweeper'  = "waiting"

-----------------------------------------------------------------------------
(* Enqueue *)

\* put() on the queue of c: at once if there is room, else blocked.
Put(m, c) ==
    IF Len(queue[c]) < QueueMax
    THEN /\ queue' = [queue EXCEPT ![c] = Append(@, m)]
         /\ Move({m}, "queued")
         /\ UNCHANGED putters
    ELSE /\ putters' = [putters EXCEPT ![c] = @ \cup {m}]
         /\ Move({m}, "putting")
         /\ UNCHANGED queue

Arrives(m) ==
    /\ stopping # "stopped"
    /\ where[m] = "new"
    /\ \A n \in Messages : n < m => where[n] # "new"

\* enqueue to a key that has a queue.
EnqueueExisting(m) ==
  LET k == Session[m] IN
    /\ Arrives(m)
    /\ registry[k] # None
    /\ stale' = [stale EXCEPT ![registry[k]] = FALSE]
    /\ Put(m, registry[k])
    /\ UNCHANGED <<registry, keyOf, task, cancel, sweepVars, stopping>>

\* Mutant of EnqueueCreates: no look at the registry.
EnqueueWithoutLookup(m, c) ==
    /\ Arrives(m)
    /\ task[c] = "absent"
    /\ registry' = [registry EXCEPT ![Session[m]] = c]
    /\ keyOf'    = [keyOf EXCEPT ![c] = Session[m]]
    /\ task'     = [task EXCEPT ![c] = "created"]
    /\ Put(m, c)
    /\ UNCHANGED <<stale, cancel, sweepVars, stopping>>

\* enqueue to a key that has none: queue, consumer task and registry entry
\* are created in the step that puts the message.
EnqueueCreates(m, c) ==
  LET k == Session[m] IN
    /\ Arrives(m)
    /\ registry[k] = None
    /\ task[c] = "absent"
    /\ registry' = [registry EXCEPT ![k] = c]
    /\ keyOf'    = [keyOf EXCEPT ![c] = k]
    /\ task'     = [task EXCEPT ![c] = "created"]
    /\ Put(m, c)
    /\ UNCHANGED <<stale, cancel, sweepVars, stopping>>

\* A blocked put() gets a free slot.
PutResumes(m, c) ==
    /\ m \in putters[c]
    /\ Len(queue[c]) < QueueMax
    /\ queue'   = [queue EXCEPT ![c] = Append(@, m)]
    /\ putters' = [putters EXCEPT ![c] = @ \ {m}]
    /\ Move({m}, "queued")
    /\ UNCHANGED <<registry, keyOf, stale, task, cancel, sweepVars, stopping>>

\* wait_for(put, 30 s) expires; _enqueue_with_timeout swallows the error.
PutTimesOut(m, c) ==
    /\ m \in putters[c]
    /\ putters' = [putters EXCEPT ![c] = @ \ {m}]
    /\ Move({m}, "timedout")
    /\ UNCHANGED <<registry, keyOf, queue, stale, task, cancel, sweepVars,
                   stopping>>

\* clear_queue: drains the registered queue (the last step of /stop).
ClearQueue(k) ==
    /\ registry[k] # None
    /\ queue[registry[k]] # <<>>
    /\ Move(Elements(queue[registry[k]]), "cleared")
    /\ queue' = [queue EXCEPT ![registry[k]] = <<>>]
    /\ UNCHANGED <<registry, keyOf, putters, stale, task, cancel, sweepVars,
                   stopping>>

-----------------------------------------------------------------------------
(* Consumer tasks: _run_consumer around the consumer function *)

ConsumerStarts(c) ==
    /\ task[c] = "created"
    /\ ~cancel[c]
    /\ task' = [task EXCEPT ![c] = "running"]
    /\ UNCHANGED <<registry, keyOf, queue, putters, stale, cancel, where,
                   sweepVars, stopping>>

\* Cancelled before its first step: nothing of _run_consumer runs.
ConsumerNeverStarts(c) ==
    /\ task[c] = "created"
    /\ cancel[c]
    /\ task'   = [task EXCEPT ![c] = "done"]
    /\ cancel' = [cancel EXCEPT ![c] = FALSE]
    /\ UNCHANGED <<registry, keyOf, queue, putters, stale, where, sweepVars,
                   stopping>>

\* The finally clause: pops whatever is registered under the key.
ConsumerExits(c) ==
    /\ task'     = [task EXCEPT ![c] = "done"]
    /\ cancel'   = [cancel EXCEPT ![c] = FALSE]
    /\ registry' = [registry EXCEPT ![keyOf[c]] = None]

\* increment_processed: touches whatever is registered under the key.
IncrementProcessed(k) ==
    stale' = IF registry[k] = None THEN stale
             ELSE [stale EXCEPT ![registry[k]] = FALSE]

\* Time: idle_timeout (600 s) has passed since the last enqueue and the last
\* finished batch, whatever the consumer is doing now.  A put() lasts at most
\* 30 s, so none is pending.
GoesStale(c) ==
    /\ sweeps < MaxSweeps
    /\ task[c] = "running"
    /\ putters[c] = {}
    /\ ~stale[c]
    /\ stale' = [stale EXCEPT ![c] = TRUE]
    /\ UNCHANGED <<registry, keyOf, queue, putters, task, cancel, where,
                   sweepVars, stopping>>

-----------------------------------------------------------------------------
(* Cleanup loop *)

\* Mutant of IdleKeys: the emptiness of the queue is not looked at.
StaleKeys == {k \in Keys : registry[k] # None /\ stale[registry[k]]}

IdleKeys == {k \in Keys : /\ registry[k] # None
                          /\ queue[registry[k]] = <<>>
                          /\ stale[registry[k]]}

\* One round finds idle keys and deals with the first of them; no suspension
\* lies between the scan and that first pop.
Sweep(k) ==
    /\ sweeper = "asleep"
    /\ sweeps < MaxSweeps
    /\ k \in IdleKeys
    /\ PopAndCancel(k)
    /\ toClean' = IdleKeys \ {k}
    /\ sweeps'  = sweeps + 1
    /\ UNCHANGED <<keyOf, queue, putters, stale, task, where, stopping,
                   misjudged>>

\* The awaited consumer is done: the next key of the old scan is removed, if
\* it is still registered.
SweepNext(k) ==
    /\ sweeper = "waiting"
    /\ task[awaited] = "done"
    /\ k \in toClean
    /\ registry[k] # None
    /\ PopAndCancel(k)
    /\ toClean' = toClean \ {k}
    /\ misjudged' = IF k \in IdleKeys THEN misjudged
                    ELSE misjudged \cup {registry[k]}
    /\ UNCHANGED <<keyOf, queue, putters, stale, task, where, sweeps, stopping>>

\* Nothing of the scan is left: sleep again, or end if `_running` is off.
SweepDone ==
    /\ sweeper = "waiting"
    /\ task[awaited] = "done"
    /\ \A k \in toClean : registry[k] = None
    /\ sweeper' = IF stopping \in {"no", "enqueues"} THEN "asleep" ELSE "ended"
    /\ toClean' = {}
    /\ awaited' = None
    /\ UNCHANGED <<queueVars, where, sweeps, misjudged, stopping>>

-----------------------------------------------------------------------------
(* ChannelManager.stop_all and UnifiedQueueManager.stop_all *)

\* Every pending enqueue is cancelled.
StopCancelsEnqueues ==
    /\ MayStop
    /\ stopping = "no"
    /\ stopping' = "enqueues"
    /\ Move(UNION {putters[c] : c \in Consumers}, "lost")
    /\ putters' = [c \in Consumers |-> {}]
    /\ UNCHANGED <<registry, keyOf, queue, stale, task, cancel, sweepVars>>

\* `_running` off, cleanup task cancelled.  A cleanup loop that awaits a
\* consumer passes the cancellation on to it and swallows its CancelledError.
StopCancelsSweeper ==
    /\ stopping = "enqueues"
    /\ stopping' = "sweeper"
    /\ IF sweeper = "asleep"
       THEN sweeper' = "ended" /\ UNCHANGED cancel
       ELSE /\ cancel' = [cancel EXCEPT ![awaited] = Live(awaited)]
            /\ UNCHANGED sweeper
    /\ UNCHANGED <<registry, keyOf, queue, putters, stale, task, where,
                   toClean, awaited, sweeps, misjudged>>

\* The cleanup task has ended: every registered consumer is cancelled.
StopCancelsConsumers ==
    /\ stopping = "sweeper"
    /\ sweeper = "ended"
    /\ stopping' = "consumers"
    /\ cancel' = [c \in Consumers |->
                    cancel[c] \/ (Live(c) /\ \E k \in Keys : registry[k] = c)]
    /\ UNCHANGED <<registry, keyOf, queue, putters, stale, task, where,
                   sweepVars>>

\* All of them are done, or 5 s have passed: the registry is emptied.
StopEnds ==
    /\ stopping = "consumers"
    /\ stopping' = "stopped"
    /\ registry' = [k \in Keys |-> None]
    /\ UNCHANGED <<keyOf, queue, putters, stale, task, cancel, where,
                   sweepVars>>

-----------------------------------------------------------------------------

ManagerNext ==
    \/ \E m \in Messages : \/ EnqueueExisting(m)
                          \/ \E c \in Consumers : \/ EnqueueCreates(m, c)
                                                 \/ PutResumes(m, c)
                                                 \/ PutTimesOut(m, c)
    \/ \E k \in Keys : \/ ClearQueue(k)
                       \/ Sweep(k)
                       \/ SweepNext(k)
    \/ SweepDone
    \/ StopCancelsEnqueues
    \/ StopCancelsSweeper
    \/ StopCancelsConsumers
    \/ StopEnds

ManagerTypeOK ==
    /\ registry \in [Keys -> Consumers \cup {None}]
    /\ keyOf    \in [Consumers -> Keys \cup {None}]
    /\ queue    \in [Consumers -> Seq(Messages)]
    /\ putters  \in [Consumers -> SUBSET Messages]
    /\ stale    \in [Consumers -> BOOLEAN]
    /\ task     \in [Consumers -> TaskState]
    /\ cancel   \in [Consumers -> BOOLEAN]
    /\ where    \in [Messages -> Places]
    /\ sweeper  \in {"asleep", "waiting", "ended"}
    /\ toClean  \in SUBSET Keys
    /\ awaited  \in Consumers \cup {None}
    /\ sweeps   \in 0..MaxSweeps
    /\ misjudged \subseteq Consumers
    /\ stopping \in StopState
=============================================================================
