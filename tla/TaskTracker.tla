---------------------------- MODULE TaskTracker ----------------------------
(***************************************************************************)
(* TaskTracker (src/src/hanbao/app/task_tracker.py): one background run    *)
(* per run key, an event log per run, and any number of subscribers that   *)
(* may attach late, disconnect, and attach again.                          *)
(*                                                                         *)
(* Everything runs on one asyncio event loop.  The bodies under `_lock`    *)
(* contain no await, so the lock is never contended and each body, with    *)
(* the code around it up to the next suspension, is one action here.  What *)
(* interleaves is: the producer task of every run, the request handlers    *)
(* that attach, start and stop, and the readers of the queues.             *)
(*                                                                         *)
(* A subscriber queue has one writer side and one reader: it is the        *)
(* sequence `out` of all that was put in it and the number `cursor` of     *)
(* items its reader has taken.                                             *)
(***************************************************************************)
EXTENDS Naturals, Sequences, FiniteSets

CONSTANTS
    Keys,      \* run keys (chat ids)
    Runs,      \* identities of _RunState objects
    Subs,      \* identities of subscriber queues
    Stoppers,  \* callers of request_stop
    Events,    \* SSE payloads a stream can produce
    ErrSse,    \* the error SSE the producer appends when its stream raises
    ReplayEnd, \* REPLAY_END_SSE
    Sentinel,  \* _SENTINEL
    NoRun,     \* absence of a run
    NoKey,     \* absence of a run key
    MaxEvents  \* bound: events one stream produces

Log == Events \cup {ErrSse}

ASSUME ItemsDistinct ==
    /\ Sentinel \notin Log \cup {ReplayEnd}
    /\ ReplayEnd \notin Log
    /\ NoRun \notin Runs
    /\ NoKey \notin Keys
    /\ MaxEvents \in Nat

VARIABLES
    runs,       \* TaskTracker._runs: key -> registered run
    keyOf,      \* run -> the key it was started for
    task,       \* run -> state of its producer task
    cancelling, \* run -> task.cancel() was called on it
    buffer,     \* run -> _RunState.buffer
    queues,     \* run -> _RunState.queues
    finished,   \* run -> finish_time is set (the producer's finally ran)
    sub,        \* subscriber -> life cycle of its reader
    subRun,     \* subscriber -> the run its queue was handed out for
    out,        \* subscriber -> everything put in its queue
    cursor,     \* subscriber -> items read from its queue
    mark,       \* subscriber -> position of ReplayEnd in out, 0 if none
    awaiting    \* stopper -> the run whose task request_stop awaits

trackVars == <<runs, keyOf, task, cancelling, buffer, queues, finished>>
subVars   == <<sub, subRun, out, cursor, mark>>
vars      == <<trackVars, subVars, awaiting>>

TaskState == {"absent", "scheduled", "running", "done"}
SubState  == {"free", "attached", "streaming", "closed", "abandoned"}

Init ==
    /\ runs       = [k \in Keys |-> NoRun]
    /\ keyOf      = [r \in Runs |-> NoKey]
    /\ task       = [r \in Runs |-> "absent"]
    /\ cancelling = [r \in Runs |-> FALSE]
    /\ buffer     = [r \in Runs |-> <<>>]
    /\ queues     = [r \in Runs |-> {}]
    /\ finished   = [r \in Runs |-> FALSE]
    /\ sub        = [s \in Subs |-> "free"]
    /\ subRun     = [s \in Subs |-> NoRun]
    /\ out        = [s \in Subs |-> <<>>]
    /\ cursor     = [s \in Subs |-> 0]
    /\ mark       = [s \in Subs |-> 0]
    /\ awaiting   = [p \in Stoppers |-> NoRun]

-----------------------------------------------------------------------------
(* Helpers *)

\* The run exists and its task is not done().
Live(r) == task[r] \in {"scheduled", "running"}

\* `state is not None and not state.task.done()`
Active(k) == runs[k] # NoRun /\ Live(runs[k])

\* `for q in run.queues: q.put_nowait(item)`
Broadcast(r, item) ==
    out' = [s \in Subs |-> IF s \in queues[r] THEN Append(out[s], item)
                                              ELSE out[s]]

\* A fresh queue that already holds `items` becomes a subscriber of r.
NewQueue(s, r, items, m) ==
    /\ sub'    = [sub    EXCEPT ![s] = "attached"]
    /\ subRun' = [subRun EXCEPT ![s] = r]
    /\ out'    = [out    EXCEPT ![s] = items]
    /\ mark'   = [mark   EXCEPT ![s] = m]
    /\ queues' = [queues EXCEPT ![r] = @ \cup {s}]
    /\ UNCHANGED cursor

\* Mutant of Detach: the queue stays in the run's list.
DetachForgets(s) == UNCHANGED queues

\* detach_subscriber: looks the run up again by key; removes the queue only
\* if the run now registered holds it.
Detach(s) ==
    LET r == runs[keyOf[subRun[s]]]
    IN  queues' = IF r = NoRun THEN queues
                  ELSE [queues EXCEPT ![r] = @ \ {s}]

-----------------------------------------------------------------------------
(* Request handlers *)

\* attach: replay of the buffer, then the marker, then live events.
Attach(s, k) ==
    /\ sub[s] = "free"
    /\ Active(k)
    /\ NewQueue(s, runs[k], Append(buffer[runs[k]], ReplayEnd),
                Len(buffer[runs[k]]) + 1)
    /\ UNCHANGED <<runs, keyOf, task, cancelling, buffer, finished, awaiting>>

\* Mutant of AttachExisting: a late subscriber gets no replay.
AttachWithoutReplay(s, k) ==
    /\ sub[s] = "free"
    /\ Active(k)
    /\ NewQueue(s, runs[k], <<>>, 0)
    /\ UNCHANGED <<runs, keyOf, task, cancelling, buffer, finished, awaiting>>

\* attach_or_start, a run is active: replay without a marker.
AttachExisting(s, k) ==
    /\ sub[s] = "free"
    /\ Active(k)
    /\ NewQueue(s, runs[k], buffer[runs[k]], 0)
    /\ UNCHANGED <<runs, keyOf, task, cancelling, buffer, finished, awaiting>>

\* Mutant of Start: the check for an active run is dropped.
StartUnchecked(s, k, r) ==
    /\ sub[s] = "free"
    /\ task[r] = "absent"
    /\ runs'  = [runs  EXCEPT ![k] = r]
    /\ keyOf' = [keyOf EXCEPT ![r] = k]
    /\ task'  = [task  EXCEPT ![r] = "scheduled"]
    /\ NewQueue(s, r, <<>>, 0)
    /\ UNCHANGED <<cancelling, buffer, finished, awaiting>>

\* attach_or_start, no active run: a new _RunState replaces whatever is
\* registered, and its producer task is created but has not run yet.
Start(s, k, r) ==
    /\ sub[s] = "free"
    /\ ~Active(k)
    /\ task[r] = "absent"
    /\ runs'  = [runs  EXCEPT ![k] = r]
    /\ keyOf' = [keyOf EXCEPT ![r] = k]
    /\ task'  = [task  EXCEPT ![r] = "scheduled"]
    /\ NewQueue(s, r, <<>>, 0)
    /\ UNCHANGED <<cancelling, buffer, finished, awaiting>>

\* request_stop up to `await task`; with no active run it returns False and
\* changes nothing.
RequestStop(p, k) ==
    /\ awaiting[p] = NoRun
    /\ Active(k)
    /\ cancelling' = [cancelling EXCEPT ![runs[k]] = TRUE]
    /\ awaiting'   = [awaiting EXCEPT ![p] = runs[k]]
    /\ UNCHANGED <<runs, keyOf, task, buffer, queues, finished, subVars>>

\* Mutant of StopReturns: waits for the finally clause, not for the task.
StopReturnsWhenFinished(p) ==
    /\ awaiting[p] # NoRun
    /\ finished[awaiting[p]]
    /\ awaiting' = [awaiting EXCEPT ![p] = NoRun]
    /\ UNCHANGED <<trackVars, subVars>>

\* request_stop returns: the awaited task is done.
StopReturns(p) ==
    /\ awaiting[p] # NoRun
    /\ task[awaiting[p]] = "done"
    /\ awaiting' = [awaiting EXCEPT ![p] = NoRun]
    /\ UNCHANGED <<trackVars, subVars>>

-----------------------------------------------------------------------------
(* The producer task *)

\* First step of _producer.
ProducerStart(r) ==
    /\ task[r] = "scheduled"
    /\ ~cancelling[r]
    /\ task' = [task EXCEPT ![r] = "running"]
    /\ UNCHANGED <<runs, keyOf, cancelling, buffer, queues, finished,
                   subVars, awaiting>>

\* Mutant of ProducerNeverStarts: a task state the tracker does not know.
ProducerCancelledState(r) ==
    /\ task[r] = "scheduled"
    /\ cancelling[r]
    /\ task' = [task EXCEPT ![r] = "cancelled"]
    /\ UNCHANGED <<runs, keyOf, cancelling, buffer, queues, finished,
                   subVars, awaiting>>

\* Cancelled before its first step, the coroutine is closed unstarted: none
\* of its code runs, its finally clause included.
ProducerNeverStarts(r) ==
    /\ task[r] = "scheduled"
    /\ cancelling[r]
    /\ task' = [task EXCEPT ![r] = "done"]
    /\ UNCHANGED <<runs, keyOf, cancelling, buffer, queues, finished,
                   subVars, awaiting>>

\* `async for sse in stream_fn(payload)`: append and broadcast.  A cancelled
\* stream may still yield: the runtime absorbs CancelledError and yields its
\* closing envelope.
ProducerEmit(r, e) ==
    /\ task[r] = "running"
    /\ Len(buffer[r]) < MaxEvents
    /\ buffer' = [buffer EXCEPT ![r] = Append(@, e)]
    /\ Broadcast(r, e)
    /\ UNCHANGED <<runs, keyOf, task, cancelling, queues, finished,
                   sub, subRun, cursor, mark, awaiting>>

\* The finally clause but for its sentinels: the run is popped by key and the
\* task is done.
Retire(r) ==
    /\ task[r] = "running"
    /\ finished' = [finished EXCEPT ![r] = TRUE]
    /\ runs'     = [runs     EXCEPT ![keyOf[r]] = NoRun]
    /\ task'     = [task     EXCEPT ![r] = "done"]
    /\ UNCHANGED <<keyOf, cancelling, queues, sub, subRun, cursor, mark,
                   awaiting>>

\* Mutant of ProducerFinish: no sentinel.
ProducerFinishSilently(r) ==
    /\ Retire(r)
    /\ UNCHANGED <<buffer, out>>

\* The stream ends, or CancelledError comes out of it: sentinel to all.
ProducerFinish(r) ==
    /\ Retire(r)
    /\ Broadcast(r, Sentinel)
    /\ UNCHANGED buffer

\* Mutant of ProducerError: the sentinel overtakes the error SSE.
ProducerErrorSwapped(r) ==
    /\ Retire(r)
    /\ buffer' = [buffer EXCEPT ![r] = Append(@, ErrSse)]
    /\ out'    = [s \in Subs |-> IF s \in queues[r]
                                 THEN Append(Append(out[s], Sentinel), ErrSse)
                                 ELSE out[s]]

\* The stream raises: the error SSE is appended and broadcast, then the
\* sentinel.
ProducerError(r) ==
    /\ Retire(r)
    /\ buffer' = [buffer EXCEPT ![r] = Append(@, ErrSse)]
    /\ out'    = [s \in Subs |-> IF s \in queues[r]
                                 THEN Append(Append(out[s], ErrSse), Sentinel)
                                 ELSE out[s]]

-----------------------------------------------------------------------------
(* Readers: stream_from_queue *)

\* First __anext__ of the generator.
OpenStream(s) ==
    /\ sub[s] = "attached"
    /\ sub' = [sub EXCEPT ![s] = "streaming"]
    /\ UNCHANGED <<trackVars, subRun, out, cursor, mark, awaiting>>

\* The client goes away before the generator started: its finally clause
\* never runs.
Abandon(s) ==
    /\ sub[s] = "attached"
    /\ sub' = [sub EXCEPT ![s] = "abandoned"]
    /\ UNCHANGED <<trackVars, subRun, out, cursor, mark, awaiting>>

\* queue.get() returns an event, which is yielded.
Read(s) ==
    /\ sub[s] = "streaming"
    /\ cursor[s] < Len(out[s])
    /\ out[s][cursor[s] + 1] # Sentinel
    /\ cursor' = [cursor EXCEPT ![s] = @ + 1]
    /\ UNCHANGED <<trackVars, sub, subRun, out, mark, awaiting>>

\* queue.get() returns the sentinel: break, then detach.
ReadSentinel(s) ==
    /\ sub[s] = "streaming"
    /\ cursor[s] < Len(out[s])
    /\ out[s][cursor[s] + 1] = Sentinel
    /\ cursor' = [cursor EXCEPT ![s] = @ + 1]
    /\ sub'    = [sub EXCEPT ![s] = "closed"]
    /\ Detach(s)
    /\ UNCHANGED <<runs, keyOf, task, cancelling, buffer, finished,
                   subRun, out, mark, awaiting>>

\* aclose() on the generator, or CancelledError in queue.get(): detach.
Disconnect(s) ==
    /\ sub[s] = "streaming"
    /\ sub' = [sub EXCEPT ![s] = "closed"]
    /\ Detach(s)
    /\ UNCHANGED <<runs, keyOf, task, cancelling, buffer, finished,
                   subRun, out, cursor, mark, awaiting>>

-----------------------------------------------------------------------------

Handlers ==
    \/ \E s \in Subs, k \in Keys : Attach(s, k) \/ AttachExisting(s, k)
    \/ \E s \in Subs, k \in Keys, r \in Runs : Start(s, k, r)
    \/ \E p \in Stoppers, k \in Keys : RequestStop(p, k)
    \/ \E p \in Stoppers : StopReturns(p)

Producer(r) ==
    \/ ProducerStart(r)
    \/ ProducerNeverStarts(r)
    \/ \E e \in Events : ProducerEmit(r, e)
    \/ ProducerFinish(r)
    \/ ProducerError(r)

Reader(s) ==
    \/ OpenStream(s)
    \/ Abandon(s)
    \/ Read(s)
    \/ ReadSentinel(s)
    \/ Disconnect(s)

Next ==
    \/ Handlers
    \/ \E r \in Runs : Producer(r)
    \/ \E s \in Subs : Reader(s)

Spec == Init /\ [][Next]_vars

\* The event loop runs every ready callback.  A stream that nobody stops may
\* wait for its model forever, so a run's end is fair only once cancelled: the
\* CancelledError the loop throws into the stream makes it end.  Readers that
\* stay connected keep reading.
CancelledEnds(r) == cancelling[r] /\ (ProducerFinish(r) \/ ProducerError(r))

Fairness ==
    /\ \A r \in Runs : /\ WF_vars(ProducerStart(r) \/ ProducerNeverStarts(r))
                       /\ WF_vars(CancelledEnds(r))
    /\ \A s \in Subs : /\ WF_vars(OpenStream(s) \/ Abandon(s))
                       /\ WF_vars(Read(s) \/ ReadSentinel(s))
    /\ \A p \in Stoppers : WF_vars(StopReturns(p))

FairSpec == Spec /\ Fairness

-----------------------------------------------------------------------------
(* Properties *)

\* Variables have the values the code can give them.
TypeOK ==
    /\ runs       \in [Keys -> Runs \cup {NoRun}]
    /\ keyOf      \in [Runs -> Keys \cup {NoKey}]
    /\ task       \in [Runs -> TaskState]
    /\ cancelling \in [Runs -> BOOLEAN]
    /\ buffer     \in [Runs -> Seq(Log)]
    /\ queues     \in [Runs -> SUBSET Subs]
    /\ finished   \in [Runs -> BOOLEAN]
    /\ sub        \in [Subs -> SubState]
    /\ subRun     \in [Subs -> Runs \cup {NoRun}]
    /\ out        \in [Subs -> Seq(Log \cup {ReplayEnd, Sentinel})]
    /\ cursor     \in [Subs -> Nat]
    /\ mark       \in [Subs -> Nat]
    /\ awaiting   \in [Stoppers -> Runs \cup {NoRun}]

\* Every run that is still executing is the one registered under its key, so
\* no key ever has two producers at work, although the finally clause pops by
\* key without comparing the run it removes.
SingleProducer ==
    \A r \in Runs : Live(r) => runs[keyOf[r]] = r

\* The stream a subscriber is owed: the run's log, with the replay marker
\* spliced in at position m (none if m = 0), then the sentinel.  Its i-th item,
\* and its length without the sentinel.
Owed(log, m, i) ==
    LET j == IF m = 0 \/ i < m THEN i ELSE i - 1
    IN  IF i = m THEN ReplayEnd
        ELSE IF j \in 1..Len(log) THEN log[j] ELSE Sentinel

OwedLength(log, m) == Len(log) + (IF m = 0 THEN 0 ELSE 1)

Expected(s, i) == Owed(buffer[subRun[s]], mark[s], i)
FullLength(s)  == OwedLength(buffer[subRun[s]], mark[s])
                  + (IF finished[subRun[s]] THEN 1 ELSE 0)

\* A subscriber's queue holds the run's events exactly once and in order,
\* whenever it attached and whatever was emitted meanwhile, with the marker
\* after the replayed part and the sentinel only after the last event; a
\* queue still subscribed has missed nothing.
ExactReplay ==
    \A s \in Subs : sub[s] # "free" =>
        /\ \A i \in 1..Len(out[s]) : out[s][i] = Expected(s, i)
        /\ s \in queues[subRun[s]] => Len(out[s]) = FullLength(s)

\* A stream that ended or was closed has left no queue behind in a run that
\* still broadcasts (docstring of stream_from_queue).
NoLeakedQueue ==
    \A r \in Runs : Live(r) => \A s \in queues[r] : sub[s] # "closed"

\* A reader leaves its stream for good with the sentinel only when it has read
\* the whole log of its run.
EndMeansComplete ==
    \A s \in Subs :
        /\ cursor[s] > 0
        /\ out[s][cursor[s]] = Sentinel
        => /\ finished[subRun[s]]
           /\ cursor[s] = FullLength(s)

\* request_stop always returns.
StopEventuallyReturns ==
    \A p \in Stoppers : awaiting[p] # NoRun ~> awaiting[p] = NoRun

\* Stopping a run whose producer had begun releases every reader of it.
StopReleasesReaders ==
    \A s \in Subs, r \in Runs :
        (sub[s] = "streaming" /\ subRun[s] = r /\ task[r] = "running"
            /\ cancelling[r])
        ~> sub[s] = "closed"
-----------------------------------------------------------------------------
(* The tracker implements EventLog: the log is the buffer, and what a reader *)
(* was given is what it took from its queue but the marker and the sentinel. *)

\* The reader has taken the sentinel.
ReadAll(s) ==
    sub[s] = "closed" /\ cursor[s] > 0 /\ out[s][cursor[s]] = Sentinel

RunPhase(r) ==
    CASE task[r] = "absent" -> "none"
      [] Live(r) -> "open"
      [] OTHER -> "ended"

ReaderPhase(s) ==
    CASE sub[s] = "free" -> "none"
      [] sub[s] \in {"attached", "streaming"} -> "reading"
      [] ReadAll(s) -> "complete"
      [] OTHER -> "left"

\* How many events are among the first n items of the queue of s.
EventsIn(s, n) == IF mark[s] = 0 \/ n < mark[s] THEN n ELSE n - 1

Taken(s) == EventsIn(s, IF ReadAll(s) THEN cursor[s] - 1 ELSE cursor[s])

\* The i-th event in the queue of s.
EventAt(s, i) == out[s][IF mark[s] = 0 \/ i < mark[s] THEN i ELSE i + 1]

Given(s) == [i \in 1..Taken(s) |-> EventAt(s, i)]

Abstract ==
    INSTANCE EventLog WITH
        Readers <- Subs,
        Events  <- Log,
        log     <- buffer,
        state   <- [r \in Runs |-> RunPhase(r)],
        reader  <- [s \in Subs |-> ReaderPhase(s)],
        follows <- subRun,
        got     <- [s \in Subs |-> Given(s)]

\* Followers of a run get its log from the first event on, in order and without
\* a gap, and are told of its end only when they have all of it.
ImplementsEventLog == Abstract!Spec
-----------------------------------------------------------------------------
(* The inductive invariant behind SingleProducer, ExactReplay and            *)
(* NoLeakedQueue.                                                            *)

\* _runs and the runs agree: a registered run belongs to that key and has not
\* been through its finally clause; an executing one is registered.
Registry ==
    /\ \A k \in Keys : runs[k] # NoRun =>
           /\ keyOf[runs[k]] = k
           /\ task[runs[k]] # "absent"
           /\ ~finished[runs[k]]
    /\ \A r \in Runs : /\ task[r] # "absent" => keyOf[r] \in Keys
                       /\ finished[r] => task[r] = "done"
    /\ SingleProducer

\* Which subscribers a run can hold.
Subscription ==
    /\ \A r \in Runs : \A s \in queues[r] : subRun[s] = r /\ sub[s] # "free"
    /\ \A s \in Subs : sub[s] # "free" =>
           subRun[s] \in Runs /\ task[subRun[s]] # "absent"
    /\ \A r \in Runs : task[r] = "absent" =>
           buffer[r] = <<>> /\ queues[r] = {} /\ ~finished[r]
    /\ \A s \in Subs : sub[s] = "free" => cursor[s] = 0

\* A queue never runs ahead of its run, and its marker lies within the replay.
Bounds ==
    \A s \in Subs : sub[s] # "free" =>
        /\ Len(out[s]) <= FullLength(s)
        /\ cursor[s] <= Len(out[s])
        /\ mark[s] <= Len(out[s])
        /\ mark[s] <= Len(buffer[subRun[s]]) + 1

IInv ==
    /\ TypeOK
    /\ Registry
    /\ Subscription
    /\ Bounds
    /\ ExactReplay
    /\ NoLeakedQueue
=============================================================================
