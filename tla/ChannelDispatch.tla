-------------------------- MODULE ChannelDispatch --------------------------
(***************************************************************************)
(* The channel pipeline: UnifiedQueueManager together with the consumer    *)
(* function that ChannelManager gives it (_consume_queue and               *)
(* _process_batch in src/src/hanbao/app/channels/manager.py) and the       *)
(* channel's _consume_one_request and _consume_with_tracker (base.py).     *)
(*                                                                         *)
(* A key stands for one session at normal priority and for its chat.  Of   *)
(* the TaskTracker (module TaskTracker has it in full) only what the       *)
(* consumer sees is kept: who started the chat's active run, and that a    *)
(* stream lasts until that run puts its sentinel or the stream swallows a  *)
(* cancellation.  A producer stopped before its first step puts none.      *)
(*                                                                         *)
(* The branch for a channel that get_channel does not find is left out:    *)
(* `channels` never shrinks, and _enqueue_one has found the channel.       *)
(***************************************************************************)
EXTENDS UnifiedQueueManager

VARIABLES
    pc,        \* consumer -> where _consume_queue is suspended
    batch,     \* consumer -> payloads it has taken
    run,       \* key -> the consumer that started the chat's active run
    producer,  \* consumer -> the producer task of the run it started last
    swapping   \* replace_channel holds the lock while the old channel stops

dispatchVars == <<pc, batch, run, producer, swapping>>
vars         == <<mgrVars, dispatchVars>>

\* "get": awaits queue.get();  "channel": awaits the lock in get_channel;
\* "prep": somewhere before attach_or_start;  "stream": stream_from_queue.
Suspension == {"get", "channel", "prep", "stream"}

\* "none": not created, or done with its finally clause.  "struck": cancelled
\* before its first step, so that this clause, with the sentinel, never runs.
Producer == {"none", "created", "begun", "struck"}

Init ==
    /\ ManagerInit
    /\ pc       = [c \in Consumers |-> "get"]
    /\ batch    = [c \in Consumers |-> <<>>]
    /\ run      = [k \in Keys |-> None]
    /\ producer = [c \in Consumers |-> "none"]
    /\ swapping = FALSE

-----------------------------------------------------------------------------
(* The consumer *)

\* c can make a step of its own at suspension point p.
At(c, p) == task[c] = "running" /\ ~cancel[c] /\ pc[c] = p

\* c has a batch of its queue's payloads and has looked up the channel.
TakeAll(c, hand) ==
    /\ batch' = [batch EXCEPT ![c] = hand \o queue[c]]
    /\ queue' = [queue EXCEPT ![c] = <<>>]
    /\ Move(Elements(hand \o queue[c]), "taken")
    /\ pc'    = [pc EXCEPT ![c] = "prep"]

\* The iteration ends; its payloads are now at place p.
NextIteration(c, p) ==
    /\ Move(Elements(batch[c]), p)
    /\ batch' = [batch EXCEPT ![c] = <<>>]
    /\ pc'    = [pc EXCEPT ![c] = "get"]

\* queue.get() returns.  With the lock of get_channel free there is no
\* suspension up to the end of the drain.
CGet(c) ==
    /\ At(c, "get")
    /\ queue[c] # <<>>
    /\ IF swapping
       THEN /\ batch' = [batch EXCEPT ![c] = <<Head(queue[c])>>]
            /\ queue' = [queue EXCEPT ![c] = Tail(@)]
            /\ Move({Head(queue[c])}, "taken")
            /\ pc'    = [pc EXCEPT ![c] = "channel"]
       ELSE TakeAll(c, <<>>)
    /\ UNCHANGED <<registry, keyOf, putters, stale, task, cancel, sweepVars,
                   stopping, run, producer, swapping>>

\* Mutant of CDrain: the payload in hand is merged last.
CDrainHandLast(c) ==
    /\ At(c, "channel")
    /\ ~swapping
    /\ batch' = [batch EXCEPT ![c] = queue[c] \o @]
    /\ queue' = [queue EXCEPT ![c] = <<>>]
    /\ Move(Elements(queue[c]), "taken")
    /\ pc'    = [pc EXCEPT ![c] = "prep"]
    /\ UNCHANGED <<registry, keyOf, putters, stale, task, cancel, sweepVars,
                   stopping, run, producer, swapping>>

\* The channel has been swapped: get_channel returns, the queue is drained.
CDrain(c) ==
    /\ At(c, "channel")
    /\ ~swapping
    /\ TakeAll(c, batch[c])
    /\ UNCHANGED <<registry, keyOf, putters, stale, task, cancel, sweepVars,
                   stopping, run, producer, swapping>>

\* Mutant of CFails: the error ends the consumer.
CFailsAndReturns(c) ==
    /\ At(c, "prep")
    /\ NextIteration(c, "failed")
    /\ ConsumerExits(c)
    /\ UNCHANGED <<keyOf, queue, putters, stale, sweepVars, stopping, run,
                   producer, swapping>>

\* _process_batch raises before the run is attached.
CFails(c) ==
    /\ At(c, "prep")
    /\ NextIteration(c, "failed")
    /\ UNCHANGED <<registry, keyOf, queue, putters, stale, task, cancel,
                   sweepVars, stopping, run, producer, swapping>>

\* The no-text debounce keeps the payload, or the access gate refuses it.
CSkips(c) ==
    /\ At(c, "prep")
    /\ NextIteration(c, "skipped")
    /\ IncrementProcessed(keyOf[c])
    /\ UNCHANGED <<registry, keyOf, queue, putters, task, cancel, sweepVars,
                   stopping, run, producer, swapping>>

\* attach_or_start starts a run: the consumer streams it.
CStarts(c) ==
    /\ At(c, "prep")
    /\ run[keyOf[c]] = None
    /\ run' = [run EXCEPT ![keyOf[c]] = c]
    /\ producer' = [producer EXCEPT ![c] = "created"]
    /\ pc' = [pc EXCEPT ![c] = "stream"]
    /\ Move(Elements(batch[c]), "started")
    /\ UNCHANGED <<queueVars, sweepVars, stopping, batch, swapping>>

\* attach_or_start finds an active run: "Message ignored".
CIgnores(c) ==
    /\ At(c, "prep")
    /\ run[keyOf[c]] # None
    /\ NextIteration(c, "ignored")
    /\ IncrementProcessed(keyOf[c])
    /\ UNCHANGED <<registry, keyOf, queue, putters, task, cancel, sweepVars,
                   stopping, run, producer, swapping>>

\* Mutant of CStreamEnds: the end of the run is not awaited.
CStreamEndsAtOnce(c) ==
    /\ At(c, "stream")
    /\ pc'    = [pc EXCEPT ![c] = "get"]
    /\ batch' = [batch EXCEPT ![c] = <<>>]
    /\ IncrementProcessed(keyOf[c])
    /\ UNCHANGED <<registry, keyOf, queue, putters, task, cancel, where,
                   sweepVars, stopping, run, producer, swapping>>

\* c waits for the sentinel of a producer that will put none.
Hung(c) == pc[c] = "stream" /\ producer[c] = "struck"

\* The sentinel of the run that c started has come.
CStreamEnds(c) ==
    /\ At(c, "stream")
    /\ ~Hung(c)
    /\ run[keyOf[c]] # c
    /\ pc'    = [pc EXCEPT ![c] = "get"]
    /\ batch' = [batch EXCEPT ![c] = <<>>]
    /\ IncrementProcessed(keyOf[c])
    /\ UNCHANGED <<registry, keyOf, queue, putters, task, cancel, where,
                   sweepVars, stopping, run, producer, swapping>>

\* Cancelled in stream_from_queue, which swallows the CancelledError: the
\* consumer goes on as if the run had ended.
CSwallows(c) ==
    /\ task[c] = "running"
    /\ cancel[c]
    /\ pc[c] = "stream"
    /\ cancel' = [cancel EXCEPT ![c] = FALSE]
    /\ pc'     = [pc EXCEPT ![c] = "get"]
    /\ batch'  = [batch EXCEPT ![c] = <<>>]
    /\ IncrementProcessed(keyOf[c])
    /\ UNCHANGED <<registry, keyOf, queue, putters, task, where, sweepVars,
                   stopping, run, producer, swapping>>

\* Cancelled anywhere else: the loop breaks and _run_consumer cleans up.
CBreaks(c) ==
    /\ task[c] = "running"
    /\ cancel[c]
    /\ pc[c] # "stream"
    /\ NextIteration(c, "lost")
    /\ ConsumerExits(c)
    /\ UNCHANGED <<keyOf, queue, putters, stale, sweepVars, stopping, run,
                   producer, swapping>>

-----------------------------------------------------------------------------
(* The environment *)

\* The producer of the active run takes its first step.
RunBegins(k) ==
    /\ run[k] # None
    /\ producer[run[k]] = "created"
    /\ producer' = [producer EXCEPT ![run[k]] = "begun"]
    /\ UNCHANGED <<mgrVars, pc, batch, run, swapping>>

\* The active run ends, by itself or by request_stop, with a sentinel.
RunEnds(k) ==
    /\ run[k] # None
    /\ producer[run[k]] = "begun"
    /\ run' = [run EXCEPT ![k] = None]
    /\ producer' = [producer EXCEPT ![run[k]] = "none"]
    /\ UNCHANGED <<mgrVars, pc, batch, swapping>>

\* request_stop cancels the producer before its first step: the run is over
\* (its task is done), and nobody is told.
RunStruck(k) ==
    /\ run[k] # None
    /\ producer[run[k]] = "created"
    /\ run' = [run EXCEPT ![k] = None]
    /\ producer' = [producer EXCEPT ![run[k]] = "struck"]
    /\ UNCHANGED <<mgrVars, pc, batch, swapping>>

RunStep(k) == RunBegins(k) \/ RunEnds(k) \/ RunStruck(k)

\* replace_channel takes the lock (asyncio locks are fair, so consumers that
\* wait for it go first), swaps, and awaits old_channel.stop().
BeginSwap ==
    /\ ~swapping
    /\ \A c \in Consumers : pc[c] = "channel" => cancel[c]
    /\ swapping' = TRUE
    /\ UNCHANGED <<mgrVars, pc, batch, run, producer>>

EndSwap ==
    /\ swapping
    /\ swapping' = FALSE
    /\ UNCHANGED <<mgrVars, pc, batch, run, producer>>

\* Time passes; a consumer with something to get does not sit on it so long.
TimePasses(c) ==
    /\ pc[c] = "get" => queue[c] = <<>>
    /\ GoesStale(c)
    /\ UNCHANGED dispatchVars

ConsumerStep(c) ==
    \/ CGet(c) \/ CDrain(c) \/ CFails(c) \/ CSkips(c) \/ CStarts(c)
    \/ CIgnores(c) \/ CStreamEnds(c) \/ CSwallows(c) \/ CBreaks(c)
    \/ (ConsumerStarts(c) \/ ConsumerNeverStarts(c)) /\ UNCHANGED dispatchVars

Next ==
    \/ ManagerNext /\ UNCHANGED dispatchVars
    \/ \E c \in Consumers : ConsumerStep(c) \/ TimePasses(c)
    \/ \E k \in Keys : RunStep(k)
    \/ BeginSwap
    \/ EndSwap

Spec == Init /\ [][Next]_vars

\* A ready task is eventually run by the event loop; a run and the stop of an
\* old channel end some time; the cleanup loop and stop_all, once woken, go on.
Fairness ==
    /\ \A c \in Consumers : /\ WF_vars(ConsumerStep(c))
                            /\ \A m \in Messages :
                                 WF_vars(/\ PutResumes(m, c) \/ PutTimesOut(m, c)
                                         /\ UNCHANGED dispatchVars)
    /\ \A k \in Keys : WF_vars(RunBegins(k)) /\ WF_vars(RunEnds(k))
    /\ WF_vars(EndSwap)
    /\ WF_vars(/\ SweepDone \/ \E k \in Keys : SweepNext(k)
               /\ UNCHANGED dispatchVars)
    /\ WF_vars(/\ StopCancelsSweeper \/ StopCancelsConsumers \/ StopEnds
               /\ UNCHANGED dispatchVars)

FairSpec == Spec /\ Fairness

-----------------------------------------------------------------------------
(* Properties *)

\* Variables have the values the code can give them.
TypeOK ==
    /\ ManagerTypeOK
    /\ pc       \in [Consumers -> Suspension]
    /\ batch    \in [Consumers -> Seq(Messages)]
    /\ run      \in [Keys -> Consumers \cup {None}]
    /\ producer \in [Consumers -> Producer]
    /\ swapping \in BOOLEAN

\* A session has one consumer, and at most one more for every round of the
\* sweep.  A consumer that swallows the cancellation in its stream goes on
\* beside its successor; one that ends late pops its successor's entry, and the
\* successor goes on beside the next.  "Strict serialization for messages with
\* the same QueueKey" is what is left of it when nothing is swept.
BoundedConsumers ==
    \A k \in Keys :
        Cardinality({c \in Consumers : keyOf[c] = k /\ Live(c)}) <= 1 + sweeps

\* attach_or_start never finds a run, so no message is dropped with "Message
\* ignored (task already running)".
NoMessageIgnored == \A m \in Messages : where[m] # "ignored"

\* A session's messages are merged and started in the order in which they were
\* sent: a batch and the queue behind it are in order, and no message is
\* started while an earlier one of its session still waits.
ArrivalOrder ==
    /\ \A c \in Consumers :
         LET s == IF pc[c] = "stream" THEN queue[c] ELSE batch[c] \o queue[c]
         IN  \A i, j \in DOMAIN s : i < j => s[i] < s[j]
    /\ \A m, n \in Messages :
         m < n /\ Session[m] = Session[n] /\ where[n] = "started"
           => where[m] \notin {"queued", "taken"}

\* While the manager runs, a queued message is in the queue of a consumer that
\* will come to read it, unless the sweep removed that queue on the word of an
\* old scan, or the consumer's run was stopped before its first step; and a
\* message that was taken is in one batch only.
NoStranding ==
    stopping = "no" => \A m \in Messages :
        /\ where[m] = "queued" =>
             \E c \in Consumers :
               /\ m \in Elements(queue[c])
               /\ \/ Live(c) /\ (cancel[c] => pc[c] = "stream") /\ ~Hung(c)
                  \/ Hung(c)
                  \/ c \in misjudged
        /\ where[m] = "taken" =>
             \E c \in Consumers :
               /\ m \in Elements(batch[c])
               /\ \A d \in Consumers \ {c} : m \notin Elements(batch[d])

\* Every accepted message is eventually handed to a run, refused, or reported
\* as an error, or its own session has a consumer that hangs in the stream of a
\* run that /stop struck before its first step: no error, channel swap or other
\* stop, and no hang in another session, leaves a message in a queue for ever.
EveryMessageHandled ==
    \A m \in Messages :
        where[m] \in {"putting", "queued", "taken"} ~>
            \/ where[m] \in {"started", "skipped", "failed", "cleared",
                            "timedout"}
            \/ \E c \in Consumers : keyOf[c] = Session[m] /\ Hung(c)
=============================================================================
