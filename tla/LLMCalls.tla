------------------------------ MODULE LLMCalls ------------------------------
(***************************************************************************)
(* Calls to one model: LLMRateLimiter                                      *)
(* (src/src/hanbao/providers/rate_limiter.py) as RetryChatModel            *)
(* (src/src/hanbao/providers/retry_chat_model.py) uses it.  A call waits   *)
(* for the 429 cooldown, claims a place in the sliding window, waits for   *)
(* the semaphore, calls the provider, and retries what may be retried,     *)
(* before the answer (__call__) or inside it (_wrap_stream).               *)
(*                                                                         *)
(* Time is discrete.  Timers count down and claims grow old, both at Tick; *)
(* a timer that has run out may be late in firing, as in an event loop.    *)
(* The provider's answers are the environment's choice.                    *)
(*                                                                         *)
(* on_success clears only a pause that was over when the caller started to *)
(* acquire, which changes no later wait: a pause that is over is 0 here.   *)
(***************************************************************************)
EXTENDS Naturals, Sequences, FiniteSets, FiniteSetsExt, SequencesExt

CONSTANTS
    Calls,
    MaxConcurrent,   \* places in the semaphore
    MaxQpm,          \* claims per window
    Window,          \* length of the window (60 s in the code), in ticks
    Jitter,          \* largest jitter, in ticks
    AcquireTimeout,  \* acquire_timeout, in ticks
    Attempts,        \* max_retries + 1
    Backoff,         \* delay before a retry, in ticks
    RetryAfters,     \* the Retry-After values a 429 may carry, in ticks
    MaxPause,        \* MAX_PAUSE_SECONDS, in ticks
    Streams          \* TRUE iff the provider answers with streams

ASSUME LimiterAssumption ==
    /\ {MaxConcurrent, MaxQpm, Attempts} \subseteq Nat \ {0}
    /\ {Window, Jitter, AcquireTimeout, Backoff, MaxPause} \subseteq Nat
    /\ RetryAfters \subseteq Nat
    /\ Streams \in BOOLEAN

VARIABLES
    pc,         \* call -> where it is
    streaming,  \* call -> it runs in _wrap_stream, no longer in __call__
    attempt,    \* call -> the attempt it is at
    injected,   \* call -> reasoning_content was injected in its messages
    sleep,      \* call -> what is left of its sleep
    left,       \* call -> what is left of its acquire timeout
    free,       \* the semaphore's value
    queue,      \* the semaphore's waiters, first come first
    pause,      \* what is left of the 429 pause
    claims,     \* ages of the claims in the sliding window, oldest first
    barred      \* history: call -> time before which it must not be sent

callVars  == <<pc, streaming, attempt, injected, sleep, left>>
limitVars == <<free, queue, pause, claims>>
vars      == <<callVars, limitVars, barred>>

\* "cooling", "throttled" and "queued" wait in acquire() for the pause, the
\* window and the semaphore; "granted" has been given the semaphore but has
\* not run since; "calling" awaits the provider, "first" a stream's first
\* chunk, "flowing" a later one.
Waiting  == {"cooling", "throttled", "queued", "granted"}
Upstream == {"calling", "first", "flowing"}
Ended    == {"done", "failed", "cancelled"}
Places   == {"idle", "backoff"} \cup Waiting \cup Upstream \cup Ended

Init ==
    /\ pc        = [c \in Calls |-> "idle"]
    /\ streaming = [c \in Calls |-> FALSE]
    /\ attempt   = [c \in Calls |-> 1]
    /\ injected  = [c \in Calls |-> FALSE]
    /\ sleep     = [c \in Calls |-> 0]
    /\ left      = [c \in Calls |-> 0]
    /\ free      = MaxConcurrent
    /\ queue     = <<>>
    /\ pause     = 0
    /\ claims    = <<>>
    /\ barred    = [c \in Calls |-> 0]

Larger(a, b)  == IF a < b THEN b ELSE a
Smaller(a, b) == IF a < b THEN a ELSE b

-----------------------------------------------------------------------------
(* The semaphore.  What an action does to it is a record: its new value and  *)
(* waiters, and the waiters that are given a place.                          *)

Kept == [free |-> free, queue |-> queue, granted |-> {}]

\* Mutant: release() adds a place even when it has given it to a waiter.
FreedTwice ==
    [free    |-> free + 1,
     queue   |-> IF queue = <<>> THEN <<>> ELSE Tail(queue),
     granted |-> IF queue = <<>> THEN {} ELSE {Head(queue)}]

\* release(): the place goes to the first waiter, if there is one.
Freed ==
    IF queue = <<>>
    THEN [free |-> free + 1, queue |-> <<>>, granted |-> {}]
    ELSE [free |-> free, queue |-> Tail(queue), granted |-> {Head(queue)}]

\* Between granting a place and the finally of __call__, _wrap_stream or
\* _consume_stream_with_slot that gives it back.  __call__ sleeps before a
\* retry inside its try: it keeps the place.
Holds(c) ==
    \/ pc[c] \in {"granted", "calling", "first"}
    \/ pc[c] = "backoff" /\ ~streaming[c]

\* Mutant: A waiter that times out does not leave the semaphore's queue.
DroppedStaysQueued(c) == IF Holds(c) THEN Freed ELSE Kept

\* The waiters q but c.
Without(q, c) ==
    IF c \in ToSet(q) THEN RemoveAt(q, CHOOSE i \in DOMAIN q : q[i] = c) ELSE q

\* What is left when c gives up whatever it has of the semaphore.
Dropped(c) ==
    IF Holds(c) THEN Freed ELSE [Kept EXCEPT !.queue = Without(@, c)]

\* c moves to place p, with effect s on the semaphore.
Moves(c, p, s) ==
    /\ pc' = [d \in Calls |-> IF d = c THEN p
                              ELSE IF d \in s.granted THEN "granted" ELSE pc[d]]
    /\ free'  = s.free
    /\ queue' = s.queue

-----------------------------------------------------------------------------
(* acquire() *)

\* acquire() from the check of the window on, with t ticks left to wait.
PassWindow(c, s, t) ==
    \/ /\ Len(claims) >= MaxQpm
       /\ Moves(c, "throttled", s)
       /\ sleep' = [sleep EXCEPT ![c] = Window - Head(claims) + 1]
       /\ left'  = [left EXCEPT ![c] = t]
       /\ UNCHANGED claims
    \/ /\ Len(claims) < MaxQpm
       /\ claims' = Append(claims, 0)
       /\ sleep'  = [sleep EXCEPT ![c] = 0]
       /\ \/ /\ s.free > 0
             /\ Moves(c, "calling", [s EXCEPT !.free = @ - 1])
             /\ left' = [left EXCEPT ![c] = 0]
          \/ /\ s.free = 0
             /\ Moves(c, "queued", [s EXCEPT !.queue = Append(@, c)])
             /\ left' = [left EXCEPT ![c] = t]

\* acquire() from the check of the pause on.
PassPause(c, s, t) ==
    \/ /\ pause > 0
       /\ \E j \in 0 .. Jitter : sleep' = [sleep EXCEPT ![c] = pause + j]
       /\ left' = [left EXCEPT ![c] = t]
       /\ Moves(c, "cooling", s)
       /\ UNCHANGED claims
    \/ pause = 0 /\ PassWindow(c, s, t)

\* acquire() under its timeout, from the start.
Acquire(c, s) ==
    /\ barred' = [barred EXCEPT ![c] = Larger(@, pause)]
    /\ PassPause(c, s, AcquireTimeout)
    /\ UNCHANGED pause

Start(c) ==
    /\ pc[c] = "idle"
    /\ Acquire(c, Kept)
    /\ UNCHANGED <<streaming, attempt, injected>>

\* Mutant: acquire() looks at the pause once, and not again after its sleep.
WakeWithoutRecheck(c) ==
    /\ pc[c] = "cooling" /\ sleep[c] = 0
    /\ PassWindow(c, Kept, left[c])
    /\ UNCHANGED <<streaming, attempt, injected, pause, barred>>

WakeFromPause(c) ==
    /\ pc[c] = "cooling" /\ sleep[c] = 0
    /\ PassPause(c, Kept, left[c])
    /\ UNCHANGED <<streaming, attempt, injected, pause, barred>>

WakeFromWindow(c) ==
    /\ pc[c] = "throttled" /\ sleep[c] = 0
    /\ PassWindow(c, Kept, left[c])
    /\ UNCHANGED <<streaming, attempt, injected, pause, barred>>

Granted(c) ==
    /\ pc[c] = "granted"
    /\ Moves(c, "calling", Kept)
    /\ left' = [left EXCEPT ![c] = 0]
    /\ UNCHANGED <<streaming, attempt, injected, sleep, pause, claims, barred>>

\* c ends, giving up the semaphore.
Ends(c, p) ==
    /\ Moves(c, p, Dropped(c))
    /\ sleep' = [sleep EXCEPT ![c] = 0]
    /\ left'  = [left EXCEPT ![c] = 0]

\* wait_for gives up: _AcquireTimeoutError, which nothing retries.
AcquireTimesOut(c) ==
    /\ pc[c] \in Waiting /\ left[c] = 0
    /\ Ends(c, "failed")
    /\ UNCHANGED <<streaming, attempt, injected, pause, claims, barred>>

-----------------------------------------------------------------------------
(* The provider's answer *)

\* A whole answer, or the end of a stream (which may have had no chunk).
Succeeds(c) ==
    /\ pc[c] \in Upstream
    /\ Ends(c, "done")
    /\ UNCHANGED <<streaming, attempt, injected, pause, claims, barred>>

\* The provider answers with a stream: _wrap_stream owns the place now.
StreamOpens(c) ==
    /\ pc[c] = "calling" /\ Streams
    /\ Moves(c, "first", Kept)
    /\ streaming' = [streaming EXCEPT ![c] = TRUE]
    /\ UNCHANGED <<attempt, injected, sleep, left, pause, claims, barred>>

\* Mutant: The first chunk does not give the place back.
FirstChunkKeepsPlace(c) ==
    /\ pc[c] = "first"
    /\ Moves(c, "flowing", Kept)
    /\ UNCHANGED <<streaming, attempt, injected, sleep, left, pause, claims,
                   barred>>

FirstChunk(c) ==
    /\ pc[c] = "first"
    /\ Moves(c, "flowing", Freed)
    /\ UNCHANGED <<streaming, attempt, injected, sleep, left, pause, claims,
                   barred>>

\* A 400 about reasoning_content: the request goes out again, from __call__
\* at once, from _wrap_stream after a new acquire().
Reinjects(c) ==
    /\ pc[c] \in Upstream /\ ~injected[c]
    /\ injected' = [injected EXCEPT ![c] = TRUE]
    /\ \/ /\ ~streaming[c]
          /\ UNCHANGED <<pc, sleep, left, limitVars, barred>>
       \/ streaming[c] /\ Acquire(c, Dropped(c))
    /\ UNCHANGED <<streaming, attempt>>

\* The end of an attempt that failed: sleep before the next one, or raise.
RetryOrRaise(c, retryable) ==
    IF retryable /\ attempt[c] < Attempts
    THEN /\ Moves(c, "backoff", IF streaming[c] THEN Dropped(c) ELSE Kept)
         /\ sleep' = [sleep EXCEPT ![c] = Backoff]
         /\ left'  = [left EXCEPT ![c] = 0]
    ELSE Ends(c, "failed")

\* Any failure but a 429.
Fails(c, retryable) ==
    /\ pc[c] \in Upstream
    /\ RetryOrRaise(c, retryable)
    /\ UNCHANGED <<streaming, attempt, injected, pause, claims, barred>>

\* report_rate_limit().  The history notes the pause for those who have yet
\* to pass it.
Report(c, r) ==
    /\ pause'  = Larger(pause, Smaller(r, MaxPause))
    /\ barred' = [d \in Calls |->
                     IF d = c THEN Larger(barred[d], r)
                     ELSE IF pc[d] = "cooling" THEN Larger(barred[d], pause')
                     ELSE barred[d]]

\* A 429 that asks for r ticks.  Only __call__ looks at whether r exceeds the
\* cap (_handle_rate_limit_exc): then it raises, and reports nothing.
RateLimited(c, r) ==
    /\ pc[c] \in Upstream
    /\ IF ~streaming[c] /\ r > MaxPause
       THEN Ends(c, "failed") /\ UNCHANGED <<pause, barred>>
       ELSE Report(c, r) /\ RetryOrRaise(c, TRUE)
    /\ UNCHANGED <<streaming, attempt, injected, claims>>

\* Mutant: A retry does not count as an attempt.
RetryUncounted(c) ==
    /\ pc[c] = "backoff" /\ sleep[c] = 0
    /\ Acquire(c, Dropped(c))
    /\ UNCHANGED <<streaming, attempt, injected>>

\* The sleep before a retry is over.
BackoffEnds(c) ==
    /\ pc[c] = "backoff" /\ sleep[c] = 0
    /\ attempt' = [attempt EXCEPT ![c] = @ + 1]
    /\ Acquire(c, Dropped(c))
    /\ UNCHANGED <<streaming, injected>>

\* The caller is cancelled, or stops reading the stream.
Cancelled(c) ==
    /\ pc[c] \in {"backoff"} \cup Waiting \cup Upstream
    /\ Ends(c, "cancelled")
    /\ UNCHANGED <<streaming, attempt, injected, pause, claims, barred>>

-----------------------------------------------------------------------------

Less(f) == [c \in DOMAIN f |-> IF f[c] = 0 THEN 0 ELSE f[c] - 1]

\* How many claims are evicted when all have grown older by one: from the
\* left, up to the first that is still in the window.
Evicted(ages) ==
    CHOOSE n \in 0 .. Len(ages) :
        /\ \A i \in 1 .. n : ages[i] + 1 > Window
        /\ n < Len(ages) => ages[n + 1] + 1 <= Window

Older(ages) ==
    SubSeq([i \in 1 .. Len(ages) |-> ages[i] + 1], Evicted(ages) + 1, Len(ages))

Tick ==
    /\ sleep'  = Less(sleep)
    /\ left'   = Less(left)
    /\ barred' = Less(barred)
    /\ pause'  = IF pause = 0 THEN 0 ELSE pause - 1
    /\ claims' = Older(claims)
    /\ UNCHANGED <<pc, streaming, attempt, injected, free, queue>>

Runs(c) ==
    \/ WakeFromPause(c) \/ WakeFromWindow(c) \/ Granted(c)
    \/ AcquireTimesOut(c) \/ BackoffEnds(c)

Answered(c) ==
    \/ Succeeds(c) \/ StreamOpens(c) \/ FirstChunk(c) \/ Reinjects(c)
    \/ \E retryable \in BOOLEAN : Fails(c, retryable)
    \/ \E r \in RetryAfters : RateLimited(c, r)

Next ==
    \/ \E c \in Calls : Start(c) \/ Runs(c) \/ Answered(c) \/ Cancelled(c)
    \/ Tick

Spec == Init /\ [][Next]_vars

\* Time passes, timers fire and the scheduler runs what is ready; the
\* provider (with its client's own timeout) answers in some way.
Fairness ==
    /\ WF_vars(Tick)
    /\ \A c \in Calls : WF_vars(Runs(c)) /\ WF_vars(Answered(c))

FairSpec == Spec /\ Fairness

-----------------------------------------------------------------------------
(* Properties *)

\* The state of every call and of the limiter is one the code can build.
TypeOK ==
    /\ pc        \in [Calls -> Places]
    /\ streaming \in [Calls -> BOOLEAN]
    /\ attempt   \in [Calls -> 1 .. Attempts]
    /\ injected  \in [Calls -> BOOLEAN]
    /\ sleep     \in [Calls -> Nat]
    /\ left      \in [Calls -> 0 .. AcquireTimeout]
    /\ free      \in 0 .. MaxConcurrent
    /\ queue     \in Seq(Calls)
    /\ pause     \in 0 .. MaxPause
    /\ claims    \in Seq(0 .. Window)
    /\ barred    \in [Calls -> Nat]

\* However calls fail, time out, retry inside or outside a stream, or are
\* cancelled, the semaphore's places are given back exactly once: the free
\* ones and those of calls that hold one are MaxConcurrent together.
SlotsConserved ==
    free + Cardinality({c \in Calls : Holds(c)}) = MaxConcurrent

\* The semaphore's waiters are the calls that are queued, each once, and no
\* place lies free while one of them waits.
NoLostWakeup ==
    /\ ToSet(queue) = {c \in Calls : pc[c] = "queued"}
    /\ Len(queue) = Cardinality(ToSet(queue))
    /\ queue # <<>> => free = 0

\* A call that got a 429 does not go out again before the time that the
\* provider asked for, and no call goes out before the end of a pause that was
\* set before it passed the cooldown.
RetryAfterHonoured ==
    [][\A c \in Calls : pc[c] # "calling" /\ pc'[c] = "calling"
                        => barred[c] = 0]_vars

\* Every call comes to an end.
EveryCallEnds == \A c \in Calls : pc[c] # "idle" ~> pc[c] \in Ended
=============================================================================
