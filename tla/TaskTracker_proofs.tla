------------------------ MODULE TaskTracker_proofs -------------------------
(* Machine-checked proofs about TaskTracker, for any keys, runs,           *)
(* subscribers and events: type correctness, one producer per key, exact   *)
(* replay, and that the tracker implements EventLog.                       *)
EXTENDS TaskTracker, TLAPS

-----------------------------------------------------------------------------
(* Type correctness *)

LEMMA InitType == Init => TypeOK
BY ItemsDistinct DEF Init, TypeOK, TaskState, SubState

\* detach_subscriber only ever removes subscribers.
LEMMA DetachType ==
    ASSUME TypeOK, NEW s \in Subs, Detach(s)
    PROVE  /\ queues' \in [Runs -> SUBSET Subs]
           /\ \A r \in Runs : queues'[r] \subseteq queues[r]
<1>1. CASE runs[keyOf[subRun[s]]] = NoRun
    BY <1>1 DEF TypeOK, Detach
<1>2. CASE runs[keyOf[subRun[s]]] # NoRun
    BY <1>2 DEF TypeOK, Detach
<1> QED
    BY <1>1, <1>2

LEMMA NextType == TypeOK /\ [Next]_vars => TypeOK'
<1> SUFFICES ASSUME TypeOK, [Next]_vars PROVE TypeOK'
    OBVIOUS
<1> USE ItemsDistinct DEF TypeOK, TaskState, SubState, Log, trackVars, subVars
<1>1. ASSUME NEW s \in Subs, NEW k \in Keys, Attach(s, k) PROVE TypeOK'
    BY <1>1 DEF Attach, Active, NewQueue
<1>2. ASSUME NEW s \in Subs, NEW k \in Keys, AttachExisting(s, k) PROVE TypeOK'
    BY <1>2 DEF AttachExisting, Active, NewQueue
<1>3. ASSUME NEW s \in Subs, NEW k \in Keys, NEW r \in Runs, Start(s, k, r)
      PROVE  TypeOK'
    BY <1>3 DEF Start, NewQueue
<1>4. ASSUME NEW p \in Stoppers, NEW k \in Keys, RequestStop(p, k) PROVE TypeOK'
    BY <1>4 DEF RequestStop, Active
<1>5. ASSUME NEW p \in Stoppers, StopReturns(p) PROVE TypeOK'
    BY <1>5 DEF StopReturns
<1>6. ASSUME NEW r \in Runs, Producer(r) PROVE TypeOK'
  <2>1. CASE ProducerStart(r)
    BY <2>1 DEF ProducerStart
  <2>2. CASE ProducerNeverStarts(r)
    BY <2>2 DEF ProducerNeverStarts
  <2>3. ASSUME NEW e \in Events, ProducerEmit(r, e) PROVE TypeOK'
    BY <2>3 DEF ProducerEmit, Broadcast
  <2>4. CASE ProducerFinish(r)
    <3>1. out' \in [Subs -> Seq(Log \cup {ReplayEnd, Sentinel})]
      BY <2>4 DEF ProducerFinish, Broadcast
    <3>2. /\ runs' \in [Keys -> Runs \cup {NoRun}]
          /\ task' \in [Runs -> TaskState]
          /\ finished' \in [Runs -> BOOLEAN]
      BY <2>4 DEF ProducerFinish, Retire
    <3> QED
      BY <2>4, <3>1, <3>2 DEF ProducerFinish, Retire
  <2>5. CASE ProducerError(r)
    <3>1. out' \in [Subs -> Seq(Log \cup {ReplayEnd, Sentinel})]
      BY <2>5 DEF ProducerError
    <3>2. buffer' \in [Runs -> Seq(Log)]
      BY <2>5 DEF ProducerError
    <3>3. /\ runs' \in [Keys -> Runs \cup {NoRun}]
          /\ task' \in [Runs -> TaskState]
          /\ finished' \in [Runs -> BOOLEAN]
      BY <2>5 DEF ProducerError, Retire
    <3> QED
      BY <2>5, <3>1, <3>2, <3>3 DEF ProducerError, Retire
  <2> QED
    BY <1>6, <2>1, <2>2, <2>3, <2>4, <2>5 DEF Producer
<1>7. ASSUME NEW s \in Subs, Reader(s) PROVE TypeOK'
  <2>1. CASE OpenStream(s)
    BY <2>1 DEF OpenStream
  <2>2. CASE Abandon(s)
    BY <2>2 DEF Abandon
  <2>3. CASE Read(s)
    BY <2>3 DEF Read
  <2>4. CASE ReadSentinel(s)
    BY <2>4, DetachType DEF ReadSentinel
  <2>5. CASE Disconnect(s)
    BY <2>5, DetachType DEF Disconnect
  <2> QED
    BY <1>7, <2>1, <2>2, <2>3, <2>4, <2>5 DEF Reader
<1>8. CASE UNCHANGED vars
    BY <1>8 DEF vars
<1> QED
    BY <1>1, <1>2, <1>3, <1>4, <1>5, <1>6, <1>7, <1>8 DEF Next, Handlers

\* The tracker's state is always well formed.
THEOREM TypeCorrect == Spec => []TypeOK
<1>1. Init => TypeOK
    BY InitType
<1>2. TypeOK /\ [Next]_vars => TypeOK'
    BY NextType
<1> QED
    BY <1>1, <1>2, PTL DEF Spec

-----------------------------------------------------------------------------
(* The registry of runs *)

LEMMA NextRegistry ==
    ASSUME TypeOK, Registry, Subscription, [Next]_vars
    PROVE  Registry'
<1> USE ItemsDistinct DEF Registry, SingleProducer, Live, TypeOK, TaskState,
                          trackVars, subVars
<1>0. CASE UNCHANGED <<runs, keyOf, task, finished>>
    BY <1>0
<1>1. ASSUME NEW s \in Subs, NEW k \in Keys,
             Attach(s, k) \/ AttachExisting(s, k)
      PROVE  Registry'
    BY <1>1, <1>0 DEF Attach, AttachExisting
<1>2. ASSUME NEW s \in Subs, NEW k \in Keys, NEW r \in Runs, Start(s, k, r)
      PROVE  Registry'
  <2>1. \A x \in Runs : Live(x) /\ keyOf[x] = k => FALSE
    BY <1>2 DEF Start, Active
  <2>2. ~finished[r]
    BY <1>2 DEF Start, Subscription
  <2>3. \A x \in Runs : (task[x] # "absent")' => (keyOf[x] \in Keys)'
    BY <1>2 DEF Start
  <2>4. \A x \in Runs : finished'[x] => (task[x] = "done")'
    BY <1>2, <2>2 DEF Start
  <2>5. SingleProducer'
    BY <1>2, <2>1 DEF Start
  <2>6. \A j \in Keys : runs'[j] # NoRun =>
           /\ keyOf'[runs'[j]] = j
           /\ task'[runs'[j]] # "absent"
           /\ ~finished'[runs'[j]]
    BY <1>2, <2>2 DEF Start
  <2> QED
    BY <2>3, <2>4, <2>5, <2>6
<1>3. ASSUME NEW p \in Stoppers, NEW k \in Keys, RequestStop(p, k)
      PROVE  Registry'
    BY <1>3, <1>0 DEF RequestStop
<1>4. ASSUME NEW p \in Stoppers, StopReturns(p) PROVE Registry'
    BY <1>4, <1>0 DEF StopReturns
<1>5. ASSUME NEW r \in Runs, Producer(r) PROVE Registry'
  <2>1. CASE ProducerStart(r)
    BY <2>1 DEF ProducerStart
  <2>2. CASE ProducerNeverStarts(r)
    BY <2>2 DEF ProducerNeverStarts
  <2>3. ASSUME NEW e \in Events, ProducerEmit(r, e) PROVE Registry'
    BY <2>3, <1>0 DEF ProducerEmit
  <2>4. ASSUME Retire(r) PROVE Registry'
    BY <2>4 DEF Retire
  <2> QED
    BY <1>5, <2>1, <2>2, <2>3, <2>4 DEF Producer, ProducerFinish, ProducerError
<1>6. ASSUME NEW s \in Subs, Reader(s) PROVE Registry'
    BY <1>6, <1>0 DEF Reader, OpenStream, Abandon, Read, ReadSentinel, Disconnect
<1>7. CASE UNCHANGED vars
    BY <1>7, <1>0 DEF vars
<1> QED
    BY <1>1, <1>2, <1>3, <1>4, <1>5, <1>6, <1>7 DEF Next, Handlers

-----------------------------------------------------------------------------
(* Who subscribes to what *)

LEMMA NextSubscription ==
    ASSUME TypeOK, Registry, Subscription, [Next]_vars
    PROVE  Subscription'
<1> USE ItemsDistinct DEF Subscription, TypeOK, TaskState, SubState,
                          trackVars, subVars
<1>1. ASSUME NEW s \in Subs, NEW k \in Keys,
             Attach(s, k) \/ AttachExisting(s, k)
      PROVE  Subscription'
  <2> DEFINE r == runs[k]
  <2>1. r \in Runs /\ Live(r) /\ task[r] # "absent" /\ s \notin queues[r]
    BY <1>1 DEF Attach, AttachExisting, Active, Live
  <2>2. \E items, m : NewQueue(s, r, items, m)
    BY <1>1 DEF Attach, AttachExisting
  <2>3. UNCHANGED <<task, buffer, finished>>
    BY <1>1 DEF Attach, AttachExisting
  <2>4. sub[s] = "free"
    BY <1>1 DEF Attach, AttachExisting
  <2> HIDE DEF r
  <2> QED
    BY <2>1, <2>2, <2>3, <2>4 DEF NewQueue
<1>2. ASSUME NEW s \in Subs, NEW k \in Keys, NEW r \in Runs, Start(s, k, r)
      PROVE  Subscription'
    BY <1>2 DEF Start, NewQueue
<1>3. ASSUME NEW p \in Stoppers, NEW k \in Keys, RequestStop(p, k)
      PROVE  Subscription'
    BY <1>3 DEF RequestStop
<1>4. ASSUME NEW p \in Stoppers, StopReturns(p) PROVE Subscription'
    BY <1>4 DEF StopReturns
<1>5. ASSUME NEW r \in Runs, Producer(r) PROVE Subscription'
  <2>1. CASE ProducerStart(r) \/ ProducerNeverStarts(r)
    BY <2>1 DEF ProducerStart, ProducerNeverStarts
  <2>2. ASSUME NEW e \in Events, ProducerEmit(r, e) PROVE Subscription'
    BY <2>2 DEF ProducerEmit
  <2>3. CASE ProducerFinish(r)
    BY <2>3 DEF ProducerFinish, Retire
  <2>4. CASE ProducerError(r)
    BY <2>4 DEF ProducerError, Retire
  <2> QED
    BY <1>5, <2>1, <2>2, <2>3, <2>4 DEF Producer
<1>6. ASSUME NEW s \in Subs, Reader(s) PROVE Subscription'
  <2>1. CASE OpenStream(s)
    BY <2>1 DEF OpenStream
  <2>2. CASE Abandon(s)
    BY <2>2 DEF Abandon
  <2>3. CASE Read(s)
    BY <2>3 DEF Read
  <2>4. CASE ReadSentinel(s)
    BY <2>4, DetachType DEF ReadSentinel
  <2>5. CASE Disconnect(s)
    BY <2>5, DetachType DEF Disconnect
  <2> QED
    BY <1>6, <2>1, <2>2, <2>3, <2>4, <2>5 DEF Reader
<1>7. CASE UNCHANGED vars
    BY <1>7 DEF vars
<1> QED
    BY <1>1, <1>2, <1>3, <1>4, <1>5, <1>6, <1>7 DEF Next, Handlers

-----------------------------------------------------------------------------
(* Exact replay.  First about one queue q and one log, without the state. *)

Items == Log \cup {ReplayEnd, Sentinel}

Exact(q, log, m) ==
    /\ m <= Len(q)
    /\ m <= Len(log) + 1
    /\ \A i \in 1..Len(q) : q[i] = Owed(log, m, i)

\* Appending an event to a log extends the stream owed by that event.
LEMMA OwedAppend ==
    ASSUME NEW log \in Seq(Log), NEW e \in Log, NEW m \in Nat,
           m <= Len(log) + 1
    PROVE  LET n == OwedLength(log, m)
           IN  /\ n \in Nat
               /\ OwedLength(Append(log, e), m) = n + 1
               /\ \A i \in 1..n : Owed(Append(log, e), m, i) = Owed(log, m, i)
               /\ Owed(Append(log, e), m, n + 1) = e
<1>1. /\ Len(log) \in Nat
      /\ Len(Append(log, e)) = Len(log) + 1
      /\ \A i \in 1..Len(log) : Append(log, e)[i] = log[i]
      /\ Append(log, e)[Len(log) + 1] = e
    OBVIOUS
<1>2. CASE m = 0
    BY <1>1, <1>2 DEF OwedLength, Owed
<1>3. CASE m # 0
    BY <1>1, <1>3 DEF OwedLength, Owed
<1> QED
    BY <1>2, <1>3

\* The sentinel is owed right after the last event, and nowhere before.
LEMMA OwedEnd ==
    ASSUME NEW log \in Seq(Log), NEW m \in Nat, m <= Len(log) + 1
    PROVE  LET n == OwedLength(log, m)
           IN  /\ n \in Nat
               /\ Owed(log, m, n + 1) = Sentinel
               /\ \A i \in 1..n : Owed(log, m, i) # Sentinel
<1>1. /\ Len(log) \in Nat
      /\ \A i \in 1..Len(log) : log[i] \in Log
    OBVIOUS
<1>2. CASE m = 0
    BY <1>1, <1>2, ItemsDistinct DEF OwedLength, Owed
<1>3. CASE m # 0
    BY <1>1, <1>3, ItemsDistinct DEF OwedLength, Owed
<1> QED
    BY <1>2, <1>3

\* Queues filled by attach_or_start and by attach start out exact.
LEMMA ExactPlain ==
    ASSUME NEW log \in Seq(Log)
    PROVE  Exact(log, log, 0) /\ Len(log) = OwedLength(log, 0)
BY DEF Exact, OwedLength, Owed

LEMMA ExactMarked ==
    ASSUME NEW log \in Seq(Log), NEW q, q = Append(log, ReplayEnd)
    PROVE  /\ Exact(q, log, Len(log) + 1)
           /\ Len(q) = OwedLength(log, Len(log) + 1)
<1>1. log \in Seq(Items) /\ ReplayEnd \in Items /\ Len(log) \in Nat
    BY DEF Items
<1>2. /\ Len(q) = Len(log) + 1
      /\ \A i \in 1..Len(log) : q[i] = log[i]
      /\ q[Len(log) + 1] = ReplayEnd
    BY <1>1
<1>3. \A i \in 1..Len(log) : Owed(log, Len(log) + 1, i) = log[i]
    BY <1>1 DEF Owed
<1>4. Owed(log, Len(log) + 1, Len(log) + 1) = ReplayEnd
    BY <1>1 DEF Owed
<1>5. OwedLength(log, Len(log) + 1) = Len(log) + 1
    BY <1>1 DEF OwedLength
<1>6. \A i \in 1..Len(q) : q[i] = Owed(log, Len(log) + 1, i)
    BY <1>1, <1>2, <1>3, <1>4
<1> QED
    BY <1>1, <1>2, <1>5, <1>6 DEF Exact

\* An item put in a queue that is exact for log, when it is the next item owed
\* for log2 and the items before it are owed alike.
LEMMA ExactAppend ==
    \A log, log2 \in Seq(Log), q \in Seq(Items), m \in Nat, e \in Items :
        /\ Exact(q, log, m)
        /\ Len(log) <= Len(log2)
        /\ \A i \in 1..Len(q) : Owed(log2, m, i) = Owed(log, m, i)
        /\ Owed(log2, m, Len(q) + 1) = e
        => Exact(Append(q, e), log2, m) /\ Len(Append(q, e)) = Len(q) + 1
<1> TAKE log, log2 \in Seq(Log), q \in Seq(Items), m \in Nat, e \in Items
<1> HAVE /\ Exact(q, log, m)
         /\ Len(log) <= Len(log2)
         /\ \A i \in 1..Len(q) : Owed(log2, m, i) = Owed(log, m, i)
         /\ Owed(log2, m, Len(q) + 1) = e
<1>1. /\ Len(log) \in Nat /\ Len(log2) \in Nat /\ Len(q) \in Nat
      /\ Len(Append(q, e)) = Len(q) + 1
      /\ \A i \in 1..Len(q) : Append(q, e)[i] = q[i]
      /\ Append(q, e)[Len(q) + 1] = e
    OBVIOUS
<1>2. \A i \in 1..Len(Append(q, e)) : Append(q, e)[i] = Owed(log2, m, i)
    BY <1>1 DEF Exact
<1> QED
    BY <1>1, <1>2 DEF Exact

-----------------------------------------------------------------------------
(* Exact replay, as an invariant of one subscriber at a time. *)

StreamOK(s) ==
    sub[s] # "free" =>
        /\ Exact(out[s], buffer[subRun[s]], mark[s])
        /\ Len(out[s]) <= FullLength(s)
        /\ cursor[s] <= Len(out[s])
        /\ s \in queues[subRun[s]] => Len(out[s]) = FullLength(s)

LEMMA StreamsOK == (\A s \in Subs : StreamOK(s)) <=> Bounds /\ ExactReplay
BY DEF StreamOK, Bounds, ExactReplay, Exact, Expected

\* A step that leaves a subscriber's queue and its run's log alone, and does
\* not subscribe it anew, leaves it exact.
LEMMA StreamFrame ==
    ASSUME NEW s \in Subs, StreamOK(s), sub[s] # "free",
           out'[s] = out[s], mark'[s] = mark[s], subRun'[s] = subRun[s],
           cursor'[s] <= Len(out[s]),
           buffer'[subRun[s]] = buffer[subRun[s]],
           finished'[subRun[s]] = finished[subRun[s]],
           s \in queues'[subRun[s]] => s \in queues[subRun[s]]
    PROVE  StreamOK(s)'
<1>1. FullLength(s)' = FullLength(s)
    BY DEF FullLength
<1> QED
    BY <1>1 DEF StreamOK, Exact

\* The new subscriber of attach and attach_or_start.
LEMMA StreamNew ==
    ASSUME TypeOK, Subscription, NEW s \in Subs, NEW r \in Runs, ~finished[r],
           sub[s] = "free",
           \/ NewQueue(s, r, buffer[r], 0)
           \/ NewQueue(s, r, Append(buffer[r], ReplayEnd), Len(buffer[r]) + 1),
           UNCHANGED <<buffer, finished>>
    PROVE  StreamOK(s)'
<1>1. /\ subRun'[s] = r /\ cursor'[s] = 0 /\ buffer'[r] = buffer[r]
      /\ ~finished'[r]
    BY DEF NewQueue, Subscription, TypeOK
<1>2. buffer[r] \in Seq(Log) /\ Len(buffer[r]) \in Nat
    BY DEF TypeOK
<1>3. /\ Exact(out'[s], buffer[r], mark'[s])
      /\ Len(out'[s]) = OwedLength(buffer[r], mark'[s])
      /\ Len(out'[s]) \in Nat
  <2>1. CASE NewQueue(s, r, buffer[r], 0)
    <3>1. out'[s] = buffer[r] /\ mark'[s] = 0
      BY <2>1 DEF NewQueue, TypeOK
    <3> QED
      BY <1>2, <3>1, ExactPlain
  <2>2. CASE NewQueue(s, r, Append(buffer[r], ReplayEnd), Len(buffer[r]) + 1)
    <3>1. /\ out'[s] = Append(buffer[r], ReplayEnd)
          /\ mark'[s] = Len(buffer[r]) + 1
      BY <2>2 DEF NewQueue, TypeOK
    <3>2. /\ Exact(out'[s], buffer[r], mark'[s])
          /\ Len(out'[s]) = OwedLength(buffer[r], mark'[s])
      BY <1>2, <3>1, ExactMarked
    <3>3. Len(out'[s]) = Len(buffer[r]) + 1
      BY <1>2, <3>1
    <3> QED
      BY <1>2, <3>2, <3>3
  <2> QED
    BY <2>1, <2>2
<1>4. FullLength(s)' = OwedLength(buffer[r], mark'[s])
    BY <1>1, <1>2, <1>3 DEF FullLength
<1> QED
    BY <1>1, <1>3, <1>4 DEF StreamOK, Exact

\* What happens to one queue when its run broadcasts an event ...
LEMMA ExactEvent ==
    ASSUME NEW log \in Seq(Log), NEW q \in Seq(Items), NEW m \in Nat,
           NEW e \in Log, Exact(q, log, m), Len(q) <= OwedLength(log, m)
    PROVE  /\ Exact(q, Append(log, e), m)
           /\ OwedLength(Append(log, e), m) = OwedLength(log, m) + 1
           /\ OwedLength(log, m) \in Nat
           /\ Len(q) = OwedLength(log, m)
                => Exact(Append(q, e), Append(log, e), m)
<1> DEFINE n == OwedLength(log, m)
<1>1. /\ Len(log) \in Nat /\ Len(q) \in Nat /\ e \in Items
      /\ Append(log, e) \in Seq(Log)
      /\ Len(Append(log, e)) = Len(log) + 1
    BY DEF Items
<1>2. m <= Len(log) + 1 /\ m <= Len(q)
    BY DEF Exact
<1>3. /\ n \in Nat
      /\ OwedLength(Append(log, e), m) = n + 1
      /\ \A i \in 1..n : Owed(Append(log, e), m, i) = Owed(log, m, i)
      /\ Owed(Append(log, e), m, n + 1) = e
    BY <1>2, OwedAppend
<1>4. Exact(q, Append(log, e), m)
  <2>1. \A i \in 1..Len(q) : q[i] = Owed(log, m, i)
    BY DEF Exact
  <2>2. \A i \in 1..Len(q) : q[i] = Owed(Append(log, e), m, i)
    BY <1>1, <1>3, <2>1
  <2> QED
    BY <1>1, <1>2, <2>2 DEF Exact
<1>5. ASSUME Len(q) = n PROVE Exact(Append(q, e), Append(log, e), m)
  <2> DEFINE log2 == Append(log, e)
  <2>1. /\ log2 \in Seq(Log)
        /\ Len(log) <= Len(log2)
        /\ \A i \in 1..Len(q) : Owed(log2, m, i) = Owed(log, m, i)
        /\ Owed(log2, m, Len(q) + 1) = e
    BY <1>1, <1>3, <1>5
  <2> HIDE DEF log2
  <2>2. Exact(Append(q, e), log2, m)
    BY <1>1, <2>1, ExactAppend
  <2> QED
    BY <2>2 DEF log2
<1> QED
    BY <1>3, <1>4, <1>5

\* ... and when the run ends.
LEMMA ExactEnd ==
    ASSUME NEW log \in Seq(Log), NEW q \in Seq(Items), NEW m \in Nat,
           Exact(q, log, m), Len(q) = OwedLength(log, m)
    PROVE  Exact(Append(q, Sentinel), log, m)
<1>1. m <= Len(log) + 1
    BY DEF Exact
<1>2. Owed(log, m, Len(q) + 1) = Sentinel
    BY <1>1, OwedEnd
<1> QED
    BY <1>2, ExactAppend DEF Items

\* Broadcasting one more event keeps an unfinished run's subscribers exact,
\* the detached ones included.
LEMMA StreamEmit ==
    ASSUME TypeOK, NEW s \in Subs, NEW r \in Runs, NEW e \in Log,
           StreamOK(s), sub[s] # "free", subRun[s] = r, ~finished[r],
           buffer'[r] = Append(buffer[r], e), Broadcast(r, e),
           UNCHANGED <<subRun, cursor, mark, finished, queues>>
    PROVE  StreamOK(s)'
<1> DEFINE log == buffer[r]
           q   == out[s]
           m   == mark[s]
           n   == OwedLength(log, m)
<1>1. /\ log \in Seq(Log) /\ q \in Seq(Items) /\ m \in Nat
      /\ cursor[s] \in Nat /\ Len(q) \in Nat
    BY DEF TypeOK, Items
<1>2. FullLength(s) = n
    BY <1>1 DEF FullLength, OwedLength
<1>3. Exact(q, log, m) /\ Len(q) <= n /\ cursor[s] <= Len(q)
    BY <1>2 DEF StreamOK
<1>4. s \in queues[r] => Len(q) = n
    BY <1>2 DEF StreamOK
<1>5. /\ buffer'[r] = Append(log, e) /\ mark'[s] = m /\ subRun'[s] = r
      /\ cursor'[s] = cursor[s] /\ ~finished'[r]
      /\ out'[s] = IF s \in queues[r] THEN Append(q, e) ELSE q
      /\ queues' = queues
      /\ Len(Append(q, e)) = Len(q) + 1
    BY <1>1 DEF Broadcast, TypeOK, Items
<1>6. FullLength(s)' = n + 1
  <2>1. Len(buffer'[r]) = Len(log) + 1 /\ Len(log) \in Nat
    BY <1>1, <1>5
  <2>2. mark'[s] = m /\ subRun'[s] = r /\ ~finished'[r]
    BY <1>5
  <2> HIDE DEF log, m
  <2>3. FullLength(s)' = OwedLength(buffer'[r], m) + 0
    BY <2>2 DEF FullLength
  <2>4. OwedLength(buffer'[r], m) = OwedLength(log, m) + 1
    BY <1>1, <2>1 DEF OwedLength
  <2>5. OwedLength(log, m) \in Nat
    BY <1>1, <2>1 DEF OwedLength
  <2> QED
    BY <2>3, <2>4, <2>5
<1> HIDE DEF log, q, m
<1>7. /\ Exact(q, Append(log, e), m)
      /\ OwedLength(Append(log, e), m) = n + 1
      /\ n \in Nat
      /\ Len(q) = n => Exact(Append(q, e), Append(log, e), m)
    BY <1>1, <1>3, ExactEvent
<1> HIDE DEF n
<1>8. Exact(out'[s], buffer'[r], mark'[s])
    BY <1>4, <1>5, <1>7
<1>9. /\ Len(out'[s]) <= n + 1
      /\ cursor'[s] <= Len(out'[s])
      /\ s \in queues'[r] => Len(out'[s]) = n + 1
    BY <1>1, <1>3, <1>4, <1>5, <1>7
<1> QED
    BY <1>5, <1>6, <1>7, <1>8, <1>9 DEF StreamOK

\* So does the sentinel of a run that ends.
LEMMA StreamEnd ==
    ASSUME TypeOK, NEW s \in Subs, NEW r \in Runs,
           StreamOK(s), sub[s] # "free", subRun[s] = r, ~finished[r],
           Retire(r), Broadcast(r, Sentinel), UNCHANGED buffer
    PROVE  StreamOK(s)'
<1> DEFINE log == buffer[r]
           q   == out[s]
           m   == mark[s]
           n   == OwedLength(log, m)
<1>1. /\ log \in Seq(Log) /\ q \in Seq(Items) /\ m \in Nat
      /\ cursor[s] \in Nat /\ Len(q) \in Nat /\ Len(log) \in Nat /\ n \in Nat
    BY DEF TypeOK, Items, OwedLength
<1>2. FullLength(s) = n
    BY <1>1 DEF FullLength, OwedLength
<1>3. Exact(q, log, m) /\ Len(q) <= n /\ cursor[s] <= Len(q)
    BY <1>2 DEF StreamOK
<1>4. s \in queues[r] => Len(q) = n
    BY <1>2 DEF StreamOK
<1>5. /\ buffer'[r] = log /\ mark'[s] = m /\ subRun'[s] = r
      /\ cursor'[s] = cursor[s] /\ finished'[r]
      /\ out'[s] = IF s \in queues[r] THEN Append(q, Sentinel) ELSE q
      /\ queues' = queues
      /\ Len(Append(q, Sentinel)) = Len(q) + 1
    BY <1>1 DEF Broadcast, Retire, TypeOK, Items
<1>6. FullLength(s)' = n + 1
    BY <1>5, <1>1 DEF FullLength, OwedLength
<1> HIDE DEF log, q, m
<1>7. Len(q) = n => Exact(Append(q, Sentinel), log, m)
    BY <1>1, <1>3, ExactEnd
<1> HIDE DEF n
<1>8. Exact(out'[s], buffer'[r], mark'[s])
    BY <1>3, <1>4, <1>5, <1>7
<1>9. /\ Len(out'[s]) <= n + 1
      /\ cursor'[s] <= Len(out'[s])
      /\ s \in queues'[r] => Len(out'[s]) = n + 1
    BY <1>1, <1>3, <1>4, <1>5
<1> QED
    BY <1>5, <1>6, <1>8, <1>9 DEF StreamOK

\* And the error event followed by the sentinel.
LEMMA StreamError ==
    ASSUME TypeOK, NEW s \in Subs, NEW r \in Runs,
           StreamOK(s), sub[s] # "free", subRun[s] = r, ~finished[r],
           ProducerError(r)
    PROVE  StreamOK(s)'
<1> DEFINE log  == buffer[r]
           q    == out[s]
           m    == mark[s]
           n    == OwedLength(log, m)
           log2 == Append(log, ErrSse)
           q1   == Append(q, ErrSse)
           q2   == Append(q1, Sentinel)
<1>1. /\ log \in Seq(Log) /\ q \in Seq(Items) /\ m \in Nat
      /\ cursor[s] \in Nat /\ Len(q) \in Nat /\ Len(log) \in Nat /\ n \in Nat
      /\ ErrSse \in Log /\ ErrSse \in Items /\ Sentinel \in Items
    BY DEF TypeOK, Items, OwedLength, Log
<1>2. FullLength(s) = n
    BY <1>1 DEF FullLength, OwedLength
<1>3. Exact(q, log, m) /\ Len(q) <= n /\ cursor[s] <= Len(q)
    BY <1>2 DEF StreamOK
<1>4. s \in queues[r] => Len(q) = n
    BY <1>2 DEF StreamOK
<1>5. /\ buffer'[r] = log2 /\ mark'[s] = m /\ subRun'[s] = r
      /\ cursor'[s] = cursor[s] /\ finished'[r]
      /\ out'[s] = IF s \in queues[r] THEN q2 ELSE q
      /\ queues' = queues
    BY <1>1 DEF ProducerError, Retire, TypeOK
<1> HIDE DEF log, q, m
<1>6. /\ q1 \in Seq(Items) /\ log2 \in Seq(Log)
      /\ Len(q1) = Len(q) + 1
      /\ Len(log2) = Len(log) + 1
    BY <1>1
<1>7. /\ Exact(q, log2, m)
      /\ OwedLength(log2, m) = n + 1
      /\ Len(q) = n => Exact(q1, log2, m)
    BY <1>1, <1>3, ExactEvent
<1> HIDE DEF log2, q1
<1>8. Len(q2) = Len(q1) + 1
    BY <1>1, <1>6
<1>9. Len(q) = n => Exact(q2, log2, m)
    BY <1>1, <1>6, <1>7, ExactEnd
<1> HIDE DEF n, q2
<1>10. FullLength(s)' = n + 2
  <2>1. FullLength(s)' = OwedLength(log2, m) + 1
    BY <1>5 DEF FullLength
  <2> QED
    BY <1>1, <1>7, <2>1
<1>11. Exact(out'[s], buffer'[r], mark'[s])
    BY <1>4, <1>5, <1>7, <1>9
<1>12. /\ Len(out'[s]) <= n + 2
       /\ cursor'[s] <= Len(out'[s])
       /\ s \in queues'[r] => Len(out'[s]) = n + 2
    BY <1>1, <1>3, <1>4, <1>5, <1>6, <1>8
<1> QED
    BY <1>5, <1>10, <1>11, <1>12 DEF StreamOK

\* Every step keeps every subscriber exact.
LEMMA NextStreams ==
    ASSUME TypeOK, Registry, Subscription, [Next]_vars,
           \A s \in Subs : StreamOK(s)
    PROVE  \A s \in Subs : StreamOK(s)'
<1> SUFFICES ASSUME NEW x \in Subs PROVE StreamOK(x)'
    OBVIOUS
<1> USE DEF trackVars, subVars
<1>0. StreamOK(x)
    OBVIOUS
<1>a. sub[x] # "free" => subRun[x] \in Runs
    BY DEF Subscription
<1>b. ASSUME UNCHANGED <<subRun, out, mark, cursor, buffer, finished>>,
             \A r \in Runs : queues'[r] \subseteq queues[r],
             sub'[x] # "free" => sub[x] # "free"
      PROVE  StreamOK(x)'
  <2>1. CASE sub[x] = "free"
    BY <1>b, <2>1 DEF StreamOK
  <2>2. CASE sub[x] # "free"
    BY <1>0, <1>a, <1>b, <2>2, StreamFrame DEF StreamOK
  <2> QED
    BY <2>1, <2>2
<1>c. ASSUME NEW s \in Subs, NEW r \in Runs, NEW items, NEW m,
             NewQueue(s, r, items, m), UNCHANGED <<buffer, finished>>, x # s
      PROVE  StreamOK(x)'
  <2>1. /\ sub'[x] = sub[x] /\ out'[x] = out[x] /\ mark'[x] = mark[x]
        /\ subRun'[x] = subRun[x] /\ cursor' = cursor
        /\ \A y \in Runs : x \in queues'[y] => x \in queues[y]
    BY <1>c DEF NewQueue, TypeOK
  <2>2. CASE sub[x] = "free"
    BY <2>1, <2>2 DEF StreamOK
  <2>3. CASE sub[x] # "free"
    BY <1>0, <1>a, <1>c, <2>1, <2>3, StreamFrame DEF StreamOK
  <2> QED
    BY <2>2, <2>3
<1>1. ASSUME NEW s \in Subs, NEW k \in Keys,
             Attach(s, k) \/ AttachExisting(s, k)
      PROVE  StreamOK(x)'
  <2> DEFINE r == runs[k]
  <2>1. r \in Runs /\ ~finished[r] /\ sub[s] = "free"
    BY <1>1 DEF Attach, AttachExisting, Active, Live, Registry, TypeOK
  <2>2. /\ \/ NewQueue(s, r, buffer[r], 0)
           \/ NewQueue(s, r, Append(buffer[r], ReplayEnd), Len(buffer[r]) + 1)
        /\ UNCHANGED <<buffer, finished>>
    BY <1>1 DEF Attach, AttachExisting
  <2> HIDE DEF r
  <2>3. CASE x = s
    BY <2>1, <2>2, <2>3, StreamNew
  <2>4. CASE x # s
    BY <1>c, <2>1, <2>2, <2>4
  <2> QED
    BY <2>3, <2>4
<1>2. ASSUME NEW s \in Subs, NEW k \in Keys, NEW r \in Runs, Start(s, k, r)
      PROVE  StreamOK(x)'
  <2>1. /\ ~finished[r] /\ sub[s] = "free" /\ buffer[r] = <<>>
        /\ NewQueue(s, r, <<>>, 0)
        /\ UNCHANGED <<buffer, finished>>
    BY <1>2 DEF Start, Subscription
  <2>2. CASE x = s
    BY <2>1, <2>2, StreamNew
  <2>3. CASE x # s
    BY <1>c, <2>1, <2>3
  <2> QED
    BY <2>2, <2>3
<1>3. ASSUME NEW p \in Stoppers, NEW k \in Keys, RequestStop(p, k)
      PROVE  StreamOK(x)'
    BY <1>3, <1>b DEF RequestStop
<1>4. ASSUME NEW p \in Stoppers, StopReturns(p) PROVE StreamOK(x)'
    BY <1>4, <1>b DEF StopReturns
<1>5. ASSUME NEW r \in Runs, Producer(r) PROVE StreamOK(x)'
  <2>0. sub' = sub => (sub[x] = "free" => StreamOK(x)')
    BY DEF StreamOK
  <2>1. CASE ProducerStart(r)
    BY <2>1, <1>b DEF ProducerStart
  <2>2. CASE ProducerNeverStarts(r)
    BY <2>2, <1>b DEF ProducerNeverStarts
  <2>3. task[r] = "running" => ~finished[r]
    BY DEF Registry
  <2>4. ASSUME subRun[x] # r, sub[x] # "free",
               UNCHANGED <<subRun, mark, cursor, queues>>,
               \A y \in Runs \ {r} : buffer'[y] = buffer[y]
                                     /\ finished'[y] = finished[y],
               x \notin queues[r] => out'[x] = out[x]
        PROVE  StreamOK(x)'
    <3>1. x \notin queues[r]
      BY <2>4 DEF Subscription
    <3>2. cursor'[x] <= Len(out[x])
      BY <1>0, <2>4 DEF StreamOK
    <3> QED
      BY <1>0, <1>a, <2>4, <3>1, <3>2, StreamFrame
  <2>5. ASSUME NEW e \in Events, ProducerEmit(r, e) PROVE StreamOK(x)'
    <3>1. CASE sub[x] # "free" /\ subRun[x] = r
      <4>1. buffer'[r] = Append(buffer[r], e) /\ e \in Log
        BY <2>5 DEF ProducerEmit, TypeOK, Log
      <4> QED
        BY <1>0, <2>3, <2>5, <3>1, <4>1, StreamEmit DEF ProducerEmit
    <3>2. CASE sub[x] # "free" /\ subRun[x] # r
      BY <2>4, <2>5, <3>2 DEF ProducerEmit, Broadcast, TypeOK
    <3> QED
      BY <2>0, <2>5, <3>1, <3>2 DEF ProducerEmit
  <2>6. CASE ProducerFinish(r)
    <3>1. CASE sub[x] # "free" /\ subRun[x] = r
      BY <1>0, <2>3, <2>6, <3>1, StreamEnd DEF ProducerFinish, Retire
    <3>2. CASE sub[x] # "free" /\ subRun[x] # r
      BY <2>4, <2>6, <3>2 DEF ProducerFinish, Retire, Broadcast, TypeOK
    <3> QED
      BY <2>0, <2>6, <3>1, <3>2 DEF ProducerFinish, Retire
  <2>7. CASE ProducerError(r)
    <3>1. CASE sub[x] # "free" /\ subRun[x] = r
      BY <1>0, <2>3, <2>7, <3>1, StreamError DEF ProducerError, Retire
    <3>2. CASE sub[x] # "free" /\ subRun[x] # r
      BY <2>4, <2>7, <3>2 DEF ProducerError, Retire, TypeOK
    <3> QED
      BY <2>0, <2>7, <3>1, <3>2 DEF ProducerError, Retire
  <2> QED
    BY <1>5, <2>1, <2>2, <2>5, <2>6, <2>7 DEF Producer
<1>6. ASSUME NEW s \in Subs, Reader(s) PROVE StreamOK(x)'
  <2>1. CASE OpenStream(s)
    BY <2>1, <1>b DEF OpenStream, TypeOK
  <2>2. CASE Abandon(s)
    BY <2>2, <1>b DEF Abandon, TypeOK
  <2>3. CASE Disconnect(s)
    BY <2>3, <1>b, DetachType DEF Disconnect, TypeOK
  <2>4. CASE Read(s) \/ ReadSentinel(s)
    <3>1. /\ UNCHANGED <<subRun, out, mark, buffer, finished>>
          /\ \A y \in Runs : queues'[y] \subseteq queues[y]
          /\ cursor[s] < Len(out[s])
          /\ cursor' = [cursor EXCEPT ![s] = @ + 1]
          /\ sub'[x] # "free" => sub[x] # "free"
      BY <2>4, DetachType DEF Read, ReadSentinel, TypeOK
    <3>2. sub[x] # "free" => cursor'[x] <= Len(out[x])
      BY <1>0, <3>1 DEF StreamOK, TypeOK
    <3>3. CASE sub[x] = "free"
      BY <3>1, <3>3 DEF StreamOK
    <3>4. CASE sub[x] # "free"
      BY <1>0, <1>a, <3>1, <3>2, <3>4, StreamFrame
    <3> QED
      BY <3>3, <3>4
  <2> QED
    BY <1>6, <2>1, <2>2, <2>3, <2>4 DEF Reader
<1>7. CASE UNCHANGED vars
    BY <1>7, <1>b DEF vars
<1> QED
    BY <1>1, <1>2, <1>3, <1>4, <1>5, <1>6, <1>7 DEF Next, Handlers

-----------------------------------------------------------------------------
(* No closed stream leaves its queue in a live run *)

\* A run that executes is found under its own key, so detaching reaches it.
LEMMA DetachReachesLiveRun ==
    ASSUME TypeOK, Registry, Subscription, NEW s \in Subs, Detach(s),
           NEW r \in Runs, Live(r)
    PROVE  s \notin queues'[r]
<1>1. CASE s \in queues[r]
  <2>1. subRun[s] = r /\ runs[keyOf[r]] = r
    BY <1>1 DEF Subscription, Registry, SingleProducer
  <2> QED
    BY <2>1, ItemsDistinct DEF Detach, TypeOK
<1>2. CASE s \notin queues[r]
    BY <1>2, DetachType
<1> QED
    BY <1>1, <1>2

LEMMA NextNoLeak ==
    ASSUME TypeOK, Registry, Subscription, NoLeakedQueue, [Next]_vars
    PROVE  NoLeakedQueue'
<1> USE DEF NoLeakedQueue, Live, trackVars, subVars
<1>1. ASSUME NEW s \in Subs, NEW k \in Keys,
             Attach(s, k) \/ AttachExisting(s, k)
      PROVE  NoLeakedQueue'
  <2>1. \E r, items, m : NewQueue(s, r, items, m)
    BY <1>1 DEF Attach, AttachExisting
  <2>2. task' = task
    BY <1>1 DEF Attach, AttachExisting
  <2> QED
    BY <2>1, <2>2 DEF NewQueue, TypeOK
<1>2. ASSUME NEW s \in Subs, NEW k \in Keys, NEW r \in Runs, Start(s, k, r)
      PROVE  NoLeakedQueue'
  <2>1. queues[r] = {}
    BY <1>2 DEF Start, Subscription
  <2> QED
    BY <1>2, <2>1 DEF Start, NewQueue, TypeOK
<1>3. ASSUME NEW p \in Stoppers, NEW k \in Keys, RequestStop(p, k)
      PROVE  NoLeakedQueue'
    BY <1>3 DEF RequestStop
<1>4. ASSUME NEW p \in Stoppers, StopReturns(p) PROVE NoLeakedQueue'
    BY <1>4 DEF StopReturns
<1>5. ASSUME NEW r \in Runs, Producer(r) PROVE NoLeakedQueue'
  <2>1. CASE ProducerStart(r) \/ ProducerNeverStarts(r)
    BY <2>1 DEF ProducerStart, ProducerNeverStarts, TypeOK
  <2>2. ASSUME NEW e \in Events, ProducerEmit(r, e) PROVE NoLeakedQueue'
    BY <2>2 DEF ProducerEmit
  <2>3. ASSUME Retire(r) PROVE NoLeakedQueue'
    BY <2>3 DEF Retire, TypeOK
  <2> QED
    BY <1>5, <2>1, <2>2, <2>3 DEF Producer, ProducerFinish, ProducerError
<1>6. ASSUME NEW s \in Subs, Reader(s) PROVE NoLeakedQueue'
  <2>1. CASE OpenStream(s) \/ Abandon(s) \/ Read(s)
    BY <2>1 DEF OpenStream, Abandon, Read, TypeOK
  <2>2. ASSUME Detach(s), UNCHANGED task,
               \A x \in Subs \ {s} : sub'[x] = sub[x]
        PROVE  NoLeakedQueue'
    <3> SUFFICES ASSUME NEW r \in Runs, Live(r), NEW x \in queues'[r]
                 PROVE  sub'[x] # "closed"
      BY <2>2
    <3>1. x # s
      BY <2>2, DetachReachesLiveRun
    <3>2. x \in queues[r] /\ x \in Subs
      BY <2>2, DetachType DEF TypeOK
    <3> QED
      BY <2>2, <3>1, <3>2
  <2>3. CASE ReadSentinel(s) \/ Disconnect(s)
    BY <2>2, <2>3 DEF ReadSentinel, Disconnect, TypeOK
  <2> QED
    BY <1>6, <2>1, <2>3 DEF Reader
<1>7. CASE UNCHANGED vars
    BY <1>7 DEF vars
<1> QED
    BY <1>1, <1>2, <1>3, <1>4, <1>5, <1>6, <1>7 DEF Next, Handlers

-----------------------------------------------------------------------------
(* The theorems *)

LEMMA InitInv == Init => IInv
<1> SUFFICES ASSUME Init PROVE IInv
    OBVIOUS
<1>1. TypeOK
    BY InitType
<1> QED
    BY <1>1 DEF Init, IInv, Registry, SingleProducer, Live, Subscription,
                Bounds, ExactReplay, NoLeakedQueue

LEMMA NextInv == IInv /\ [Next]_vars => IInv'
<1> SUFFICES ASSUME IInv, [Next]_vars PROVE IInv'
    OBVIOUS
<1>1. \A s \in Subs : StreamOK(s)'
    BY StreamsOK, NextStreams DEF IInv
<1>2. Bounds' /\ ExactReplay'
    BY <1>1 DEF StreamOK, Bounds, ExactReplay, Exact, Expected
<1> QED
    BY <1>2, NextType, NextRegistry, NextSubscription, NextNoLeak DEF IInv

\* The tracker's invariant, for any number of runs, subscribers and events.
THEOREM Invariance == Spec => []IInv
<1> QED
    BY InitInv, NextInv, PTL DEF Spec

\* A run that executes is the registered run of its key: no key has two
\* producers at work, and the pop by key in a finally clause removes no other
\* run (SingleProducer).
THEOREM OneProducerPerKey == Spec => []SingleProducer
<1>1. IInv => SingleProducer
    BY DEF IInv, Registry
<1> QED
    BY <1>1, Invariance, PTL

\* Whenever a subscriber attaches, its queue holds the run's events exactly
\* once and in order (ExactReplay).
THEOREM ReplayIsExact == Spec => []ExactReplay
<1>1. IInv => ExactReplay
    BY DEF IInv
<1> QED
    BY <1>1, Invariance, PTL

\* A stream that ended leaves no queue in a run that still broadcasts.
THEOREM StreamsDetach == Spec => []NoLeakedQueue
<1>1. IInv => NoLeakedQueue
    BY DEF IInv
<1> QED
    BY <1>1, Invariance, PTL

\* A reader that has seen the sentinel has read its run's whole log.
LEMMA SentinelLast == IInv => EndMeansComplete
<1> SUFFICES ASSUME IInv, NEW s \in Subs, cursor[s] > 0,
                    out[s][cursor[s]] = Sentinel
             PROVE  finished[subRun[s]] /\ cursor[s] = FullLength(s)
    BY DEF EndMeansComplete
<1> DEFINE r == subRun[s]
           n == OwedLength(buffer[r], mark[s])
<1>1. sub[s] # "free" /\ r \in Runs
    BY DEF IInv, TypeOK, Subscription
<1>2. /\ cursor[s] \in 1..Len(out[s]) /\ Len(out[s]) <= FullLength(s)
      /\ mark[s] <= Len(buffer[r]) + 1
    BY <1>1 DEF IInv, TypeOK, Bounds
<1>3. Owed(buffer[r], mark[s], cursor[s]) = Sentinel
    BY <1>1, <1>2 DEF IInv, ExactReplay, Expected
<1>4. buffer[r] \in Seq(Log) /\ mark[s] \in Nat /\ cursor[s] \in Nat
    BY <1>1 DEF IInv, TypeOK
<1>5. n \in Nat /\ \A i \in 1..n : Owed(buffer[r], mark[s], i) # Sentinel
    BY <1>2, <1>4, OwedEnd
<1> HIDE DEF n
<1>6. cursor[s] \notin 1..n
    BY <1>3, <1>5
<1>7. FullLength(s) = n + (IF finished[r] THEN 1 ELSE 0)
    BY DEF FullLength, n
<1> QED
    BY <1>2, <1>4, <1>5, <1>6, <1>7

\* So the sentinel never cuts a reader short (EndMeansComplete).
THEOREM EndIsComplete == Spec => []EndMeansComplete
<1> QED
    BY SentinelLast, Invariance, PTL

-----------------------------------------------------------------------------
(* What the refinement needs beyond IInv: only a closed stream has taken the *)
(* sentinel, so that closing one is not completing it.                       *)

SentinelEnds ==
    \A s \in Subs : sub[s] # "closed" /\ cursor[s] > 0
        => out[s][cursor[s]] # Sentinel

\* Items that a reader has taken stay what they were.
LEMMA TakenItemsStay ==
    ASSUME IInv, [Next]_vars, NEW s \in Subs, sub[s] # "free"
    PROVE  /\ mark'[s] = mark[s] /\ subRun'[s] = subRun[s]
           /\ \A i \in 1..Len(out[s]) : out'[s][i] = out[s][i]
<1> USE DEF trackVars, subVars
<1>0. /\ TypeOK /\ out[s] \in Seq(Items) /\ {ErrSse, Sentinel} \subseteq Items
      /\ Events \subseteq Items
    BY DEF IInv, TypeOK, Items, Log
<1>a. ASSUME NEW q, q \in Seq(Items), NEW e \in Items
      PROVE  /\ Append(q, e) \in Seq(Items) /\ Len(q) \in Nat
             /\ Len(Append(q, e)) = Len(q) + 1
             /\ \A i \in 1..Len(q) : Append(q, e)[i] = q[i]
    BY <1>a
<1>b. ASSUME NEW x \in Subs, x # s, NEW r, NEW items, NEW m,
             NewQueue(x, r, items, m)
      PROVE  out'[s] = out[s] /\ mark'[s] = mark[s] /\ subRun'[s] = subRun[s]
    BY <1>b, <1>0 DEF NewQueue, TypeOK
<1>1. ASSUME NEW x \in Subs, NEW k \in Keys, Attach(x, k) \/ AttachExisting(x, k)
      PROVE  out'[s] = out[s] /\ mark'[s] = mark[s] /\ subRun'[s] = subRun[s]
    BY <1>1, <1>b DEF Attach, AttachExisting
<1>2. ASSUME NEW x \in Subs, NEW k \in Keys, NEW r \in Runs, Start(x, k, r)
      PROVE  out'[s] = out[s] /\ mark'[s] = mark[s] /\ subRun'[s] = subRun[s]
    BY <1>2, <1>b DEF Start
<1>3. ASSUME NEW r \in Runs, NEW e \in Events, ProducerEmit(r, e)
      PROVE  /\ mark' = mark /\ subRun' = subRun
             /\ \A i \in 1..Len(out[s]) : out'[s][i] = out[s][i]
  <2>1. /\ mark' = mark /\ subRun' = subRun
        /\ out'[s] = IF s \in queues[r] THEN Append(out[s], e) ELSE out[s]
    BY <1>3 DEF ProducerEmit, Broadcast
  <2> QED
    BY <2>1, <1>0, <1>a
<1>4. ASSUME NEW r \in Runs, ProducerFinish(r)
      PROVE  /\ mark' = mark /\ subRun' = subRun
             /\ \A i \in 1..Len(out[s]) : out'[s][i] = out[s][i]
  <2>1. /\ mark' = mark /\ subRun' = subRun
        /\ out'[s] = IF s \in queues[r] THEN Append(out[s], Sentinel) ELSE out[s]
    BY <1>4 DEF ProducerFinish, Retire, Broadcast
  <2> QED
    BY <2>1, <1>0, <1>a
<1>5. ASSUME NEW r \in Runs, ProducerError(r)
      PROVE  /\ mark' = mark /\ subRun' = subRun
             /\ \A i \in 1..Len(out[s]) : out'[s][i] = out[s][i]
  <2> DEFINE q == Append(out[s], ErrSse)
  <2>1. /\ mark' = mark /\ subRun' = subRun
        /\ out'[s] = IF s \in queues[r] THEN Append(q, Sentinel) ELSE out[s]
    BY <1>5 DEF ProducerError, Retire
  <2>2. /\ q \in Seq(Items) /\ Len(out[s]) \in Nat /\ Len(q) = Len(out[s]) + 1
        /\ \A i \in 1..Len(out[s]) : q[i] = out[s][i]
    BY <1>0, <1>a
  <2> HIDE DEF q
  <2>3. \A i \in 1..Len(q) : Append(q, Sentinel)[i] = q[i]
    BY <2>2, <1>0, <1>a
  <2> QED
    BY <2>1, <2>2, <2>3
<1>6. ASSUME UNCHANGED <<out, mark, subRun>>
      PROVE  /\ mark'[s] = mark[s] /\ subRun'[s] = subRun[s]
             /\ \A i \in 1..Len(out[s]) : out'[s][i] = out[s][i]
    BY <1>6
<1>7. ASSUME NEW p \in Stoppers, NEW k \in Keys,
             RequestStop(p, k) \/ StopReturns(p)
      PROVE  UNCHANGED <<out, mark, subRun>>
    BY <1>7 DEF RequestStop, StopReturns
<1>8. ASSUME NEW r \in Runs, ProducerStart(r) \/ ProducerNeverStarts(r)
      PROVE  UNCHANGED <<out, mark, subRun>>
    BY <1>8 DEF ProducerStart, ProducerNeverStarts
<1>9. ASSUME NEW x \in Subs, Reader(x) PROVE UNCHANGED <<out, mark, subRun>>
    BY <1>9 DEF Reader, OpenStream, Abandon, Read, ReadSentinel, Disconnect
<1>10. ASSUME NEW p \in Stoppers, StopReturns(p)
       PROVE  UNCHANGED <<out, mark, subRun>>
    BY <1>10 DEF StopReturns
<1>11. CASE UNCHANGED vars
    BY <1>11, <1>6 DEF vars
<1> QED
    BY <1>1, <1>2, <1>3, <1>4, <1>5, <1>6, <1>7, <1>8, <1>9, <1>10, <1>11
    DEF Next, Handlers, Producer

\* A stream that is not closed was not, and took nothing or an event.
LEMMA OpenStreamSteps ==
    ASSUME TypeOK, [Next]_vars, NEW s \in Subs, sub'[s] # "closed"
    PROVE  (sub[s] # "closed" /\ cursor'[s] = cursor[s]) \/ Read(s)
<1> USE DEF trackVars, subVars, TypeOK
<1>1. CASE UNCHANGED <<sub, cursor>>
    BY <1>1
<1>2. ASSUME NEW x \in Subs, NEW r, NEW items, NEW m, NewQueue(x, r, items, m),
             sub[x] = "free"
      PROVE  sub[s] # "closed" /\ cursor'[s] = cursor[s]
    BY <1>2 DEF NewQueue
<1>3. ASSUME NEW x \in Subs, NEW k \in Keys, Attach(x, k) \/ AttachExisting(x, k)
      PROVE  sub[s] # "closed" /\ cursor'[s] = cursor[s]
    BY <1>3, <1>2 DEF Attach, AttachExisting
<1>4. ASSUME NEW x \in Subs, NEW k \in Keys, NEW r \in Runs, Start(x, k, r)
      PROVE  sub[s] # "closed" /\ cursor'[s] = cursor[s]
    BY <1>4, <1>2 DEF Start
<1>5. ASSUME NEW p \in Stoppers, NEW k \in Keys, RequestStop(p, k)
      PROVE  UNCHANGED <<sub, cursor>>
    BY <1>5 DEF RequestStop
<1>6. ASSUME NEW p \in Stoppers, StopReturns(p) PROVE UNCHANGED <<sub, cursor>>
    BY <1>6 DEF StopReturns
<1>7. ASSUME NEW r \in Runs, Producer(r) PROVE UNCHANGED <<sub, cursor>>
    BY <1>7 DEF Producer, ProducerStart, ProducerNeverStarts, ProducerEmit,
                ProducerFinish, ProducerError, Retire
<1>8. ASSUME NEW x \in Subs, Reader(x)
      PROVE  (sub[s] # "closed" /\ cursor'[s] = cursor[s]) \/ Read(s)
  <2>1. CASE OpenStream(x) \/ Abandon(x)
    BY <2>1 DEF OpenStream, Abandon
  <2>2. CASE Disconnect(x) \/ ReadSentinel(x)
    BY <2>2 DEF Disconnect, ReadSentinel
  <2>3. CASE Read(x)
    BY <2>3 DEF Read
  <2> QED
    BY <1>8, <2>1, <2>2, <2>3 DEF Reader
<1>9. CASE UNCHANGED vars
    BY <1>9, <1>1 DEF vars
<1> QED
    BY <1>1, <1>3, <1>4, <1>5, <1>6, <1>7, <1>8, <1>9 DEF Next, Handlers

LEMMA InitSentinel == Init => SentinelEnds
BY DEF Init, SentinelEnds

LEMMA NextSentinel == IInv /\ SentinelEnds /\ [Next]_vars => SentinelEnds'
<1> SUFFICES ASSUME IInv, SentinelEnds, [Next]_vars, NEW s \in Subs,
                    sub'[s] # "closed", cursor'[s] > 0
             PROVE  out'[s][cursor'[s]] # Sentinel
    BY DEF SentinelEnds
<1>0. cursor[s] \in Nat /\ (sub[s] = "free" => cursor[s] = 0)
    BY DEF IInv, TypeOK, Subscription
<1>1. CASE sub[s] # "closed" /\ cursor'[s] = cursor[s]
  <2>1. sub[s] # "free" /\ cursor[s] \in 1..Len(out[s])
    BY <1>0, <1>1 DEF IInv, Bounds
  <2>2. out'[s][cursor[s]] = out[s][cursor[s]]
    BY <2>1, TakenItemsStay
  <2> QED
    BY <1>0, <1>1, <2>1, <2>2 DEF SentinelEnds
<1>2. CASE Read(s)
  <2>1. /\ cursor'[s] = cursor[s] + 1 /\ cursor[s] < Len(out[s])
        /\ out[s][cursor[s] + 1] # Sentinel /\ out' = out
    BY <1>2 DEF Read, IInv, TypeOK
  <2> QED
    BY <2>1
<1> QED
    BY <1>1, <1>2, OpenStreamSteps DEF IInv

-----------------------------------------------------------------------------
(* The mapped state: what a reader was given is a prefix of the log.         *)

Prefix(log, n) == [i \in 1..n |-> log[i]]

\* One queue and one log: the events among the first c items are the first
\* events of the log.
LEMMA OwedEvents ==
    ASSUME NEW log \in Seq(Log), NEW m \in Nat, NEW c \in Nat,
           m <= Len(log) + 1, c <= OwedLength(log, m)
    PROVE  LET n == IF m = 0 \/ c < m THEN c ELSE c - 1
           IN  /\ n \in Nat /\ n <= Len(log)
               /\ \A i \in 1..n :
                    LET j == IF m = 0 \/ i < m THEN i ELSE i + 1
                    IN  j \in 1..c /\ Owed(log, m, j) = log[i]
<1>1. Len(log) \in Nat
    OBVIOUS
<1>2. CASE m = 0
    BY <1>1, <1>2 DEF OwedLength, Owed
<1>3. CASE m # 0
    BY <1>1, <1>3 DEF OwedLength, Owed
<1> QED
    BY <1>2, <1>3

LEMMA TakenIsPrefix ==
    ASSUME IInv, SentinelEnds, NEW s \in Subs, sub[s] # "free"
    PROVE  LET log == buffer[subRun[s]] IN
           /\ Taken(s) \in Nat /\ Taken(s) <= Len(log)
           /\ Given(s) = Prefix(log, Taken(s))
           /\ \A i \in 1..Taken(s) :
                (IF mark[s] = 0 \/ i < mark[s] THEN i ELSE i + 1) \in 1..Len(out[s])
<1> DEFINE log == buffer[subRun[s]]
           q   == out[s]
           m   == mark[s]
           c   == IF ReadAll(s) THEN cursor[s] - 1 ELSE cursor[s]
           n   == IF m = 0 \/ c < m THEN c ELSE c - 1
<1>1. /\ subRun[s] \in Runs
      /\ log \in Seq(Log) /\ Len(log) \in Nat /\ Len(q) \in Nat
      /\ m \in Nat /\ cursor[s] \in Nat
    BY DEF IInv, TypeOK, Subscription
<1>2. /\ cursor[s] <= Len(q) /\ m <= Len(log) + 1
      /\ Len(q) <= FullLength(s)
    BY DEF IInv, Bounds
<1>3. \A i \in 1..Len(q) : q[i] = Owed(log, m, i)
    BY DEF IInv, ExactReplay, Expected
<1>4. FullLength(s) = OwedLength(log, m) + (IF finished[subRun[s]] THEN 1 ELSE 0)
    BY DEF FullLength
<1>5. /\ OwedLength(log, m) \in Nat
      /\ Owed(log, m, OwedLength(log, m) + 1) = Sentinel
    BY <1>1, <1>2, OwedEnd
<1>6. cursor[s] <= OwedLength(log, m) + 1
    BY <1>1, <1>2, <1>4, <1>5
<1>7. c \in Nat /\ c <= OwedLength(log, m) /\ c <= Len(q)
  <2>1. CASE cursor[s] = OwedLength(log, m) + 1
    <3>1. cursor[s] > 0 /\ q[cursor[s]] = Sentinel
      BY <1>1, <1>2, <1>3, <1>5, <2>1
    <3>2. ReadAll(s)
      BY <3>1 DEF ReadAll, SentinelEnds
    <3> QED
      BY <1>1, <1>2, <1>5, <2>1, <3>2
  <2>2. CASE cursor[s] # OwedLength(log, m) + 1
    BY <1>1, <1>2, <1>5, <1>6, <2>2 DEF ReadAll
  <2> QED
    BY <2>1, <2>2
<1>8. Taken(s) = n
    BY DEF Taken, EventsIn
<1> HIDE DEF log, q, m, c
<1>9. /\ n \in Nat /\ n <= Len(log)
      /\ \A i \in 1..n :
           LET j == IF m = 0 \/ i < m THEN i ELSE i + 1
           IN  j \in 1..c /\ Owed(log, m, j) = log[i]
    BY <1>1, <1>2, <1>7, OwedEvents
<1> HIDE DEF n
<1>10. \A i \in 1..n : EventAt(s, i) = log[i]
  <2>1. \A i \in 1..n : EventAt(s, i) = q[IF m = 0 \/ i < m THEN i ELSE i + 1]
    BY DEF EventAt, q, m
  <2>2. \A j \in 1..c : j \in 1..Len(q)
    BY <1>1, <1>7
  <2> QED
    BY <1>3, <1>9, <2>1, <2>2
<1>11. Given(s) = Prefix(log, n)
    BY <1>8, <1>10 DEF Given, Prefix
<1>12. \A i \in 1..n : (IF m = 0 \/ i < m THEN i ELSE i + 1) \in 1..Len(q)
    BY <1>1, <1>7, <1>9
<1> QED
    BY <1>8, <1>9, <1>11, <1>12 DEF log, m, q

LEMMA PrefixGrows ==
    ASSUME NEW log \in Seq(Log), NEW n \in Nat, n + 1 <= Len(log)
    PROVE  /\ Len(Prefix(log, n)) = n
           /\ Append(Prefix(log, n), log[n + 1]) = Prefix(log, n + 1)
<1> DEFINE p == Prefix(log, n)
           q == Append(p, log[n + 1])
<1>1. /\ Len(log) \in Nat /\ \A i \in 1..Len(log) : log[i] \in Log
    OBVIOUS
<1>2. p \in Seq(Log) /\ Len(p) = n /\ \A i \in 1..n : p[i] = log[i]
    BY <1>1 DEF Prefix
<1> HIDE DEF p
<1>3. /\ q \in Seq(Log) /\ Len(q) = n + 1
      /\ \A i \in 1..n : q[i] = p[i]
      /\ q[n + 1] = log[n + 1]
    BY <1>1, <1>2
<1> HIDE DEF q
<1>4. q = [i \in 1..(n + 1) |-> q[i]]
    BY <1>3
<1>5. \A i \in 1..(n + 1) : q[i] = log[i]
    BY <1>2, <1>3
<1>6. q = Prefix(log, n + 1)
    BY <1>4, <1>5 DEF Prefix
<1> QED
    BY <1>2, <1>6 DEF p, q

\* Nothing taken, nothing given.
LEMMA NothingGiven ==
    ASSUME NEW s \in Subs, TypeOK, cursor[s] = 0
    PROVE  Taken(s) = 0 /\ ~ReadAll(s) /\ Given(s) = <<>>
<1>1. mark[s] \in Nat
    BY DEF TypeOK
<1>2. ~ReadAll(s)
    BY DEF ReadAll
<1>3. Taken(s) = 0
    BY <1>1, <1>2 DEF Taken, EventsIn
<1>4. Given(s) = [i \in {} |-> EventAt(s, i)]
    BY <1>3 DEF Given
<1> QED
    BY <1>2, <1>3, <1>4

\* What a reader was given depends on what it has taken only.
LEMMA GivenStays ==
    ASSUME IInv, IInv', SentinelEnds, [Next]_vars, NEW s \in Subs,
           cursor'[s] = cursor[s], ReadAll(s)' = ReadAll(s)
    PROVE  Given(s)' = Given(s)
<1>0. cursor[s] \in Nat
    BY DEF IInv, TypeOK
<1>1. CASE cursor[s] = 0
  <2>1. Given(s) = <<>>
    BY <1>1, NothingGiven DEF IInv
  <2>2. cursor'[s] = 0 /\ mark'[s] \in Nat /\ ~ReadAll(s)'
    BY <1>1 DEF IInv, TypeOK, ReadAll
  <2>3. Taken(s)' = 0
    BY <2>2 DEF Taken, EventsIn
  <2>4. Given(s)' = [i \in {} |-> EventAt(s, i)']
    BY <2>3 DEF Given
  <2> QED
    BY <2>1, <2>4
<1>2. CASE cursor[s] # 0
  <2>1. sub[s] # "free"
    BY <1>2 DEF IInv, Subscription
  <2>2. /\ mark'[s] = mark[s]
        /\ \A i \in 1..Len(out[s]) : out'[s][i] = out[s][i]
    BY <2>1, TakenItemsStay
  <2>3. Taken(s)' = Taken(s)
    BY <2>2 DEF Taken, EventsIn
  <2>4. \A i \in 1..Taken(s) :
          (IF mark[s] = 0 \/ i < mark[s] THEN i ELSE i + 1) \in 1..Len(out[s])
    BY <2>1, TakenIsPrefix
  <2>5. \A i \in 1..Taken(s) : EventAt(s, i)' = EventAt(s, i)
    BY <2>2, <2>4 DEF EventAt
  <2> QED
    BY <2>3, <2>5 DEF Given
<1> QED
    BY <1>1, <1>2

\* A reader whom the step is not about stays what it is.
LEMMA ReaderStays ==
    ASSUME IInv, IInv', SentinelEnds, [Next]_vars, NEW s \in Subs,
           cursor'[s] = cursor[s], sub'[s] = sub[s]
    PROVE  ReaderPhase(s)' = ReaderPhase(s) /\ Given(s)' = Given(s)
<1>1. ReadAll(s)' = ReadAll(s)
  <2>1. CASE sub[s] # "closed"
    BY <2>1 DEF ReadAll
  <2>2. CASE sub[s] = "closed" /\ cursor[s] > 0
    <3>1. cursor[s] \in 1..Len(out[s])
      BY <2>2 DEF IInv, TypeOK, Bounds
    <3>2. out'[s][cursor[s]] = out[s][cursor[s]]
      BY <2>2, <3>1, TakenItemsStay
    <3> QED
      BY <3>2 DEF ReadAll
  <2>3. CASE ~(cursor[s] > 0)
    BY <2>3 DEF ReadAll
  <2> QED
    BY <2>1, <2>2, <2>3
<1> QED
    BY <1>1, GivenStays DEF ReaderPhase

-----------------------------------------------------------------------------
(* The steps of EventLog, in terms of the mapped state                       *)

LEMMA MapFollow ==
    ASSUME NEW s \in Subs, NEW r \in Runs,
           ReaderPhase(s) = "none", RunPhase(r) = "open",
           \A x \in Subs : ReaderPhase(x)' = IF x = s THEN "reading"
                                                      ELSE ReaderPhase(x),
           \A x \in Subs : Given(x)' = Given(x),
           \A y \in Runs : RunPhase(y)' = RunPhase(y),
           subRun' = [subRun EXCEPT ![s] = r], buffer' = buffer
    PROVE  Abstract!Follow(s, r)
BY DEF Abstract!Follow, Abstract!Join

LEMMA MapBegin ==
    ASSUME NEW s \in Subs, NEW r \in Runs,
           ReaderPhase(s) = "none", RunPhase(r) = "none",
           \A x \in Subs : ReaderPhase(x)' = IF x = s THEN "reading"
                                                      ELSE ReaderPhase(x),
           \A x \in Subs : Given(x)' = Given(x),
           \A y \in Runs : RunPhase(y)' = IF y = r THEN "open" ELSE RunPhase(y),
           subRun' = [subRun EXCEPT ![s] = r], buffer' = buffer
    PROVE  Abstract!Begin(s, r)
BY DEF Abstract!Begin, Abstract!Join

LEMMA MapGrow ==
    ASSUME NEW r \in Runs, NEW e \in Log, RunPhase(r) = "open",
           \A x \in Subs : ReaderPhase(x)' = ReaderPhase(x),
           \A x \in Subs : Given(x)' = Given(x),
           \A y \in Runs : RunPhase(y)' = RunPhase(y),
           subRun' = subRun, buffer' = [buffer EXCEPT ![r] = Append(@, e)]
    PROVE  Abstract!Grow(r)
BY DEF Abstract!Grow, Abstract!Extend

LEMMA MapEnd ==
    ASSUME NEW r \in Runs, RunPhase(r) = "open",
           \A x \in Subs : ReaderPhase(x)' = ReaderPhase(x),
           \A x \in Subs : Given(x)' = Given(x),
           \A y \in Runs : RunPhase(y)' = IF y = r THEN "ended" ELSE RunPhase(y),
           subRun' = subRun,
           \/ buffer' = buffer
           \/ \E e \in Log : buffer' = [buffer EXCEPT ![r] = Append(@, e)]
    PROVE  Abstract!End(r)
BY DEF Abstract!End, Abstract!Extend

LEMMA MapRead ==
    ASSUME NEW s \in Subs, ReaderPhase(s) = "reading",
           Len(Given(s)) < Len(buffer[subRun[s]]),
           \A x \in Subs : ReaderPhase(x)' = ReaderPhase(x),
           \A x \in Subs :
               Given(x)' = IF x = s THEN Append(Given(s),
                                          buffer[subRun[s]][Len(Given(s)) + 1])
                                    ELSE Given(x),
           \A y \in Runs : RunPhase(y)' = RunPhase(y),
           subRun' = subRun, buffer' = buffer
    PROVE  Abstract!Read(s)
BY DEF Abstract!Read

LEMMA MapLeave ==
    ASSUME NEW s \in Subs, ReaderPhase(s) = "reading",
           \A x \in Subs : ReaderPhase(x)' = IF x = s THEN "left"
                                                      ELSE ReaderPhase(x),
           \A x \in Subs : Given(x)' = Given(x),
           \A y \in Runs : RunPhase(y)' = RunPhase(y),
           subRun' = subRun, buffer' = buffer
    PROVE  Abstract!Leave(s)
BY DEF Abstract!Leave

LEMMA MapComplete ==
    ASSUME NEW s \in Subs, ReaderPhase(s) = "reading", subRun[s] \in Runs,
           RunPhase(subRun[s]) = "ended",
           Len(Given(s)) = Len(buffer[subRun[s]]),
           \A x \in Subs : ReaderPhase(x)' = IF x = s THEN "complete"
                                                      ELSE ReaderPhase(x),
           \A x \in Subs : Given(x)' = Given(x),
           \A y \in Runs : RunPhase(y)' = RunPhase(y),
           subRun' = subRun, buffer' = buffer
    PROVE  Abstract!Complete(s)
BY DEF Abstract!Complete

LEMMA MapStutter ==
    ASSUME \A x \in Subs : ReaderPhase(x)' = ReaderPhase(x),
           \A x \in Subs : Given(x)' = Given(x),
           \A y \in Runs : RunPhase(y)' = RunPhase(y),
           subRun' = subRun, buffer' = buffer
    PROVE  UNCHANGED Abstract!vars
BY DEF Abstract!vars

-----------------------------------------------------------------------------
(* Each step of the tracker                                                  *)

\* The readers are as they were but for one, who was given nothing new.
LEMMA OneReaderMoves ==
    ASSUME IInv, IInv', SentinelEnds, [Next]_vars, NEW s \in Subs, NEW phase,
           \A x \in Subs \ {s} : sub'[x] = sub[x] /\ cursor'[x] = cursor[x],
           ReaderPhase(s)' = phase, Given(s)' = Given(s)
    PROVE  /\ \A x \in Subs : ReaderPhase(x)' = IF x = s THEN phase
                                                         ELSE ReaderPhase(x)
           /\ \A x \in Subs : Given(x)' = Given(x)
BY ReaderStays

\* A step that touches no reader.
LEMMA NoReaderMoves ==
    ASSUME IInv, IInv', SentinelEnds, [Next]_vars, sub' = sub, cursor' = cursor
    PROVE  /\ \A x \in Subs : ReaderPhase(x)' = ReaderPhase(x)
           /\ \A x \in Subs : Given(x)' = Given(x)
BY ReaderStays

\* The reader of a new queue.
LEMMA NewReader ==
    ASSUME IInv, IInv', SentinelEnds, [Next]_vars, NEW s \in Subs, NEW r \in Runs,
           sub[s] = "free", NEW items, NEW m, NewQueue(s, r, items, m)
    PROVE  /\ ReaderPhase(s) = "none"
           /\ \A x \in Subs : ReaderPhase(x)' = IF x = s THEN "reading"
                                                         ELSE ReaderPhase(x)
           /\ \A x \in Subs : Given(x)' = Given(x)
           /\ subRun' = [subRun EXCEPT ![s] = r]
<1>1. /\ sub'[s] = "attached" /\ cursor' = cursor
      /\ \A x \in Subs \ {s} : sub'[x] = sub[x]
      /\ subRun' = [subRun EXCEPT ![s] = r]
    BY DEF NewQueue, IInv, TypeOK
<1>2. ReaderPhase(s) = "none" /\ ReaderPhase(s)' = "reading"
    BY <1>1 DEF ReaderPhase, ReadAll
<1>3. ReadAll(s)' = ReadAll(s) /\ cursor'[s] = cursor[s]
    BY <1>1 DEF ReadAll
<1>4. Given(s)' = Given(s)
    BY <1>1, <1>3, GivenStays
<1> QED
    BY <1>1, <1>2, <1>4, OneReaderMoves

LEMMA AttachFollows ==
    ASSUME IInv, IInv', SentinelEnds, [Next]_vars, NEW s \in Subs, NEW k \in Keys,
           Attach(s, k) \/ AttachExisting(s, k)
    PROVE  Abstract!Follow(s, runs[k])
<1> DEFINE r == runs[k]
<1>1. /\ r \in Runs /\ Live(r) /\ sub[s] = "free"
      /\ task' = task /\ buffer' = buffer
      /\ \E items, m : NewQueue(s, r, items, m)
    BY DEF Attach, AttachExisting, Active, IInv, TypeOK
<1>2. RunPhase(r) = "open" /\ \A y \in Runs : RunPhase(y)' = RunPhase(y)
    BY <1>1 DEF RunPhase, Live
<1> HIDE DEF r
<1>3. PICK items, m : NewQueue(s, r, items, m)
    BY <1>1
<1>4. /\ ReaderPhase(s) = "none"
      /\ \A x \in Subs : ReaderPhase(x)' = IF x = s THEN "reading"
                                                    ELSE ReaderPhase(x)
      /\ \A x \in Subs : Given(x)' = Given(x)
      /\ subRun' = [subRun EXCEPT ![s] = r]
    BY <1>1, <1>3, NewReader
<1>5. Abstract!Follow(s, r)
    BY <1>1, <1>2, <1>4, MapFollow
<1> QED
    BY <1>5 DEF r

LEMMA StartBegins ==
    ASSUME IInv, IInv', SentinelEnds, [Next]_vars, NEW s \in Subs, NEW k \in Keys,
           NEW r \in Runs, Start(s, k, r)
    PROVE  Abstract!Begin(s, r)
<1>1. /\ sub[s] = "free" /\ task[r] = "absent"
      /\ task' = [task EXCEPT ![r] = "scheduled"] /\ buffer' = buffer
      /\ NewQueue(s, r, <<>>, 0)
    BY DEF Start
<1>2. /\ RunPhase(r) = "none"
      /\ \A y \in Runs : RunPhase(y)' = IF y = r THEN "open" ELSE RunPhase(y)
    BY <1>1 DEF RunPhase, Live, IInv, TypeOK
<1>3. /\ ReaderPhase(s) = "none"
      /\ \A x \in Subs : ReaderPhase(x)' = IF x = s THEN "reading"
                                                    ELSE ReaderPhase(x)
      /\ \A x \in Subs : Given(x)' = Given(x)
      /\ subRun' = [subRun EXCEPT ![s] = r]
    BY <1>1, NewReader
<1> QED
    BY <1>1, <1>2, <1>3, MapBegin

LEMMA ProducerSteps ==
    ASSUME IInv, IInv', SentinelEnds, [Next]_vars, NEW r \in Runs, Producer(r)
    PROVE  Abstract!Grow(r) \/ Abstract!End(r) \/ UNCHANGED Abstract!vars
<1> USE DEF trackVars, subVars
<1>1. sub' = sub /\ cursor' = cursor /\ subRun' = subRun
    BY DEF Producer, ProducerStart, ProducerNeverStarts, ProducerEmit,
           ProducerFinish, ProducerError, Retire
<1>2. /\ \A x \in Subs : ReaderPhase(x)' = ReaderPhase(x)
      /\ \A x \in Subs : Given(x)' = Given(x)
    BY <1>1, NoReaderMoves
<1>3. ASSUME Live(r), task' = [task EXCEPT ![r] = "done"]
      PROVE  /\ RunPhase(r) = "open"
             /\ \A y \in Runs :
                  RunPhase(y)' = IF y = r THEN "ended" ELSE RunPhase(y)
    BY <1>3 DEF RunPhase, Live, IInv, TypeOK
<1>4. CASE ProducerStart(r)
  <2>1. /\ task[r] = "scheduled" /\ task' = [task EXCEPT ![r] = "running"]
        /\ buffer' = buffer
    BY <1>4 DEF ProducerStart
  <2>2. \A y \in Runs : RunPhase(y)' = RunPhase(y)
    BY <2>1 DEF RunPhase, Live, IInv, TypeOK
  <2> QED
    BY <1>1, <1>2, <2>1, <2>2, MapStutter
<1>5. CASE ProducerNeverStarts(r)
  <2>1. Live(r) /\ task' = [task EXCEPT ![r] = "done"] /\ buffer' = buffer
    BY <1>5 DEF ProducerNeverStarts, Live
  <2> QED
    BY <1>1, <1>2, <1>3, <2>1, MapEnd
<1>6. ASSUME NEW e \in Events, ProducerEmit(r, e) PROVE Abstract!Grow(r)
  <2>1. /\ Live(r) /\ task' = task /\ e \in Log
        /\ buffer' = [buffer EXCEPT ![r] = Append(@, e)]
    BY <1>6 DEF ProducerEmit, Live, Log
  <2>2. RunPhase(r) = "open" /\ \A y \in Runs : RunPhase(y)' = RunPhase(y)
    BY <2>1 DEF RunPhase, Live
  <2> QED
    BY <1>1, <1>2, <2>1, <2>2, MapGrow
<1>7. CASE ProducerFinish(r) \/ ProducerError(r)
  <2>1. Live(r) /\ task' = [task EXCEPT ![r] = "done"]
    BY <1>7 DEF ProducerFinish, ProducerError, Retire, Live
  <2>2. \/ buffer' = buffer
        \/ \E e \in Log : buffer' = [buffer EXCEPT ![r] = Append(@, e)]
    BY <1>7 DEF ProducerFinish, ProducerError, Log
  <2> QED
    BY <1>1, <1>2, <1>3, <2>1, <2>2, MapEnd
<1> QED
    BY <1>4, <1>5, <1>6, <1>7 DEF Producer

\* An event is the next one of the log, the marker is nothing.
LEMMA ReadReads ==
    ASSUME IInv, IInv', SentinelEnds, SentinelEnds', [Next]_vars, NEW s \in Subs,
           Read(s)
    PROVE  Abstract!Read(s) \/ UNCHANGED Abstract!vars
<1> DEFINE log == buffer[subRun[s]]
           c   == cursor[s]
           t   == Taken(s)
<1>1. /\ sub[s] = "streaming" /\ c \in Nat /\ mark[s] \in Nat
      /\ cursor' = [cursor EXCEPT ![s] = c + 1] /\ cursor'[s] = c + 1
      /\ UNCHANGED <<buffer, task, sub, subRun, out, mark>>
    BY DEF Read, trackVars, IInv, TypeOK
<1>2. \A y \in Runs : RunPhase(y)' = RunPhase(y)
    BY <1>1 DEF RunPhase, Live
<1>3. /\ ~ReadAll(s) /\ ~ReadAll(s)'
      /\ ReaderPhase(s) = "reading" /\ ReaderPhase(s)' = "reading"
    BY <1>1 DEF ReaderPhase, ReadAll
<1>4. /\ t \in Nat /\ t <= Len(log) /\ Given(s) = Prefix(log, t)
      /\ log \in Seq(Log)
    BY <1>1, TakenIsPrefix DEF IInv, TypeOK, Subscription
<1>5. \A x \in Subs \ {s} : sub'[x] = sub[x] /\ cursor'[x] = cursor[x]
    BY <1>1 DEF IInv, TypeOK
<1>6. \A x \in Subs \ {s} : /\ ReaderPhase(x)' = ReaderPhase(x)
                            /\ Given(x)' = Given(x)
    BY <1>5, ReaderStays
<1>7. CASE mark[s] # 0 /\ c + 1 = mark[s]
  <2>1. Taken(s)' = t
    BY <1>1, <1>3, <1>7 DEF Taken, EventsIn
  <2>2. Given(s)' = Given(s)
    BY <1>1, <2>1 DEF Given, EventAt
  <2> QED
    BY <1>1, <1>2, <1>3, <1>6, <2>2, MapStutter
<1>8. CASE ~(mark[s] # 0 /\ c + 1 = mark[s])
  <2>1. Taken(s)' = t + 1
    BY <1>1, <1>3, <1>8 DEF Taken, EventsIn
  <2>2. t + 1 <= Len(log) /\ Given(s)' = Prefix(log, t + 1)
    <3>1. /\ c + 1 <= Len(out[s]) /\ mark[s] <= Len(log) + 1
          /\ \A i \in 1..Len(out[s]) : out[s][i] = Owed(log, mark[s], i)
          /\ Len(out[s]) \in Nat /\ Len(out[s]) <= FullLength(s)
      BY <1>1 DEF Read, IInv, TypeOK, Bounds, ExactReplay, Expected
    <3>2. c + 1 <= OwedLength(log, mark[s])
      <4>1. /\ OwedLength(log, mark[s]) \in Nat
            /\ Owed(log, mark[s], OwedLength(log, mark[s]) + 1) = Sentinel
        BY <1>1, <1>4, <3>1, OwedEnd
      <4>2. Owed(log, mark[s], c + 1) # Sentinel
        BY <1>1, <3>1 DEF Read
      <4>3. c + 1 <= OwedLength(log, mark[s]) + 1
        BY <1>1, <3>1, <4>1 DEF FullLength
      <4> QED
        BY <1>1, <4>1, <4>2, <4>3
    <3> DEFINE n == IF mark[s] = 0 \/ c + 1 < mark[s] THEN c + 1 ELSE c
               j(i) == IF mark[s] = 0 \/ i < mark[s] THEN i ELSE i + 1
    <3>3. /\ n <= Len(log)
          /\ \A i \in 1..n : j(i) \in 1..(c + 1) /\ Owed(log, mark[s], j(i)) = log[i]
      <4> DEFINE d == c + 1
      <4>1. d \in Nat /\ d <= OwedLength(log, mark[s])
        BY <1>1, <3>2
      <4>2. n = IF mark[s] = 0 \/ d < mark[s] THEN d ELSE d - 1
        BY <1>1
      <4> HIDE DEF n, d, log
      <4>3. LET nn == IF mark[s] = 0 \/ d < mark[s] THEN d ELSE d - 1
            IN  /\ nn \in Nat /\ nn <= Len(log)
                /\ \A i \in 1..nn :
                     LET jj == IF mark[s] = 0 \/ i < mark[s] THEN i ELSE i + 1
                     IN  jj \in 1..d /\ Owed(log, mark[s], jj) = log[i]
        BY <1>1, <1>4, <3>1, <4>1, OwedEvents
      <4> QED
        BY <4>2, <4>3 DEF d
    <3>4. t + 1 = n
      BY <1>1, <1>3, <1>8 DEF Taken, EventsIn
    <3>a. \A i \in 1..(c + 1) : i \in 1..Len(out[s])
      BY <1>1, <3>1
    <3>b. \A i \in 1..n : j(i) \in 1..Len(out[s]) /\ Owed(log, mark[s], j(i)) = log[i]
      BY <3>3, <3>a
    <3>5. \A i \in 1..n : out[s][j(i)] = log[i]
      <4> HIDE DEF j, n, log
      <4> QED
        BY <3>1, <3>b
    <3>6. Given(s)' = [i \in 1..n |-> out[s][j(i)]]
      BY <1>1, <2>1, <3>4 DEF Given, EventAt
    <3>7. Given(s)' = Prefix(log, n)
      BY <3>5, <3>6 DEF Prefix
    <3> QED
      BY <3>3, <3>4, <3>7
  <2> HIDE DEF log, t
  <2>3. Len(Given(s)) = t /\ Append(Given(s), log[t + 1]) = Prefix(log, t + 1)
    BY <1>4, <2>2, PrefixGrows
  <2>4. \A x \in Subs : Given(x)' = IF x = s
                                    THEN Append(Given(s), log[Len(Given(s)) + 1])
                                    ELSE Given(x)
    BY <1>6, <2>2, <2>3
  <2>5. Len(Given(s)) < Len(log)
    BY <1>4, <2>2, <2>3
  <2>6. \A x \in Subs : ReaderPhase(x)' = ReaderPhase(x)
    BY <1>3, <1>6
  <2> QED
    BY <1>1, <1>2, <1>3, <2>4, <2>5, <2>6, MapRead DEF log
<1> QED
    BY <1>7, <1>8

\* The sentinel tells a reader that it has been given the whole log.
LEMMA ReadSentinelCompletes ==
    ASSUME IInv, IInv', SentinelEnds, [Next]_vars, NEW s \in Subs,
           ReadSentinel(s)
    PROVE  Abstract!Complete(s)
<1> DEFINE log == buffer[subRun[s]]
           c   == cursor[s]
<1>1. /\ sub[s] = "streaming" /\ c \in Nat /\ mark[s] \in Nat
      /\ c < Len(out[s]) /\ out[s][c + 1] = Sentinel
      /\ cursor'[s] = c + 1 /\ sub'[s] = "closed"
      /\ UNCHANGED <<buffer, task, finished, subRun, out, mark>>
    BY DEF ReadSentinel, IInv, TypeOK
<1>2. \A y \in Runs : RunPhase(y)' = RunPhase(y)
    BY <1>1 DEF RunPhase, Live
<1>3. ~ReadAll(s) /\ ReadAll(s)'
    BY <1>1 DEF ReadAll
<1>4. ReaderPhase(s) = "reading" /\ ReaderPhase(s)' = "complete"
    BY <1>1, <1>3 DEF ReaderPhase
<1>5. Taken(s)' = Taken(s)
    BY <1>1, <1>3 DEF Taken, EventsIn
<1>6. Given(s)' = Given(s)
    BY <1>1, <1>5 DEF Given, EventAt
<1>7. \A x \in Subs \ {s} : sub'[x] = sub[x] /\ cursor'[x] = cursor[x]
    BY DEF ReadSentinel, IInv, TypeOK
<1>8. /\ subRun[s] \in Runs /\ log \in Seq(Log) /\ Len(log) \in Nat
      /\ mark[s] <= Len(log) + 1
    BY <1>1 DEF IInv, TypeOK, Subscription, Bounds
<1>9. finished[subRun[s]] /\ c + 1 = OwedLength(log, mark[s]) + 1
  <2>1. Owed(log, mark[s], c + 1) = Sentinel
    BY <1>1 DEF IInv, ExactReplay, Expected
  <2>2. /\ OwedLength(log, mark[s]) \in Nat
        /\ \A i \in 1..OwedLength(log, mark[s]) : Owed(log, mark[s], i) # Sentinel
    BY <1>1, <1>8, OwedEnd
  <2>3. c + 1 <= OwedLength(log, mark[s]) + (IF finished[subRun[s]] THEN 1 ELSE 0)
    <3> DEFINE w == OwedLength(log, mark[s])
    <3>1. /\ c + 1 <= Len(out[s]) /\ Len(out[s]) \in Nat
          /\ Len(out[s]) <= FullLength(s)
      BY <1>1 DEF IInv, TypeOK, Bounds
    <3>2. FullLength(s) = w + (IF finished[subRun[s]] THEN 1 ELSE 0)
      BY DEF FullLength
    <3> HIDE DEF w
    <3> QED
      BY <1>1, <2>2, <3>1, <3>2 DEF w
  <2> QED
    BY <1>1, <2>1, <2>2, <2>3
<1>10. RunPhase(subRun[s]) = "ended"
    BY <1>8, <1>9 DEF IInv, Registry, RunPhase, Live
<1>11. Taken(s) = Len(log)
    <2>1. Taken(s) = EventsIn(s, c)
      BY <1>3 DEF Taken
    <2> HIDE DEF log, c
    <2>2. /\ mark[s] \in Nat /\ c \in Nat /\ Len(log) \in Nat
          /\ mark[s] <= Len(log) + 1 /\ c + 1 = OwedLength(log, mark[s]) + 1
      BY <1>1, <1>8, <1>9
    <2>3. c = Len(log) + (IF mark[s] = 0 THEN 0 ELSE 1)
      BY <2>2 DEF OwedLength
    <2>4. CASE mark[s] = 0
      BY <2>1, <2>2, <2>3, <2>4 DEF EventsIn
    <2>5. CASE mark[s] # 0
      BY <2>1, <2>2, <2>3, <2>5 DEF EventsIn
    <2> QED
      BY <2>4, <2>5
<1>12. Len(Given(s)) = Len(log)
    BY <1>8, <1>11 DEF Given
<1>13. /\ \A x \in Subs : ReaderPhase(x)' = IF x = s THEN "complete"
                                                     ELSE ReaderPhase(x)
       /\ \A x \in Subs : Given(x)' = Given(x)
    BY <1>4, <1>6, <1>7, OneReaderMoves
<1> QED
    BY <1>1, <1>2, <1>4, <1>8, <1>10, <1>12, <1>13, MapComplete

\* A stream that is closed before the sentinel, or before it began, is left.
LEMMA LeavingLeaves ==
    ASSUME IInv, IInv', SentinelEnds, [Next]_vars, NEW s \in Subs,
           Abandon(s) \/ Disconnect(s)
    PROVE  Abstract!Leave(s)
<1>1. /\ sub[s] \in {"attached", "streaming"}
      /\ sub'[s] \in {"abandoned", "closed"}
      /\ \A x \in Subs \ {s} : sub'[x] = sub[x]
      /\ UNCHANGED <<buffer, task, subRun, out, cursor, mark>>
    BY DEF Abandon, Disconnect, trackVars, IInv, TypeOK
<1>2. \A y \in Runs : RunPhase(y)' = RunPhase(y)
    BY <1>1 DEF RunPhase, Live
<1>3. ~(cursor[s] > 0 /\ out[s][cursor[s]] = Sentinel)
    BY <1>1 DEF SentinelEnds
<1>4. ReadAll(s)' = ReadAll(s) /\ cursor'[s] = cursor[s] /\ ~ReadAll(s)'
    BY <1>1, <1>3 DEF ReadAll
<1>5. ReaderPhase(s) = "reading" /\ ReaderPhase(s)' = "left"
    BY <1>1, <1>4 DEF ReaderPhase
<1>6. Given(s)' = Given(s)
    BY <1>4, GivenStays
<1>7. /\ \A x \in Subs : ReaderPhase(x)' = IF x = s THEN "left"
                                                    ELSE ReaderPhase(x)
      /\ \A x \in Subs : Given(x)' = Given(x)
    BY <1>1, <1>5, <1>6, OneReaderMoves
<1> QED
    BY <1>1, <1>2, <1>5, <1>7, MapLeave

\* A generator that begins to run has read nothing yet.
LEMMA OpeningIsSilent ==
    ASSUME IInv, IInv', SentinelEnds, [Next]_vars, NEW s \in Subs, OpenStream(s)
    PROVE  UNCHANGED Abstract!vars
<1>1. /\ sub[s] = "attached" /\ sub'[s] = "streaming"
      /\ \A x \in Subs \ {s} : sub'[x] = sub[x]
      /\ UNCHANGED <<buffer, task, subRun, cursor>>
    BY DEF OpenStream, trackVars, IInv, TypeOK
<1>2. \A y \in Runs : RunPhase(y)' = RunPhase(y)
    BY <1>1 DEF RunPhase, Live
<1>3. ReadAll(s)' = ReadAll(s) /\ cursor'[s] = cursor[s]
    BY <1>1 DEF ReadAll
<1>4. ReaderPhase(s) = "reading" /\ ReaderPhase(s)' = "reading"
    BY <1>1 DEF ReaderPhase, ReadAll
<1>5. Given(s)' = Given(s)
    BY <1>3, GivenStays
<1>6. /\ \A x \in Subs : ReaderPhase(x)' = IF x = s THEN "reading"
                                                     ELSE ReaderPhase(x)
      /\ \A x \in Subs : Given(x)' = Given(x)
    BY <1>1, <1>4, <1>5, OneReaderMoves
<1> QED
    BY <1>1, <1>2, <1>4, <1>6, MapStutter

-----------------------------------------------------------------------------

LEMMA RefinesInit == Init => Abstract!Init
<1> SUFFICES ASSUME Init PROVE Abstract!Init
  OBVIOUS
<1>1. \A s \in Subs : TypeOK => Given(s) = <<>>
  BY NothingGiven DEF Init
<1>2. \A s \in Subs : Given(s) = <<>>
  BY <1>1, InitInv DEF IInv
<1>3. \A s \in Subs : ReaderPhase(s) = "none"
  BY DEF Init, ReaderPhase, ReadAll
<1>4. \A r \in Runs : RunPhase(r) = "none"
  BY DEF Init, RunPhase, Live
<1> QED
  BY <1>2, <1>3, <1>4 DEF Init, Abstract!Init

\* Every step of the tracker is a step of the log, or none.
LEMMA RefinesStep ==
    ASSUME IInv, IInv', SentinelEnds, SentinelEnds', [Next]_vars
    PROVE  [Abstract!Next]_Abstract!vars
<1> USE DEF trackVars, subVars
<1>1. ASSUME sub' = sub, cursor' = cursor, subRun' = subRun, task' = task,
             buffer' = buffer
      PROVE  UNCHANGED Abstract!vars
  <2>1. \A y \in Runs : RunPhase(y)' = RunPhase(y)
    BY <1>1 DEF RunPhase, Live
  <2> QED
    BY <1>1, <2>1, NoReaderMoves, MapStutter
<1>2. ASSUME NEW s \in Subs, NEW k \in Keys, Attach(s, k) \/ AttachExisting(s, k)
      PROVE  Abstract!Next
  <2>1. runs[k] \in Runs
    BY <1>2 DEF Attach, AttachExisting, Active, IInv, TypeOK
  <2>2. Abstract!Follow(s, runs[k])
    BY <1>2, AttachFollows
  <2> QED
    BY <2>1, <2>2 DEF Abstract!Next
<1>3. ASSUME NEW s \in Subs, NEW k \in Keys, NEW r \in Runs, Start(s, k, r)
      PROVE  Abstract!Next
  BY <1>3, StartBegins DEF Abstract!Next
<1>4. ASSUME NEW p \in Stoppers, NEW k \in Keys, RequestStop(p, k)
      PROVE  UNCHANGED Abstract!vars
  BY <1>4, <1>1 DEF RequestStop
<1>5. ASSUME NEW p \in Stoppers, StopReturns(p) PROVE UNCHANGED Abstract!vars
  BY <1>5, <1>1 DEF StopReturns
<1>6. ASSUME NEW r \in Runs, Producer(r) PROVE [Abstract!Next]_Abstract!vars
  BY <1>6, ProducerSteps DEF Abstract!Next
<1>7. ASSUME NEW s \in Subs, OpenStream(s) PROVE UNCHANGED Abstract!vars
  BY <1>7, OpeningIsSilent
<1>8. ASSUME NEW s \in Subs, Reader(s), ~OpenStream(s)
      PROVE  [Abstract!Next]_Abstract!vars
  BY <1>8, ReadReads, ReadSentinelCompletes, LeavingLeaves
  DEF Reader, Abstract!Next
<1>9. CASE UNCHANGED vars
  BY <1>9, <1>1 DEF vars
<1> QED
  BY <1>2, <1>3, <1>4, <1>5, <1>6, <1>7, <1>8, <1>9 DEF Next, Handlers

\* TaskTracker implements EventLog, whatever the keys, runs, subscribers and
\* events: who follows a run gets its log from the first event on, however late
\* attach was called, and is told of the end only when nothing is missing.
THEOREM Refinement == Spec => ImplementsEventLog
<1>1. IInv /\ IInv' /\ SentinelEnds /\ SentinelEnds' /\ [Next]_vars
      => [Abstract!Next]_Abstract!vars
  BY RefinesStep
<1> QED
  BY <1>1, RefinesInit, InitSentinel, NextSentinel, InitInv, NextInv, PTL
  DEF Spec, ImplementsEventLog, Abstract!Spec
=============================================================================
