----------------------- MODULE ChannelDispatch_proofs -----------------------
(* Machine-checked proofs about ChannelDispatch, for any sessions,           *)
(* consumers, messages and queue length: type correctness, that no message   *)
(* is stranded, how many consumers a session can have, and, until the first  *)
(* sweep, that no message is ignored and the order of arrival.               *)
EXTENDS ChannelDispatch, FiniteSetTheorems, SequenceTheorems, TLAPS

-----------------------------------------------------------------------------
(* The invariant *)

NoDuplicates(q) == \A i, j \in DOMAIN q : q[i] = q[j] => i = j

Increasing(q) == \A i, j \in DOMAIN q : i < j => q[i] < q[j]

\* A consumer and its key belong together; who is absent or has ended does
\* nothing, and who has yet to come carries nothing over.
KeysOK ==
    /\ \A k \in Keys : registry[k] # None => keyOf[registry[k]] = k
    /\ \A c \in Consumers :
         /\ task[c] = "absent" <=> keyOf[c] = None
         /\ task[c] = "absent" => ~stale[c] /\ ~cancel[c]
         /\ pc[c] # "get" => task[c] = "running"

\* Where a message is agrees with what has become of it, and it is in one
\* place only.
PlacesOK ==
    /\ \A c \in Consumers, m \in Messages :
         /\ m \in Elements(queue[c]) => where[m] = "queued"
         /\ m \in putters[c] => where[m] = "putting"
         /\ m \in Elements(batch[c]) =>
              where[m] = IF pc[c] = "stream" THEN "started" ELSE "taken"
    /\ \A c \in Consumers :
         NoDuplicates(queue[c]) /\ (pc[c] = "get" => batch[c] = <<>>)
    /\ \A c, d \in Consumers, m \in Messages :
         /\ m \in Elements(queue[c]) /\ m \in Elements(queue[d]) => c = d
         /\ m \in putters[c] /\ m \in putters[d] => c = d
         /\ m \in Elements(batch[c]) /\ m \in Elements(batch[d]) => c = d

\* A message that is said to wait or to be in hand can be found.
FoundOK ==
    \A m \in Messages :
        /\ where[m] = "queued" => \E c \in Consumers : m \in Elements(queue[c])
        /\ where[m] = "taken"  => \E c \in Consumers : m \in Elements(batch[c])

\* Messages are where their session's key leads.
HomeOK ==
    \A c \in Consumers, m \in Messages :
        m \in Elements(queue[c]) \/ m \in putters[c] \/ m \in Elements(batch[c])
            => Session[m] = keyOf[c]

\* Nothing waits at a consumer that will not come to read it, unless the sweep
\* has removed it on the word of an old scan.
ReadersOK ==
    /\ \A c \in Consumers : stale[c] => putters[c] = {}
    /\ stopping = "no" =>
         /\ \A k \in Keys : registry[k] # None =>
              Live(registry[k]) /\ ~cancel[registry[k]]
         /\ \A c \in Consumers \ misjudged :
              cancel[c] \/ ~Live(c) => queue[c] = <<>> /\ putters[c] = {}

\* As long as nothing has been swept, a key has one consumer, which is the
\* registered one.
SoleOK ==
    /\ sweeper = "waiting" => sweeps # 0
    /\ sweeps = 0 =>
         /\ \A c, d \in Consumers :
              Live(c) /\ Live(d) /\ keyOf[c] = keyOf[d] => c = d
         /\ stopping # "stopped" =>
              \A c \in Consumers : Live(c) => registry[keyOf[c]] = c

\* As long as nothing has been swept or stopped, no consumer has been told to
\* stop, and a run is streamed by the consumer that started it.
CalmOK ==
    sweeps = 0 /\ stopping = "no" =>
        /\ \A c \in Consumers : ~cancel[c] /\ task[c] # "done"
        /\ \A k \in Keys : run[k] # None =>
             keyOf[run[k]] = k /\ pc[run[k]] = "stream"
        /\ NoMessageIgnored

DispatchInv ==
    /\ TypeOK /\ KeysOK /\ PlacesOK /\ FoundOK /\ HomeOK
    /\ ReadersOK /\ SoleOK /\ CalmOK

-----------------------------------------------------------------------------
(* Sequences and their elements *)

LEMMA EmptyQueue ==
    /\ Elements(<<>>) = {} /\ NoDuplicates(<<>>) /\ Increasing(<<>>)
    /\ Len(<<>>) = 0 /\ \A S : <<>> \in Seq(S)
  BY DEF Elements, NoDuplicates, Increasing

LEMMA ElementsTyped ==
    ASSUME NEW S, NEW q \in Seq(S)
    PROVE  Elements(q) \subseteq S /\ (q # <<>> <=> Elements(q) # {})
<1>1. DOMAIN q = 1..Len(q) /\ Len(q) \in Nat /\ \A i \in 1..Len(q) : q[i] \in S
    BY LenProperties, ElementOfSeq
<1>2. q # <<>> => 1 \in DOMAIN q
    BY <1>1, EmptySeq
<1> QED
    BY <1>1, <1>2, EmptyQueue DEF Elements

LEMMA AppendElements ==
    ASSUME NEW S, NEW q \in Seq(S), NEW e \in S
    PROVE  /\ Append(q, e) \in Seq(S)
           /\ Elements(Append(q, e)) = Elements(q) \cup {e}
           /\ NoDuplicates(q) /\ e \notin Elements(q)
                => NoDuplicates(Append(q, e))
<1>1. /\ Append(q, e) \in Seq(S) /\ Len(q) \in Nat
      /\ DOMAIN q = 1..Len(q) /\ DOMAIN Append(q, e) = 1..Len(q) + 1
      /\ \A i \in 1..Len(q) : Append(q, e)[i] = q[i]
      /\ Append(q, e)[Len(q) + 1] = e
    OBVIOUS
<1>2. 1..Len(q) + 1 = 1..Len(q) \cup {Len(q) + 1}
    BY <1>1
<1> HIDE DEF Append
<1>3. Elements(Append(q, e)) = Elements(q) \cup {e}
    BY <1>1, <1>2 DEF Elements
<1>4. NoDuplicates(q) /\ e \notin Elements(q) => NoDuplicates(Append(q, e))
    BY <1>1, <1>2 DEF Elements, NoDuplicates
<1> QED
    BY <1>1, <1>3, <1>4

LEMMA HeadElements ==
    ASSUME NEW S, NEW q \in Seq(S), q # <<>>
    PROVE  /\ Head(q) \in S /\ Tail(q) \in Seq(S) /\ <<Head(q)>> \in Seq(S)
           /\ Elements(<<Head(q)>>) = {Head(q)}
           /\ Elements(q) = {Head(q)} \cup Elements(Tail(q))
           /\ NoDuplicates(q)
                => NoDuplicates(Tail(q)) /\ Head(q) \notin Elements(Tail(q))
<1> DEFINE h == Head(q)
           t == Tail(q)
           n == Len(q)
<1>1. /\ h \in S /\ t \in Seq(S) /\ n \in Nat \ {0} /\ h = q[1]
      /\ DOMAIN q = 1..n /\ DOMAIN t = 1..n - 1
      /\ \A i \in 1..n - 1 : t[i] = q[i + 1]
    BY HeadTailProperties, LenProperties, EmptySeq
<1>2. <<h>> \in Seq(S) /\ Elements(<<h>>) = {h}
    BY <1>1 DEF Elements
<1> HIDE DEF h, t, n
<1>3. \A i \in 1..n : i = 1 \/ (i - 1 \in 1..n - 1 /\ q[i] = t[i - 1])
    BY <1>1
<1>4. Elements(q) \subseteq {h} \cup Elements(t)
  <2>1. /\ Elements(q) = {q[i] : i \in 1..n}
        /\ Elements(t) = {t[i] : i \in 1..n - 1}
    BY <1>1 DEF Elements
  <2>2. \A i \in 1..n : q[i] = h \/ q[i] \in Elements(t)
    BY <1>1, <1>3, <2>1
  <2> QED
    BY <2>1, <2>2
<1>5. 1 \in 1..n /\ \A i \in 1..n - 1 : i + 1 \in 1..n /\ i + 1 # 1
    BY <1>1
<1>6. {h} \cup Elements(t) \subseteq Elements(q)
    BY <1>1, <1>5 DEF Elements
<1>7. ASSUME NoDuplicates(q)
      PROVE  NoDuplicates(t) /\ h \notin Elements(t)
  <2>1. \A i, j \in 1..n : q[i] = q[j] => i = j
    BY <1>1, <1>7 DEF NoDuplicates
  <2>2. \A i, j \in 1..n - 1 : t[i] = t[j] => i = j
    BY <1>1, <1>5, <2>1
  <2>3. \A i \in 1..n - 1 : t[i] # h
    BY <1>1, <1>5, <2>1
  <2> QED
    BY <1>1, <2>2, <2>3 DEF NoDuplicates, Elements
<1> QED
    BY <1>1, <1>2, <1>4, <1>6, <1>7 DEF h, t

LEMMA ConcatElements ==
    ASSUME NEW S, NEW s \in Seq(S), NEW t \in Seq(S)
    PROVE  s \o t \in Seq(S) /\ Elements(s \o t) = Elements(s) \cup Elements(t)
<1> DEFINE u == s \o t
           m == Len(s)
           n == Len(t)
<1>1. /\ u \in Seq(S) /\ m \in Nat /\ n \in Nat
      /\ DOMAIN s = 1..m /\ DOMAIN t = 1..n /\ DOMAIN u = 1..m + n
      /\ \A i \in 1..m + n : u[i] = IF i <= m THEN s[i] ELSE t[i - m]
    BY ConcatProperties, LenProperties
<1> HIDE DEF u, m, n
<1>2. \A i \in 1..m + n : i \in 1..m \/ i - m \in 1..n
    BY <1>1
<1>3. \A i \in 1..m : i \in 1..m + n /\ u[i] = s[i]
    BY <1>1
<1>4. \A i \in 1..n : i + m \in 1..m + n /\ u[i + m] = t[i]
    BY <1>1
<1>5. /\ Elements(u) = {u[i] : i \in 1..m + n}
      /\ Elements(s) = {s[i] : i \in 1..m} /\ Elements(t) = {t[i] : i \in 1..n}
    BY <1>1 DEF Elements
<1>6. \A i \in 1..m + n : u[i] \in Elements(s) \cup Elements(t)
    BY <1>1, <1>2, <1>5
<1>7. \A x \in Elements(s) \cup Elements(t) : x \in Elements(u)
    BY <1>3, <1>4, <1>5
<1>8. Elements(u) \subseteq Elements(s) \cup Elements(t)
    BY <1>5, <1>6
<1>9. Elements(u) = Elements(s) \cup Elements(t)
    BY <1>7, <1>8
<1> QED
    BY <1>1, <1>9 DEF u

-----------------------------------------------------------------------------
(* Type correctness *)

\* The messages in S are moved to a place.
LEMMA MoveTyped ==
    ASSUME TypeOK, NEW S, NEW p \in Places, Move(S, p)
    PROVE  /\ where' \in [Messages -> Places]
           /\ \A m \in Messages : where'[m] = IF m \in S THEN p ELSE where[m]
  BY DEF Move, TypeOK, ManagerTypeOK

LEMMA PutTyped ==
    ASSUME TypeOK, NEW m \in Messages, NEW c \in Consumers, Put(m, c)
    PROVE  /\ queue' \in [Consumers -> Seq(Messages)]
           /\ putters' \in [Consumers -> SUBSET Messages]
           /\ where' \in [Messages -> Places]
<1>1. Append(queue[c], m) \in Seq(Messages)
    BY AppendElements DEF TypeOK, ManagerTypeOK
<1>2. where' \in [Messages -> Places]
    BY MoveTyped DEF Put, Places
<1>3. CASE Len(queue[c]) < QueueMax
    BY <1>1, <1>2, <1>3 DEF Put, TypeOK, ManagerTypeOK
<1>4. CASE ~(Len(queue[c]) < QueueMax)
  <2>1. putters' = [putters EXCEPT ![c] = @ \cup {m}] /\ queue' = queue
    BY <1>4 DEF Put
  <2> QED
    BY <1>2, <2>1 DEF TypeOK, ManagerTypeOK
<1> QED
    BY <1>3, <1>4

LEMMA InitType == Init => TypeOK
<1> SUFFICES ASSUME Init
             PROVE  TypeOK
    OBVIOUS
<1>1. <<>> \in Seq(Messages) /\ 0 \in 0..MaxSweeps
    BY EmptyQueue, QueueConstants
<1>2. ManagerTypeOK
    BY <1>1 DEF Init, ManagerInit, ManagerTypeOK, TaskState, StopState, Places
<1> QED
    BY <1>1, <1>2 DEF Init, TypeOK, Suspension, Producer

LEMMA ManagerType ==
    ASSUME TypeOK, ManagerNext
    PROVE  ManagerTypeOK'
<1> USE QueueConstants DEF TypeOK, ManagerTypeOK, sweepVars, queueVars
<1>1. ASSUME NEW m \in Messages, EnqueueExisting(m)
      PROVE  ManagerTypeOK'
  <2>1. registry[Session[m]] \in Consumers /\ Put(m, registry[Session[m]])
    BY <1>1 DEF EnqueueExisting
  <2> QED
    BY <1>1, <2>1, PutTyped DEF EnqueueExisting
<1>2. ASSUME NEW m \in Messages, NEW c \in Consumers, EnqueueCreates(m, c)
      PROVE  ManagerTypeOK'
    BY <1>2, PutTyped DEF EnqueueCreates, TaskState
<1>3. ASSUME NEW m \in Messages, NEW c \in Consumers, PutResumes(m, c)
      PROVE  ManagerTypeOK'
  <2>1. Append(queue[c], m) \in Seq(Messages)
    BY AppendElements
  <2>2. where' \in [Messages -> Places]
    BY <1>3, MoveTyped DEF PutResumes, Places
  <2> QED
    BY <1>3, <2>1, <2>2 DEF PutResumes
<1>4. ASSUME NEW m \in Messages, NEW c \in Consumers, PutTimesOut(m, c)
      PROVE  ManagerTypeOK'
  <2>1. where' \in [Messages -> Places]
    BY <1>4, MoveTyped DEF PutTimesOut, Places
  <2> QED
    BY <1>4, <2>1 DEF PutTimesOut
<1>5. ASSUME NEW k \in Keys, ClearQueue(k)
      PROVE  ManagerTypeOK'
  <2>1. where' \in [Messages -> Places]
    BY <1>5, MoveTyped DEF ClearQueue, Places
  <2> QED
    BY <1>5, <2>1, EmptyQueue DEF ClearQueue
<1>6. ASSUME NEW k \in Keys, Sweep(k)
      PROVE  ManagerTypeOK'
  <2>1. registry[k] \in Consumers
    BY <1>6 DEF Sweep, IdleKeys
  <2> QED
    BY <1>6, <2>1 DEF Sweep, PopAndCancel, IdleKeys
<1>7. ASSUME NEW k \in Keys, SweepNext(k)
      PROVE  ManagerTypeOK'
    BY <1>7 DEF SweepNext, PopAndCancel
<1>8. CASE SweepDone
    BY <1>8 DEF SweepDone
<1>9. CASE StopCancelsEnqueues
  <2>1. where' \in [Messages -> Places]
    BY <1>9, MoveTyped DEF StopCancelsEnqueues, Places
  <2> QED
    BY <1>9, <2>1 DEF StopCancelsEnqueues, StopState
<1>10. CASE StopCancelsSweeper
  <2>1. Live(awaited) \in BOOLEAN
    BY DEF Live
  <2>2. cancel' \in [Consumers -> BOOLEAN]
    BY <1>10, <2>1 DEF StopCancelsSweeper
  <2> QED
    BY <1>10, <2>2 DEF StopCancelsSweeper, StopState
<1>11. CASE StopCancelsConsumers
    BY <1>11 DEF StopCancelsConsumers, StopState, Live
<1>12. CASE StopEnds
    BY <1>12 DEF StopEnds, StopState
<1> QED
    BY <1>1, <1>2, <1>3, <1>4, <1>5, <1>6, <1>7, <1>8, <1>9, <1>10, <1>11,
       <1>12 DEF ManagerNext

LEMMA ProcessedTyped ==
    ASSUME TypeOK, NEW k, IncrementProcessed(k)
    PROVE  /\ stale' \in [Consumers -> BOOLEAN]
           /\ \A c \in Consumers : stale'[c] => stale[c]
  BY DEF IncrementProcessed, TypeOK, ManagerTypeOK

\* What the drain leaves: the queue is empty, all of it is in hand.
LEMMA TakeAllTyped ==
    ASSUME TypeOK, NEW c \in Consumers, NEW hand \in Seq(Messages),
           TakeAll(c, hand)
    PROVE  /\ queue' = [queue EXCEPT ![c] = <<>>]
           /\ queue' \in [Consumers -> Seq(Messages)]
           /\ batch' = [batch EXCEPT ![c] = hand \o queue[c]]
           /\ batch' \in [Consumers -> Seq(Messages)]
           /\ pc' = [pc EXCEPT ![c] = "prep"]
           /\ where' \in [Messages -> Places]
           /\ Elements(hand \o queue[c]) =
                 Elements(hand) \cup Elements(queue[c])
           /\ Move(Elements(hand) \cup Elements(queue[c]), "taken")
<1>1. queue[c] \in Seq(Messages)
    BY DEF TypeOK, ManagerTypeOK
<1>2. /\ hand \o queue[c] \in Seq(Messages)
      /\ Elements(hand \o queue[c]) = Elements(hand) \cup Elements(queue[c])
    BY <1>1, ConcatElements
<1>3. Move(Elements(hand) \cup Elements(queue[c]), "taken")
    BY <1>2 DEF TakeAll
<1>4. where' \in [Messages -> Places]
    BY <1>3, MoveTyped DEF Places
<1> QED
    BY <1>2, <1>3, <1>4, EmptyQueue DEF TakeAll, TypeOK, ManagerTypeOK

LEMMA IterationTyped ==
    ASSUME TypeOK, NEW c \in Consumers, NEW p \in Places, NextIteration(c, p)
    PROVE  /\ batch' \in [Consumers -> Seq(Messages)]
           /\ pc' \in [Consumers -> Suspension]
           /\ where' \in [Messages -> Places]
  BY MoveTyped, EmptyQueue DEF NextIteration, TypeOK, Suspension

LEMMA ConsumerType ==
    ASSUME TypeOK, NEW c \in Consumers, ConsumerStep(c)
    PROVE  TypeOK'
<1> USE QueueConstants DEF mgrVars, queueVars, sweepVars, dispatchVars
<1> USE DEF TypeOK, ManagerTypeOK
<1>1. CASE CGet(c)
  <2>1. CASE ~swapping
    <3>1. TakeAll(c, <<>>) /\ <<>> \in Seq(Messages)
      BY <1>1, <2>1, EmptyQueue DEF CGet
    <3> QED
      BY <1>1, <3>1, TakeAllTyped DEF CGet, Suspension
  <2>2. CASE swapping
    <3>1. queue[c] \in Seq(Messages) /\ queue[c] # <<>>
      BY <1>1 DEF CGet
    <3>2. /\ <<Head(queue[c])>> \in Seq(Messages)
          /\ Tail(queue[c]) \in Seq(Messages)
      BY <3>1, HeadElements
    <3>3. where' \in [Messages -> Places]
      BY <1>1, <2>2, MoveTyped DEF CGet, Places
    <3>4. /\ queue' = [queue EXCEPT ![c] = Tail(@)]
          /\ batch' = [batch EXCEPT ![c] = <<Head(queue[c])>>]
          /\ pc' = [pc EXCEPT ![c] = "channel"]
      BY <1>1, <2>2 DEF CGet
    <3>5. /\ queue' \in [Consumers -> Seq(Messages)]
          /\ batch' \in [Consumers -> Seq(Messages)]
          /\ pc' \in [Consumers -> Suspension]
      BY <3>2, <3>4 DEF Suspension
    <3> QED
      BY <1>1, <3>3, <3>5 DEF CGet
  <2> QED
    BY <2>1, <2>2
<1>2. CASE CDrain(c)
  <2>1. TakeAll(c, batch[c]) /\ batch[c] \in Seq(Messages)
    BY <1>2 DEF CDrain
  <2> QED
    BY <1>2, <2>1, TakeAllTyped DEF CDrain, Suspension
<1>3. CASE CFails(c)
    BY <1>3, IterationTyped DEF CFails, Places
<1>4. CASE CSkips(c)
    BY <1>4, IterationTyped, ProcessedTyped DEF CSkips, Places
<1>5. CASE CStarts(c)
  <2>1. where' \in [Messages -> Places]
    BY <1>5, MoveTyped DEF CStarts, Places
  <2> QED
    BY <1>5, <2>1 DEF CStarts, Suspension, Producer
<1>6. CASE CIgnores(c)
    BY <1>6, IterationTyped, ProcessedTyped DEF CIgnores, Places
<1>7. CASE CStreamEnds(c)
    BY <1>7, ProcessedTyped, EmptyQueue DEF CStreamEnds, Suspension
<1>8. CASE CSwallows(c)
    BY <1>8, ProcessedTyped, EmptyQueue DEF CSwallows, Suspension
<1>9. CASE CBreaks(c)
    BY <1>9, IterationTyped DEF CBreaks, ConsumerExits, Places, TaskState
<1>10. CASE ConsumerStarts(c) /\ UNCHANGED dispatchVars
    BY <1>10 DEF ConsumerStarts, TaskState
<1>11. CASE ConsumerNeverStarts(c) /\ UNCHANGED dispatchVars
    BY <1>11 DEF ConsumerNeverStarts, TaskState
<1> QED
    BY <1>1, <1>2, <1>3, <1>4, <1>5, <1>6, <1>7, <1>8, <1>9, <1>10,
       <1>11 DEF ConsumerStep

LEMMA NextType ==
    ASSUME TypeOK, [Next]_vars
    PROVE  TypeOK'
<1> USE DEF vars, mgrVars, queueVars, sweepVars, dispatchVars
<1>1. CASE ManagerNext /\ UNCHANGED dispatchVars
    BY <1>1, ManagerType DEF TypeOK
<1>2. ASSUME NEW c \in Consumers, TimePasses(c)
      PROVE  TypeOK'
    BY <1>2 DEF TimePasses, GoesStale, TypeOK, ManagerTypeOK
<1>3. CASE (\E k \in Keys : RunStep(k)) \/ BeginSwap \/ EndSwap
  <2>1. ManagerTypeOK'
    BY <1>3 DEF RunStep, RunBegins, RunEnds, RunStruck, BeginSwap, EndSwap,
                TypeOK, ManagerTypeOK
  <2>2. ASSUME NEW k \in Keys, RunStep(k)
        PROVE  producer' \in [Consumers -> Producer]
    BY <2>2 DEF RunStep, RunBegins, RunEnds, RunStruck, TypeOK, Producer
  <2> QED
    BY <1>3, <2>1, <2>2 DEF RunStep, RunBegins, RunEnds, RunStruck, BeginSwap,
                            EndSwap, TypeOK
<1>4. CASE UNCHANGED vars
    BY <1>4 DEF TypeOK, ManagerTypeOK
<1> QED
    BY <1>1, <1>2, <1>3, <1>4, ConsumerType DEF Next

-----------------------------------------------------------------------------
(* Consumers and their keys *)

LEMMA RegisteredIsPresent ==
    ASSUME TypeOK, KeysOK, NEW k \in Keys, registry[k] # None
    PROVE  /\ registry[k] \in Consumers /\ keyOf[registry[k]] = k
           /\ task[registry[k]] # "absent"
  BY QueueConstants DEF KeysOK, TypeOK, ManagerTypeOK

LEMMA KeysInit == Init => KeysOK
  BY DEF Init, ManagerInit, KeysOK

LEMMA KeysManager ==
    ASSUME TypeOK, KeysOK, ManagerNext, UNCHANGED dispatchVars
    PROVE  KeysOK'
<1> USE QueueConstants
    DEF KeysOK, TypeOK, ManagerTypeOK, sweepVars, queueVars, dispatchVars
<1>1. ASSUME NEW m \in Messages, EnqueueExisting(m)
      PROVE  KeysOK'
    BY <1>1 DEF EnqueueExisting
<1>2. ASSUME NEW m \in Messages, NEW c \in Consumers, EnqueueCreates(m, c)
      PROVE  KeysOK'
    BY <1>2 DEF EnqueueCreates, TaskState
<1>3. ASSUME NEW m \in Messages, NEW c \in Consumers,
             PutResumes(m, c) \/ PutTimesOut(m, c)
      PROVE  KeysOK'
    BY <1>3 DEF PutResumes, PutTimesOut
<1>4. ASSUME NEW k \in Keys, Sweep(k) \/ SweepNext(k)
      PROVE  KeysOK'
  <2>1. /\ registry[k] # None /\ PopAndCancel(k)
        /\ UNCHANGED <<keyOf, task, stale>>
    BY <1>4 DEF Sweep, SweepNext, IdleKeys
  <2>2. registry[k] \in Consumers /\ task[registry[k]] # "absent"
    BY <2>1, RegisteredIsPresent
  <2> QED
    BY <2>1, <2>2 DEF PopAndCancel
<1>5. CASE StopCancelsSweeper
  <2>1. \A c \in Consumers : task[c] = "absent" => ~cancel'[c]
    BY <1>5 DEF StopCancelsSweeper, Live
  <2> QED
    BY <1>5, <2>1 DEF StopCancelsSweeper
<1>6. CASE StopCancelsConsumers
    BY <1>6 DEF StopCancelsConsumers, Live
<1>7. CASE StopEnds
    BY <1>7 DEF StopEnds
<1>8. CASE (\E k \in Keys : ClearQueue(k)) \/ SweepDone \/ StopCancelsEnqueues
    BY <1>8 DEF ClearQueue, SweepDone, StopCancelsEnqueues
<1> QED
    BY <1>1, <1>2, <1>3, <1>4, <1>5, <1>6, <1>7, <1>8 DEF ManagerNext

LEMMA KeysConsumer ==
    ASSUME TypeOK, KeysOK, NEW c \in Consumers, ConsumerStep(c)
    PROVE  KeysOK'
<1> USE DEF KeysOK, TypeOK, ManagerTypeOK, sweepVars, queueVars, dispatchVars
<1>1. CASE CGet(c) \/ CDrain(c)
    BY <1>1 DEF CGet, CDrain, TakeAll, At
<1>2. CASE CFails(c)
    BY <1>2 DEF CFails, NextIteration
<1>3. CASE CSkips(c) \/ CIgnores(c)
  <2>1. \A d \in Consumers : stale'[d] => stale[d]
    BY <1>3, ProcessedTyped DEF CSkips, CIgnores
  <2> QED
    BY <1>3, <2>1 DEF CSkips, CIgnores, NextIteration
<1>4. CASE CStarts(c)
    BY <1>4 DEF CStarts, At
<1>5. CASE CStreamEnds(c) \/ CSwallows(c)
  <2>1. \A d \in Consumers : stale'[d] => stale[d]
    BY <1>5, ProcessedTyped DEF CStreamEnds, CSwallows
  <2> QED
    BY <1>5, <2>1 DEF CStreamEnds, CSwallows
<1>6. CASE CBreaks(c)
    BY <1>6 DEF CBreaks, NextIteration, ConsumerExits
<1>7. CASE /\ ConsumerStarts(c) \/ ConsumerNeverStarts(c)
           /\ UNCHANGED dispatchVars
  <2>1. pc' = pc /\ keyOf' = keyOf /\ registry' = registry /\ stale' = stale
    BY <1>7 DEF ConsumerStarts, ConsumerNeverStarts
  <2>2. pc[c] = "get"
    BY <1>7 DEF ConsumerStarts, ConsumerNeverStarts
  <2> QED
    BY <1>7, <2>1, <2>2 DEF ConsumerStarts, ConsumerNeverStarts
<1> QED
    BY <1>1, <1>2, <1>3, <1>4, <1>5, <1>6, <1>7 DEF ConsumerStep

LEMMA KeysNext ==
    ASSUME TypeOK, KeysOK, [Next]_vars
    PROVE  KeysOK'
<1> USE DEF vars, mgrVars, queueVars, sweepVars, dispatchVars
<1>1. ASSUME NEW c \in Consumers, TimePasses(c)
      PROVE  KeysOK'
    BY <1>1 DEF TimePasses, GoesStale, KeysOK, TypeOK, ManagerTypeOK
<1>2. CASE (\E k \in Keys : RunStep(k)) \/ BeginSwap \/ EndSwap
    BY <1>2 DEF RunStep, RunBegins, RunEnds, RunStruck, BeginSwap, EndSwap,
                KeysOK
<1>3. CASE UNCHANGED vars
    BY <1>3 DEF KeysOK
<1> QED
    BY <1>1, <1>2, <1>3, KeysManager, KeysConsumer DEF Next

-----------------------------------------------------------------------------
(* What a step does to the messages.  Every step of the system leaves them    *)
(* alone or is one of the following.                                          *)

cargo == <<where, queue, putters, batch, pc, keyOf>>

\* enqueue to c, which is new or registered under the key of m.
Accepts(m, c) ==
    /\ Arrives(m)
    /\ keyOf[c] \in {None, Session[m]}
    /\ keyOf' = [keyOf EXCEPT ![c] = Session[m]]
    /\ Put(m, c)
    /\ UNCHANGED <<batch, pc>>

\* A blocked put() succeeds or expires.
Resumes(m, c) == PutResumes(m, c) /\ UNCHANGED <<batch, pc>>
GivesUp(m, c) == PutTimesOut(m, c) /\ UNCHANGED <<batch, pc>>

\* The queue of c is drained by clear_queue.
Clears(c) ==
    /\ Move(Elements(queue[c]), "cleared")
    /\ queue' = [queue EXCEPT ![c] = <<>>]
    /\ UNCHANGED <<putters, batch, pc, keyOf>>

\* The shutdown cancels every blocked put().
Abandons == StopCancelsEnqueues /\ UNCHANGED <<batch, pc>>

\* c takes the head of its queue, or all of it behind what it has in hand.
TakesOne(c) ==
    /\ pc[c] = "get" /\ queue[c] # <<>>
    /\ batch' = [batch EXCEPT ![c] = <<Head(queue[c])>>]
    /\ queue' = [queue EXCEPT ![c] = Tail(@)]
    /\ Move({Head(queue[c])}, "taken")
    /\ pc' = [pc EXCEPT ![c] = "channel"]
    /\ UNCHANGED <<putters, keyOf>>
TakesAll(c) ==
    /\ pc[c] \in {"get", "channel"}
    /\ TakeAll(c, batch[c])
    /\ UNCHANGED <<putters, keyOf>>

\* c is through with its batch without having started it.
Leaves(c, p) ==
    /\ pc[c] # "stream"
    /\ NextIteration(c, p)
    /\ UNCHANGED <<queue, putters, keyOf>>

\* c starts a run for its batch; the stream of the run ends for c.
Begins(c) ==
    /\ pc[c] = "prep"
    /\ pc' = [pc EXCEPT ![c] = "stream"]
    /\ Move(Elements(batch[c]), "started")
    /\ UNCHANGED <<queue, putters, batch, keyOf>>
Finishes(c) ==
    /\ pc[c] = "stream"
    /\ pc' = [pc EXCEPT ![c] = "get"]
    /\ batch' = [batch EXCEPT ![c] = <<>>]
    /\ UNCHANGED <<where, queue, putters, keyOf>>

Unstarted == {"failed", "skipped", "ignored", "lost"}

CargoStep ==
    \/ UNCHANGED cargo
    \/ \E m \in Messages, c \in Consumers :
         Accepts(m, c) \/ Resumes(m, c) \/ GivesUp(m, c)
    \/ \E c \in Consumers :
         \/ Clears(c) \/ TakesOne(c) \/ TakesAll(c) \/ Begins(c) \/ Finishes(c)
         \/ \E p \in Unstarted : Leaves(c, p)
    \/ Abandons

LEMMA ManagerCargo ==
    ASSUME TypeOK, KeysOK, ManagerNext, UNCHANGED dispatchVars
    PROVE  CargoStep
<1> USE DEF CargoStep, dispatchVars
<1>1. ASSUME NEW m \in Messages, EnqueueExisting(m)
      PROVE  CargoStep
  <2> DEFINE c == registry[Session[m]]
  <2>1. c \in Consumers /\ keyOf[c] = Session[m]
    BY <1>1, RegisteredIsPresent, QueueConstants DEF EnqueueExisting
  <2>2. keyOf' = [keyOf EXCEPT ![c] = Session[m]]
    BY <1>1, <2>1 DEF EnqueueExisting, TypeOK, ManagerTypeOK
  <2>3. Accepts(m, c)
    BY <1>1, <2>1, <2>2 DEF EnqueueExisting, Accepts
  <2> QED
    BY <2>1, <2>3
<1>2. ASSUME NEW m \in Messages, NEW c \in Consumers, EnqueueCreates(m, c)
      PROVE  CargoStep
  <2>1. keyOf[c] = None
    BY <1>2 DEF EnqueueCreates, KeysOK
  <2>2. Accepts(m, c)
    BY <1>2, <2>1 DEF EnqueueCreates, Accepts
  <2> QED
    BY <2>2
<1>3. ASSUME NEW m \in Messages, NEW c \in Consumers,
             PutResumes(m, c) \/ PutTimesOut(m, c)
      PROVE  CargoStep
    BY <1>3 DEF Resumes, GivesUp
<1>4. ASSUME NEW k \in Keys, ClearQueue(k)
      PROVE  CargoStep
  <2>1. registry[k] \in Consumers
    BY <1>4 DEF ClearQueue, TypeOK, ManagerTypeOK
  <2>2. Clears(registry[k])
    BY <1>4 DEF ClearQueue, Clears
  <2> QED
    BY <2>1, <2>2
<1>5. CASE StopCancelsEnqueues
    BY <1>5 DEF Abandons
<1>6. ASSUME NEW k \in Keys, Sweep(k) \/ SweepNext(k)
      PROVE  CargoStep
    BY <1>6 DEF Sweep, SweepNext, cargo
<1>7. CASE \/ SweepDone \/ StopCancelsSweeper \/ StopCancelsConsumers
           \/ StopEnds
    BY <1>7 DEF SweepDone, StopCancelsSweeper, StopCancelsConsumers, StopEnds,
                queueVars, cargo
<1> QED
    BY <1>1, <1>2, <1>3, <1>4, <1>5, <1>6, <1>7 DEF ManagerNext

LEMMA ConsumerCargo ==
    ASSUME TypeOK, PlacesOK, NEW c \in Consumers, ConsumerStep(c)
    PROVE  CargoStep
<1> USE DEF CargoStep, dispatchVars, queueVars, At
<1>1. CASE CGet(c)
  <2>1. batch[c] = <<>>
    BY <1>1 DEF CGet, PlacesOK
  <2>2. TakesOne(c) \/ TakesAll(c)
    BY <1>1, <2>1 DEF CGet, TakesOne, TakesAll
  <2> QED
    BY <2>2
<1>2. CASE CDrain(c)
  <2>1. TakesAll(c)
    BY <1>2 DEF CDrain, TakesAll
  <2> QED
    BY <2>1
<1>3. CASE CFails(c) \/ CSkips(c) \/ CIgnores(c)
  <2>1. Leaves(c, "failed") \/ Leaves(c, "skipped") \/ Leaves(c, "ignored")
    BY <1>3 DEF CFails, CSkips, CIgnores, Leaves
  <2> QED
    BY <2>1 DEF Unstarted
<1>4. CASE CBreaks(c)
  <2>1. Leaves(c, "lost")
    BY <1>4 DEF CBreaks, Leaves
  <2> QED
    BY <2>1 DEF Unstarted
<1>5. CASE CStarts(c)
  <2>1. Begins(c)
    BY <1>5 DEF CStarts, Begins
  <2> QED
    BY <2>1
<1>6. CASE CStreamEnds(c) \/ CSwallows(c)
  <2>1. Finishes(c)
    BY <1>6 DEF CStreamEnds, CSwallows, Finishes
  <2> QED
    BY <2>1
<1>7. CASE /\ ConsumerStarts(c) \/ ConsumerNeverStarts(c)
           /\ UNCHANGED dispatchVars
    BY <1>7 DEF ConsumerStarts, ConsumerNeverStarts, cargo
<1> QED
    BY <1>1, <1>2, <1>3, <1>4, <1>5, <1>6, <1>7 DEF ConsumerStep

LEMMA EveryStepCargo ==
    ASSUME TypeOK, KeysOK, PlacesOK, [Next]_vars
    PROVE  CargoStep
<1> USE DEF vars, mgrVars, queueVars, dispatchVars, cargo
<1>1. ASSUME NEW c \in Consumers, TimePasses(c)
      PROVE  CargoStep
    BY <1>1 DEF TimePasses, GoesStale, CargoStep
<1>2. CASE (\E k \in Keys : RunStep(k)) \/ BeginSwap \/ EndSwap
    BY <1>2 DEF RunStep, RunBegins, RunEnds, RunStruck, BeginSwap, EndSwap,
                CargoStep
<1>3. CASE UNCHANGED vars
    BY <1>3 DEF CargoStep
<1> QED
    BY <1>1, <1>2, <1>3, ManagerCargo, ConsumerCargo DEF Next

-----------------------------------------------------------------------------
(* Messages are in one place, and where they are said to be *)

CargoOK == PlacesOK /\ FoundOK /\ HomeOK

LEMMA CargoInit == Init => CargoOK
  BY EmptyQueue
  DEF Init, ManagerInit, CargoOK, PlacesOK, FoundOK, HomeOK

LEMMA MoveWhere ==
    ASSUME TypeOK, NEW S, NEW p, Move(S, p)
    PROVE  \A m \in Messages : where'[m] = IF m \in S THEN p ELSE where[m]
  BY DEF Move, TypeOK, ManagerTypeOK

LEMMA CarriedTyped ==
    ASSUME TypeOK, NEW c \in Consumers
    PROVE  /\ Elements(queue[c]) \subseteq Messages
           /\ Elements(batch[c]) \subseteq Messages
           /\ putters[c] \subseteq Messages
           /\ queue[c] \in Seq(Messages) /\ batch[c] \in Seq(Messages)
  BY ElementsTyped DEF TypeOK, ManagerTypeOK

\* m gets into the queue of c, be it new or blocked until now.
LEMMA QueuedKeeps ==
    ASSUME TypeOK, CargoOK, NEW m \in Messages, NEW c \in Consumers,
           queue' = [queue EXCEPT ![c] = Append(@, m)],
           \A d \in Consumers : putters'[d] = putters[d] \ {m},
           Move({m}, "queued"), UNCHANGED <<batch, pc>>,
           where[m] \in {"new", "putting"},
           Session[m] = keyOf'[c],
           \A d \in Consumers : keyOf'[d] = keyOf[d] \/ keyOf[d] = None
    PROVE  CargoOK'
<1> USE QueueConstants DEF CargoOK
<1>1. \A x \in Messages : where'[x] = IF x = m THEN "queued" ELSE where[x]
    BY MoveWhere
<1>2. ASSUME NEW d \in Consumers
      PROVE  /\ \A x \in Messages :
                  x \in Elements(queue'[d]) <=>
                      x \in Elements(queue[d]) \/ (d = c /\ x = m)
             /\ m \notin Elements(queue[d]) /\ m \notin Elements(batch[d])
             /\ NoDuplicates(queue'[d])
  <2>1. queue[d] \in Seq(Messages) /\ NoDuplicates(queue[d])
    BY CarriedTyped DEF PlacesOK
  <2>2. m \notin Elements(queue[d]) /\ m \notin Elements(batch[d])
    BY DEF PlacesOK
  <2>3. queue'[d] = IF d = c THEN Append(queue[d], m) ELSE queue[d]
    BY DEF TypeOK, ManagerTypeOK
  <2>4. /\ Elements(Append(queue[d], m)) = Elements(queue[d]) \cup {m}
        /\ NoDuplicates(Append(queue[d], m))
    BY <2>1, <2>2, AppendElements
  <2> QED
    BY <2>1, <2>2, <2>3, <2>4
<1>3. PlacesOK'
    BY <1>1, <1>2 DEF PlacesOK
<1>4. FoundOK'
    BY <1>1, <1>2 DEF FoundOK
<1>5. HomeOK'
    BY <1>2 DEF HomeOK
<1> QED
    BY <1>3, <1>4, <1>5

\* The messages in S are no longer blocked, and go nowhere.
LEMMA PuttersLeave ==
    ASSUME TypeOK, CargoOK, NEW S \in SUBSET Messages, NEW p,
           p \notin {"queued", "taken"}, Move(S, p),
           \A x \in S : where[x] = "putting",
           \A d \in Consumers : putters'[d] = putters[d] \ S,
           UNCHANGED <<queue, batch, pc, keyOf>>
    PROVE  CargoOK'
<1> USE DEF CargoOK
<1>1. \A x \in Messages : where'[x] = IF x \in S THEN p ELSE where[x]
    BY MoveWhere
<1>2. PlacesOK'
    BY <1>1 DEF PlacesOK
<1>3. FoundOK'
    BY <1>1 DEF FoundOK
<1>4. HomeOK'
    BY DEF HomeOK
<1> QED
    BY <1>2, <1>3, <1>4

LEMMA SessionsAreKeys ==
    \A m \in Messages : Session[m] \in Keys /\ Session[m] # None
  BY QueueConstants

\* m waits behind the full queue of c.
LEMMA BlockedKeeps ==
    ASSUME TypeOK, CargoOK, NEW m \in Messages, NEW c \in Consumers,
           Move({m}, "putting"), where[m] = "new", Session[m] = keyOf'[c],
           putters' = [putters EXCEPT ![c] = @ \cup {m}],
           \A d \in Consumers : keyOf'[d] = keyOf[d] \/ keyOf[d] = None,
           UNCHANGED <<queue, batch, pc>>
    PROVE  CargoOK'
<1> USE DEF CargoOK
<1>1. \A x \in Messages : where'[x] = IF x = m THEN "putting" ELSE where[x]
    BY MoveWhere
<1>2. \A d \in Consumers, x \in Messages :
        x \in putters'[d] <=> x \in putters[d] \/ (d = c /\ x = m)
    BY DEF TypeOK, ManagerTypeOK
<1>3. \A d \in Consumers :
        /\ m \notin Elements(queue[d]) /\ m \notin putters[d]
        /\ m \notin Elements(batch[d])
    BY DEF PlacesOK
<1>4. PlacesOK'
    BY <1>1, <1>2, <1>3 DEF PlacesOK
<1>5. FoundOK'
    BY <1>1, <1>3 DEF FoundOK
<1>6. ASSUME NEW d \in Consumers, NEW x \in Messages,
             \/ x \in Elements(queue[d]) \/ x \in putters[d]
             \/ x \in Elements(batch[d])
      PROVE  Session[x] = keyOf'[d]
  <2>1. Session[x] = keyOf[d]
    BY <1>6 DEF HomeOK
  <2>2. Session[x] # None
    BY SessionsAreKeys
  <2> QED
    BY <2>1, <2>2
<1>7. HomeOK'
    BY <1>2, <1>6 DEF HomeOK
<1> QED
    BY <1>4, <1>5, <1>7

LEMMA AcceptsKeeps ==
    ASSUME TypeOK, CargoOK, NEW m \in Messages, NEW c \in Consumers,
           Accepts(m, c)
    PROVE  CargoOK'
<1> USE QueueConstants
<1>1. /\ Session[m] = keyOf'[c] /\ where[m] = "new"
      /\ \A d \in Consumers : keyOf'[d] = keyOf[d] \/ keyOf[d] = None
      /\ UNCHANGED <<batch, pc>>
    BY DEF Accepts, Arrives, TypeOK, ManagerTypeOK
<1>2. CASE Len(queue[c]) < QueueMax
  <2>1. \A d \in Consumers : putters'[d] = putters[d] \ {m}
    BY <1>1, <1>2 DEF Accepts, Put, CargoOK, PlacesOK
  <2>2. queue' = [queue EXCEPT ![c] = Append(@, m)] /\ Move({m}, "queued")
    BY <1>2 DEF Accepts, Put
  <2> QED
    BY <1>1, <2>1, <2>2, QueuedKeeps
<1>3. CASE ~(Len(queue[c]) < QueueMax)
  <2>1. /\ putters' = [putters EXCEPT ![c] = @ \cup {m}]
        /\ Move({m}, "putting") /\ UNCHANGED queue
    BY <1>3 DEF Accepts, Put
  <2> QED
    BY <1>1, <2>1, BlockedKeeps
<1> QED
    BY <1>2, <1>3

LEMMA ResumesKeeps ==
    ASSUME TypeOK, CargoOK, NEW m \in Messages, NEW c \in Consumers,
           Resumes(m, c)
    PROVE  CargoOK'
<1>1. m \in putters[c] /\ where[m] = "putting" /\ Session[m] = keyOf[c]
    BY DEF Resumes, PutResumes, CargoOK, PlacesOK, HomeOK
<1>2. \A d \in Consumers : putters'[d] = putters[d] \ {m}
    BY <1>1 DEF Resumes, PutResumes, CargoOK, PlacesOK, TypeOK, ManagerTypeOK
<1> QED
    BY <1>1, <1>2, QueuedKeeps DEF Resumes, PutResumes

LEMMA GivesUpKeeps ==
    ASSUME TypeOK, CargoOK, NEW m \in Messages, NEW c \in Consumers,
           GivesUp(m, c)
    PROVE  CargoOK'
<1>1. m \in putters[c] /\ where[m] = "putting"
    BY DEF GivesUp, PutTimesOut, CargoOK, PlacesOK
<1>2. \A d \in Consumers : putters'[d] = putters[d] \ {m}
    BY <1>1 DEF GivesUp, PutTimesOut, CargoOK, PlacesOK, TypeOK, ManagerTypeOK
<1>3. {m} \in SUBSET Messages /\ \A x \in {m} : where[x] = "putting"
    BY <1>1
<1> QED
    BY <1>2, <1>3, PuttersLeave DEF GivesUp, PutTimesOut

LEMMA AbandonsKeeps ==
    ASSUME TypeOK, CargoOK, Abandons
    PROVE  CargoOK'
<1> DEFINE S == UNION {putters[c] : c \in Consumers}
<1>1. S \in SUBSET Messages /\ \A x \in S : where[x] = "putting"
    BY DEF CargoOK, PlacesOK, TypeOK, ManagerTypeOK
<1>2. \A d \in Consumers : putters'[d] = putters[d] \ S
    BY DEF Abandons, StopCancelsEnqueues
<1>3. Move(S, "lost") /\ UNCHANGED <<queue, batch, pc, keyOf>>
    BY DEF Abandons, StopCancelsEnqueues
<1> HIDE DEF S
<1> QED
    BY <1>1, <1>2, <1>3, PuttersLeave

LEMMA ClearsKeeps ==
    ASSUME TypeOK, CargoOK, NEW c \in Consumers, Clears(c)
    PROVE  CargoOK'
<1> USE DEF CargoOK
<1>1. \A x \in Messages :
        where'[x] = IF x \in Elements(queue[c]) THEN "cleared" ELSE where[x]
    BY MoveWhere DEF Clears
<1>2. ASSUME NEW d \in Consumers
      PROVE  /\ \A x \in Messages :
                  x \in Elements(queue'[d])
                    <=> x \in Elements(queue[d]) /\ d # c
             /\ NoDuplicates(queue'[d])
    BY EmptyQueue DEF Clears, TypeOK, ManagerTypeOK, PlacesOK
<1>3. PlacesOK'
    BY <1>1, <1>2 DEF PlacesOK, Clears
<1>4. FoundOK'
    BY <1>1, <1>2 DEF FoundOK, Clears
<1>5. HomeOK'
    BY <1>2 DEF HomeOK, Clears
<1> QED
    BY <1>3, <1>4, <1>5

LEMMA TakesOneKeeps ==
    ASSUME TypeOK, CargoOK, NEW c \in Consumers, TakesOne(c)
    PROVE  CargoOK'
<1> USE DEF CargoOK
<1> DEFINE h == Head(queue[c])
<1>1. /\ h \in Messages /\ h \in Elements(queue[c])
      /\ \A x \in Messages :
           x \in Elements(queue[c]) <=> x = h \/ x \in Elements(Tail(queue[c]))
      /\ h \notin Elements(Tail(queue[c])) /\ NoDuplicates(Tail(queue[c]))
      /\ Elements(<<h>>) = {h}
    BY CarriedTyped, HeadElements DEF TakesOne, PlacesOK
<1>2. \A x \in Messages : where'[x] = IF x = h THEN "taken" ELSE where[x]
    BY MoveWhere DEF TakesOne
<1>3. /\ queue' = [queue EXCEPT ![c] = Tail(@)]
      /\ batch' = [batch EXCEPT ![c] = <<h>>]
      /\ pc' = [pc EXCEPT ![c] = "channel"] /\ UNCHANGED <<putters, keyOf>>
    BY DEF TakesOne
<1> HIDE DEF h
<1>4. ASSUME NEW d \in Consumers
      PROVE  /\ \A x \in Messages :
                  /\ x \in Elements(queue'[d]) <=>
                         x \in Elements(queue[d]) /\ (d = c => x # h)
                  /\ x \in Elements(batch'[d]) <=>
                         IF d = c THEN x = h ELSE x \in Elements(batch[d])
             /\ NoDuplicates(queue'[d])
             /\ pc'[d] = IF d = c THEN "channel" ELSE pc[d]
             /\ pc'[d] = "get" => batch'[d] = <<>>
    BY <1>1, <1>3 DEF TypeOK, ManagerTypeOK, PlacesOK
<1>5. \A d \in Consumers : h \in Elements(queue[d]) => d = c
    BY <1>1 DEF PlacesOK
<1>6. \A d \in Consumers : h \notin Elements(batch[d]) /\ h \notin putters[d]
    BY <1>1 DEF PlacesOK
<1>7. PlacesOK'
    BY <1>2, <1>3, <1>4, <1>5, <1>6 DEF PlacesOK
<1>8. \A x \in Elements(batch[c]) : FALSE
    BY EmptyQueue DEF PlacesOK, TakesOne
<1>9. FoundOK'
    BY <1>1, <1>2, <1>4, <1>8 DEF FoundOK
<1>10. HomeOK'
    BY <1>1, <1>3, <1>4 DEF HomeOK
<1> QED
    BY <1>7, <1>9, <1>10

LEMMA TakesAllKeeps ==
    ASSUME TypeOK, CargoOK, NEW c \in Consumers, TakesAll(c)
    PROVE  CargoOK'
<1> USE DEF CargoOK
<1>1. batch[c] \in Seq(Messages) /\ TakeAll(c, batch[c])
    BY CarriedTyped DEF TakesAll
<1>2. /\ queue' = [queue EXCEPT ![c] = <<>>]
      /\ batch' = [batch EXCEPT ![c] = batch[c] \o queue[c]]
      /\ Elements(batch[c] \o queue[c])
           = Elements(batch[c]) \cup Elements(queue[c])
      /\ Move(Elements(batch[c]) \cup Elements(queue[c]), "taken")
      /\ pc' = [pc EXCEPT ![c] = "prep"] /\ UNCHANGED <<putters, keyOf>>
    BY <1>1, TakeAllTyped DEF TakesAll
<1>3. \A x \in Messages :
        where'[x] = IF x \in Elements(batch[c]) \/ x \in Elements(queue[c])
                    THEN "taken" ELSE where[x]
    BY <1>2, MoveWhere
<1>4. ASSUME NEW d \in Consumers
      PROVE  /\ \A x \in Messages :
                  /\ x \in Elements(queue'[d]) <=>
                         x \in Elements(queue[d]) /\ d # c
                  /\ x \in Elements(batch'[d]) <=>
                         \/ x \in Elements(batch[d])
                         \/ d = c /\ x \in Elements(queue[d])
             /\ NoDuplicates(queue'[d])
             /\ pc'[d] = IF d = c THEN "prep" ELSE pc[d]
             /\ pc'[d] = "get" => batch'[d] = <<>>
    BY <1>2, EmptyQueue DEF TypeOK, ManagerTypeOK, PlacesOK
<1>5. pc[c] # "stream"
    BY DEF TakesAll
<1>6. PlacesOK'
    BY <1>2, <1>3, <1>4, <1>5 DEF PlacesOK
<1>7. FoundOK'
    BY <1>3, <1>4 DEF FoundOK
<1>8. HomeOK'
    BY <1>2, <1>4 DEF HomeOK
<1> QED
    BY <1>6, <1>7, <1>8

LEMMA LeavesKeeps ==
    ASSUME TypeOK, CargoOK, NEW c \in Consumers, NEW p \in Unstarted,
           Leaves(c, p)
    PROVE  CargoOK'
<1> USE DEF CargoOK
<1>1. \A x \in Messages :
        where'[x] = IF x \in Elements(batch[c]) THEN p ELSE where[x]
    BY MoveWhere DEF Leaves, NextIteration
<1>2. \A d \in Consumers :
        /\ \A x \in Messages :
             x \in Elements(batch'[d]) <=> x \in Elements(batch[d]) /\ d # c
        /\ pc'[d] = IF d = c THEN "get" ELSE pc[d]
        /\ pc'[d] = "get" => batch'[d] = <<>>
    BY EmptyQueue DEF Leaves, NextIteration, TypeOK, PlacesOK
<1>3. PlacesOK'
    BY <1>1, <1>2 DEF PlacesOK, Leaves
<1>4. FoundOK'
    BY <1>1, <1>2 DEF FoundOK, Leaves, Unstarted
<1>5. HomeOK'
    BY <1>2 DEF HomeOK, Leaves
<1> QED
    BY <1>3, <1>4, <1>5

LEMMA BeginsKeeps ==
    ASSUME TypeOK, CargoOK, NEW c \in Consumers, Begins(c)
    PROVE  CargoOK'
<1> USE DEF CargoOK
<1>1. \A x \in Messages :
        where'[x] = IF x \in Elements(batch[c]) THEN "started" ELSE where[x]
    BY MoveWhere DEF Begins
<1>2. \A d \in Consumers : pc'[d] = IF d = c THEN "stream" ELSE pc[d]
    BY DEF Begins, TypeOK
<1>3. PlacesOK'
    BY <1>1, <1>2 DEF PlacesOK, Begins
<1>4. FoundOK'
    BY <1>1 DEF FoundOK, Begins
<1>5. HomeOK'
    BY DEF HomeOK, Begins
<1> QED
    BY <1>3, <1>4, <1>5

LEMMA FinishesKeeps ==
    ASSUME TypeOK, CargoOK, NEW c \in Consumers, Finishes(c)
    PROVE  CargoOK'
<1> USE DEF CargoOK
<1>1. \A d \in Consumers :
        /\ \A x \in Messages :
             x \in Elements(batch'[d]) <=> x \in Elements(batch[d]) /\ d # c
        /\ pc'[d] = IF d = c THEN "get" ELSE pc[d]
        /\ pc'[d] = "get" => batch'[d] = <<>>
    BY EmptyQueue DEF Finishes, TypeOK, PlacesOK
<1>2. \A x \in Messages : x \in Elements(batch[c]) => where[x] = "started"
    BY DEF PlacesOK, Finishes
<1>3. PlacesOK'
    BY <1>1 DEF PlacesOK, Finishes
<1>4. FoundOK'
    BY <1>1, <1>2 DEF FoundOK, Finishes
<1>5. HomeOK'
    BY <1>1 DEF HomeOK, Finishes
<1> QED
    BY <1>3, <1>4, <1>5

LEMMA CargoNext ==
    ASSUME TypeOK, KeysOK, CargoOK, [Next]_vars
    PROVE  CargoOK'
<1>1. CargoStep
    BY EveryStepCargo DEF CargoOK
<1>2. CASE UNCHANGED cargo
    BY <1>2 DEF cargo, CargoOK, PlacesOK, FoundOK, HomeOK
<1> QED
    BY <1>1, <1>2, AcceptsKeeps, ResumesKeeps, GivesUpKeeps, ClearsKeeps,
       TakesOneKeeps, TakesAllKeeps, LeavesKeeps, BeginsKeeps, FinishesKeeps,
       AbandonsKeeps
    DEF CargoStep

-----------------------------------------------------------------------------
(* Who has messages waiting will come to read them *)

LEMMA ReadersInit == Init => ReadersOK
  BY QueueConstants DEF Init, ManagerInit, ReadersOK

LEMMA ReadersManager ==
    ASSUME TypeOK, KeysOK, ReadersOK, ManagerNext, UNCHANGED dispatchVars
    PROVE  ReadersOK'
<1> USE QueueConstants
    DEF ReadersOK, TypeOK, ManagerTypeOK, Live, sweepVars, queueVars
<1>1. ASSUME NEW m \in Messages, EnqueueExisting(m)
      PROVE  ReadersOK'
  <2> DEFINE c == registry[Session[m]]
  <2>1. Session[m] \in Keys /\ registry[Session[m]] # None /\ c \in Consumers
    BY <1>1 DEF EnqueueExisting
  <2>2. stopping = "no" => Live(c) /\ ~cancel[c]
    BY <2>1
  <2>3. /\ stale' = [stale EXCEPT ![c] = FALSE]
        /\ UNCHANGED <<registry, task, cancel, misjudged, stopping>>
    BY <1>1 DEF EnqueueExisting
  <2>4. \A d \in Consumers : d # c =>
          queue'[d] = queue[d] /\ putters'[d] = putters[d]
    BY <1>1, <2>1 DEF EnqueueExisting, Put
  <2> HIDE DEF c
  <2> QED
    BY <2>1, <2>2, <2>3, <2>4
<1>2. ASSUME NEW m \in Messages, NEW c \in Consumers, EnqueueCreates(m, c)
      PROVE  ReadersOK'
  <2>1. ~cancel[c] /\ ~stale[c]
    BY <1>2 DEF EnqueueCreates, KeysOK
  <2>2. \A d \in Consumers : d # c =>
          queue'[d] = queue[d] /\ putters'[d] = putters[d]
    BY <1>2 DEF EnqueueCreates, Put
  <2>3. /\ registry' = [registry EXCEPT ![Session[m]] = c]
        /\ task' = [task EXCEPT ![c] = "created"]
        /\ UNCHANGED <<stale, cancel, misjudged, stopping>>
    BY <1>2 DEF EnqueueCreates
  <2>4. /\ \A k \in Keys : registry'[k] = c \/ registry'[k] = registry[k]
        /\ Live(c)' /\ \A d \in Consumers : d # c => task'[d] = task[d]
    BY <2>3
  <2>5. \A d \in Consumers : stale'[d] => putters'[d] = {}
    BY <2>1, <2>2, <2>3
  <2>6. stopping = "no" => \A k \in Keys : registry'[k] # None =>
          /\ task'[registry'[k]] \in {"created", "running"}
          /\ ~cancel'[registry'[k]]
    BY <2>1, <2>3, <2>4
  <2>7. stopping = "no" => \A d \in Consumers \ misjudged :
          cancel'[d] \/ task'[d] \notin {"created", "running"}
            => queue'[d] = <<>> /\ putters'[d] = {}
    BY <2>1, <2>2, <2>3, <2>4
  <2> QED
    BY <2>3, <2>5, <2>6, <2>7
<1>3. ASSUME NEW m \in Messages, NEW c \in Consumers,
             PutResumes(m, c) \/ PutTimesOut(m, c)
      PROVE  ReadersOK'
  <2>1. stopping = "no" /\ c \notin misjudged => Live(c) /\ ~cancel[c]
    BY <1>3 DEF PutResumes, PutTimesOut
  <2>2. \A d \in Consumers : d # c =>
          queue'[d] = queue[d] /\ putters'[d] = putters[d]
    BY <1>3 DEF PutResumes, PutTimesOut
  <2>3. /\ putters[c] # {}
        /\ UNCHANGED <<registry, stale, task, cancel, misjudged, stopping>>
    BY <1>3 DEF PutResumes, PutTimesOut
  <2> QED
    BY <2>1, <2>2, <2>3
<1>4. ASSUME NEW k \in Keys, ClearQueue(k)
      PROVE  ReadersOK'
    BY <1>4 DEF ClearQueue
<1>5. ASSUME NEW k \in Keys, Sweep(k) \/ SweepNext(k)
      PROVE  ReadersOK'
  <2> DEFINE c == registry[k]
  <2>1. /\ registry[k] # None /\ c \in Consumers
        /\ registry' = [registry EXCEPT ![k] = None]
        /\ cancel' = [cancel EXCEPT ![c] = TRUE]
        /\ UNCHANGED <<queue, putters, stale, task, stopping>>
    BY <1>5 DEF Sweep, SweepNext, PopAndCancel, IdleKeys
  <2>2. /\ misjudged \subseteq misjudged'
        /\ c \notin misjudged' => queue[c] = <<>> /\ putters[c] = {}
    BY <1>5 DEF Sweep, SweepNext, IdleKeys
  <2>3. \A l \in Keys : registry[l] = c => l = k
    BY <2>1 DEF KeysOK
  <2> HIDE DEF c
  <2> QED
    BY <2>1, <2>2, <2>3
<1>6. CASE SweepDone
    BY <1>6 DEF SweepDone
<1>7. CASE \/ StopCancelsEnqueues \/ StopCancelsSweeper
           \/ StopCancelsConsumers \/ StopEnds
    BY <1>7 DEF StopCancelsEnqueues, StopCancelsSweeper, StopCancelsConsumers,
                StopEnds
<1> QED
    BY <1>1, <1>2, <1>3, <1>4, <1>5, <1>6, <1>7 DEF ManagerNext

LEMMA ReadersConsumer ==
    ASSUME TypeOK, KeysOK, ReadersOK, NEW c \in Consumers, ConsumerStep(c)
    PROVE  ReadersOK'
<1> USE QueueConstants
    DEF ReadersOK, TypeOK, ManagerTypeOK, Live, sweepVars, queueVars
<1>1. CASE CGet(c)
  <2>1. /\ \A d \in Consumers : d # c => queue'[d] = queue[d]
        /\ task[c] = "running" /\ ~cancel[c]
        /\ UNCHANGED <<registry, putters, stale, task,
                      cancel, misjudged, stopping>>
    BY <1>1 DEF CGet, TakeAll, At
  <2> QED
    BY <2>1
<1>2. CASE CDrain(c)
  <2>1. /\ \A d \in Consumers : d # c => queue'[d] = queue[d]
        /\ task[c] = "running" /\ ~cancel[c]
        /\ UNCHANGED <<registry, putters, stale, task,
                      cancel, misjudged, stopping>>
    BY <1>2 DEF CDrain, TakeAll, At
  <2> QED
    BY <2>1
<1>3. CASE CFails(c) \/ CStarts(c)
    BY <1>3 DEF CFails, CStarts
<1>4. CASE CSkips(c) \/ CIgnores(c) \/ CStreamEnds(c)
  <2>1. \A d \in Consumers : stale'[d] => stale[d]
    BY <1>4, ProcessedTyped DEF CSkips, CIgnores, CStreamEnds
  <2> QED
    BY <1>4, <2>1 DEF CSkips, CIgnores, CStreamEnds
<1>5. CASE CSwallows(c)
  <2>1. \A d \in Consumers : stale'[d] => stale[d]
    BY <1>5, ProcessedTyped DEF CSwallows
  <2>2. stopping = "no" => \A k \in Keys : registry[k] # c
    BY <1>5 DEF CSwallows
  <2> QED
    BY <1>5, <2>1, <2>2 DEF CSwallows
<1>6. CASE CBreaks(c)
  <2>1. /\ cancel[c] /\ task' = [task EXCEPT ![c] = "done"]
        /\ cancel' = [cancel EXCEPT ![c] = FALSE]
        /\ registry' = [registry EXCEPT ![keyOf[c]] = None]
        /\ UNCHANGED <<queue, putters, stale, misjudged, stopping>>
    BY <1>6 DEF CBreaks, ConsumerExits
  <2>2. stopping = "no" => \A k \in Keys : registry[k] # c
    BY <2>1
  <2>3. \A k \in Keys : registry'[k] \in {registry[k], None}
    BY <2>1
  <2> QED
    BY <2>1, <2>2, <2>3
<1>7. CASE ConsumerStarts(c)
    BY <1>7 DEF ConsumerStarts
<1>8. CASE ConsumerNeverStarts(c)
  <2>1. stopping = "no" => \A k \in Keys : registry[k] # c
    BY <1>8 DEF ConsumerNeverStarts
  <2> QED
    BY <1>8, <2>1 DEF ConsumerNeverStarts
<1> QED
    BY <1>1, <1>2, <1>3, <1>4, <1>5, <1>6, <1>7, <1>8 DEF ConsumerStep

LEMMA ReadersNext ==
    ASSUME TypeOK, KeysOK, ReadersOK, [Next]_vars
    PROVE  ReadersOK'
<1> USE DEF vars, mgrVars, queueVars, sweepVars, dispatchVars
<1>1. ASSUME NEW c \in Consumers, TimePasses(c)
      PROVE  ReadersOK'
    BY <1>1
    DEF TimePasses, GoesStale, ReadersOK, Live, TypeOK, ManagerTypeOK
<1>2. CASE (\E k \in Keys : RunStep(k)) \/ BeginSwap \/ EndSwap
    BY <1>2 DEF RunStep, RunBegins, RunEnds, RunStruck, BeginSwap, EndSwap,
                ReadersOK, Live
<1>3. CASE UNCHANGED vars
    BY <1>3 DEF ReadersOK, Live
<1> QED
    BY <1>1, <1>2, <1>3, ReadersManager, ReadersConsumer DEF Next

-----------------------------------------------------------------------------
(* Until the first sweep a key has one consumer *)

LEMMA SoleInit == Init => SoleOK
  BY DEF Init, ManagerInit, SoleOK, Live

LEMMA SoleManager ==
    ASSUME TypeOK, KeysOK, SoleOK, ManagerNext, UNCHANGED dispatchVars
    PROVE  SoleOK'
<1> USE QueueConstants
    DEF SoleOK, TypeOK, ManagerTypeOK, Live, sweepVars, queueVars
<1>1. ASSUME NEW m \in Messages, EnqueueExisting(m)
      PROVE  SoleOK'
    BY <1>1 DEF EnqueueExisting
<1>2. ASSUME NEW m \in Messages, NEW c \in Consumers, EnqueueCreates(m, c)
      PROVE  SoleOK'
  <2>1. /\ registry[Session[m]] = None /\ stopping # "stopped"
        /\ registry' = [registry EXCEPT ![Session[m]] = c]
        /\ keyOf' = [keyOf EXCEPT ![c] = Session[m]]
        /\ task' = [task EXCEPT ![c] = "created"]
        /\ UNCHANGED <<sweeper, sweeps, stopping>>
    BY <1>2 DEF EnqueueCreates, Arrives
  <2>2. sweeps = 0 => \A d \in Consumers : Live(d) => keyOf[d] # Session[m]
    BY <2>1
  <2> QED
    BY <2>1, <2>2
<1>3. ASSUME NEW m \in Messages, NEW c \in Consumers,
             PutResumes(m, c) \/ PutTimesOut(m, c)
      PROVE  SoleOK'
    BY <1>3 DEF PutResumes, PutTimesOut
<1>4. ASSUME NEW k \in Keys, Sweep(k) \/ SweepNext(k)
      PROVE  SoleOK'
    BY <1>4 DEF Sweep, SweepNext
<1>5. CASE StopEnds
    BY <1>5 DEF StopEnds
<1>6. CASE \/ (\E k \in Keys : ClearQueue(k)) \/ SweepDone
           \/ StopCancelsEnqueues \/ StopCancelsSweeper \/ StopCancelsConsumers
    BY <1>6 DEF ClearQueue, SweepDone, StopCancelsEnqueues, StopCancelsSweeper,
                StopCancelsConsumers
<1> QED
    BY <1>1, <1>2, <1>3, <1>4, <1>5, <1>6 DEF ManagerNext

LEMMA SoleConsumer ==
    ASSUME TypeOK, KeysOK, SoleOK, NEW c \in Consumers, ConsumerStep(c)
    PROVE  SoleOK'
<1> USE DEF SoleOK, TypeOK, ManagerTypeOK, Live, sweepVars, queueVars
<1>1. CASE \/ CGet(c) \/ CDrain(c) \/ CFails(c) \/ CSkips(c) \/ CStarts(c)
           \/ CIgnores(c) \/ CStreamEnds(c) \/ CSwallows(c)
    BY <1>1 DEF CGet, CDrain, CFails, CSkips, CStarts, CIgnores, CStreamEnds,
                CSwallows
<1>2. CASE CBreaks(c)
  <2>1. /\ task[c] = "running" /\ task' = [task EXCEPT ![c] = "done"]
        /\ registry' = [registry EXCEPT ![keyOf[c]] = None]
        /\ UNCHANGED <<keyOf, sweeper, sweeps, stopping>>
    BY <1>2 DEF CBreaks, ConsumerExits
  <2>2. \A d \in Consumers : Live(d)' => Live(d) /\ d # c
    BY <2>1
  <2>3. sweeps = 0 => \A d \in Consumers : Live(d)' => keyOf[d] # keyOf[c]
    BY <2>1, <2>2
  <2>4. \A d \in Consumers :
          keyOf[d] # keyOf[c] => registry'[keyOf[d]] = registry[keyOf[d]]
    BY <2>1
  <2> QED
    BY <2>1, <2>2, <2>3, <2>4
<1>3. CASE ConsumerStarts(c) \/ ConsumerNeverStarts(c)
  <2>1. \A d \in Consumers : Live(d)' => Live(d)
    BY <1>3 DEF ConsumerStarts, ConsumerNeverStarts
  <2>2. UNCHANGED <<registry, keyOf, sweeper, sweeps, stopping>>
    BY <1>3 DEF ConsumerStarts, ConsumerNeverStarts
  <2> QED
    BY <2>1, <2>2
<1> QED
    BY <1>1, <1>2, <1>3 DEF ConsumerStep

LEMMA SoleNext ==
    ASSUME TypeOK, KeysOK, SoleOK, [Next]_vars
    PROVE  SoleOK'
<1> USE DEF vars, mgrVars, queueVars, sweepVars, dispatchVars
<1>1. ASSUME NEW c \in Consumers, TimePasses(c)
      PROVE  SoleOK'
    BY <1>1 DEF TimePasses, GoesStale, SoleOK, Live
<1>2. CASE (\E k \in Keys : RunStep(k)) \/ BeginSwap \/ EndSwap
    BY <1>2 DEF RunStep, RunBegins, RunEnds, RunStruck, BeginSwap, EndSwap,
                SoleOK, Live
<1>3. CASE UNCHANGED vars
    BY <1>3 DEF SoleOK, Live
<1> QED
    BY <1>1, <1>2, <1>3, SoleManager, SoleConsumer DEF Next

-----------------------------------------------------------------------------
(* How many consumers a key has.  A stray is alive and not the registered one *)
(* of its key.  Only a removal by the sweep makes one more of them: a late    *)
(* finally clause that makes a stray of the successor ends a stray itself.    *)

Own(k) == {c \in Consumers : keyOf[c] = k /\ Live(c)}

Strays(k) == {c \in Consumers : keyOf[c] = k /\ Live(c) /\ registry[k] # c}

AtMost(S, n) == IsFiniteSet(S) /\ Cardinality(S) <= n

\* A key that the running round of the sweep has yet to remove has a stray less.
Allowance(k) == IF k \in toClean THEN sweeps - 1 ELSE sweeps

CountOK ==
    /\ sweeper # "waiting" => toClean = {}
    /\ \A k \in Keys :
         /\ AtMost(Own(k), 1 + sweeps)
         /\ stopping # "stopped" => AtMost(Strays(k), Allowance(k))

LEMMA AtMostFewer ==
    ASSUME NEW S, NEW n \in Int, AtMost(S, n), NEW T \in SUBSET S,
           NEW m \in Int, n <= m
    PROVE  AtMost(T, m)
<1>1. /\ IsFiniteSet(T) /\ Cardinality(T) <= Cardinality(S)
      /\ Cardinality(T) \in Nat /\ Cardinality(S) \in Nat
    BY FS_Subset, FS_CardinalityType DEF AtMost
<1> QED
    BY <1>1 DEF AtMost

LEMMA AtMostOneMore ==
    ASSUME NEW S, NEW n \in Int, AtMost(S, n), NEW x,
           NEW T \in SUBSET (S \cup {x})
    PROVE  AtMost(T, n + 1)
<1>1. /\ IsFiniteSet(S \cup {x})
      /\ Cardinality(S \cup {x}) \in {Cardinality(S), Cardinality(S) + 1}
      /\ Cardinality(S) \in Nat
    BY FS_AddElement, FS_CardinalityType DEF AtMost
<1>2. AtMost(S \cup {x}, n + 1)
    BY <1>1 DEF AtMost
<1> QED
    BY <1>2, AtMostFewer

LEMMA AtMostExchanged ==
    ASSUME NEW S, NEW n \in Int, AtMost(S, n), NEW y \in S, NEW x,
           NEW T \in SUBSET ((S \ {y}) \cup {x})
    PROVE  AtMost(T, n)
<1>1. /\ IsFiniteSet(S \ {y}) /\ Cardinality(S \ {y}) = Cardinality(S) - 1
      /\ Cardinality(S) \in Nat
    BY FS_RemoveElement, FS_CardinalityType DEF AtMost
<1>2. AtMost(S \ {y}, n - 1)
    BY <1>1 DEF AtMost
<1>3. AtMost(T, (n - 1) + 1)
    BY <1>2, AtMostOneMore
<1> QED
    BY <1>3

LEMMA CountInit == Init => CountOK
<1> SUFFICES ASSUME Init
             PROVE  CountOK
    OBVIOUS
<1>1. \A k \in Keys : Own(k) = {} /\ Strays(k) = {}
    BY DEF Init, ManagerInit, Own, Strays, Live
<1>2. AtMost({}, 0) /\ AtMost({}, 1)
    BY FS_EmptySet DEF AtMost
<1>3. sweeps = 0 /\ toClean = {}
    BY DEF Init, ManagerInit
<1> QED
    BY <1>1, <1>2, <1>3 DEF CountOK, Allowance

\* The number of strays bounds that of the consumers, while any are created.
LEMMA CountByStrays ==
    ASSUME TypeOK', (sweeper # "waiting" => toClean = {})',
           \A k \in Keys : AtMost(Strays(k)', Allowance(k)')
    PROVE  CountOK'
<1> SUFFICES ASSUME NEW k \in Keys
             PROVE  AtMost(Own(k)', (1 + sweeps)')
    BY DEF CountOK
<1>1. sweeps' \in Nat /\ Allowance(k)' \in Int /\ Allowance(k)' <= sweeps'
  <2>1. sweeps' \in Nat
    BY QueueConstants DEF TypeOK, ManagerTypeOK
  <2>2. Allowance(k)' \in {sweeps', sweeps' - 1}
    BY DEF Allowance
  <2> QED
    BY <2>1, <2>2
<1>2. Own(k)' \subseteq Strays(k)' \cup {registry'[k]}
    BY DEF Own, Strays
<1>3. AtMost(Own(k)', Allowance(k)' + 1)
    BY <1>1, <1>2, AtMostOneMore
<1> QED
    BY <1>1, <1>3, AtMostFewer

\* Steps that create no consumer and make no stray.
LEMMA CountQuiet ==
    ASSUME TypeOK, TypeOK', CountOK,
           sweeps' = sweeps, toClean' \subseteq toClean,
           sweeper' # "waiting" => toClean' = {},
           \A k \in Keys : Own(k)' \subseteq Own(k),
           stopping' # "stopped" =>
             /\ stopping # "stopped"
             /\ \A k \in Keys : Strays(k)' \subseteq Strays(k)
    PROVE  CountOK'
<1> SUFFICES ASSUME NEW k \in Keys
             PROVE  /\ AtMost(Own(k)', (1 + sweeps)')
                    /\ stopping' # "stopped" =>
                         AtMost(Strays(k)', Allowance(k)')
    BY DEF CountOK
<1>1. /\ 1 + sweeps \in Int /\ Allowance(k) \in Int /\ Allowance(k)' \in Int
      /\ Allowance(k) <= Allowance(k)'
    BY QueueConstants DEF TypeOK, ManagerTypeOK, Allowance
<1>2. AtMost(Own(k)', (1 + sweeps)')
    BY <1>1, AtMostFewer DEF CountOK
<1>3. ASSUME stopping' # "stopped"
      PROVE  AtMost(Strays(k)', Allowance(k)')
    BY <1>1, <1>3, AtMostFewer DEF CountOK
<1> QED
    BY <1>2, <1>3

LEMMA CountManager ==
    ASSUME TypeOK, TypeOK', KeysOK, CountOK, ManagerNext, UNCHANGED dispatchVars
    PROVE  CountOK'
<1> USE DEF sweepVars, queueVars
<1>1. ASSUME NEW m \in Messages, NEW c \in Consumers, EnqueueCreates(m, c)
      PROVE  CountOK'
  <2>1. /\ registry[Session[m]] = None /\ stopping # "stopped"
        /\ task[c] = "absent" /\ keyOf[c] = None
        /\ registry' = [registry EXCEPT ![Session[m]] = c]
        /\ keyOf' = [keyOf EXCEPT ![c] = Session[m]]
        /\ task' = [task EXCEPT ![c] = "created"]
        /\ UNCHANGED <<toClean, sweeps, sweeper>>
    BY <1>1 DEF EnqueueCreates, Arrives, KeysOK
  <2>2. Session[m] \in Keys /\ None \notin Consumers \cup Keys
    BY QueueConstants
  <2>3. \A k \in Keys : Strays(k)' \subseteq Strays(k)
    BY <2>1, <2>2 DEF Strays, Live, TypeOK, ManagerTypeOK
  <2>4. \A k \in Keys : /\ Allowance(k)' = Allowance(k) /\ Allowance(k) \in Int
                        /\ AtMost(Strays(k), Allowance(k))
    BY <2>1, QueueConstants DEF Allowance, CountOK, TypeOK, ManagerTypeOK
  <2> QED
    BY <2>1, <2>3, <2>4, AtMostFewer, CountByStrays DEF CountOK
<1>2. ASSUME NEW k \in Keys, Sweep(k) \/ SweepNext(k)
      PROVE  CountOK'
  <2>1. /\ registry[k] # None
        /\ registry' = [registry EXCEPT ![k] = None]
        /\ UNCHANGED <<keyOf, task, stopping>> /\ sweeper' = "waiting"
    BY <1>2 DEF Sweep, SweepNext, IdleKeys, PopAndCancel
  <2>2. stopping # "stopped" \/ stopping' = "stopped"
    BY <2>1
  <2>3. /\ \A j \in Keys : Own(j)' = Own(j)
        /\ Strays(k)' \subseteq Strays(k) \cup {registry[k]}
        /\ \A j \in Keys \ {k} : Strays(j)' \subseteq Strays(j)
    BY <2>1 DEF Own, Strays, Live, TypeOK, ManagerTypeOK
  <2>4. /\ sweeps \in Nat /\ sweeps' \in Nat /\ sweeps <= sweeps'
        /\ Allowance(k) \in Int /\ Allowance(k)' = Allowance(k) + 1
        /\ \A j \in Keys \ {k} : /\ Allowance(j) \in Int /\ Allowance(j)' \in Int
                                 /\ Allowance(j) <= Allowance(j)'
    <3>1. sweeps \in Nat /\ sweeps' \in Nat
      BY QueueConstants DEF TypeOK, ManagerTypeOK
    <3>2. CASE Sweep(k)
      <4>1. sweeps' = sweeps + 1 /\ toClean' = IdleKeys \ {k} /\ toClean = {}
        BY <3>2 DEF Sweep, CountOK
      <4> QED
        BY <3>1, <4>1 DEF Allowance
    <3>3. CASE SweepNext(k)
      <4>1. sweeps' = sweeps /\ toClean' = toClean \ {k} /\ k \in toClean
        BY <3>3 DEF SweepNext
      <4> QED
        BY <3>1, <4>1 DEF Allowance
    <3> QED
      BY <1>2, <3>2, <3>3
  <2>5. \A j \in Keys : AtMost(Own(j)', (1 + sweeps)')
    BY <2>3, <2>4, AtMostFewer DEF CountOK
  <2>6. ASSUME stopping # "stopped", NEW j \in Keys
        PROVE  AtMost(Strays(j)', Allowance(j)')
    <3>1. AtMost(Strays(j), Allowance(j))
      BY <2>6 DEF CountOK
    <3>2. CASE j = k
      <4>1. AtMost(Strays(k)', Allowance(k) + 1)
        BY <2>3, <2>4, <3>1, <3>2, AtMostOneMore
      <4> QED
        BY <2>4, <3>2, <4>1
    <3>3. CASE j # k
      <4>1. /\ Strays(j)' \subseteq Strays(j)
            /\ Allowance(j) \in Int /\ Allowance(j)' \in Int
            /\ Allowance(j) <= Allowance(j)'
        BY <2>3, <2>4, <3>3
      <4> QED
        BY <3>1, <4>1, AtMostFewer
    <3> QED
      BY <3>2, <3>3
  <2> QED
    BY <2>1, <2>5, <2>6 DEF CountOK
<1>3. ASSUME NEW m \in Messages, \/ EnqueueExisting(m)
                                \/ \E c \in Consumers : \/ PutResumes(m, c)
                                                        \/ PutTimesOut(m, c)
      PROVE  CountOK'
  <2>1. UNCHANGED <<registry, keyOf, task, toClean, sweeps, stopping, sweeper>>
    BY <1>3 DEF EnqueueExisting, PutResumes, PutTimesOut
  <2> QED
    BY <2>1, CountQuiet DEF Own, Strays, Live, CountOK
<1>4. CASE \/ (\E k \in Keys : ClearQueue(k)) \/ SweepDone
           \/ StopCancelsEnqueues \/ StopCancelsSweeper \/ StopCancelsConsumers
           \/ StopEnds
  <2>1. /\ UNCHANGED <<keyOf, task, sweeps>> /\ toClean' \subseteq toClean
        /\ sweeper' # "waiting" => toClean' = {}
        /\ stopping' # "stopped" => stopping # "stopped" /\ registry' = registry
    BY <1>4 DEF ClearQueue, SweepDone, StopCancelsEnqueues, StopCancelsSweeper,
                StopCancelsConsumers, StopEnds, CountOK
  <2> QED
    BY <2>1, CountQuiet DEF Own, Strays, Live, CountOK
<1> QED
    BY <1>1, <1>2, <1>3, <1>4 DEF ManagerNext

LEMMA CountConsumer ==
    ASSUME TypeOK, TypeOK', KeysOK, CountOK, NEW c \in Consumers,
           ConsumerStep(c)
    PROVE  CountOK'
<1> USE DEF sweepVars, queueVars
<1>1. CASE \/ CGet(c) \/ CDrain(c) \/ CFails(c) \/ CSkips(c) \/ CStarts(c)
           \/ CIgnores(c) \/ CStreamEnds(c) \/ CSwallows(c)
  <2>1. UNCHANGED <<registry, keyOf, task, toClean, sweeps, stopping, sweeper>>
    BY <1>1 DEF CGet, CDrain, CFails, CSkips, CStarts, CIgnores, CStreamEnds,
                CSwallows
  <2> QED
    BY <2>1, CountQuiet DEF Own, Strays, Live, CountOK
<1>2. CASE ConsumerStarts(c) \/ ConsumerNeverStarts(c)
  <2>1. /\ UNCHANGED <<registry, keyOf, toClean, sweeps, stopping, sweeper>>
        /\ \A d \in Consumers : Live(d)' => Live(d)
    BY <1>2 DEF ConsumerStarts, ConsumerNeverStarts, Live, TypeOK, ManagerTypeOK
  <2> QED
    BY <2>1, CountQuiet DEF Own, Strays, CountOK
<1>3. CASE CBreaks(c)
  <2>1. PICK k \in Keys : k = keyOf[c]
    BY <1>3 DEF CBreaks, KeysOK, TypeOK, ManagerTypeOK
  <2>2. /\ task[c] = "running" /\ task' = [task EXCEPT ![c] = "done"]
        /\ registry' = [registry EXCEPT ![k] = None]
        /\ UNCHANGED <<keyOf, toClean, sweeps, stopping, sweeper>>
    BY <1>3, <2>1 DEF CBreaks, ConsumerExits
  <2>3. /\ \A j \in Keys : Own(j)' \subseteq Own(j)
        /\ \A j \in Keys \ {k} : Strays(j)' \subseteq Strays(j)
        /\ Strays(k)' \subseteq (Strays(k) \ {c}) \cup ({registry[k]} \ {c})
    BY <2>1, <2>2 DEF Own, Strays, Live, TypeOK, ManagerTypeOK
  <2>4. registry[k] # c => c \in Strays(k)
    BY <2>1, <2>2 DEF Strays, Live
  <2>5. sweeps \in Nat /\ \A j \in Keys : Allowance(j) \in Int
                                         /\ Allowance(j)' = Allowance(j)
    BY <2>2, QueueConstants DEF TypeOK, ManagerTypeOK, Allowance
  <2>6. \A j \in Keys : AtMost(Own(j)', (1 + sweeps)')
    BY <2>2, <2>3, <2>5, AtMostFewer DEF CountOK
  <2>7. ASSUME stopping # "stopped", NEW j \in Keys
        PROVE  AtMost(Strays(j)', Allowance(j)')
    <3>1. AtMost(Strays(j), Allowance(j))
      BY <2>7 DEF CountOK
    <3>2. CASE j # k \/ registry[k] = c
      <4>1. Strays(j)' \subseteq Strays(j)
        BY <2>3, <3>2
      <4> QED
        BY <2>5, <3>1, <4>1, AtMostFewer
    <3>3. CASE j = k /\ registry[k] # c
      <4>1. c \in Strays(j)
            /\ Strays(j)' \in SUBSET ((Strays(j) \ {c}) \cup {registry[k]})
        BY <2>3, <2>4, <3>3
      <4>2. Allowance(j) \in Int
        BY <2>5
      <4>3. AtMost(Strays(j)', Allowance(j))
        BY <3>1, <4>1, <4>2, AtMostExchanged
      <4> QED
        BY <2>5, <4>3
    <3> QED
      BY <3>2, <3>3
  <2> QED
    BY <2>2, <2>6, <2>7 DEF CountOK
<1> QED
    BY <1>1, <1>2, <1>3 DEF ConsumerStep

LEMMA CountNext ==
    ASSUME TypeOK, KeysOK, CountOK, [Next]_vars
    PROVE  CountOK'
<1> USE DEF vars, mgrVars, queueVars, sweepVars, dispatchVars
<1>1. TypeOK'
    BY NextType
<1>2. ASSUME \/ UNCHANGED vars
             \/ \E c \in Consumers : TimePasses(c)
             \/ (\E k \in Keys : RunStep(k)) \/ BeginSwap \/ EndSwap
      PROVE  CountOK'
  <2>1. UNCHANGED <<registry, keyOf, task, toClean, sweeps, stopping, sweeper>>
    BY <1>2 DEF TimePasses, GoesStale, RunStep, RunBegins, RunEnds, RunStruck,
                BeginSwap, EndSwap
  <2> QED
    BY <1>1, <2>1, CountQuiet DEF Own, Strays, Live, CountOK
<1> QED
    BY <1>1, <1>2, CountManager, CountConsumer DEF Next

-----------------------------------------------------------------------------
(* Until the first sweep or shutdown nobody finds a run of somebody else *)

\* Only CIgnores ignores a message.
LEMMA IgnoredByMove ==
    ASSUME TypeOK, NoMessageIgnored, NEW S, NEW p, p # "ignored", Move(S, p)
    PROVE  NoMessageIgnored'
<1>1. \A m \in Messages : where'[m] = IF m \in S THEN p ELSE where[m]
    BY MoveWhere
<1> QED
    BY <1>1 DEF NoMessageIgnored

LEMMA CalmInit == Init => CalmOK
  BY DEF Init, ManagerInit, CalmOK, NoMessageIgnored

LEMMA CalmManager ==
    ASSUME TypeOK, KeysOK, SoleOK, CalmOK, ManagerNext, UNCHANGED dispatchVars
    PROVE  CalmOK'
<1> SUFFICES ASSUME sweeps' = 0, stopping' = "no"
             PROVE  CalmOK'
    BY DEF CalmOK
<1> USE DEF sweepVars, queueVars, dispatchVars
<1>1. ASSUME NEW m \in Messages, NEW c \in Consumers, Put(m, c),
             CalmOK
      PROVE  sweeps = 0 /\ stopping = "no" => NoMessageIgnored'
  <2>1. Move({m}, "queued") \/ Move({m}, "putting")
    BY <1>1 DEF Put
  <2> QED
    BY <1>1, <2>1, IgnoredByMove DEF CalmOK
<1>2. ASSUME NEW m \in Messages, EnqueueExisting(m)
      PROVE  CalmOK'
  <2>1. registry[Session[m]] \in Consumers /\ Put(m, registry[Session[m]])
    BY <1>2, QueueConstants DEF EnqueueExisting, TypeOK, ManagerTypeOK
  <2>2. sweeps = 0 /\ stopping = "no" => NoMessageIgnored'
    BY <1>1, <2>1
  <2> QED
    BY <1>2, <2>2 DEF EnqueueExisting, CalmOK
<1>3. ASSUME NEW m \in Messages, NEW c \in Consumers, EnqueueCreates(m, c)
      PROVE  CalmOK'
  <2>1. /\ task[c] = "absent" /\ keyOf[c] = None /\ pc[c] = "get"
        /\ sweeps = 0 /\ stopping = "no"
    BY <1>3 DEF EnqueueCreates, KeysOK, TypeOK
  <2>2. NoMessageIgnored'
    BY <1>1, <1>3, <2>1 DEF EnqueueCreates
  <2>3. \A k \in Keys : run[k] # None =>
          run[k] # c /\ keyOf'[run[k]] = k /\ pc[run[k]] = "stream"
    BY <1>3, <2>1 DEF EnqueueCreates, CalmOK, TypeOK, ManagerTypeOK
  <2>4. \A d \in Consumers : ~cancel'[d] /\ task'[d] # "done"
    BY <1>3, <2>1 DEF EnqueueCreates, CalmOK, TypeOK, ManagerTypeOK
  <2> QED
    BY <2>2, <2>3, <2>4 DEF CalmOK
<1>4. ASSUME NEW m \in Messages, NEW c \in Consumers,
             PutResumes(m, c) \/ PutTimesOut(m, c)
      PROVE  CalmOK'
  <2>1. Move({m}, "queued") \/ Move({m}, "timedout")
    BY <1>4 DEF PutResumes, PutTimesOut
  <2>2. sweeps = 0 /\ stopping = "no" => NoMessageIgnored'
    BY <2>1, IgnoredByMove DEF CalmOK
  <2> QED
    BY <1>4, <2>2 DEF PutResumes, PutTimesOut, CalmOK
<1>5. ASSUME NEW k \in Keys, ClearQueue(k)
      PROVE  CalmOK'
  <2>1. sweeps = 0 /\ stopping = "no" => NoMessageIgnored'
    BY <1>5, IgnoredByMove DEF CalmOK, ClearQueue
  <2> QED
    BY <1>5, <2>1 DEF ClearQueue, CalmOK
<1>6. ASSUME NEW k \in Keys, Sweep(k) \/ SweepNext(k)
      PROVE  CalmOK'
    BY <1>6 DEF Sweep, SweepNext, SoleOK, TypeOK, ManagerTypeOK
<1>7. CASE SweepDone
    BY <1>7 DEF SweepDone, SoleOK
<1>8. CASE \/ StopCancelsEnqueues \/ StopCancelsSweeper
           \/ StopCancelsConsumers \/ StopEnds
    BY <1>8 DEF StopCancelsEnqueues, StopCancelsSweeper, StopCancelsConsumers,
                StopEnds
<1> QED
    BY <1>2, <1>3, <1>4, <1>5, <1>6, <1>7, <1>8 DEF ManagerNext

LEMMA CalmConsumer ==
    ASSUME TypeOK, KeysOK, SoleOK, CalmOK, NEW c \in Consumers,
           ConsumerStep(c)
    PROVE  CalmOK'
<1>1. UNCHANGED <<sweeps, stopping>>
    BY DEF ConsumerStep, CGet, CDrain, CFails, CSkips, CStarts, CIgnores,
           CStreamEnds, CSwallows, CBreaks, ConsumerStarts,
           ConsumerNeverStarts, sweepVars
<1> SUFFICES ASSUME sweeps = 0, stopping = "no"
             PROVE  CalmOK'
    BY <1>1 DEF CalmOK
<1> USE <1>1 DEF sweepVars, queueVars, dispatchVars, At
<1>2. /\ \A d \in Consumers : ~cancel[d] /\ task[d] # "done"
      /\ \A k \in Keys : run[k] # None =>
           keyOf[run[k]] = k /\ pc[run[k]] = "stream"
      /\ NoMessageIgnored
    BY DEF CalmOK
\* The consumer at "prep" is the only one of its key, and streams nothing.
<1>3. pc[c] = "prep" => run[keyOf[c]] = None
  <2>1. SUFFICES ASSUME pc[c] = "prep", run[keyOf[c]] # None
                 PROVE  FALSE
    OBVIOUS
  <2> DEFINE d == run[keyOf[c]]
  <2>2. task[c] = "running" /\ keyOf[c] \in Keys /\ d \in Consumers
    BY <2>1 DEF KeysOK, TypeOK, ManagerTypeOK
  <2>3. keyOf[d] = keyOf[c] /\ pc[d] = "stream" /\ task[d] = "running"
    BY <1>2, <2>1, <2>2 DEF KeysOK
  <2> QED
    BY <2>1, <2>2, <2>3 DEF SoleOK, Live
<1>4. CASE CGet(c)
  <2>1. NoMessageIgnored'
    BY <1>2, <1>4, IgnoredByMove DEF CGet, TakeAll
  <2> QED
    BY <1>2, <1>4, <2>1 DEF CGet, TakeAll, CalmOK, TypeOK
<1>5. CASE CDrain(c)
  <2>1. NoMessageIgnored'
    BY <1>2, <1>5, IgnoredByMove DEF CDrain, TakeAll
  <2> QED
    BY <1>2, <1>5, <2>1 DEF CDrain, TakeAll, CalmOK, TypeOK
<1>6. CASE CFails(c) \/ CSkips(c)
  <2>1. NoMessageIgnored'
    BY <1>2, <1>6, IgnoredByMove DEF CFails, CSkips, NextIteration
  <2> QED
    BY <1>2, <1>6, <2>1 DEF CFails, CSkips, NextIteration, CalmOK, TypeOK
<1>7. CASE CStarts(c)
  <2>1. NoMessageIgnored'
    BY <1>2, <1>7, IgnoredByMove DEF CStarts
  <2>2. keyOf[c] \in Keys
    BY <1>7 DEF CStarts, KeysOK, TypeOK, ManagerTypeOK
  <2> QED
    BY <1>2, <1>7, <2>1, <2>2 DEF CStarts, CalmOK, TypeOK
<1>8. CASE CIgnores(c)
    BY <1>3, <1>8 DEF CIgnores
<1>9. CASE CStreamEnds(c)
  <2>1. \A k \in Keys : run[k] # None => run[k] # c
    BY <1>2, <1>9 DEF CStreamEnds
  <2>2. /\ pc' = [pc EXCEPT ![c] = "get"]
        /\ UNCHANGED <<keyOf, task, cancel, where, run>>
    BY <1>9 DEF CStreamEnds
  <2>3. NoMessageIgnored'
    BY <1>2, <2>2 DEF NoMessageIgnored
  <2> QED
    BY <1>2, <2>1, <2>2, <2>3 DEF CalmOK, TypeOK
<1>10. CASE CSwallows(c) \/ CBreaks(c) \/ ConsumerNeverStarts(c)
    BY <1>2, <1>10 DEF CSwallows, CBreaks, ConsumerNeverStarts
<1>11. CASE ConsumerStarts(c) /\ UNCHANGED dispatchVars
    BY <1>2, <1>11
    DEF ConsumerStarts, CalmOK, NoMessageIgnored, TypeOK, ManagerTypeOK
<1> QED
    BY <1>4, <1>5, <1>6, <1>7, <1>8, <1>9, <1>10, <1>11 DEF ConsumerStep

LEMMA CalmNext ==
    ASSUME TypeOK, KeysOK, SoleOK, CalmOK, [Next]_vars
    PROVE  CalmOK'
<1> USE DEF vars, mgrVars, queueVars, sweepVars, dispatchVars
<1>1. ASSUME NEW c \in Consumers, TimePasses(c)
      PROVE  CalmOK'
    BY <1>1 DEF TimePasses, GoesStale, CalmOK, NoMessageIgnored
<1>2. CASE (\E k \in Keys : RunStep(k)) \/ BeginSwap \/ EndSwap
  <2>1. /\ UNCHANGED <<sweeps, stopping, cancel, task, keyOf, pc, where>>
        /\ \A k \in Keys : run'[k] # None => run'[k] = run[k]
    BY <1>2 DEF RunStep, RunBegins, RunEnds, RunStruck, BeginSwap, EndSwap,
                TypeOK
  <2> QED
    BY <2>1 DEF CalmOK, NoMessageIgnored
<1>3. CASE UNCHANGED vars
    BY <1>3 DEF CalmOK, NoMessageIgnored
<1> QED
    BY <1>1, <1>2, <1>3, CalmManager, CalmConsumer DEF Next

-----------------------------------------------------------------------------
(* The theorems *)

LEMMA DispatchInit == Init => DispatchInv
  BY InitType, KeysInit, CargoInit, ReadersInit, SoleInit, CalmInit
  DEF DispatchInv, CargoOK

LEMMA DispatchNext == DispatchInv /\ [Next]_vars => DispatchInv'
  BY NextType, KeysNext, CargoNext, ReadersNext, SoleNext, CalmNext
  DEF DispatchInv, CargoOK

\* The invariant holds in every state (UnifiedQueueManager, ChannelManager).
THEOREM DispatchInvariance == Spec => []DispatchInv
<1> QED
    BY DispatchInit, DispatchNext, PTL DEF Spec

\* The variables keep the values that the code can give them.
THEOREM DispatchTypes == Spec => []TypeOK
<1>1. DispatchInv => TypeOK
    BY DEF DispatchInv
<1> QED
    BY <1>1, DispatchInvariance, PTL

\* With sweeps, /stop, full queues, channel swaps and errors at any time: until
\* the shutdown a queued message is where somebody comes to read it, unless the
\* sweep removed its queue on the word of an old scan (_cleanup_idle_queues) or
\* its consumer hangs in the stream of a run that was stopped unbegun, and one
\* that was taken is in one batch.
THEOREM NothingStranded == Spec => []NoStranding
<1>1. ASSUME DispatchInv
      PROVE  NoStranding
  <2> SUFFICES ASSUME stopping = "no", NEW m \in Messages
               PROVE  /\ where[m] = "queued" =>
                           \E c \in Consumers :
                             /\ m \in Elements(queue[c])
                             /\ \/ /\ Live(c) /\ ~Hung(c)
                                   /\ cancel[c] => pc[c] = "stream"
                                \/ Hung(c)
                                \/ c \in misjudged
                      /\ where[m] = "taken" =>
                           \E c \in Consumers :
                             /\ m \in Elements(batch[c])
                             /\ \A d \in Consumers \ {c} :
                                  m \notin Elements(batch[d])
    BY DEF NoStranding
  <2>1. ASSUME NEW c \in Consumers, m \in Elements(queue[c]), c \notin misjudged
        PROVE  Live(c) /\ ~cancel[c]
    <3>1. queue[c] # <<>>
      BY <2>1, EmptyQueue
    <3> QED
      BY <1>1, <2>1, <3>1 DEF DispatchInv, ReadersOK
  <2>2. ASSUME NEW c \in Consumers, NEW d \in Consumers \ {c},
               m \in Elements(batch[c])
        PROVE  m \notin Elements(batch[d])
    BY <1>1, <2>2 DEF DispatchInv, PlacesOK
  <2> QED
    BY <1>1, <2>1, <2>2 DEF DispatchInv, FoundOK
<1> QED
    BY <1>1, DispatchInvariance, PTL

\* A key has one consumer, and at most one more for every round of the sweep,
\* however late a swept one ends (the finally clause of _run_consumer) and
\* whether or not it swallows its cancellation (stream_from_queue): with no
\* sweep, serialization is strict, through full queues, /stop, errors, channel
\* swaps and the shutdown.
THEOREM ConsumersAreBounded == Spec => []BoundedConsumers
<1>1. Init => DispatchInv /\ CountOK
    BY DispatchInit, CountInit
<1>2. DispatchInv /\ CountOK /\ [Next]_vars => DispatchInv' /\ CountOK'
    BY DispatchNext, CountNext DEF DispatchInv
<1>3. CountOK => BoundedConsumers
    BY DEF CountOK, BoundedConsumers, Own, AtMost
<1> QED
    BY <1>1, <1>2, <1>3, PTL DEF Spec

\* Until the first sweep or shutdown attach_or_start finds no run.
THEOREM NoneIgnoredUntilSweep ==
    Spec => [](sweeps = 0 /\ stopping = "no" => NoMessageIgnored)
<1>1. DispatchInv => (sweeps = 0 /\ stopping = "no" => NoMessageIgnored)
    BY DEF DispatchInv, CalmOK
<1> QED
    BY <1>1, DispatchInvariance, PTL

-----------------------------------------------------------------------------
(* The course of a message                                                   *)

\* Where a message can be next.
Course(p) ==
    CASE p = "new"     -> {"putting", "queued"}
      [] p = "putting" -> {"queued", "timedout", "lost"}
      [] p = "queued"  -> {"taken", "cleared"}
      [] p = "taken"   -> {"started"} \cup Unstarted
      [] OTHER         -> {}

Advances(m) == where'[m] = where[m] \/ where'[m] \in Course(where[m])

LEMMA CargoAdvances ==
    ASSUME TypeOK, CargoOK, CargoStep
    PROVE  \A m \in Messages : Advances(m)
<1> USE DEF CargoOK
<1> DEFINE Goal == \A m \in Messages : Advances(m)
<1>1. ASSUME NEW S, NEW p, Move(S, p),
             \A m \in Messages :
                m \in S => p = where[m] \/ p \in Course(where[m])
      PROVE  Goal
    BY <1>1, MoveWhere DEF Advances
<1>2. ASSUME where' = where PROVE Goal
    BY <1>2 DEF Advances
<1>3. ASSUME NEW x \in Messages, NEW c \in Consumers,
             Accepts(x, c) \/ Resumes(x, c) \/ GivesUp(x, c)
      PROVE  Goal
  <2>1. PICK p \in {"putting", "queued", "timedout"} :
          Move({x}, p) /\ p \in Course(where[x])
    BY <1>3 DEF Accepts, Put, Arrives, Resumes, PutResumes, GivesUp,
                PutTimesOut, Course, PlacesOK
  <2> HIDE DEF Goal
  <2> QED
    BY <1>1, <2>1
<1>4. ASSUME Abandons PROVE Goal
  <2>1. \A m \in Messages : m \in UNION {putters[c] : c \in Consumers}
          => "lost" \in Course(where[m])
    BY DEF Course, PlacesOK
  <2> HIDE DEF Goal
  <2> QED
    BY <1>1, <1>4, <2>1 DEF Abandons, StopCancelsEnqueues
<1>5. ASSUME NEW c \in Consumers, Clears(c) PROVE Goal
  <2>1. \A m \in Messages : m \in Elements(queue[c])
          => "cleared" \in Course(where[m])
    BY DEF Course, PlacesOK
  <2> HIDE DEF Goal
  <2> QED
    BY <1>1, <1>5, <2>1 DEF Clears
<1>6. ASSUME NEW c \in Consumers, TakesOne(c) PROVE Goal
  <2>1. Head(queue[c]) \in Elements(queue[c])
    <3>1. queue[c] \in Seq(Messages) /\ queue[c] # <<>>
      BY <1>6, CarriedTyped DEF TakesOne
    <3>2. Elements(queue[c]) = {Head(queue[c])} \cup Elements(Tail(queue[c]))
      BY <3>1, HeadElements
    <3> QED
      BY <3>2
  <2>2. \A m \in Messages : m \in {Head(queue[c])}
          => "taken" \in Course(where[m])
    BY <2>1 DEF Course, PlacesOK
  <2> HIDE DEF Goal
  <2> QED
    BY <1>1, <1>6, <2>2 DEF TakesOne
<1>7. ASSUME NEW c \in Consumers, TakesAll(c) PROVE Goal
  <2>1. Elements(batch[c] \o queue[c])
          = Elements(batch[c]) \cup Elements(queue[c])
    BY CarriedTyped, ConcatElements
  <2>2. \A m \in Messages : m \in Elements(queue[c]) => where[m] = "queued"
    BY DEF PlacesOK
  <2>3. \A m \in Messages : m \in Elements(batch[c]) => where[m] = "taken"
    BY <1>7 DEF TakesAll, PlacesOK
  <2>4. \A m \in Messages : m \in Elements(batch[c] \o queue[c])
          => "taken" = where[m] \/ "taken" \in Course(where[m])
    BY <2>1, <2>2, <2>3 DEF Course
  <2> HIDE DEF Goal
  <2> QED
    BY <1>1, <1>7, <2>4 DEF TakesAll, TakeAll
<1>8. ASSUME NEW c \in Consumers, Begins(c) PROVE Goal
  <2>1. \A m \in Messages : m \in Elements(batch[c])
          => "started" \in Course(where[m])
    BY <1>8 DEF Course, PlacesOK, Begins
  <2> HIDE DEF Goal
  <2> QED
    BY <1>1, <1>8, <2>1 DEF Begins
<1>9. ASSUME NEW c \in Consumers, NEW p \in Unstarted, Leaves(c, p) PROVE Goal
  <2>1. \A m \in Messages : m \in Elements(batch[c]) => p \in Course(where[m])
    BY <1>9 DEF Course, PlacesOK, Leaves
  <2> HIDE DEF Goal
  <2> QED
    BY <1>1, <1>9, <2>1 DEF Leaves, NextIteration
<1> HIDE DEF Goal
<1>10. ASSUME NEW c \in Consumers, Finishes(c) PROVE Goal
    BY <1>2, <1>10 DEF Finishes
<1>11. Goal
    BY <1>2, <1>3, <1>4, <1>5, <1>6, <1>7, <1>8, <1>9, <1>10
    DEF CargoStep, cargo
<1> QED
    BY <1>11 DEF Goal

\* Whatever sweeps, clear_queue, timeouts and the shutdown do, a message only
\* goes forward: it is queued once and taken once, and what has been started,
\* dropped, cleared or lost is never queued, taken or started again.
THEOREM HandledAtMostOnce ==
    Spec => [][\A m \in Messages : Advances(m)]_vars
<1>1. DispatchInv /\ [Next]_vars => [\A m \in Messages : Advances(m)]_vars
    BY EveryStepCargo, CargoAdvances DEF DispatchInv, CargoOK
<1> QED
    BY <1>1, DispatchInvariance, PTL DEF Spec

-----------------------------------------------------------------------------
(* The order of arrival, as long as no put() blocks *)

\* No put() is blocked.
Unblocked == \A c \in Consumers : putters[c] = {}

\* What the consumer has in hand but not started, and what is behind it.
Pipe(c) == IF pc[c] = "stream" THEN queue[c] ELSE batch[c] \o queue[c]

\* Messages come in the order of their numbers, and keep it.
OrderOK ==
    /\ \A m, n \in Messages : m < n /\ where[n] # "new" => where[m] # "new"
    /\ \A c \in Consumers : Increasing(Pipe(c))
    /\ sweeps = 0 /\ stopping = "no" =>
         \A m, n \in Messages :
             m < n /\ Session[m] = Session[n] /\ where[n] = "started"
               => where[m] \notin {"queued", "taken"}

LEMMA ConcatIncreasing ==
    ASSUME NEW s \in Seq(Messages), NEW t \in Seq(Messages), Increasing(s \o t)
    PROVE  /\ Increasing(s) /\ Increasing(t)
           /\ \A x \in Elements(s), y \in Elements(t) : x < y
<1> DEFINE u == s \o t
           m == Len(s)
           n == Len(t)
<1>1. /\ m \in Nat /\ n \in Nat
      /\ DOMAIN s = 1..m /\ DOMAIN t = 1..n /\ DOMAIN u = 1..m + n
      /\ \A i \in 1..m + n : u[i] = IF i <= m THEN s[i] ELSE t[i - m]
    BY ConcatProperties, LenProperties
<1>2. \A i, j \in 1..m + n : i < j => u[i] < u[j]
    BY <1>1 DEF Increasing
<1> HIDE DEF u, m, n
<1>3. \A i \in 1..m : i \in 1..m + n /\ u[i] = s[i]
    BY <1>1
<1>4. \A i \in 1..n : i + m \in 1..m + n /\ u[i + m] = t[i] /\ m < i + m
    BY <1>1
<1>5. \A i, j \in 1..m : i < j => s[i] < s[j]
    BY <1>2, <1>3
<1>6. \A i, j \in 1..n : i < j => i + m < j + m
    BY <1>1
<1>7. \A i, j \in 1..n : i < j => t[i] < t[j]
    BY <1>2, <1>4, <1>6
<1>8. \A i \in 1..m, j \in 1..n : i < j + m
    BY <1>1
<1>9. \A i \in 1..m, j \in 1..n : s[i] < t[j]
    BY <1>2, <1>3, <1>4, <1>8
<1> QED
    BY <1>1, <1>5, <1>7, <1>9 DEF Increasing, Elements

LEMMA AppendIncreasing ==
    ASSUME NEW s \in Seq(Messages), NEW t \in Seq(Messages),
           NEW e \in Messages, Increasing(s \o t),
           \A x \in Elements(s) \cup Elements(t) : x < e
    PROVE  Increasing(s \o Append(t, e))
<1> DEFINE u == s \o t
           a == Append(t, e)
           w == s \o a
           m == Len(s)
           n == Len(t)
<1>1. /\ m \in Nat /\ n \in Nat /\ DOMAIN u = 1..m + n
      /\ \A i \in 1..m + n : u[i] = IF i <= m THEN s[i] ELSE t[i - m]
      /\ \A i \in 1..m + n : u[i] < e
  <2>1. u \in Seq(Messages) /\ Elements(u) = Elements(s) \cup Elements(t)
    BY ConcatElements
  <2>2. \A i \in DOMAIN u : u[i] < e
    BY <2>1 DEF Elements
  <2> QED
    BY <2>1, <2>2, ConcatProperties, LenProperties
<1>2. /\ a \in Seq(Messages) /\ Len(a) = n + 1
      /\ \A i \in 1..n : a[i] = t[i]
      /\ a[n + 1] = e
    OBVIOUS
<1> HIDE DEF a
<1>3. /\ DOMAIN w = 1..m + (n + 1)
      /\ \A i \in 1..m + (n + 1) : w[i] = IF i <= m THEN s[i] ELSE a[i - m]
  <2>1. /\ w \in Seq(Messages) /\ Len(w) = m + Len(a)
        /\ \A i \in 1..m + Len(a) : w[i] = IF i <= m THEN s[i] ELSE a[i - m]
    BY <1>2, ConcatProperties
  <2> HIDE DEF w, m, n
  <2> QED
    BY <1>2, <2>1, LenProperties
<1>4. \A i, j \in 1..m + n : i < j => u[i] < u[j]
    BY <1>1 DEF Increasing
<1> HIDE DEF u, w, m, n
<1>5. ASSUME NEW i \in 1..m + n
      PROVE  i \in 1..m + (n + 1) /\ w[i] = u[i]
  <2>1. i \in 1..m + (n + 1) /\ (i <= m \/ i - m \in 1..n)
    BY <1>1
  <2> QED
    BY <1>1, <1>2, <1>3, <2>1
<1>6. w[m + (n + 1)] = e
    BY <1>1, <1>2, <1>3
<1>7. \A i \in 1..m + (n + 1) : i \in 1..m + n \/ i = m + (n + 1)
    BY <1>1
<1>8. \A i, j \in 1..m + (n + 1) : i < j => i \in 1..m + n
    BY <1>1
<1>9. \A i, j \in 1..m + (n + 1) : i < j => w[i] < w[j]
    BY <1>1, <1>4, <1>5, <1>6, <1>7, <1>8
<1> QED
    BY <1>3, <1>9 DEF Increasing, w, a

LEMMA HeadThenTail ==
    ASSUME NEW q \in Seq(Messages), q # <<>>
    PROVE  <<Head(q)>> \o Tail(q) = q
<1> DEFINE w == <<Head(q)>> \o Tail(q)
           n == Len(q)
<1>1. /\ Head(q) \in Messages /\ Tail(q) \in Seq(Messages)
      /\ n \in Nat \ {0} /\ Head(q) = q[1] /\ Len(Tail(q)) = n - 1
      /\ \A i \in 1..n - 1 : Tail(q)[i] = q[i + 1]
    BY HeadTailProperties, EmptySeq, LenProperties
<1>2. <<Head(q)>> \in Seq(Messages) /\ Len(<<Head(q)>>) = 1
    BY <1>1
<1>3. /\ w \in Seq(Messages) /\ Len(w) = 1 + (n - 1)
      /\ \A i \in 1..1 + (n - 1) :
           w[i] = IF i <= 1 THEN <<Head(q)>>[i] ELSE Tail(q)[i - 1]
    BY <1>1, <1>2, ConcatProperties
<1>4. \A i \in 1..n : w[i] = q[i]
    BY <1>1, <1>3
<1>5. Len(w) = Len(q)
    BY <1>1, <1>3
<1> QED
    BY <1>1, <1>3, <1>4, <1>5, SeqEqual

LEMMA ConcatNothing ==
    ASSUME NEW q \in Seq(Messages)
    PROVE  <<>> \o q = q /\ q \o <<>> = q
  BY ConcatEmptySeq

LEMMA PipeTyped ==
    ASSUME TypeOK, CargoOK, NEW c \in Consumers, Increasing(Pipe(c))
    PROVE  /\ Increasing(queue[c]) /\ (pc[c] # "stream" => Increasing(batch[c]))
           /\ pc[c] = "get" => Pipe(c) = queue[c]
<1>1. queue[c] \in Seq(Messages) /\ batch[c] \in Seq(Messages)
    BY CarriedTyped
<1> QED
    BY <1>1, ConcatIncreasing, ConcatNothing DEF Pipe, CargoOK, PlacesOK

\* What is in front of a consumer stays in order.
LEMMA PipesNext ==
    ASSUME TypeOK, CargoOK, CargoStep, Unblocked, Unblocked', OrderOK
    PROVE  \A c \in Consumers : Increasing(Pipe(c))'
<1> USE QueueConstants
<1>1. \A c \in Consumers :
        /\ Increasing(Pipe(c)) /\ queue[c] \in Seq(Messages)
        /\ batch[c] \in Seq(Messages)
    BY CarriedTyped DEF OrderOK
<1>2. SUFFICES ASSUME NEW c \in Consumers,
                      <<queue[c], batch[c], pc[c]>>'
                         # <<queue[c], batch[c], pc[c]>>
               PROVE  Increasing(Pipe(c))'
    BY <1>1 DEF Pipe
<1>3. ASSUME NEW m \in Messages, Accepts(m, c)
      PROVE  Increasing(Pipe(c))'
  <2>1. queue'[c] = Append(queue[c], m) /\ batch' = batch /\ pc' = pc
    <3>1. Put(m, c) /\ putters'[c] = {} /\ batch' = batch /\ pc' = pc
      BY <1>3 DEF Accepts, Unblocked
    <3>2. ASSUME ~(Len(queue[c]) < QueueMax)
          PROVE  m \in putters'[c]
      <4>1. putters' = [putters EXCEPT ![c] = @ \cup {m}]
        BY <3>1, <3>2 DEF Put
      <4> QED
        BY <4>1 DEF TypeOK, ManagerTypeOK
    <3> QED
      BY <3>1, <3>2 DEF Put, TypeOK, ManagerTypeOK
  <2>2. \A x \in Elements(queue[c]) \cup Elements(batch[c]) :
          x \in Messages /\ where[x] # "new"
    BY CarriedTyped DEF CargoOK, PlacesOK
  <2>3. ASSUME NEW x \in Elements(queue[c]) \cup Elements(batch[c])
        PROVE  x < m
    <3>1. where[m] = "new" /\ x \in Nat /\ m \in Nat
      BY <1>3, <2>2 DEF Accepts, Arrives
    <3>2. ~(m < x) /\ x # m
      BY <2>2, <3>1 DEF OrderOK
    <3> QED
      BY <3>1, <3>2
  <2>4. CASE pc[c] = "stream"
    <3>1. <<>> \in Seq(Messages) /\ Elements(<<>>) = {}
      BY EmptyQueue
    <3>2. Increasing(<<>> \o queue[c])
      BY <1>1, <2>4, ConcatNothing DEF Pipe
    <3>3. Increasing(<<>> \o Append(queue[c], m))
      BY <1>1, <2>3, <3>1, <3>2, AppendIncreasing
    <3>4. Append(queue[c], m) \in Seq(Messages)
      BY <1>1, AppendElements
    <3> QED
      BY <2>1, <2>4, <3>3, <3>4, ConcatNothing DEF Pipe
  <2>5. CASE pc[c] # "stream"
    <3>1. Increasing(batch[c] \o Append(queue[c], m))
      BY <1>1, <2>3, <2>5, AppendIncreasing DEF Pipe
    <3> QED
      BY <2>1, <2>5, <3>1 DEF Pipe
  <2> QED
    BY <2>4, <2>5
<1>4. CASE Clears(c)
  <2>1. queue'[c] = <<>> /\ batch' = batch /\ pc' = pc
    BY <1>4 DEF Clears, TypeOK, ManagerTypeOK
  <2> QED
    BY <1>1, <2>1, PipeTyped, ConcatNothing, EmptyQueue DEF Pipe
<1>5. CASE TakesOne(c)
  <2>1. /\ pc[c] = "get" /\ queue[c] # <<>> /\ pc'[c] = "channel"
        /\ batch'[c] = <<Head(queue[c])>> /\ queue'[c] = Tail(queue[c])
    BY <1>5 DEF TakesOne, TypeOK, ManagerTypeOK
  <2>2. Pipe(c)' = queue[c]
    BY <1>1, <2>1, HeadThenTail DEF Pipe
  <2> QED
    BY <1>1, <2>1, <2>2, PipeTyped
<1>6. CASE TakesAll(c)
  <2>1. pc[c] # "stream" /\ TakeAll(c, batch[c])
    BY <1>6 DEF TakesAll
  <2>2. pc'[c] = "prep" /\ queue'[c] = <<>> /\ batch'[c] = batch[c] \o queue[c]
    <3>1. /\ queue' = [queue EXCEPT ![c] = <<>>]
          /\ batch' = [batch EXCEPT ![c] = batch[c] \o queue[c]]
          /\ pc' = [pc EXCEPT ![c] = "prep"]
      BY <1>1, <2>1, TakeAllTyped
    <3> QED
      BY <3>1 DEF TypeOK, ManagerTypeOK
  <2>3. Pipe(c)' = Pipe(c)
    BY <1>1, <2>1, <2>2, ConcatElements, ConcatNothing DEF Pipe
  <2> QED
    BY <1>1, <2>3
<1>7. ASSUME NEW p \in Unstarted, Leaves(c, p)
      PROVE  Increasing(Pipe(c))'
  <2>1. pc'[c] = "get" /\ batch'[c] = <<>> /\ queue' = queue
    BY <1>7 DEF Leaves, NextIteration, TypeOK
  <2> QED
    BY <1>1, <2>1, PipeTyped, ConcatNothing DEF Pipe
<1>8. CASE Begins(c)
  <2>1. pc'[c] = "stream" /\ queue' = queue
    BY <1>8 DEF Begins, TypeOK
  <2> QED
    BY <1>1, <2>1, PipeTyped DEF Pipe
<1>9. CASE Finishes(c)
  <2>1. pc'[c] = "get" /\ batch'[c] = <<>> /\ queue' = queue
    BY <1>9 DEF Finishes, TypeOK
  <2> QED
    BY <1>1, <2>1, PipeTyped, ConcatNothing DEF Pipe
\* Everything else leaves c as it is.
<1>10. CASE UNCHANGED cargo \/ Abandons
    BY <1>2, <1>10 DEF cargo, Abandons, StopCancelsEnqueues
<1>11. \A m \in Messages, d \in Consumers : ~Resumes(m, d) /\ ~GivesUp(m, d)
    BY DEF Resumes, PutResumes, GivesUp, PutTimesOut, Unblocked
<1>12. ASSUME NEW d \in Consumers, d # c
       PROVE  /\ \A m \in Messages : ~Accepts(m, d)
              /\ ~Clears(d) /\ ~TakesOne(d) /\ ~TakesAll(d) /\ ~Begins(d)
              /\ ~Finishes(d) /\ \A p \in Unstarted : ~Leaves(d, p)
    BY <1>2, <1>12
    DEF Accepts, Put, Clears, TakesOne, TakesAll, TakeAll, Begins, Finishes,
        Leaves, NextIteration, TypeOK, ManagerTypeOK
<1> QED
    BY <1>3, <1>4, <1>5, <1>6, <1>7, <1>8, <1>9, <1>10, <1>11, <1>12
    DEF CargoStep

\* The rest of OrderOK.
LEMMA OrderInit == Init => OrderOK
<1> SUFFICES ASSUME Init
             PROVE  OrderOK
    OBVIOUS
<1>1. \A c \in Consumers : Pipe(c) = <<>>
  <2>1. <<>> \in Seq(Messages)
    BY EmptyQueue
  <2> QED
    BY <2>1, ConcatNothing DEF Init, ManagerInit, Pipe
<1> QED
    BY <1>1, EmptyQueue DEF Init, ManagerInit, OrderOK

\* No message goes back, and they come in order.
LEMMA ArrivalsNext ==
    ASSUME TypeOK, CargoOK, CargoStep, OrderOK
    PROVE  \A m, n \in Messages :
             m < n /\ where'[n] # "new" => where'[m] # "new"
<1>1. ASSUME NEW S, NEW p, p # "new", Move(S, p),
             \A x \in Messages : x \in S => where[x] # "new"
      PROVE  \A x \in Messages : where'[x] = "new" <=> where[x] = "new"
    BY <1>1, MoveWhere
<1>2. ASSUME \A x \in Messages : where'[x] = "new" <=> where[x] = "new"
      PROVE  \A m, n \in Messages :
               m < n /\ where'[n] # "new" => where'[m] # "new"
    BY <1>2 DEF OrderOK
<1>3. ASSUME NEW c \in Consumers, NEW x \in Messages,
             \/ x \in Elements(queue[c]) \/ x \in Elements(batch[c])
             \/ x \in putters[c]
      PROVE  where[x] # "new"
    BY <1>3 DEF CargoOK, PlacesOK
<1>4. ASSUME NEW m \in Messages, NEW c \in Consumers, Accepts(m, c)
      PROVE  \A l, n \in Messages :
               l < n /\ where'[n] # "new" => where'[l] # "new"
  <2>1. Move({m}, "queued") \/ Move({m}, "putting")
    BY <1>4 DEF Accepts, Put
  <2>2. \A x \in Messages : where'[x] = "new" <=> where[x] = "new" /\ x # m
    BY <2>1, MoveWhere
  <2>3. \A x \in Messages : x < m => where[x] # "new"
    BY <1>4 DEF Accepts, Arrives
  <2> QED
    BY <2>2, <2>3 DEF OrderOK
<1>5. ASSUME NEW m \in Messages, NEW c \in Consumers,
             Resumes(m, c) \/ GivesUp(m, c)
      PROVE  \A x \in Messages : where'[x] = "new" <=> where[x] = "new"
  <2>1. where[m] # "new"
    BY <1>3, <1>5 DEF Resumes, PutResumes, GivesUp, PutTimesOut
  <2> QED
    BY <1>1, <1>5, <2>1 DEF Resumes, PutResumes, GivesUp, PutTimesOut
<1>6. ASSUME NEW c \in Consumers, Clears(c) \/ Begins(c)
      PROVE  \A x \in Messages : where'[x] = "new" <=> where[x] = "new"
    BY <1>1, <1>3, <1>6 DEF Clears, Begins
<1>7. ASSUME NEW c \in Consumers, TakesOne(c)
      PROVE  \A x \in Messages : where'[x] = "new" <=> where[x] = "new"
  <2>1. Head(queue[c]) \in Elements(queue[c])
    <3>1. queue[c] \in Seq(Messages) /\ queue[c] # <<>>
      BY <1>7, CarriedTyped DEF TakesOne
    <3>2. Elements(queue[c])
            = {Head(queue[c])} \cup Elements(Tail(queue[c]))
      BY <3>1, HeadElements
    <3> QED
      BY <3>2
  <2>2. Move({Head(queue[c])}, "taken")
    BY <1>7 DEF TakesOne
  <2> QED
    BY <1>1, <1>3, <2>1, <2>2
<1>8. ASSUME NEW c \in Consumers, TakesAll(c)
      PROVE  \A x \in Messages : where'[x] = "new" <=> where[x] = "new"
  <2>1. Move(Elements(batch[c]) \cup Elements(queue[c]), "taken")
    BY <1>8, CarriedTyped, TakeAllTyped DEF TakesAll
  <2> QED
    BY <1>1, <1>3, <2>1
<1>9. ASSUME NEW c \in Consumers, NEW p \in Unstarted, Leaves(c, p)
      PROVE  \A x \in Messages : where'[x] = "new" <=> where[x] = "new"
    BY <1>1, <1>3, <1>9 DEF Leaves, NextIteration, Unstarted
<1>10. ASSUME Abandons
       PROVE  \A x \in Messages : where'[x] = "new" <=> where[x] = "new"
  <2>1. \A x \in UNION {putters[c] : c \in Consumers} :
          \E c \in Consumers : x \in putters[c]
    OBVIOUS
  <2> QED
    BY <1>1, <1>3, <1>10, <2>1 DEF Abandons, StopCancelsEnqueues
<1>11. ASSUME UNCHANGED cargo \/ \E c \in Consumers : Finishes(c)
       PROVE  \A x \in Messages : where'[x] = "new" <=> where[x] = "new"
    BY <1>11 DEF cargo, Finishes
<1> QED
    BY <1>2, <1>4, <1>5, <1>6, <1>7, <1>8, <1>9, <1>10, <1>11 DEF CargoStep

\* Nobody starts a message while an earlier one of its session waits.
LEMMA StartsNext ==
    ASSUME DispatchInv, CargoOK', CargoStep, Unblocked, Unblocked', OrderOK,
           sweeps = 0, stopping = "no",
           NEW m \in Messages, NEW n \in Messages, m < n,
           Session[m] = Session[n], where'[n] = "started"
    PROVE  where'[m] \notin {"queued", "taken"}
<1> USE QueueConstants
<1>1. TypeOK /\ KeysOK /\ CargoOK
    BY DEF DispatchInv, CargoOK
<1>2. where[n] = "started" => where[m] \notin {"queued", "taken"}
    BY DEF OrderOK
\* Consumers that hold messages of one session are one.
<1>3. ASSUME NEW c \in Consumers, NEW d \in Consumers,
             NEW x \in Messages, NEW y \in Messages, Session[x] = Session[y],
             x \in Elements(queue[c]) \/ x \in Elements(batch[c]),
             y \in Elements(queue[d]) \/ y \in Elements(batch[d])
      PROVE  c = d
  <2>1. ASSUME NEW e \in Consumers, NEW z \in Messages,
               z \in Elements(queue[e]) \/ z \in Elements(batch[e])
        PROVE  Session[z] = keyOf[e] /\ Live(e)
    <3>1. Session[z] = keyOf[e] /\ Session[z] \in Keys
      BY <1>1, <2>1 DEF CargoOK, HomeOK
    <3>2. task[e] \in TaskState /\ task[e] # "absent" /\ task[e] # "done"
      BY <1>1, <3>1 DEF DispatchInv, KeysOK, CalmOK, TypeOK, ManagerTypeOK
    <3> QED
      BY <3>1, <3>2 DEF Live, TaskState
  <2>2. /\ Session[x] = keyOf[c] /\ Live(c)
        /\ Session[y] = keyOf[d] /\ Live(d)
    BY <1>3, <2>1
  <2> QED
    BY <1>3, <2>2 DEF DispatchInv, SoleOK
\* m has not just been enqueued.
<1>4. where[n] = "started" => where[m] # "new"
    BY DEF OrderOK
<1>5. ASSUME NEW S, NEW p, Move(S, p), p \notin {"queued", "taken", "started"}
      PROVE  where'[m] \notin {"queued", "taken"}
    BY <1>1, <1>2, <1>5, MoveWhere
<1>6. ASSUME NEW x \in Messages, NEW c \in Consumers, Accepts(x, c)
      PROVE  where'[m] \notin {"queued", "taken"}
  <2>1. where[x] = "new" /\ (Move({x}, "queued") \/ Move({x}, "putting"))
    BY <1>6 DEF Accepts, Arrives, Put
  <2> QED
    BY <1>1, <1>2, <1>4, <2>1, MoveWhere
<1>7. ASSUME NEW c \in Consumers, NEW S, Move(S, "taken"),
             \A x \in Messages : x \in S =>
               x \in Elements(queue[c]) \/ x \in Elements(batch[c]),
             pc[c] # "stream"
      PROVE  where'[m] \notin {"queued", "taken"}
  <2>1. \A x \in Messages : x \in S => where[x] \in {"queued", "taken"}
    BY <1>1, <1>7 DEF CargoOK, PlacesOK
  <2> QED
    BY <1>1, <1>2, <1>7, <2>1, MoveWhere
<1>8. ASSUME NEW c \in Consumers, TakesOne(c)
      PROVE  where'[m] \notin {"queued", "taken"}
  <2>1. queue[c] \in Seq(Messages) /\ queue[c] # <<>> /\ pc[c] # "stream"
    BY <1>1, <1>8, CarriedTyped DEF TakesOne
  <2>2. Elements(queue[c]) = {Head(queue[c])} \cup Elements(Tail(queue[c]))
    BY <2>1, HeadElements
  <2> QED
    BY <1>7, <1>8, <2>1, <2>2 DEF TakesOne
<1>9. ASSUME NEW c \in Consumers, TakesAll(c)
      PROVE  where'[m] \notin {"queued", "taken"}
  <2>1. Move(Elements(batch[c]) \cup Elements(queue[c]), "taken")
    BY <1>1, <1>9, CarriedTyped, TakeAllTyped DEF TakesAll
  <2> QED
    BY <1>7, <1>9, <2>1 DEF TakesAll
<1>10. ASSUME NEW c \in Consumers, Begins(c)
       PROVE  where'[m] \notin {"queued", "taken"}
  <2>1. \A x \in Messages :
          where'[x] = IF x \in Elements(batch[c]) THEN "started" ELSE where[x]
    BY <1>1, <1>10, MoveWhere DEF Begins
  <2>2. CASE n \in Elements(batch[c])
    <3>1. ASSUME where'[m] \in {"queued", "taken"}
          PROVE  m \in Elements(queue[c])
      <4>1. m \notin Elements(batch[c]) /\ where[m] \in {"queued", "taken"}
        BY <2>1, <3>1
      <4>2. PICK d \in Consumers :
              m \in Elements(queue[d]) \/ m \in Elements(batch[d])
        BY <1>1, <4>1 DEF CargoOK, FoundOK
      <4>3. d = c
        BY <1>3, <2>2, <4>2
      <4> QED
        BY <4>1, <4>2, <4>3
    <3>2. m \in Elements(queue[c]) => n < m
      <4>1. /\ batch[c] \in Seq(Messages) /\ queue[c] \in Seq(Messages)
            /\ Increasing(batch[c] \o queue[c])
        BY <1>1, <1>10, CarriedTyped DEF Begins, OrderOK, Pipe
      <4> QED
        BY <2>2, <4>1, ConcatIncreasing
    <3> QED
      BY <3>1, <3>2
  <2>3. CASE n \notin Elements(batch[c])
    BY <1>2, <2>1, <2>3
  <2> QED
    BY <2>2, <2>3
<1>11. ASSUME UNCHANGED where
       PROVE  where'[m] \notin {"queued", "taken"}
    BY <1>2, <1>11
<1> QED
    BY <1>5, <1>6, <1>8, <1>9, <1>10, <1>11
    DEF CargoStep, cargo, Resumes, PutResumes, GivesUp, PutTimesOut, Unblocked,
        Clears, Leaves, NextIteration, Unstarted, Abandons,
        StopCancelsEnqueues, Finishes

LEMMA HistoryGoesOn ==
    ASSUME TypeOK, [Next]_vars, sweeps' = 0, stopping' = "no"
    PROVE  sweeps = 0 /\ stopping = "no"
<1> USE DEF vars, mgrVars, queueVars, sweepVars
<1>1. ASSUME ManagerNext
      PROVE  sweeps = 0 /\ stopping = "no"
  <2>1. ASSUME NEW k \in Keys, Sweep(k)
        PROVE  FALSE
    BY <2>1 DEF Sweep, TypeOK, ManagerTypeOK
  <2> QED
    BY <1>1, <2>1
    DEF ManagerNext, EnqueueExisting, EnqueueCreates, PutResumes, PutTimesOut,
        ClearQueue, SweepNext, SweepDone, StopCancelsEnqueues,
        StopCancelsSweeper, StopCancelsConsumers, StopEnds
<1>2. ASSUME NEW c \in Consumers, ConsumerStep(c) \/ TimePasses(c)
      PROVE  sweeps = 0 /\ stopping = "no"
    BY <1>2
    DEF ConsumerStep, TimePasses, GoesStale, CGet, CDrain, CFails, CSkips,
        CStarts, CIgnores, CStreamEnds, CSwallows, CBreaks, ConsumerStarts,
        ConsumerNeverStarts
<1>3. CASE \/ (\E k \in Keys : RunStep(k)) \/ BeginSwap \/ EndSwap
           \/ UNCHANGED vars
    BY <1>3 DEF RunStep, RunBegins, RunEnds, RunStruck, BeginSwap, EndSwap
<1> QED
    BY <1>1, <1>2, <1>3 DEF Next

LEMMA OrderNext ==
    ASSUME DispatchInv, Unblocked, Unblocked', OrderOK, [Next]_vars
    PROVE  OrderOK'
<1>1. TypeOK /\ KeysOK /\ CargoOK /\ CargoOK' /\ CargoStep
    BY DispatchNext, EveryStepCargo DEF DispatchInv, CargoOK
<1>2. \A m, n \in Messages : m < n /\ where'[n] # "new" => where'[m] # "new"
    BY <1>1, ArrivalsNext
<1>3. \A c \in Consumers : Increasing(Pipe(c))'
    BY <1>1, PipesNext
<1>4. ASSUME sweeps' = 0, stopping' = "no", NEW m \in Messages,
             NEW n \in Messages, m < n, Session[m] = Session[n],
             where'[n] = "started"
      PROVE  where'[m] \notin {"queued", "taken"}
    BY <1>1, <1>4, HistoryGoesOn, StartsNext
<1> QED
    BY <1>2, <1>3, <1>4 DEF OrderOK

LEMMA OrderGivesArrivalOrder ==
    ASSUME OrderOK, sweeps = 0, stopping = "no"
    PROVE  ArrivalOrder
<1>1. \A c \in Consumers :
        LET s == IF pc[c] = "stream" THEN queue[c] ELSE batch[c] \o queue[c]
        IN  \A i, j \in DOMAIN s : i < j => s[i] < s[j]
    BY DEF OrderOK, Pipe, Increasing
<1> QED
    BY <1>1 DEF OrderOK, ArrivalOrder

\* As long as no put() is blocked, and until the first sweep or shutdown, the
\* messages of a session are merged and started in the order in which they
\* arrive.
THEOREM ArrivalOrderUnblocked ==
    Spec /\ []Unblocked => [](sweeps = 0 /\ stopping = "no" => ArrivalOrder)
<1>1. DispatchInv /\ Unblocked /\ Unblocked' /\ OrderOK /\ [Next]_vars
      => OrderOK'
    BY OrderNext
<1>2. OrderOK => (sweeps = 0 /\ stopping = "no" => ArrivalOrder)
    BY OrderGivesArrivalOrder
<1> QED
    BY <1>1, <1>2, OrderInit, DispatchInvariance, PTL DEF Spec

\* A sequence of distinct messages that lacks one is shorter than their number.
LEMMA DistinctIsShort ==
    ASSUME IsFiniteSet(Messages), NEW q \in Seq(Messages), NoDuplicates(q),
           NEW m \in Messages, m \notin Elements(q)
    PROVE  Len(q) < Cardinality(Messages)
<1> DEFINE T == Messages \ {m}
           n == Len(q)
<1>1. n \in Nat /\ DOMAIN q = 1..n /\ q \in [1..n -> Messages]
    BY LenProperties
<1>2. \A i \in 1..n : q[i] # m
    BY <1>1 DEF Elements
<1>3. q \in [1..n -> T]
    BY <1>1, <1>2
<1>4. IsFiniteSet(T) /\ Cardinality(T) = Cardinality(Messages) - 1
    BY FS_RemoveElement
<1>5. Cardinality(Messages) \in Nat
    BY FS_CardinalityType
<1>6. IsFiniteSet(1..n) /\ Cardinality(1..n) = n
    BY <1>1, FS_Interval
<1>7. \A i, j \in 1..n : q[i] = q[j] => i = j
    BY <1>1 DEF NoDuplicates
<1> HIDE DEF T, n
<1>8. ASSUME Cardinality(T) < Cardinality(1..n)
      PROVE  FALSE
  <2>1. \E i, j \in 1..n : i # j /\ q[i] = q[j]
    BY <1>3, <1>4, <1>6, <1>8, FS_PigeonHole
  <2> QED
    BY <1>7, <2>1
<1> QED
    BY <1>1, <1>4, <1>5, <1>6, <1>8 DEF n

\* A queue with room for all messages never blocks a put().
LEMMA RoomForAll ==
    ASSUME IsFiniteSet(Messages), Cardinality(Messages) <= QueueMax
    PROVE  Spec => []Unblocked
<1>1. Init => Unblocked
    BY DEF Init, ManagerInit, Unblocked
<1>2. ASSUME DispatchInv, Unblocked, [Next]_vars
      PROVE  Unblocked'
  <2>1. TypeOK /\ CargoOK /\ CargoStep
    BY <1>2, EveryStepCargo DEF DispatchInv, CargoOK
  <2>2. ASSUME NEW m \in Messages, NEW c \in Consumers, Accepts(m, c)
        PROVE  putters' = putters
    <3>1. /\ queue[c] \in Seq(Messages) /\ NoDuplicates(queue[c])
          /\ m \notin Elements(queue[c])
      BY <2>1, <2>2, CarriedTyped DEF CargoOK, PlacesOK, Accepts, Arrives
    <3>2. Len(queue[c]) < Cardinality(Messages)
      BY <3>1, DistinctIsShort
    <3>3. /\ Len(queue[c]) \in Nat /\ Cardinality(Messages) \in Nat
          /\ QueueMax \in Nat
      BY <3>1, LenProperties, FS_CardinalityType, QueueConstants
    <3>4. Len(queue[c]) < QueueMax
      BY <3>2, <3>3
    <3> QED
      BY <2>2, <3>4 DEF Accepts, Put
  <2>3. CASE Abandons
    BY <2>3 DEF Abandons, StopCancelsEnqueues, Unblocked
  <2>4. ASSUME NEW m \in Messages, NEW c \in Consumers,
               Resumes(m, c) \/ GivesUp(m, c)
        PROVE  FALSE
    BY <1>2, <2>4 DEF Resumes, PutResumes, GivesUp, PutTimesOut, Unblocked
  <2> QED
    BY <1>2, <2>1, <2>2, <2>3, <2>4
    DEF CargoStep, cargo, Clears, TakesOne, TakesAll, Leaves, Begins,
        Finishes, Unblocked
<1>3. DispatchInv /\ Unblocked /\ [Next]_vars => Unblocked'
    BY <1>2
<1> QED
    BY <1>1, <1>3, DispatchInvariance, PTL DEF Spec

\* So with queues that have room for all messages the order holds until the
\* first sweep or shutdown.
THEOREM ArrivalOrderWithRoom ==
    ASSUME IsFiniteSet(Messages), Cardinality(Messages) <= QueueMax
    PROVE  Spec => [](sweeps = 0 /\ stopping = "no" => ArrivalOrder)
<1> QED
    BY RoomForAll, ArrivalOrderUnblocked, PTL
=============================================================================
