--------------------------- MODULE LLMCalls_proofs ---------------------------
(* Machine-checked proofs about LLMCalls, for any number of calls and places *)
(* and whatever the timers and limits: its semaphore, its sliding window and *)
(* its cooldown.                                                             *)
EXTENDS LLMCalls, FiniteSetTheorems, SequenceTheorems, WellFoundedInduction,
        TLAPS

-----------------------------------------------------------------------------
(* A semaphore by itself: h are the holders of its places, f of them are     *)
(* free, and q are its waiters.                                              *)

Distinct(q) == \A i, j \in 1..Len(q) : q[i] = q[j] => i = j

Balanced(h, f, q) ==
    /\ IsFiniteSet(h) /\ f \in Nat
    /\ f + Cardinality(h) = MaxConcurrent
    /\ q \in Seq(Calls) /\ Distinct(q)
    /\ q # <<>> => f = 0
    /\ \A x \in ToSet(q) : x \notin h

LEMMA ToSetIs ==
    ASSUME NEW q \in Seq(Calls)
    PROVE  \A x : x \in ToSet(q) <=> \E i \in 1..Len(q) : q[i] = x
BY DEF ToSet

\* The waiters but the first.
LEMMA TailWaiters ==
    ASSUME NEW q \in Seq(Calls), Distinct(q), q # <<>>
    PROVE  /\ Tail(q) \in Seq(Calls) /\ Distinct(Tail(q)) /\ Head(q) \in Calls
           /\ ToSet(Tail(q)) = ToSet(q) \ {Head(q)} /\ Head(q) \in ToSet(q)
<1> DEFINE t == Tail(q)
<1>1. /\ t \in Seq(Calls) /\ Len(q) \in Nat /\ Len(q) >= 1 /\ Len(t) = Len(q) - 1
      /\ \A i \in 1..Len(t) : t[i] = q[i + 1]
      /\ Head(q) = q[1] /\ Head(q) \in Calls
    BY HeadTailProperties
<1> HIDE DEF t
<1>2. Distinct(t)
    BY <1>1 DEF Distinct
<1>3. \A x : x \in ToSet(t) <=> x \in ToSet(q) /\ x # q[1]
  <2> TAKE x
  <2>1. ASSUME NEW i \in 1..Len(t), t[i] = x
        PROVE  (\E j \in 1..Len(q) : q[j] = x) /\ x # q[1]
    BY <1>1, <2>1 DEF Distinct
  <2>2. ASSUME NEW j \in 1..Len(q), q[j] = x, x # q[1]
        PROVE  \E i \in 1..Len(t) : t[i] = x
    <3>1. j - 1 \in 1..Len(t) /\ t[j - 1] = x
      BY <1>1, <2>2
    <3> QED
      BY <3>1
  <2> QED
    BY <1>1, <2>1, <2>2, ToSetIs
<1>4. q[1] \in ToSet(q)
    BY <1>1, ToSetIs
<1> QED
    BY <1>1, <1>2, <1>3, <1>4 DEF t

LEMMA WithoutWaiter ==
    ASSUME NEW q \in Seq(Calls), Distinct(q), NEW c
    PROVE  /\ Without(q, c) \in Seq(Calls) /\ Distinct(Without(q, c))
           /\ ToSet(Without(q, c)) = ToSet(q) \ {c}
           /\ q = <<>> => Without(q, c) = <<>>
<1>1. CASE c \notin ToSet(q)
    BY <1>1 DEF Without
<1>2. CASE c \in ToSet(q)
  <2> DEFINE n == CHOOSE i \in DOMAIN q : q[i] = c
             a == SubSeq(q, 1, n - 1)
             b == SubSeq(q, n + 1, Len(q))
             w == a \o b
  <2>1. n \in 1..Len(q) /\ q[n] = c /\ Len(q) \in Nat
    <3>1. \E i \in DOMAIN q : q[i] = c
      BY <1>2 DEF ToSet
    <3> QED
      BY <3>1
  <2>2. Without(q, c) = w
    BY <1>2 DEF Without, RemoveAt
  <2> HIDE DEF n
  <2>3. \A i \in 1..Len(q) : q[i] \in Calls
    OBVIOUS
  <2>4. a \in Seq(Calls) /\ Len(a) = n - 1 /\ \A i \in 1..(n - 1) : a[i] = q[i]
    <3>1. 1 \in Int /\ n - 1 \in Int /\ \A i \in 1..(n - 1) : q[i] \in Calls
      BY <2>1, <2>3
    <3>2. /\ a \in Seq(Calls) /\ Len(a) = IF 1 <= n - 1 THEN (n - 1) - 1 + 1 ELSE 0
          /\ \A i \in 1..((n - 1) - 1 + 1) : a[i] = q[1 + i - 1]
      BY <3>1, SubSeqProperties
    <3> HIDE DEF a
    <3>3. \A i \in 1..(n - 1) : 1 + i - 1 = i
      OBVIOUS
    <3> QED
      BY <2>1, <3>2, <3>3
  <2>5. /\ b \in Seq(Calls) /\ Len(b) = Len(q) - n
        /\ \A i \in 1..(Len(q) - n) : b[i] = q[n + i]
    <3>1. n + 1 \in Int /\ Len(q) \in Int /\ \A i \in (n + 1)..Len(q) : q[i] \in Calls
      BY <2>1, <2>3
    <3>2. /\ b \in Seq(Calls)
          /\ Len(b) = IF n + 1 <= Len(q) THEN Len(q) - (n + 1) + 1 ELSE 0
          /\ \A i \in 1..(Len(q) - (n + 1) + 1) : b[i] = q[(n + 1) + i - 1]
      BY <3>1, SubSeqProperties
    <3> HIDE DEF b
    <3>3. \A i \in 1..(Len(q) - n) : (n + 1) + i - 1 = n + i
      BY <2>1
    <3> QED
      BY <2>1, <3>2, <3>3
  <2> HIDE DEF a, b
  <2>6. /\ w \in Seq(Calls) /\ Len(w) = Len(q) - 1
        /\ \A i \in 1..(Len(q) - 1) : w[i] = q[IF i < n THEN i ELSE i + 1]
    <3>1. /\ w \in Seq(Calls) /\ Len(w) = Len(a) + Len(b)
          /\ \A i \in 1..(Len(a) + Len(b)) :
                w[i] = IF i <= Len(a) THEN a[i] ELSE b[i - Len(a)]
      BY <2>4, <2>5, ConcatProperties
    <3> HIDE DEF w
    <3>2. Len(a) + Len(b) = Len(q) - 1
      BY <2>1, <2>4, <2>5
    <3>3. ASSUME NEW i \in 1..(Len(q) - 1)
          PROVE  w[i] = q[IF i < n THEN i ELSE i + 1]
      <4>1. CASE i < n
        BY <2>1, <2>4, <3>1, <3>2, <4>1
      <4>2. CASE ~(i < n)
        <5>1. /\ i - (n - 1) \in 1..(Len(q) - n)
              /\ n + (i - (n - 1)) = i + 1
          BY <2>1, <4>2
        <5>2. w[i] = b[i - (n - 1)]
          BY <2>1, <2>4, <3>1, <3>2, <4>2
        <5> QED
          BY <2>5, <4>2, <5>1, <5>2
      <4> QED
        BY <4>1, <4>2
    <3> QED
      BY <3>1, <3>2, <3>3
  <2> HIDE DEF w
  <2>7. Distinct(w)
    BY <2>1, <2>6 DEF Distinct
  <2>8. \A x : x \in ToSet(w) <=> x \in ToSet(q) /\ x # c
    <3> TAKE x
    <3>1. ASSUME NEW i \in 1..Len(w), w[i] = x
          PROVE  (\E j \in 1..Len(q) : q[j] = x) /\ x # c
      <4> DEFINE j == IF i < n THEN i ELSE i + 1
      <4>1. j \in 1..Len(q) /\ j # n /\ q[j] = x
        BY <2>1, <2>6, <3>1
      <4> QED
        BY <2>1, <4>1 DEF Distinct
    <3>2. ASSUME NEW j \in 1..Len(q), q[j] = x, x # c
          PROVE  \E i \in 1..Len(w) : w[i] = x
      <4> DEFINE i == IF j < n THEN j ELSE j - 1
      <4>1. i \in 1..Len(w) /\ w[i] = x
        BY <2>1, <2>6, <3>2
      <4> QED
        BY <4>1
    <3> QED
      BY <2>6, <3>1, <3>2, ToSetIs
  <2> QED
    BY <1>2, <2>2, <2>6, <2>7, <2>8, ToSetIs
<1> QED
    BY <1>1, <1>2

\* A waiter more.
LEMMA AppendWaiter ==
    ASSUME NEW q \in Seq(Calls), Distinct(q), NEW c \in Calls, c \notin ToSet(q)
    PROVE  /\ Append(q, c) \in Seq(Calls) /\ Distinct(Append(q, c))
           /\ ToSet(Append(q, c)) = ToSet(q) \cup {c}
<1> DEFINE w == Append(q, c)
<1>1. /\ w \in Seq(Calls) /\ Len(q) \in Nat /\ Len(w) = Len(q) + 1
      /\ \A i \in 1..Len(q) : w[i] = q[i]
      /\ w[Len(q) + 1] = c
    OBVIOUS
<1>2. \A i \in 1..Len(q) : q[i] # c
    BY ToSetIs
<1> HIDE DEF w
<1>3. Distinct(w)
    BY <1>1, <1>2 DEF Distinct
<1>4. \A x : x \in ToSet(w) <=> x \in ToSet(q) \/ x = c
  <2> TAKE x
  <2>1. (\E i \in 1..Len(w) : w[i] = x) <=> (\E i \in 1..Len(q) : q[i] = x) \/ x = c
    BY <1>1
  <2> QED
    BY <1>1, <2>1, ToSetIs
<1> QED
    BY <1>1, <1>3, <1>4 DEF w

-----------------------------------------------------------------------------
(* The inductive invariant *)

Holders == {c \in Calls : Holds(c)}
Queued  == {c \in Calls : pc[c] = "queued"}

\* A place that a streaming call holds is given back by the first chunk, and
\* only streams get that far.
PlacesOK ==
    /\ pc \in [Calls -> Places] /\ streaming \in [Calls -> BOOLEAN]
    /\ \A c \in Calls : pc[c] \in {"first", "flowing"} => streaming[c]

SemaphoreInv ==
    /\ PlacesOK
    /\ Balanced(Holders, free, queue)
    /\ ToSet(queue) = Queued

\* What action record s leaves once c has given up whatever it had.
Gone(c, s) ==
    /\ s = [free |-> s.free, queue |-> s.queue, granted |-> s.granted]
    /\ s.granted \subseteq Calls /\ c \notin s.granted
    /\ Balanced((Holders \ {c}) \cup s.granted, s.free, s.queue)
    /\ ToSet(s.queue) = Queued \ ({c} \cup s.granted)

-----------------------------------------------------------------------------
(* What an action record does to the semaphore *)

LEMMA KeptGone ==
    ASSUME SemaphoreInv, NEW c \in Calls, ~Holds(c), pc[c] # "queued"
    PROVE  Gone(c, Kept)
<1>1. Holders \ {c} = Holders /\ c \notin Queued
    BY DEF Holders, Queued
<1>2. (Holders \ {c}) \cup {} = Holders /\ Queued \ ({c} \cup {}) = Queued
    BY <1>1
<1> QED
    BY <1>2 DEF Gone, Kept, SemaphoreInv

LEMMA FreedGone ==
    ASSUME SemaphoreInv, NEW c \in Calls, Holds(c), Balanced(Holders, free, queue)
    PROVE  Gone(c, Freed)
<1> DEFINE h == Holders \ {c}
<1>1. /\ IsFiniteSet(h) /\ Cardinality(h) = Cardinality(Holders) - 1
      /\ Cardinality(Holders) \in Nat /\ Cardinality(h) \in Nat
    BY FS_RemoveElement, FS_CardinalityType DEF Balanced, Holders
<1>2. c \notin Queued /\ c \notin ToSet(queue) /\ h \subseteq Calls
    BY DEF Queued, Holds, Holders, SemaphoreInv
<1>3. MaxConcurrent \in Nat
    BY LimiterAssumption
<1>4. CASE queue = <<>>
  <2>1. Freed = [free |-> free + 1, queue |-> <<>>, granted |-> {}]
    BY <1>4 DEF Freed
  <2>2. /\ ToSet(queue) = {} /\ Queued = {}
    BY <1>4 DEF ToSet, SemaphoreInv
  <2>3. Balanced(h \cup {}, free + 1, <<>>)
    <3>1. h \cup {} = h
      OBVIOUS
    <3>2. (free + 1) + Cardinality(h) = MaxConcurrent /\ free + 1 \in Nat
      BY <1>1, <1>3 DEF Balanced
    <3> QED
      BY <1>1, <1>4, <2>2, <3>1, <3>2 DEF Balanced
  <2> QED
    BY <1>4, <2>1, <2>2, <2>3 DEF Gone
<1>5. CASE queue # <<>>
  <2> DEFINE x == Head(queue)
             t == Tail(queue)
             g == h \cup {x}
  <2>1. Freed = [free |-> free, queue |-> t, granted |-> {x}]
    BY <1>5 DEF Freed
  <2>2. /\ t \in Seq(Calls) /\ Distinct(t) /\ x \in Calls
        /\ ToSet(t) = ToSet(queue) \ {x} /\ x \in ToSet(queue)
    BY <1>5, TailWaiters DEF Balanced
  <2> HIDE DEF x, t
  <2>3. x \notin Holders /\ x # c /\ x \notin h
    BY <1>2, <2>2 DEF Balanced
  <2>4. IsFiniteSet(g) /\ Cardinality(g) = Cardinality(h) + 1
    BY <1>1, <2>3, FS_AddElement
  <2>5. Balanced(g, free, t)
    <3>1. free + Cardinality(g) = MaxConcurrent /\ free \in Nat
      BY <1>1, <2>4 DEF Balanced
    <3>2. free = 0
      BY <1>5 DEF Balanced
    <3>3. \A y \in ToSet(t) : y \notin g
      BY <2>2 DEF Balanced
    <3> QED
      BY <2>2, <2>4, <3>1, <3>2, <3>3 DEF Balanced
  <2>6. ToSet(t) = Queued \ ({c} \cup {x})
    BY <1>2, <2>2 DEF SemaphoreInv
  <2> QED
    BY <2>1, <2>2, <2>3, <2>5, <2>6 DEF Gone
<1> QED
    BY <1>4, <1>5

LEMMA DroppedGone ==
    ASSUME SemaphoreInv, NEW c \in Calls
    PROVE  Gone(c, Dropped(c))
<1>1. CASE Holds(c)
    BY <1>1, FreedGone DEF Dropped, SemaphoreInv
<1>2. CASE ~Holds(c)
  <2> DEFINE w == Without(queue, c)
  <2>1. Dropped(c) = [free |-> free, queue |-> w, granted |-> {}]
    BY <1>2 DEF Dropped, Kept
  <2>2. /\ w \in Seq(Calls) /\ Distinct(w) /\ ToSet(w) = ToSet(queue) \ {c}
        /\ queue = <<>> => w = <<>>
    BY WithoutWaiter DEF SemaphoreInv, Balanced
  <2> HIDE DEF w
  <2>3. (Holders \ {c}) \cup {} = Holders
    BY <1>2 DEF Holders
  <2>4. Balanced(Holders, free, w)
    BY <2>2 DEF SemaphoreInv, Balanced
  <2>5. ToSet(w) = Queued \ ({c} \cup {})
    BY <2>2 DEF SemaphoreInv
  <2> DEFINE s == Dropped(c)
  <2>6. s.granted = {} /\ s.free = free /\ s.queue = w
    BY <2>1
  <2>7. s = [free |-> s.free, queue |-> s.queue, granted |-> s.granted]
    BY <2>1, <2>6
  <2>8. Balanced((Holders \ {c}) \cup {}, free, w)
    BY <2>3, <2>4
  <2> HIDE DEF s
  <2>9. Gone(c, s)
    BY <2>5, <2>6, <2>7, <2>8 DEF Gone
  <2> QED
    BY <2>9 DEF s
<1> QED
    BY <1>1, <1>2

-----------------------------------------------------------------------------
(* Where a call goes then *)

\* Everyone but c and those who are given a place stay where they were.
LEMMA MovesHolders ==
    ASSUME PlacesOK, NEW c \in Calls, NEW p \in Places, NEW s,
           s.granted \subseteq Calls, c \notin s.granted, Moves(c, p, s),
           streaming' \in [Calls -> BOOLEAN],
           \A d \in Calls \ {c} : streaming'[d] = streaming[d],
           p \in {"first", "flowing"} => streaming'[c]
    PROVE  /\ PlacesOK'
           /\ Holders' = IF Holds(c)' THEN ((Holders \ {c}) \cup s.granted) \cup {c}
                                      ELSE (Holders \ {c}) \cup s.granted
           /\ Queued' = IF p = "queued" THEN (Queued \ ({c} \cup s.granted)) \cup {c}
                                        ELSE Queued \ ({c} \cup s.granted)
           /\ pc'[c] = p
<1>1. \A d \in Calls : pc'[d] = IF d = c THEN p
                                ELSE IF d \in s.granted THEN "granted" ELSE pc[d]
    BY DEF Moves
<1>2. PlacesOK'
  <2>1. pc' \in [Calls -> Places]
    BY DEF Moves, PlacesOK, Places, Waiting
  <2> QED
    BY <1>1, <2>1 DEF PlacesOK
<1>3. \A d \in Calls \ {c} : Holds(d)' <=> Holds(d) \/ d \in s.granted
    BY <1>1 DEF Holds
<1>4. \A d \in Calls : d # c => (d \in Holders' <=> d \in Holders \/ d \in s.granted)
    BY <1>3 DEF Holders
<1>5. c \in Holders' <=> Holds(c)'
    BY DEF Holders
<1>6. Holders' \subseteq Calls /\ Holders \subseteq Calls
    BY DEF Holders
<1>7. \A d \in Calls : d \in Queued' <=> IF d = c THEN p = "queued"
                                       ELSE d \in Queued /\ d \notin s.granted
    BY <1>1 DEF Queued
<1>8. Queued' \subseteq Calls /\ Queued \subseteq Calls
    BY DEF Queued
<1>9. Holders' = IF Holds(c)' THEN ((Holders \ {c}) \cup s.granted) \cup {c}
                              ELSE (Holders \ {c}) \cup s.granted
    BY <1>4, <1>5, <1>6
<1>10. Queued' = IF p = "queued" THEN (Queued \ ({c} \cup s.granted)) \cup {c}
                                 ELSE Queued \ ({c} \cup s.granted)
    BY <1>7, <1>8
<1> QED
    BY <1>1, <1>2, <1>9, <1>10

\* To a place without the semaphore.
LEMMA MovesAway ==
    ASSUME SemaphoreInv, NEW c \in Calls, NEW p \in Places, NEW s, Gone(c, s),
           Moves(c, p, s), streaming' = streaming,
           p \notin {"queued", "granted", "calling", "first"},
           p = "backoff" => streaming[c], p = "flowing" => streaming[c]
    PROVE  SemaphoreInv'
<1>1. /\ PlacesOK' /\ pc'[c] = p
      /\ Holders' = IF Holds(c)' THEN ((Holders \ {c}) \cup s.granted) \cup {c}
                                 ELSE (Holders \ {c}) \cup s.granted
      /\ Queued' = Queued \ ({c} \cup s.granted)
    BY MovesHolders DEF SemaphoreInv, PlacesOK, Gone
<1>2. ~Holds(c)'
    BY <1>1 DEF Holds
<1>3. free' = s.free /\ queue' = s.queue
    BY DEF Moves
<1> QED
    BY <1>1, <1>2, <1>3 DEF Gone, SemaphoreInv

\* To one with it, which c keeps.
LEMMA MovesHolding ==
    ASSUME SemaphoreInv, NEW c \in Calls, Holds(c), NEW p \in Places,
           Moves(c, p, Kept), streaming' \in [Calls -> BOOLEAN],
           \A d \in Calls \ {c} : streaming'[d] = streaming[d],
           p \in {"calling", "first", "backoff"},
           p = "first" => streaming'[c], p = "backoff" => ~streaming'[c]
    PROVE  SemaphoreInv'
<1>1. Kept.granted = {} /\ Kept.free = free /\ Kept.queue = queue
    BY DEF Kept
<1>2. /\ PlacesOK' /\ pc'[c] = p
      /\ Holders' = IF Holds(c)' THEN ((Holders \ {c}) \cup {}) \cup {c}
                                 ELSE (Holders \ {c}) \cup {}
      /\ Queued' = Queued \ ({c} \cup {})
  <2>1. Kept.granted \subseteq Calls /\ c \notin Kept.granted
    BY <1>1
  <2> QED
    BY <1>1, <2>1, MovesHolders DEF SemaphoreInv
<1>3. Holds(c)' /\ c \in Holders /\ c \notin Queued
    BY <1>2 DEF Holds, Holders, Queued
<1>4. Holders' = Holders /\ Queued' = Queued
    BY <1>2, <1>3
<1>5. free' = free /\ queue' = queue
    BY <1>1 DEF Moves
<1> QED
    BY <1>2, <1>4, <1>5 DEF SemaphoreInv

\* acquire() from the window on.
LEMMA WindowKeeps ==
    ASSUME SemaphoreInv, NEW c \in Calls, NEW s, Gone(c, s), NEW t,
           PassWindow(c, s, t), streaming' = streaming
    PROVE  SemaphoreInv'
<1> DEFINE h == (Holders \ {c}) \cup s.granted
<1>0. /\ Balanced(h, s.free, s.queue) /\ c \notin h
      /\ ToSet(s.queue) = Queued \ ({c} \cup s.granted)
      /\ s.granted \subseteq Calls /\ c \notin s.granted
    BY DEF Gone
<1>1. CASE Moves(c, "throttled", s)
    BY <1>1, MovesAway DEF Places, Waiting
<1>2. CASE s.free > 0 /\ Moves(c, "calling", [s EXCEPT !.free = @ - 1])
  <2> DEFINE r == [s EXCEPT !.free = @ - 1]
  <2>1. r = [free |-> s.free - 1, queue |-> s.queue, granted |-> s.granted]
    BY DEF Gone
  <2> HIDE DEF r
  <2>2. /\ r.free = s.free - 1 /\ r.queue = s.queue /\ r.granted = s.granted
        /\ Moves(c, "calling", r)
    BY <1>2, <2>1 DEF r
  <2>3. /\ PlacesOK' /\ pc'[c] = "calling"
        /\ Holders' = IF Holds(c)' THEN h \cup {c} ELSE h
        /\ Queued' = Queued \ ({c} \cup s.granted)
    BY <1>0, <2>2, MovesHolders DEF SemaphoreInv, PlacesOK, Places, Upstream
  <2>4. Holders' = h \cup {c}
    BY <2>3 DEF Holds
  <2> HIDE DEF h
  <2>5. free' = s.free - 1 /\ queue' = s.queue
    BY <2>2 DEF Moves
  <2>6. Balanced(h \cup {c}, s.free - 1, s.queue)
    <3>1. /\ IsFiniteSet(h \cup {c}) /\ Cardinality(h) \in Nat
          /\ Cardinality(h \cup {c}) = Cardinality(h) + 1
      BY <1>0, FS_AddElement, FS_CardinalityType DEF Balanced
    <3>2. s.free \in Nat /\ s.queue = <<>>
      BY <1>0, <1>2 DEF Balanced
    <3>3. s.free - 1 \in Nat /\ (s.free - 1) + Cardinality(h \cup {c}) = MaxConcurrent
      BY <1>0, <1>2, <3>1, <3>2 DEF Balanced
    <3>4. ToSet(s.queue) = {}
      BY <3>2 DEF ToSet
    <3> QED
      BY <1>0, <3>1, <3>2, <3>3, <3>4 DEF Balanced
  <2> QED
    BY <1>0, <2>3, <2>4, <2>5, <2>6 DEF SemaphoreInv
<1>3. CASE s.free = 0 /\ Moves(c, "queued", [s EXCEPT !.queue = Append(@, c)])
  <2> DEFINE r == [s EXCEPT !.queue = Append(@, c)]
             q == Append(s.queue, c)
  <2>1. r = [free |-> s.free, queue |-> q, granted |-> s.granted]
    BY DEF Gone
  <2> HIDE DEF r
  <2>2. /\ r.free = s.free /\ r.queue = q /\ r.granted = s.granted
        /\ Moves(c, "queued", r)
    BY <1>3, <2>1 DEF r
  <2>3. /\ PlacesOK' /\ pc'[c] = "queued"
        /\ Holders' = IF Holds(c)' THEN h \cup {c} ELSE h
        /\ Queued' = (Queued \ ({c} \cup s.granted)) \cup {c}
    BY <1>0, <2>2, MovesHolders DEF SemaphoreInv, PlacesOK, Places, Waiting
  <2>4. Holders' = h
    BY <2>3 DEF Holds
  <2>5. free' = 0 /\ queue' = q
    BY <1>3, <2>2 DEF Moves
  <2>6. c \notin ToSet(s.queue)
    BY <1>0
  <2>7. q \in Seq(Calls) /\ Distinct(q) /\ ToSet(q) = ToSet(s.queue) \cup {c}
    BY <1>0, <2>6, AppendWaiter DEF Balanced
  <2> HIDE DEF q, h
  <2>8. Balanced(h, 0, q)
    BY <1>0, <1>3, <2>7 DEF Balanced
  <2> QED
    BY <1>0, <2>3, <2>4, <2>5, <2>7, <2>8 DEF SemaphoreInv
<1> QED
    BY <1>1, <1>2, <1>3 DEF PassWindow

LEMMA AcquireKeeps ==
    ASSUME SemaphoreInv, NEW c \in Calls, NEW s, Gone(c, s), NEW t,
           PassPause(c, s, t), streaming' = streaming
    PROVE  SemaphoreInv'
<1>1. CASE Moves(c, "cooling", s)
    BY <1>1, MovesAway DEF Places, Waiting
<1>2. CASE PassWindow(c, s, t)
    BY <1>2, WindowKeeps
<1> QED
    BY <1>1, <1>2 DEF PassPause

LEMMA EndKeeps ==
    ASSUME SemaphoreInv, NEW c \in Calls, NEW p \in Ended, Ends(c, p),
           streaming' = streaming
    PROVE  SemaphoreInv'
<1>1. p \in Places /\ p \notin {"queued", "granted", "calling", "first"}
      /\ p # "backoff" /\ p # "flowing"
    BY DEF Places, Ended
<1> QED
    BY <1>1, DroppedGone, MovesAway DEF Ends

LEMMA RetryKeeps ==
    ASSUME SemaphoreInv, NEW c \in Calls, pc[c] \in Upstream,
           NEW retryable, RetryOrRaise(c, retryable), streaming' = streaming
    PROVE  SemaphoreInv'
<1>1. CASE Ends(c, "failed")
    BY <1>1, EndKeeps DEF Ended
<1>2. CASE streaming[c] /\ Moves(c, "backoff", Dropped(c))
    BY <1>2, DroppedGone, MovesAway DEF Places
<1>3. CASE ~streaming[c] /\ Moves(c, "backoff", Kept)
  <2>1. Holds(c)
    BY <1>3 DEF Holds, Upstream, SemaphoreInv, PlacesOK
  <2> QED
    BY <1>3, <2>1, MovesHolding DEF SemaphoreInv, PlacesOK, Places
<1> QED
    BY <1>1, <1>2, <1>3 DEF RetryOrRaise

-----------------------------------------------------------------------------

LEMMA InitSemaphore == Init => SemaphoreInv
<1> SUFFICES ASSUME Init PROVE SemaphoreInv
    OBVIOUS
<1>1. Holders = {} /\ Queued = {} /\ PlacesOK
    BY DEF Init, Holders, Holds, Queued, PlacesOK, Places
<1>2. Balanced({}, MaxConcurrent, <<>>)
    BY FS_EmptySet, LimiterAssumption DEF Balanced, Distinct, ToSet
<1>3. ToSet(<<>>) = {}
    BY DEF ToSet
<1> QED
    BY <1>1, <1>2, <1>3 DEF SemaphoreInv, Init

LEMMA NextSemaphore == SemaphoreInv /\ [Next]_vars => SemaphoreInv'
<1> SUFFICES ASSUME SemaphoreInv, [Next]_vars PROVE SemaphoreInv'
    OBVIOUS
<1> USE DEF callVars, limitVars
<1>1. ASSUME UNCHANGED <<pc, streaming, free, queue>> PROVE SemaphoreInv'
    BY <1>1 DEF SemaphoreInv, PlacesOK, Holders, Queued, Holds
<1>2. ASSUME NEW c \in Calls, Start(c) PROVE SemaphoreInv'
    BY <1>2, KeptGone, AcquireKeeps DEF Start, Acquire, Holds
<1>3. ASSUME NEW c \in Calls, Runs(c) PROVE SemaphoreInv'
  <2>1. CASE WakeFromPause(c)
    BY <2>1, KeptGone, AcquireKeeps DEF WakeFromPause, Holds
  <2>2. CASE WakeFromWindow(c)
    BY <2>2, KeptGone, WindowKeeps DEF WakeFromWindow, Holds
  <2>3. CASE Granted(c)
    BY <2>3, MovesHolding DEF Granted, Holds, SemaphoreInv, PlacesOK, Places,
                              Upstream
  <2>4. CASE AcquireTimesOut(c)
    BY <2>4, EndKeeps DEF AcquireTimesOut, Ended
  <2>5. CASE BackoffEnds(c)
    BY <2>5, DroppedGone, AcquireKeeps DEF BackoffEnds, Acquire
  <2> QED
    BY <1>3, <2>1, <2>2, <2>3, <2>4, <2>5 DEF Runs
<1>4. ASSUME NEW c \in Calls, Answered(c) PROVE SemaphoreInv'
  <2>1. CASE Succeeds(c)
    BY <2>1, EndKeeps DEF Succeeds, Ended
  <2>2. CASE StreamOpens(c)
    <3>1. /\ pc[c] = "calling" /\ Moves(c, "first", Kept)
          /\ streaming' = [streaming EXCEPT ![c] = TRUE]
      BY <2>2 DEF StreamOpens
    <3> QED
      BY <3>1, MovesHolding DEF Holds, SemaphoreInv, PlacesOK, Places, Upstream
  <2>3. CASE FirstChunk(c)
    <3>1. Holds(c) /\ streaming[c] /\ Moves(c, "flowing", Freed)
          /\ streaming' = streaming
      BY <2>3 DEF FirstChunk, Holds, SemaphoreInv, PlacesOK
    <3>2. Gone(c, Freed)
      BY <3>1, FreedGone DEF SemaphoreInv
    <3> QED
      BY <3>1, <3>2, MovesAway DEF Places, Upstream
  <2>4. CASE Reinjects(c)
    BY <2>4, <1>1, DroppedGone, AcquireKeeps DEF Reinjects, Acquire
  <2>5. ASSUME NEW retryable \in BOOLEAN, Fails(c, retryable)
        PROVE  SemaphoreInv'
    BY <2>5, RetryKeeps DEF Fails
  <2>6. ASSUME NEW r \in RetryAfters, RateLimited(c, r)
        PROVE  SemaphoreInv'
    BY <2>6, RetryKeeps, EndKeeps DEF RateLimited, Ended
  <2> QED
    BY <1>4, <2>1, <2>2, <2>3, <2>4, <2>5, <2>6 DEF Answered
<1>5. ASSUME NEW c \in Calls, Cancelled(c) PROVE SemaphoreInv'
    BY <1>5, EndKeeps DEF Cancelled, Ended
<1>6. CASE Tick
    BY <1>6, <1>1 DEF Tick
<1>7. CASE UNCHANGED vars
    BY <1>7, <1>1 DEF vars
<1> QED
    BY <1>2, <1>3, <1>4, <1>5, <1>6, <1>7 DEF Next

-----------------------------------------------------------------------------

\* The inductive invariant of the semaphore holds in every reachable state.
THEOREM SemaphoreInvariance == Spec => []SemaphoreInv
BY InitSemaphore, NextSemaphore, PTL DEF Spec

\* Whatever answers, timeouts, retries and cancellations do, acquire() and the
\* finally clauses of __call__, _wrap_stream and _consume_stream_with_slot
\* neither lose a place of the semaphore nor give one back twice.
THEOREM NoPlaceIsLost == Spec => []SlotsConserved
<1>1. SemaphoreInv => SlotsConserved
    BY DEF SemaphoreInv, Balanced, Holders, SlotsConserved
<1> QED
    BY <1>1, SemaphoreInvariance, PTL

\* Whoever waits for the semaphore is among its waiters, once, and waits only
\* while no place is free.
THEOREM WaitersAreServed == Spec => []NoLostWakeup
<1>1. SemaphoreInv => NoLostWakeup
  <2> SUFFICES ASSUME SemaphoreInv PROVE NoLostWakeup
    OBVIOUS
  <2>1. /\ queue \in Seq(Calls) /\ Distinct(queue) /\ Len(queue) \in Nat
        /\ queue # <<>> => free = 0
        /\ ToSet(queue) = {c \in Calls : pc[c] = "queued"}
    BY DEF SemaphoreInv, Balanced, Queued
  <2> DEFINE S == 1..Len(queue)
             f == [i \in S |-> queue[i]]
  <2>2. IsFiniteSet(S) /\ Cardinality(S) = Len(queue)
    <3> DEFINE n == Len(queue)
    <3>1. 1 \in Int /\ n \in Int /\ n \in Nat
      BY <2>1
    <3> HIDE DEF n
    <3>2. IsFiniteSet(1..n) /\ Cardinality(1..n) = IF 1 > n THEN 0 ELSE n - 1 + 1
      BY <3>1, FS_Interval
    <3> QED
      BY <3>1, <3>2 DEF n
  <2>3. f \in Bijection(S, ToSet(queue))
    <3> DEFINE T == ToSet(queue)
    <3>1. f \in [S -> T] /\ \A i \in S : f[i] = queue[i]
      BY <2>1, ToSetIs
    <3>2. \A x \in T : \E i \in S : f[i] = x
      BY <2>1, <3>1, ToSetIs
    <3>3. \A i, j \in S : f[i] = f[j] => i = j
      BY <2>1, <3>1 DEF Distinct
    <3> HIDE DEF f, S, T
    <3>4. f \in Injection(S, T)
      BY <3>1, <3>3 DEF Injection, IsInjective
    <3>5. f \in Surjection(S, T)
      BY <3>1, <3>2 DEF Surjection
    <3> QED
      BY <3>4, <3>5 DEF Bijection, T
  <2>4. Cardinality(ToSet(queue)) = Cardinality(S)
    BY <2>2, <2>3, FS_Bijection DEF ExistsBijection
  <2> QED
    BY <2>1, <2>2, <2>4 DEF NoLostWakeup
<1> QED
    BY <1>1, SemaphoreInvariance, PTL

-----------------------------------------------------------------------------
(* The sliding window.  What leaves it is taken from the left, which is      *)
(* right because the claims lie in the order in which they were made.        *)

Sorted(ages) == \A i, j \in 1..Len(ages) : i <= j => ages[i] >= ages[j]

LEMMA LeastOf ==
    ASSUME NEW T, T \subseteq Nat, T # {}
    PROVE  \E n \in T : \A m \in T : n <= m
<1> DEFINE R == OpToRel(<, Nat)
<1>1. IsWellFoundedOn(R, Nat)
    BY NatLessThanWellFounded
<1>2. \A x, y \in Nat : x < y => <<x, y>> \in R
    BY DEF OpToRel
<1> HIDE DEF R
<1>3. PICK n \in T : \A m \in T : ~ (<<m, n>> \in R)
    BY <1>1, WFMin
<1>4. n \in Nat /\ \A m \in T : m \in Nat
    OBVIOUS
<1>5. \A m \in T : ~ (m < n)
    BY <1>2, <1>3, <1>4
<1>6. \A m \in T : n <= m
    BY <1>4, <1>5
<1> QED
    BY <1>6

LEMMA EvictedIs ==
    ASSUME NEW q \in Seq(0..Window)
    PROVE  /\ Evicted(q) \in 0..Len(q)
           /\ Evicted(q) < Len(q) => q[Evicted(q) + 1] + 1 <= Window
<1>1. /\ Len(q) \in Nat /\ Window \in Nat
      /\ \A i \in 1..Len(q) : q[i] \in 0..Window
    BY LimiterAssumption
<1> DEFINE T == {n \in 0..Len(q) : n < Len(q) => q[n + 1] + 1 <= Window}
<1>2. T \subseteq Nat /\ Len(q) \in T
    BY <1>1
<1>3. PICK n \in T : \A m \in T : n <= m
    <2> HIDE DEF T
    <2> QED
      BY <1>2, LeastOf
<1>4. n \in 0..Len(q) /\ (n < Len(q) => q[n + 1] + 1 <= Window)
    BY <1>3
<1>5. ASSUME NEW i \in 1..n
      PROVE  q[i] + 1 > Window
  <2>1. /\ i - 1 \in 0..Len(q) /\ i - 1 < Len(q)
        /\ (i - 1) + 1 = i /\ ~(n <= i - 1)
    BY <1>1, <1>4
  <2>2. i - 1 \notin T
    BY <1>3, <2>1
  <2>3. ~(q[i] + 1 <= Window)
    BY <2>1, <2>2
  <2>4. q[i] \in Nat
    BY <1>1, <1>4
  <2> QED
    BY <1>1, <2>3, <2>4
<1> HIDE DEF T
<1>6. \E m \in 0..Len(q) : /\ \A i \in 1..m : q[i] + 1 > Window
                           /\ m < Len(q) => q[m + 1] + 1 <= Window
    BY <1>4, <1>5
<1> QED
    BY <1>6 DEF Evicted

\* Once the expired claims have been taken from the left, all that are left
\* are in the window, in order.
LEMMA OlderInWindow ==
    ASSUME NEW q \in Seq(0..Window), Sorted(q)
    PROVE  Older(q) \in Seq(0..Window) /\ Sorted(Older(q))
<1> DEFINE g == [i \in 1..Len(q) |-> q[i] + 1]
           k == Evicted(q)
           w == SubSeq(g, k + 1, Len(q))
<1>1. /\ Len(q) \in Nat /\ Window \in Nat
      /\ \A i \in 1..Len(q) : q[i] \in 0..Window
    BY LimiterAssumption
<1>2. k \in 0..Len(q) /\ (k < Len(q) => q[k + 1] + 1 <= Window)
    BY EvictedIs
<1> HIDE DEF k
<1>3. \A i \in (k + 1)..Len(q) : g[i] = q[i] + 1 /\ g[i] \in 0..Window
  <2> TAKE i \in (k + 1)..Len(q)
  <2>1. i \in 1..Len(q) /\ k + 1 \in 1..Len(q) /\ k < Len(q) /\ k + 1 <= i
    BY <1>1, <1>2
  <2>2. q[k + 1] >= q[i]
    BY <2>1 DEF Sorted
  <2>3. g[i] = q[i] + 1
    BY <2>1
  <2> HIDE DEF g
  <2>4. /\ q[k + 1] \in Nat /\ q[i] \in Nat /\ Window \in Nat
        /\ q[k + 1] + 1 <= Window
    BY <1>1, <1>2, <2>1
  <2> QED
    BY <2>2, <2>3, <2>4
<1>4. /\ w \in Seq(0..Window) /\ Len(w) = Len(q) - k
      /\ \A i \in 1..(Len(q) - k) : w[i] = g[k + i]
  <2>1. k + 1 \in Int /\ Len(q) \in Int /\ g \in Seq(Nat)
    <3>1. \A i \in 1..Len(q) : g[i] \in Nat
      BY <1>1
    <3> QED
      BY <1>1, <1>2, <3>1
  <2> HIDE DEF g
  <2>2. \A i \in (k + 1)..Len(q) : g[i] \in 0..Window
    BY <1>3
  <2>3. /\ w \in Seq(0..Window)
        /\ Len(w) = IF k + 1 <= Len(q) THEN Len(q) - (k + 1) + 1 ELSE 0
        /\ \A i \in 1..(Len(q) - (k + 1) + 1) : w[i] = g[(k + 1) + i - 1]
    BY <2>1, <2>2, SubSeqProperties
  <2> HIDE DEF w
  <2>4. \A i \in 1..(Len(q) - k) : (k + 1) + i - 1 = k + i
    BY <1>2
  <2> QED
    BY <1>1, <1>2, <2>3, <2>4
<1>5. Older(q) = w
    BY DEF Older, k
<1> HIDE DEF g, w
<1>6. Sorted(w)
  <2> SUFFICES ASSUME NEW i \in 1..Len(w), NEW j \in 1..Len(w), i <= j
               PROVE  w[i] >= w[j]
    BY DEF Sorted
  <2>1. k + i \in (k + 1)..Len(q) /\ k + j \in (k + 1)..Len(q) /\ k + i <= k + j
    BY <1>1, <1>2, <1>4
  <2>2. k + i \in 1..Len(q) /\ k + j \in 1..Len(q)
    BY <1>1, <1>2, <2>1
  <2>3. q[k + i] >= q[k + j] /\ q[k + i] \in Nat /\ q[k + j] \in Nat
    BY <1>1, <2>1, <2>2 DEF Sorted
  <2>4. w[i] = q[k + i] + 1 /\ w[j] = q[k + j] + 1
    BY <1>3, <1>4, <2>1
  <2> QED
    BY <2>3, <2>4
<1> QED
    BY <1>4, <1>5, <1>6

LEMMA ClaimMade ==
    ASSUME NEW q \in Seq(0..Window), Sorted(q)
    PROVE  Append(q, 0) \in Seq(0..Window) /\ Sorted(Append(q, 0))
<1> DEFINE w == Append(q, 0)
<1>1. Window \in Nat /\ \A i \in 1..Len(q) : q[i] \in 0..Window
    BY LimiterAssumption
<1>2. /\ w \in Seq(0..Window) /\ Len(q) \in Nat /\ Len(w) = Len(q) + 1
      /\ \A i \in 1..Len(q) : w[i] = q[i]
      /\ w[Len(q) + 1] = 0
    BY <1>1
<1> HIDE DEF w
<1>3. \A i \in 1..Len(w) : w[i] \in 0..Window /\ w[i] >= 0
    BY <1>1, <1>2
<1>4. Sorted(w)
  <2> SUFFICES ASSUME NEW i \in 1..Len(w), NEW j \in 1..Len(w), i <= j
               PROVE  w[i] >= w[j]
    BY DEF Sorted
  <2>1. CASE j = Len(q) + 1
    BY <1>2, <1>3, <2>1
  <2>2. CASE j # Len(q) + 1
    <3>1. i \in 1..Len(q) /\ j \in 1..Len(q)
      BY <1>2, <2>2
    <3> QED
      BY <1>2, <3>1 DEF Sorted
  <2> QED
    BY <2>1, <2>2
<1> QED
    BY <1>2, <1>4 DEF w

-----------------------------------------------------------------------------
(* The state of the calls and of the limits.  A call sleeps before a retry   *)
(* only when it has an attempt left.                                         *)

LimitsOK ==
    /\ sleep  \in [Calls -> Nat]
    /\ left   \in [Calls -> 0 .. AcquireTimeout]
    /\ claims \in Seq(0 .. Window) /\ Sorted(claims)

CountsOK ==
    /\ attempt  \in [Calls -> 1 .. Attempts]
    /\ injected \in [Calls -> BOOLEAN]
    /\ \A c \in Calls : pc[c] = "backoff" => attempt[c] < Attempts

PauseOK == pause \in 0 .. MaxPause /\ barred \in [Calls -> Nat]

TimersInv == LimitsOK /\ CountsOK /\ PauseOK

LEMMA Timings ==
    /\ Window \in Nat /\ Jitter \in Nat /\ AcquireTimeout \in Nat
    /\ Backoff \in Nat /\ MaxPause \in Nat /\ RetryAfters \subseteq Nat
    /\ MaxQpm \in Nat \ {0} /\ Attempts \in Nat \ {0}
BY LimiterAssumption

\* No one starts to sleep before a retry but the call that moves there.
LEMMA MovesBackoff ==
    ASSUME NEW c \in Calls, NEW p, NEW s, Moves(c, p, s)
    PROVE  /\ \A d \in Calls : pc'[d] = "backoff"
                  => IF d = c THEN p = "backoff" ELSE pc[d] = "backoff"
           /\ pc'[c] = p
BY DEF Moves

LEMMA WindowLimits ==
    ASSUME LimitsOK, NEW c \in Calls, NEW s, NEW t \in 0 .. AcquireTimeout,
           PassWindow(c, s, t)
    PROVE  /\ LimitsOK'
           /\ \A d \in Calls : pc'[d] = "backoff" => pc[d] = "backoff" /\ d # c
<1> USE Timings
<1>1. CASE /\ Len(claims) >= MaxQpm
           /\ Moves(c, "throttled", s)
           /\ sleep' = [sleep EXCEPT ![c] = Window - Head(claims) + 1]
           /\ left'  = [left EXCEPT ![c] = t]
           /\ UNCHANGED claims
  <2>1. claims # <<>> /\ Head(claims) \in 0 .. Window
    BY <1>1 DEF LimitsOK
  <2>2. Window - Head(claims) + 1 \in Nat
    BY <2>1
  <2>3. sleep' \in [Calls -> Nat] /\ left' \in [Calls -> 0 .. AcquireTimeout]
    BY <1>1, <2>2 DEF LimitsOK
  <2>4. LimitsOK'
    BY <1>1, <2>3 DEF LimitsOK
  <2> QED
    BY <1>1, <2>4, MovesBackoff
<1>2. CASE /\ claims' = Append(claims, 0)
           /\ sleep'  = [sleep EXCEPT ![c] = 0]
           /\ \/ /\ Moves(c, "calling", [s EXCEPT !.free = @ - 1])
                 /\ left' = [left EXCEPT ![c] = 0]
              \/ /\ Moves(c, "queued", [s EXCEPT !.queue = Append(@, c)])
                 /\ left' = [left EXCEPT ![c] = t]
  <2>1. claims' \in Seq(0 .. Window) /\ Sorted(claims)'
    BY <1>2, ClaimMade DEF LimitsOK
  <2>2. sleep' \in [Calls -> Nat]
    BY <1>2 DEF LimitsOK
  <2>3. left' \in [Calls -> 0 .. AcquireTimeout]
    <3>1. \/ left' = [left EXCEPT ![c] = 0]
          \/ left' = [left EXCEPT ![c] = t]
      BY <1>2
    <3>2. 0 \in 0 .. AcquireTimeout /\ left \in [Calls -> 0 .. AcquireTimeout]
      BY DEF LimitsOK
    <3> QED
      BY <3>1, <3>2
  <2>4. LimitsOK'
    BY <2>1, <2>2, <2>3 DEF LimitsOK
  <2> QED
    BY <1>2, <2>4, MovesBackoff
<1> QED
    BY <1>1, <1>2 DEF PassWindow

LEMMA PauseLimits ==
    ASSUME LimitsOK, PauseOK, NEW c \in Calls, NEW s,
           NEW t \in 0 .. AcquireTimeout, PassPause(c, s, t)
    PROVE  /\ LimitsOK'
           /\ \A d \in Calls : pc'[d] = "backoff" => pc[d] = "backoff" /\ d # c
<1>1. CASE /\ \E j \in 0 .. Jitter : sleep' = [sleep EXCEPT ![c] = pause + j]
           /\ left' = [left EXCEPT ![c] = t]
           /\ Moves(c, "cooling", s)
           /\ UNCHANGED claims
  <2>1. PICK j \in 0 .. Jitter : sleep' = [sleep EXCEPT ![c] = pause + j]
    BY <1>1
  <2>2. pause + j \in Nat
    BY Timings DEF PauseOK
  <2>3. sleep' \in [Calls -> Nat] /\ left' \in [Calls -> 0 .. AcquireTimeout]
    BY <1>1, <2>1, <2>2 DEF LimitsOK
  <2>4. LimitsOK'
    BY <1>1, <2>3 DEF LimitsOK
  <2> QED
    BY <1>1, <2>4, MovesBackoff
<1>2. CASE PassWindow(c, s, t)
    BY <1>2, WindowLimits
<1> QED
    BY <1>1, <1>2 DEF PassPause

LEMMA AcquireTimers ==
    ASSUME LimitsOK, PauseOK, NEW c \in Calls, NEW s, Acquire(c, s)
    PROVE  /\ LimitsOK' /\ PauseOK'
           /\ \A d \in Calls : pc'[d] = "backoff" => pc[d] = "backoff" /\ d # c
<1>1. Larger(barred[c], pause) \in Nat
    BY Timings DEF PauseOK, Larger
<1>2. PauseOK'
    BY <1>1 DEF PauseOK, Acquire
<1>3. AcquireTimeout \in 0 .. AcquireTimeout /\ PassPause(c, s, AcquireTimeout)
    BY Timings DEF Acquire
<1> QED
    BY <1>2, <1>3, PauseLimits

LEMMA EndTimers ==
    ASSUME LimitsOK, NEW c \in Calls, NEW p \in Ended, Ends(c, p),
           UNCHANGED claims
    PROVE  /\ LimitsOK'
           /\ \A d \in Calls : pc'[d] = "backoff" => pc[d] = "backoff" /\ d # c
<1>1. LimitsOK'
    BY Timings DEF LimitsOK, Ends
<1>2. Moves(c, p, Dropped(c)) /\ p # "backoff"
    BY DEF Ends, Ended
<1> QED
    BY <1>1, <1>2, MovesBackoff

LEMMA RetryTimers ==
    ASSUME LimitsOK, CountsOK, NEW c \in Calls, NEW retryable,
           RetryOrRaise(c, retryable), UNCHANGED <<claims, attempt, injected>>
    PROVE  LimitsOK' /\ CountsOK'
<1>1. CASE Ends(c, "failed")
  <2>1. "failed" \in Ended
    BY DEF Ended
  <2> QED
    BY <1>1, <2>1, EndTimers DEF CountsOK
<1>2. CASE /\ attempt[c] < Attempts
           /\ Moves(c, "backoff", IF streaming[c] THEN Dropped(c) ELSE Kept)
           /\ sleep' = [sleep EXCEPT ![c] = Backoff]
           /\ left'  = [left EXCEPT ![c] = 0]
  <2>1. LimitsOK'
    BY <1>2, Timings DEF LimitsOK
  <2>2. \A d \in Calls : pc'[d] = "backoff" => d = c \/ pc[d] = "backoff"
    BY <1>2, MovesBackoff
  <2> QED
    BY <1>2, <2>1, <2>2 DEF CountsOK
<1> QED
    BY <1>1, <1>2 DEF RetryOrRaise

LEMMA ReportTimers ==
    ASSUME PauseOK, NEW c \in Calls, NEW r \in RetryAfters, Report(c, r)
    PROVE  PauseOK'
<1>1. r \in Nat /\ pause \in 0 .. MaxPause /\ MaxPause \in Nat
    BY Timings DEF PauseOK
<1>2. Smaller(r, MaxPause) \in 0 .. MaxPause
    BY <1>1 DEF Smaller
<1>3. pause' \in 0 .. MaxPause
    BY <1>1, <1>2 DEF Report, Larger
<1>4. \A d \in Calls : /\ Larger(barred[d], r) \in Nat
                       /\ Larger(barred[d], pause') \in Nat
    BY <1>1, <1>3 DEF PauseOK, Larger
<1> QED
    BY <1>3, <1>4 DEF PauseOK, Report

LEMMA LessIs ==
    ASSUME NEW S, NEW n \in Nat, NEW f \in [S -> 0 .. n]
    PROVE  Less(f) \in [S -> 0 .. n]
BY DEF Less

LEMMA LessNat ==
    ASSUME NEW S, NEW f \in [S -> Nat]
    PROVE  Less(f) \in [S -> Nat]
BY DEF Less

-----------------------------------------------------------------------------

LEMMA InitTimers == Init => TimersInv
<1> SUFFICES ASSUME Init PROVE TimersInv
    OBVIOUS
<1>1. claims \in Seq(0 .. Window) /\ Sorted(claims)
    BY DEF Init, Sorted
<1> QED
    BY <1>1, Timings DEF Init, TimersInv, LimitsOK, CountsOK, PauseOK

LEMMA NextTimers == TimersInv /\ [Next]_vars => TimersInv'
<1> SUFFICES ASSUME TimersInv, [Next]_vars PROVE TimersInv'
    OBVIOUS
<1> USE Timings DEF callVars, limitVars
<1>0. LimitsOK /\ CountsOK /\ PauseOK
    BY DEF TimersInv
<1>p. ASSUME UNCHANGED <<pause, barred>> PROVE PauseOK'
    BY <1>0, <1>p DEF PauseOK
<1>c. ASSUME NEW c \in Calls, UNCHANGED <<attempt, injected>>,
             \A d \in Calls : pc'[d] = "backoff" => pc[d] = "backoff" /\ d # c
      PROVE  CountsOK'
    BY <1>0, <1>c DEF CountsOK
<1>s. ASSUME UNCHANGED <<sleep, left, claims>> PROVE LimitsOK'
    BY <1>0, <1>s DEF LimitsOK
<1>l. \A c \in Calls : left[c] \in 0 .. AcquireTimeout
    BY <1>0 DEF LimitsOK
<1>e. {"done", "failed", "cancelled"} \subseteq Ended
    BY DEF Ended
<1>1. ASSUME NEW c \in Calls, Start(c) PROVE TimersInv'
  <2>1. Acquire(c, Kept) /\ UNCHANGED <<attempt, injected>>
    BY <1>1 DEF Start
  <2> QED
    BY <1>0, <2>1, <1>c, AcquireTimers DEF TimersInv
<1>2. ASSUME NEW c \in Calls, WakeFromPause(c) PROVE TimersInv'
  <2>1. /\ PassPause(c, Kept, left[c])
        /\ UNCHANGED <<attempt, injected, pause, barred>>
    BY <1>2 DEF WakeFromPause
  <2> QED
    BY <1>0, <1>c, <1>p, <1>l, <2>1, PauseLimits DEF TimersInv
<1>3. ASSUME NEW c \in Calls, WakeFromWindow(c) PROVE TimersInv'
  <2>1. /\ PassWindow(c, Kept, left[c])
        /\ UNCHANGED <<attempt, injected, pause, barred>>
    BY <1>3 DEF WakeFromWindow
  <2> QED
    BY <1>0, <1>c, <1>p, <1>l, <2>1, WindowLimits DEF TimersInv
<1>4. ASSUME NEW c \in Calls, Granted(c) PROVE TimersInv'
  <2>1. /\ Moves(c, "calling", Kept) /\ left' = [left EXCEPT ![c] = 0]
        /\ UNCHANGED <<attempt, injected, sleep, pause, claims, barred>>
    BY <1>4 DEF Granted
  <2>2. LimitsOK'
    BY <1>0, <2>1 DEF LimitsOK
  <2> QED
    BY <1>c, <1>p, <2>1, <2>2, MovesBackoff DEF TimersInv
<1>5. ASSUME NEW c \in Calls, NEW p \in {"done", "failed", "cancelled"},
             Ends(c, p), UNCHANGED <<attempt, injected, pause, claims, barred>>
      PROVE  TimersInv'
    BY <1>0, <1>5, <1>c, <1>p, <1>e, EndTimers DEF TimersInv
<1>6. ASSUME NEW c \in Calls, BackoffEnds(c) PROVE TimersInv'
  <2>1. /\ pc[c] = "backoff" /\ attempt' = [attempt EXCEPT ![c] = @ + 1]
        /\ Acquire(c, Dropped(c)) /\ UNCHANGED injected
    BY <1>6 DEF BackoffEnds
  <2>2. /\ LimitsOK' /\ PauseOK'
        /\ \A d \in Calls : pc'[d] = "backoff" => pc[d] = "backoff" /\ d # c
    BY <1>0, <2>1, AcquireTimers
  <2>3. attempt[c] + 1 \in 1 .. Attempts
    BY <1>0, <2>1 DEF CountsOK
  <2>4. CountsOK'
    BY <1>0, <2>1, <2>2, <2>3 DEF CountsOK
  <2> QED
    BY <2>2, <2>4 DEF TimersInv
<1>7. ASSUME NEW c \in Calls, StreamOpens(c) \/ FirstChunk(c) PROVE TimersInv'
  <2>1. PICK p \in {"first", "flowing"}, s \in {Kept, Freed} : Moves(c, p, s)
    BY <1>7 DEF StreamOpens, FirstChunk
  <2>2. UNCHANGED <<attempt, injected, sleep, left, pause, claims, barred>>
    BY <1>7 DEF StreamOpens, FirstChunk
  <2> QED
    BY <1>c, <1>p, <1>s, <2>1, <2>2, MovesBackoff DEF TimersInv
<1>8. ASSUME NEW c \in Calls, Reinjects(c) PROVE TimersInv'
  <2>1. pc[c] # "backoff" /\ injected' = [injected EXCEPT ![c] = TRUE]
        /\ UNCHANGED attempt
    BY <1>8 DEF Reinjects, Upstream
  <2>2. /\ LimitsOK' /\ PauseOK'
        /\ \A d \in Calls : pc'[d] = "backoff" => pc[d] = "backoff" /\ d # c
    <3>1. CASE UNCHANGED <<pc, sleep, left, limitVars, barred>>
      BY <1>p, <1>s, <2>1, <3>1
    <3>2. CASE Acquire(c, Dropped(c))
      BY <1>0, <3>2, AcquireTimers
    <3> QED
      BY <1>8, <3>1, <3>2 DEF Reinjects
  <2>3. CountsOK'
    BY <1>0, <2>1, <2>2 DEF CountsOK
  <2> QED
    BY <2>2, <2>3 DEF TimersInv
<1>9. ASSUME NEW c \in Calls, NEW retryable \in BOOLEAN, Fails(c, retryable)
      PROVE  TimersInv'
    BY <1>0, <1>9, <1>p, RetryTimers DEF Fails, TimersInv
<1>10. ASSUME NEW c \in Calls, NEW r \in RetryAfters, RateLimited(c, r)
       PROVE  TimersInv'
  <2>1. UNCHANGED <<attempt, injected, claims>>
    BY <1>10 DEF RateLimited
  <2>2. CASE Ends(c, "failed") /\ UNCHANGED <<pause, barred>>
    BY <1>5, <2>1, <2>2
  <2>3. CASE Report(c, r) /\ RetryOrRaise(c, TRUE)
    BY <1>0, <2>1, <2>3, ReportTimers, RetryTimers DEF TimersInv
  <2> QED
    BY <1>10, <2>2, <2>3 DEF RateLimited
<1>11. CASE Tick
  <2>1. /\ sleep' = Less(sleep) /\ left' = Less(left) /\ barred' = Less(barred)
        /\ pause' = (IF pause = 0 THEN 0 ELSE pause - 1)
        /\ claims' = Older(claims) /\ UNCHANGED <<pc, attempt, injected>>
    BY <1>11 DEF Tick
  <2>2. LimitsOK'
    BY <1>0, <2>1, LessIs, LessNat, OlderInWindow DEF LimitsOK
  <2>3. pause' \in 0 .. MaxPause
    BY <1>0, <2>1 DEF PauseOK
  <2>4. PauseOK'
    BY <1>0, <2>1, <2>3, LessNat DEF PauseOK
  <2>5. CountsOK'
    BY <1>0, <2>1 DEF CountsOK
  <2> QED
    BY <2>2, <2>4, <2>5 DEF TimersInv
<1>12. CASE UNCHANGED vars
    BY <1>0, <1>12 DEF vars, TimersInv, LimitsOK, CountsOK, PauseOK
<1>13. ASSUME NEW c \in Calls, Runs(c) \/ Answered(c) \/ Cancelled(c)
       PROVE  TimersInv'
  <2>1. CASE AcquireTimesOut(c) \/ Succeeds(c) \/ Cancelled(c)
    BY <1>5, <2>1 DEF AcquireTimesOut, Succeeds, Cancelled
  <2> QED
    BY <1>13, <1>2, <1>3, <1>4, <1>6, <1>7, <1>8, <1>9, <1>10, <2>1
    DEF Runs, Answered
<1> QED
    BY <1>1, <1>11, <1>12, <1>13 DEF Next

\* The counters, timers and claims keep to their bounds in every reachable
\* state.
THEOREM TimersInvariance == Spec => []TimersInv
BY InitTimers, NextTimers, PTL DEF Spec

\* The state of every call and of the limiter is one the code can build; in
\* particular no call goes beyond max_retries + 1 attempts, no pause beyond
\* MAX_PAUSE_SECONDS, and no claim outlives the window.
THEOREM LimiterTypes == Spec => []TypeOK
<1>1. SemaphoreInv /\ TimersInv => TypeOK
  <2> SUFFICES ASSUME SemaphoreInv, TimersInv PROVE TypeOK
    OBVIOUS
  <2>1. free \in 0 .. MaxConcurrent
    <3>1. /\ free \in Nat /\ free + Cardinality(Holders) = MaxConcurrent
          /\ Cardinality(Holders) \in Nat
      BY FS_CardinalityType DEF SemaphoreInv, Balanced
    <3> QED
      BY <3>1, LimiterAssumption
  <2> QED
    BY <2>1 DEF TypeOK, SemaphoreInv, Balanced, PlacesOK, TimersInv, LimitsOK,
                CountsOK, PauseOK
<1> QED
    BY <1>1, SemaphoreInvariance, TimersInvariance, PTL

-----------------------------------------------------------------------------
(* The cooldown.  A call that has yet to pass it is barred no longer than    *)
(* the pause lasts; one that has passed it is not barred at all.             *)

\* What _wrap_stream reports it also retries, whatever the 429 asked for; the
\* pause covers that only up to its cap.
WithinCap == Streams => \A r \in RetryAfters : r <= MaxPause

\* Without that, nothing is said of a call once its stream has been opened.
Excused(c) == streaming[c] /\ ~WithinCap

\* How long c may be barred.
Bar(c) == IF pc[c] \in {"cooling", "backoff"} THEN pause ELSE 0

CooldownOK ==
    \A c \in Calls : /\ pc[c] \in Ended \/ barred[c] <= Bar(c) \/ Excused(c)
                     /\ streaming[c] => Streams

Honours(c) ==
    pc[c] # "calling" /\ pc'[c] = "calling" => barred[c] = 0 \/ Excused(c)

\* Whoever is given a place of the semaphore was waiting for it.
LEMMA GivenToQueued ==
    ASSUME SemaphoreInv, NEW c \in Calls
    PROVE  \A s \in {Kept, Freed, Dropped(c)} : s.granted \subseteq Queued
<1>1. Freed.granted \subseteq Queued
  <2>1. CASE queue = <<>>
    BY <2>1 DEF Freed
  <2>2. CASE queue # <<>>
    <3>1. Freed.granted = {Head(queue)}
      BY <2>2 DEF Freed
    <3>2. Head(queue) \in ToSet(queue)
      BY <2>2, TailWaiters DEF SemaphoreInv, Balanced
    <3> QED
      BY <3>1, <3>2 DEF SemaphoreInv
  <2> QED
    BY <2>1, <2>2
<1>2. Kept.granted = {}
    BY DEF Kept
<1>3. Dropped(c).granted \subseteq Queued
    BY <1>1, <1>2 DEF Dropped, Kept
<1> QED
    BY <1>1, <1>2, <1>3

LEMMA MovesOne ==
    ASSUME NEW c \in Calls, NEW p, NEW s, s.granted \subseteq Queued,
           Moves(c, p, s)
    PROVE  /\ pc'[c] = p
           /\ \A d \in Calls \ {c} :
                 \/ pc'[d] = pc[d]
                 \/ pc[d] = "queued" /\ pc'[d] = "granted"
BY DEF Moves, Queued

\* c goes to place p; the others are barred as before.
LEMMA Settles ==
    ASSUME CooldownOK, PauseOK, NEW c \in Calls, NEW p, NEW s,
           s.granted \subseteq Queued, Moves(c, p, s), pause' = pause,
           \A d \in Calls \ {c} : /\ barred'[d] = barred[d]
                                  /\ streaming'[d] = streaming[d],
           streaming'[c] => Streams,
           \/ p \in Ended \/ Excused(c)'
           \/ barred'[c] <= IF p \in {"cooling", "backoff"} THEN pause ELSE 0,
           pc[c] # "calling" /\ p = "calling" => barred[c] = 0 \/ Excused(c)
    PROVE  CooldownOK' /\ \A d \in Calls : Honours(d)
<1>1. /\ pc'[c] = p
      /\ \A d \in Calls \ {c} : \/ pc'[d] = pc[d]
                                \/ pc[d] = "queued" /\ pc'[d] = "granted"
    BY MovesOne
<1>2. ASSUME NEW d \in Calls
      PROVE  /\ pc'[d] \in Ended \/ barred'[d] <= Bar(d)' \/ Excused(d)'
             /\ streaming'[d] => Streams
             /\ Honours(d)
  <2>1. CASE d = c
    BY <1>1, <2>1 DEF Bar, Excused, Honours
  <2>2. CASE d # c
    <3>1. /\ pc[d] \in Ended \/ barred[d] <= Bar(d) \/ Excused(d)
          /\ streaming[d] => Streams
      BY DEF CooldownOK
    <3>2. CASE pc'[d] = pc[d]
      BY <2>2, <3>1, <3>2 DEF Bar, Excused, Honours
    <3>3. CASE pc[d] = "queued" /\ pc'[d] = "granted"
      BY <2>2, <3>1, <3>3 DEF Bar, Excused, Honours, Ended
    <3> QED
      BY <1>1, <2>2, <3>2, <3>3
  <2> QED
    BY <2>1, <2>2
<1> QED
    BY <1>2 DEF CooldownOK

\* acquire() from the window on, once the pause is over for c.
LEMMA WindowHonours ==
    ASSUME SemaphoreInv, CooldownOK, PauseOK, NEW c \in Calls,
           NEW s \in {Kept, Dropped(c)}, Gone(c, s), NEW t, PassWindow(c, s, t),
           UNCHANGED <<pause, streaming>>,
           \A d \in Calls \ {c} : barred'[d] = barred[d],
           Excused(c) \/ (barred'[c] = 0 /\ barred[c] = 0)
    PROVE  CooldownOK' /\ \A d \in Calls : Honours(d)
<1>1. s.granted \subseteq Queued
    BY GivenToQueued
<1>2. \E p \in {"throttled", "calling", "queued"} :
         \E r : r.granted = s.granted /\ Moves(c, p, r)
  <2>1. s = [free |-> s.free, queue |-> s.queue, granted |-> s.granted]
    BY DEF Gone
  <2>2. /\ [s EXCEPT !.free = @ - 1].granted = s.granted
        /\ [s EXCEPT !.queue = Append(@, c)].granted = s.granted
    BY <2>1
  <2> QED
    BY <2>2 DEF PassWindow
<1>3. PICK p \in {"throttled", "calling", "queued"} :
         \E r : r.granted = s.granted /\ Moves(c, p, r)
    BY <1>2
<1>5. PICK r : r.granted = s.granted /\ Moves(c, p, r)
    BY <1>3
<1>4. (streaming'[c] => Streams) /\ (Excused(c)' <=> Excused(c))
    BY DEF CooldownOK, Excused
<1> QED
    BY <1>1, <1>4, <1>5, Settles

LEMMA PauseHonours ==
    ASSUME SemaphoreInv, CooldownOK, PauseOK, NEW c \in Calls,
           NEW s \in {Kept, Dropped(c)}, Gone(c, s), NEW t, PassPause(c, s, t),
           UNCHANGED <<pause, streaming>>,
           \A d \in Calls \ {c} : barred'[d] = barred[d],
           barred[c] \in Nat, barred'[c] \in Nat,
           Excused(c) \/ (barred[c] <= barred'[c] /\ barred'[c] <= pause)
    PROVE  CooldownOK' /\ \A d \in Calls : Honours(d)
<1>1. CASE Moves(c, "cooling", s)
  <2>1. s.granted \subseteq Queued
    BY GivenToQueued
  <2>2. (streaming'[c] => Streams) /\ (Excused(c)' <=> Excused(c))
    BY DEF CooldownOK, Excused
  <2> QED
    BY <1>1, <2>1, <2>2, Settles
<1>2. CASE pause = 0 /\ PassWindow(c, s, t)
    BY <1>2, WindowHonours
<1> QED
    BY <1>1, <1>2 DEF PassPause

LEMMA AcquireHonours ==
    ASSUME SemaphoreInv, CooldownOK, PauseOK, NEW c \in Calls,
           NEW s \in {Kept, Dropped(c)}, Gone(c, s), Acquire(c, s),
           streaming' = streaming, pc[c] \notin Ended
    PROVE  CooldownOK' /\ \A d \in Calls : Honours(d)
<1> DEFINE b == Larger(barred[c], pause)
<1>1. /\ barred[c] \in Nat /\ pause \in Nat
      /\ barred[c] <= pause \/ Excused(c)
    BY Timings DEF CooldownOK, PauseOK, Bar
<1>2. b \in Nat /\ barred[c] <= b /\ (b <= pause \/ Excused(c))
    BY <1>1 DEF Larger
<1>3. /\ barred' = [barred EXCEPT ![c] = b] /\ pause' = pause
      /\ PassPause(c, s, AcquireTimeout)
    BY DEF Acquire
<1>4. barred'[c] = b /\ \A d \in Calls \ {c} : barred'[d] = barred[d]
    BY <1>3 DEF PauseOK
<1> HIDE DEF b
<1> QED
    BY <1>1, <1>2, <1>3, <1>4, PauseHonours

LEMMA EndHonours ==
    ASSUME SemaphoreInv, CooldownOK, PauseOK, NEW c \in Calls, NEW p \in Ended,
           Ends(c, p), UNCHANGED <<pause, barred, streaming>>
    PROVE  CooldownOK' /\ \A d \in Calls : Honours(d)
<1>1. Dropped(c).granted \subseteq Queued
    BY GivenToQueued
<1>2. Moves(c, p, Dropped(c)) /\ p # "calling"
    BY DEF Ends, Ended
<1>3. streaming'[c] => Streams
    BY DEF CooldownOK
<1> QED
    BY <1>1, <1>2, <1>3, Settles

LEMMA RetryMoves ==
    ASSUME NEW c \in Calls, NEW retryable, RetryOrRaise(c, retryable)
    PROVE  \E p \in {"backoff", "failed"}, s \in {Kept, Dropped(c)} :
              Moves(c, p, s)
BY DEF RetryOrRaise, Ends

\* A 429: the new pause covers what was asked for, and everyone who has yet to
\* pass it.
LEMMA ReportHonours ==
    ASSUME SemaphoreInv, CooldownOK, PauseOK, NEW c \in Calls,
           pc[c] \in Upstream, NEW r \in RetryAfters,
           r <= MaxPause \/ Excused(c),
           Report(c, r), RetryOrRaise(c, TRUE), streaming' = streaming
    PROVE  CooldownOK' /\ \A d \in Calls : Honours(d)
<1>1. PICK p \in {"backoff", "failed"}, s \in {Kept, Dropped(c)} :
         Moves(c, p, s)
    BY RetryMoves
<1>2. /\ pc'[c] = p
      /\ \A d \in Calls \ {c} : \/ pc'[d] = pc[d]
                                \/ pc[d] = "queued" /\ pc'[d] = "granted"
    BY <1>1, GivenToQueued, MovesOne
<1>3. r \in Nat /\ pause \in Nat /\ MaxPause \in Nat
    BY Timings DEF PauseOK
<1>4. /\ pause' \in Nat /\ pause <= pause'
      /\ r <= MaxPause => r <= pause'
    BY <1>3 DEF Report, Smaller, Larger
<1>5. \A d \in Calls : barred[d] \in Nat
    BY DEF PauseOK
<1>6. \A d \in Calls :
         barred'[d] = IF d = c THEN Larger(barred[d], r)
                      ELSE IF pc[d] = "cooling" THEN Larger(barred[d], pause')
                      ELSE barred[d]
    BY DEF Report
<1>7. ASSUME NEW d \in Calls
      PROVE  /\ pc'[d] \in Ended \/ barred'[d] <= Bar(d)' \/ Excused(d)'
             /\ streaming'[d] => Streams
             /\ Honours(d)
  <2>1. /\ pc[d] \in Ended \/ barred[d] <= Bar(d) \/ Excused(d)
        /\ streaming[d] => Streams
    BY DEF CooldownOK
  <2>2. CASE d = c /\ Excused(d)
    BY <1>2, <2>1, <2>2 DEF Excused, Honours, Ended
  <2>5. CASE d = c /\ ~Excused(d)
    <3>1. barred[c] <= 0
      BY <2>1, <2>5 DEF Bar, Ended, Upstream
    <3>2. barred'[c] <= pause'
      BY <1>3, <1>4, <1>5, <1>6, <2>5, <3>1 DEF Larger
    <3> QED
      BY <1>2, <2>1, <2>5, <3>2 DEF Bar, Excused, Honours, Ended
  <2>3. CASE d # c /\ pc'[d] = pc[d]
    <3>1. CASE pc[d] \in {"cooling", "backoff"}
      <4>1. barred[d] <= pause \/ Excused(d)
        BY <2>1, <3>1 DEF Bar, Ended
      <4>2. barred'[d] <= pause' \/ Excused(d)
        BY <1>3, <1>4, <1>5, <1>6, <2>3, <4>1 DEF Larger
      <4> QED
        BY <2>1, <2>3, <3>1, <4>2 DEF Bar, Excused, Honours
    <3>2. CASE pc[d] \notin {"cooling", "backoff"}
      BY <1>6, <2>1, <2>3, <3>2 DEF Bar, Excused, Honours
    <3> QED
      BY <3>1, <3>2
  <2>4. CASE d # c /\ pc[d] = "queued" /\ pc'[d] = "granted"
    BY <1>6, <2>1, <2>4 DEF Bar, Excused, Honours, Ended
  <2> QED
    BY <1>2, <2>2, <2>3, <2>4, <2>5
<1> QED
    BY <1>7 DEF CooldownOK

-----------------------------------------------------------------------------

LEMMA InitCooldown == Init => CooldownOK
BY DEF Init, CooldownOK, Bar, Excused

LEMMA NextCooldown ==
    ASSUME SemaphoreInv, PauseOK, CooldownOK, [Next]_vars
    PROVE  CooldownOK' /\ \A d \in Calls : Honours(d)
<1> DEFINE Goal == CooldownOK' /\ \A d \in Calls : Honours(d)
<1> USE DEF callVars, limitVars
<1>0. /\ {"done", "failed", "cancelled"} \subseteq Ended
      /\ \A d \in Calls : streaming[d] => Streams
      /\ \A d \in Calls : pc[d] \in Ended \/ barred[d] <= Bar(d) \/ Excused(d)
      /\ \A d \in Calls : barred[d] \in Nat
      /\ pause \in Nat
    BY Timings DEF Ended, CooldownOK, PauseOK
<1>1. ASSUME NEW c \in Calls, Start(c) PROVE Goal
  <2>1. /\ pc[c] = "idle" /\ Acquire(c, Kept) /\ streaming' = streaming
    BY <1>1 DEF Start
  <2>2. Gone(c, Kept) /\ pc[c] \notin Ended
    BY <2>1, KeptGone DEF Holds, Ended
  <2> QED
    BY <2>1, <2>2, AcquireHonours
<1>2. ASSUME NEW c \in Calls, WakeFromPause(c) PROVE Goal
  <2>1. /\ pc[c] = "cooling" /\ PassPause(c, Kept, left[c])
        /\ UNCHANGED <<streaming, pause, barred>>
    BY <1>2 DEF WakeFromPause
  <2>2. Gone(c, Kept)
    BY <2>1, KeptGone DEF Holds
  <2>3. barred[c] <= pause \/ Excused(c)
    BY <1>0, <2>1 DEF Bar, Ended
  <2> QED
    BY <1>0, <2>1, <2>2, <2>3, PauseHonours
<1>3. ASSUME NEW c \in Calls, WakeFromWindow(c) PROVE Goal
  <2>1. /\ pc[c] = "throttled" /\ PassWindow(c, Kept, left[c])
        /\ UNCHANGED <<streaming, pause, barred>>
    BY <1>3 DEF WakeFromWindow
  <2>2. Gone(c, Kept)
    BY <2>1, KeptGone DEF Holds
  <2>3. barred[c] = 0 \/ Excused(c)
    BY <1>0, <2>1 DEF Bar, Ended
  <2> QED
    BY <2>1, <2>2, <2>3, WindowHonours
<1>4. ASSUME NEW c \in Calls, Granted(c) PROVE Goal
  <2>1. /\ pc[c] = "granted" /\ Moves(c, "calling", Kept)
        /\ UNCHANGED <<streaming, pause, barred>>
    BY <1>4 DEF Granted
  <2>2. /\ barred[c] = 0 \/ Excused(c)
        /\ Kept.granted \subseteq Queued
        /\ Excused(c)' <=> Excused(c)
    BY <1>0, <2>1, GivenToQueued DEF Bar, Ended, Excused
  <2> QED
    BY <1>0, <2>1, <2>2, Settles
<1>5. ASSUME NEW c \in Calls, NEW p \in {"done", "failed", "cancelled"},
             Ends(c, p), UNCHANGED <<streaming, pause, barred>>
      PROVE  Goal
    BY <1>0, <1>5, EndHonours
<1>6. ASSUME NEW c \in Calls, BackoffEnds(c) PROVE Goal
  <2>1. /\ pc[c] = "backoff" /\ Acquire(c, Dropped(c)) /\ streaming' = streaming
    BY <1>6 DEF BackoffEnds
  <2>2. pc[c] \notin Ended
    BY <2>1 DEF Ended
  <2> QED
    BY <2>1, <2>2, DroppedGone, AcquireHonours
<1>7. ASSUME NEW c \in Calls, StreamOpens(c) \/ FirstChunk(c) PROVE Goal
  <2>1. PICK p \in {"first", "flowing"}, s \in {Kept, Freed} : Moves(c, p, s)
    BY <1>7 DEF StreamOpens, FirstChunk
  <2>2. /\ UNCHANGED <<pause, barred>> /\ pc[c] \in {"calling", "first"}
        /\ streaming'[c] => Streams
        /\ \A d \in Calls \ {c} : streaming'[d] = streaming[d]
    BY <1>0, <1>7 DEF StreamOpens, FirstChunk, SemaphoreInv, PlacesOK
  <2>3. /\ barred[c] <= 0 \/ Excused(c)
        /\ s.granted \subseteq Queued
    BY <1>0, <2>2, GivenToQueued DEF Bar, Ended
  <2>4. Excused(c) => Excused(c)'
    BY <1>7 DEF StreamOpens, FirstChunk, SemaphoreInv, PlacesOK, Excused
  <2> QED
    BY <2>1, <2>2, <2>3, <2>4, Settles
<1>8. ASSUME NEW c \in Calls, Reinjects(c) PROVE Goal
  <2>1. CASE UNCHANGED <<pc, sleep, left, limitVars, barred>>
    <3>1. UNCHANGED <<pc, pause, barred, streaming>>
      BY <1>8, <2>1 DEF Reinjects
    <3> QED
      BY <3>1 DEF CooldownOK, Bar, Excused, Honours
  <2>2. CASE Acquire(c, Dropped(c))
    <3>1. pc[c] \notin Ended /\ streaming' = streaming
      BY <1>8 DEF Reinjects, Ended, Upstream
    <3> QED
      BY <2>2, <3>1, DroppedGone, AcquireHonours
  <2> QED
    BY <1>8, <2>1, <2>2 DEF Reinjects
<1>9. ASSUME NEW c \in Calls, NEW retryable \in BOOLEAN, Fails(c, retryable)
      PROVE  Goal
  <2>1. /\ pc[c] \in Upstream /\ RetryOrRaise(c, retryable)
        /\ UNCHANGED <<streaming, pause, barred>>
    BY <1>9 DEF Fails
  <2>2. PICK p \in {"backoff", "failed"}, s \in {Kept, Dropped(c)} :
           Moves(c, p, s)
    BY <2>1, RetryMoves
  <2>3. barred[c] <= 0 \/ Excused(c)
    BY <1>0, <2>1 DEF Bar, Ended, Upstream
  <2>4. /\ barred'[c] <= pause \/ Excused(c)'
        /\ s.granted \subseteq Queued
    BY <1>0, <2>1, <2>3, GivenToQueued DEF Excused
  <2> QED
    BY <1>0, <2>1, <2>2, <2>3, <2>4, Settles
<1>10. ASSUME NEW c \in Calls, NEW r \in RetryAfters, RateLimited(c, r)
       PROVE  Goal
  <2>1. pc[c] \in Upstream /\ streaming' = streaming
    BY <1>10 DEF RateLimited
  <2>c. streaming[c] \in BOOLEAN
    BY DEF SemaphoreInv, PlacesOK
  <2>2. CASE Ends(c, "failed") /\ UNCHANGED <<pause, barred>>
    BY <1>5, <2>1, <2>2
  <2>3. CASE /\ ~(~streaming[c] /\ r > MaxPause)
             /\ Report(c, r) /\ RetryOrRaise(c, TRUE)
    <3>1. r <= MaxPause \/ Excused(c)
      <4>1. r \in Nat /\ MaxPause \in Nat
        BY Timings
      <4>2. CASE streaming[c]
        BY <1>0, <4>2 DEF WithinCap, Excused
      <4>3. CASE ~(r > MaxPause)
        BY <4>1, <4>3
      <4> QED
        BY <2>3, <4>2, <4>3
    <3> QED
      BY <2>1, <2>3, <3>1, ReportHonours
  <2> QED
    BY <1>10, <2>2, <2>3 DEF RateLimited
<1>11. ASSUME Tick PROVE Goal
  <2>1. /\ barred' = Less(barred) /\ UNCHANGED <<pc, streaming>>
        /\ pause' = (IF pause = 0 THEN 0 ELSE pause - 1)
    BY <1>11 DEF Tick
  <2>2. \A d \in Calls : barred'[d] = IF barred[d] = 0 THEN 0 ELSE barred[d] - 1
    BY <2>1 DEF Less, PauseOK
  <2>3. ASSUME NEW d \in Calls
        PROVE  /\ pc'[d] \in Ended \/ barred'[d] <= Bar(d)' \/ Excused(d)'
               /\ streaming'[d] => Streams
               /\ Honours(d)
    <3>1. pc[d] \in Ended \/ barred[d] <= Bar(d) \/ Excused(d)
      BY <1>0
    <3>2. pc'[d] \in Ended \/ barred'[d] <= Bar(d)' \/ Excused(d)'
      BY <1>0, <2>1, <2>2, <3>1 DEF Bar, Excused
    <3> QED
      BY <1>0, <2>1, <3>2 DEF Honours
  <2> QED
    BY <2>3 DEF CooldownOK
<1>12. ASSUME UNCHANGED vars PROVE Goal
    BY <1>12 DEF vars, CooldownOK, Bar, Excused, Honours
<1>13. ASSUME NEW c \in Calls, Runs(c) \/ Answered(c) \/ Cancelled(c)
       PROVE  Goal
  <2>1. CASE AcquireTimesOut(c) \/ Succeeds(c) \/ Cancelled(c)
    BY <1>5, <2>1 DEF AcquireTimesOut, Succeeds, Cancelled
  <2> HIDE DEF Goal
  <2> QED
    BY <1>13, <1>2, <1>3, <1>4, <1>6, <1>7, <1>8, <1>9, <1>10, <2>1
    DEF Runs, Answered
<1> HIDE DEF Goal
<1>14. Goal
    BY <1>1, <1>11, <1>12, <1>13 DEF Next
<1> QED
    BY <1>14 DEF Goal

LEMMA CooldownInvariance ==
    /\ Spec => []CooldownOK
    /\ Spec => [][\A c \in Calls : Honours(c)]_vars
<1>1. SemaphoreInv /\ TimersInv /\ CooldownOK /\ [Next]_vars => CooldownOK'
    BY NextCooldown DEF TimersInv
<1>2. SemaphoreInv /\ TimersInv /\ CooldownOK /\ [Next]_vars
      => [\A c \in Calls : Honours(c)]_vars
    BY NextCooldown DEF TimersInv
<1> QED
    BY <1>1, <1>2, InitCooldown, SemaphoreInvariance, TimersInvariance, PTL
    DEF Spec

\* Provided no stream's 429 asks for more than MAX_PAUSE_SECONDS, a call that
\* got one does not go out again before the time the provider asked for, and
\* no call goes out before the end of a pause that was set before it passed
\* the cooldown of acquire().
THEOREM RetryAfterIsKept ==
    ASSUME WithinCap
    PROVE  Spec => RetryAfterHonoured
<1>1. [\A c \in Calls : Honours(c)]_vars
      => [\A c \in Calls : pc[c] # "calling" /\ pc'[c] = "calling"
                              => barred[c] = 0]_vars
    BY DEF Honours, Excused
<1> QED
    BY <1>1, CooldownInvariance, PTL DEF RetryAfterHonoured

\* Whatever 429s ask for, a call that no stream has been opened for honours it:
\* what __call__ retries, it retries after the whole Retry-After.
THEOREM RetryAfterIsKeptBeforeStreams ==
    Spec => [][\A c \in Calls :
                  pc[c] # "calling" /\ pc'[c] = "calling" /\ ~streaming[c]
                    => barred[c] = 0]_vars
<1>1. [\A c \in Calls : Honours(c)]_vars
      => [\A c \in Calls :
             pc[c] # "calling" /\ pc'[c] = "calling" /\ ~streaming[c]
               => barred[c] = 0]_vars
    BY DEF Honours, Excused
<1> QED
    BY <1>1, CooldownInvariance, PTL
=============================================================================
