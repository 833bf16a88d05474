------------------------ MODULE ApprovalService_proofs ------------------------
(* Machine-checked proofs about ApprovalService, for any number of records,  *)
(* calls and root sessions.                                                  *)
EXTENDS ApprovalService, FiniteSetTheorems, TLAPS

-----------------------------------------------------------------------------
(* The inductive invariant *)

\* Records are made in the order of their numbers, and nothing is known of one
\* that has not been made.
Creation ==
    \A r \in Requests :
        /\ call[r] = NoCall => /\ r \notin pending /\ ~old[r]
                               /\ future[r] = "none" /\ waiter[r] = "none"
        /\ call[r] # NoCall => \A q \in Requests : q < r => call[q] # NoCall

\* Only the timer or a stop takes the future from the gate without a decision.
Cut(r) == expired[r] \/ waiter[r] = "stopped"

\* A pending record has no decision; the decision to approve is on the record,
\* and is the future's, too, unless the gate had been cut off from it.
Decisions ==
    \A r \in Requests :
        /\ r \in pending => future[r] \in {"open", "cancelled"}
        /\ r \in pending => status[r] # "approved" /\ waiter[r] # "refused"
        /\ future[r] = "cancelled" => Cut(r)
        /\ future[r] = "approved" => status[r] = "approved"
        /\ status[r] = "approved" => future[r] = "approved" \/ Cut(r)
        /\ waiter[r] = "allowed" => future[r] = "approved"
        /\ waiter[r] = "refused" /\ status[r] = "approved" => expired[r]

ApprovalInv == TypeOK /\ Creation /\ Decisions /\ WaiterReachable

-----------------------------------------------------------------------------
(* The eviction spares the record that was just made. *)

LEMMA NewestStays ==
    ASSUME NEW P \in SUBSET Requests, NEW r \in P, ~old[r],
           \A q \in P : ~(q > r)
    PROVE  r \notin Evicted(P)
<1> DEFINE young == {q \in P : ~old[q]}
<1>1. {q \in young : q > r} = {}
    OBVIOUS
<1>2. Cardinality({q \in young : q > r}) = 0
    BY <1>1, FS_EmptySet
<1>3. ~(0 >= MaxPending)
    BY ApprovalConstants
<1> HIDE DEF young
<1>4. r \notin {x \in young : Cardinality({q \in young : q > x}) >= MaxPending}
    BY <1>2, <1>3
<1>5. r \notin P \ young
    BY DEF young
<1> QED
    BY <1>4, <1>5 DEF Evicted, young

LEMMA EvictedAreIn == ASSUME NEW P PROVE Evicted(P) \subseteq P
BY DEF Evicted

-----------------------------------------------------------------------------
(* One lemma per kind of step *)

LEMMA InitApproval == Init => ApprovalInv
BY DEF Init, ApprovalInv, TypeOK, Creation, Decisions, WaiterReachable,
       Status, Future, Waiter

LEMMA AskKeeps ==
    ASSUME ApprovalInv, NEW c \in Calls, NEW r \in Requests, Ask(c, r)
    PROVE  ApprovalInv'
<1> DEFINE stale == Stale(c)
           P     == (pending \ stale) \cup {r}
           gone  == Evicted(P)
<1>1. stale \subseteq pending
    BY DEF Stale
<1>2. call[r] = NoCall /\ r \notin pending /\ ~old[r]
    BY DEF Ask, ApprovalInv, Creation
<1>3. \A q \in P : ~(q > r)
    BY <1>1, <1>2, ApprovalConstants DEF ApprovalInv, TypeOK, Creation
<1>4. gone \subseteq P /\ r \notin gone
    BY <1>1, <1>2, <1>3, NewestStays, EvictedAreIn DEF ApprovalInv, TypeOK
<1> HIDE DEF stale, P, gone
<1>5. /\ pending' = P \ gone
      /\ call' = [call EXCEPT ![r] = c]
      /\ status' = [q \in Requests |-> IF q = r THEN "pending"
                                       ELSE IF q \in stale THEN "superseded"
                                       ELSE IF q \in gone THEN "timeout"
                                       ELSE status[q]]
      /\ future' = [Settle(stale \cup gone, "timeout") EXCEPT ![r] = "open"]
      /\ waiter' = [waiter EXCEPT ![r] = "waiting"]
      /\ old' = old /\ expired' = expired
      /\ \A q \in Requests : q < r => call[q] # NoCall
    BY DEF Ask, stale, P, gone
<1>6. /\ P = (pending \ stale) \cup {r} /\ pending \subseteq Requests
      /\ gone \subseteq Requests /\ P \subseteq Requests
    BY <1>1, <1>4 DEF P, ApprovalInv, TypeOK
<1>7. \A q \in Requests :
          /\ call'[q] = IF q = r THEN c ELSE call[q]
          /\ waiter'[q] = IF q = r THEN "waiting" ELSE waiter[q]
          /\ future'[q] = IF q = r THEN "open"
                          ELSE IF q \in stale \cup gone /\ future[q] = "open"
                          THEN "timeout" ELSE future[q]
    BY <1>5 DEF ApprovalInv, TypeOK, Settle
<1>8. \A q \in Requests :
          /\ q = r => status'[q] = "pending"
          /\ q # r /\ q \notin pending => status'[q] = status[q]
          /\ status'[q] \in Status
    BY <1>1, <1>4, <1>5, <1>6 DEF ApprovalInv, TypeOK, Status
<1>9. TypeOK'
  <2>1. status' \in [Requests -> Status]
    BY <1>1, <1>4, <1>5, <1>6 DEF ApprovalInv, TypeOK, Status
  <2>2. future' \in [Requests -> Future]
    BY <1>5, <1>7 DEF ApprovalInv, TypeOK, Settle, Future
  <2>3. pending' \in SUBSET Requests
    BY <1>5, <1>6
  <2> QED
    BY <1>5, <2>1, <2>2, <2>3 DEF ApprovalInv, TypeOK, Waiter
<1>10. Creation'
  <2> SUFFICES ASSUME NEW x \in Requests
               PROVE  /\ call'[x] = NoCall => /\ x \notin pending' /\ ~old'[x]
                                              /\ future'[x] = "none"
                                              /\ waiter'[x] = "none"
                      /\ call'[x] # NoCall =>
                            \A q \in Requests : q < x => call'[q] # NoCall
    BY DEF Creation
  <2>0. old'[x] = old[x] /\ c # NoCall
    BY <1>5, ApprovalConstants
  <2>1. CASE x = r
    BY <1>5, <1>7, <2>0, <2>1
  <2>2. CASE x # r
    <3>1. /\ call[x] = NoCall => /\ x \notin pending /\ ~old[x]
                                 /\ future[x] = "none" /\ waiter[x] = "none"
          /\ call[x] # NoCall => \A q \in Requests : q < x => call[q] # NoCall
      BY DEF ApprovalInv, Creation
    <3>2. x \in pending' => x \in pending
      BY <1>5, <1>6, <2>2
    <3> QED
      BY <1>7, <2>0, <2>2, <3>1, <3>2
  <2> QED
    BY <2>1, <2>2
<1>11. Decisions'
  <2> SUFFICES ASSUME NEW q \in Requests
               PROVE  /\ q \in pending' => future'[q] \in {"open", "cancelled"}
                      /\ q \in pending' => /\ status'[q] # "approved"
                                           /\ waiter'[q] # "refused"
                      /\ future'[q] = "cancelled" => Cut(q)'
                      /\ future'[q] = "approved" => status'[q] = "approved"
                      /\ status'[q] = "approved" =>
                           future'[q] = "approved" \/ Cut(q)'
                      /\ waiter'[q] = "allowed" => future'[q] = "approved"
                      /\ waiter'[q] = "refused" /\ status'[q] = "approved" =>
                           expired'[q]
    BY DEF Decisions
  <2>1. CASE q = r
    BY <1>7, <1>8, <2>1
  <2>2. CASE q # r
    <3>1. /\ q \in pending => /\ future[q] \in {"open", "cancelled"}
                             /\ status[q] # "approved"
                             /\ waiter[q] # "refused"
          /\ future[q] = "cancelled" => Cut(q)
          /\ future[q] = "approved" => status[q] = "approved"
          /\ status[q] = "approved" => future[q] = "approved" \/ Cut(q)
          /\ waiter[q] = "allowed" => future[q] = "approved"
          /\ waiter[q] = "refused" /\ status[q] = "approved" => expired[q]
      BY DEF ApprovalInv, Decisions
    <3>2. /\ waiter'[q] = waiter[q] /\ expired'[q] = expired[q]
          /\ Cut(q)' = Cut(q)
          /\ future'[q] = IF q \in stale \cup gone /\ future[q] = "open"
                          THEN "timeout" ELSE future[q]
      BY <1>5, <1>7, <2>2 DEF Cut
    <3>3. q \in pending' => q \in pending /\ q \notin stale \cup gone
      BY <1>5, <1>6, <2>2
    <3>4. status'[q] \in {status[q], "superseded", "timeout"}
          /\ (q \notin pending => status'[q] = status[q])
          /\ (q \in pending' => status'[q] = status[q])
      BY <1>5, <1>8, <2>2, <3>3
    <3> QED
      BY <3>1, <3>2, <3>3, <3>4
  <2> QED
    BY <2>1, <2>2
<1>12. WaiterReachable'
  <2> SUFFICES ASSUME NEW q \in Requests, waiter'[q] = "waiting",
                      future'[q] = "open"
               PROVE  q \in pending'
    BY DEF WaiterReachable
  <2>1. CASE q = r
    BY <1>4, <1>5, <1>6, <2>1
  <2>2. CASE q # r
    <3>1. waiter[q] = "waiting" /\ future[q] = "open" /\ q \notin stale \cup gone
      BY <1>7, <2>2
    <3> QED
      BY <1>5, <1>6, <3>1 DEF ApprovalInv, WaiterReachable
  <2> QED
    BY <2>1, <2>2
<1> QED
    BY <1>9, <1>10, <1>11, <1>12 DEF ApprovalInv

\* The waits: their ends, the timer, a stop.
LEMMA WaitKeeps ==
    ASSUME ApprovalInv, NEW r \in Requests,
           WaitReturns(r) \/ TimerFires(r) \/ WaitTimesOut(r) \/ StopRun(r)
    PROVE  ApprovalInv'
<1> USE DEF ApprovalInv, TypeOK, Creation, Decisions, WaiterReachable, Cut
<1>1. CASE WaitReturns(r)
  <2>1. /\ future[r] \in {"approved", "denied", "timeout"}
        /\ waiter[r] = "waiting"
        /\ ~expired[r]
        /\ \E w \in {"allowed", "refused"} :
              /\ waiter' = [waiter EXCEPT ![r] = w]
              /\ w = "allowed" <=> future[r] = "approved"
        /\ UNCHANGED <<pending, call, status, future, old, expired>>
    BY <1>1 DEF WaitReturns
  <2> QED
    BY <2>1 DEF Waiter
<1>2. CASE TimerFires(r)
    BY <1>2 DEF TimerFires, Settle, Future
<1>3. CASE WaitTimesOut(r)
    BY <1>3 DEF WaitTimesOut, Status, Waiter
<1>4. CASE StopRun(r)
    BY <1>4 DEF StopRun, Settle, Future, Waiter
<1> QED
    BY <1>1, <1>2, <1>3, <1>4

\* The records S leave the store with a decision.
LEMMA DecideKeeps ==
    ASSUME ApprovalInv, NEW S \in SUBSET pending, NEW d \in Future, NEW t \in Status,
           d # "open", d # "cancelled", d = "approved" <=> t = "approved",
           pending' = pending \ S,
           status' = [q \in Requests |-> IF q \in S THEN t ELSE status[q]],
           future' = Settle(S, d),
           UNCHANGED <<call, waiter, old, expired>>
    PROVE  ApprovalInv'
<1> USE DEF ApprovalInv
<1>1. \A q \in Requests :
          future'[q] = IF q \in S /\ future[q] = "open" THEN d ELSE future[q]
    BY DEF Settle
<1>2. TypeOK'
    BY DEF TypeOK, Settle
<1>3. Creation'
    BY <1>1 DEF Creation
<1>4. Decisions'
  <2> SUFFICES ASSUME NEW q \in Requests
               PROVE  /\ q \in pending' => future'[q] \in {"open", "cancelled"}
                      /\ q \in pending' => /\ status'[q] # "approved"
                                           /\ waiter'[q] # "refused"
                      /\ future'[q] = "cancelled" => Cut(q)'
                      /\ future'[q] = "approved" => status'[q] = "approved"
                      /\ status'[q] = "approved" =>
                           future'[q] = "approved" \/ Cut(q)'
                      /\ waiter'[q] = "allowed" => future'[q] = "approved"
                      /\ waiter'[q] = "refused" /\ status'[q] = "approved" =>
                           expired'[q]
    BY DEF Decisions
  <2>1. /\ Cut(q)' = Cut(q) /\ waiter'[q] = waiter[q]
        /\ expired'[q] = expired[q]
        /\ status'[q] = IF q \in S THEN t ELSE status[q]
        /\ q \in S => q \in pending /\ q \notin pending'
        /\ q \in pending' => q \in pending
    BY DEF Cut
  <2> QED
    BY <1>1, <2>1 DEF Decisions
<1>5. WaiterReachable'
    BY <1>1 DEF WaiterReachable, TypeOK
<1> QED
    BY <1>2, <1>3, <1>4, <1>5

LEMMA NextApproval == ApprovalInv /\ [Next]_vars => ApprovalInv'
<1> SUFFICES ASSUME ApprovalInv, [Next]_vars PROVE ApprovalInv'
    OBVIOUS
<1>1. ASSUME NEW c \in Calls, NEW r \in Requests, Ask(c, r) PROVE ApprovalInv'
    BY <1>1, AskKeeps
<1>2. ASSUME NEW r \in Requests,
             WaitReturns(r) \/ TimerFires(r) \/ WaitTimesOut(r) \/ StopRun(r)
      PROVE  ApprovalInv'
    BY <1>2, WaitKeeps
<1>3. ASSUME NEW r \in Requests, GrowsOld(r) PROVE ApprovalInv'
    BY <1>3 DEF GrowsOld, ApprovalInv, TypeOK, Creation, Decisions,
                WaiterReachable, Cut
<1>4. ASSUME NEW r \in Requests, NEW d \in Answer, Resolve(r, d)
      PROVE  ApprovalInv'
  <2>1. /\ {r} \in SUBSET pending /\ d \in Future /\ d \in Status
        /\ pending' = pending \ {r}
        /\ status' = [q \in Requests |-> IF q \in {r} THEN d ELSE status[q]]
        /\ future' = Settle({r}, d)
        /\ UNCHANGED <<call, waiter, old, expired>> /\ d # "open" /\ d # "cancelled"
    BY <1>4 DEF Resolve, Answer, Future, Status, ApprovalInv, TypeOK
  <2> QED
    BY <2>1, DecideKeeps
<1>5. ASSUME NEW root \in Roots, CancelRoot(root) PROVE ApprovalInv'
  <2> DEFINE S == {r \in pending : Root[call[r]] = root}
  <2>1. /\ S \in SUBSET pending /\ "denied" \in Future /\ "cancelled" \in Status
        /\ pending' = pending \ S
        /\ status' = [q \in Requests |-> IF q \in S THEN "cancelled" ELSE status[q]]
        /\ future' = Settle(S, "denied")
        /\ UNCHANGED <<call, waiter, old, expired>>
    BY <1>5 DEF CancelRoot, Future, Status
  <2> HIDE DEF S
  <2> QED
    BY <2>1, DecideKeeps
<1>6. CASE UNCHANGED vars
    BY <1>6 DEF vars, ApprovalInv, TypeOK, Creation, Decisions, WaiterReachable,
                Cut
<1> QED
    BY <1>1, <1>2, <1>3, <1>4, <1>5, <1>6 DEF Next

-----------------------------------------------------------------------------

\* The inductive invariant of the store holds in every reachable state.
THEOREM ApprovalInvariance == Spec => []ApprovalInv
BY InitApproval, NextApproval, PTL DEF Spec

\* The records have the states that ApprovalService can give them.
THEOREM ApprovalTypes == Spec => []TypeOK
<1>1. ApprovalInv => TypeOK
    BY DEF ApprovalInv
<1> QED
    BY <1>1, ApprovalInvariance, PTL

\* A gate in wait_for_approval whose future is open can be answered, whatever
\* supersedes, cancels, evicts or resolves records around it.
THEOREM WaitersReachable == Spec => []WaiterReachable
<1>1. ApprovalInv => WaiterReachable
    BY DEF ApprovalInv
<1> QED
    BY <1>1, ApprovalInvariance, PTL

\* A driver call behind the gate goes ahead only by the user's approval of its
\* own record, and an approval that was given fails to let it through only where
\* the timer had fired or the run was stopped, whatever the store, other records
\* and a stop of the root session do.
THEOREM UsersDecide == Spec => []UserDecides
<1>1. ApprovalInv => UserDecides
    BY DEF ApprovalInv, Decisions, UserDecides
<1> QED
    BY <1>1, ApprovalInvariance, PTL
=============================================================================
