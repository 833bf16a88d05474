-------------------------- MODULE ApprovalService --------------------------
(***************************************************************************)
(* ApprovalService (src/src/hanbao/app/approvals/service.py) and the one   *)
(* gate that asks it, HanbaoDriverApprovalGate (driver_gate.py): a driver  *)
(* call whose policy says "ask" creates a pending record and waits on its  *)
(* future; the user approves or denies; timers, /stop, a replay of the     *)
(* call and garbage collection get in between.                             *)
(*                                                                         *)
(* The tool gates in tool_guard.py and tool_adapter.py ask nobody any      *)
(* more: they allow or deny without a record, and what is said here of     *)
(* approvals says nothing of them.                                         *)
(*                                                                         *)
(* No body under `_lock` awaits.  So a gate's cancel_stale_pending,        *)
(* create_pending and the first half of wait_for_approval are one step,    *)
(* and so are get_request and resolve_request of an /approve.  What is not *)
(* atomic is the end of a wait: the timer or a cancellation settles the    *)
(* future, and the waiting task runs only some steps later.                *)
(*                                                                         *)
(* Records are numbered in the order of their creation, which is the order *)
(* of the dict and of created_at.                                          *)
(***************************************************************************)
EXTENDS Naturals, FiniteSets

CONSTANTS
    Requests,    \* identities of PendingApproval records
    Calls,       \* driver calls: a session and a tool call id
    Anonymous,   \* the driver calls without a tool call id
    Roots,       \* root sessions
    Root,        \* call -> root session
    NoCall,      \* absence of a call
    MaxPending,  \* _GC_MAX_PENDING
    LongTimeout  \* whether the approval timeout is set above the maximal age
                 \* of a record (it is 300 s by default, the age 1800 s)

ASSUME ApprovalConstants ==
    /\ Requests \subseteq Nat
    /\ Anonymous \subseteq Calls
    /\ Root \in [Calls -> Roots]
    /\ NoCall \notin Calls
    /\ MaxPending \in Nat \ {0}
    /\ LongTimeout \in BOOLEAN

VARIABLES
    pending,  \* the keys of _pending
    call,     \* record -> the driver call it was created for
    status,   \* record -> its status field
    future,   \* record -> its future
    waiter,   \* record -> the gate that waits for it
    old,      \* record -> it is older than _GC_PENDING_MAX_AGE_SECONDS
    expired   \* record -> the timer of its wait_for has fired

vars == <<pending, call, status, future, waiter, old, expired>>

Status == {"none", "pending", "approved", "denied", "timeout", "superseded",
           "cancelled"}
Future == {"none", "open", "approved", "denied", "timeout", "cancelled"}
Waiter == {"none", "waiting", "allowed", "refused", "stopped"}
Answer == {"approved", "denied"}

Init ==
    /\ pending = {}
    /\ call    = [r \in Requests |-> NoCall]
    /\ status  = [r \in Requests |-> "none"]
    /\ future  = [r \in Requests |-> "none"]
    /\ waiter  = [r \in Requests |-> "none"]
    /\ old     = [r \in Requests |-> FALSE]
    /\ expired = [r \in Requests |-> FALSE]

-----------------------------------------------------------------------------
(* Helpers *)

\* `if not future.done(): future.set_result(d)`, or cancel(), for all of S.
Settle(S, d) ==
    [r \in Requests |-> IF r \in S /\ future[r] = "open" THEN d ELSE future[r]]

\* cancel_stale_pending_for_tool_call: the records of an earlier try of c.
Stale(c) == IF c \in Anonymous THEN {} ELSE {r \in pending : call[r] = c}

\* _gc_pending_locked on the records P: the old ones, and of the others the
\* oldest that are too many.
Evicted(P) ==
    LET young == {r \in P : ~old[r]}
    IN  (P \ young) \cup
        {r \in young : Cardinality({q \in young : q > r}) >= MaxPending}

-----------------------------------------------------------------------------
(* The gate *)

\* request_approval: supersede, create, collect garbage, start to wait.
Ask(c, r) ==
    LET stale == Stale(c)
        P     == (pending \ stale) \cup {r}
        gone  == Evicted(P)
    IN  /\ call[r] = NoCall
        /\ \A q \in Requests : q < r => call[q] # NoCall
        /\ pending' = P \ gone
        /\ call'    = [call EXCEPT ![r] = c]
        /\ status'  = [q \in Requests |->
                         IF q = r THEN "pending"
                         ELSE IF q \in stale THEN "superseded"
                         ELSE IF q \in gone THEN "timeout"
                         ELSE status[q]]
        /\ future'  = [Settle(stale \cup gone, "timeout") EXCEPT ![r] = "open"]
        /\ waiter'  = [waiter EXCEPT ![r] = "waiting"]
        /\ UNCHANGED <<old, expired>>

\* Mutant of WaitReturns: the gate takes the future's result as it is.
WaitReturnsRaw(r) ==
    /\ waiter[r] = "waiting"
    /\ ~expired[r]
    /\ future[r] \in {"approved", "denied", "timeout"}
    /\ waiter' = [waiter EXCEPT ![r] = future[r]]
    /\ UNCHANGED <<pending, call, status, future, old, expired>>

\* The future has a result before the timer fired: that is the decision, and
\* anything but an approval raises DriverPermissionDeniedError.
WaitReturns(r) ==
    /\ waiter[r] = "waiting"
    /\ ~expired[r]
    /\ future[r] \in {"approved", "denied", "timeout"}
    /\ waiter' = [waiter EXCEPT ![r] =
                    IF future[r] = "approved" THEN "allowed" ELSE "refused"]
    /\ UNCHANGED <<pending, call, status, future, old, expired>>

\* The timer of wait_for fires: it cancels the future if that is still open,
\* and the waiting task will see TimeoutError in either case.
TimerFires(r) ==
    /\ waiter[r] = "waiting"
    /\ ~expired[r]
    /\ expired' = [expired EXCEPT ![r] = TRUE]
    /\ future'  = Settle({r}, "cancelled")
    /\ UNCHANGED <<pending, call, status, waiter, old>>

\* TimeoutError in wait_for_approval: resolve_request with TIMEOUT, and the
\* gate refuses.
WaitTimesOut(r) ==
    /\ waiter[r] = "waiting"
    /\ expired[r]
    /\ waiter' = [waiter EXCEPT ![r] = "refused"]
    /\ pending' = pending \ {r}
    /\ status'  = IF r \in pending THEN [status EXCEPT ![r] = "timeout"] ELSE status
    /\ UNCHANGED <<call, future, old, expired>>

\* The run of the driver call is cancelled: CancelledError goes through the
\* gate and leaves the record behind.
StopRun(r) ==
    /\ waiter[r] = "waiting"
    /\ waiter' = [waiter EXCEPT ![r] = "stopped"]
    /\ future' = Settle({r}, "cancelled")
    /\ UNCHANGED <<pending, call, status, old, expired>>

-----------------------------------------------------------------------------
(* The user, the clean-up and the clock *)

\* Mutant of Resolve: the record is looked up but not removed.
ResolveKeeps(r, d) ==
    /\ r \in pending
    /\ status' = [status EXCEPT ![r] = d]
    /\ future' = Settle({r}, d)
    /\ UNCHANGED <<pending, call, waiter, old, expired>>

\* resolve_request by /approve, /deny, the REST routes or the ACP bridge.
Resolve(r, d) ==
    /\ r \in pending
    /\ pending' = pending \ {r}
    /\ status'  = [status EXCEPT ![r] = d]
    /\ future'  = Settle({r}, d)
    /\ UNCHANGED <<call, waiter, old, expired>>

\* Mutant of CancelRoot: the waiters are not told.
CancelRootSilently(root) ==
    LET S == {r \in pending : Root[call[r]] = root}
    IN  /\ S # {}
        /\ pending' = pending \ S
        /\ status'  = [r \in Requests |-> IF r \in S THEN "cancelled" ELSE status[r]]
        /\ UNCHANGED <<call, future, waiter, old, expired>>

\* cancel_all_pending_by_root_session, from the error hook of a cancelled run
\* or the end of an ACP turn.
CancelRoot(root) ==
    LET S == {r \in pending : Root[call[r]] = root}
    IN  /\ S # {}
        /\ pending' = pending \ S
        /\ status'  = [r \in Requests |-> IF r \in S THEN "cancelled" ELSE status[r]]
        /\ future'  = Settle(S, "denied")
        /\ UNCHANGED <<call, waiter, old, expired>>

\* A record reaches its maximal age; the older ones have done so before.
GrowsOld(r) ==
    /\ r \in pending
    /\ ~old[r]
    /\ LongTimeout \/ waiter[r] # "waiting"
    /\ \A q \in pending : q < r => old[q]
    /\ old' = [old EXCEPT ![r] = TRUE]
    /\ UNCHANGED <<pending, call, status, future, waiter, expired>>

-----------------------------------------------------------------------------

Next ==
    \/ \E c \in Calls, r \in Requests : Ask(c, r)
    \/ \E r \in Requests :
         \/ WaitReturns(r) \/ TimerFires(r) \/ WaitTimesOut(r) \/ StopRun(r)
         \/ GrowsOld(r)
         \/ \E d \in Answer : Resolve(r, d)
    \/ \E root \in Roots : CancelRoot(root)

Spec == Init /\ [][Next]_vars

-----------------------------------------------------------------------------
(* Properties *)

\* Variables have the values the code can give them.
TypeOK ==
    /\ pending \in SUBSET Requests
    /\ call    \in [Requests -> Calls \cup {NoCall}]
    /\ status  \in [Requests -> Status]
    /\ future  \in [Requests -> Future]
    /\ waiter  \in [Requests -> Waiter]
    /\ old     \in [Requests -> BOOLEAN]
    /\ expired \in [Requests -> BOOLEAN]

\* A gate that waits on an open future can still be answered: every way a
\* record leaves the store settles its future.
WaiterReachable ==
    \A r \in Requests :
        waiter[r] = "waiting" /\ future[r] = "open" => r \in pending

\* What the user said of a driver call is what happens to it: it goes ahead only
\* by the approval of its own record, which no later answer, replay, clean-up or
\* eviction changes; and an approval that was confirmed is without effect only
\* where the timer of the gate had fired or its run was stopped, never because
\* of another record, the limit of the store or a stop of the root session.
UserDecides ==
    \A r \in Requests :
        /\ waiter[r] = "allowed" => status[r] = "approved"
        /\ waiter[r] = "refused" /\ status[r] = "approved" => expired[r]
=============================================================================
