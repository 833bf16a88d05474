------------------------------ MODULE EventLog ------------------------------
(***************************************************************************)
(* What TaskTracker promises to those who follow a run: one append-only    *)
(* log per run, and readers who each get it from its first event on, in    *)
(* order and without a gap, however late they come, and who are told that  *)
(* it is over only when they have all of it.  Queues, replay, markers and  *)
(* sentinels are no part of the promise.                                   *)
(***************************************************************************)
EXTENDS Naturals, Sequences

CONSTANTS
    Runs,     \* the runs
    Readers,  \* those who follow them
    Events,   \* what a log is made of
    NoRun     \* nothing is followed

VARIABLES
    log,     \* run -> its events so far
    state,   \* run -> none, open or ended
    reader,  \* reader -> none, reading, complete or left
    follows, \* reader -> the run it follows
    got      \* reader -> the events it was given

vars == <<log, state, reader, follows, got>>

Init ==
    /\ log     = [r \in Runs |-> <<>>]
    /\ state   = [r \in Runs |-> "none"]
    /\ reader  = [s \in Readers |-> "none"]
    /\ follows = [s \in Readers |-> NoRun]
    /\ got     = [s \in Readers |-> <<>>]

Join(s, r) ==
    /\ reader[s] = "none"
    /\ reader'  = [reader EXCEPT ![s] = "reading"]
    /\ follows' = [follows EXCEPT ![s] = r]

\* A run begins, followed by whoever asked for it.
Begin(s, r) ==
    /\ state[r] = "none"
    /\ state' = [state EXCEPT ![r] = "open"]
    /\ Join(s, r)
    /\ UNCHANGED <<log, got>>

Follow(s, r) ==
    /\ state[r] = "open"
    /\ Join(s, r)
    /\ UNCHANGED <<log, state, got>>

Extend(r) == \E e \in Events : log' = [log EXCEPT ![r] = Append(@, e)]

Grow(r) ==
    /\ state[r] = "open"
    /\ Extend(r)
    /\ UNCHANGED <<state, reader, follows, got>>

\* A run ends, perhaps with a last event.
End(r) ==
    /\ state[r] = "open"
    /\ state' = [state EXCEPT ![r] = "ended"]
    /\ UNCHANGED log \/ Extend(r)
    /\ UNCHANGED <<reader, follows, got>>

Read(s) ==
    /\ reader[s] = "reading"
    /\ Len(got[s]) < Len(log[follows[s]])
    /\ got' = [got EXCEPT ![s] = Append(@, log[follows[s]][Len(@) + 1])]
    /\ UNCHANGED <<log, state, reader, follows>>

Complete(s) ==
    /\ reader[s] = "reading"
    /\ state[follows[s]] = "ended"
    /\ Len(got[s]) = Len(log[follows[s]])
    /\ reader' = [reader EXCEPT ![s] = "complete"]
    /\ UNCHANGED <<log, state, follows, got>>

Leave(s) ==
    /\ reader[s] = "reading"
    /\ reader' = [reader EXCEPT ![s] = "left"]
    /\ UNCHANGED <<log, state, follows, got>>

Next ==
    \/ \E s \in Readers, r \in Runs : Begin(s, r) \/ Follow(s, r)
    \/ \E r \in Runs : Grow(r) \/ End(r)
    \/ \E s \in Readers : Read(s) \/ Complete(s) \/ Leave(s)

Spec == Init /\ [][Next]_vars
=============================================================================
