--------------------------- MODULE ToolCoordinator ---------------------------
(***************************************************************************)
(* ToolCoordinator (tool_calls/_coordinator.py) with ToolStream and the    *)
(* entry of a call (_stream.py, _entry.py, _context.py), and the endpoints *)
(* that intervene in a call (app/routers/tool_calls.py).                   *)
(*                                                                         *)
(* A call is two tasks.  The caller's iterates execute(): it waits for the *)
(* next chunk, a cancellation or a deadline, and after the end of the      *)
(* stream for the background task, whose response it returns.  The         *)
(* background task runs the hooks and the tool and feeds the stream.       *)
(* A chunk is the number of its place in what the tool said.               *)
(***************************************************************************)
EXTENDS Naturals, Sequences, FiniteSets

CONSTANTS
    Calls,      \* the calls of execute()
    Ids,        \* tool call ids
    idOf,       \* idOf[c]: the id the model gave to call c
    None,       \* no call, nothing to put
    Asking,     \* a getter that waits for an item
    End,        \* _STREAM_SENTINEL
    MaxChunks,  \* bound: the chunks a tool says
    MaxAsks     \* bound: interventions in one call (offload, extend, force)

ASSUME CoordinatorConstants ==
    /\ idOf \in [Calls -> Ids]
    /\ None \notin Calls \cup Nat \cup {Asking, End}
    /\ {Asking, End} \cap Nat = {} /\ Asking # End
    /\ MaxChunks \in Nat
    /\ MaxAsks \in Nat

VARIABLES
    entries,   \* _entries: the call registered under each id
    front,     \* where the caller of each call is
    getter,    \* its chunk_queue.get(): none, asking, or the item it took
    timed,     \* its asyncio.wait has a timeout
    got,       \* the chunks it has been given
    bg,        \* where the background task is
    made,      \* how many chunks the tool has said
    putting,   \* the item the gather of append() or close() is to put
    queue,     \* chunk_queue
    attached,  \* chunk_queue is among the stream's subscribers
    closed,    \* _is_closed
    viewer,    \* a client of the stream endpoint: none, reading or finished
    struck,    \* cancel() was called on the background task
    cancelled, \* cancel_event is set
    deadline,  \* ctx.deadline: none, ahead or past
    changed,   \* deadline_changed_event is set
    response,  \* final_response: partial, tool, error or interrupted
    endState,  \* end_state
    asks,      \* how many interventions a call has seen
    down,      \* shutdown() has been called
    shutting,  \* the calls it has still to wait for
    lost,      \* history: calls struck while a chunk was being put
    untimely   \* history: calls struck where the stream is never closed

callerVars == <<front, getter, timed, got>>
streamVars == <<putting, queue, attached, closed, viewer>>
toolVars == <<bg, made, response, endState>>
controlVars == <<struck, cancelled, deadline, changed, asks, down,
                 shutting>>
history == <<lost, untimely>>
vars == <<entries, callerVars, streamVars, toolVars, controlVars, history>>

Fronts == {"idle", "loop", "wait", "over", "returned", "gone"}
Places == {"none", "created", "before", "tool", "put", "put_bad", "close_early",
           "close_late", "close_refused", "after", "done"}
Chunks == 1..MaxChunks

Init ==
    /\ entries = [i \in Ids |-> None]
    /\ front = [c \in Calls |-> "idle"]
    /\ getter = [c \in Calls |-> None]
    /\ timed = [c \in Calls |-> FALSE]
    /\ got = [c \in Calls |-> <<>>]
    /\ bg = [c \in Calls |-> "none"]
    /\ made = [c \in Calls |-> 0]
    /\ putting = [c \in Calls |-> None]
    /\ queue = [c \in Calls |-> <<>>]
    /\ attached = [c \in Calls |-> FALSE]
    /\ closed = [c \in Calls |-> FALSE]
    /\ viewer = [c \in Calls |-> "none"]
    /\ struck = [c \in Calls |-> FALSE]
    /\ cancelled = [c \in Calls |-> FALSE]
    /\ deadline = [c \in Calls |-> "none"]
    /\ changed = [c \in Calls |-> FALSE]
    /\ response = [c \in Calls |-> "partial"]
    /\ endState = [c \in Calls |-> "none"]
    /\ asks = [c \in Calls |-> 0]
    /\ down = FALSE /\ shutting = {}
    /\ lost = {} /\ untimely = {}

----------------------------------------------------------------------------
(* The stream and its readers.                                             *)

\* append() and close() suspend only if the stream is open and has readers.
Suspends(c) == ~closed[c] /\ (attached[c] \/ viewer[c] = "reading")

\* The background task goes on at place "here" once close() is over.
CloseStream(c, here, next) ==
    /\ closed' = [closed EXCEPT ![c] = TRUE]
    /\ putting' = [putting EXCEPT ![c] = IF Suspends(c) THEN End ELSE None]
    /\ bg' = [bg EXCEPT ![c] = IF Suspends(c) THEN here ELSE next]
    /\ UNCHANGED <<queue, attached, viewer>>

\* The put tasks of the gather run.
Put(c) ==
    /\ putting[c] # None
    /\ putting' = [putting EXCEPT ![c] = None]
    /\ queue' = [queue EXCEPT ![c] =
                    IF attached[c] THEN Append(@, putting[c]) ELSE @]
    /\ viewer' = [viewer EXCEPT ![c] =
                     IF putting[c] = End /\ @ = "reading" THEN "finished" ELSE @]
    /\ UNCHANGED <<entries, callerVars, attached, closed, toolVars, controlVars,
                   history>>

\* Mutant of View: a late subscriber is not told that the stream is closed.
ViewLate(c) ==
    /\ entries[idOf[c]] = c /\ viewer[c] = "none"
    /\ viewer' = [viewer EXCEPT ![c] = "reading"]
    /\ UNCHANGED <<entries, callerVars, putting, queue, attached, closed,
                   toolVars, controlVars, history>>

\* ToolStream.subscribe for a client of the stream endpoint.
View(c) ==
    /\ entries[idOf[c]] = c /\ viewer[c] = "none"
    /\ viewer' = [viewer EXCEPT ![c] =
                     IF closed[c] THEN "finished" ELSE "reading"]
    /\ UNCHANGED <<entries, callerVars, putting, queue, attached, closed,
                   toolVars, controlVars, history>>

----------------------------------------------------------------------------
(* The caller: execute() and _await_next_event.                            *)

Execute(c) ==
    /\ front[c] = "idle"
    /\ front' = [front EXCEPT ![c] = "loop"]
    /\ entries' = [entries EXCEPT ![idOf[c]] = c]
    /\ attached' = [attached EXCEPT ![c] = TRUE]
    /\ bg' = [bg EXCEPT ![c] = "created"]
    /\ \E d \in {"none", "ahead"} : deadline' = [deadline EXCEPT ![c] = d]
    /\ UNCHANGED <<getter, timed, got, putting, queue, closed, viewer, made,
                   response, endState, struck, cancelled, changed, asks, down,
                   shutting, history>>

\* A wait begins, unless the deadline is over.  What is in the queue is taken
\* before any of the other events can end the wait.
Arm(c) ==
    /\ front[c] = "loop"
    /\ IF deadline[c] = "past"
       THEN /\ deadline' = [deadline EXCEPT ![c] = "none"]
            /\ UNCHANGED <<front, getter, timed, queue>>
       ELSE /\ front' = [front EXCEPT ![c] = "wait"]
            /\ timed' = [timed EXCEPT ![c] = deadline[c] = "ahead"]
            /\ getter' = [getter EXCEPT ![c] =
                             IF queue[c] = <<>> THEN Asking ELSE Head(queue[c])]
            /\ queue' = [queue EXCEPT ![c] = IF @ = <<>> THEN @ ELSE Tail(@)]
            /\ UNCHANGED deadline
    /\ UNCHANGED <<entries, got, putting, attached, closed, viewer, toolVars,
                   struck, cancelled, changed, asks, down, shutting, history>>

\* The waiting chunk_queue.get() gets an item.
Get(c) ==
    /\ getter[c] = Asking /\ queue[c] # <<>>
    /\ getter' = [getter EXCEPT ![c] = Head(queue[c])]
    /\ queue' = [queue EXCEPT ![c] = Tail(@)]
    /\ UNCHANGED <<entries, front, timed, got, putting, attached, closed, viewer,
                   toolVars, controlVars, history>>

\* The wait is over and the getter, if it still asks, is cancelled.
Wake(c, next) ==
    /\ front[c] = "wait"
    /\ front' = [front EXCEPT ![c] = next]
    /\ getter' = [getter EXCEPT ![c] = None]
    /\ UNCHANGED <<entries, timed, putting, queue, closed, viewer, toolVars,
                   struck, cancelled, asks, down, shutting, history>>

\* Mutant of Chunk: the sentinel is not told from a chunk.
ChunkOrEnd(c) ==
    /\ getter[c] \in Chunks \cup {End} /\ Wake(c, "loop")
    /\ got' = [got EXCEPT ![c] = Append(@, getter[c])]
    /\ UNCHANGED <<attached, deadline, changed>>

\* A chunk is passed on.
Chunk(c) ==
    /\ getter[c] \in Chunks /\ Wake(c, "loop")
    /\ got' = [got EXCEPT ![c] = Append(@, getter[c])]
    /\ UNCHANGED <<attached, deadline, changed>>

StreamEnds(c) ==
    /\ getter[c] = End /\ Wake(c, "over")
    /\ attached' = [attached EXCEPT ![c] = FALSE]
    /\ UNCHANGED <<got, deadline, changed>>

\* Mutant of SeesCancel: the cancellation is looked at before the chunk.
SeesCancelFirst(c) ==
    /\ cancelled[c] /\ getter[c] # End /\ Wake(c, "loop")
    /\ UNCHANGED <<got, attached, deadline, changed>>

\* cancel_event is never cleared: the loop spins until the stream ends.
SeesCancel(c) ==
    /\ cancelled[c] /\ getter[c] = Asking /\ Wake(c, "loop")
    /\ UNCHANGED <<got, attached, deadline, changed>>

SeesChange(c) ==
    /\ changed[c] /\ ~cancelled[c] /\ getter[c] = Asking /\ Wake(c, "loop")
    /\ changed' = [changed EXCEPT ![c] = FALSE]
    /\ UNCHANGED <<got, attached, deadline>>

\* The timeout of the wait, computed from the deadline there was then: a change
\* of the deadline may come when it has just fired.
TimesOut(c) ==
    /\ timed[c] /\ (deadline[c] = "past" \/ changed[c])
    /\ getter[c] = Asking /\ Wake(c, "loop")
    /\ deadline' = [deadline EXCEPT ![c] = "none"]
    /\ UNCHANGED <<got, attached, changed>>

\* _await_background_task and _finalize_completed.
Finalize(c) ==
    /\ front[c] = "over" /\ bg[c] = "done"
    /\ front' = [front EXCEPT ![c] = "returned"]
    /\ endState' = [endState EXCEPT ![c] =
                       CASE @ # "none" -> @
                         [] cancelled[c] -> "interrupted"
                         [] OTHER -> "success"]
    /\ entries' = [entries EXCEPT ![idOf[c]] = None]
    /\ UNCHANGED <<getter, timed, got, streamVars, bg, made, response,
                   controlVars, history>>

\* The task of the caller is cancelled, or the generator closed.  The
\* background task goes on and the entry stays.
Leave(c) ==
    /\ front[c] \in {"loop", "wait", "over"}
    /\ front' = [front EXCEPT ![c] = "gone"]
    /\ getter' = [getter EXCEPT ![c] = None]
    /\ attached' = [attached EXCEPT ![c] = FALSE]
    /\ UNCHANGED <<entries, timed, got, putting, queue, closed, viewer, toolVars,
                   controlVars, history>>

----------------------------------------------------------------------------
(* The background task: _run_tool_with_hooks and _drain.                   *)

\* The tool is entered, unless the call has been cancelled.
Enter(c) ==
    IF cancelled[c]
    THEN /\ response' = [response EXCEPT ![c] = "interrupted"]
         /\ CloseStream(c, "close_refused", "done")
    ELSE /\ bg' = [bg EXCEPT ![c] = "tool"]
         /\ UNCHANGED <<response, streamVars>>

\* The first step of the task, with or without a hook to await.
Begin(c) ==
    /\ bg[c] = "created" /\ ~struck[c]
    /\ \/ bg' = [bg EXCEPT ![c] = "before"] /\ UNCHANGED <<response, streamVars>>
       \/ Enter(c)
    /\ UNCHANGED <<entries, callerVars, made, endState, controlVars, history>>

\* hooks.before returns or raises.
BeforeReturns(c) ==
    /\ bg[c] = "before" /\ ~struck[c]
    /\ \/ Enter(c)
       \/ /\ response' = [response EXCEPT ![c] = "error"]
          /\ CloseStream(c, "close_refused", "done")
    /\ UNCHANGED <<entries, callerVars, made, endState, controlVars, history>>

\* After a chunk that is an error or an interruption, nothing more is read.
EndsBadly(c) ==
    /\ \E s \in {"error", "interrupted"} : endState' = [endState EXCEPT ![c] = s]
    /\ CloseStream(c, "close_early", "after")

\* A chunk, offered to the readers if there are any.
Says(c, bad) ==
    /\ bg[c] = "tool" /\ made[c] < MaxChunks
    /\ made' = [made EXCEPT ![c] = @ + 1]
    /\ struck' = [struck EXCEPT ![c] = FALSE]
    /\ \/ /\ Suspends(c)
          /\ putting' = [putting EXCEPT ![c] = made'[c]]
          /\ bg' = [bg EXCEPT ![c] = IF bad THEN "put_bad" ELSE "put"]
          /\ UNCHANGED <<queue, attached, closed, viewer, endState>>
       \/ ~Suspends(c) /\ bad /\ EndsBadly(c)
       \/ ~Suspends(c) /\ ~bad /\ UNCHANGED <<bg, streamVars, endState>>
    /\ UNCHANGED <<entries, callerVars, response, cancelled, deadline, changed,
                   asks, down, shutting, history>>

\* await stream.append(item) returns.
Said(c) ==
    /\ bg[c] \in {"put", "put_bad"} /\ putting[c] = None /\ ~struck[c]
    /\ IF bg[c] = "put"
       THEN bg' = [bg EXCEPT ![c] = "tool"] /\ UNCHANGED <<endState, streamVars>>
       ELSE EndsBadly(c)
    /\ UNCHANGED <<entries, callerVars, made, response, controlVars, history>>

\* The tool ends: with a response, which it may give to a cancellation too;
\* by the end of its generator; with an exception; or with a CancelledError,
\* the task's or the one cancellable_wait raises when cancel_event is set.
ToolEnds(c) ==
    /\ bg[c] = "tool"
    /\ \/ /\ response' = [response EXCEPT ![c] = "tool"]
          /\ CloseStream(c, "close_early", "after") /\ UNCHANGED endState
       \/ /\ ~struck[c]
          /\ CloseStream(c, "close_late", "after") /\ UNCHANGED <<response, endState>>
       \/ /\ response' = [response EXCEPT ![c] = "error"]
          /\ endState' = [endState EXCEPT ![c] = "error"]
          /\ CloseStream(c, "close_late", "after")
       \/ /\ struck[c] \/ cancelled[c]
          /\ response' = [response EXCEPT ![c] = "interrupted"]
          /\ endState' = [endState EXCEPT ![c] = "interrupted"]
          /\ CloseStream(c, "close_late", "after")
    /\ struck' = [struck EXCEPT ![c] = FALSE]
    /\ UNCHANGED <<entries, callerVars, made, cancelled, deadline, changed, asks,
                   down, shutting, history>>

\* await stream.close() returns.
Closed(c) ==
    /\ bg[c] \in {"close_early", "close_late", "close_refused"}
    /\ putting[c] = None /\ ~struck[c]
    /\ bg' = [bg EXCEPT ![c] = IF @ = "close_refused" THEN "done" ELSE "after"]
    /\ UNCHANGED <<entries, callerVars, streamVars, made, response, endState,
                   controlVars, history>>

\* hooks.after returns, and may have given another response; the task's
\* cancellation is swallowed and the hook left to itself.
AfterReturns(c) ==
    /\ bg[c] = "after"
    /\ bg' = [bg EXCEPT ![c] = "done"]
    /\ \/ UNCHANGED response
       \/ ~struck[c] /\ response' = [response EXCEPT ![c] = "hook"]
    /\ struck' = [struck EXCEPT ![c] = FALSE]
    /\ UNCHANGED <<entries, callerVars, streamVars, made, endState, cancelled,
                   deadline, changed, asks, down, shutting, history>>

\* A CancelledError where _drain catches it: within the try, close() called
\* by the finally clause does nothing if the stream was marked closed.
Caught(c) ==
    /\ struck[c] /\ bg[c] \in {"put", "put_bad", "close_early"}
    /\ struck' = [struck EXCEPT ![c] = FALSE]
    /\ response' = [response EXCEPT ![c] = "interrupted"]
    /\ endState' = [endState EXCEPT ![c] = "interrupted"]
    /\ CloseStream(c, "close_late", "after")
    /\ UNCHANGED <<entries, callerVars, made, cancelled, deadline, changed, asks,
                   down, shutting, history>>

\* And where nothing does: the task ends cancelled.
Uncaught(c) ==
    /\ struck[c]
    /\ bg[c] \in {"created", "before", "close_late", "close_refused"}
    /\ struck' = [struck EXCEPT ![c] = FALSE]
    /\ bg' = [bg EXCEPT ![c] = "done"]
    /\ UNCHANGED <<entries, callerVars, streamVars, made, response, endState,
                   cancelled, deadline, changed, asks, down, shutting, history>>

----------------------------------------------------------------------------
(* Interventions.                                                          *)

\* background_task.cancel(): put tasks that have not run are cancelled too.
Strike(c) ==
    /\ struck' = [struck EXCEPT ![c] = TRUE]
    /\ putting' = [putting EXCEPT ![c] = None]
    /\ lost' = IF putting[c] \in Chunks THEN lost \cup {c} ELSE lost
    /\ untimely' = IF putting[c] = End \/ bg[c] \in {"created", "before"}
                   THEN untimely \cup {c} ELSE untimely

Asked(c) ==
    /\ entries[idOf[c]] = c /\ asks[c] < MaxAsks
    /\ asks' = [asks EXCEPT ![c] = @ + 1]

\* request_offload: a registered entry has the status RUNNING.
RequestOffload(c) ==
    /\ Asked(c)
    /\ deadline' = [deadline EXCEPT ![c] = "past"]
    /\ changed' = [changed EXCEPT ![c] = TRUE]
    /\ UNCHANGED <<entries, callerVars, streamVars, toolVars, struck, cancelled,
                   down, shutting, history>>

\* extend_deadline: removed, or counted from the old one, which may be long ago.
ExtendDeadline(c) ==
    /\ Asked(c)
    /\ \E d \in {"none", "ahead", "past"} :
          /\ d = "past" => deadline[c] = "past"
          /\ deadline' = [deadline EXCEPT ![c] = d]
    /\ changed' = [changed EXCEPT ![c] = TRUE]
    /\ UNCHANGED <<entries, callerVars, streamVars, toolVars, struck, cancelled,
                   down, shutting, history>>

\* cancel(force=False), by a user, the agent's TaskStop or a command.
Cancel(c) ==
    /\ entries[idOf[c]] = c /\ ~cancelled[c]
    /\ cancelled' = [cancelled EXCEPT ![c] = TRUE]
    /\ UNCHANGED <<entries, callerVars, streamVars, toolVars, struck, deadline,
                   changed, asks, down, shutting, history>>

\* cancel(force=True) and _apply_force_cancel.
ForceCancel(c) ==
    /\ Asked(c) /\ bg[c] # "done" /\ Strike(c)
    /\ UNCHANGED <<entries, callerVars, queue, attached, closed, viewer, toolVars,
                   cancelled, deadline, changed, down, shutting>>

\* shutdown(): every entry is asked to stop ...
Shutdown ==
    /\ ~down /\ down' = TRUE
    /\ shutting' = {c \in Calls : entries[idOf[c]] = c}
    /\ cancelled' = [c \in Calls |-> cancelled[c] \/ c \in shutting']
    /\ UNCHANGED <<entries, callerVars, streamVars, toolVars, struck, deadline,
                   changed, asks, history>>

\* ... and, one by one, struck after the period of grace unless it is over.
ShutdownStrikes(c) ==
    /\ c \in shutting /\ shutting' = shutting \ {c}
    /\ IF bg[c] = "done"
       THEN UNCHANGED <<struck, putting, history>>
       ELSE Strike(c)
    /\ UNCHANGED <<entries, callerVars, queue, attached, closed, viewer, toolVars,
                   cancelled, deadline, changed, asks, down>>

TimePasses(c) ==
    /\ deadline[c] = "ahead" /\ front[c] \in {"loop", "wait"}
    /\ deadline' = [deadline EXCEPT ![c] = "past"]
    /\ UNCHANGED <<entries, callerVars, streamVars, toolVars, struck, cancelled,
                   changed, asks, down, shutting, history>>

----------------------------------------------------------------------------

CallerStep(c) ==
    Arm(c) \/ Chunk(c) \/ StreamEnds(c) \/ SeesCancel(c) \/ SeesChange(c)
           \/ TimesOut(c) \/ Finalize(c)

BackgroundStep(c) ==
    \/ Begin(c) \/ BeforeReturns(c) \/ \E bad \in BOOLEAN : Says(c, bad)
    \/ Said(c) \/ ToolEnds(c) \/ Closed(c) \/ AfterReturns(c)
    \/ Caught(c) \/ Uncaught(c)

Intervention(c) ==
    \/ View(c) \/ Leave(c) \/ RequestOffload(c) \/ ExtendDeadline(c) \/ Cancel(c)
    \/ ForceCancel(c) \/ ShutdownStrikes(c) \/ TimePasses(c)

Next ==
    \/ Shutdown
    \/ \E c \in Calls :
          Execute(c) \/ CallerStep(c) \/ BackgroundStep(c) \/ Put(c) \/ Get(c)
                     \/ Intervention(c)

Spec == Init /\ [][Next]_vars

\* The event loop runs what is ready; a tool ends after finitely many chunks.
FairSpec ==
    /\ Spec
    /\ \A c \in Calls : /\ WF_vars(CallerStep(c)) /\ WF_vars(BackgroundStep(c))
                        /\ WF_vars(Put(c)) /\ WF_vars(Get(c))

----------------------------------------------------------------------------
(* Properties.                                                             *)

\* The types of the variables.
TypeOK ==
    /\ entries \in [Ids -> Calls \cup {None}]
    /\ front \in [Calls -> Fronts]
    /\ getter \in [Calls -> Chunks \cup {None, Asking, End}]
    /\ timed \in [Calls -> BOOLEAN]
    /\ got \in [Calls -> Seq(Chunks)]
    /\ bg \in [Calls -> Places]
    /\ made \in [Calls -> 0..MaxChunks]
    /\ putting \in [Calls -> Chunks \cup {None, End}]
    /\ queue \in [Calls -> Seq(Chunks \cup {End})]
    /\ attached \in [Calls -> BOOLEAN] /\ closed \in [Calls -> BOOLEAN]
    /\ viewer \in [Calls -> {"none", "reading", "finished"}]
    /\ struck \in [Calls -> BOOLEAN] /\ cancelled \in [Calls -> BOOLEAN]
    /\ deadline \in [Calls -> {"none", "ahead", "past"}]
    /\ changed \in [Calls -> BOOLEAN]
    /\ response \in [Calls -> {"partial", "tool", "error", "interrupted", "hook"}]
    /\ endState \in [Calls -> {"none", "error", "interrupted", "success"}]
    /\ asks \in [Calls -> 0..MaxAsks]
    /\ down \in BOOLEAN /\ shutting \subseteq Calls
    /\ lost \subseteq Calls /\ untimely \subseteq Calls

\* What the tool says reaches the caller in order and without a gap, whatever
\* ends the waits in between (a cancellation, a deadline moved or reached), and
\* is complete when the call returns, which it does only when its background
\* task is over: nothing the task or the after hook still does can change the
\* response that was given.  Only the chunk that is being put when the task is
\* struck may be missing.
Delivered ==
    \A c \in Calls :
        /\ got[c] = [i \in 1..Len(got[c]) |-> i]
        /\ front[c] \in {"over", "returned"} /\ c \notin lost => Len(got[c]) = made[c]
        /\ front[c] = "returned" => bg[c] = "done" /\ closed[c]

\* A caller that stays gets its response and a client of the stream sees its
\* end, whatever interventions there are, unless the background task is struck
\* before the tool begins or while the end of the stream is being put.
CallsEnd ==
    \A c \in Calls :
        /\ front[c] = "loop" ~> front[c] \in {"returned", "gone"} \/ c \in untimely
        /\ viewer[c] = "reading" ~> viewer[c] = "finished" \/ c \in untimely
=============================================================================
