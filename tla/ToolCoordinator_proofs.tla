------------------------ MODULE ToolCoordinator_proofs ------------------------
(* Machine-checked proofs about ToolCoordinator, for any number of calls,    *)
(* ids, chunks and interventions.                                            *)
EXTENDS ToolCoordinator, SequenceTheorems, TLAPS

-----------------------------------------------------------------------------
(* The inductive invariant *)

\* The stream has been, or is being, closed.
Closing == {"close_early", "close_late", "close_refused", "after", "done"}

\* The two tasks of a call and its stream agree on where they are.
PlacesOK(c) ==
    /\ attached[c] <=> front[c] \in {"loop", "wait"}
    /\ getter[c] # None <=> front[c] = "wait"
    /\ front[c] = "idle" =>
         bg[c] = "none" /\ made[c] = 0 /\ queue[c] = <<>> /\ got[c] = <<>>
    /\ closed[c] => bg[c] \in Closing
    /\ front[c] \in {"over", "returned"} => closed[c]
    /\ front[c] = "returned" => bg[c] = "done"

\* What is about to be put is the latest chunk, or the end; a strike leaves
\* nothing to put, and after a lost chunk the tool says no more.
PuttingOK(c) ==
    /\ putting[c] \in Chunks =>
         bg[c] \in {"put", "put_bad"} /\ putting[c] = made[c] /\ c \notin lost
    /\ putting[c] = End => closed[c]
    /\ struck[c] => putting[c] = None
    /\ c \in lost =>
         \/ bg[c] \in {"put", "put_bad"} /\ struck[c]
         \/ bg[c] \in Closing

\* The items of a queue are the chunks after the m-th, the end behind them.
InOrder(q, m) ==
    \A i \in 1..Len(q) : q[i] = m + i \/ (q[i] = End /\ i = Len(q))
Ended(q) == q # <<>> /\ q[Len(q)] = End
Pending(q) == IF Ended(q) THEN Len(q) - 1 ELSE Len(q)

\* How many chunks the waiting getter has, and how many are about to be put.
Held(c) == IF getter[c] \in Chunks THEN 1 ELSE 0
Coming(c) == IF putting[c] \in Chunks THEN 1 ELSE 0

\* The chunks a caller has, holds and has before it are numbered without a gap,
\* and the end comes last.
FlowOK(c) ==
    /\ \A i \in 1..Len(got[c]) : got[c][i] = i
    /\ attached[c] =>
         /\ getter[c] \in Chunks => getter[c] = Len(got[c]) + 1
         /\ InOrder(queue[c], Len(got[c]) + Held(c))
         /\ Ended(queue[c]) \/ getter[c] = End => closed[c] /\ putting[c] = None
         /\ getter[c] = End => queue[c] = <<>>
         /\ c \notin lost =>
              Len(got[c]) + Held(c) + Pending(queue[c]) + Coming(c) = made[c]
    /\ front[c] \in {"over", "returned"} /\ c \notin lost => Len(got[c]) = made[c]

CallOK(c) == PlacesOK(c) /\ PuttingOK(c) /\ FlowOK(c)

CoordinatorInv == TypeOK /\ \A c \in Calls : CallOK(c)

-----------------------------------------------------------------------------
(* Queues *)

LEMMA EmptyQueue ==
    ASSUME NEW m
    PROVE  InOrder(<<>>, m) /\ ~Ended(<<>>) /\ Pending(<<>>) = 0
BY DEF InOrder, Ended, Pending

LEMMA EndedIs ==
    ASSUME NEW q \in Seq(Chunks \cup {End}), Len(q) \in Nat \ {0}
    PROVE  /\ q # <<>> /\ (Ended(q) <=> q[Len(q)] = End)
           /\ Pending(q) = IF q[Len(q)] = End THEN Len(q) - 1 ELSE Len(q)
BY DEF Ended, Pending

LEMMA TakeFirst ==
    ASSUME NEW q \in Seq(Chunks \cup {End}), q # <<>>, NEW m \in Nat, InOrder(q, m)
    PROVE  /\ Tail(q) \in Seq(Chunks \cup {End}) /\ Head(q) \in Chunks \cup {End}
           /\ Head(q) = End => Tail(q) = <<>> /\ Ended(q) /\ Pending(q) = 0
           /\ Head(q) # End =>
                /\ Head(q) = m + 1 /\ InOrder(Tail(q), m + 1)
                /\ Ended(Tail(q)) <=> Ended(q)
                /\ Pending(q) = Pending(Tail(q)) + 1
                /\ Pending(Tail(q)) \in Nat
<1> DEFINE t == Tail(q)
<1>1. /\ Len(q) \in Nat \ {0} /\ Head(q) = q[1] /\ Head(q) \in Chunks \cup {End}
      /\ t \in Seq(Chunks \cup {End}) /\ Len(t) = Len(q) - 1
      /\ \A i \in 1..Len(t) : t[i] = q[i + 1]
    BY HeadTailProperties, EmptySeq
<1>2. \A i \in 1..Len(q) : q[i] = m + i \/ (q[i] = End /\ i = Len(q))
    BY DEF InOrder
<1>3. 1 \in 1..Len(q) /\ m + 1 # End
    BY <1>1, CoordinatorConstants
<1>4. q[1] = m + 1 \/ (q[1] = End /\ 1 = Len(q))
    BY <1>2, <1>3
<1> HIDE DEF t
<1>5. CASE Len(q) = 1
  <2>1. t = <<>> /\ Len(t) = 0
    BY <1>1, <1>5, EmptySeq
  <2>2. InOrder(t, m + 1) /\ ~Ended(t) /\ Pending(t) = 0
    BY <2>1, EmptyQueue
  <2>3. /\ Ended(q) <=> q[1] = End
        /\ Pending(q) = IF q[1] = End THEN 0 ELSE 1
    BY <1>1, <1>5, EndedIs
  <2> QED
    BY <1>1, <1>4, <2>1, <2>2, <2>3 DEF t
<1>6. CASE Len(q) > 1
  <2>1. q[1] = m + 1 /\ q[1] # End
    BY <1>1, <1>3, <1>4, <1>6
  <2>2. Len(t) \in Nat \ {0} /\ Len(t) \in 1..Len(t) /\ t[Len(t)] = q[Len(q)]
    BY <1>1, <1>6
  <2>3. /\ Ended(q) <=> q[Len(q)] = End
        /\ Pending(q) = IF q[Len(q)] = End THEN Len(q) - 1 ELSE Len(q)
    BY <1>1, EndedIs
  <2>4. /\ Ended(t) <=> t[Len(t)] = End
        /\ Pending(t) = IF t[Len(t)] = End THEN Len(t) - 1 ELSE Len(t)
    BY <1>1, <2>2, EndedIs
  <2>5. InOrder(t, m + 1)
    <3>1. ASSUME NEW i \in 1..Len(t)
          PROVE  t[i] = m + 1 + i \/ (t[i] = End /\ i = Len(t))
      <4>1. i + 1 \in 1..Len(q) /\ t[i] = q[i + 1]
        BY <1>1
      <4> QED
        BY <1>1, <1>2, <4>1
    <3> QED
      BY <3>1 DEF InOrder
  <2> QED
    BY <1>1, <2>1, <2>2, <2>3, <2>4, <2>5 DEF t
<1> QED
    BY <1>1, <1>5, <1>6

LEMMA PutLast ==
    ASSUME NEW q \in Seq(Chunks \cup {End}), NEW m \in Nat, InOrder(q, m), ~Ended(q),
           NEW x \in Chunks \cup {End}, x = End \/ x = m + Len(q) + 1
    PROVE  /\ InOrder(Append(q, x), m)
           /\ Ended(Append(q, x)) <=> x = End
           /\ Pending(q) = Len(q)
           /\ Pending(Append(q, x)) = IF x = End THEN Len(q) ELSE Len(q) + 1
<1> DEFINE a == Append(q, x)
<1>1. /\ Len(q) \in Nat /\ a \in Seq(Chunks \cup {End}) /\ Len(a) = Len(q) + 1
      /\ \A i \in 1..Len(q) : a[i] = q[i]
      /\ a[Len(q) + 1] = x
    OBVIOUS
<1> HIDE DEF a
<1>2. /\ Ended(a) <=> a[Len(a)] = End
      /\ Pending(a) = IF a[Len(a)] = End THEN Len(a) - 1 ELSE Len(a)
    BY <1>1, EndedIs
<1>3. \A i \in 1..Len(q) : q[i] = m + i
  <2> TAKE i \in 1..Len(q)
  <2>1. q[i] = m + i \/ (q[i] = End /\ i = Len(q))
    BY DEF InOrder
  <2>2. Len(q) \in Nat \ {0}
    BY <1>1
  <2>3. q[Len(q)] # End
    BY <2>2, EndedIs
  <2> QED
    BY <2>1, <2>3
<1>4. InOrder(a, m)
  <2>1. ASSUME NEW i \in 1..Len(a)
        PROVE  a[i] = m + i \/ (a[i] = End /\ i = Len(a))
    <3>1. CASE i \in 1..Len(q)
      BY <1>1, <1>3, <3>1
    <3>2. CASE i = Len(q) + 1
      BY <1>1, <3>2
    <3> QED
      BY <1>1, <3>1, <3>2
  <2> QED
    BY <2>1 DEF InOrder
<1>5. Pending(q) = Len(q)
    BY DEF Pending
<1> QED
    BY <1>1, <1>2, <1>4, <1>5 DEF a

-----------------------------------------------------------------------------
(* Types *)

LEMMA InitTypes == Init => TypeOK
<1> SUFFICES ASSUME Init PROVE TypeOK
    OBVIOUS
<1> USE CoordinatorConstants
<1>1. /\ got \in [Calls -> Seq(Chunks)]
      /\ queue \in [Calls -> Seq(Chunks \cup {End})]
    BY DEF Init
<1>2. /\ made \in [Calls -> 0..MaxChunks] /\ asks \in [Calls -> 0..MaxAsks]
    BY DEF Init
<1>3. /\ entries \in [Ids -> Calls \cup {None}]
      /\ front \in [Calls -> Fronts] /\ bg \in [Calls -> Places]
      /\ getter \in [Calls -> Chunks \cup {None, Asking, End}]
      /\ putting \in [Calls -> Chunks \cup {None, End}]
    BY DEF Init, Fronts, Places
<1> QED
    BY <1>1, <1>2, <1>3 DEF Init, TypeOK

LEMMA CloseTypes ==
    ASSUME TypeOK, NEW c \in Calls, NEW h \in Places, NEW n \in Places,
           CloseStream(c, h, n)
    PROVE  /\ closed' \in [Calls -> BOOLEAN] /\ bg' \in [Calls -> Places]
           /\ putting' \in [Calls -> Chunks \cup {None, End}]
           /\ UNCHANGED <<queue, attached, viewer>>
BY DEF TypeOK, CloseStream

LEMMA EnterTypes ==
    ASSUME TypeOK, NEW c \in Calls, Enter(c)
    PROVE  /\ closed' \in [Calls -> BOOLEAN] /\ bg' \in [Calls -> Places]
           /\ putting' \in [Calls -> Chunks \cup {None, End}]
           /\ response' \in [Calls -> {"partial", "tool", "error", "interrupted",
                                      "hook"}]
           /\ UNCHANGED <<queue, attached, viewer>>
<1>1. {"close_refused", "done", "tool"} \subseteq Places
    BY DEF Places
<1>2. CASE cancelled[c]
    BY <1>1, <1>2, CloseTypes DEF Enter, TypeOK
<1>3. CASE ~cancelled[c]
  <2>1. bg' = [bg EXCEPT ![c] = "tool"] /\ UNCHANGED <<response, streamVars>>
    BY <1>3 DEF Enter
  <2>2. bg' \in [Calls -> Places]
    BY <1>1, <2>1 DEF TypeOK
  <2> QED
    BY <2>1, <2>2 DEF TypeOK, streamVars
<1> QED
    BY <1>2, <1>3

LEMMA BadTypes ==
    ASSUME TypeOK, NEW c \in Calls, EndsBadly(c)
    PROVE  /\ closed' \in [Calls -> BOOLEAN] /\ bg' \in [Calls -> Places]
           /\ putting' \in [Calls -> Chunks \cup {None, End}]
           /\ endState' \in [Calls -> {"none", "error", "interrupted", "success"}]
           /\ UNCHANGED <<queue, attached, viewer>>
<1>1. {"close_early", "after"} \subseteq Places
    BY DEF Places
<1> QED
    BY <1>1, CloseTypes DEF EndsBadly, TypeOK

LEMMA NextTypes == TypeOK /\ [Next]_vars => TypeOK'
<1> SUFFICES ASSUME TypeOK, [Next]_vars PROVE TypeOK'
    OBVIOUS
<1> USE CoordinatorConstants
<1> USE DEF TypeOK, Fronts, Places, Chunks, callerVars, streamVars, toolVars,
            controlVars, history
<1>1. ASSUME NEW c \in Calls, CallerStep(c) PROVE TypeOK'
  <2>1. CASE Arm(c)
    <3>1. CASE deadline[c] = "past"
      BY <2>1, <3>1 DEF Arm
    <3>2. CASE deadline[c] # "past" /\ queue[c] = <<>>
      <4>1. /\ queue' = [queue EXCEPT ![c] = <<>>]
            /\ getter' = [getter EXCEPT ![c] = Asking]
            /\ front' = [front EXCEPT ![c] = "wait"]
            /\ timed' \in [Calls -> BOOLEAN]
            /\ UNCHANGED <<entries, got, putting, attached, closed, viewer,
                 toolVars, controlVars, history>>
        BY <2>1, <3>2 DEF Arm
      <4>2. <<>> \in Seq(Chunks \cup {End})
        OBVIOUS
      <4> QED
        BY <4>1, <4>2
    <3>3. CASE deadline[c] # "past" /\ queue[c] # <<>>
      <4>1. Head(queue[c]) \in Chunks \cup {End}
            /\ Tail(queue[c]) \in Seq(Chunks \cup {End})
        BY <3>3
      <4>2. /\ queue' = [queue EXCEPT ![c] = Tail(queue[c])]
            /\ getter' = [getter EXCEPT ![c] = Head(queue[c])]
            /\ front' = [front EXCEPT ![c] = "wait"]
            /\ timed' \in [Calls -> BOOLEAN]
            /\ UNCHANGED <<entries, got, putting, attached, closed, viewer,
                 toolVars, controlVars, history>>
        BY <2>1, <3>3 DEF Arm
      <4> QED
        BY <4>1, <4>2
    <3> QED
      BY <3>1, <3>2, <3>3
  <2>2. CASE Chunk(c)
    BY <2>2 DEF Chunk, Wake
  <2>3. CASE StreamEnds(c)
    BY <2>3 DEF StreamEnds, Wake
  <2>4. CASE SeesCancel(c)
    BY <2>4 DEF SeesCancel, Wake
  <2>5. CASE SeesChange(c)
    BY <2>5 DEF SeesChange, Wake
  <2>6. CASE TimesOut(c)
    BY <2>6 DEF TimesOut, Wake
  <2>7. CASE Finalize(c)
    BY <2>7 DEF Finalize
  <2> QED
    BY <1>1, <2>1, <2>2, <2>3, <2>4, <2>5, <2>6, <2>7 DEF CallerStep
<1>2. ASSUME NEW c \in Calls, BackgroundStep(c) PROVE TypeOK'
  <2>1. CASE Begin(c)
    BY <2>1, EnterTypes DEF Begin
  <2>2. CASE BeforeReturns(c)
    <3>1. CASE Enter(c)
      BY <2>2, <3>1, EnterTypes DEF BeforeReturns
    <3>2. CASE /\ response' = [response EXCEPT ![c] = "error"]
               /\ CloseStream(c, "close_refused", "done")
      <4>1. "close_refused" \in Places /\ "done" \in Places
        OBVIOUS
      <4> QED
        BY <2>2, <3>2, <4>1, CloseTypes DEF BeforeReturns
    <3> QED
      BY <2>2, <3>1, <3>2 DEF BeforeReturns
  <2>3. ASSUME NEW bad \in BOOLEAN, Says(c, bad) PROVE TypeOK'
    <3>1. made[c] + 1 \in Chunks
      BY <2>3 DEF Says
    <3>2. /\ made' = [made EXCEPT ![c] = made[c] + 1]
          /\ struck' = [struck EXCEPT ![c] = FALSE]
          /\ UNCHANGED <<entries, callerVars, response, cancelled, deadline,
               changed, asks, down, shutting, history>>
      BY <2>3 DEF Says
    <3>3. /\ closed' \in [Calls -> BOOLEAN] /\ bg' \in [Calls -> Places]
          /\ putting' \in [Calls -> Chunks \cup {None, End}]
          /\ endState' \in [Calls -> {"none", "error", "interrupted", "success"}]
          /\ UNCHANGED <<queue, attached, viewer>>
      <4>1. CASE EndsBadly(c)
        BY <4>1, BadTypes
      <4>2. CASE ~EndsBadly(c)
        <5>1. made'[c] \in Chunks
          BY <3>1, <3>2
        <5> QED
          BY <2>3, <4>2, <5>1 DEF Says
      <4> QED
        BY <4>1, <4>2
    <3>4. made' \in [Calls -> 0..MaxChunks]
      BY <3>1, <3>2
    <3> QED
      BY <3>2, <3>3, <3>4
  <2>4. CASE Said(c)
    BY <2>4, BadTypes DEF Said
  <2>5. CASE ToolEnds(c)
    <3>1. {"close_early", "close_late", "after"} \subseteq Places
      OBVIOUS
    <3>2. /\ closed' \in [Calls -> BOOLEAN] /\ bg' \in [Calls -> Places]
          /\ putting' \in [Calls -> Chunks \cup {None, End}]
          /\ UNCHANGED <<queue, attached, viewer>>
      BY <2>5, <3>1, CloseTypes DEF ToolEnds
    <3>3. /\ response' \in [Calls -> {"partial", "tool", "error", "interrupted",
                                     "hook"}]
          /\ endState' \in [Calls -> {"none", "error", "interrupted", "success"}]
          /\ struck' = [struck EXCEPT ![c] = FALSE]
          /\ UNCHANGED <<entries, callerVars, made, cancelled, deadline, changed,
               asks, down, shutting, history>>
      BY <2>5 DEF ToolEnds
    <3> QED
      BY <3>2, <3>3
  <2>6. CASE Closed(c)
    BY <2>6 DEF Closed
  <2>7. CASE AfterReturns(c)
    BY <2>7 DEF AfterReturns
  <2>8. CASE Caught(c)
    BY <2>8 DEF Caught, CloseStream, Suspends
  <2>9. CASE Uncaught(c)
    BY <2>9 DEF Uncaught
  <2> QED
    BY <1>2, <2>1, <2>2, <2>3, <2>4, <2>5, <2>6, <2>7, <2>8, <2>9 DEF BackgroundStep
<1>3. ASSUME NEW c \in Calls, Intervention(c) PROVE TypeOK'
  <2>1. CASE View(c)
    BY <2>1 DEF View
  <2>2. CASE Leave(c)
    BY <2>2 DEF Leave
  <2>3. CASE RequestOffload(c)
    BY <2>3 DEF RequestOffload, Asked
  <2>4. CASE ExtendDeadline(c)
    BY <2>4 DEF ExtendDeadline, Asked
  <2>5. CASE Cancel(c)
    BY <2>5 DEF Cancel
  <2>6. CASE ForceCancel(c)
    BY <2>6 DEF ForceCancel, Asked, Strike
  <2>7. CASE ShutdownStrikes(c)
    <3>1. CASE bg[c] = "done"
      BY <2>7, <3>1 DEF ShutdownStrikes
    <3>2. CASE bg[c] # "done"
      <4>1. /\ struck' = [struck EXCEPT ![c] = TRUE]
            /\ putting' = [putting EXCEPT ![c] = None]
            /\ lost' \subseteq Calls /\ untimely' \subseteq Calls
            /\ shutting' = shutting \ {c}
            /\ UNCHANGED <<entries, callerVars, queue, attached, closed, viewer,
                 toolVars, cancelled, deadline, changed, asks, down>>
        BY <2>7, <3>2 DEF ShutdownStrikes, Strike
      <4> QED
        BY <4>1
    <3> QED
      BY <3>1, <3>2
  <2>8. CASE TimePasses(c)
    BY <2>8 DEF TimePasses
  <2> QED
    BY <1>3, <2>1, <2>2, <2>3, <2>4, <2>5, <2>6, <2>7, <2>8 DEF Intervention
<1>4. ASSUME NEW c \in Calls, Execute(c) PROVE TypeOK'
    BY <1>4 DEF Execute
<1>5. ASSUME NEW c \in Calls, Put(c) PROVE TypeOK'
    BY <1>5 DEF Put
<1>6. ASSUME NEW c \in Calls, Get(c) PROVE TypeOK'
    BY <1>6 DEF Get
<1>7. CASE Shutdown
    BY <1>7 DEF Shutdown
<1>8. CASE UNCHANGED vars
    BY <1>8 DEF vars
<1> QED
    BY <1>1, <1>2, <1>3, <1>4, <1>5, <1>6, <1>7, <1>8 DEF Next

-----------------------------------------------------------------------------
(* A call that a step leaves alone *)

Same(c) ==
    /\ front'[c] = front[c] /\ getter'[c] = getter[c] /\ got'[c] = got[c]
    /\ bg'[c] = bg[c] /\ made'[c] = made[c] /\ putting'[c] = putting[c]
    /\ queue'[c] = queue[c] /\ attached'[c] = attached[c]
    /\ closed'[c] = closed[c] /\ struck'[c] = struck[c]
    /\ c \in lost' <=> c \in lost

LEMMA SameIsOK ==
    ASSUME NEW c \in Calls, CallOK(c), Same(c)
    PROVE  CallOK(c)'
<1>1. PlacesOK(c)'
    BY DEF CallOK, PlacesOK, Same
<1>2. PuttingOK(c)'
    BY DEF CallOK, PuttingOK, Same
<1>3. Held(c)' = Held(c) /\ Coming(c)' = Coming(c)
    BY DEF Same, Held, Coming
<1>4. FlowOK(c)'
  <2>1. /\ front'[c] = front[c] /\ getter'[c] = getter[c] /\ got'[c] = got[c]
        /\ made'[c] = made[c] /\ putting'[c] = putting[c]
        /\ queue'[c] = queue[c] /\ attached'[c] = attached[c]
        /\ closed'[c] = closed[c] /\ (c \in lost' <=> c \in lost)
    BY DEF Same
  <2> QED
    BY <1>3, <2>1 DEF CallOK, FlowOK
<1> QED
    BY <1>1, <1>2, <1>4 DEF CallOK

LEMMA OthersStay ==
    ASSUME NEW c \in Calls, NEW d \in Calls \ {c}, TypeOK,
           \/ Execute(c) \/ CallerStep(c) \/ BackgroundStep(c) \/ Put(c) \/ Get(c)
           \/ Intervention(c)
    PROVE  Same(d)
<1> USE DEF TypeOK, Same, callerVars, streamVars, toolVars, controlVars, history
<1>1. CASE Execute(c) \/ Put(c) \/ Get(c)
    BY <1>1 DEF Execute, Put, Get
<1>2. CASE CallerStep(c)
    BY <1>2 DEF CallerStep, Arm, Chunk, StreamEnds, SeesCancel, SeesChange, TimesOut,
       Finalize, Wake
<1>3. CASE Begin(c) \/ BeforeReturns(c)
    BY <1>3 DEF Begin, BeforeReturns, Enter, CloseStream
<1>4. CASE (\E bad \in BOOLEAN : Says(c, bad)) \/ Said(c)
    BY <1>4 DEF Says, Said, EndsBadly, CloseStream
<1>5. CASE ToolEnds(c) \/ Caught(c)
    BY <1>5 DEF ToolEnds, Caught, CloseStream
<1>6. CASE Closed(c) \/ AfterReturns(c) \/ Uncaught(c)
    BY <1>6 DEF Closed, AfterReturns, Uncaught
<1>7. CASE Intervention(c)
    BY <1>7 DEF Intervention, View, Leave, RequestOffload, ExtendDeadline, Cancel,
       ForceCancel, ShutdownStrikes, TimePasses, Asked, Strike
<1> QED
    BY <1>1, <1>2, <1>3, <1>4, <1>5, <1>6, <1>7 DEF BackgroundStep

-----------------------------------------------------------------------------
(* One lemma per kind of step *)

LEMMA InitOK == Init => \A c \in Calls : CallOK(c)
BY CoordinatorConstants DEF Init, CallOK, PlacesOK, PuttingOK, FlowOK, Held,
   InOrder, Ended, Pending, Coming, Chunks

LEMMA ExecuteKeeps ==
    ASSUME NEW c \in Calls, TypeOK, CallOK(c), Execute(c)
    PROVE  CallOK(c)'
<1> USE CoordinatorConstants
<1>1. /\ front'[c] = "loop" /\ bg'[c] = "created" /\ attached'[c]
      /\ made[c] = 0 /\ queue[c] = <<>> /\ got[c] = <<>>
      /\ getter[c] = None /\ ~closed[c] /\ putting[c] = None /\ c \notin lost
      /\ UNCHANGED <<getter, got, made, putting, queue, closed, struck, lost>>
    BY DEF Execute, TypeOK, CallOK, PlacesOK, PuttingOK, Closing, Chunks, history
<1>2. PlacesOK(c)' /\ PuttingOK(c)'
    BY <1>1 DEF PlacesOK, PuttingOK, Chunks
<1>3. FlowOK(c)'
  <2>1. Held(c)' = 0 /\ Coming(c)' = 0
    BY <1>1 DEF Held, Coming, Chunks
  <2>2. /\ Len(got'[c]) = 0 /\ queue'[c] = <<>> /\ made'[c] = 0
        /\ InOrder(<<>>, 0) /\ ~Ended(<<>>) /\ Pending(<<>>) = 0
    BY <1>1, EmptyQueue
  <2>3. /\ getter'[c] \notin Chunks /\ getter'[c] # End
    BY <1>1 DEF Chunks
  <2> QED
    BY <1>1, <2>1, <2>2, <2>3 DEF FlowOK
<1> QED
    BY <1>2, <1>3 DEF CallOK

\* The first item of the queue goes to the waiting getter.
LEMMA TakeKeeps ==
    ASSUME NEW c \in Calls, TypeOK, CallOK(c), queue[c] # <<>>,
           front[c] \in {"loop", "wait"}, getter[c] \in {None, Asking},
           front'[c] = "wait", getter'[c] = Head(queue[c]),
           queue'[c] = Tail(queue[c]),
           UNCHANGED <<got, attached, closed, putting, bg, made, struck, lost>>
    PROVE  CallOK(c)'
<1> USE CoordinatorConstants
<1> DEFINE n == Len(got[c])
<1>1. /\ queue[c] \in Seq(Chunks \cup {End}) /\ n \in Nat
    BY DEF TypeOK
<1>2. /\ Held(c) = 0 /\ attached[c] = TRUE
      /\ InOrder(queue[c], n)
      /\ Ended(queue[c]) => closed[c] /\ putting[c] = None
      /\ c \notin lost => n + Pending(queue[c]) + Coming(c) = made[c]
      /\ \A i \in 1..n : got'[c][i] = i
    BY <1>1 DEF CallOK, FlowOK, PlacesOK, Held, Chunks, TypeOK
<1>3. /\ Len(got'[c]) = n /\ front'[c] = "wait" /\ attached'[c] = TRUE
      /\ closed'[c] = closed[c] /\ putting'[c] = putting[c] /\ made'[c] = made[c]
      /\ lost' = lost /\ Coming(c)' = Coming(c) /\ Coming(c) \in {0, 1}
    BY <1>2 DEF Coming
<1> HIDE DEF n
<1>4. PlacesOK(c)' /\ PuttingOK(c)'
    BY <1>1, <1>2, TakeFirst DEF CallOK, PlacesOK, PuttingOK, Chunks
<1>5. CASE Head(queue[c]) = End
  <2>1. /\ getter'[c] = End /\ queue'[c] = <<>> /\ Ended(queue[c])
        /\ Pending(queue[c]) = 0 /\ InOrder(<<>>, n) /\ ~Ended(<<>>)
        /\ Pending(<<>>) = 0
    BY <1>1, <1>2, <1>5, TakeFirst, EmptyQueue
  <2>2. Held(c)' = 0 /\ End \notin Chunks
    BY <2>1 DEF Held, Chunks
  <2>a. closed[c] /\ putting[c] = None /\ n + 0 = n
    BY <1>1, <1>2, <2>1
  <2>b. c \notin lost => n + 0 + 0 + Coming(c)' = made[c]
    BY <1>1, <1>2, <1>3, <2>1
  <2>3. FlowOK(c)'
    BY <1>2, <1>3, <2>1, <2>2, <2>a, <2>b DEF FlowOK
  <2> QED
    BY <1>4, <2>3 DEF CallOK
<1>6. CASE Head(queue[c]) # End
  <2>1. /\ getter'[c] = n + 1 /\ getter'[c] \in Chunks /\ getter'[c] # End
        /\ InOrder(queue'[c], n + 1) /\ (Ended(queue'[c]) <=> Ended(queue[c]))
        /\ Pending(queue[c]) = Pending(queue'[c]) + 1
        /\ Pending(queue'[c]) \in Nat
    BY <1>1, <1>2, <1>6, TakeFirst
  <2>2. Held(c)' = 1
    BY <2>1 DEF Held
  <2>3. c \notin lost => n + 1 + Pending(queue'[c]) + Coming(c)' = made[c]
    BY <1>1, <1>2, <1>3, <2>1
  <2>4. FlowOK(c)'
    BY <1>2, <1>3, <2>1, <2>2, <2>3 DEF FlowOK
  <2> QED
    BY <1>4, <2>4 DEF CallOK
<1> QED
    BY <1>5, <1>6

\* The flow depends on where the background task is only by the stream.
LEMMA FlowStays ==
    ASSUME NEW c \in Calls, FlowOK(c), front'[c] = front[c],
           getter'[c] = getter[c], got'[c] = got[c], made'[c] = made[c],
           putting'[c] = putting[c], queue'[c] = queue[c],
           attached'[c] = attached[c], closed'[c] = closed[c],
           c \in lost' <=> c \in lost
    PROVE  FlowOK(c)'
<1>1. Held(c)' = Held(c) /\ Coming(c)' = Coming(c)
    BY DEF Held, Coming
<1> QED
    BY <1>1 DEF FlowOK

LEMMA CallerKeeps ==
    ASSUME NEW c \in Calls, TypeOK, CallOK(c), CallerStep(c)
    PROVE  CallOK(c)'
<1> USE CoordinatorConstants
<1> USE DEF callerVars, streamVars, toolVars, controlVars, history
<1>1. CASE Arm(c)
  <2>1. CASE deadline[c] = "past"
    <3>1. Same(c)
      BY <1>1, <2>1 DEF Arm, Same
    <3> QED
      BY <3>1, SameIsOK
  <2>2. CASE deadline[c] # "past" /\ queue[c] = <<>>
    <3>1. /\ front[c] = "loop" /\ front'[c] = "wait" /\ getter'[c] = Asking
          /\ queue'[c] = <<>>
          /\ UNCHANGED <<got, attached, closed, putting, bg, made, struck, lost>>
      BY <1>1, <2>2 DEF Arm, TypeOK
    <3>2. getter[c] = None /\ None \notin Chunks /\ Asking \notin Chunks \cup {End}
      BY <3>1 DEF CallOK, PlacesOK, Chunks
    <3>3. Held(c)' = Held(c) /\ Coming(c)' = Coming(c)
      BY <3>1, <3>2 DEF Held, Coming
    <3>4. PlacesOK(c)' /\ PuttingOK(c)'
      BY <3>1 DEF CallOK, PlacesOK, PuttingOK
    <3>5. FlowOK(c)'
      BY <2>2, <3>1, <3>2, <3>3 DEF CallOK, FlowOK
    <3> QED
      BY <3>4, <3>5 DEF CallOK
  <2>3. CASE deadline[c] # "past" /\ queue[c] # <<>>
    <3>1. /\ front[c] = "loop" /\ front'[c] = "wait"
          /\ getter'[c] = Head(queue[c]) /\ queue'[c] = Tail(queue[c])
          /\ UNCHANGED <<got, attached, closed, putting, bg, made, struck, lost>>
      BY <1>1, <2>3 DEF Arm, TypeOK
    <3>2. getter[c] = None
      BY <3>1 DEF CallOK, PlacesOK
    <3> QED
      BY <2>3, <3>1, <3>2, TakeKeeps
  <2> QED
    BY <2>1, <2>2, <2>3
<1>2. ASSUME Chunk(c) PROVE CallOK(c)'
  <2> DEFINE n == Len(got[c])
  <2>1. /\ front[c] = "wait" /\ front'[c] = "loop" /\ getter'[c] = None
        /\ getter[c] \in Chunks /\ got'[c] = Append(got[c], getter[c])
        /\ UNCHANGED <<queue, attached, closed, putting, bg, made, struck, lost>>
    BY <1>2 DEF Chunk, Wake, TypeOK
  <2>a. got[c] \in Seq(Chunks) /\ n \in Nat
    BY DEF TypeOK
  <2>b. attached[c] /\ getter[c] # End
    BY <2>1 DEF CallOK, PlacesOK, Chunks
  <2>c. getter[c] = n + 1 /\ \A i \in 1..n : got[c][i] = i
    BY <2>1, <2>b DEF CallOK, FlowOK
  <2>2. /\ attached[c] /\ getter[c] = n + 1 /\ n \in Nat /\ getter[c] # End
        /\ got[c] \in Seq(Chunks) /\ \A i \in 1..n : got[c][i] = i
    BY <2>a, <2>b, <2>c
  <2>3. Len(got'[c]) = n + 1 /\ \A i \in 1..Len(got'[c]) : got'[c][i] = i
    <3>1. got'[c] = Append(got[c], n + 1) /\ n + 1 \in Chunks
      BY <2>1, <2>2
    <3> QED
      BY <2>2, <3>1
  <2>4. Held(c) = 1 /\ Held(c)' = 0 /\ Coming(c)' = Coming(c) /\ getter'[c] # End
    BY <2>1 DEF Held, Coming, Chunks
  <2> HIDE DEF n
  <2>5. n + 1 + 0 = n + 1
    BY <2>2
  <2>6. /\ InOrder(queue'[c], n + 1)
        /\ Ended(queue'[c]) => closed'[c] /\ putting'[c] = None
        /\ c \notin lost' => n + 1 + Pending(queue'[c]) + Coming(c)' = made'[c]
    BY <2>1, <2>2, <2>4 DEF CallOK, FlowOK, n
  <2>7. n + 1 + 0 + Pending(queue'[c]) = n + 1 + Pending(queue'[c])
    BY <2>2, <2>5
  <2>8. FlowOK(c)'
    BY <2>1, <2>3, <2>4, <2>5, <2>6, <2>7 DEF FlowOK, Chunks
  <2>9. PlacesOK(c)' /\ PuttingOK(c)'
    BY <2>1 DEF CallOK, PlacesOK, PuttingOK
  <2> QED
    BY <2>8, <2>9 DEF CallOK
<1>3. ASSUME StreamEnds(c) PROVE CallOK(c)'
  <2>1. /\ front[c] = "wait" /\ front'[c] = "over" /\ getter'[c] = None
        /\ getter[c] = End /\ ~attached'[c]
        /\ UNCHANGED <<got, queue, closed, putting, bg, made, struck, lost>>
    BY <1>3 DEF StreamEnds, Wake, TypeOK
  <2>2. /\ attached[c] /\ queue[c] = <<>> /\ closed[c] /\ putting[c] = None
        /\ Held(c) = 0 /\ Coming(c) = 0 /\ Pending(queue[c]) = 0
        /\ Len(got[c]) \in Nat
    BY <2>1, EmptyQueue DEF CallOK, PlacesOK, FlowOK, Held, Coming, Chunks, TypeOK
  <2>3. c \notin lost => Len(got[c]) = made[c]
    BY <2>2 DEF CallOK, FlowOK
  <2>4. FlowOK(c)'
    BY <2>1, <2>3 DEF CallOK, FlowOK
  <2>5. PlacesOK(c)' /\ PuttingOK(c)'
    BY <2>1, <2>2 DEF CallOK, PlacesOK, PuttingOK
  <2> QED
    BY <2>4, <2>5 DEF CallOK
<1>4. ASSUME SeesCancel(c) \/ SeesChange(c) \/ TimesOut(c) PROVE CallOK(c)'
  <2>1. /\ front[c] = "wait" /\ front'[c] = "loop" /\ getter'[c] = None
        /\ getter[c] = Asking
        /\ UNCHANGED <<got, queue, attached, closed, putting, bg, made, struck, lost>>
    BY <1>4 DEF SeesCancel, SeesChange, TimesOut, Wake, TypeOK
  <2>2. Held(c)' = Held(c) /\ Coming(c)' = Coming(c)
    BY <2>1 DEF Held, Coming, Chunks
  <2>3. FlowOK(c)'
    BY <2>1, <2>2 DEF CallOK, FlowOK, Chunks
  <2>4. PlacesOK(c)' /\ PuttingOK(c)'
    BY <2>1 DEF CallOK, PlacesOK, PuttingOK
  <2> QED
    BY <2>3, <2>4 DEF CallOK
<1>5. ASSUME Finalize(c) PROVE CallOK(c)'
  <2>1. /\ front[c] = "over" /\ bg[c] = "done" /\ front'[c] = "returned"
        /\ UNCHANGED <<getter, got, queue, attached, closed, putting, bg, made,
                      struck, lost>>
    BY <1>5 DEF Finalize, TypeOK
  <2>2. Held(c)' = Held(c) /\ Coming(c)' = Coming(c)
    BY <2>1 DEF Held, Coming
  <2>3. FlowOK(c)'
    BY <2>1, <2>2 DEF CallOK, FlowOK
  <2>4. PlacesOK(c)' /\ PuttingOK(c)'
    BY <2>1 DEF CallOK, PlacesOK, PuttingOK
  <2> QED
    BY <2>3, <2>4 DEF CallOK
<1> QED
    BY <1>1, <1>2, <1>3, <1>4, <1>5 DEF CallerStep

LEMMA GetKeeps ==
    ASSUME NEW c \in Calls, TypeOK, CallOK(c), Get(c)
    PROVE  CallOK(c)'
<1> USE CoordinatorConstants
<1>1. /\ getter[c] = Asking /\ queue[c] # <<>> /\ front[c] = "wait"
    BY DEF Get, CallOK, PlacesOK
<1>2. /\ front'[c] = "wait"
      /\ getter'[c] = Head(queue[c]) /\ queue'[c] = Tail(queue[c])
      /\ UNCHANGED <<got, attached, closed, putting, bg, made, struck, lost>>
    BY <1>1 DEF Get, TypeOK, toolVars, controlVars, history
<1> QED
    BY <1>1, <1>2, TakeKeeps

LEMMA PutKeeps ==
    ASSUME NEW c \in Calls, TypeOK, CallOK(c), Put(c)
    PROVE  CallOK(c)'
<1> USE CoordinatorConstants
<1> DEFINE x == putting[c]
           m == Len(got[c]) + Held(c)
<1>1. /\ x # None /\ putting'[c] = None
      /\ queue'[c] = IF attached[c] THEN Append(queue[c], x) ELSE queue[c]
      /\ UNCHANGED <<front, getter, got, attached, closed, bg, made, struck, lost>>
    BY DEF Put, TypeOK, callerVars, toolVars, controlVars, history
<1>2. /\ x \in Chunks \cup {End} /\ queue[c] \in Seq(Chunks \cup {End})
      /\ Len(got[c]) \in Nat /\ m \in Nat /\ Held(c)' = Held(c) /\ Coming(c)' = 0
    BY <1>1 DEF TypeOK, Held, Coming, Chunks
<1>3. front[c] # "idle"
  <2>1. x \in Chunks => bg[c] # "none"
    BY DEF CallOK, PuttingOK
  <2>2. x = End => bg[c] # "none"
    BY DEF CallOK, PuttingOK, PlacesOK, Closing
  <2>3. front[c] = "idle" => bg[c] = "none"
    BY DEF CallOK, PlacesOK
  <2> QED
    BY <1>2, <2>1, <2>2, <2>3
<1>4. PlacesOK(c)' /\ PuttingOK(c)'
    BY <1>1, <1>3 DEF CallOK, PlacesOK, PuttingOK, Chunks
<1>5. CASE ~attached[c]
  <2>1. FlowOK(c)'
    BY <1>1, <1>5 DEF CallOK, FlowOK
  <2> QED
    BY <1>4, <2>1 DEF CallOK
<1>6. CASE attached[c]
  <2>1. /\ InOrder(queue[c], m) /\ ~Ended(queue[c]) /\ getter[c] # End
        /\ getter[c] \in Chunks => getter[c] = Len(got[c]) + 1
        /\ \A i \in 1..Len(got[c]) : got[c][i] = i
        /\ c \notin lost => m + Pending(queue[c]) + Coming(c) = made[c]
    BY <1>1, <1>6 DEF CallOK, FlowOK
  <2>2. x = End \/ x = m + Len(queue[c]) + 1
    <3>1. ASSUME x \in Chunks PROVE x = m + Len(queue[c]) + 1
      <4>1. c \notin lost /\ x = made[c] /\ Coming(c) = 1
        BY <3>1 DEF CallOK, PuttingOK, Coming
      <4>2. Pending(queue[c]) = Len(queue[c])
        BY <2>1 DEF Pending
      <4> QED
        BY <1>2, <2>1, <4>1, <4>2
    <3> QED
      BY <1>2, <3>1
  <2> HIDE DEF x, m
  <2>3. /\ InOrder(queue'[c], m) /\ (Ended(queue'[c]) <=> x = End)
        /\ Pending(queue[c]) = Len(queue[c])
        /\ Pending(queue'[c]) = IF x = End THEN Len(queue[c]) ELSE Len(queue[c]) + 1
    <3>1. queue'[c] = Append(queue[c], x)
      BY <1>1, <1>6
    <3>2. /\ InOrder(Append(queue[c], x), m)
          /\ Ended(Append(queue[c], x)) <=> x = End
          /\ Pending(queue[c]) = Len(queue[c])
          /\ Pending(Append(queue[c], x)) =
               IF x = End THEN Len(queue[c]) ELSE Len(queue[c]) + 1
      BY <1>2, <2>1, <2>2, PutLast
    <3> QED
      BY <3>1, <3>2
  <2>4. x = End => closed[c]
    BY DEF CallOK, PuttingOK, x
  <2>5. c \notin lost => m + Pending(queue'[c]) + Coming(c)' = made[c]
    <3>1. /\ x = End => Coming(c) = 0
          /\ x # End => Coming(c) = 1
      BY <1>2 DEF Coming, Chunks, x
    <3>2. Len(queue[c]) \in Nat
      BY <1>2
    <3> QED
      BY <1>2, <2>1, <2>3, <3>1, <3>2
  <2>6. FlowOK(c)'
    BY <1>1, <1>2, <1>6, <2>1, <2>3, <2>4, <2>5, <1>3 DEF FlowOK, CallOK, PlacesOK, m
  <2> QED
    BY <1>4, <2>6 DEF CallOK
<1> QED
    BY <1>5, <1>6

\* The stream is closed, wherever the background task was: the end is put, or
\* there is nobody to put it for.
LEMMA CloseKeeps ==
    ASSUME NEW c \in Calls, TypeOK, CallOK(c), NEW h \in Closing, NEW n \in Closing,
           CloseStream(c, h, n), putting[c] = None, bg[c] \notin {"none", "done"},
           ~struck'[c], UNCHANGED <<front, getter, got, lost>>,
           made' = made \/ (~attached[c] /\ front[c] \notin {"over", "returned"})
    PROVE  CallOK(c)'
<1> USE CoordinatorConstants
<1>1. /\ closed'[c] /\ bg'[c] \in Closing
      /\ putting'[c] \in {None, End} /\ (closed[c] => putting'[c] = None)
      /\ UNCHANGED <<queue, attached>>
    BY DEF CloseStream, Suspends, TypeOK
<1>2. front[c] \notin {"idle", "returned"}
    BY DEF CallOK, PlacesOK
<1>3. PlacesOK(c)'
    BY <1>1, <1>2 DEF CallOK, PlacesOK
<1>4. PuttingOK(c)'
    BY <1>1 DEF PuttingOK, Chunks
<1>5. Held(c)' = Held(c) /\ Coming(c)' = Coming(c)
    BY <1>1 DEF Held, Coming, Chunks
<1>6. Ended(queue[c]) \/ getter[c] = End => ~attached[c] \/ closed[c]
    BY DEF CallOK, FlowOK
<1>7. FlowOK(c)'
  <2>1. CASE attached[c]
    <3>1. made' = made /\ attached'[c]
      BY <1>1, <2>1
    <3> QED
      BY <1>1, <1>5, <1>6, <2>1, <3>1 DEF CallOK, FlowOK
  <2>2. CASE ~attached[c]
    <3>1. ~attached'[c]
      BY <1>1, <2>2
    <3> QED
      BY <2>2, <3>1 DEF CallOK, FlowOK
  <2> QED
    BY <2>1, <2>2
<1> QED
    BY <1>3, <1>4, <1>7 DEF CallOK

\* The background task moves on, the stream is left alone.
LEMMA MoveKeeps ==
    ASSUME NEW c \in Calls, TypeOK, CallOK(c), bg[c] \notin {"none", "done"},
           putting[c] \notin Chunks, ~struck'[c],
           bg'[c] \in Closing \/ (~closed[c] /\ bg'[c] # "none"),
           c \in lost => bg'[c] \in Closing,
           UNCHANGED <<front, getter, got, made, putting, queue, attached, closed,
                       lost>>
    PROVE  CallOK(c)'
<1>1. front[c] \notin {"idle", "returned"}
    BY DEF CallOK, PlacesOK
<1>2. PlacesOK(c)'
    BY <1>1 DEF CallOK, PlacesOK
<1>3. PuttingOK(c)'
    BY CoordinatorConstants DEF CallOK, PuttingOK, Chunks
<1>4. FlowOK(c)'
    BY FlowStays DEF CallOK
<1> QED
    BY <1>2, <1>3, <1>4 DEF CallOK

\* The task is entered, or refused.
LEMMA EnterKeeps ==
    ASSUME NEW c \in Calls, TypeOK, CallOK(c), Enter(c),
           bg[c] \in {"created", "before"}, ~struck[c],
           UNCHANGED <<front, getter, got, made, struck, lost>>
    PROVE  CallOK(c)'
<1> USE CoordinatorConstants
<1>1. /\ putting[c] = None /\ ~closed[c] /\ c \notin lost
      /\ bg[c] \notin {"none", "done"} /\ ~struck'[c]
    BY DEF CallOK, PlacesOK, PuttingOK, Closing, TypeOK
<1>2. CASE cancelled[c]
  <2>1. CloseStream(c, "close_refused", "done")
    BY <1>2 DEF Enter
  <2>2. "close_refused" \in Closing /\ "done" \in Closing
    BY DEF Closing
  <2> QED
    BY <1>1, <2>1, <2>2, CloseKeeps
<1>3. CASE ~cancelled[c]
  <2>1. bg'[c] = "tool" /\ UNCHANGED <<putting, queue, attached, closed>>
    BY <1>3 DEF Enter, TypeOK, streamVars
  <2>2. putting[c] \notin Chunks
    BY <1>1 DEF Chunks
  <2> QED
    BY <1>1, <2>1, <2>2, MoveKeeps
<1> QED
    BY <1>2, <1>3

LEMMA SaysKeeps ==
    ASSUME NEW c \in Calls, TypeOK, CallOK(c), NEW bad \in BOOLEAN, Says(c, bad)
    PROVE  CallOK(c)'
<1> USE CoordinatorConstants
<1>1. /\ bg[c] = "tool" /\ made'[c] = made[c] + 1 /\ made[c] \in Nat
      /\ made[c] + 1 \in Chunks /\ ~struck'[c]
      /\ UNCHANGED <<front, getter, got, lost>>
    BY DEF Says, TypeOK, callerVars, history, Chunks
<1>2. /\ ~closed[c] /\ c \notin lost /\ putting[c] = None
      /\ front[c] \notin {"idle", "over", "returned"}
    BY <1>1 DEF CallOK, PlacesOK, PuttingOK, Closing, TypeOK
<1>3. CASE Suspends(c)
  <2>1. /\ putting'[c] = made[c] + 1 /\ bg'[c] \in {"put", "put_bad"}
        /\ UNCHANGED <<queue, attached, closed>>
    BY <1>1, <1>3 DEF Says, TypeOK
  <2>2. PlacesOK(c)'
    BY <1>1, <1>2, <2>1 DEF CallOK, PlacesOK
  <2>3. PuttingOK(c)'
    BY <1>1, <1>2, <2>1 DEF PuttingOK, Chunks
  <2>4. Held(c)' = Held(c) /\ Coming(c)' = 1 /\ Coming(c) = 0
    BY <1>1, <1>2, <2>1 DEF Held, Coming, Chunks
  <2>5. FlowOK(c)'
    <3>1. ASSUME attached[c]
          PROVE  Len(got[c]) + Held(c) + Pending(queue[c]) + 1 = made'[c]
      <4>1. Len(got[c]) + Held(c) + Pending(queue[c]) + 0 = made[c]
        BY <1>2, <2>4, <3>1 DEF CallOK, FlowOK
      <4>2. /\ Len(got[c]) \in Nat /\ Held(c) \in Nat
            /\ Len(queue[c]) \in Nat
        BY DEF TypeOK, Held
      <4>3. Pending(queue[c]) \in Int
        BY <4>2 DEF Pending
      <4> QED
        BY <1>1, <4>1, <4>2, <4>3
    <3> QED
      BY <1>1, <1>2, <2>1, <2>4, <3>1 DEF CallOK, FlowOK
  <2> QED
    BY <2>2, <2>3, <2>5 DEF CallOK
<1>4. ASSUME ~Suspends(c) PROVE CallOK(c)'
  <2>1. ~attached[c]
    BY <1>2, <1>4 DEF Suspends
  <2>2. CASE bad
    <3>1. CloseStream(c, "close_early", "after")
      BY <1>4, <2>2 DEF Says, EndsBadly
    <3>2. "close_early" \in Closing /\ "after" \in Closing
      BY DEF Closing
    <3>3. bg[c] \notin {"none", "done"}
      BY <1>1
    <3> QED
      BY <1>1, <1>2, <2>1, <3>1, <3>2, <3>3, CloseKeeps
  <2>3. CASE ~bad
    <3>1. UNCHANGED <<bg, putting, queue, attached, closed>>
      BY <1>4, <2>3 DEF Says, streamVars
    <3>2. PlacesOK(c)'
      BY <1>1, <1>2, <3>1 DEF CallOK, PlacesOK
    <3>3. PuttingOK(c)'
      BY <1>1, <1>2, <3>1 DEF PuttingOK, Chunks
    <3>4. FlowOK(c)'
      BY <1>1, <1>2, <2>1, <3>1 DEF CallOK, FlowOK
    <3> QED
      BY <3>2, <3>3, <3>4 DEF CallOK
  <2> QED
    BY <2>2, <2>3
<1> QED
    BY <1>3, <1>4

LEMMA BackgroundKeeps ==
    ASSUME NEW c \in Calls, TypeOK, CallOK(c), BackgroundStep(c)
    PROVE  CallOK(c)'
<1> USE CoordinatorConstants
<1> USE DEF callerVars, controlVars, history
<1>0. /\ {"close_early", "close_late", "close_refused", "after", "done"}
           \subseteq Closing
      /\ putting[c] \in Chunks => bg[c] \in {"put", "put_bad"}
      /\ putting[c] \in Chunks \cup {None, End}
      /\ putting[c] = End => bg[c] \in Closing
      /\ closed[c] => bg[c] \in Closing
      /\ c \in lost => (bg[c] \in {"put", "put_bad"} /\ struck[c]) \/ bg[c] \in Closing
    BY DEF Closing, CallOK, PuttingOK, PlacesOK, TypeOK
<1>1. ASSUME Begin(c) PROVE CallOK(c)'
  <2>1. /\ bg[c] = "created" /\ ~struck[c]
        /\ UNCHANGED <<front, getter, got, made, struck, lost>>
    BY <1>1 DEF Begin
  <2>2. CASE Enter(c)
    BY <2>1, <2>2, EnterKeeps
  <2>3. CASE ~Enter(c)
    <3>1. bg'[c] = "before" /\ UNCHANGED <<putting, queue, attached, closed>>
      BY <1>1, <2>3 DEF Begin, TypeOK, streamVars
    <3>2. bg[c] \notin Closing \cup {"none", "done", "put", "put_bad"}
      BY <2>1 DEF Closing
    <3> QED
      BY <1>0, <2>1, <3>1, <3>2, MoveKeeps
  <2> QED
    BY <2>2, <2>3
<1>2. ASSUME BeforeReturns(c) PROVE CallOK(c)'
  <2>1. /\ bg[c] = "before" /\ ~struck[c] /\ ~struck'[c]
        /\ UNCHANGED <<front, getter, got, made, struck, lost>>
    BY <1>2 DEF BeforeReturns
  <2>2. CASE Enter(c)
    BY <2>1, <2>2, EnterKeeps
  <2>3. CASE ~Enter(c)
    <3>1. CloseStream(c, "close_refused", "done")
      BY <1>2, <2>3 DEF BeforeReturns
    <3>2. bg[c] \notin {"none", "done", "put", "put_bad"} /\ bg[c] \notin Closing
      BY <2>1 DEF Closing
    <3>3. putting[c] = None /\ made' = made
      BY <1>0, <2>1, <3>2
    <3> QED
      BY <1>0, <2>1, <3>1, <3>2, <3>3, CloseKeeps
  <2> QED
    BY <2>2, <2>3
<1>3. ASSUME Said(c) PROVE CallOK(c)'
  <2>1. /\ bg[c] \in {"put", "put_bad"} /\ putting[c] = None /\ ~struck[c]
        /\ ~struck'[c] /\ bg[c] \notin {"none", "done"} /\ c \notin lost
        /\ UNCHANGED <<front, getter, got, made, struck, lost>>
    BY <1>0, <1>3 DEF Said, Closing
  <2>2. CASE bg[c] = "put"
    <3>1. bg'[c] = "tool" /\ UNCHANGED <<putting, queue, attached, closed>>
      BY <1>3, <2>2 DEF Said, TypeOK, streamVars
    <3>2. bg[c] \notin Closing /\ putting[c] \notin Chunks
      BY <2>1, <2>2 DEF Closing, Chunks
    <3> QED
      BY <1>0, <2>1, <3>1, <3>2, MoveKeeps
  <2>3. CASE bg[c] # "put"
    <3>1. CloseStream(c, "close_early", "after") /\ made' = made
      BY <1>3, <2>1, <2>3 DEF Said, EndsBadly
    <3> QED
      BY <1>0, <2>1, <3>1, CloseKeeps
  <2> QED
    BY <2>2, <2>3
<1>4. ASSUME ToolEnds(c) PROVE CallOK(c)'
  <2>1. /\ bg[c] = "tool" /\ ~struck'[c] /\ bg[c] \notin {"none", "done"}
        /\ UNCHANGED <<front, getter, got, lost>> /\ made' = made
    BY <1>4 DEF ToolEnds, TypeOK
  <2>2. putting[c] = None
    BY <1>0, <2>1 DEF Closing
  <2>3. CASE CloseStream(c, "close_early", "after")
    BY <1>0, <2>1, <2>2, <2>3, CloseKeeps
  <2>4. CASE CloseStream(c, "close_late", "after")
    BY <1>0, <2>1, <2>2, <2>4, CloseKeeps
  <2> QED
    BY <1>4, <2>3, <2>4 DEF ToolEnds
<1>5. ASSUME Closed(c) PROVE CallOK(c)'
  <2>1. /\ bg[c] \notin {"none", "done"} /\ putting[c] \notin Chunks /\ ~struck'[c]
        /\ bg'[c] \in {"done", "after"}
        /\ UNCHANGED <<front, getter, got, made, putting, queue, attached, closed,
                      lost>>
    BY <1>5 DEF Closed, TypeOK, streamVars, Chunks
  <2> QED
    BY <1>0, <2>1, MoveKeeps
<1>6. ASSUME AfterReturns(c) PROVE CallOK(c)'
  <2>1. /\ bg[c] = "after" /\ bg[c] \notin {"none", "done"} /\ ~struck'[c]
        /\ bg'[c] = "done"
        /\ UNCHANGED <<front, getter, got, made, putting, queue, attached, closed,
                      lost>>
    BY <1>6 DEF AfterReturns, TypeOK, streamVars
  <2>2. putting[c] \notin Chunks
    BY <1>0, <2>1
  <2> QED
    BY <1>0, <2>1, <2>2, MoveKeeps
<1>7. ASSUME Caught(c) PROVE CallOK(c)'
  <2>1. /\ struck[c] /\ bg[c] \notin {"none", "done"} /\ ~struck'[c]
        /\ CloseStream(c, "close_late", "after") /\ made' = made
        /\ UNCHANGED <<front, getter, got, lost>>
    BY <1>7 DEF Caught, TypeOK
  <2>2. putting[c] = None
    BY <2>1 DEF CallOK, PuttingOK
  <2> QED
    BY <1>0, <2>1, <2>2, CloseKeeps
<1>8. ASSUME Uncaught(c) PROVE CallOK(c)'
  <2>1. /\ struck[c] /\ bg[c] \notin {"none", "done"} /\ ~struck'[c]
        /\ bg'[c] = "done"
        /\ UNCHANGED <<front, getter, got, made, putting, queue, attached, closed,
                      lost>>
    BY <1>8 DEF Uncaught, TypeOK, streamVars
  <2>2. putting[c] \notin Chunks
    BY <2>1 DEF CallOK, PuttingOK, Chunks
  <2> QED
    BY <1>0, <2>1, <2>2, MoveKeeps
<1> QED
    BY <1>1, <1>2, <1>3, <1>4, <1>5, <1>6, <1>7, <1>8, SaysKeeps DEF BackgroundStep

LEMMA StrikeKeeps ==
    ASSUME NEW c \in Calls, TypeOK, CallOK(c), Strike(c),
           UNCHANGED <<front, getter, got, bg, made, queue, attached, closed>>
    PROVE  CallOK(c)'
<1> USE CoordinatorConstants
<1>1. /\ struck'[c] /\ putting'[c] = None
      /\ c \in lost' <=> c \in lost \/ putting[c] \in Chunks
    BY DEF Strike, TypeOK
<1>2. PlacesOK(c)'
    BY DEF CallOK, PlacesOK
<1>3. PuttingOK(c)'
    BY <1>1 DEF CallOK, PuttingOK, Chunks
<1>4. Held(c)' = Held(c) /\ (c \notin lost' => Coming(c)' = Coming(c))
    BY <1>1 DEF Held, Coming, Chunks
<1>5. FlowOK(c)'
    BY <1>1, <1>4 DEF CallOK, FlowOK
<1> QED
    BY <1>2, <1>3, <1>5 DEF CallOK

LEMMA InterventionKeeps ==
    ASSUME NEW c \in Calls, TypeOK, CallOK(c), Intervention(c)
    PROVE  CallOK(c)'
<1> USE DEF callerVars, streamVars, toolVars, controlVars, history
<1>1. CASE View(c) \/ RequestOffload(c) \/ ExtendDeadline(c) \/ Cancel(c)
           \/ TimePasses(c)
  <2>1. Same(c)
    BY <1>1 DEF View, RequestOffload, ExtendDeadline, Cancel, TimePasses, Same
  <2> QED
    BY <2>1, SameIsOK
<1>2. CASE Leave(c)
  <2>1. /\ front[c] \in {"loop", "wait", "over"} /\ front'[c] = "gone"
        /\ getter'[c] = None /\ ~attached'[c]
        /\ UNCHANGED <<got, bg, made, putting, queue, closed, struck, lost>>
    BY <1>2 DEF Leave, TypeOK
  <2>2. PlacesOK(c)' /\ PuttingOK(c)'
    BY <2>1 DEF CallOK, PlacesOK, PuttingOK
  <2>3. FlowOK(c)'
    BY <2>1 DEF CallOK, FlowOK
  <2> QED
    BY <2>2, <2>3 DEF CallOK
<1>3. CASE ForceCancel(c)
    BY <1>3, StrikeKeeps DEF ForceCancel
<1>4. CASE ShutdownStrikes(c)
  <2>1. CASE bg[c] = "done"
    <3>1. Same(c)
      BY <1>4, <2>1 DEF ShutdownStrikes, Same
    <3> QED
      BY <3>1, SameIsOK
  <2>2. CASE bg[c] # "done"
    BY <1>4, <2>2, StrikeKeeps DEF ShutdownStrikes
  <2> QED
    BY <2>1, <2>2
<1> QED
    BY <1>1, <1>2, <1>3, <1>4 DEF Intervention

-----------------------------------------------------------------------------
(* The theorems *)

LEMMA NextInv == CoordinatorInv /\ [Next]_vars => CoordinatorInv'
<1> SUFFICES ASSUME CoordinatorInv, [Next]_vars PROVE CoordinatorInv'
    OBVIOUS
<1>1. TypeOK /\ TypeOK' /\ \A c \in Calls : CallOK(c)
    BY NextTypes DEF CoordinatorInv
<1>2. ASSUME NEW c \in Calls,
             \/ Execute(c) \/ CallerStep(c) \/ BackgroundStep(c) \/ Put(c) \/ Get(c)
             \/ Intervention(c)
      PROVE  \A d \in Calls : CallOK(d)'
  <2>1. CallOK(c)'
    BY <1>1, <1>2, ExecuteKeeps, CallerKeeps, BackgroundKeeps, PutKeeps, GetKeeps,
       InterventionKeeps
  <2>2. ASSUME NEW d \in Calls \ {c} PROVE CallOK(d)'
    <3>1. Same(d)
      BY <1>1, <1>2, OthersStay
    <3> QED
      BY <1>1, <3>1, SameIsOK
  <2> QED
    BY <2>1, <2>2
<1>3. ASSUME Shutdown \/ UNCHANGED vars PROVE \A d \in Calls : CallOK(d)'
  <2> TAKE d \in Calls
  <2>1. Same(d)
    BY <1>3 DEF Shutdown, vars, callerVars, streamVars, toolVars, controlVars,
       history, Same
  <2> QED
    BY <1>1, <2>1, SameIsOK
<1>4. \A d \in Calls : CallOK(d)'
    BY <1>2, <1>3 DEF Next
<1> QED
    BY <1>1, <1>4 DEF CoordinatorInv

\* What the two tasks of every call and its stream agree on: where each is, what
\* is about to be put, and that the chunks a caller has, holds, and has before
\* it are those the tool has said, in order.
THEOREM CoordinatorInvariance == Spec => []CoordinatorInv
<1>1. Init => CoordinatorInv
    BY InitTypes, InitOK DEF CoordinatorInv
<1> QED
    BY <1>1, NextInv, PTL DEF Spec

\* The variables of the coordinator keep their types.
THEOREM CoordinatorTypes == Spec => []TypeOK
<1>1. CoordinatorInv => TypeOK
    BY DEF CoordinatorInv
<1> QED
    BY <1>1, CoordinatorInvariance, PTL

\* What a tool says reaches the caller in order and without a gap, and all of it
\* by the time the stream ends, whatever cancellations, deadlines and closings
\* there are in between; only a chunk that is being put when the background task
\* is struck may be missing.
THEOREM DeliveredAll == Spec => []Delivered
<1>1. CoordinatorInv => Delivered
  <2> SUFFICES ASSUME CoordinatorInv, NEW c \in Calls
               PROVE  /\ got[c] = [i \in 1..Len(got[c]) |-> i]
                      /\ front[c] \in {"over", "returned"} /\ c \notin lost =>
                           Len(got[c]) = made[c]
                      /\ front[c] = "returned" => bg[c] = "done" /\ closed[c]
    BY DEF Delivered
  <2>1. PlacesOK(c) /\ FlowOK(c) /\ got[c] \in Seq(Chunks)
    BY DEF CoordinatorInv, CallOK, TypeOK
  <2>2. got[c] = [i \in 1..Len(got[c]) |-> i]
    <3>1. got[c] = [i \in 1..Len(got[c]) |-> got[c][i]]
      BY <2>1
    <3>2. \A i \in 1..Len(got[c]) : got[c][i] = i
      BY <2>1 DEF FlowOK
    <3> QED
      BY <3>1, <3>2
  <2> QED
    BY <2>1, <2>2 DEF PlacesOK, FlowOK
<1> QED
    BY <1>1, CoordinatorInvariance, PTL
=============================================================================
