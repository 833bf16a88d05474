------------------------- MODULE MCChannelDispatch -------------------------
(***************************************************************************)
(* Instances of ChannelDispatch for TLC.                                   *)
(***************************************************************************)
EXTENDS ChannelDispatch, TLC

CONSTANTS k1, k2

\* Who sends to whom: all to one session, or the second message to another.
ToOne == [m \in Messages |-> k1]
ToTwo == [m \in Messages |-> IF m = 2 THEN k2 ELSE k1]

\* What became of a message that no step looks at again is left out of view.
Over == {"started", "ignored", "skipped", "failed", "lost", "cleared", "timedout"}
View == <<queueVars, sweepVars, stopping, dispatchVars,
          [m \in Messages |-> IF where[m] \in Over THEN "over" ELSE where[m]]>>

Symmetry == Permutations(Consumers)
=============================================================================
