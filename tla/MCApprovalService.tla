------------------------- MODULE MCApprovalService -------------------------
(***************************************************************************)
(* Instances of ApprovalService for TLC.                                   *)
(***************************************************************************)
EXTENDS ApprovalService, TLC

CONSTANTS call1, call2, main, other

\* A driver call with an id, and one without in another session tree.
MCRoot == (call1 :> main) @@ (call2 :> other)
=============================================================================
