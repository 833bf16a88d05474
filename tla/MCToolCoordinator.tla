-------------------------- MODULE MCToolCoordinator --------------------------
(* Bounded instance of ToolCoordinator: one call under one id. *)
EXTENDS ToolCoordinator
CONSTANTS c1, i1
MCIdOf == [c \in Calls |-> i1]
=============================================================================
