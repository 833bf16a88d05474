--------------------------- MODULE MCAgentManager ---------------------------
(* Instance of AgentManager for TLC: three calls beside an agent that is     *)
(* loaded at the beginning, or not.                                          *)
EXTENDS AgentManager
=============================================================================
