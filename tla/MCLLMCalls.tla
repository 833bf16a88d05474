----------------------------- MODULE MCLLMCalls -----------------------------
(***************************************************************************)
(* Instances of LLMCalls for TLC.                                          *)
(***************************************************************************)
EXTENDS LLMCalls, TLC

Symmetry == Permutations(Calls)
=============================================================================
