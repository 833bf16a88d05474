--------------------------- MODULE MCCronManager ---------------------------
(* Bounded instance of CronManager for TLC. *)
EXTENDS CronManager
=============================================================================
