----------------------------- MODULE MCWatchdog -----------------------------
(***************************************************************************)
(* An instance of Watchdog for TLC: an EvaluationService that is restarted *)
(* and a Worker that is only watched (H9), each of a class of its own.     *)
(***************************************************************************)
EXTENDS Watchdog

CONSTANTS es, w1

MCClass == [p \in Programs |-> p]
=============================================================================
