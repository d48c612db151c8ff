------------------------ MODULE MCEvaluationService ------------------------
(***************************************************************************)
(* Instances of EvaluationService for TLC.                                 *)
(***************************************************************************)
EXTENDS EvaluationService

CONSTANTS c, t1
==============================================================================
