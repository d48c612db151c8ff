-------------------------- MODULE MCPeriodicChecks --------------------------
(***************************************************************************)
(* Instances of PeriodicChecks for TLC.                                    *)
(***************************************************************************)
EXTENDS PeriodicChecks

CONSTANTS s1, s2, o1, o2
==============================================================================
