-------------------------- MODULE MCProxyService --------------------------
(* Instances of ProxyService for TLC. *)
EXTENDS ProxyService, TLC

CONSTANT Live   \* the group of all the submissions

MCGroupOf == [s \in Submissions |-> Live]
===========================================================================
