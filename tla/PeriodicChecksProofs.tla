------------------------ MODULE PeriodicChecksProofs ------------------------
(***************************************************************************)
(* The two periodic checks of the EvaluationService use the WorkerPool as  *)
(* its module says: what is proved of the pool, for every moment at which  *)
(* check_timeouts or check_connections may be called, holds of the pool    *)
(* the checks really run on.                                               *)
(***************************************************************************)
EXTENDS PeriodicChecks, WorkerPoolProofs

\* The shards that the checks call late are shards of the pool.
ChecksOK ==
    /\ late \subseteq Shards
    /\ checking \subseteq {"timeouts", "connections"}

\* The checks start with nothing late and nothing to enqueue.
LEMMA ChecksInit == CheckedInit => ChecksOK
  BY DEF CheckedInit, ChecksOK

\* No step makes a shard late that is not one of the pool.
LEMMA ChecksStep == ChecksOK /\ [CheckedNext]_checkVars => ChecksOK'
<1> SUFFICES ASSUME ChecksOK, [CheckedNext]_checkVars
             PROVE  ChecksOK'
  OBVIOUS
<1>1. CASE PoolStep /\ KeepLate /\ UNCHANGED checking
  BY <1>1 DEF ChecksOK, KeepLate
<1>2. ASSUME NEW s \in Shards, Tick(s)
      PROVE  ChecksOK'
  BY <1>2 DEF ChecksOK, Tick
<1>3. CASE CheckWorkersTimeout
  BY <1>3 DEF ChecksOK, CheckWorkersTimeout, KeepLate, Requeue
<1>4. CASE CheckWorkersConnection
  BY <1>4 DEF ChecksOK, CheckWorkersConnection, KeepLate, Requeue
<1>5. ASSUME NEW c \in {"timeouts", "connections"}, RequeueDone(c)
      PROVE  ChecksOK'
  BY <1>5 DEF ChecksOK, RequeueDone
<1>6. CASE UNCHANGED checkVars
  BY <1>6 DEF ChecksOK, checkVars
<1> QED
  BY <1>1, <1>2, <1>3, <1>4, <1>5, <1>6 DEF CheckedNext

\* A step of the checks is a step of the pool, or leaves it alone: the
\* shards given to check_timeouts are shards of the pool.
LEMMA ChecksUsePool == ChecksOK /\ [CheckedNext]_checkVars => [Next]_vars
<1> SUFFICES ASSUME ChecksOK, [CheckedNext]_checkVars
             PROVE  [Next]_vars
  OBVIOUS
<1>1. CASE PoolStep /\ KeepLate /\ UNCHANGED checking
  BY <1>1 DEF Next
<1>2. ASSUME NEW s \in Shards, Tick(s)
      PROVE  UNCHANGED vars
  BY <1>2, Zenon DEF Tick
<1>3. CASE CheckWorkersTimeout
  <2>1. CheckTimeouts(late) /\ late \in SUBSET Shards
    BY <1>3, Zenon DEF ChecksOK, CheckWorkersTimeout
  <2> QED
    BY <2>1, Zenon DEF Next
<1>4. CASE CheckWorkersConnection
  BY <1>4, Zenon DEF CheckWorkersConnection, Next
<1>5. ASSUME NEW c \in {"timeouts", "connections"}, RequeueDone(c)
      PROVE  UNCHANGED vars
  BY <1>5, Zenon DEF RequeueDone
<1>6. CASE UNCHANGED checkVars
  BY <1>6, Zenon DEF checkVars
<1> QED
  BY <1>1, <1>2, <1>3, <1>4, <1>5, <1>6, Zenon DEF CheckedNext

(***************************************************************************)
(* The pool under the checks of the EvaluationService behaves as the       *)
(* WorkerPool on its own: every theorem about Spec holds of it.            *)
(***************************************************************************)
THEOREM ChecksRunThePool == CheckedSpec => Spec
<1>1. CheckedInit => Init
  BY DEF CheckedInit
<1> QED
  BY <1>1, ChecksInit, ChecksStep, ChecksUsePool, PTL DEF CheckedSpec, Spec

(***************************************************************************)
(* With its periodic checks running, the pool still keeps its promise to   *)
(* the rest of the service: each job group leaves its worker once.         *)
(***************************************************************************)
THEOREM ChecksImplementTable == CheckedSpec => ImplementsTable
  BY ChecksRunThePool, PoolImplementsTable, PTL
=============================================================================
