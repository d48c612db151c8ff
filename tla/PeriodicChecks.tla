--------------------------- MODULE PeriodicChecks ---------------------------
(***************************************************************************)
(* check_workers_timeout and check_workers_connection of the               *)
(* EvaluationService, on top of the WorkerPool.  Each is a coroutine that  *)
(* asks the pool for lost operations and then awaits enqueue() for each of *)
(* them, on the thread pool and under post_finish_lock.  The repeater of   *)
(* add_timeout calls it again only once it has returned.                   *)
(***************************************************************************)
EXTENDS WorkerPool

VARIABLES
    late,      \* the shards whose running clock has passed its limit
    checking   \* the checks that are still enqueueing what they got back

checkVars == <<vars, late, checking>>

CheckedInit == Init /\ late = {} /\ checking = {}

\* A clock that has stopped or started again is not late.
KeepLate ==
    late' = {s \in late : clock'[s] = clock[s] /\ dispatch'[s] = dispatch[s]}

\* The check goes on to enqueue() if the pool gave anything back.
Requeue(c) == checking' = IF lost' = lost THEN checking ELSE checking \cup {c}

\* A clock passes ANSWER_HANDLING_TIMEOUT, or the timeout of its job group.
Tick(s) ==
    /\ s \in Clocked \ late
    /\ late' = late \cup {s}
    /\ UNCHANGED <<vars, checking>>

CheckWorkersTimeout ==
    /\ "timeouts" \notin checking
    /\ CheckTimeouts(late)
    /\ Requeue("timeouts")
    /\ KeepLate

CheckWorkersConnection ==
    /\ "connections" \notin checking
    /\ CheckConnections
    /\ Requeue("connections")
    /\ KeepLate

\* Every enqueue() the check awaited has returned, and so does the check.
RequeueDone(c) ==
    /\ c \in checking
    /\ checking' = checking \ {c}
    /\ UNCHANGED <<vars, late>>

CheckedNext ==
    \/ PoolStep /\ KeepLate /\ UNCHANGED checking
    \/ \E s \in Shards : Tick(s)
    \/ CheckWorkersTimeout
    \/ CheckWorkersConnection
    \/ \E c \in {"timeouts", "connections"} : RequeueDone(c)

(***************************************************************************)
(* Time passes for every clock, the repeater calls check_timeouts again    *)
(* whenever it can, and the enqueue() calls that the check awaits end.     *)
(* Nothing is assumed of the workers, their connections, their answers,    *)
(* the build of their job groups or the administrator.                     *)
(***************************************************************************)
CheckFairness ==
    /\ \A s \in Shards : WF_checkVars(Tick(s))
    /\ WF_checkVars(CheckWorkersTimeout)
    /\ WF_checkVars(RequeueDone("timeouts"))

CheckedSpec == CheckedInit /\ [][CheckedNext]_checkVars /\ CheckFairness
-----------------------------------------------------------------------------
(***************************************************************************)
(* "The bound is still finite, so a wedged executor does not hold a worker *)
(* for ever" (check_timeouts, workerpool.py 679): whatever happens to its  *)
(* build, its answer or its connection, a job group leaves its worker.  It *)
(* needs the last conjunct of CheckFairness: enqueue() runs on the same    *)
(* thread pool, and the check is not called again before it returns.       *)
(***************************************************************************)
NoGroupHeldForever == \A d \in Ids : d \in Held ~> d \notin Held
==============================================================================
