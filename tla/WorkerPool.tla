----------------------------- MODULE WorkerPool -----------------------------
(***************************************************************************)
(* The WorkerPool of the EvaluationService: which job group each worker    *)
(* (shard) is working on, and everything that ends that work: the worker's *)
(* answer, an error, a timeout, a lost connection, an administrator.       *)
(*                                                                         *)
(* Every method holds _operation_lock from beginning to end, so each one   *)
(* is one step here, whatever thread it runs on.  The coroutine that       *)
(* acquire_worker spawns (_build_and_dispatch) is a task per dispatch id,  *)
(* with a step between any two of its awaits.  The two flags that          *)
(* check_timeouts and disable_worker raise for the release_worker they     *)
(* call, _schedule_disabling and _ignore, are set and consumed under one   *)
(* hold of the lock: here they are the second argument of Released.        *)
(***************************************************************************)
EXTENDS Integers

CONSTANTS
    Shards,        \* the workers
    Ops,           \* the operations (ESOperation)
    NoShard,       \* "not in _operations_reverse"
    MaxDispatch,   \* bound on the dispatch ids, which the code never reuses
    MaxGreetings   \* bound on the on_connect handlers of a shard not run yet

ASSUME PoolAssumption ==
    /\ NoShard \notin Shards
    /\ MaxDispatch \in Nat
    /\ MaxGreetings \in Nat \ {0}

Ids  == 1..MaxDispatch
NoId == 0

\* _operations[shard] is WORKER_INACTIVE, WORKER_DISABLED or a list.
Statuses == {"inactive", "disabled", "busy"}

\* Which of _start_time, _dispatched_at and _answered_at is the last one set.
Clocks == {"off", "acquired", "dispatched", "answered"}

\* Where _build_and_dispatch stands: building the job group on a thread,
\* awaiting the RPC, with the outcome known but not resumed yet, and
\* awaiting action_finished.
Phases == {"none", "building", "sent", "resolved", "reporting", "done"}

VARIABLES
    status,      \* status[s]: what _operations[s] is
    operations,  \* operations[s]: the list in _operations[s], {} if none
    toIgnore,    \* _operations_to_ignore
    dispatch,    \* _current_dispatch
    clock,       \* clock[s]: the last clock started for the job group of s
    byTimeout,   \* _disabled_by_timeout (and _disabled_at, set with it)
    reverse,     \* _operations_reverse
    lastId,      \* _last_dispatch_id
    available,   \* _workers_available_event is set
    setComing,   \* a call_soon_threadsafe(event.set) has not run yet
    connected,   \* the shards whose RPC client is connected
    greetings,   \* greetings[s]: spawned on_worker_connected not run yet
    shardOf,     \* shardOf[d]: the shard job group d was given to
    group,       \* group[d]: its operations
    phase,       \* phase[d]: where its coroutine stands
    ok,          \* ok[d]: the RPC returned a job group that can be imported
    taken,       \* history: taken[d], the results of d put in the cache
    lost,        \* history: lost[d], the operations of d given back
    adminOff     \* history: disabled, last of all, by the administrator

workerVars == <<status, operations, toIgnore, dispatch, clock, byTimeout,
                reverse, lastId>>
eventVars  == <<available, setComing>>
netVars    == <<connected, greetings>>
taskVars   == <<shardOf, group, phase, ok>>
histVars   == <<taken, lost, adminOff>>
vars == <<workerVars, eventVars, netVars, taskVars, histVars>>

TypeOK ==
    /\ status \in [Shards -> Statuses]
    /\ operations \in [Shards -> SUBSET Ops]
    /\ toIgnore \in [Shards -> SUBSET Ops]
    /\ dispatch \in [Shards -> Ids \cup {NoId}]
    /\ clock \in [Shards -> Clocks]
    /\ byTimeout \in [Shards -> BOOLEAN]
    /\ reverse \in [Ops -> Shards \cup {NoShard}]
    /\ lastId \in 0..MaxDispatch
    /\ available \in BOOLEAN
    /\ setComing \in BOOLEAN
    /\ connected \in SUBSET Shards
    /\ greetings \in [Shards -> 0..MaxGreetings]
    /\ shardOf \in [Ids -> Shards \cup {NoShard}]
    /\ group \in [Ids -> SUBSET Ops]
    /\ phase \in [Ids -> Phases]
    /\ ok \in [Ids -> BOOLEAN]
    /\ taken \in [Ids -> SUBSET Ops]
    /\ lost \in [Ids -> SUBSET Ops]
    /\ adminOff \subseteq Shards

(***************************************************************************)
(* add_worker for every shard, before the loop starts: the event is set    *)
(* directly, and no client has connected yet.                              *)
(***************************************************************************)
Init ==
    /\ status     = [s \in Shards |-> "inactive"]
    /\ operations = [s \in Shards |-> {}]
    /\ toIgnore   = [s \in Shards |-> {}]
    /\ dispatch   = [s \in Shards |-> NoId]
    /\ clock      = [s \in Shards |-> "off"]
    /\ byTimeout  = [s \in Shards |-> FALSE]
    /\ reverse    = [o \in Ops |-> NoShard]
    /\ lastId     = 0
    /\ available  = TRUE
    /\ setComing  = FALSE
    /\ connected  = {}
    /\ greetings  = [s \in Shards |-> 0]
    /\ shardOf    = [d \in Ids |-> NoShard]
    /\ group      = [d \in Ids |-> {}]
    /\ phase      = [d \in Ids |-> "none"]
    /\ ok         = [d \in Ids |-> FALSE]
    /\ taken      = [d \in Ids |-> {}]
    /\ lost       = [d \in Ids |-> {}]
    /\ adminOff   = {}

Busy(s) == status[s] = "busy"
Live(s) == operations[s] \ toIgnore[s]

\* Mutant: _remove_operations does not look which shard an entry points at.
UnlistedBlindly(S) ==
    [o \in Ops |-> IF \E s \in S : o \in operations[s]
                   THEN NoShard ELSE reverse[o]]

\* _remove_operations: the entries that still point at a shard of S.
Unlisted(S) ==
    [o \in Ops |-> IF reverse[o] \in S /\ o \in operations[reverse[o]]
                   THEN NoShard ELSE reverse[o]]

\* Mutant: release_worker leaves _start_time and its kin set.
ReleasedKeepingClock(S, st) ==
    /\ toIgnore'   = [s \in Shards |-> IF s \in S THEN {} ELSE toIgnore[s]]
    /\ clock'      = clock
    /\ dispatch'   = [s \in Shards |-> IF s \in S THEN NoId ELSE dispatch[s]]
    /\ operations' = [s \in Shards |-> IF s \in S THEN {} ELSE operations[s]]
    /\ status'     = [s \in Shards |-> IF s \in S THEN st ELSE status[s]]
    /\ reverse'    = Unlisted(S)
    /\ setComing'  = (setComing \/ (st = "inactive" /\ S # {}))
    /\ UNCHANGED available

(***************************************************************************)
(* release_worker, past its early returns, for the busy shards in S, which *)
(* end with status st: "disabled" if their disabling was scheduled,        *)
(* "inactive" (and then the event is set) otherwise.                       *)
(***************************************************************************)
Released(S, st) ==
    /\ toIgnore'   = [s \in Shards |-> IF s \in S THEN {} ELSE toIgnore[s]]
    /\ clock'      = [s \in Shards |-> IF s \in S THEN "off" ELSE clock[s]]
    /\ dispatch'   = [s \in Shards |-> IF s \in S THEN NoId ELSE dispatch[s]]
    /\ operations' = [s \in Shards |-> IF s \in S THEN {} ELSE operations[s]]
    /\ status'     = [s \in Shards |-> IF s \in S THEN st ELSE status[s]]
    /\ reverse'    = Unlisted(S)
    /\ setComing'  = (setComing \/ (st = "inactive" /\ S # {}))
    /\ UNCHANGED available
-----------------------------------------------------------------------------
(***************************************************************************)
(* The executor, past wait_for_workers: execute() calls acquire_worker.    *)
(***************************************************************************)
Candidates == {s \in connected : status[s] = "inactive"}

AcquireWorker(s, os) ==
    LET d == lastId + 1
    IN  /\ available /\ os # {} /\ d \in Ids
        /\ s \in Candidates
        /\ status'     = [status EXCEPT ![s] = "busy"]
        /\ operations' = [operations EXCEPT ![s] = os]
        /\ reverse'    = [o \in Ops |-> IF o \in os THEN s ELSE reverse[o]]
        /\ clock'      = [clock EXCEPT ![s] = "acquired"]
        /\ dispatch'   = [dispatch EXCEPT ![s] = d]
        /\ lastId'     = d
        /\ shardOf'    = [shardOf EXCEPT ![d] = s]
        /\ group'      = [group EXCEPT ![d] = os]
        /\ phase'      = [phase EXCEPT ![d] = "building"]
        /\ UNCHANGED <<toIgnore, byTimeout, eventVars, netVars, ok, histVars>>

AcquireFails ==
    /\ available
    /\ Candidates = {}
    /\ available' = FALSE
    /\ UNCHANGED <<workerVars, setComing, netVars, taskVars, histVars>>

\* The call_soon_threadsafe of _threadsafe_set_workers_available.
SetWorkersAvailable ==
    /\ setComing
    /\ available' = TRUE
    /\ setComing' = FALSE
    /\ UNCHANGED <<workerVars, netVars, taskVars, histVars>>

(***************************************************************************)
(* _build_and_dispatch and _dispatch_to_worker.  A clock only moves if the *)
(* job group is still the one its shard works on.                          *)
(***************************************************************************)
StartClock(d, c) ==
    clock' = IF dispatch[shardOf[d]] = d
             THEN [clock EXCEPT ![shardOf[d]] = c] ELSE clock

\* Mutant: the coroutine ends at the exception.
BuildFailsSilently(d) ==
    /\ phase[d] = "building"
    /\ phase' = [phase EXCEPT ![d] = "done"]
    /\ UNCHANGED <<workerVars, eventVars, netVars, shardOf, group, ok, histVars>>

BuildFails(d) ==
    /\ phase[d] = "building"
    /\ phase' = [phase EXCEPT ![d] = "reporting"]
    /\ UNCHANGED <<workerVars, eventVars, netVars, shardOf, group, ok, histVars>>

\* Written to a connected worker; otherwise the write fails at once, and
\* the same step goes on to _mark_answered.
Dispatch(d) ==
    /\ phase[d] = "building"
    /\ IF shardOf[d] \in connected
       THEN /\ phase' = [phase EXCEPT ![d] = "sent"]
            /\ StartClock(d, "dispatched")
       ELSE /\ phase' = [phase EXCEPT ![d] = "reporting"]
            /\ StartClock(d, "answered")
    /\ UNCHANGED <<status, operations, toIgnore, dispatch, byTimeout, reverse,
                   lastId, eventVars, netVars, shardOf, group, ok, histVars>>

\* The worker's response (a job group, or an error) resolves the call.
WorkerAnswers(d, good) ==
    /\ phase[d] = "sent"
    /\ shardOf[d] \in connected
    /\ phase' = [phase EXCEPT ![d] = "resolved"]
    /\ ok' = [ok EXCEPT ![d] = good]
    /\ UNCHANGED <<workerVars, eventVars, netVars, shardOf, group, histVars>>

\* _dispatch_to_worker resumes: _mark_answered, then action_finished.
MarkAnswered(d) ==
    /\ phase[d] = "resolved"
    /\ phase' = [phase EXCEPT ![d] = "reporting"]
    /\ StartClock(d, "answered")
    /\ UNCHANGED <<status, operations, toIgnore, dispatch, byTimeout, reverse,
                   lastId, eventVars, netVars, shardOf, group, ok, histVars>>

\* Mutants: release_worker is not told the dispatch id; it only looks
\* whether the worker is busy.
NeverStale(d)  == d \notin Ids
StaleIfIdle(d) == ~Busy(shardOf[d])

(***************************************************************************)
(* _action_finished_sync: release_worker with the dispatch id, which tells *)
(* a stale answer; the results that are not ignored go to the cache.       *)
(* The coroutine ends, and its locals with it.                             *)
(***************************************************************************)
Stale(d) == dispatch[shardOf[d]] # d

\* Mutant: release_worker does not return the operations to ignore.
ActionFinishedTakingAll(d) ==
    /\ phase[d] = "reporting"
    /\ phase'   = [phase EXCEPT ![d] = "done"]
    /\ shardOf' = [shardOf EXCEPT ![d] = NoShard]
    /\ ok'      = [ok EXCEPT ![d] = FALSE]
    /\ IF Stale(d)
       THEN UNCHANGED <<status, operations, toIgnore, dispatch, clock,
                        reverse, eventVars, taken>>
       ELSE /\ Released({shardOf[d]}, "inactive")
            /\ taken' = IF ok[d] THEN [taken EXCEPT ![d] = group[d]] ELSE taken
    /\ UNCHANGED <<byTimeout, lastId, netVars, group, lost, adminOff>>

ActionFinished(d) ==
    /\ phase[d] = "reporting"
    /\ phase'   = [phase EXCEPT ![d] = "done"]
    /\ shardOf' = [shardOf EXCEPT ![d] = NoShard]
    /\ ok'      = [ok EXCEPT ![d] = FALSE]
    /\ IF Stale(d)
       THEN UNCHANGED <<status, operations, toIgnore, dispatch, clock,
                        reverse, eventVars, taken>>
       ELSE /\ Released({shardOf[d]}, "inactive")
            /\ taken' = IF ok[d]
                        THEN [taken EXCEPT ![d] = group[d] \ toIgnore[shardOf[d]]]
                        ELSE taken
    /\ UNCHANGED <<byTimeout, lastId, netVars, group, lost, adminOff>>

\* Mutant: the whole job group is ignored.
IgnoreJobGroup(o) ==
    /\ reverse[o] # NoShard
    /\ toIgnore' = [toIgnore EXCEPT ![reverse[o]] = operations[reverse[o]]]
    /\ UNCHANGED <<status, operations, dispatch, clock, byTimeout, reverse,
                   lastId, eventVars, netVars, taskVars, histVars>>

\* ignore_operation; a LookupError (not in the pool) changes nothing.
IgnoreOperation(o) ==
    /\ reverse[o] # NoShard
    /\ toIgnore' = [toIgnore EXCEPT ![reverse[o]] = @ \cup {o}]
    /\ UNCHANGED <<status, operations, dispatch, clock, byTimeout, reverse,
                   lastId, eventVars, netVars, taskVars, histVars>>
-----------------------------------------------------------------------------
(***************************************************************************)
(* The periodic checks.  PeriodicChecks says when they run.                *)
(***************************************************************************)
\* What is given back for the job groups of the shards in S.
GivenBack(S, what) ==
    [d \in Ids |-> IF \E s \in S : dispatch[s] = d
                   THEN what[shardOf[d]] ELSE lost[d]]

\* Mutant: check_timeouts does not bound the handling of an answer.
ClockedUnanswered == {s \in Shards : clock[s] \in {"acquired", "dispatched"}}

Clocked == {s \in Shards : clock[s] # "off"}

\* check_timeouts, for the shards in L, whose clock is past its limit: what
\* was not ignored is given back, the worker is disabled, marked as disabled
\* by a timeout, and told to quit.
CheckTimeouts(L) ==
    /\ L # {} /\ L \subseteq Clocked
    /\ Released(L, "disabled")
    /\ byTimeout' = [s \in Shards |-> s \in L \/ byTimeout[s]]
    /\ lost' = GivenBack(L, [s \in Shards |-> Live(s)])
    /\ UNCHANGED <<lastId, netVars, taskVars, taken, adminOff>>

\* check_connections: every operation of a busy shard that is not connected
\* is given back, the ignored ones too.
GoneShards == {s \in Shards \ connected : Busy(s)}

CheckConnections ==
    /\ GoneShards # {}
    /\ Released(GoneShards, "inactive")
    /\ lost' = GivenBack(GoneShards, operations)
    /\ UNCHANGED <<byTimeout, lastId, netVars, taskVars, taken, adminOff>>
-----------------------------------------------------------------------------
\* Mutant: the mark of an earlier timeout survives the operator's disable.
DisableWorkerKeepingMark(s) ==
    /\ UNCHANGED byTimeout
    /\ adminOff' = adminOff \cup {s}
    /\ \/ /\ status[s] = "disabled"
          /\ UNCHANGED <<status, operations, toIgnore, dispatch, clock,
                         reverse, eventVars, lost>>
       \/ /\ status[s] = "inactive"
          /\ status' = [status EXCEPT ![s] = "disabled"]
          /\ UNCHANGED <<operations, toIgnore, dispatch, clock, reverse,
                         eventVars, lost>>
       \/ /\ Busy(s)
          /\ Released({s}, "disabled")
          /\ lost' = GivenBack({s}, [t \in Shards |-> Live(t)])
    /\ UNCHANGED <<lastId, netVars, taskVars, taken>>

(***************************************************************************)
(* The administrator.  Disabling a disabled worker raises ValueError, but  *)
(* only after the mark of the timeout is gone.                             *)
(***************************************************************************)
DisableWorker(s) ==
    /\ byTimeout' = [byTimeout EXCEPT ![s] = FALSE]
    /\ adminOff' = adminOff \cup {s}
    /\ \/ /\ status[s] = "disabled"
          /\ UNCHANGED <<status, operations, toIgnore, dispatch, clock,
                         reverse, eventVars, lost>>
       \/ /\ status[s] = "inactive"
          /\ status' = [status EXCEPT ![s] = "disabled"]
          /\ UNCHANGED <<operations, toIgnore, dispatch, clock, reverse,
                         eventVars, lost>>
       \/ /\ Busy(s)
          /\ Released({s}, "disabled")
          /\ lost' = GivenBack({s}, [t \in Shards |-> Live(t)])
    /\ UNCHANGED <<lastId, netVars, taskVars, taken>>

Enabled(s) ==
    /\ status'    = [status EXCEPT ![s] = "inactive"]
    /\ toIgnore'  = [toIgnore EXCEPT ![s] = {}]
    /\ byTimeout' = [byTimeout EXCEPT ![s] = FALSE]

\* Mutant: the executor is not woken up.
EnableWorkerQuietly(s) ==
    /\ status[s] = "disabled"
    /\ Enabled(s)
    /\ adminOff' = adminOff \ {s}
    /\ UNCHANGED <<operations, dispatch, clock, reverse, lastId, eventVars,
                   netVars, taskVars, taken, lost>>

EnableWorker(s) ==
    /\ status[s] = "disabled"
    /\ Enabled(s)
    /\ adminOff' = adminOff \ {s}
    /\ setComing' = TRUE
    /\ UNCHANGED <<operations, dispatch, clock, reverse, lastId, available,
                   netVars, taskVars, taken, lost>>
-----------------------------------------------------------------------------
(***************************************************************************)
(* The RPC client of a shard.  connected changes at once; on_connect is a  *)
(* spawned task.  A connection that ends fails the calls awaiting it.      *)
(***************************************************************************)
Connect(s) ==
    /\ s \notin connected
    /\ greetings[s] < MaxGreetings
    /\ connected' = connected \cup {s}
    /\ greetings' = [greetings EXCEPT ![s] = @ + 1]
    /\ UNCHANGED <<workerVars, eventVars, taskVars, histVars>>

Disconnect(s) ==
    /\ s \in connected
    /\ connected' = connected \ {s}
    /\ phase' = [d \in Ids |-> IF phase[d] = "sent" /\ shardOf[d] = s
                               THEN "resolved" ELSE phase[d]]
    /\ UNCHANGED <<workerVars, eventVars, greetings, shardOf, group, ok,
                   histVars>>

\* Mutant: on_worker_connected runs without a connection.
OnWorkerNotConnected(s) ==
    /\ greetings' = [greetings EXCEPT ![s] = @ - 1]
    /\ IF status[s] = "disabled" /\ byTimeout[s]
       THEN Enabled(s)
       ELSE UNCHANGED <<status, toIgnore, byTimeout>>
    /\ setComing' = TRUE
    /\ UNCHANGED <<operations, dispatch, clock, reverse, lastId, available,
                   connected, taskVars, histVars>>

OnWorkerConnected(s) ==
    /\ greetings[s] > 0
    /\ greetings' = [greetings EXCEPT ![s] = @ - 1]
    /\ IF status[s] = "disabled" /\ byTimeout[s]
       THEN Enabled(s)
       ELSE UNCHANGED <<status, toIgnore, byTimeout>>
    /\ setComing' = TRUE
    /\ UNCHANGED <<operations, dispatch, clock, reverse, lastId, available,
                   connected, taskVars, histVars>>
-----------------------------------------------------------------------------
(***************************************************************************)
(* The EvaluationService hands out an operation again only once the pool   *)
(* has let go of it, or has been told to ignore the copy it finds.         *)
(***************************************************************************)
MayHand(o) == reverse[o] # NoShard => o \in toIgnore[reverse[o]]

PoolStep ==
    \/ \E s \in Shards, os \in SUBSET {o \in Ops : MayHand(o)} :
          AcquireWorker(s, os)
    \/ AcquireFails
    \/ SetWorkersAvailable
    \/ \E d \in Ids : \/ BuildFails(d) \/ Dispatch(d)
                      \/ \E good \in BOOLEAN : WorkerAnswers(d, good)
                      \/ MarkAnswered(d) \/ ActionFinished(d)
    \/ \E o \in Ops : IgnoreOperation(o)
    \/ \E s \in Shards : \/ DisableWorker(s) \/ EnableWorker(s)
                         \/ Connect(s) \/ Disconnect(s)
                         \/ OnWorkerConnected(s)

Next ==
    \/ PoolStep
    \/ \E L \in SUBSET Shards : CheckTimeouts(L)
    \/ CheckConnections

Spec == Init /\ [][Next]_vars
-----------------------------------------------------------------------------
(***************************************************************************)
(*                               Properties                                *)
(***************************************************************************)

(***************************************************************************)
(* A worker has a running clock, a dispatch id or ignored operations only  *)
(* while it is busy, and then it has both a clock and an id: the           *)
(* "assert is_busy" of check_timeouts never fails, and a release_worker    *)
(* whose id matches never raises "Trying to release worker while it's      *)
(* inactive", in whatever order answers, timeouts, disconnections and the  *)
(* administrator release it.                                               *)
(***************************************************************************)
BookkeepingOK ==
    \A s \in Shards :
        /\ Busy(s) <=> clock[s] # "off"
        /\ Busy(s) <=> dispatch[s] # NoId
        /\ ~Busy(s) => operations[s] = {} /\ toIgnore[s] = {}

(***************************************************************************)
(* _operations_reverse stays in sync with the lists of operations: it only *)
(* points at a worker that has the operation, and it points at every copy  *)
(* whose result would be taken.  Otherwise an invalidation (which ignores  *)
(* what the reverse lookup finds) would miss a running copy, or enqueue()  *)
(* would believe that an operation is still with a worker.                 *)
(***************************************************************************)
ReverseInSync ==
    /\ \A o \in Ops : reverse[o] # NoShard => o \in operations[reverse[o]]
    /\ \A s \in Shards : \A o \in Live(s) : reverse[o] = s

(***************************************************************************)
(* "If a worker is available, then this event is set" (workerpool.py 192): *)
(* set, or about to be, by a set already handed to the loop or by the      *)
(* on_worker_connected of that worker.  Otherwise the executor would sleep *)
(* with work to hand out and an idle worker to take it.                    *)
(***************************************************************************)
NoLostWakeup ==
    \A s \in Candidates : available \/ setComing \/ greetings[s] > 0

(***************************************************************************)
(* The operations of a job group are never both taken (their results go    *)
(* to the cache) and given back to be executed again, however an answer    *)
(* races a timeout, a disconnection or a disabling.                        *)
(***************************************************************************)
TakenOrLost == \A d \in Ids : taken[d] \cap lost[d] = {}

(***************************************************************************)
(* Behind every job group that a worker holds there is a coroutine of its  *)
(* own that has not ended, was given that very list for that very worker,  *)
(* and whose operations nobody has had back or stored: the release the     *)
(* worker waits for is still to come, and it will be of the right group.   *)
(***************************************************************************)
HeldHasTask ==
    \A s \in Shards : dispatch[s] # NoId =>
        /\ dispatch[s] <= lastId
        /\ shardOf[dispatch[s]] = s
        /\ group[dispatch[s]] = operations[s]
        /\ phase[dispatch[s]] \notin {"none", "done"}
        /\ taken[dispatch[s]] = {} /\ lost[dispatch[s]] = {}

(***************************************************************************)
(* No result is taken from a job group once the operation has been handed  *)
(* out again under a later id: the later answer is the only one.           *)
(***************************************************************************)
SupersededNeverTaken ==
    [][\A d \in Ids : \A o \in taken'[d] \ taken[d] :
          \A e \in (d + 1)..lastId : o \notin group[e]]_vars

(***************************************************************************)
(* "The operator's Disable wins, so it stays disabled when it reconnects"  *)
(* (workerpool.py 758): once the administrator has disabled a worker, it   *)
(* stays disabled until the administrator enables it, even if a timeout    *)
(* had disabled it before and whatever answers and connects afterwards.    *)
(***************************************************************************)
AdminDisableWins == \A s \in adminOff : status[s] = "disabled"

(***************************************************************************)
(* The pool is a DispatchTable: a group is held while some shard works on  *)
(* it, and an operation's holder is the group of the shard that the        *)
(* reverse lookup finds.                                                   *)
(***************************************************************************)
Held == {dispatch[s] : s \in Shards} \ {NoId}

Table == INSTANCE DispatchTable WITH
    held    <- Held,
    ignored <- [d \in Ids |-> IF d \in Held THEN toIgnore[shardOf[d]] ELSE {}],
    holder  <- [o \in Ops |-> IF reverse[o] = NoShard
                              THEN NoId ELSE dispatch[reverse[o]]]

\* The WorkerPool implements what it promises to the EvaluationService.
ImplementsTable == Table!TableSpec
==============================================================================
