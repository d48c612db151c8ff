-------------------------- MODULE EvaluationService --------------------------
(***************************************************************************)
(* How the EvaluationService moves the operations of one submission result *)
(* (its compilation and its evaluation on each testcase) through           *)
(*                                                                         *)
(*   the database -> the queue -> the executor -> the worker pool ->       *)
(*   the result cache -> the database                                      *)
(*                                                                         *)
(* while invalidations, lost workers and the sweeper start them again.     *)
(*                                                                         *)
(* Two kinds of actors interleave.  The event loop runs the executor, the  *)
(* pool's coroutines and the flush of the cache.  Sections (the holders of *)
(* post_finish_lock) run on background threads, one at a time, and leave   *)
(* to the loop what touches the queue: their pushes and dequeues are loop  *)
(* actions, run in order.  A section that nothing on the loop can tell     *)
(* from one step is one step here; an invalidation is several.             *)
(*                                                                         *)
(* The pool is the DispatchTable that WorkerPool implements.               *)
(***************************************************************************)
EXTENDS DispatchTable, Sequences, FiniteSets

CONSTANTS
    Compile,           \* the compilation; the other operations are testcases
    RaceWindow,        \* may a thread switch come between AsyncExecutor.run's
                       \* pop and execute()'s _currently_executing
    MaxInvalidations,  \* bound on the invalidations
    MaxFaults          \* bound on the lost workers and failed jobs or writes

ASSUME ESAssumption ==
    /\ Compile \in Ops
    /\ RaceWindow \in BOOLEAN
    /\ MaxInvalidations \in Nat
    /\ MaxFaults \in Nat

Testcases == Ops \ {Compile}
Epochs    == 0..MaxInvalidations

VARIABLES
    rows,      \* rows[o]: the stored result of o: {}, or the epoch it is of
    epoch,     \* epoch[o]: how many requested invalidations of o were committed
    queue,     \* the operation queue, without its order
    popped,    \* out of the queue, not in _currently_executing yet
    executing, \* _currently_executing
    born,      \* born[d][o]: the epoch of o when job group d was handed out
    started,   \* the job groups whose coroutine runs
    cache,     \* result_cache.d: cache[o] is {} or one result
    batch,     \* the batch being flushed, without what was discarded
    flush,     \* where the flush is: "idle", "taken" or "written"
    pending,   \* _pending_operations
    ready,     \* the callbacks handed to the loop, in order
    applied,   \* the first of them has acted, but not cleared its pending
    sec,       \* the section in progress (see Section)
    dequeued,  \* _dequeued_in_section
    lostOps,   \* given back by the pool, enqueue() not run yet
    faults     \* how many faults there have been

dbVars    == <<rows, epoch>>
execVars  == <<queue, popped, executing>>
cacheVars == <<cache, batch, flush>>
loopVars  == <<pending, ready, applied>>
secVars   == <<sec, dequeued>>
esVars == <<tableVars, dbVars, execVars, born, started, cacheVars, loopVars,
            secVars, lostOps, faults>>

Results == [epoch : Epochs, good : BOOLEAN]

\* A loop callback: the loop actions that one section handed over together
\* (pushes), one dequeue, the first step of a spawned _build_and_dispatch,
\* or the return of write_results to the flush that awaits it.
Callbacks == [act : {"push", "dequeue", "build", "flushed"},
              ops : SUBSET Ops, id : Ids \cup {NoId}]

\* An invalidation's place: its level's operations still to dequeue, and
\* the one whose dequeue was handed over but that is not ignored yet.
Section == [pc : {"free", "dequeue", "ignore", "discard", "commit"},
            scope : SUBSET Ops, todo : SUBSET Ops, at : SUBSET Ops]

Free == [pc |-> "free", scope |-> {}, todo |-> {}, at |-> {}]

ESTypeOK ==
    /\ TableTypeOK
    /\ rows \in [Ops -> SUBSET Epochs]
    /\ epoch \in [Ops -> Epochs]
    /\ queue \subseteq Ops /\ popped \subseteq Ops /\ executing \subseteq Ops
    /\ born \in [Ids -> [Ops -> Epochs]]
    /\ started \subseteq Ids
    /\ cache \in [Ops -> SUBSET Results]
    /\ batch \in [Ops -> SUBSET Results]
    /\ flush \in {"idle", "taken", "written"}
    /\ pending \in [Ops -> [last : {"none", "push", "dequeue"}, count : Nat]]
    /\ ready \in Seq(Callbacks)
    /\ applied \in BOOLEAN
    /\ sec \in Section
    /\ dequeued \subseteq Ops
    /\ lostOps \subseteq Ops
    /\ faults \in 0..MaxFaults

NoPending == [last |-> "none", count |-> 0]
Nothing   == [o \in Ops |-> {}]

ESInit ==
    /\ TableInit
    /\ rows      = Nothing
    /\ epoch     = [o \in Ops |-> 0]
    /\ queue     = {} /\ popped = {} /\ executing = {}
    /\ born      = [d \in Ids |-> [o \in Ops |-> 0]]
    /\ started   = {}
    /\ cache     = Nothing
    /\ batch     = Nothing
    /\ flush     = "idle"
    /\ pending   = [o \in Ops |-> NoPending]
    /\ ready     = <<>>
    /\ applied   = FALSE
    /\ sec       = Free
    /\ dequeued  = {}
    /\ lostOps   = {}
    /\ faults    = 0

\* The loop is between two callbacks; post_finish_lock is free.
LoopFree == ~applied /\ popped = {}
LockFree == sec = Free

Fault   == faults < MaxFaults /\ faults' = faults + 1
NoFault == UNCHANGED faults
-----------------------------------------------------------------------------
\* Mutants: the executor does not look in the pool; the cache has forgotten
\* the batch that is being written.
InExecutorButPool(o) == o \in queue \cup executing
InCacheButBatch(o)   == cache[o] # {}

(***************************************************************************)
(* _enqueue_sync.  The executor's __contains__ looks in the queue, in      *)
(* _currently_executing and in the pool; popped is in none of them.        *)
(***************************************************************************)
InExecutor(o) == o \in queue \cup executing \/ holder[o] # NoId
InCache(o)    == cache[o] # {} \/ batch[o] # {}

MayEnqueue(o) ==
    /\ pending[o].last # "push"
    /\ (pending[o].last = "dequeue" \/ o \in dequeued) \/ ~InExecutor(o)
    /\ ~InCache(o)

Callback(act, os, d) == [act |-> act, ops |-> os, id |-> d]

\* _record_pending, for each operation of os.
Recorded(os, act) ==
    [o \in Ops |-> IF o \in os
                   THEN [last |-> act, count |-> pending[o].count + 1]
                   ELSE pending[o]]

\* Mutant: the first action to run clears the mark.
ClearedByFirst(os) == [o \in Ops |-> IF o \in os THEN NoPending ELSE pending[o]]

\* _clear_pending_one, for each operation of os.
Cleared(os) ==
    [o \in Ops |->
        IF o \notin os THEN pending[o]
        ELSE IF pending[o].count <= 1 THEN NoPending
        ELSE [pending[o] EXCEPT !.count = @ - 1]]

\* A section enqueues what it may of os; its pushes are handed over, and
\* with them cb, when it ends.
Enqueue(os, cb) ==
    LET P == {o \in os : MayEnqueue(o)}
    IN  /\ pending' = Recorded(P, "push")
        /\ ready' = ready
                    \o (IF P = {} THEN <<>> ELSE <<Callback("push", P, NoId)>>)
                    \o cb
        /\ UNCHANGED applied

\* submission_get_operations, for the database r: the compilation if there
\* is none, else every testcase that has no evaluation.
Needed(r) ==
    IF r[Compile] = {} THEN {Compile} ELSE {o \in Testcases : r[o] = {}}

(***************************************************************************)
(* _new_submission_sync and _missing_operations_sync.                      *)
(***************************************************************************)
EnqueueMissing ==
    /\ LockFree
    /\ \E o \in Needed(rows) : MayEnqueue(o)
    /\ Enqueue(Needed(rows), <<>>)
    /\ UNCHANGED <<tableVars, dbVars, execVars, born, started, cacheVars,
                   secVars, lostOps, faults>>

\* enqueue(), for an operation that the pool gave back.
EnqueueLost(o) ==
    /\ LockFree
    /\ o \in lostOps
    /\ lostOps' = lostOps \ {o}
    /\ Enqueue({o}, <<>>)
    /\ UNCHANGED <<tableVars, dbVars, execVars, born, started, cacheVars,
                   secVars, faults>>
-----------------------------------------------------------------------------
(***************************************************************************)
(* The loop: _run_loop_actions.  A push or a dequeue acts, then clears its *)
(* pending mark; a section may look in between.                            *)
(***************************************************************************)
\* EvaluationExecutor.dequeue, then ignore_operation.
DequeueAndIgnore(o) ==
    /\ queue' = queue \ {o}
    /\ executing' = IF o \in queue THEN executing ELSE executing \ {o}
    /\ IgnoreOp(o)
    /\ UNCHANGED popped

ApplyLoopAction ==
    /\ LoopFree
    /\ ready # <<>>
    /\ \/ /\ Head(ready).act = "push"
          /\ queue' = queue \cup Head(ready).ops
          /\ UNCHANGED <<tableVars, popped, executing>>
       \/ /\ Head(ready).act = "dequeue"
          /\ \E o \in Head(ready).ops : DequeueAndIgnore(o)
    /\ applied' = TRUE
    /\ UNCHANGED <<dbVars, born, started, cacheVars, pending, ready, secVars,
                   lostOps, faults>>

ClearPending ==
    /\ applied
    /\ pending' = Cleared(Head(ready).ops)
    /\ ready' = Tail(ready)
    /\ applied' = FALSE
    /\ UNCHANGED <<tableVars, dbVars, execVars, born, started, cacheVars,
                   secVars, lostOps, faults>>

\* AsyncExecutor.run: a batch leaves the queue; execute() then lists it in
\* _currently_executing, with no await in between.
Pop(os) ==
    /\ LoopFree
    /\ executing = {}
    /\ os # {} /\ os \subseteq queue
    /\ queue' = queue \ os
    /\ popped' = os
    /\ UNCHANGED <<tableVars, dbVars, executing, born, started, cacheVars,
                   loopVars, secVars, lostOps, faults>>

BeginExecute ==
    /\ popped # {}
    /\ executing' = popped
    /\ popped' = {}
    /\ UNCHANGED <<tableVars, dbVars, queue, born, started, cacheVars,
                   loopVars, secVars, lostOps, faults>>

\* execute(), past wait_for_workers: acquire_worker, which spawns
\* _build_and_dispatch.
Execute ==
    /\ LoopFree
    /\ Hand(executing)
    /\ born' = [born EXCEPT ![lastId + 1] = epoch]
    /\ ready' = Append(ready, Callback("build", {}, lastId + 1))
    /\ executing' = {}
    /\ UNCHANGED <<dbVars, queue, popped, started, cacheVars, pending, applied,
                   secVars, lostOps, faults>>

\* Mutant: whatever callback comes first is taken for the coroutine.
StartAny ==
    /\ LoopFree
    /\ ready # <<>>
    /\ started' = started \cup {Head(ready).id}
    /\ ready' = Tail(ready)
    /\ UNCHANGED <<tableVars, dbVars, execVars, born, cacheVars, pending,
                   applied, secVars, lostOps, faults>>

StartBuild ==
    /\ LoopFree
    /\ ready # <<>> /\ Head(ready).act = "build"
    /\ started' = started \cup {Head(ready).id}
    /\ ready' = Tail(ready)
    /\ UNCHANGED <<tableVars, dbVars, execVars, born, cacheVars, pending,
                   applied, secVars, lostOps, faults>>
-----------------------------------------------------------------------------
(***************************************************************************)
(* The end of a job group: _action_finished_sync puts the results that are *)
(* not ignored in the cache (those of bad are of failed jobs), an error    *)
(* drops them all, and a lost worker gives operations back.                *)
(***************************************************************************)
ActionFinished(d, bad) ==
    /\ LockFree
    /\ d \in started
    /\ Take(d)
    /\ bad \subseteq taken'[d]
    /\ IF bad = {} THEN NoFault ELSE Fault
    /\ cache' = [o \in Ops |->
                    IF o \in taken'[d]
                    THEN {[epoch |-> born[d][o], good |-> o \notin bad]}
                    ELSE cache[o]]
    /\ UNCHANGED <<dbVars, execVars, born, started, batch, flush, loopVars,
                   secVars, lostOps>>

JobGroupError(d) ==
    /\ LockFree
    /\ d \in started
    /\ Drop(d)
    /\ Fault
    /\ UNCHANGED <<dbVars, execVars, born, started, cacheVars, loopVars,
                   secVars, lostOps>>

\* check_workers_timeout and disable_worker; check_workers_connection.
WorkerLost(d) ==
    /\ LoopFree
    /\ LoseLive({d}) \/ LoseWhole({d})
    /\ Fault
    /\ lostOps' = lostOps \cup lost'[d]
    /\ UNCHANGED <<dbVars, execVars, born, started, cacheVars, loopVars,
                   secVars>>
-----------------------------------------------------------------------------
(***************************************************************************)
(* The result cache: flush() takes everything, write_results stores it in  *)
(* a section, and the batch is in the cache until write_results returns.   *)
(***************************************************************************)
TakeBatch ==
    /\ LoopFree
    /\ flush = "idle"
    /\ cache # Nothing
    /\ batch' = cache
    /\ cache' = Nothing
    /\ flush' = "taken"
    /\ UNCHANGED <<tableVars, dbVars, execVars, born, started, loopVars,
                   secVars, lostOps, faults>>

\* The database once the batch is written.  What blanks the row (the result
\* of a compilation, or an evaluation that found the tombstone) leaves only
\* the results in kept; an evaluation that is already stored is kept too.
Succeeded == {o \in Ops : \E r \in batch[o] : r.good}

Stored(blanked, kept) ==
    LET base == IF blanked THEN Nothing ELSE rows
    IN  [o \in Ops |-> IF o \in kept \cap Succeeded /\ base[o] = {}
                       THEN {r.epoch : r \in batch[o]} ELSE base[o]]

\* write_results_one_row: an evaluation that failed, before those in late,
\* may report the tombstone, and the executables still be replaced by it
\* (see CleanFiles in Results).
MeetsTombstone(late) ==
    /\ rows[Compile] # {} /\ Compile \notin Succeeded
    /\ \E o \in Testcases \ late : batch[o] # {} /\ o \notin Succeeded

\* The commits of a batch that leaves the database db, having pushed os.  A
\* compilation's end enqueues what comes next; an evaluation's does it with
\* the two-phase or the dependency gate on.
WriteBatch(db, os) ==
    \/ /\ NoFault
       /\ rows' = db
       /\ \E next \in {os, Needed(db)} :
             /\ batch[Compile] # {} => next = Needed(db)
             /\ Enqueue(next, <<Callback("flushed", {}, NoId)>>)
    \/ /\ Fault     \* the connection is lost before the first commit,
       /\ rows' = rows
       /\ Enqueue(os, <<Callback("flushed", {}, NoId)>>)
    \/ /\ Fault     \* or after it
       /\ rows' = db
       /\ Enqueue(os, <<Callback("flushed", {}, NoId)>>)

\* _write_results_sync.  The compilation's result and those of the
\* evaluations are two groups of one batch, in the order they came.  A
\* tombstone sends the compilation to the queue, and takes back no
\* evaluation that is waiting or running.
WriteResults ==
    /\ LockFree
    /\ flush = "taken"
    /\ flush' = "written"
    /\ \/ WriteBatch(Stored(Compile \in Succeeded, Ops), {})
       \/ Compile \in Succeeded /\ WriteBatch(Stored(TRUE, {Compile}), {})
       \/ \E late \in SUBSET Testcases :
             /\ MeetsTombstone(late)
             /\ WriteBatch(Stored(TRUE, late), {Compile})
    /\ UNCHANGED <<tableVars, epoch, execVars, born, started, cache, batch,
                   secVars, lostOps>>

EndFlush ==
    /\ LoopFree
    /\ ready # <<>> /\ Head(ready).act = "flushed"
    /\ ready' = Tail(ready)
    /\ batch' = Nothing
    /\ flush' = "idle"
    /\ UNCHANGED <<tableVars, dbVars, execVars, born, started, cache, pending,
                   applied, secVars, lostOps, faults>>
-----------------------------------------------------------------------------
(***************************************************************************)
(* _invalidate_submission_sync, for the operations of its level.           *)
(***************************************************************************)
Scopes == {Ops, Testcases}

BeginInvalidate(scope) ==
    /\ LockFree
    /\ \A o \in Ops : epoch[o] < MaxInvalidations
    /\ sec' = [pc |-> IF scope = {} THEN "discard" ELSE "dequeue",
               scope |-> scope, todo |-> scope, at |-> {}]
    /\ UNCHANGED <<tableVars, dbVars, execVars, born, started, cacheVars,
                   loopVars, dequeued, lostOps, faults>>

\* _threadsafe_dequeue_and_ignore: the dequeue is handed over right away ...
HandDequeue(o) ==
    /\ sec.pc = "dequeue" /\ o \in sec.todo
    /\ sec' = [sec EXCEPT !.pc = "ignore", !.at = {o}, !.todo = @ \ {o}]
    /\ pending' = Recorded({o}, "dequeue")
    /\ dequeued' = dequeued \cup {o}
    /\ ready' = Append(ready, Callback("dequeue", {o}, NoId))
    /\ UNCHANGED <<tableVars, dbVars, execVars, born, started, cacheVars,
                   applied, lostOps, faults>>

\* ... and the operation ignored in the pool, on the section's thread.
IgnoreOnThread ==
    /\ sec.pc = "ignore"
    /\ \E o \in sec.at : IgnoreOp(o)
    /\ sec' = [sec EXCEPT !.pc = IF sec.todo = {} THEN "discard" ELSE "dequeue",
                          !.at = {}]
    /\ UNCHANGED <<dbVars, execVars, born, started, cacheVars, loopVars,
                   dequeued, lostOps, faults>>

Without(c, os) == [o \in Ops |-> IF o \in os THEN {} ELSE c[o]]

\* Mutant: what a flush has taken is not discarded.
DiscardWaiting ==
    /\ sec.pc = "discard"
    /\ sec' = [sec EXCEPT !.pc = "commit"]
    /\ cache' = Without(cache, sec.scope)
    /\ UNCHANGED <<tableVars, dbVars, execVars, born, started, batch, flush,
                   loopVars, dequeued, lostOps, faults>>

\* _discard_cached_results: what waits, and what a flush has taken.
DiscardCached ==
    /\ sec.pc = "discard"
    /\ sec' = [sec EXCEPT !.pc = "commit"]
    /\ cache' = Without(cache, sec.scope)
    /\ batch' = Without(batch, sec.scope)
    /\ UNCHANGED <<tableVars, dbVars, execVars, born, started, flush, loopVars,
                   dequeued, lostOps, faults>>

\* What loses its stored result: everything in the scope or, given a
\* testcase_id, that testcase alone.
Wiped(scope) ==
    {scope} \cup (IF scope = Testcases THEN {{o} : o \in Testcases} ELSE {})

\* The stored results are removed, what they leave to do is enqueued, and
\* the whole committed.  A failure rolls the database back; if it comes at
\* the commit, the pushes recorded before it are handed over all the same.
EndInvalidate(gone) ==
    LET left == Without(rows, gone)
    IN  /\ sec.pc = "commit"
        /\ sec' = Free
        /\ dequeued' = {}
        /\ \/ /\ NoFault
              /\ rows' = left
              /\ epoch' = [o \in Ops |-> IF o \in gone
                                         THEN epoch[o] + 1 ELSE epoch[o]]
              /\ Enqueue(Needed(left), <<>>)
           \/ /\ Fault
              /\ UNCHANGED dbVars
              /\ \E os \in {{}, Needed(left)} : Enqueue(os, <<>>)
        /\ UNCHANGED <<tableVars, execVars, born, started, cacheVars, lostOps>>
-----------------------------------------------------------------------------
LoopStep ==
    \/ ApplyLoopAction \/ ClearPending
    \/ \E os \in SUBSET Ops : Pop(os)
    \/ BeginExecute \/ Execute \/ StartBuild
    \/ \E d \in Ids : WorkerLost(d)
    \/ TakeBatch \/ EndFlush

\* A section runs on its own thread.  Without the race window none gets to
\* run between the executor's pop and _currently_executing.
SectionStep ==
    /\ popped = {} \/ RaceWindow
    /\ \/ EnqueueMissing
       \/ \E o \in Ops : EnqueueLost(o)
       \/ \E d \in Ids, bad \in SUBSET Ops : ActionFinished(d, bad)
       \/ \E d \in Ids : JobGroupError(d)
       \/ WriteResults
       \/ \E scope \in Scopes : BeginInvalidate(scope)
       \/ \E o \in Ops : HandDequeue(o)
       \/ IgnoreOnThread \/ DiscardCached
       \/ \E gone \in Wiped(sec.scope) : EndInvalidate(gone)

ESNext == LoopStep \/ SectionStep

ESSpec == ESInit /\ [][ESNext]_esVars
-----------------------------------------------------------------------------
(***************************************************************************)
(*                               Properties                                *)
(***************************************************************************)

(***************************************************************************)
(* The database never holds a result that was computed before the last     *)
(* invalidation anyone asked for of its operation: what a worker, the      *)
(* cache or a flush had in its hands when _invalidate_submission_sync ran  *)
(* is never stored after it.  (The invalidation that write_results makes   *)
(* of a tombstone takes nothing back and is no part of epoch: the outcome  *)
(* of an evaluation that was running may be stored after it.)              *)
(***************************************************************************)
NoStaleRow == \A o \in Ops : rows[o] \subseteq {epoch[o]}

\* The loop actions on o that are still to run or to clear.
ActionsOn(o) == {i \in 1..Len(ready) : o \in ready[i].ops}

(***************************************************************************)
(* _pending_operations predicts the loop: its count is the number of loop  *)
(* actions on the operation still to be cleared, and its action is the     *)
(* last of them.                                                           *)
(***************************************************************************)
PendingPredictsLoop ==
    \A o \in Ops :
        /\ pending[o].count = Cardinality(ActionsOn(o))
        /\ \A i \in ActionsOn(o) :
              (\A j \in ActionsOn(o) : j <= i) => pending[o].last = ready[i].act

\* Where o is on its way to a result that would be stored, a push that is
\* still to be applied included.
LiveGroups(o)   == {d \in held : o \in group[d] \ ignored[d]}
UnappliedPushes(o) ==
    {i \in ActionsOn(o) : ready[i].act = "push" /\ ~(i = 1 /\ applied)}
Copies(o) ==
    Cardinality({P \in {<<"queue", queue>>, <<"popped", popped>>,
                        <<"executing", executing>>} : o \in P[2]})
    + Cardinality(LiveGroups(o)) + Cardinality(UnappliedPushes(o))
    + Cardinality(cache[o])
    + (IF flush = "taken" THEN Cardinality(batch[o]) ELSE 0)

(***************************************************************************)
(* "This lock is used to avoid inserting in the queue [...] an operation   *)
(* which is already being processed" (EvaluationService.py 385): unless an *)
(* invalidation is taking it out of where it is, an operation is on its    *)
(* way to a result in one place only.                                      *)
(***************************************************************************)
ProcessedOnce ==
    \A o \in Ops :
        (\A i \in ActionsOn(o) : ready[i].act # "dequeue") /\ o \notin sec.scope
        => Copies(o) <= 1

(***************************************************************************)
(* The EvaluationService keeps its side of the pool's contract: it never   *)
(* hands out an operation that a worker has and has not been told to       *)
(* ignore (the executor itself does not look).                             *)
(***************************************************************************)
KeepsPoolContract == TableSpec

(***************************************************************************)
(* The loop runs its callbacks and its coroutines, a thread that has       *)
(* post_finish_lock goes on, what waits for it gets it, the sweeper and    *)
(* the flush of the cache come back, and a job group ends, one way or      *)
(* another (NoGroupHeldForever of PeriodicChecks).                         *)
(***************************************************************************)
EndGroup(d) ==
    \/ \E bad \in SUBSET Ops : ActionFinished(d, bad)
    \/ JobGroupError(d) \/ WorkerLost(d)

ESFairness ==
    /\ WF_esVars(ApplyLoopAction) /\ WF_esVars(ClearPending)
    /\ WF_esVars(\E os \in SUBSET Ops : Pop(os))
    /\ WF_esVars(BeginExecute) /\ WF_esVars(Execute) /\ WF_esVars(StartBuild)
    /\ WF_esVars(TakeBatch) /\ WF_esVars(WriteResults) /\ WF_esVars(EndFlush)
    /\ WF_esVars(EnqueueMissing)
    /\ \A o \in Ops : WF_esVars(EnqueueLost(o)) /\ WF_esVars(HandDequeue(o))
    /\ WF_esVars(IgnoreOnThread) /\ WF_esVars(DiscardCached)
    /\ WF_esVars(\E gone \in Wiped(sec.scope) : EndInvalidate(gone))
    /\ \A d \in Ids : WF_esVars(EndGroup(d))

FairESSpec == ESSpec /\ ESFairness

(***************************************************************************)
(* Whatever is lost, fails or is invalidated on the way (finitely often),  *)
(* the submission ends up with its compilation and all its evaluations     *)
(* stored, and they stay: no operation is dropped for good, no pending     *)
(* mark or cached result keeps it out of the queue for ever.               *)
(***************************************************************************)
EventuallyJudged == <>[](Needed(rows) = {})
==============================================================================
