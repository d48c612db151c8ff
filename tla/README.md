# CMS in TLA+: judging, scoring, ranking and watching over a contest

CMS grades programming contests. A submission is compiled and then evaluated on
every testcase by remote workers, the results are stored in a database, scored and
sent to a ranking; a watchdog restarts the programs that hang. This project models
that path and the watchdog: whether a submission is judged, once, with the result that
counts; whether what is skipped leaves the score as it is; whether the score is that
of the stored evaluations; whether the ranking ends up showing it; whether a program
is restarted when, and only when, it should be. TLC checks the models on small
instances; TLAPS proves most of their safety for every number of workers, operations,
testcases, programs and faults.

Paths below are relative to `src/`; `ES` is `cms/service/EvaluationService.py`, `SS`
`cms/service/ScoringService.py`, `PS` `cms/service/ProxyService.py`.

## 1. Inventory

### The parts, their state and their operations

| Part (source) | State | Operations | Model |
|---|---|---|---|
| WorkerPool (`cms/service/workerpool.py`) | per worker: list of operations or idle/disabled, operations to ignore, dispatch id, three clocks, the mark "disabled by a timeout"; the reverse lookup; the event "a worker is available" | `add_worker`, `on_worker_connected`, `acquire_worker`, `_build_and_dispatch`, `release_worker`, `ignore_operation`, `check_timeouts`, `check_connections`, `disable_worker`, `enable_worker` | `WorkerPool`, `DispatchTable` |
| Periodic checks (ES, `cms/io/async_service.py`) | one running coroutine per check | `check_workers_timeout`, `check_workers_connection`, `async_repeater` | `PeriodicChecks` |
| EvaluationService, the way of an operation (ES) | `_currently_executing`, `_pending_operations`, the loop actions of the running section, `_dequeued_in_section`, `post_finish_lock` | `new_submission`, `enqueue`, `_missing_operations`, `execute`, `dequeue`, `action_finished`, `write_results`, `invalidate_submission` | `EvaluationService` |
| EvaluationService, the result in the database (ES, `cms/service/esoperations.py`, `cms/db/submission.py`) | the row of a result, its evaluations, the session of the running section | `_write_results_in_session`, `_advance_two_phase`, `_advance_dependencies`, `compilation_ended`, `evaluation_ended`, `_finalize_complete_result`, sweep, invalidation, restart | `Results` |
| Two-phase screening, subtask dependencies, group score types (`cms/grading/twophase.py`, `subtaskdag.py`, `scoretypes/`) | none | `group_screening_status`, `topological_order`, `zeroed_by`, `SubtaskGate`, `reduce` | `SubtaskGates` |
| ScoringService (SS, `scoringoperations.py`) | its queue, the locked row | `execute`, `_score_sync`, the sweeper, `invalidate_submission` | `Results` |
| ProxyService (PS) | queue, retries and rejected settings of the executor; what was sent; groups to repair; the record of a regenerate | `submission_scored`, `_missing_operations`, `reinitialize`, `dataset_updated`, `regenerate_ranking`, rounds of `ProxyExecutor` | `ProxyService` |
| Watchdog (`cms/watchdog/policy.py`, `main.py`, `control.py`) | windows of misses, the gate, the ledger and its file, the action in flight | `cycle`, `decide` (R1 to R5, H1 to H9), `_act`, `restart`, `start` | `Watchdog`, `WatchdogLedger` |
| Result cache (`cms/service/flushingdict.py`) | results waiting, results being flushed | `add`, `flush`, `discard`, `__contains__` | `EvaluationService` (`cache`, `batch`, `flush`) |
| Operation queue (`cms/io/async_priorityqueue.py`) | heap, reverse lookup, event, last default timestamp | `push`, `pop`, `remove`, `set_priority` | `AsyncPriorityQueue`, `OrderedQueue` |
| Executors and sweeper (`cms/io/async_triggeredservice.py`) | one queue and one consumer per executor | `run`, `enqueue`, `_sweep` | `EvaluationService` (`Pop`, `EnqueueMissing`) |
| RPC (`cms/io/async_rpc.py`) | connected or not, pending calls | connect, finalize, answer | `WorkerPool` (`Connect`, `Disconnect`, `WorkerAnswers`) |

The remaining parts (web servers, the ranking web server, task types, the sandbox,
importers, monitoring) are listed in `PROJECT.json` with the reason they are not
modelled, or how little of them is (of `cmsCleanFiles`, the worker and the jobs only what
concerns executables that were replaced by the *tombstone*; of the ranking's stores only what
decides an answer).

### How they interact

* The **event loop** of ES runs the executor, the coroutines of the job groups, the
  flush of the cache and the periodic checks. Between two awaits nothing else runs on it.
* **Sections** run on threads, one at a time, under `post_finish_lock`: storing results,
  enqueueing, invalidating. The queue belongs to the loop, so a section records the
  pushes and dequeues it decides (`_record_pending`) and hands them over with
  `call_soon_threadsafe`. A section is several commits; the gates (screening,
  dependencies) run inside it.
* The **pool** is called from both, under its own lock. A **worker** answers, or its
  connection ends, or a timeout takes the job group back.
* **ScoringService** is told by ES what to score, or finds it with its sweeper. The two
  meet in the row of the result, which `_score_sync` and an invalidation lock.
* **ProxyService** is told by ScoringService what was scored, or finds it with its
  sweeper. Its threads fill the queue of an executor that sends rounds to a ranking.
* The **watchdog** probes all of them. It sees only what `supervisord`, the probes and the
  database answer, and remembers its own actions in a file.

### What is hard, and what makes each part correct

* Pool: an answer races a timeout, a lost connection or an administrator, and the worker
  may already have another group. Correct if no operation is both stored and given back, a
  superseded answer is never used, the reverse lookup finds every copy that counts, the
  executor is never left asleep, and a group always leaves its worker.
* ES: what a section decides is applied later, while operations move on. Correct if an
  operation is processed in one place, nothing computed before an invalidation that was asked
  for is stored after it, and every submission is judged in the end, also when a write itself
  finds that the executables are gone and starts the compilation anew.
* Results: screening and dependencies write evaluations of their own, in any order of the
  answers, and a stop can come between any two commits. Correct if an outcome means a
  complete result, skipping never changes the score, the gates never wait for each other,
  a score is that of the evaluations beside it, and everything is scored or given up.
* Queue: `remove` from the middle of a heap. Correct if it behaves as an ordered set with
  arrival order as tie-break.
* ProxyService: what counts as sent is kept apart from what was sent, and threads, retries,
  refusals and resets change both. Correct if what the sweeper may skip is in the ranking or on its
  way, the ranking catches up, and data arrives behind the settings queued before it.
* Watchdog: acts on what it saw seconds ago, on processes that change under it, with a
  memory that a crash cuts to its ledger. Correct if the budgets hold of what really
  happened, a process is signalled for what it did itself, and a program that hangs alone is
  replaced.

The full list of what a test would hardly reach, each at its line, is
`PROJECT.json` / `hazards`.

## 2. The modules and the code

### `WorkerPool`

Every method of the class holds `_operation_lock` throughout, so it is one
action. `_operations[shard]` is split in `status` and `operations`; `clock` says
which of `_start_time`, `_dispatched_at`, `_answered_at` was set last;
`_disabled_at`, set and cleared with `_disabled_by_timeout`, is folded in
`byTimeout`. `_schedule_disabling` and `_ignore` are raised and consumed under
one hold of the lock, and are the second argument of `Released`. The coroutine of
job group `d` has a phase: building on a thread, awaiting the call, its outcome
known, awaiting `action_finished`, done. `ActionFinished` is the part of
`_action_finished_sync` that concerns the pool. `taken`, `lost` and `adminOff` are
history variables for the properties: what was put in the cache, what was given
back, and which workers the administrator disabled last. `find_worker`'s random
choice is an `\E`. How late a clock must be is left open here: any running clock
may be found late.

The pool does not check what it is asked to hand out. `MayHand` is what ES
guarantees, and `EvaluationService` is checked to guarantee it
(`KeepsPoolContract`).

### `DispatchTable`

What the pool promises, without workers, clocks or coroutines: a job group gets
a fresh id, is held, and ends exactly once: taken (its results that are not
ignored are stored), dropped, or lost (its operations are given back). An
operation has at most one holder that counts. `WorkerPool` implements it (checked
in `pool_safety` and, with batches of two, in `checks_live`; proved in
`WorkerPoolProofs`), and `EvaluationService` is built on it.

### `PeriodicChecks`

`WorkerPool` with time: `Tick` lets a clock pass its limit, the checks act on late
clocks, and a check that got operations back is busy until its `enqueue()` calls
return; the repeater does not call it before.

### `EvaluationService`

One submission result: a compilation and its testcases. `rows[o]` is the stored
result, named by its epoch (how many invalidations came before it). `queue`,
`popped`, `executing`, the `DispatchTable`, `cache` and `batch` are where an
operation can be. `ready` is the loop's queue of callbacks: pushes, dequeues, the
first step of a spawned `_build_and_dispatch`, the return of `write_results`. A
push or dequeue takes two steps (act, then clear its pending mark), since a thread
can look in between. Sections that the loop cannot tell from one step are one
action; an invalidation is several (`BeginInvalidate`, and per operation
`HandDequeue` and `IgnoreOnThread`, then `DiscardCached`, `EndInvalidate`), since
the loop goes on meanwhile. Faults are lost workers, failed groups and jobs, a
connection lost before or after the commit of a batch, and a failed commit of an
invalidation. What a stored result makes of the row is left to `Results`:
`WriteResults` may or may not enqueue what comes next.

A write can itself invalidate. `cmsCleanFiles -t` replaces executables by the tombstone; an
evaluation that fails for it makes `write_results_one_row` blank the row and enqueue the
compilation (`ES:1474-1488`). In `WriteResults` any failed evaluation may be such a one, as
long as there is a compilation to blank (`MeetsTombstone`; when the files are cleaned is part
of `Results`). Of the batch only the results that come after it are left, the
compilation is pushed even if the commit fails, and evaluations that wait or run are not taken
back: their results may come with that of the compilation, in either order, or after it. So
`epoch` counts the invalidations that were asked for and not this one. A result computed with the
executable that is gone may be stored after a tombstone, beside the new compilation too; it
is of the same source, and nothing in the code tells it apart.

`RaceWindow` says whether a section may act between the executor's pop and
`execute()`'s `_currently_executing`. It is a window of a few bytecodes, it is
real, and it is finding 1 below; `es_judged` keeps it closed so that it shows what
else holds.

### `SubtaskGates`, `Results`

`SubtaskGates` has the pure functions: which testcases the screening and the
dependencies release, which they skip, and what each group score type gives, over a
dataset that is a record. Outcomes are 0, 1 and 2 (2 tells the minimum, the product and
the threshold apart).

`Results` is one row of the database and the two services that write it. The session of
ES's section is `session` (flushed, not committed) and `section` says which step comes
next; each commit of the code is one step. ES holds the lock of the row while `session`
is not `NoRow`; ScoringService holds it between `ScoreRead` (the read with the
lock) and `ScoreCommit`. `ScoreBegin` is separate because the dataset is loaded before
the lock is asked for. `todo` stands for everything between the queue and the cache:
that part is `EvaluationService`, and a batch of results written here is any subset
of it. `StopES` forgets the section and `todo`; `StopSS` the scoring queue and what it
executes; `CutSection` is a lost database connection, `CutCommit` one that is lost at the
commit of an invalidation, whose pushes are handed over all the same; `DropBatch` a batch of
results lost before it is written, but perhaps after a tombstone in it pushed the compilation.
`released` is history: the gates were opened because they held each other.

`CleanFiles` puts the tombstone for the executables. From then on only jobs that were built
before (`built`: at most the evaluations in `todo` at that time) can succeed. `WriteTombstone` is
a batch in which one meets the tombstone: whatever the row says, and however often its
evaluation failed, it is blanked, tries included, and its compilation goes to the queue; the
results in `late`, behind that one in the batch, are then stored on the blank row. A report of a
tombstone that the row does not have any more (`outdated`) writes nothing and counts no try. The
next result of the compilation blanks the row again before it is stored, as `to_submission`
does: finding 6. A batch that holds results of both types is two writes here;
`EvaluationService` has it as one.
`ChangeParameters` changes which parameters a score is of (`revision`), and
`RescoreLoad`/`RescoreBlank` are the two steps of a rescore.

Properties about the score hold for datasets that follow the *alignment rule* of
`docs/subtask-dependencies.md` ("for every codename group G that has screening
testcases, every subtask that contains a non-screening testcase of G also contains all
of G's screening testcases"). The other datasets are in the runs too: that the outcome
is complete, that a screening skip has a cause and that everything is scored holds for
them as well.

### `ProxyService`

One ranking, its executor and the threads that fill the queue. A round sends at most one
request of each type to a namespace, so the queue is kept in that combined form; queueing
combines (`Combined`), as `_send_batch_sync` does when it looks at the entries. Within a round
each request is a step (`SendReset`, `SendVisibility`, `SendContest`, `SendScores`), which may
fail, be refused, or be carried out without an answer.

`threads` holds the threads of `submission_scored`, of the sweeper, of `reinitialize` and of
`dataset_updated`, any number of each but the sweeper's (which waits for its own end). A
thread reads in one step and hands over what it read in later ones: the settings of all the groups
(`ReadSettings`), then those of each group (`QueueSettings`), the contest data of each
(`QueueContest`), and of each submission the score (`ReadScore`), its mark (`MarkScore`) and its
operations (`QueueScore`). Rounds, other threads, saves and new scores come between any two. A
database error ends a thread where it is (`ThreadFail`); the sweeper's puts back the marks of the
namespaces to repair. What a thread hands over with `call_soon_threadsafe` is in the queue before
its next step: callbacks run in the order they were scheduled, and a thread that does anything the
model can see (a read, a mark, another callback) does it later. A regenerate, of which there is one
at a time (its lock), reads, queues all in one callback, and takes out what other threads
noted meanwhile. Scores and settings are version numbers.

Three histories name what the properties excuse: `lost` (the group had data dropped for good,
of which the operator is told), `overtaken` (two threads queued two scores
of one submission in the opposite order; the code does nothing about that, and the excuse ends
when the latest score of the submission is queued), and `asked` (the settings queued last), from
which data takes `under`, the settings it may not precede.

The ranking web server is as much of `cmsranking` as its answers need: what a namespace holds,
what a reset deletes, and that a list of scores is refused if an entity it names is missing.

### `WatchdogLedger`, `Watchdog`

The ledger is the part of the watchdog that survives a restart: real and shadow bookings,
the last outage, whether the budgets are exhausted because the file did not parse.
`Watchdog` has the programs with their pids and moods, `supervisord`, the cycle in two steps
(`BeginCycle` reads, `EndCycle` probes, decides and saves; the action runs in between), the
action as a task (`BookAction`, `Verify`, `Term`, `Kill`, `Confirm`, `StartOne`), time, and the
faults. Times are ages in cycles, capped at the budget window. A program that is
"stuck" is past the time R3 or R4 wait. `signalled`, `evidence` and `sinceRed` record what
really happened, whatever the ledger says.

The decision of a cycle uses the clocks of its start; the model decides with the ages at its
end, which differ when a cycle outlasts its time, a fault. The gap that tells a pause is measured
from start to start (`late`). Ages of actions run from the decision, as the bookings do. A
missing ledger file is an empty ledger, which is what the watchdog starts with; afterwards the
file is written, failed or not, and does not vanish. Programs are started by `supervisord` and by
the watchdog: there is no operator who starts one by hand, so `StartsAreNeeded` is about the
watchdog's own starts.

### `OrderedQueue`, `AsyncPriorityQueue`

The specification of the queue (a set of entries, a pop takes the least) and the
heap on an array with its reverse lookup and event. `popped` is what the last call
returned, so that the refinement is about the order of the pops too.

### MC modules

Each `MC` module declares model values, symmetry and, for `Results`, the datasets.

## 3. The runs

| Run | Shows |
|---|---|
| `pool_safety` | all safety properties of the pool and that it implements the table: 2 workers, 1 operation, 2 dispatches (225 k states) |
| `checks_live` | no job group is held for ever, if the timers go on and the check's `enqueue()` returns; the table again, for batches of 2 operations, part of which may be ignored (560 k states) |
| `es_judged` | nothing stale is stored, pending marks predict the loop, an operation is processed once, the pool's contract is kept, and the submission is judged in the end: 1 testcase, 1 invalidation, 1 fault (117 k states) |
| `queue` | the heap is an ordered queue, for 6 items with given, equal and default timestamps (300 k states) |
| `gates` | every dataset of 3 testcases and 2 subtasks, every grouping, screening, dependency and outcome, results in every order and one fault between any two commits: complete outcomes, the score of full grading, gates that hold and never hold each other (4.9 M states) |
| `faults` | 7 datasets with 3 faults and a change of parameters: scores fit the evaluations, what was given up is left alone, everything else is scored in the end (352 k states) |
| `rescore` | **violation**: a rescore during a scoring leaves the old score (finding 2) |
| `proxy` | what is marked as sent is on its way, data follows its settings, and the ranking catches up: 1 score, 2 settings, a save or a regenerate, 1 fault (668 k states) |
| `proxy_calls` | what is marked as sent is on its way, with 2 scores and a thread for each, 2 settings, and 1 call of any kind, without faults (1.3 M states) |
| `proxy_hidden` | **violation**: older settings can replace newer ones in the ranking (finding 5) |
| `proxy_lost` | **violation**: a lost notification of a second score is never made up for (finding 3) |
| `watchdog` | budgets, one action in flight, evidence of the process itself, no restart soon after an outage, starts only of what is down, and a program that hangs alone is replaced: 2 programs, 3 faults (786 k states) |

**Bounds.** Pool: two dispatches of one operation, on two workers, are what a stale
answer needs: the first group is taken back, the second is running when the first
answer comes. Two operations in a batch (`checks_live`) tell a part that is ignored from
the rest. One unhandled connection handler per worker (`MaxGreetings`) is enough for a
handler that runs after the connection is gone. `EvaluationService`: a compilation and one
testcase are enough for what comes next after a compilation and for an invalidation of
both levels; seven dispatches are more than one invalidation and one fault need, so
`EventuallyJudged` holds without an excuse for the bound. What a
tombstone leaves running needs a second testcase: with `Ops = {c, t1, t2}` TLC finds the same
properties to hold (2.5 M states up to symmetry for an invalidation and three dispatches, 14 k
for liveness without an invalidation), and safety is proved for any number. Queue: six items are three
levels of a heap, the least in which the entry that `remove` moves has to go up; any of
them may be pushed without a timestamp, with a clock that is behind the last default one. `Results`: three testcases allow a group with a screening
testcase, one it screens and one of another subtask; `MaxTries` is 2, so that a failure may or may
not be the last; `faults` has the cases that two small subtasks do not reach (a chain of
three against the numbering, each score type, a compilation error, crossed gates).
`ProxyService`: threads that read and queue step by step are many states, so `proxy` has the
faults and the liveness with one score, which a sweep, a reset and a restart can lose as well as
two, and `proxy_calls` an old and a new score without faults. `MayLose = {1}` leaves out finding
3; `MaxFaults = 1` leaves out finding 4, which needs a refusal and a failed build.
A `lost` or `dataset` call is in no liveness run; what it leaves behind is in `proxy_calls`, and
in the theorem `RankingRestsInStep`. `Watchdog`: a program that may be restarted and one that is only
watched, windows and budgets of one to three cycles, so that each can run out and
be free again; nine other programs answer, so that one failure is no global one; two
processes per program; three faults allow an outage, a crash of the watchdog and a hang in one
behaviour. Only the EvaluationService is ever signalled there, so that the pool's budget coincides
with the program's, and two of the holds have nothing to hold; the theorems are about any programs.
Symmetry is used only where no liveness is checked.

**Deadlock** is checked in the pool, checks and proxy runs. The ES, queue and result
models stop when everything is done or at their bounds, the watchdog when a bound
on its processes is reached.

**Fairness.** `PeriodicChecks`: time passes, the repeater calls the check when it can
(`async_repeater` does, in a loop that survives exceptions), and the check's `enqueue()` calls
return. Nothing is assumed of workers, connections, builds or administrators.
`EvaluationService`: the loop's callbacks and coroutines go on, the section that holds
the lock and those that wait for it, the sweeper (every two minutes) and the flush; and
a job group ends one way or another, which is what `checks_live` shows. A worker's answer is
not assumed to be a good one. `Results`: sections, scoring and both sweepers go on.
Writing a batch in which every job succeeded or met the tombstone is strongly fair: a writer waits for
`post_finish_lock`, which is free again and again, and faults are bounded.
`ProxyService`: the executor, the end of a wait, the threads that have begun and the
sweeper go on; an administrator need not call anything. `Watchdog`: time, the loop of the
watchdog, its action, and `supervisord` go on; the database and the disk come back.

### Findings

Findings 2, 3 and 5 have a run. Findings 1 and 4 are one constant away from a passing run, and the
theorems they would refute have their absence as a hypothesis. Finding 6 can be read off two actions.

1. *The lock and the pop.* "This lock is used to avoid inserting in the queue [...]
   an operation which is already being processed" (`ES:385`). Between the executor's pop
   and `_currently_executing` the operation is in no place that `enqueue()` consults, and
   the lock is not held: sections run on other threads. With `RaceWindow = TRUE` in `es_judged`
   TLC finds `ProcessedOnce` violated in six states.
2. *A rescore during a scoring.* `invalidate_submission` should "Invalidate (and re-score)
   some submission results" (`SS:284`). It skips a result without a score, looked at without
   the lock; `_score_sync` has loaded the old parameters by then, and commits their score.
3. *The lost notification.* "a failed notification is dropped, since ProxyService's sweeper
   sends the score anyway" (`SS:83`). The sweeper skips submissions in
   `scores_sent_to_rankings`, and nothing takes one out when it is scored again.
4. *A refusal during a regenerate that fails.* Refused scores "are taken out of the sets of
   what was sent" (`PS:1135`), and a database error "undoes what the build did" to them
   (`PS:1881`). The undo keeps what was in the copy made before the build, so it keeps a
   submission that was taken out by a refusal and marked again by the build. With `MaxFaults = 2` in
   `proxy` TLC finds `SentIsOnItsWay` violated in thirteen states.
5. *Older settings behind newer ones.* Settings are sent "before any data, so a hidden
   namespace never exposes data, even briefly" (`PS:392`). A sweep, a reinitialize or a
   regenerate reads the settings (`PS:1518`) and queues them later; a save and its own
   reinitialize may come in between, and the last in the queue is sent (`PS:691`). The ranking
   shows the data under the old settings until the next sweep (`proxy_hidden`). That it ends with
   the latest is `RankingCatchesUp`.
6. *The useless call.* "This should actually be useless." (`cms/grading/Job.py:395`), of the
   `invalidate_compilation()` before the outcome of a compilation is stored. After a tombstone
   it removes evaluations that `WriteTombstone` left on the blank row, or that were stored on it
   later (`WriteEvaluations`), before `WriteCompilation` comes.

Two more disagreements were met and have no run. "The bound is still finite, so a wedged
executor does not hold a worker for ever" (`workerpool.py:679`): the check that enforces
the bound awaits `enqueue()` on that executor, so `NoGroupHeldForever` needs the
fairness of `RequeueDone`. "The methods enqueuing operations already check that the operation
is not in state 5" (`ES:397`): `check_workers_connection` enqueues what
`check_connections` gives back without a look in the database; the cost is a redundant
execution.

## 4. The proofs

`WorkerPoolProofs` proves, for every set of workers and operations and every bound,
from `PoolAssumption` alone (`NoShard` is not a worker, the bounds are natural
numbers):

* `PoolInvariant`: `Spec => []IInv`;
* from it `PoolTypeCorrect`, `PoolBookkeeping`, `PoolHeldHasTask`,
  `PoolReverseInSync`, `PoolNoLostWakeup`, `PoolTakenOrLost`, `PoolAdminDisableWins`;
* `PoolSupersededNeverTaken`, an action property, from the invariant and the fact
  that only `ActionFinished` takes results.

`IInv` is the conjunction of those invariants and of four facts they need:

* `FreshIds`: ids not handed out yet have left no trace. Without it a new group could
  inherit a `taken` or `lost` entry.
* `RunningTasks`: a coroutine that runs knows its shard.
* `MarksOK`: only a disabled worker carries the mark of a timeout, and never one that
  the administrator disabled. `AdminDisableWins` is not inductive without it:
  `on_worker_connected` looks at the mark alone.
* `LiveIsNewest`: an operation that is not ignored was not handed out again. It carries
  `SupersededNeverTaken`.

The argument is one lemma per action. What answers, timeouts, lost connections and
the administrator share is in `ReleasedInv` (a release keeps the bookkeeping) and
`GivenBackInv` (giving a held group back keeps taken and lost apart, because
`HeldHasTask` says that nothing of it was taken or lost before).

Its second part proves `PoolImplementsTable`: `Spec => Table!TableSpec` under
the mapping held = the ids in `_current_dispatch`, ignored = the ignored operations of
the worker that holds the group, holder = the group of the worker that the reverse
lookup finds. `HeldInverse` (a group is held by one worker) makes the mapping a
function; then one lemma per kind of step (`AcquireHands`, `IgnoreIgnores`,
`ReleasedEnds`, `LiveGivenBack`, `WholeGivenBack`, `AnswerEnds`, `InternalStep`).

`PeriodicChecksProofs` carries these results over to the pool with its checks:
`ChecksRunThePool` (`CheckedSpec => Spec`: a check calls the pool, or leaves it alone),
and from it `ChecksImplementTable`.

`EvaluationServiceProofs` proves, for any number of testcases, invalidations, dispatches
and faults, `TypeCorrect`, `MarksPredictTheLoop` (`PendingPredictsLoop`),
`NothingStaleIsStored` (`NoStaleRow`), `OperationsAreProcessedOnce` (`ProcessedOnce`) and
`ContractIsKept` (`KeepsPoolContract`), all under the hypothesis `~RaceWindow`: with the
window open `ProcessedOnce` is false (finding 1). The hypothesis says that no section acts
between a pop and `_currently_executing`; it restricts nothing else. The argument is about
order. An invalidation hands its dequeues to the loop and goes on; it may commit and push
the operations again while copies that it has doomed are still on their way. The loop runs
callbacks in the order they came, so the first step of a coroutine that was spawned
after a dequeue was handed over runs behind that dequeue. The invariant therefore speaks of
positions in `ready`: what a push still to act brings to the queue before the next dequeue
(`Coming`), which copies are doomed and by which callback, and that the mark of an operation
is that of the last callback on it. `ContractIsKept` is what `WorkerPool` assumes of its
caller as `MayHand`. Of a write only its effect is needed (`WriteStep`): each row is as it
was, blank, or has the result of the batch, which is as fresh as the last invalidation.

`SubtaskGatesProofs` is about the pure functions of `SubtaskGates`, for every dataset and
all evaluations. Their loops over the subtasks are recursive functions; `RunExists` (a
loop over positions can be run to its end) and the least-number principle stand in for
induction over data, by sets and without operators. On them rest:

* `AcceptedIsInOrder`: what `parse_dependencies` accepts is put in order, every subtask once
  and behind those it depends on (by counting: an order as long as the subtasks, without
  repetition, has them all).
* `StatusesAre`, `ZeroedAre`, `ScoresAre`: `statuses`, `zeroed_by` and `compute_score` give
  each subtask what follows from the subtasks it depends on. From there on the order is
  not needed; `DependencyInduction` goes from those to the subtask.
* `Worthless`, in the specification of full grading, is the least set closed under
  "scores 0, or depends on one in it". What has passed is outside (`PassedIsWorth`, on any
  dataset); on an aligned one what has failed is inside (`FailedIsWorthless`), because a skip
  counted as 0 has a cause that full grading has too: a screening testcase that
  fails, which alignment puts in the same subtask, or a worthless dependency.
* `ScoresAreFull`: the score with skips is that of full grading. `NothingIsLeft`: when the gates
  release nothing, each subtask is settled once the screening has skipped what it can, so
  the dependencies skip the rest.

`ResultsProofs` proves, for every dataset of `Cases` and any number of faults, tries
and revisions, `TypeCorrect`, `OutcomesAreComplete`, `ScoresAreOfTheirRow`,
`SkipsHaveACause`, `GatesAreKept` (`GatesHold`), `SkippingKeepsTheScore`
(`ScoreIsThatOfFullGrading`), `GatesDoNotHoldEachOther` (`GatesNeverHoldEachOther`) and
`GivenUpStaysGivenUp` (only a tombstone sends the compilation of a given-up result to the
workers again). `ResultsAssumption` asks of a dataset that it has finitely many
testcases, natural numbers for outcomes, one of the three score types, and that each subtask
of `GroupMin` or `GroupMul` has a testcase: `compute_score` raises on one that has none.
Nothing is assumed of the dependencies, which
`AcceptsDependencies` checks. The invariant says who
may change what a score is computed of: an invalidation holds the lock of the row from
its flush to its commit, the scorer from its read to its commit (`SessionOK`,
`LockedIsOfThisRow`); writers that take no lock only fill evaluations that are missing
(`Fills`), and a row being scored misses none. `SkipsOK` keeps the cause of a skip through
invalidations: a screening testcase is itself never skipped by the screening, so that the
one that failed was run; and the cause of a dependency skip is stated of full grading, not of
the row, so that it stays when the evaluation that showed it is invalidated. For that reason
no exception is needed for results of which single testcases were run again.
`NothingIsHeld` follows the steps of `submission_enqueue_operations` when there is nothing to
enqueue: the scorer may blank or write a score between them, and changes nothing they rely on.

`AsyncPriorityQueueProofs` proves, for any number of items, that the heap is an ordered
queue: `LookupIsExact`, `EventIsExact` and the refinement `HeapIsOrderedQueue`. The loops of
`_up_heap` and `_down_heap` are recursive functions that iterate one round
(`UpRound`, `DownRound`). Of a round it is proved that it keeps a set of heaps that describes
the loop's invariant (in order except around one position), that it comes nearer to the end
of the heap, and that a heap of that set which it leaves alone is in order. The first section
turns such facts into facts about the whole loop, by induction in the form of the
least-number principle (from the library's `NatLessThanWellFounded` and `WFMin`, which
take sets and no operators).

`ProxyServiceProofs` proves `DataFollowsItsSettings` (`VisibilityBeforeData`) for any number
of groups, submissions, threads, calls and faults: data does not reach the ranking before the
settings that were queued ahead of it or, if a thread queued others behind it, the oldest of
these. (That older ones are never queued behind it is false: finding 5.) A setting is in the queue,
in the round or in the ranking, the later ones in force once the earlier ones are sent. The
invariant says of data in the queue and in the round that the settings it goes by are among those
sent before it (`Ordered`), that no settings anywhere are newer than those of the database
(`NotAhead`), and that neither are those in the hands of a thread (`SeenOK`).

The second part of the module is about the scores. `SentStaysOnItsWay` (`SentIsOnItsWay`) holds
under two hypotheses, each the absence of what a finding is about. `MayLose \subseteq {1}`: no
notification is lost but that of a first score (finding 3). And there is no regenerate
that fails, or no round that ends with a refusal of a copied submission during the build of a
regenerate (`RefusedDuringBuild`): finding 4 needs both, and either alone does no
harm, however many regenerates, refusals, restarts and other faults there are. The inductive
invariant `MarkedInv` says where the latest score of a marked submission is. Outside a regenerate
of its group: the last word of ranking, round and queue, or with a thread, or about to be taken out
of the marks (`Accounted`). Between the read of a regenerate and its queueing, the reset that comes
wipes all that, and what counts is what it read, or that the record of the regenerate names the
submission by the time it ends (`ReadOrNoted`). After that, until the record is used, either
will do. `CopyInv`, needed only for a regenerate that fails, says that what was copied before the
build is still marked and accounted for. The lemmas under it are one per request and per
queueing: what it does to the last word on a submission (`...Word`).

`NothingAheadOfDatabase` needs no hypothesis: no score in the queue, the round, the ranking or a
thread, and no settings in the ranking, are newer than the database's. Together with the
two invariants it gives `RankingRestsInStep`, the safety half of `RankingCatchesUp`: in a state in
which nothing is queued, no thread is at work and the sweeper would find nothing to send, the
ranking shows the settings and scores of the database, except what the histories excuse. What
is left to TLC is that such a state is reached.

The invariants were checked with TLC before they were proved. The proof showed that an
earlier form of the model was too small: with one thread of `submission_scored` at a time
`overtaken` excused nothing, since the second notification always came after the older score was
queued.

`WatchdogProofs` proves, for every set of programs and every budget, window and grace,
`TypeCorrect`, `BudgetsAreKept`, `ActionIsAlone`, `TermsAreDeserved`,
`RestartsWaitForGreen` and `StartsAreOfTheFatal`. The budgets count bookings; the invariant
relates three sets of them (`LedgerOK`): what really reached a program, what the ledger in
memory has, and what its file has. Memory is within the budgets, both memory and file remember
what was done (or keep the budgets exhausted for as long as it counts), and the file knows
of no booking that memory does not; so a crash, which replaces memory by the file, keeps
the budgets. An action past `_book` has its booking on disk (`TaskOK`). `TermsAreDeserved`
needs that the misses in a window are those of the process the window names
(`OwnEvidence`), and that pids only grow; `RestartsWaitForGreen` that an outage not over for long
is open in the ledger or known to the green streak, or that the watchdog itself is not up for
longer (`OutageOK`).

**Only model-checked.** Liveness (`NoGroupHeldForever`, `EventuallyJudged`,
`EventuallyScored`, `RankingCatchesUp`, `HungIsReplaced`), which needs fairness and
ENABLED; of `RankingCatchesUp` the safety half is proved. Every other property
of the passing runs is a theorem. That
`topological_order` leaves out no subtask unless there is a cycle is not stated: a dataset
whose order falls short is refused.

## 5. Not modelled, and the plan

* **User tests**: the same methods on other tables, without gates and without a score.
  `archive_sandbox` twins of operations, several datasets of a task, and the reports
  (`workers_status`, `queue_status`) are left out of ES.
* **Worker** and its `work_lock` (`Results` has only its failure on a tombstone): a decline is an answer with an error, which the pool's model
  allows at any time. Whether a worker runs two groups at once is one guard on one lock.
* **The ranking web server**: its stores are tables behind HTTP; `ProxyService` has the answers
  that ProxyService tells apart (taken, failed, refused).
* **cmsCleanFiles** beyond the tombstones it sets: file and database I/O.
* **ProxyService**: tokens (the path of scores with another key), archived groups, contests whose
  data cannot be built, several rankings (each has its executor), and the time a
  submission is without a score between its invalidation and the next one.
* **Watchdog**: alerts, incidents and reports, evidence, wall-clock jumps, the probes'
  protocols. Of the rules' lengths of time only their order is kept.
* **The outside of a judging**: task types, sandbox, languages, `FileCacher`, `ResourceService`,
  `LogService`, the web servers, loaders and tools. They are I/O, formatting, database forms and
  calls of other programs, without a protocol of their own that a model would say more about
  than the code. They are most of the repository, which is why the models stand for a
  small share of its lines: nearly all of the pool, the EvaluationService, the
  ProxyService's queueing and the watchdog's policy, little of the rest.
* Timeouts have no length, except in the watchdog, where they are counted in cycles.

What could come next: the threads of tokens beside those of scores, and a worker with its
`work_lock`, to see a declined group at the line where it is declined.
