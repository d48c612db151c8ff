-------------------------- MODULE WorkerPoolProofs --------------------------
(***************************************************************************)
(* The WorkerPool's safety invariants, and that it implements the          *)
(* DispatchTable, for every set of shards and of operations and for every  *)
(* bound.                                                                  *)
(***************************************************************************)
EXTENDS WorkerPool, TLAPS

\* Ids not handed out yet have left no trace.
FreshIds ==
    \A d \in Ids : d > lastId =>
        phase[d] = "none" /\ taken[d] = {} /\ lost[d] = {} /\ group[d] = {}

\* A coroutine that runs knows its shard.
RunningTasks ==
    \A d \in Ids : phase[d] \notin {"none", "done"} => shardOf[d] \in Shards

\* Only a disabled worker is marked, and not if the administrator did it.
MarksOK ==
    \A s \in Shards : byTimeout[s] => status[s] = "disabled" /\ s \notin adminOff

\* An operation that is not ignored was not handed out again.
LiveIsNewest ==
    \A s \in Shards : \A o \in Live(s) :
        \A e \in Ids : e > dispatch[s] => o \notin group[e]

IInv ==
    /\ TypeOK
    /\ BookkeepingOK
    /\ ReverseInSync
    /\ NoLostWakeup
    /\ TakenOrLost
    /\ AdminDisableWins
    /\ HeldHasTask
    /\ FreshIds
    /\ RunningTasks
    /\ MarksOK
    /\ LiveIsNewest

USE DEF PoolAssumption, Ids, NoId
USE PoolAssumption

\* The pool as add_worker leaves it satisfies the invariant.
LEMMA InitInv == Init => IInv
<1> SUFFICES ASSUME Init PROVE IInv
    OBVIOUS
<1>1. TypeOK
  <2>1. /\ status \in [Shards -> Statuses] /\ operations \in [Shards -> SUBSET Ops]
        /\ toIgnore \in [Shards -> SUBSET Ops] /\ clock \in [Shards -> Clocks]
        /\ dispatch \in [Shards -> Ids \cup {NoId}]
        /\ greetings \in [Shards -> 0..MaxGreetings]
        /\ lastId \in 0..MaxDispatch
    BY DEF Init, Statuses, Clocks
  <2>2. /\ byTimeout \in [Shards -> BOOLEAN] /\ ok \in [Ids -> BOOLEAN]
    BY Zenon DEF Init
  <2>3. /\ shardOf \in [Ids -> Shards \cup {NoShard}]
        /\ reverse \in [Ops -> Shards \cup {NoShard}]
        /\ group \in [Ids -> SUBSET Ops] /\ phase \in [Ids -> Phases]
        /\ taken \in [Ids -> SUBSET Ops] /\ lost \in [Ids -> SUBSET Ops]
    BY DEF Init, Phases
  <2>4. connected \in SUBSET Shards /\ adminOff \subseteq Shards
        /\ available \in BOOLEAN /\ setComing \in BOOLEAN
    BY DEF Init
  <2> QED
    BY <2>1, <2>2, <2>3, <2>4 DEF TypeOK
<1>2. BookkeepingOK /\ ReverseInSync /\ NoLostWakeup
  BY DEF Init, BookkeepingOK, ReverseInSync, NoLostWakeup, Busy, Live, Candidates
<1>3. TakenOrLost /\ AdminDisableWins /\ HeldHasTask
  BY DEF Init, TakenOrLost, AdminDisableWins, HeldHasTask
<1>4. FreshIds /\ RunningTasks /\ MarksOK /\ LiveIsNewest
  BY DEF Init, FreshIds, RunningTasks, MarksOK, LiveIsNewest, Live
<1> QED
  BY <1>1, <1>2, <1>3, <1>4 DEF IInv

\* acquire_worker: the new id is fresh, and the copies it supersedes are
\* ignored ones.
LEMMA AcquireWorkerInv ==
  ASSUME IInv, NEW s \in Shards, NEW os \in SUBSET {o \in Ops : MayHand(o)},
         AcquireWorker(s, os)
  PROVE  IInv'
<1> USE DEF IInv, AcquireWorker
<1>1. /\ s \in connected /\ status[s] = "inactive" /\ available
      /\ operations[s] = {} /\ toIgnore[s] = {} /\ dispatch[s] = NoId
      /\ lastId + 1 \in Ids /\ os \in SUBSET Ops
  BY DEF Candidates, BookkeepingOK, Busy, TypeOK
<1>2. TypeOK'
  BY <1>1 DEF TypeOK, Statuses, Clocks, Phases, eventVars, netVars, histVars
<1>3. BookkeepingOK'
  BY <1>1 DEF TypeOK, BookkeepingOK, Busy
<1>4. ReverseInSync'
  <2>1. ASSUME NEW o \in Ops, reverse'[o] # NoShard
        PROVE  o \in operations'[reverse'[o]]
    BY <1>1, <2>1 DEF TypeOK, ReverseInSync
  <2>2. ASSUME NEW t \in Shards, NEW o \in Live(t)'
        PROVE  reverse'[o] = t
    <3>1. CASE t = s
      BY <1>1, <2>2, <3>1 DEF TypeOK, Live
    <3>2. CASE t # s
      <4>1. o \in Ops /\ o \in Live(t) /\ reverse[o] = t
        BY <1>1, <2>2, <3>2 DEF TypeOK, Live, ReverseInSync
      <4>2. o \notin os
        BY <1>1, <4>1 DEF TypeOK, Live, MayHand
      <4> QED
        BY <4>1, <4>2 DEF TypeOK
    <3> QED
      BY <3>1, <3>2
  <2> QED
    BY <2>1, <2>2 DEF ReverseInSync
<1>5. NoLostWakeup'
  BY <1>1 DEF TypeOK, NoLostWakeup, Candidates, eventVars, netVars
<1>6. TakenOrLost'
  BY DEF TakenOrLost, histVars
<1>7. AdminDisableWins' /\ MarksOK'
  BY <1>1 DEF TypeOK, AdminDisableWins, MarksOK, histVars
<1>8. HeldHasTask'
  BY <1>1 DEF TypeOK, HeldHasTask, FreshIds, histVars
<1>9. FreshIds' /\ RunningTasks'
  BY <1>1 DEF TypeOK, FreshIds, RunningTasks, histVars
<1>10. LiveIsNewest'
  <2> SUFFICES ASSUME NEW t \in Shards, NEW o \in Live(t)', NEW e \in Ids,
                      e > dispatch'[t]
               PROVE  o \notin group'[e]
    BY DEF LiveIsNewest
  <2>1. CASE t = s
    BY <1>1, <2>1 DEF TypeOK, FreshIds
  <2>2. CASE t # s
    <3>1. o \in Ops /\ o \in Live(t) /\ reverse[o] = t
      BY <1>1, <2>2 DEF TypeOK, Live, ReverseInSync
    <3>2. o \notin os
      BY <1>1, <3>1 DEF TypeOK, Live, MayHand
    <3> QED
      BY <1>1, <2>2, <3>1, <3>2 DEF TypeOK, LiveIsNewest
  <2> QED
    BY <2>1, <2>2
<1> QED
  BY <1>2, <1>3, <1>4, <1>5, <1>6, <1>7, <1>8, <1>9, <1>10

(***************************************************************************)
(* The steps of a coroutine, and a clock that it starts.                   *)
(***************************************************************************)
LEMMA StartClockInv ==
  ASSUME IInv, NEW d \in Ids, NEW c \in Clocks \ {"off"}, shardOf[d] \in Shards,
         StartClock(d, c), UNCHANGED <<status, operations, toIgnore, dispatch>>
  PROVE  clock' \in [Shards -> Clocks] /\ BookkeepingOK'
<1> USE DEF IInv, TypeOK, BookkeepingOK, Busy, StartClock
<1>1. CASE dispatch[shardOf[d]] = d
  BY <1>1
<1>2. CASE dispatch[shardOf[d]] # d
  BY <1>2
<1> QED
  BY <1>1, <1>2

\* The steps of _build_and_dispatch before action_finished only move a clock
\* that runs.
LEMMA TaskStepInv ==
  ASSUME IInv, NEW d \in Ids,
         \/ BuildFails(d) \/ Dispatch(d) \/ MarkAnswered(d)
         \/ \E good \in BOOLEAN : WorkerAnswers(d, good)
  PROVE  IInv'
<1>1. /\ phase[d] \notin {"none", "done"} /\ shardOf[d] \in Shards
      /\ UNCHANGED <<status, operations, toIgnore, dispatch, byTimeout, reverse,
                     lastId, eventVars, netVars, shardOf, group, histVars>>
  BY DEF IInv, RunningTasks, BuildFails, Dispatch, MarkAnswered, WorkerAnswers,
         workerVars
<1>2. \E p \in Phases \ {"none", "done"} : phase' = [phase EXCEPT ![d] = p]
  BY DEF Phases, BuildFails, Dispatch, MarkAnswered, WorkerAnswers
<1>3. clock' \in [Shards -> Clocks] /\ BookkeepingOK'
  <2>1. ASSUME NEW c \in Clocks \ {"off"}, StartClock(d, c)
        PROVE  clock' \in [Shards -> Clocks] /\ BookkeepingOK'
    BY <1>1, <2>1, StartClockInv
  <2>2. ASSUME UNCHANGED clock
        PROVE  clock' \in [Shards -> Clocks] /\ BookkeepingOK'
    BY <1>1, <2>2 DEF IInv, TypeOK, BookkeepingOK, Busy
  <2>3. \/ UNCHANGED clock
        \/ \E c \in Clocks \ {"off"} : StartClock(d, c)
    BY DEF BuildFails, Dispatch, MarkAnswered, WorkerAnswers, workerVars, Clocks
  <2> QED
    BY <2>1, <2>2, <2>3
<1>4. ok' \in [Ids -> BOOLEAN]
  BY DEF IInv, TypeOK, BuildFails, Dispatch, MarkAnswered, WorkerAnswers
<1>5. TypeOK'
  BY <1>1, <1>2, <1>3, <1>4 DEF IInv, TypeOK, eventVars, netVars, histVars
<1>6. ReverseInSync' /\ NoLostWakeup' /\ LiveIsNewest'
  BY <1>1 DEF IInv, ReverseInSync, NoLostWakeup, LiveIsNewest, Live, Candidates,
              eventVars, netVars
<1>7. TakenOrLost' /\ AdminDisableWins' /\ MarksOK'
  BY <1>1 DEF IInv, TakenOrLost, AdminDisableWins, MarksOK, histVars
<1>8. HeldHasTask' /\ RunningTasks'
  BY <1>1, <1>2 DEF IInv, TypeOK, HeldHasTask, RunningTasks, histVars
<1>9. FreshIds'
  BY <1>1, <1>2 DEF IInv, TypeOK, FreshIds, histVars
<1> QED
  BY <1>3, <1>5, <1>6, <1>7, <1>8, <1>9 DEF IInv

(***************************************************************************)
(* The steps that leave the workers' lists alone.                          *)
(***************************************************************************)
LEMMA EventStepInv ==
  ASSUME IInv, AcquireFails \/ SetWorkersAvailable
  PROVE  IInv'
<1>1. UNCHANGED <<workerVars, netVars, taskVars, histVars>>
  BY DEF AcquireFails, SetWorkersAvailable
<1>2. TypeOK'
  BY <1>1 DEF IInv, TypeOK, AcquireFails, SetWorkersAvailable, workerVars,
              netVars, taskVars, histVars
<1>3. NoLostWakeup'
  BY <1>1 DEF IInv, NoLostWakeup, Candidates, AcquireFails, SetWorkersAvailable,
              workerVars, netVars
<1>4. BookkeepingOK' /\ ReverseInSync' /\ LiveIsNewest'
  BY <1>1 DEF IInv, BookkeepingOK, ReverseInSync, LiveIsNewest, Busy, Live,
              workerVars, taskVars
<1>5. TakenOrLost' /\ AdminDisableWins' /\ MarksOK'
  BY <1>1 DEF IInv, TakenOrLost, AdminDisableWins, MarksOK, workerVars, histVars
<1>6. HeldHasTask' /\ RunningTasks' /\ FreshIds'
  BY <1>1 DEF IInv, HeldHasTask, RunningTasks, FreshIds, workerVars, taskVars,
              histVars
<1> QED
  BY <1>2, <1>3, <1>4, <1>5, <1>6 DEF IInv

\* A new connection brings its on_worker_connected with it.
LEMMA ConnectInv ==
  ASSUME IInv, NEW s \in Shards, Connect(s)
  PROVE  IInv'
<1>1. UNCHANGED <<workerVars, eventVars, taskVars, histVars>>
  BY DEF Connect
<1>2. TypeOK'
  BY DEF IInv, TypeOK, Connect, workerVars, eventVars, taskVars, histVars
<1>3. NoLostWakeup'
  BY DEF IInv, TypeOK, NoLostWakeup, Candidates, Connect, workerVars, eventVars
<1>4. BookkeepingOK' /\ ReverseInSync' /\ LiveIsNewest'
  BY <1>1 DEF IInv, BookkeepingOK, ReverseInSync, LiveIsNewest, Busy, Live,
              workerVars, taskVars
<1>5. TakenOrLost' /\ AdminDisableWins' /\ MarksOK'
  BY <1>1 DEF IInv, TakenOrLost, AdminDisableWins, MarksOK, workerVars, histVars
<1>6. HeldHasTask' /\ RunningTasks' /\ FreshIds'
  BY <1>1 DEF IInv, HeldHasTask, RunningTasks, FreshIds, workerVars, taskVars,
              histVars
<1> QED
  BY <1>2, <1>3, <1>4, <1>5, <1>6 DEF IInv

\* A lost connection resolves calls and takes a candidate away.
LEMMA DisconnectInv ==
  ASSUME IInv, NEW s \in Shards, Disconnect(s)
  PROVE  IInv'
<1>1. UNCHANGED <<workerVars, eventVars, greetings, shardOf, group, histVars>>
  BY DEF Disconnect
<1>2. /\ phase' \in [Ids -> Phases]
      /\ \A d \in Ids : \/ phase'[d] = phase[d]
                        \/ phase[d] = "sent" /\ phase'[d] = "resolved"
  BY DEF IInv, TypeOK, Disconnect, Phases
<1>3. TypeOK'
  BY <1>2 DEF IInv, TypeOK, Disconnect, workerVars, eventVars, histVars
<1>4. NoLostWakeup'
  BY DEF IInv, NoLostWakeup, Candidates, Disconnect, workerVars, eventVars
<1>5. BookkeepingOK' /\ ReverseInSync' /\ LiveIsNewest'
  BY <1>1 DEF IInv, BookkeepingOK, ReverseInSync, LiveIsNewest, Busy, Live,
              workerVars
<1>6. TakenOrLost' /\ AdminDisableWins' /\ MarksOK'
  BY <1>1 DEF IInv, TakenOrLost, AdminDisableWins, MarksOK, workerVars, histVars
<1>7. HeldHasTask'
  BY <1>1, <1>2 DEF IInv, TypeOK, HeldHasTask, workerVars, histVars
<1>8. RunningTasks'
  BY <1>1, <1>2 DEF IInv, RunningTasks
<1>9. FreshIds'
  BY <1>1, <1>2 DEF IInv, FreshIds, workerVars, histVars
<1> QED
  BY <1>3, <1>4, <1>5, <1>6, <1>7, <1>8, <1>9 DEF IInv

\* ignore_operation only grows the ignored part of a busy worker's list.
LEMMA IgnoreOperationInv ==
  ASSUME IInv, NEW o \in Ops, IgnoreOperation(o)
  PROVE  IInv'
<1>1. UNCHANGED <<status, operations, dispatch, clock, byTimeout, reverse,
                  lastId, eventVars, netVars, taskVars, histVars>>
  BY DEF IgnoreOperation
<1>2. /\ reverse[o] \in Shards /\ o \in operations[reverse[o]]
      /\ toIgnore' = [toIgnore EXCEPT ![reverse[o]] = @ \cup {o}]
  BY DEF IInv, TypeOK, ReverseInSync, IgnoreOperation
<1>3. TypeOK'
  BY <1>1, <1>2 DEF IInv, TypeOK, eventVars, netVars, taskVars, histVars
<1>4. BookkeepingOK'
  BY <1>1, <1>2 DEF IInv, TypeOK, BookkeepingOK, Busy
<1>5. \A s \in Shards : Live(s)' \subseteq Live(s)
  BY <1>1, <1>2 DEF IInv, TypeOK, Live
<1>6. ReverseInSync' /\ LiveIsNewest'
  BY <1>1, <1>5 DEF IInv, ReverseInSync, LiveIsNewest, taskVars
<1>7. NoLostWakeup'
  BY <1>1 DEF IInv, NoLostWakeup, Candidates, eventVars, netVars
<1>8. TakenOrLost' /\ AdminDisableWins' /\ MarksOK'
  BY <1>1 DEF IInv, TakenOrLost, AdminDisableWins, MarksOK, histVars
<1>9. HeldHasTask' /\ RunningTasks' /\ FreshIds'
  BY <1>1 DEF IInv, HeldHasTask, RunningTasks, FreshIds, taskVars, histVars
<1> QED
  BY <1>3, <1>4, <1>6, <1>7, <1>8, <1>9 DEF IInv

(***************************************************************************)
(* A disabled worker is enabled, by the administrator or as it reconnects. *)
(***************************************************************************)
LEMMA EnabledInv ==
  ASSUME IInv, NEW s \in Shards, status[s] = "disabled", Enabled(s),
         UNCHANGED <<operations, dispatch, clock, reverse, lastId, connected,
                     taskVars, taken, lost>>,
         setComing' = TRUE, available' = available,
         adminOff' \subseteq adminOff \ {s},
         greetings' \in [Shards -> 0..MaxGreetings]
  PROVE  IInv'
<1>1. operations[s] = {} /\ toIgnore[s] = {} /\ toIgnore' = toIgnore
  BY DEF IInv, TypeOK, BookkeepingOK, Busy, Enabled
<1>2. TypeOK'
  BY <1>1 DEF IInv, TypeOK, Enabled, Statuses, taskVars
<1>3. BookkeepingOK'
  BY <1>1 DEF IInv, TypeOK, BookkeepingOK, Busy, Enabled
<1>4. ReverseInSync' /\ LiveIsNewest'
  BY <1>1 DEF IInv, ReverseInSync, LiveIsNewest, Live, taskVars
<1>5. NoLostWakeup'
  BY DEF NoLostWakeup
<1>6. AdminDisableWins' /\ MarksOK'
  BY DEF IInv, TypeOK, AdminDisableWins, MarksOK, Enabled
<1>7. TakenOrLost'
  BY DEF IInv, TakenOrLost
<1>8. HeldHasTask' /\ RunningTasks' /\ FreshIds'
  BY DEF IInv, HeldHasTask, RunningTasks, FreshIds, taskVars
<1> QED
  BY <1>2, <1>3, <1>4, <1>5, <1>6, <1>7, <1>8 DEF IInv

\* enable_worker, by the administrator.
LEMMA EnableWorkerInv ==
  ASSUME IInv, NEW s \in Shards, EnableWorker(s)
  PROVE  IInv'
<1>1. greetings' \in [Shards -> 0..MaxGreetings]
  BY DEF IInv, TypeOK, EnableWorker, netVars
<1> QED
  BY <1>1, EnabledInv DEF EnableWorker, netVars

\* on_worker_connected: a marked worker is not the administrator's.
LEMMA OnWorkerConnectedInv ==
  ASSUME IInv, NEW s \in Shards, OnWorkerConnected(s)
  PROVE  IInv'
<1>1. greetings' \in [Shards -> 0..MaxGreetings] /\ setComing' = TRUE
  BY DEF IInv, TypeOK, OnWorkerConnected
<1>2. CASE status[s] = "disabled" /\ byTimeout[s]
  <2>1. s \notin adminOff
    BY <1>2 DEF IInv, MarksOK
  <2> QED
    BY <1>1, <1>2, <2>1, EnabledInv DEF OnWorkerConnected, histVars
<1>3. CASE ~(status[s] = "disabled" /\ byTimeout[s])
  <2>1. UNCHANGED <<workerVars, available, connected, taskVars, histVars>>
    BY <1>3 DEF OnWorkerConnected, workerVars
  <2>2. TypeOK'
    BY <1>1, <2>1 DEF IInv, TypeOK, workerVars, taskVars, histVars
  <2>3. NoLostWakeup'
    BY <1>1 DEF NoLostWakeup
  <2>4. BookkeepingOK' /\ ReverseInSync' /\ LiveIsNewest'
    BY <2>1 DEF IInv, BookkeepingOK, ReverseInSync, LiveIsNewest, Busy, Live,
                workerVars, taskVars
  <2>5. TakenOrLost' /\ AdminDisableWins' /\ MarksOK'
    BY <2>1 DEF IInv, TakenOrLost, AdminDisableWins, MarksOK, workerVars, histVars
  <2>6. HeldHasTask' /\ RunningTasks' /\ FreshIds'
    BY <2>1 DEF IInv, HeldHasTask, RunningTasks, FreshIds, workerVars, taskVars,
                histVars
  <2> QED
    BY <2>2, <2>3, <2>4, <2>5, <2>6 DEF IInv
<1> QED
  BY <1>2, <1>3

(***************************************************************************)
(* release_worker: what it leaves of the shards in S, and of the others.   *)
(***************************************************************************)
LEMMA ReleasedInv ==
  ASSUME IInv, NEW S \in SUBSET Shards, \A s \in S : Busy(s),
         NEW st \in {"inactive", "disabled"}, Released(S, st),
         UNCHANGED <<connected, greetings, group>>
  PROVE  /\ status' \in [Shards -> Statuses]
         /\ operations' \in [Shards -> SUBSET Ops]
         /\ toIgnore' \in [Shards -> SUBSET Ops]
         /\ dispatch' \in [Shards -> Ids \cup {NoId}]
         /\ clock' \in [Shards -> Clocks]
         /\ reverse' \in [Ops -> Shards \cup {NoShard}]
         /\ available' \in BOOLEAN /\ setComing' \in BOOLEAN
         /\ BookkeepingOK' /\ ReverseInSync' /\ NoLostWakeup' /\ LiveIsNewest'
<1>1. /\ status' \in [Shards -> Statuses]
      /\ operations' \in [Shards -> SUBSET Ops]
      /\ toIgnore' \in [Shards -> SUBSET Ops]
      /\ dispatch' \in [Shards -> Ids \cup {NoId}]
      /\ clock' \in [Shards -> Clocks]
  BY DEF IInv, TypeOK, Released, Statuses, Clocks
<1>2. reverse' \in [Ops -> Shards \cup {NoShard}]
  BY DEF IInv, TypeOK, Released, Unlisted
<1>3. available' \in BOOLEAN /\ setComing' \in BOOLEAN
  BY DEF IInv, TypeOK, Released
<1>4. BookkeepingOK'
  BY DEF IInv, TypeOK, BookkeepingOK, Busy, Released
<1>5. ReverseInSync'
  <2>1. ASSUME NEW o \in Ops, reverse'[o] # NoShard
        PROVE  o \in operations'[reverse'[o]]
    BY <2>1 DEF IInv, TypeOK, ReverseInSync, Released, Unlisted
  <2>2. ASSUME NEW t \in Shards, NEW o \in Live(t)'
        PROVE  reverse'[o] = t
    <3>1. t \notin S /\ o \in Live(t) /\ o \in Ops
      BY <2>2 DEF IInv, TypeOK, Live, Released
    <3>2. reverse[o] = t
      BY <3>1 DEF IInv, ReverseInSync
    <3> QED
      BY <3>1, <3>2 DEF Released, Unlisted
  <2> QED
    BY <2>1, <2>2 DEF ReverseInSync
<1>6. NoLostWakeup'
  BY DEF IInv, TypeOK, NoLostWakeup, Candidates, Released
<1>7. LiveIsNewest'
  <2>1. \A t \in Shards : \A o \in Live(t)' :
            o \in Live(t) /\ dispatch'[t] = dispatch[t]
    BY DEF IInv, TypeOK, Live, Released
  <2> QED
    BY <2>1 DEF IInv, LiveIsNewest
<1> QED
  BY <1>1, <1>2, <1>3, <1>4, <1>5, <1>6, <1>7

(***************************************************************************)
(* A release that gives operations back.  No two shards have the same id   *)
(* (HeldHasTask: shardOf is the inverse of dispatch), so what is given     *)
(* back is recorded for the groups of S and for no other.                  *)
(***************************************************************************)
LEMMA GivenBackInv ==
  ASSUME IInv, NEW S \in SUBSET Shards, \A s \in S : Busy(s),
         NEW st \in {"inactive", "disabled"}, Released(S, st),
         NEW what \in [Shards -> SUBSET Ops], lost' = GivenBack(S, what),
         UNCHANGED <<lastId, netVars, taskVars, taken>>,
         byTimeout' \in [Shards -> BOOLEAN], adminOff' \subseteq Shards,
         AdminDisableWins', MarksOK'
  PROVE  IInv'
<1>1. \A d \in Ids :
         \/ lost'[d] = lost[d]
         \/ \E s \in S : dispatch[s] = d /\ shardOf[d] = s /\ lost'[d] = what[s]
  BY DEF IInv, TypeOK, HeldHasTask, GivenBack
<1>2. lost' \in [Ids -> SUBSET Ops]
  <2>1. ASSUME NEW d \in Ids PROVE lost'[d] \in SUBSET Ops
    <3>1. CASE lost'[d] = lost[d]
      BY <3>1 DEF IInv, TypeOK
    <3>2. CASE lost'[d] # lost[d]
      <4>1. PICK s \in S : lost'[d] = what[s]
        BY <1>1, <3>2
      <4> QED
        BY <4>1
    <3> QED
      BY <3>1, <3>2
  <2> QED
    BY <2>1 DEF GivenBack
<1>3. TypeOK'
  <2>1. /\ status' \in [Shards -> Statuses]
        /\ operations' \in [Shards -> SUBSET Ops]
        /\ toIgnore' \in [Shards -> SUBSET Ops]
        /\ dispatch' \in [Shards -> Ids \cup {NoId}]
        /\ clock' \in [Shards -> Clocks]
        /\ reverse' \in [Ops -> Shards \cup {NoShard}]
        /\ available' \in BOOLEAN /\ setComing' \in BOOLEAN
    BY ReleasedInv DEF netVars, taskVars
  <2> QED
    BY <1>2, <2>1 DEF IInv, TypeOK, netVars, taskVars
<1>4. BookkeepingOK' /\ ReverseInSync' /\ NoLostWakeup' /\ LiveIsNewest'
  BY ReleasedInv DEF netVars, taskVars
<1>5. TakenOrLost'
  <2> SUFFICES ASSUME NEW d \in Ids PROVE taken[d] \cap lost'[d] = {}
    BY DEF TakenOrLost
  <2>1. CASE lost'[d] = lost[d]
    BY <2>1 DEF IInv, TakenOrLost
  <2>2. CASE lost'[d] # lost[d]
    <3>1. PICK s \in S : dispatch[s] = d
      BY <1>1, <2>2
    <3>2. taken[d] = {}
      BY <3>1 DEF IInv, HeldHasTask
    <3> QED
      BY <3>2
  <2> QED
    BY <2>1, <2>2
<1>6. HeldHasTask'
  <2> SUFFICES ASSUME NEW t \in Shards, dispatch'[t] # NoId
               PROVE  HeldHasTask!(t)'
    BY DEF HeldHasTask
  <2>1. /\ t \notin S /\ dispatch'[t] = dispatch[t] /\ dispatch[t] \in Ids
        /\ operations'[t] = operations[t]
    BY DEF IInv, TypeOK, Released
  <2>2. shardOf[dispatch[t]] = t
    BY <2>1 DEF IInv, HeldHasTask
  <2>3. lost'[dispatch[t]] = lost[dispatch[t]]
    BY <1>1, <2>1, <2>2
  <2> QED
    BY <2>1, <2>3 DEF IInv, HeldHasTask, taskVars
<1>7. RunningTasks'
  BY DEF IInv, RunningTasks, taskVars
<1>8. FreshIds'
  <2>1. ASSUME NEW d \in Ids, d > lastId PROVE lost'[d] = lost[d]
    <3>1. ASSUME NEW s \in Shards, dispatch[s] = d PROVE FALSE
      <4>1. dispatch[s] # NoId => dispatch[s] <= lastId
        BY DEF IInv, HeldHasTask
      <4>2. lastId \in Int
        BY DEF IInv, TypeOK
      <4> QED
        BY <2>1, <3>1, <4>1, <4>2
    <3> QED
      BY <1>1, <3>1
  <2> QED
    BY <2>1 DEF IInv, FreshIds, taskVars
<1> QED
  BY <1>3, <1>4, <1>5, <1>6, <1>7, <1>8 DEF IInv

\* check_timeouts gives back what is not ignored.
LEMMA CheckTimeoutsInv ==
  ASSUME IInv, NEW L \in SUBSET Shards, CheckTimeouts(L)
  PROVE  IInv'
<1>1. \A s \in L : Busy(s)
  BY DEF IInv, BookkeepingOK, CheckTimeouts, Clocked
<1>2. [s \in Shards |-> Live(s)] \in [Shards -> SUBSET Ops]
  BY DEF IInv, TypeOK, Live
<1>3. byTimeout' \in [Shards -> BOOLEAN] /\ adminOff' \subseteq Shards
  BY DEF IInv, TypeOK, CheckTimeouts
<1>4. \A s \in L : s \notin adminOff
  BY <1>1 DEF IInv, AdminDisableWins, Busy
<1>5. AdminDisableWins' /\ MarksOK'
  BY <1>4 DEF IInv, TypeOK, AdminDisableWins, MarksOK, CheckTimeouts, Released
<1> QED
  BY <1>1, <1>2, <1>3, <1>5, GivenBackInv DEF CheckTimeouts

\* check_connections gives back the whole list.
LEMMA CheckConnectionsInv ==
  ASSUME IInv, CheckConnections
  PROVE  IInv'
<1>1. GoneShards \in SUBSET Shards /\ \A s \in GoneShards : Busy(s)
  BY DEF GoneShards
<1>2. operations \in [Shards -> SUBSET Ops]
  BY DEF IInv, TypeOK
<1>3. byTimeout' \in [Shards -> BOOLEAN] /\ adminOff' \subseteq Shards
  BY DEF IInv, TypeOK, CheckConnections
<1>4. AdminDisableWins' /\ MarksOK'
  BY <1>1 DEF IInv, TypeOK, AdminDisableWins, MarksOK, Busy, CheckConnections,
              Released
<1> QED
  BY <1>1, <1>2, <1>3, <1>4, GivenBackInv DEF CheckConnections

\* disable_worker, of an idle and of a busy worker.
LEMMA DisableWorkerInv ==
  ASSUME IInv, NEW s \in Shards, DisableWorker(s)
  PROVE  IInv'
<1>1. byTimeout' \in [Shards -> BOOLEAN] /\ adminOff' \subseteq Shards
  BY DEF IInv, TypeOK, DisableWorker
<1>2. CASE Busy(s)
  <2>1. /\ Released({s}, "disabled")
        /\ lost' = GivenBack({s}, [t \in Shards |-> Live(t)])
        /\ UNCHANGED <<lastId, netVars, taskVars, taken>>
    BY <1>2 DEF DisableWorker, Busy
  <2>2. [t \in Shards |-> Live(t)] \in [Shards -> SUBSET Ops]
    BY DEF IInv, TypeOK, Live
  <2>3. AdminDisableWins' /\ MarksOK'
    BY <2>1 DEF IInv, TypeOK, AdminDisableWins, MarksOK, DisableWorker, Released
  <2> QED
    BY <1>1, <1>2, <2>1, <2>2, <2>3, GivenBackInv
<1>3. CASE ~Busy(s)
  <2>1. /\ status' = [status EXCEPT ![s] = "disabled"]
        /\ UNCHANGED <<operations, toIgnore, dispatch, clock, reverse, eventVars,
                       lost, lastId, netVars, taskVars, taken>>
    BY <1>3 DEF IInv, TypeOK, DisableWorker, Busy
  <2>2. TypeOK'
    BY <1>1, <2>1 DEF IInv, TypeOK, Statuses, eventVars, netVars, taskVars
  <2>3. BookkeepingOK'
    BY <1>3, <2>1 DEF IInv, TypeOK, BookkeepingOK, Busy
  <2>4. ReverseInSync' /\ LiveIsNewest'
    BY <2>1 DEF IInv, ReverseInSync, LiveIsNewest, Live, taskVars
  <2>5. NoLostWakeup'
    BY <2>1 DEF IInv, TypeOK, NoLostWakeup, Candidates, eventVars, netVars
  <2>6. AdminDisableWins' /\ MarksOK'
    BY <2>1 DEF IInv, TypeOK, AdminDisableWins, MarksOK, DisableWorker
  <2>7. TakenOrLost'
    BY <2>1 DEF IInv, TakenOrLost
  <2>8. HeldHasTask' /\ RunningTasks' /\ FreshIds'
    BY <2>1 DEF IInv, HeldHasTask, RunningTasks, FreshIds, taskVars
  <2> QED
    BY <2>2, <2>3, <2>4, <2>5, <2>6, <2>7, <2>8 DEF IInv
<1> QED
  BY <1>2, <1>3

(***************************************************************************)
(* An answer: that of a group its shard no longer works on changes nothing *)
(* but its coroutine; any other one releases the shard and takes results.  *)
(***************************************************************************)
LEMMA ActionFinishedInv ==
  ASSUME IInv, NEW d \in Ids, ActionFinished(d)
  PROVE  IInv'
<1>1. /\ phase[d] = "reporting" /\ shardOf[d] \in Shards
      /\ phase'   = [phase EXCEPT ![d] = "done"]
      /\ shardOf' = [shardOf EXCEPT ![d] = NoShard]
      /\ UNCHANGED <<byTimeout, lastId, netVars, group, lost, adminOff>>
  BY DEF IInv, RunningTasks, ActionFinished
<1>2. shardOf' \in [Ids -> Shards \cup {NoShard}] /\ phase' \in [Ids -> Phases]
  BY <1>1 DEF IInv, TypeOK, Phases
<1>3. ok' \in [Ids -> BOOLEAN]
  BY DEF IInv, TypeOK, ActionFinished
<1>4. RunningTasks'
  BY <1>1 DEF IInv, TypeOK, RunningTasks
<1>5. CASE Stale(d)
  <2>1. UNCHANGED <<status, operations, toIgnore, dispatch, clock, reverse,
                    eventVars, taken>>
    BY <1>5 DEF ActionFinished
  <2>2. TypeOK'
    BY <1>1, <1>2, <1>3, <2>1 DEF IInv, TypeOK, eventVars, netVars
  <2>3. BookkeepingOK' /\ ReverseInSync' /\ LiveIsNewest'
    BY <1>1, <2>1 DEF IInv, BookkeepingOK, ReverseInSync, LiveIsNewest, Busy, Live
  <2>4. NoLostWakeup'
    BY <1>1, <2>1 DEF IInv, NoLostWakeup, Candidates, eventVars, netVars
  <2>5. TakenOrLost' /\ AdminDisableWins' /\ MarksOK'
    BY <1>1, <2>1 DEF IInv, TakenOrLost, AdminDisableWins, MarksOK
  <2>6. HeldHasTask'
    <3>1. ASSUME NEW t \in Shards, dispatch[t] = d PROVE FALSE
      <4>1. dispatch[t] # NoId => shardOf[dispatch[t]] = t
        BY DEF IInv, HeldHasTask
      <4> QED
        BY <1>5, <3>1, <4>1 DEF Stale
    <3> QED
      BY <1>1, <2>1, <3>1 DEF IInv, TypeOK, HeldHasTask
  <2>7. FreshIds'
    BY <1>1, <2>1 DEF IInv, TypeOK, FreshIds
  <2> QED
    BY <1>4, <2>2, <2>3, <2>4, <2>5, <2>6, <2>7 DEF IInv
<1>6. CASE ~Stale(d)
  <2> DEFINE s == shardOf[d]
  <2>1. /\ dispatch[s] = d /\ Busy(s) /\ d <= lastId
        /\ taken[d] = {} /\ lost[d] = {}
    BY <1>1, <1>6 DEF IInv, BookkeepingOK, HeldHasTask, Stale
  <2>2. Released({s}, "inactive")
    BY <1>6 DEF ActionFinished
  <2>3. /\ taken' \in [Ids -> SUBSET Ops]
        /\ \A e \in Ids \ {d} : taken'[e] = taken[e]
    BY <1>6 DEF IInv, TypeOK, ActionFinished
  <2>4. /\ status' \in [Shards -> Statuses]
        /\ operations' \in [Shards -> SUBSET Ops]
        /\ toIgnore' \in [Shards -> SUBSET Ops]
        /\ dispatch' \in [Shards -> Ids \cup {NoId}]
        /\ clock' \in [Shards -> Clocks]
        /\ reverse' \in [Ops -> Shards \cup {NoShard}]
        /\ available' \in BOOLEAN /\ setComing' \in BOOLEAN
        /\ BookkeepingOK' /\ ReverseInSync' /\ NoLostWakeup' /\ LiveIsNewest'
    BY <1>1, <2>1, <2>2, ReleasedInv DEF netVars
  <2>5. TypeOK'
    BY <1>1, <1>2, <1>3, <2>3, <2>4 DEF IInv, TypeOK, netVars
  <2>6. AdminDisableWins' /\ MarksOK'
    BY <1>1, <2>1, <2>2 DEF IInv, TypeOK, AdminDisableWins, MarksOK, Busy, Released
  <2>7. TakenOrLost'
    BY <1>1, <2>1, <2>3 DEF IInv, TakenOrLost
  <2>8. HeldHasTask'
    <3> SUFFICES ASSUME NEW t \in Shards, dispatch'[t] # NoId
                 PROVE  HeldHasTask!(t)'
      BY DEF HeldHasTask
    <3>1. /\ t # s /\ dispatch'[t] = dispatch[t] /\ dispatch[t] \in Ids
          /\ operations'[t] = operations[t]
      BY <2>2 DEF IInv, TypeOK, Released
    <3>2. dispatch[t] # d
      BY <2>1, <3>1 DEF IInv, HeldHasTask
    <3> QED
      BY <1>1, <2>3, <3>1, <3>2 DEF IInv, TypeOK, HeldHasTask
  <2>9. FreshIds'
    BY <1>1, <2>1, <2>3 DEF IInv, TypeOK, FreshIds
  <2> QED
    BY <1>4, <2>4, <2>5, <2>6, <2>7, <2>8, <2>9 DEF IInv
<1> QED
  BY <1>5, <1>6

\* Every step of the pool preserves the invariant.
LEMMA NextInv == IInv /\ [Next]_vars => IInv'
<1> SUFFICES ASSUME IInv, [Next]_vars PROVE IInv'
    OBVIOUS
<1>1. CASE UNCHANGED vars
  <2>1. UNCHANGED <<workerVars, eventVars, netVars, taskVars, histVars>>
    BY <1>1 DEF vars
  <2>2. TypeOK'
    BY <2>1 DEF IInv, TypeOK, workerVars, eventVars, netVars, taskVars, histVars
  <2>3. BookkeepingOK' /\ ReverseInSync' /\ LiveIsNewest' /\ NoLostWakeup'
    BY <2>1 DEF IInv, BookkeepingOK, ReverseInSync, LiveIsNewest, NoLostWakeup,
                Busy, Live, Candidates, workerVars, eventVars, netVars, taskVars
  <2>4. TakenOrLost' /\ AdminDisableWins' /\ MarksOK'
    BY <2>1 DEF IInv, TakenOrLost, AdminDisableWins, MarksOK, workerVars, histVars
  <2>5. HeldHasTask' /\ RunningTasks' /\ FreshIds'
    BY <2>1 DEF IInv, HeldHasTask, RunningTasks, FreshIds, workerVars, taskVars,
                histVars
  <2> QED
    BY <2>2, <2>3, <2>4, <2>5 DEF IInv
<1>2. CASE PoolStep
  <2>1. ASSUME NEW s \in Shards, NEW os \in SUBSET {o \in Ops : MayHand(o)},
               AcquireWorker(s, os)
        PROVE  IInv'
    BY <2>1, AcquireWorkerInv
  <2>2. ASSUME AcquireFails \/ SetWorkersAvailable PROVE IInv'
    BY <2>2, EventStepInv
  <2>3. ASSUME NEW d \in Ids,
               \/ BuildFails(d) \/ Dispatch(d) \/ MarkAnswered(d)
               \/ \E good \in BOOLEAN : WorkerAnswers(d, good)
        PROVE  IInv'
    BY <2>3, TaskStepInv
  <2>4. ASSUME NEW d \in Ids, ActionFinished(d) PROVE IInv'
    BY <2>4, ActionFinishedInv
  <2>5. ASSUME NEW o \in Ops, IgnoreOperation(o) PROVE IInv'
    BY <2>5, IgnoreOperationInv
  <2>6. ASSUME NEW s \in Shards, DisableWorker(s) \/ EnableWorker(s) PROVE IInv'
    BY <2>6, DisableWorkerInv, EnableWorkerInv
  <2>7. ASSUME NEW s \in Shards,
               Connect(s) \/ Disconnect(s) \/ OnWorkerConnected(s)
        PROVE  IInv'
    BY <2>7, ConnectInv, DisconnectInv, OnWorkerConnectedInv
  <2> QED
    BY <1>2, <2>1, <2>2, <2>3, <2>4, <2>5, <2>6, <2>7 DEF PoolStep
<1>3. CASE \E L \in SUBSET Shards : CheckTimeouts(L)
  BY <1>3, CheckTimeoutsInv
<1>4. CASE CheckConnections
  BY <1>4, CheckConnectionsInv
<1> QED
  BY <1>1, <1>2, <1>3, <1>4 DEF Next
-----------------------------------------------------------------------------
(***************************************************************************)
(* IInv holds in every state the pool can reach.                           *)
(***************************************************************************)
THEOREM PoolInvariant == Spec => []IInv
  BY InitInv, NextInv, PTL DEF Spec

(***************************************************************************)
(* Every variable of the pool keeps its type: no method leaves a worker    *)
(* with a status, a list, a clock or an id it cannot have.                 *)
(***************************************************************************)
THEOREM PoolTypeCorrect == Spec => []TypeOK
<1>1. IInv => TypeOK
  BY DEF IInv
<1> QED
  BY <1>1, PoolInvariant, PTL

(***************************************************************************)
(* "assert is_busy" of check_timeouts and the "Trying to release worker    *)
(* while it's inactive" of release_worker never fire.                      *)
(***************************************************************************)
THEOREM PoolBookkeeping == Spec => []BookkeepingOK
<1>1. IInv => BookkeepingOK
  BY DEF IInv
<1> QED
  BY <1>1, PoolInvariant, PTL

(***************************************************************************)
(* Every job group a worker holds has a coroutine of its own that will     *)
(* release it, and nobody has had its operations yet.                      *)
(***************************************************************************)
THEOREM PoolHeldHasTask == Spec => []HeldHasTask
<1>1. IInv => HeldHasTask
  BY DEF IInv
<1> QED
  BY <1>1, PoolInvariant, PTL

(***************************************************************************)
(* _operations_reverse and the workers' lists never part.                  *)
(***************************************************************************)
THEOREM PoolReverseInSync == Spec => []ReverseInSync
<1>1. IInv => ReverseInSync
  BY DEF IInv
<1> QED
  BY <1>1, PoolInvariant, PTL

(***************************************************************************)
(* The executor never sleeps over an idle, connected worker.               *)
(***************************************************************************)
THEOREM PoolNoLostWakeup == Spec => []NoLostWakeup
<1>1. IInv => NoLostWakeup
  BY DEF IInv
<1> QED
  BY <1>1, PoolInvariant, PTL

(***************************************************************************)
(* No operation of a job group is both stored and executed again.          *)
(***************************************************************************)
THEOREM PoolTakenOrLost == Spec => []TakenOrLost
<1>1. IInv => TakenOrLost
  BY DEF IInv
<1> QED
  BY <1>1, PoolInvariant, PTL

(***************************************************************************)
(* A worker that the administrator disabled stays disabled.                *)
(***************************************************************************)
THEOREM PoolAdminDisableWins == Spec => []AdminDisableWins
<1>1. IInv => AdminDisableWins
  BY DEF IInv
<1> QED
  BY <1>1, PoolInvariant, PTL
-----------------------------------------------------------------------------
\* Every step but an answer leaves taken as it is.
LEMMA OnlyAnswersTake ==
  ASSUME [Next]_vars, \A d \in Ids : ~ActionFinished(d)
  PROVE  UNCHANGED taken
<1>1. CASE UNCHANGED vars
  BY <1>1 DEF vars, histVars
<1>2. CASE PoolStep
  <2>1. ASSUME NEW s \in Shards, NEW os \in SUBSET Ops, AcquireWorker(s, os)
        PROVE  UNCHANGED taken
    BY <2>1 DEF AcquireWorker, histVars
  <2>2. ASSUME AcquireFails \/ SetWorkersAvailable PROVE UNCHANGED taken
    BY <2>2 DEF AcquireFails, SetWorkersAvailable, histVars
  <2>3. ASSUME NEW d \in Ids,
               \/ BuildFails(d) \/ Dispatch(d) \/ MarkAnswered(d)
               \/ \E good \in BOOLEAN : WorkerAnswers(d, good)
        PROVE  UNCHANGED taken
    BY <2>3 DEF BuildFails, Dispatch, MarkAnswered, WorkerAnswers, histVars
  <2>4. ASSUME NEW o \in Ops, IgnoreOperation(o) PROVE UNCHANGED taken
    BY <2>4 DEF IgnoreOperation, histVars
  <2>5. ASSUME NEW s \in Shards,
               \/ DisableWorker(s) \/ EnableWorker(s)
               \/ Connect(s) \/ Disconnect(s) \/ OnWorkerConnected(s)
        PROVE  UNCHANGED taken
    BY <2>5 DEF DisableWorker, EnableWorker, Connect, Disconnect,
                OnWorkerConnected, histVars
  <2> QED
    BY <1>2, <2>1, <2>2, <2>3, <2>4, <2>5 DEF PoolStep
<1>3. CASE \E L \in SUBSET Shards : CheckTimeouts(L)
  BY <1>3 DEF CheckTimeouts
<1>4. CASE CheckConnections
  BY <1>4 DEF CheckConnections
<1> QED
  BY <1>1, <1>2, <1>3, <1>4 DEF Next

(***************************************************************************)
(* A result is never taken from a job group whose operation was handed out *)
(* again since: of all the answers, only that of the last id counts.       *)
(***************************************************************************)
THEOREM PoolSupersededNeverTaken == Spec => SupersededNeverTaken
<1> DEFINE Newest == \A d \in Ids : \A o \in taken'[d] \ taken[d] :
                        \A e \in (d + 1)..lastId : o \notin group[e]
<1>1. ASSUME IInv, [Next]_vars PROVE [Newest]_vars
  <2>1. CASE \A d \in Ids : ~ActionFinished(d)
    BY <1>1, <2>1, OnlyAnswersTake
  <2>2. ASSUME NEW f \in Ids, ActionFinished(f) PROVE Newest
    <3> SUFFICES ASSUME NEW d \in Ids, NEW o \in taken'[d] \ taken[d],
                        NEW e \in (d + 1)..lastId
                 PROVE  o \notin group[e]
      OBVIOUS
    <3>1. /\ d = f /\ ~Stale(d) /\ shardOf[d] \in Shards
          /\ o \in group[d] \ toIgnore[shardOf[d]]
      BY <1>1, <2>2 DEF IInv, TypeOK, RunningTasks, ActionFinished
    <3>2. dispatch[shardOf[d]] = d /\ o \in Live(shardOf[d])
      BY <1>1, <3>1 DEF IInv, HeldHasTask, Stale, Live
    <3>3. e \in Ids /\ e > d
      BY <1>1 DEF IInv, TypeOK
    <3> QED
      BY <1>1, <3>1, <3>2, <3>3 DEF IInv, LiveIsNewest
  <2> QED
    BY <2>1, <2>2
<1> QED
  BY <1>1, PoolInvariant, PTL DEF Spec, SupersededNeverTaken

-----------------------------------------------------------------------------
(* The WorkerPool implements the DispatchTable *)

\* What the variables ignored and holder of the table stand for.
Ignored == [d \in Ids |-> IF d \in Held THEN toIgnore[shardOf[d]] ELSE {}]
Holder  == [o \in Ops |-> IF reverse[o] = NoShard
                          THEN NoId ELSE dispatch[reverse[o]]]

\* dispatch and shardOf are inverse to each other on the groups held.
LEMMA HeldInverse ==
  ASSUME IInv
  PROVE  /\ \A d \in Held : /\ d \in Ids /\ shardOf[d] \in Shards
                            /\ dispatch[shardOf[d]] = d
         /\ \A s \in Shards : dispatch[s] # NoId =>
                dispatch[s] \in Held /\ shardOf[dispatch[s]] = s
<1>1. ASSUME NEW d \in Held
      PROVE  d \in Ids /\ shardOf[d] \in Shards /\ dispatch[shardOf[d]] = d
  <2>1. PICK s \in Shards : dispatch[s] = d /\ d # NoId
    BY DEF Held
  <2> QED
    BY <2>1 DEF IInv, TypeOK, HeldHasTask
<1>2. ASSUME NEW s \in Shards, dispatch[s] # NoId
      PROVE  dispatch[s] \in Held /\ shardOf[dispatch[s]] = s
  BY <1>2 DEF IInv, HeldHasTask, Held
<1> QED
  BY <1>1, <1>2

\* acquire_worker hands out the group.
LEMMA AcquireHands ==
  ASSUME IInv, NEW s \in Shards, NEW os \in SUBSET {o \in Ops : MayHand(o)},
         AcquireWorker(s, os)
  PROVE  Table!TableNext
<1> DEFINE n == lastId + 1
<1>1. /\ n \in Ids /\ os # {} /\ os \in SUBSET Ops /\ dispatch[s] = NoId
      /\ toIgnore[s] = {} /\ n \notin Held
  <2>1. n \notin Held
    <3> SUFFICES ASSUME n \in Held PROVE FALSE
      OBVIOUS
    <3>1. shardOf[n] \in Shards /\ dispatch[shardOf[n]] = n /\ n # NoId
      BY HeldInverse
    <3>2. n <= lastId
      BY <3>1 DEF IInv, HeldHasTask
    <3> QED
      BY <3>2 DEF IInv, TypeOK
  <2> QED
    BY <2>1 DEF IInv, BookkeepingOK, Busy, AcquireWorker, Candidates
<1>2. /\ dispatch' = [dispatch EXCEPT ![s] = n]
      /\ shardOf' = [shardOf EXCEPT ![n] = s]
      /\ UNCHANGED toIgnore
  BY DEF AcquireWorker
<1>3. Held' = Held \cup {n}
  BY <1>1, <1>2 DEF IInv, TypeOK, Held
<1>4. Ignored' = Ignored
  <2>1. \A d \in Held : d # n /\ shardOf'[d] = shardOf[d]
    BY <1>1, <1>2, HeldInverse DEF IInv, TypeOK
  <2>2. shardOf'[n] = s
    BY <1>1, <1>2 DEF IInv, TypeOK
  <2>3. ASSUME NEW d \in Ids PROVE Ignored'[d] = Ignored[d]
    <3>1. CASE d = n
      BY <1>1, <1>2, <1>3, <2>2, <3>1 DEF Ignored
    <3>2. CASE d \in Held
      BY <1>2, <1>3, <2>1, <3>2 DEF Ignored
    <3>3. CASE d # n /\ d \notin Held
      BY <1>3, <3>3 DEF Ignored
    <3> QED
      BY <3>1, <3>2, <3>3
  <2> QED
    BY <2>3 DEF Ignored
<1>5. Holder' = [o \in Ops |-> IF o \in os THEN n ELSE Holder[o]]
  <2>1. \A o \in Ops : reverse[o] # s
    BY <1>1 DEF IInv, BookkeepingOK, Busy, ReverseInSync
  <2>2. reverse' = [o \in Ops |-> IF o \in os THEN s ELSE reverse[o]]
    BY DEF AcquireWorker
  <2> QED
    BY <1>1, <1>2, <2>1, <2>2 DEF IInv, TypeOK, Holder
<1>6. \A o \in os : Table!MayHand(o)
  <2> SUFFICES ASSUME NEW o \in os, reverse[o] # NoShard
               PROVE  o \in Ignored[dispatch[reverse[o]]]
    BY <1>1 DEF Table!MayHand, Table!NoId, Ignored, Holder, Table!Ids
  <2>1. o \in Ops /\ o \in toIgnore[reverse[o]] /\ reverse[o] \in Shards
    BY DEF MayHand, IInv, TypeOK
  <2>2. dispatch[reverse[o]] # NoId
    BY <2>1 DEF IInv, BookkeepingOK
  <2> QED
    BY <2>1, <2>2, HeldInverse DEF Ignored
<1>7. Table!Hand(os)
  BY <1>1, <1>3, <1>4, <1>5 DEF Table!Hand, Table!Ids, Ignored, Holder,
                                AcquireWorker, histVars
<1> QED
  BY <1>1, <1>6, <1>7 DEF Table!TableNext

\* ignore_operation tells the group that the reverse lookup finds.
LEMMA IgnoreIgnores ==
  ASSUME IInv, NEW o \in Ops, IgnoreOperation(o)
  PROVE  Table!IgnoreOp(o)
<1> DEFINE s == reverse[o]
           d == dispatch[s]
<1>1. /\ s \in Shards /\ d # NoId /\ s # NoShard
      /\ toIgnore' = [toIgnore EXCEPT ![s] = @ \cup {o}]
      /\ UNCHANGED <<dispatch, reverse, lastId, taskVars, histVars>>
  BY DEF IInv, TypeOK, ReverseInSync, BookkeepingOK, IgnoreOperation
<1>2. d \in Ids /\ d \in Held /\ shardOf[d] = s
  BY <1>1, HeldInverse
<1>3. Held' = Held /\ Holder' = Holder
  BY <1>1 DEF Held, Holder
<1>4. Ignored' = [Ignored EXCEPT ![d] = @ \cup {o}]
  <2>1. ASSUME NEW e \in Held, e # d PROVE shardOf[e] \in Shards \ {s}
    BY <1>2, <2>1, HeldInverse
  <2>2. ASSUME NEW e \in Ids
        PROVE  Ignored'[e] = IF e = d THEN Ignored[e] \cup {o} ELSE Ignored[e]
    <3>1. CASE e = d
      BY <1>1, <1>2, <1>3, <3>1 DEF IInv, TypeOK, Ignored, taskVars
    <3>2. CASE e # d
      BY <1>1, <1>2, <1>3, <2>1, <3>2 DEF IInv, TypeOK, Ignored, taskVars
    <3> QED
      BY <3>1, <3>2
  <2> QED
    BY <2>2 DEF Ignored
<1> QED
  BY <1>1, <1>2, <1>3, <1>4 DEF Table!IgnoreOp, Table!NoId, Table!Ids, Ignored,
                                Holder, taskVars, histVars

(***************************************************************************)
(* release_worker ends the groups of the shards in S.                      *)
(***************************************************************************)
GroupsOf(S) == {dispatch[s] : s \in S}

\* release_worker ends exactly the groups of the shards it releases.
LEMMA ReleasedEnds ==
  ASSUME IInv, NEW S \in SUBSET Shards, \A s \in S : Busy(s), NEW st,
         Released(S, st), UNCHANGED <<group, lastId>>, NEW D, D = GroupsOf(S),
         \A d \in Held \ D : shardOf'[d] = shardOf[d]
  PROVE  D \subseteq Held /\ Table!EndOf(D)
<1>1. ASSUME NEW s \in S
      PROVE  dispatch[s] \in Held /\ shardOf[dispatch[s]] = s
  <2>1. dispatch[s] # NoId
    BY DEF IInv, BookkeepingOK
  <2> QED
    BY <2>1, HeldInverse
<1>2. ASSUME NEW d \in Held, shardOf[d] \in S PROVE d \in D
  BY <1>2, HeldInverse DEF GroupsOf
<1>3. D \subseteq Held
  BY <1>1 DEF GroupsOf
<1>4. dispatch' = [s \in Shards |-> IF s \in S THEN NoId ELSE dispatch[s]]
  BY DEF Released
<1>5. Held' = Held \ D
  <2>1. ASSUME NEW d \in Held' PROVE d \in Held \ D
    <3>1. PICK t \in Shards : dispatch'[t] = d /\ d # NoId
      BY DEF Held
    <3>2. t \notin S /\ dispatch[t] = d
      BY <1>4, <3>1
    <3>3. d \in Held /\ shardOf[d] = t
      BY <3>1, <3>2, HeldInverse
    <3>4. d \notin D
      BY <1>1, <3>2, <3>3 DEF GroupsOf
    <3> QED
      BY <3>3, <3>4
  <2>2. ASSUME NEW d \in Held \ D PROVE d \in Held'
    <3>1. shardOf[d] \in Shards \ S /\ dispatch[shardOf[d]] = d /\ d # NoId
      BY <1>2, HeldInverse
    <3> QED
      BY <1>4, <3>1 DEF Held
  <2> QED
    BY <2>1, <2>2
<1>6. Ignored' = [d \in Ids |-> IF d \in D THEN {} ELSE Ignored[d]]
  <2>1. ASSUME NEW d \in Ids
        PROVE  Ignored'[d] = IF d \in D THEN {} ELSE Ignored[d]
    <3>1. CASE d \in Held \ D
      <4>1. shardOf'[d] = shardOf[d] /\ shardOf[d] \in Shards \ S
        BY <1>2, <3>1, HeldInverse
      <4>2. toIgnore'[shardOf[d]] = toIgnore[shardOf[d]]
        BY <4>1 DEF Released
      <4> QED
        BY <1>5, <3>1, <4>1, <4>2 DEF Ignored
    <3>2. CASE d \notin Held \ D
      BY <1>5, <3>2 DEF Ignored
    <3> QED
      BY <3>1, <3>2
  <2> QED
    BY <2>1 DEF Ignored
<1>7. Holder' = [o \in Ops |-> IF Holder[o] \in D
                               THEN NoId ELSE Holder[o]]
  <2>1. ASSUME NEW o \in Ops
        PROVE  Holder'[o] = IF Holder[o] \in D THEN NoId ELSE Holder[o]
    <3>1. CASE reverse[o] = NoShard
      <4>1. reverse'[o] = NoShard
        BY <3>1 DEF Released, Unlisted
      <4> QED
        BY <3>1, <4>1 DEF Holder
    <3>2. CASE reverse[o] \in S
      <4>1. reverse'[o] = NoShard /\ reverse[o] # NoShard
        BY <3>2 DEF IInv, ReverseInSync, Released, Unlisted
      <4> QED
        BY <3>2, <4>1 DEF Holder, GroupsOf
    <3>3. CASE reverse[o] \in Shards \ S
      <4>1. reverse'[o] = reverse[o] /\ reverse[o] # NoShard
        BY <3>3 DEF Released, Unlisted
      <4>2. dispatch'[reverse[o]] = dispatch[reverse[o]]
        BY <1>4, <3>3
      <4>3. dispatch[reverse[o]] \notin D
        <5>1. dispatch[reverse[o]] # NoId
          BY <3>3, <4>1 DEF IInv, ReverseInSync, BookkeepingOK
        <5>2. shardOf[dispatch[reverse[o]]] = reverse[o]
          BY <3>3, <5>1, HeldInverse
        <5> QED
          BY <1>1, <3>3, <5>2 DEF GroupsOf
      <4> QED
        BY <4>1, <4>2, <4>3 DEF Holder
    <3> QED
      BY <3>1, <3>2, <3>3 DEF IInv, TypeOK
  <2> QED
    BY <2>1 DEF Holder
<1> QED
  BY <1>3, <1>5, <1>6, <1>7 DEF Table!EndOf, Table!Ids, Table!NoId, Ignored,
                                Holder

\* A group that is given back, as check_timeouts and disable_worker do it.
LEMMA LiveGivenBack ==
  ASSUME IInv, NEW S \in SUBSET Shards, S # {}, \A s \in S : Busy(s), NEW st,
         Released(S, st), lost' = GivenBack(S, [s \in Shards |-> Live(s)]),
         UNCHANGED <<lastId, taskVars, taken>>, NEW D, D = GroupsOf(S)
  PROVE  Table!LoseLive(D)
<1>1. D \subseteq Held /\ Table!EndOf(D)
  BY ReleasedEnds DEF taskVars
<1>2. lost' = [d \in Ids |-> IF d \in D
                             THEN group[d] \ Ignored[d] ELSE lost[d]]
  <2>1. ASSUME NEW d \in Ids
        PROVE  lost'[d] = IF d \in D
                          THEN group[d] \ Ignored[d] ELSE lost[d]
    <3>1. CASE d \in D
      <4>1. /\ d \in Held /\ shardOf[d] \in Shards
            /\ dispatch[shardOf[d]] = d /\ d # NoId
        BY <1>1, <3>1, HeldInverse
      <4>2. group[d] = operations[shardOf[d]]
        BY <4>1 DEF IInv, HeldHasTask
      <4>3. lost'[d] = Live(shardOf[d])
        BY <3>1, <4>1 DEF GivenBack, GroupsOf
      <4> QED
        BY <3>1, <4>1, <4>2, <4>3 DEF Live, Ignored
    <3>2. CASE d \notin D
      BY <3>2 DEF GivenBack, GroupsOf
    <3> QED
      BY <3>1, <3>2
  <2> QED
    BY <2>1 DEF GivenBack
<1>3. D # {}
  BY DEF GroupsOf
<1> QED
  BY <1>1, <1>2, <1>3 DEF Table!LoseLive, Table!Ids, Ignored

\* ... and as check_connections does.
LEMMA WholeGivenBack ==
  ASSUME IInv, NEW S \in SUBSET Shards, S # {}, \A s \in S : Busy(s), NEW st,
         Released(S, st), lost' = GivenBack(S, operations),
         UNCHANGED <<lastId, taskVars, taken>>, NEW D, D = GroupsOf(S)
  PROVE  Table!LoseWhole(D)
<1>1. D \subseteq Held /\ Table!EndOf(D)
  BY ReleasedEnds DEF taskVars
<1>2. lost' = [d \in Ids |-> IF d \in D THEN group[d] ELSE lost[d]]
  <2>1. ASSUME NEW d \in Ids
        PROVE  lost'[d] = IF d \in D THEN group[d] ELSE lost[d]
    <3>1. CASE d \in D
      <4>1. shardOf[d] \in Shards /\ dispatch[shardOf[d]] = d /\ d # NoId
        BY <1>1, <3>1, HeldInverse
      <4>2. group[d] = operations[shardOf[d]]
        BY <4>1 DEF IInv, HeldHasTask
      <4> QED
        BY <3>1, <4>2 DEF GivenBack, GroupsOf
    <3>2. CASE d \notin D
      BY <3>2 DEF GivenBack, GroupsOf
    <3> QED
      BY <3>1, <3>2
  <2> QED
    BY <2>1 DEF GivenBack
<1>3. D # {}
  BY DEF GroupsOf
<1> QED
  BY <1>1, <1>2, <1>3 DEF Table!LoseWhole, Table!Ids

\* The groups a loss may be of are ids of the table.
LEMMA LossIsNext ==
  ASSUME NEW D, Table!LoseLive(D) \/ Table!LoseWhole(D), IInv
  PROVE  Table!TableNext
<1>1. D \in SUBSET Ids
  BY HeldInverse DEF Table!LoseLive, Table!LoseWhole
<1> QED
  BY <1>1 DEF Table!TableNext, Table!Ids

(***************************************************************************)
(* An answer is taken, dropped, or not looked at.                          *)
(***************************************************************************)
LEMMA AnswerEnds ==
  ASSUME IInv, NEW d \in Ids, ActionFinished(d)
  PROVE  Table!TableNext \/ UNCHANGED Table!tableVars
<1>1. /\ shardOf[d] \in Shards
      /\ shardOf' = [shardOf EXCEPT ![d] = NoShard]
      /\ UNCHANGED <<group, lastId, lost>>
  BY DEF IInv, RunningTasks, ActionFinished
<1>2. \A e \in Held \ {d} : shardOf'[e] = shardOf[e]
  BY <1>1, HeldInverse DEF IInv, TypeOK
<1>3. CASE Stale(d)
  <2>1. UNCHANGED <<toIgnore, dispatch, reverse, taken>>
    BY <1>3 DEF ActionFinished
  <2>2. Held' = Held /\ Holder' = Holder
    BY <2>1 DEF Held, Holder
  <2>3. d \notin Held
    BY <1>3, HeldInverse DEF Stale
  <2>4. ASSUME NEW e \in Ids PROVE Ignored'[e] = Ignored[e]
    BY <1>2, <2>1, <2>2, <2>3 DEF Ignored
  <2>5. Ignored' = Ignored
    BY <2>4 DEF Ignored
  <2> QED
    BY <1>1, <2>1, <2>2, <2>5 DEF Table!tableVars, Ignored, Holder
<1>4. CASE ~Stale(d)
  <2> DEFINE s == shardOf[d]
  <2>1. dispatch[s] = d /\ Busy(s) /\ d \in Held /\ GroupsOf({s}) = {d}
    BY <1>1, <1>4, HeldInverse DEF IInv, BookkeepingOK, Stale, GroupsOf
  <2>2. Released({s}, "inactive")
    BY <1>4 DEF ActionFinished
  <2>3. Table!EndOf({d})
    <3>1. PICK S \in SUBSET Shards : S = {s}
      BY <1>1
    <3> QED
      BY <1>1, <1>2, <2>1, <2>2, <3>1, ReleasedEnds
  <2>4. Ignored[d] = toIgnore[s]
    BY <2>1 DEF Ignored
  <2>5. CASE ok[d]
    <3>1. taken' = [taken EXCEPT ![d] = group[d] \ Ignored[d]]
      BY <1>4, <2>4, <2>5 DEF ActionFinished
    <3>2. Table!Take(d)
      BY <1>1, <2>1, <2>3, <3>1 DEF Table!Take, Table!Ids, Ignored
    <3> QED
      BY <3>2 DEF Table!TableNext, Table!Ids
  <2>6. CASE ~ok[d]
    <3>1. Table!Drop(d)
      BY <1>1, <1>4, <2>1, <2>3, <2>6 DEF Table!Drop, ActionFinished
    <3> QED
      BY <3>1 DEF Table!TableNext, Table!Ids
  <2> QED
    BY <2>5, <2>6
<1> QED
  BY <1>3, <1>4

\* The steps the table does not see.
LEMMA InternalStep ==
  ASSUME IInv, UNCHANGED <<operations, toIgnore, dispatch, reverse, lastId,
                           shardOf, group, taken, lost>>
  PROVE  UNCHANGED Table!tableVars
  BY DEF Table!tableVars, Held

\* Every step of the pool is a step of the table, or none.
LEMMA StepRefines ==
  ASSUME IInv, [Next]_vars
  PROVE  Table!TableNext \/ UNCHANGED Table!tableVars
<1> USE DEF workerVars, taskVars, histVars
<1>1. CASE UNCHANGED vars
  BY <1>1, InternalStep DEF vars
<1>2. CASE PoolStep
  <2>1. ASSUME NEW s \in Shards, NEW os \in SUBSET {o \in Ops : MayHand(o)},
               AcquireWorker(s, os)
        PROVE  Table!TableNext
    BY <2>1, AcquireHands
  <2>2. ASSUME AcquireFails \/ SetWorkersAvailable
        PROVE  UNCHANGED Table!tableVars
    BY <2>2, InternalStep DEF AcquireFails, SetWorkersAvailable
  <2>3. ASSUME NEW d \in Ids,
               \/ BuildFails(d) \/ Dispatch(d) \/ MarkAnswered(d)
               \/ \E good \in BOOLEAN : WorkerAnswers(d, good)
        PROVE  UNCHANGED Table!tableVars
    BY <2>3, InternalStep DEF BuildFails, Dispatch, MarkAnswered, WorkerAnswers
  <2>4. ASSUME NEW d \in Ids, ActionFinished(d)
        PROVE  Table!TableNext \/ UNCHANGED Table!tableVars
    BY <2>4, AnswerEnds
  <2>5. ASSUME NEW o \in Ops, IgnoreOperation(o)
        PROVE  Table!TableNext
    BY <2>5, IgnoreIgnores DEF Table!TableNext
  <2>6. ASSUME NEW s \in Shards, DisableWorker(s)
        PROVE  Table!TableNext \/ UNCHANGED Table!tableVars
    <3>1. CASE Busy(s)
      <4>1. /\ Released({s}, "disabled")
            /\ lost' = GivenBack({s}, [t \in Shards |-> Live(t)])
            /\ UNCHANGED <<lastId, taskVars, taken>>
        BY <2>6, <3>1 DEF DisableWorker, Busy
      <4>2. PICK D : D = GroupsOf({s})
        OBVIOUS
      <4>3. Table!LoseLive(D)
        BY <3>1, <4>1, <4>2, LiveGivenBack
      <4> QED
        BY <4>3, LossIsNext
    <3>2. CASE ~Busy(s)
      BY <2>6, <3>2, InternalStep DEF DisableWorker
    <3> QED
      BY <3>1, <3>2
  <2>7. ASSUME NEW s \in Shards, EnableWorker(s) \/ OnWorkerConnected(s)
        PROVE  UNCHANGED Table!tableVars
    <3>1. UNCHANGED toIgnore
      BY <2>7 DEF EnableWorker, OnWorkerConnected, Enabled, IInv, TypeOK,
                  BookkeepingOK, Busy
    <3> QED
      BY <2>7, <3>1, InternalStep DEF EnableWorker, OnWorkerConnected
  <2>8. ASSUME NEW s \in Shards, Connect(s) \/ Disconnect(s)
        PROVE  UNCHANGED Table!tableVars
    BY <2>8, InternalStep DEF Connect, Disconnect
  <2> QED
    BY <1>2, <2>1, <2>2, <2>3, <2>4, <2>5, <2>6, <2>7, <2>8 DEF PoolStep
<1>3. ASSUME NEW L \in SUBSET Shards, CheckTimeouts(L)
      PROVE  Table!TableNext
  <2>1. L # {} /\ \A s \in L : Busy(s)
    BY <1>3 DEF IInv, BookkeepingOK, CheckTimeouts, Clocked
  <2>2. PICK D : D = GroupsOf(L)
    OBVIOUS
  <2>3. Table!LoseLive(D)
    BY <1>3, <2>1, <2>2, LiveGivenBack DEF CheckTimeouts
  <2> QED
    BY <2>3, LossIsNext
<1>4. CASE CheckConnections
  <2>1. PICK S \in SUBSET Shards : S = GoneShards /\ \A s \in S : Busy(s)
    <3>1. GoneShards \in SUBSET Shards /\ \A s \in GoneShards : Busy(s)
      BY DEF GoneShards
    <3> QED
      BY <3>1
  <2>2. PICK D : D = GroupsOf(S)
    OBVIOUS
  <2>3. Table!LoseWhole(D)
    BY <1>4, <2>1, <2>2, WholeGivenBack DEF CheckConnections
  <2> QED
    BY <2>3, LossIsNext
<1> QED
  BY <1>1, <1>2, <1>3, <1>4 DEF Next

(***************************************************************************)
(* The WorkerPool keeps the promise the EvaluationService is built on: a   *)
(* job group leaves its worker once, taken, dropped or given back, and an  *)
(* ignored operation is never taken, with any number of workers, whatever  *)
(* their answers, timeouts and connections do.                             *)
(***************************************************************************)
THEOREM PoolImplementsTable == Spec => ImplementsTable
<1>1. Init => Table!TableInit
  BY DEF Init, Table!TableInit, Table!Ids, Table!NoId, Held
<1>2. IInv /\ [Next]_vars => [Table!TableNext]_(Table!tableVars)
  BY StepRefines
<1> QED
  BY <1>1, <1>2, PoolInvariant, PTL DEF Spec, ImplementsTable, Table!TableSpec
=============================================================================
