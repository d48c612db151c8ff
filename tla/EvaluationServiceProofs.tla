---------------------- MODULE EvaluationServiceProofs ----------------------
(***************************************************************************)
(* What EvaluationService keeps for any number of testcases, invalidations,*)
(* lost workers and failed jobs or writes.                                 *)
(*                                                                         *)
(* The argument is about order.  An invalidation leaves its dequeues to    *)
(* the loop and goes on: it may commit, and push the operations again,     *)
(* while copies that it has doomed are still on their way.  That is safe   *)
(* because the loop runs its callbacks in the order they came: the         *)
(* coroutine of a job group handed out after the dequeue was handed over   *)
(* starts behind the dequeue, so that no doomed copy gives a result.       *)
(***************************************************************************)
EXTENDS EvaluationService, FiniteSetTheorems, WellFoundedInduction, TLAPS

USE DEF Ids, NoId

\* The loop actions on o that are still to act.
Unapplied(i) == ~(i = 1 /\ applied)
Pushes(o)    == {i \in ActionsOn(o) : ready[i].act = "push"}
Dequeues(o)  == {i \in ActionsOn(o) : ready[i].act = "dequeue" /\ Unapplied(i)}

\* What the pushes still to act bring to the queue before the next dequeue.
Coming(o) ==
    {i \in Pushes(o) : Unapplied(i) /\ \A m \in Dequeues(o) : i < m}

\* A batch whose results are still to be stored.
Flushing(o) == flush = "taken" /\ batch[o] # {}

\* Job groups: ids are fresh, and the pool finds what it holds.
TableOK ==
    /\ held \subseteq 1..lastId /\ started \subseteq 1..lastId
    /\ \A d \in Ids : ignored[d] \subseteq group[d]
    /\ \A d \in Ids : d > lastId => group[d] = {}
    /\ \A o \in Ops : holder[o] # NoId =>
          holder[o] \in held /\ o \in group[holder[o]]
    /\ \A d \in held : \A o \in group[d] \ ignored[d] : holder[o] = d

\* The callbacks of the loop: what each carries, and that the first step of
\* a coroutine is there once, until it is run.
CallbackOK(cb) ==
    /\ cb.act = "push" => cb.ops # {} /\ cb.id = NoId
    /\ cb.act = "dequeue" => (\E o \in Ops : cb.ops = {o}) /\ cb.id = NoId
    /\ cb.act = "build" => cb.ops = {} /\ cb.id \in (1..lastId) \ started
    /\ cb.act = "flushed" => cb.ops = {} /\ cb.id = NoId

LoopOK ==
    /\ \A i \in 1..Len(ready) : CallbackOK(ready[i])
    /\ \A i, j \in 1..Len(ready) :
          ready[i].id = ready[j].id /\ ready[i].id # NoId => i = j
    /\ applied => ready # <<>> /\ Head(ready).act \in {"push", "dequeue"}

\* The marks: a count that is zero has no action left.
MarksOK ==
    /\ PendingPredictsLoop
    /\ \A o \in Ops : ActionsOn(o) = {} => pending[o].last = "none"

\* The section in progress, and what it has dequeued so far.
SectionOK ==
    /\ sec.pc = "free" => sec = Free
    /\ dequeued = sec.scope \ sec.todo /\ sec.todo \subseteq sec.scope
    /\ sec.pc = "ignore" => \E o \in dequeued : sec.at = {o}
    /\ sec.pc # "ignore" => sec.at = {}
    /\ sec.pc \in {"discard", "commit"} => sec.todo = {}
    /\ sec.pc # "free" => \A o \in Ops : epoch[o] < MaxInvalidations

\* Two pushes of an operation have a dequeue between them, and what the
\* section has dequeued it has not pushed.
PushesApart ==
    \A o \in Ops :
        /\ \A i, j \in Pushes(o) : i < j =>
              \E m \in Dequeues(o) : i < m /\ m < j
        /\ o \in dequeued => \A i \in Pushes(o) :
              \E m \in ActionsOn(o) : i < m /\ ready[m].act = "dequeue"

\* Once its dequeue has acted, an operation is nowhere on its way; while the
\* dequeue is to come, a job group that has the operation starts behind it.
Cleaned(o) ==
    o \notin queue \cup popped \cup executing /\ LiveGroups(o) = {}

DequeuesClean ==
    \A o \in Ops :
        /\ o \in dequeued /\ Dequeues(o) = {} => Cleaned(o)
        /\ \A i \in ActionsOn(o) :
              ready[i].act = "dequeue" /\ ~Unapplied(i) => Cleaned(o)
        /\ o \notin sec.at => \A m \in Dequeues(o), d \in LiveGroups(o) :
              \E k \in (m + 1)..Len(ready) : ready[k].id = d

\* No result is cached of what is to be dequeued, but for those the section
\* will discard.
CacheClean ==
    \A o \in Ops :
        /\ \A m \in Dequeues(o) :
              o \notin dequeued \/ (\E j \in ActionsOn(o) : j > m) => ~InCache(o)
        /\ sec.pc = "commit" /\ o \in sec.scope => ~InCache(o)

\* An operation is in one place.
CacheOne ==
    \A o \in Ops :
        /\ \A r, s \in cache[o] : r = s
        /\ \A r, s \in batch[o] : r = s

Once ==
    \A o \in Ops :
        /\ o \in queue => /\ o \notin popped \cup executing
                          /\ LiveGroups(o) = {} /\ cache[o] = {}
                          /\ ~Flushing(o) /\ Coming(o) = {}
        /\ o \in popped => /\ o \notin executing
                           /\ LiveGroups(o) = {} /\ cache[o] = {}
                           /\ ~Flushing(o) /\ Coming(o) = {}
        /\ o \in executing => /\ LiveGroups(o) = {} /\ cache[o] = {}
                              /\ ~Flushing(o) /\ Coming(o) = {}
        /\ LiveGroups(o) # {} => cache[o] = {} /\ ~Flushing(o) /\ Coming(o) = {}
        /\ cache[o] # {} => ~Flushing(o) /\ Coming(o) = {}
        /\ Flushing(o) => Coming(o) = {}

\* What is on its way to a result is of the present epoch, or doomed.
Fresh ==
    \A o \in Ops :
        /\ rows[o] \subseteq {epoch[o]}
        /\ \A r \in cache[o] : r.epoch = epoch[o]
        /\ flush = "taken" => \A r \in batch[o] : r.epoch = epoch[o]
        /\ \A d \in LiveGroups(o) : born[d][o] = epoch[o] \/ Dequeues(o) # {}

IInv ==
    /\ ESTypeOK
    /\ TableOK
    /\ LoopOK
    /\ MarksOK
    /\ SectionOK
    /\ PushesApart
    /\ DequeuesClean
    /\ CacheClean
    /\ CacheOne
    /\ Once
    /\ Fresh

USE ESAssumption, MaxDispatchAssumption
-----------------------------------------------------------------------------
(* Types *)

(***************************************************************************)
(* Whatever the batch holds, writing it leaves each row as it was, blank,  *)
(* or with the results of the batch, and enqueues operations once.         *)
(***************************************************************************)
LEMMA WriteStep ==
  ASSUME WriteResults
  PROVE  /\ \E os \in SUBSET Ops : Enqueue(os, <<Callback("flushed", {}, NoId)>>)
         /\ \/ rows' = rows
            \/ /\ rows' = [o \in Ops |-> rows'[o]]
               /\ \A o \in Ops : rows'[o] \in {{}, rows[o], {r.epoch : r \in batch[o]}}
         /\ Fault \/ NoFault
<1> DEFINE Goal ==
         /\ \E os \in SUBSET Ops : Enqueue(os, <<Callback("flushed", {}, NoId)>>)
         /\ \/ rows' = rows
            \/ /\ rows' = [o \in Ops |-> rows'[o]]
               /\ \A o \in Ops : rows'[o] \in {{}, rows[o], {r.epoch : r \in batch[o]}}
         /\ Fault \/ NoFault
<1>1. \A r : Needed(r) \in SUBSET Ops
  BY DEF Needed, Testcases
<1>2. ASSUME NEW blanked, NEW kept, NEW os \in SUBSET Ops,
             WriteBatch(Stored(blanked, kept), os)
      PROVE  Goal
  <2> DEFINE db == Stored(blanked, kept)
  <2>1. /\ db = [o \in Ops |-> db[o]]
        /\ \A o \in Ops : db[o] \in {{}, rows[o], {r.epoch : r \in batch[o]}}
    BY DEF Stored, Nothing
  <2>2. Needed(db) \in SUBSET Ops
    BY <1>1
  <2> HIDE DEF db
  <2>3. WriteBatch(db, os)
    BY <1>2 DEF db
  <2>4. rows' = rows \/ rows' = db
    BY <2>3 DEF WriteBatch
  <2>5. \E next \in SUBSET Ops : Enqueue(next, <<Callback("flushed", {}, NoId)>>)
    BY <2>2, <2>3 DEF WriteBatch
  <2>6. Fault \/ NoFault
    BY <2>3 DEF WriteBatch
  <2> QED
    BY <2>1, <2>4, <2>5, <2>6
<1>3. {} \in SUBSET Ops /\ {Compile} \in SUBSET Ops
  BY ESAssumption
<1> HIDE DEF Goal
<1>4. Goal
  BY <1>2, <1>3 DEF WriteResults
<1> QED
  BY <1>4 DEF Goal

\* What a section hands over to the loop are callbacks.
LEMMA EnqueueType ==
  ASSUME ESTypeOK, NEW os \in SUBSET Ops, NEW cb,
         cb \in {<<>>, <<Callback("flushed", {}, NoId)>>}, Enqueue(os, cb)
  PROVE  /\ pending' \in [Ops -> [last : {"none", "push", "dequeue"}, count : Nat]]
         /\ ready' \in Seq(Callbacks)
         /\ applied' = applied
<1> DEFINE P == {o \in os : MayEnqueue(o)}
<1>1. pending' \in [Ops -> [last : {"none", "push", "dequeue"}, count : Nat]]
  BY DEF ESTypeOK, Enqueue, Recorded
<1>2. ready \in Seq(Callbacks) /\ cb \in Seq(Callbacks)
  <2>1. Callback("flushed", {}, NoId) \in Callbacks
    BY DEF Callback, Callbacks
  <2>2. <<>> \in Seq(Callbacks) /\ <<Callback("flushed", {}, NoId)>> \in Seq(Callbacks)
    BY <2>1
  <2> QED
    BY <2>2, Zenon DEF ESTypeOK
<1>3. ready' = ready \o (IF P = {} THEN <<>> ELSE <<Callback("push", P, NoId)>>) \o cb
  BY DEF Enqueue
<1>4. P \in SUBSET Ops
  OBVIOUS
<1> HIDE DEF P
<1>5. (IF P = {} THEN <<>> ELSE <<Callback("push", P, NoId)>>) \in Seq(Callbacks)
  <2>1. Callback("push", P, NoId) \in Callbacks
    BY <1>4 DEF Callback, Callbacks
  <2> QED
    BY <2>1
<1>6. ready' \in Seq(Callbacks)
  BY <1>2, <1>3, <1>5
<1> QED
  BY <1>1, <1>6 DEF Enqueue

\* Of the pool's actions.
LEMMA TableTypes ==
  ASSUME TableTypeOK
  PROVE  /\ \A os \in SUBSET Ops : Hand(os) => TableTypeOK'
         /\ \A o \in Ops : IgnoreOp(o) => TableTypeOK'
         /\ \A d \in Ids : Take(d) \/ Drop(d) => TableTypeOK'
         /\ \A d \in Ids : LoseLive({d}) \/ LoseWhole({d}) => TableTypeOK'
<1>1. ASSUME NEW os \in SUBSET Ops, Hand(os) PROVE TableTypeOK'
  BY <1>1 DEF TableTypeOK, Hand
<1>2. ASSUME NEW o \in Ops, IgnoreOp(o) PROVE TableTypeOK'
  BY <1>2 DEF TableTypeOK, IgnoreOp
<1>3. ASSUME NEW d \in Ids, Take(d) \/ Drop(d) PROVE TableTypeOK'
  <2>1. taken' \in [Ids -> SUBSET Ops] /\ lost' = lost
    BY <1>3 DEF TableTypeOK, Take, Drop
  <2>2. EndOf({d})
    BY <1>3 DEF Take, Drop
  <2> QED
    BY <2>1, <2>2 DEF TableTypeOK, EndOf
<1>4. ASSUME NEW d \in Ids, LoseLive({d}) \/ LoseWhole({d}) PROVE TableTypeOK'
  BY <1>4 DEF TableTypeOK, LoseLive, LoseWhole, EndOf
<1> QED
  BY <1>1, <1>2, <1>3, <1>4

\* Every variable keeps its type.
LEMMA TypeStep ==
  ASSUME ESTypeOK, LoopOK, SectionOK, [ESNext]_esVars
  PROVE  ESTypeOK'
<1>1. CASE UNCHANGED esVars
  BY <1>1 DEF ESTypeOK, TableTypeOK, esVars, tableVars, dbVars, execVars,
              cacheVars, loopVars, secVars
<1>2. CASE ApplyLoopAction
  <2>1. Head(ready) \in Callbacks
    BY <1>2 DEF ESTypeOK, ApplyLoopAction
  <2>2. CASE Head(ready).act = "push" /\ queue' = queue \cup Head(ready).ops
             /\ UNCHANGED <<tableVars, popped, executing>>
    BY <1>2, <2>1, <2>2 DEF ESTypeOK, TableTypeOK, ApplyLoopAction, tableVars,
       dbVars, cacheVars, secVars, Callbacks
  <2>3. ASSUME NEW o \in Head(ready).ops, DequeueAndIgnore(o)
        PROVE  ESTypeOK'
    <3>1. TableTypeOK'
      BY <2>1, <2>3, TableTypes DEF ESTypeOK, DequeueAndIgnore, Callbacks
    <3> QED
      BY <1>2, <2>3, <3>1 DEF ESTypeOK, ApplyLoopAction, DequeueAndIgnore,
         dbVars, cacheVars, secVars
  <2> QED
    BY <1>2, <2>2, <2>3 DEF ApplyLoopAction
<1>3. CASE ClearPending
  <2>1. ready # <<>> /\ Head(ready) \in Callbacks /\ Tail(ready) \in Seq(Callbacks)
    BY <1>3 DEF ESTypeOK, ClearPending, LoopOK
  <2>2. pending' \in [Ops -> [last : {"none", "push", "dequeue"}, count : Nat]]
    <3> DEFINE Mark == [last : {"none", "push", "dequeue"}, count : Nat]
               os == Head(ready).ops
    <3>1. ASSUME NEW o \in Ops
          PROVE  (IF o \notin os THEN pending[o]
                  ELSE IF pending[o].count <= 1 THEN NoPending
                  ELSE [pending[o] EXCEPT !.count = @ - 1]) \in Mark
      <4>1. pending[o] \in Mark /\ NoPending \in Mark
        BY DEF ESTypeOK, NoPending
      <4>2. CASE pending[o].count <= 1
        BY <4>1, <4>2
      <4>3. CASE pending[o].count > 1
        <5>1. pending[o].count - 1 \in Nat
          BY <4>1, <4>3
        <5> QED
          BY <4>1, <5>1
      <4> QED
        BY <4>1, <4>2, <4>3
    <3>2. pending' = [o \in Ops |->
                        IF o \notin os THEN pending[o]
                        ELSE IF pending[o].count <= 1 THEN NoPending
                        ELSE [pending[o] EXCEPT !.count = @ - 1]]
      BY <1>3 DEF ClearPending, Cleared
    <3> HIDE DEF os, Mark
    <3>3. pending' \in [Ops -> Mark]
      BY <3>1, <3>2
    <3> QED
      BY <3>3 DEF Mark
  <2> QED
    BY <1>3, <2>1, <2>2 DEF ESTypeOK, TableTypeOK, ClearPending, tableVars, dbVars,
       execVars, cacheVars, secVars
<1>4. ASSUME NEW os \in SUBSET Ops, Pop(os)
      PROVE  ESTypeOK'
  BY <1>4 DEF ESTypeOK, TableTypeOK, Pop, tableVars, dbVars, cacheVars,
              loopVars, secVars
<1>5. CASE BeginExecute
  BY <1>5 DEF ESTypeOK, TableTypeOK, BeginExecute, tableVars, dbVars, cacheVars,
              loopVars, secVars
<1>6. CASE Execute
  <2>1. TableTypeOK' /\ lastId + 1 \in Ids
    BY <1>6, TableTypes DEF ESTypeOK, Execute, Hand
  <2>2. born' \in [Ids -> [Ops -> Epochs]]
    BY <1>6, <2>1 DEF ESTypeOK, Execute
  <2>3. Callback("build", {}, lastId + 1) \in Callbacks
    BY <2>1 DEF Callback, Callbacks
  <2>4. ready' \in Seq(Callbacks)
    BY <1>6, <2>3 DEF ESTypeOK, Execute
  <2> QED
    BY <1>6, <2>1, <2>2, <2>4 DEF ESTypeOK, Execute, dbVars, cacheVars, secVars
<1>7. CASE StartBuild
  <2>1. /\ ready # <<>> /\ Head(ready) \in Callbacks /\ Tail(ready) \in Seq(Callbacks)
        /\ Head(ready).id \in Ids
    <3>1. /\ ready # <<>> /\ Head(ready) \in Callbacks /\ Tail(ready) \in Seq(Callbacks)
          /\ Head(ready) = ready[1] /\ 1 \in 1..Len(ready) /\ Head(ready).act = "build"
      BY <1>7 DEF ESTypeOK, StartBuild
    <3>2. Head(ready).id \in 1..lastId
      BY <3>1 DEF LoopOK, CallbackOK
    <3> QED
      BY <3>1, <3>2 DEF ESTypeOK, TableTypeOK
  <2> QED
    BY <1>7, <2>1 DEF ESTypeOK, TableTypeOK, StartBuild, tableVars, dbVars, execVars,
       cacheVars, secVars
<1>8. ASSUME NEW d \in Ids, WorkerLost(d)
      PROVE  ESTypeOK'
  <2>1. TableTypeOK'
    BY <1>8, TableTypes DEF ESTypeOK, WorkerLost
  <2>2. lostOps' \subseteq Ops
    BY <1>8, <2>1 DEF ESTypeOK, TableTypeOK, WorkerLost
  <2> QED
    BY <1>8, <2>1, <2>2 DEF ESTypeOK, WorkerLost, Fault, dbVars, execVars, cacheVars,
       loopVars, secVars
<1>9. CASE TakeBatch
  BY <1>9 DEF ESTypeOK, TableTypeOK, TakeBatch, Nothing, tableVars, dbVars, execVars,
              loopVars, secVars
<1>10. CASE EndFlush
  <2>1. Tail(ready) \in Seq(Callbacks)
    BY <1>10 DEF ESTypeOK, EndFlush
  <2> QED
    BY <1>10, <2>1 DEF ESTypeOK, TableTypeOK, EndFlush, Nothing, tableVars, dbVars,
       execVars, secVars
<1>11. CASE EnqueueMissing
  <2>1. Needed(rows) \subseteq Ops
    BY DEF Needed, Testcases
  <2> QED
    BY <1>11, <2>1, EnqueueType DEF ESTypeOK, TableTypeOK, EnqueueMissing, tableVars,
       dbVars, execVars, cacheVars, secVars
<1>12. ASSUME NEW o \in Ops, EnqueueLost(o)
       PROVE  ESTypeOK'
  BY <1>12, EnqueueType DEF ESTypeOK, TableTypeOK, EnqueueLost, tableVars, dbVars,
     execVars, cacheVars, secVars
<1>13. ASSUME NEW d \in Ids, NEW bad \in SUBSET Ops, ActionFinished(d, bad)
       PROVE  ESTypeOK'
  <2>1. TableTypeOK'
    BY <1>13, TableTypes DEF ESTypeOK, ActionFinished
  <2>2. \A o \in Ops : [epoch |-> born[d][o], good |-> o \notin bad] \in Results
    <3>1. \A o \in Ops : born[d][o] \in Epochs /\ (o \notin bad) \in BOOLEAN
      BY DEF ESTypeOK
    <3> QED
      BY <3>1, Zenon DEF Results
  <2>3. cache' \in [Ops -> SUBSET Results]
    BY <1>13, <2>2 DEF ESTypeOK, ActionFinished
  <2>4. faults' \in 0..MaxFaults
    BY <1>13 DEF ESTypeOK, ActionFinished, Fault, NoFault
  <2> QED
    BY <1>13, <2>1, <2>3, <2>4 DEF ESTypeOK, ActionFinished, dbVars, execVars,
       loopVars, secVars
<1>14. ASSUME NEW d \in Ids, JobGroupError(d)
       PROVE  ESTypeOK'
  <2>1. TableTypeOK'
    BY <1>14, TableTypes DEF ESTypeOK, JobGroupError
  <2> QED
    BY <1>14, <2>1 DEF ESTypeOK, JobGroupError, Fault, dbVars, execVars, cacheVars,
       loopVars, secVars
<1>15. CASE WriteResults
  <2>1. rows' \in [Ops -> SUBSET Epochs]
    <3>1. \A o \in Ops : {r.epoch : r \in batch[o]} \in SUBSET Epochs
      BY DEF ESTypeOK, Results
    <3>2. \A o \in Ops : rows[o] \in SUBSET Epochs
      BY DEF ESTypeOK
    <3> QED
      BY <1>15, <3>1, <3>2, WriteStep DEF ESTypeOK
  <2>3. PICK os \in SUBSET Ops : Enqueue(os, <<Callback("flushed", {}, NoId)>>)
    BY <1>15, WriteStep
  <2>4. /\ pending' \in [Ops -> [last : {"none", "push", "dequeue"}, count : Nat]]
        /\ ready' \in Seq(Callbacks) /\ applied' = applied
    BY <2>3, EnqueueType
  <2>5. rows' \in [Ops -> SUBSET Epochs] /\ faults' \in 0..MaxFaults
    BY <1>15, <2>1, WriteStep DEF ESTypeOK, Fault, NoFault
  <2> QED
    BY <1>15, <2>4, <2>5 DEF ESTypeOK, TableTypeOK, WriteResults, tableVars, execVars,
       secVars
<1>16. ASSUME NEW scope \in Scopes, BeginInvalidate(scope)
       PROVE  ESTypeOK'
  <2>1. sec' \in Section
    BY <1>16 DEF BeginInvalidate, Section, Scopes, Testcases
  <2> QED
    BY <1>16, <2>1 DEF ESTypeOK, TableTypeOK, BeginInvalidate, tableVars, dbVars,
       execVars, cacheVars, loopVars
<1>17. ASSUME NEW o \in Ops, HandDequeue(o)
       PROVE  ESTypeOK'
  <2>1. sec' \in Section
    BY <1>17 DEF ESTypeOK, HandDequeue, Section
  <2>2. Callback("dequeue", {o}, NoId) \in Callbacks
    BY DEF Callback, Callbacks
  <2>3. ready' \in Seq(Callbacks)
    BY <1>17, <2>2 DEF ESTypeOK, HandDequeue
  <2>4. pending' \in [Ops -> [last : {"none", "push", "dequeue"}, count : Nat]]
    BY <1>17 DEF ESTypeOK, HandDequeue, Recorded
  <2> QED
    BY <1>17, <2>1, <2>3, <2>4 DEF ESTypeOK, TableTypeOK, HandDequeue, tableVars,
       dbVars, execVars, cacheVars
<1>18. CASE IgnoreOnThread
  <2>1. TableTypeOK'
    BY <1>18, TableTypes DEF ESTypeOK, IgnoreOnThread, Section
  <2>2. sec' \in Section
    BY <1>18 DEF ESTypeOK, IgnoreOnThread, Section
  <2> QED
    BY <1>18, <2>1, <2>2 DEF ESTypeOK, IgnoreOnThread, dbVars, execVars, cacheVars,
       loopVars
<1>19. CASE DiscardCached
  <2>1. sec' \in Section
    BY <1>19 DEF ESTypeOK, DiscardCached, Section
  <2> QED
    BY <1>19, <2>1 DEF ESTypeOK, TableTypeOK, DiscardCached, Without, tableVars, dbVars,
       execVars, loopVars
<1>20. ASSUME NEW gone \in Wiped(sec.scope), EndInvalidate(gone)
       PROVE  ESTypeOK'
  <2> DEFINE left == Without(rows, gone)
  <2>1. left \in [Ops -> SUBSET Epochs]
    BY DEF ESTypeOK, Without
  <2>2. Needed(left) \subseteq Ops
    BY DEF Needed, Testcases
  <2>3. \A o \in Ops : epoch[o] + 1 \in Epochs
    BY <1>20 DEF ESTypeOK, SectionOK, EndInvalidate, Epochs
  <2>4. PICK os \in SUBSET Ops : Enqueue(os, <<>>)
    BY <1>20, <2>2 DEF EndInvalidate
  <2>5. /\ pending' \in [Ops -> [last : {"none", "push", "dequeue"}, count : Nat]]
        /\ ready' \in Seq(Callbacks) /\ applied' = applied
    BY <2>4, EnqueueType
  <2>6. rows' \in [Ops -> SUBSET Epochs] /\ epoch' \in [Ops -> Epochs]
    <3> HIDE DEF left
    <3>1. \/ UNCHANGED <<rows, epoch>>
          \/ /\ rows' = left
             /\ epoch' = [o \in Ops |-> IF o \in gone THEN epoch[o] + 1 ELSE epoch[o]]
      BY <1>20, Zenon DEF EndInvalidate, dbVars, left
    <3>2. epoch \in [Ops -> Epochs] /\ rows \in [Ops -> SUBSET Epochs]
      BY DEF ESTypeOK
    <3> QED
      BY <2>1, <2>3, <3>1, <3>2
  <2>7. faults' \in 0..MaxFaults
    BY <1>20 DEF ESTypeOK, EndInvalidate, Fault, NoFault
  <2>8. sec' \in Section /\ dequeued' \subseteq Ops
    BY <1>20 DEF EndInvalidate, Free, Section
  <2> QED
    BY <1>20, <2>5, <2>6, <2>7, <2>8 DEF ESTypeOK, TableTypeOK, EndInvalidate, tableVars,
       execVars, cacheVars
<1> QED
  BY <1>1, <1>2, <1>3, <1>4, <1>5, <1>6, <1>7, <1>8, <1>9, <1>10, <1>11, <1>12, <1>13,
     <1>14, <1>15, <1>16, <1>17, <1>18, <1>19, <1>20
     DEF ESNext, LoopStep, SectionStep
-----------------------------------------------------------------------------
(* Job groups *)

\* Where a step leaves the pool alone, so are the copies in it.
LEMMA LiveSame ==
  ASSUME UNCHANGED tableVars, NEW o
  PROVE  LiveGroups(o)' = LiveGroups(o)
  BY DEF LiveGroups, tableVars

\* acquire_worker adds the new group to the places of what it was given.
LEMMA LiveHand ==
  ASSUME ESTypeOK, TableOK, Hand(executing), NEW o \in Ops
  PROVE  LiveGroups(o)' = IF o \in executing
                          THEN LiveGroups(o) \cup {lastId + 1} ELSE LiveGroups(o)
<1>1. lastId \in Nat /\ lastId + 1 \in Ids /\ lastId + 1 \notin held
  BY DEF ESTypeOK, TableTypeOK, TableOK, Hand
<1>2. ignored[lastId + 1] = {}
  BY <1>1 DEF TableOK
<1>3. /\ held' = held \cup {lastId + 1} /\ ignored' = ignored
      /\ group'[lastId + 1] = executing
      /\ \A d \in held : group'[d] = group[d]
  BY <1>1 DEF ESTypeOK, TableTypeOK, Hand
<1> QED
  BY <1>1, <1>2, <1>3 DEF LiveGroups

\* ignore_operation leaves no copy of the operation that gives a result.
LEMMA LiveIgnore ==
  ASSUME ESTypeOK, TableOK, NEW o \in Ops, IgnoreOp(o)
  PROVE  /\ LiveGroups(o)' = {}
         /\ \A p \in Ops \ {o} : LiveGroups(p)' = LiveGroups(p)
<1>1. held' = held /\ group' = group /\ held \subseteq Ids
  BY DEF IgnoreOp, ESTypeOK, TableTypeOK
<1>2. \A d \in held : o \in group[d] \ ignored[d] => holder[o] = d
  BY DEF TableOK
<1>3. /\ \A d \in held : holder[o] = d => ignored'[d] = ignored[d] \cup {o}
      /\ \A d \in held : holder[o] # d => ignored'[d] = ignored[d]
  BY <1>1 DEF IgnoreOp, ESTypeOK, TableTypeOK
<1>4. LiveGroups(o)' = {}
  BY <1>1, <1>2, <1>3 DEF LiveGroups
<1>5. \A p \in Ops \ {o} : LiveGroups(p)' = LiveGroups(p)
  BY <1>1, <1>3 DEF LiveGroups
<1> QED
  BY <1>4, <1>5

\* A group that ends takes its copies with it.
LEMMA LiveEnd ==
  ASSUME ESTypeOK, NEW d \in Ids, EndOf({d}), NEW o \in Ops
  PROVE  LiveGroups(o)' = LiveGroups(o) \ {d}
<1>1. /\ held' = held \ {d} /\ group' = group
      /\ \A e \in held \ {d} : ignored'[e] = ignored[e]
  BY DEF EndOf, ESTypeOK, TableTypeOK
<1> QED
  BY <1>1 DEF LiveGroups

\* The pool after a group has ended.
LEMMA EndTable ==
  ASSUME ESTypeOK, TableOK, NEW d \in Ids, EndOf({d}), UNCHANGED started
  PROVE  TableOK'
<1>1. /\ held' = held \ {d} /\ group' = group /\ lastId' = lastId
      /\ \A e \in Ids : ignored'[e] = IF e = d THEN {} ELSE ignored[e]
      /\ \A o \in Ops : holder'[o] = IF holder[o] = d THEN NoId ELSE holder[o]
  BY DEF EndOf, ESTypeOK, TableTypeOK
<1>2. held \subseteq Ids
  BY DEF ESTypeOK, TableTypeOK
<1> QED
  BY <1>1, <1>2 DEF TableOK, ESTypeOK, TableTypeOK

\* The pool after an operation has been ignored.
LEMMA IgnoreTable ==
  ASSUME ESTypeOK, TableOK, NEW o \in Ops, IgnoreOp(o), UNCHANGED started
  PROVE  TableOK'
<1>1. /\ held' = held /\ group' = group /\ lastId' = lastId /\ holder' = holder
  BY DEF IgnoreOp
<1>2. /\ \A d \in Ids : ignored[d] \subseteq ignored'[d]
      /\ \A d \in Ids : ignored'[d] \subseteq group[d]
  <2>1. CASE holder[o] = NoId
    BY <2>1 DEF IgnoreOp, TableOK
  <2>2. CASE holder[o] # NoId
    <3>1. holder[o] \in Ids /\ o \in group[holder[o]]
      BY <2>2 DEF TableOK, ESTypeOK, TableTypeOK
    <3>2. \A d \in Ids : ignored'[d] = IF d = holder[o] THEN ignored[d] \cup {o} ELSE ignored[d]
      BY <2>2 DEF IgnoreOp, ESTypeOK, TableTypeOK
    <3>3. \A d \in Ids : ignored[d] \subseteq group[d]
      BY DEF TableOK
    <3> HIDE DEF Ids
    <3> QED
      BY <3>1, <3>2, <3>3
  <2> QED
    BY <2>1, <2>2
<1>3. held \subseteq Ids
  BY DEF ESTypeOK, TableTypeOK
<1> QED
  BY <1>1, <1>2, <1>3 DEF TableOK

\* The pool finds what it holds, after every step.
LEMMA TableStep ==
  ASSUME ESTypeOK, TableOK, LoopOK, SectionOK, Once, [ESNext]_esVars
  PROVE  TableOK'
<1>1. CASE UNCHANGED <<tableVars, started>>
  BY <1>1 DEF TableOK, tableVars
<1>2. CASE ApplyLoopAction
  <2>1. started' = started /\ Head(ready).ops \subseteq Ops
    <3>1. Head(ready) \in Callbacks
      BY <1>2 DEF ESTypeOK, ApplyLoopAction
    <3> QED
      BY <1>2, <3>1 DEF ApplyLoopAction, Callbacks
  <2>2. CASE UNCHANGED tableVars
    BY <2>1, <2>2 DEF TableOK, tableVars
  <2>3. ASSUME NEW o \in Head(ready).ops, DequeueAndIgnore(o)
        PROVE  TableOK'
    BY <2>1, <2>3, IgnoreTable DEF DequeueAndIgnore
  <2> QED
    BY <1>2, <2>2, <2>3 DEF ApplyLoopAction
<1>3. CASE Execute
  <2>1. /\ lastId \in Nat /\ lastId + 1 \in Ids /\ lastId' = lastId + 1
        /\ held' = held \cup {lastId + 1}
        /\ started' = started /\ ignored' = ignored /\ executing \subseteq Ops
    BY <1>3 DEF ESTypeOK, TableTypeOK, Execute, Hand
  <2>2. \A d \in Ids : group'[d] = IF d = lastId + 1 THEN executing ELSE group[d]
    BY <1>3 DEF ESTypeOK, TableTypeOK, Execute, Hand
  <2>3. \A o \in Ops : holder'[o] = IF o \in executing THEN lastId + 1 ELSE holder[o]
    BY <1>3 DEF Execute, Hand
  <2>4. held \subseteq Ids /\ held \subseteq 1..lastId /\ started \subseteq 1..lastId
    BY DEF ESTypeOK, TableTypeOK, TableOK
  <2>5. /\ held' \subseteq 1..lastId' /\ started' \subseteq 1..lastId'
        /\ \A d \in Ids : d > lastId' => group'[d] = {}
    <3>1. \A d \in Ids : d > lastId => group[d] = {}
      BY DEF TableOK
    <3>2. \A d \in Ids : d > lastId' => group'[d] = {}
      BY <2>1, <2>2, <3>1
    <3>3. 1..lastId' = (1..lastId) \cup {lastId + 1}
      BY <2>1
    <3> QED
      BY <2>1, <2>4, <3>2, <3>3
  <2>6. \A d \in Ids : ignored'[d] \subseteq group'[d]
    BY <2>1, <2>2 DEF TableOK
  <2>7. \A o \in Ops : holder'[o] # NoId => holder'[o] \in held' /\ o \in group'[holder'[o]]
    <3> SUFFICES ASSUME NEW o \in Ops, holder'[o] # NoId
                 PROVE  holder'[o] \in held' /\ o \in group'[holder'[o]]
      OBVIOUS
    <3>1. CASE o \in executing
      BY <2>1, <2>2, <2>3, <3>1
    <3>2. CASE o \notin executing
      <4>1. holder'[o] = holder[o] /\ holder[o] \in held /\ o \in group[holder[o]]
        BY <2>3, <3>2 DEF TableOK
      <4>2. holder[o] \in Ids /\ holder[o] # lastId + 1
        <5>1. holder[o] \in Ids /\ holder[o] \in 1..lastId
          BY <2>4, <4>1, Zenon
        <5> QED
          BY <2>1, <5>1
      <4> QED
        BY <2>1, <2>2, <4>1, <4>2
    <3> QED
      BY <3>1, <3>2
  <2>8. ASSUME NEW d \in held', NEW o \in group'[d] \ ignored'[d]
        PROVE  holder'[o] = d
    <3>1. o \in Ops
      BY <2>1, <2>2, <2>4 DEF ESTypeOK, TableTypeOK
    <3>2. CASE d = lastId + 1
      BY <2>1, <2>2, <2>3, <3>1, <3>2
    <3>3. CASE d # lastId + 1
      <4>1. d \in held /\ o \in group[d] \ ignored[d]
        BY <2>1, <2>2, <2>4, <3>3
      <4>2. d \in LiveGroups(o)
        BY <4>1 DEF LiveGroups
      <4>3. o \notin executing
        BY <3>1, <4>2 DEF Once
      <4> QED
        BY <2>3, <3>1, <4>1, <4>3 DEF TableOK
    <3> QED
      BY <3>2, <3>3
  <2> QED
    BY <2>5, <2>6, <2>7, <2>8 DEF TableOK
<1>4. CASE StartBuild
  <2>1. ready # <<>> /\ Head(ready) = ready[1] /\ 1 \in 1..Len(ready)
    BY <1>4 DEF ESTypeOK, StartBuild
  <2>2. Head(ready).id \in 1..lastId
    BY <1>4, <2>1 DEF LoopOK, CallbackOK, StartBuild
  <2> QED
    BY <1>4, <2>2 DEF TableOK, StartBuild, tableVars
<1>5. ASSUME NEW d \in Ids, WorkerLost(d)
      PROVE  TableOK'
  <2>1. EndOf({d}) /\ UNCHANGED started
    BY <1>5 DEF WorkerLost, LoseLive, LoseWhole
  <2> QED
    BY <2>1, EndTable
<1>6. ASSUME NEW d \in Ids, NEW bad \in SUBSET Ops, ActionFinished(d, bad)
      PROVE  TableOK'
  BY <1>6, EndTable DEF ActionFinished, Take
<1>7. ASSUME NEW d \in Ids, JobGroupError(d)
      PROVE  TableOK'
  BY <1>7, EndTable DEF JobGroupError, Drop
<1>8. CASE IgnoreOnThread
  <2>1. PICK o \in sec.at : IgnoreOp(o)
    BY <1>8 DEF IgnoreOnThread
  <2>2. o \in Ops
    BY DEF ESTypeOK, Section
  <2> QED
    BY <1>8, <2>1, <2>2, IgnoreTable DEF IgnoreOnThread
<1> QED
  <2>1. \/ UNCHANGED <<tableVars, started>>
        \/ ApplyLoopAction \/ Execute \/ StartBuild \/ IgnoreOnThread
        \/ \E d \in Ids : WorkerLost(d) \/ JobGroupError(d)
        \/ \E d \in Ids, bad \in SUBSET Ops : ActionFinished(d, bad)
    BY DEF ESNext, LoopStep, SectionStep, esVars, ClearPending, Pop, BeginExecute,
       TakeBatch, EndFlush, EnqueueMissing, EnqueueLost, WriteResults, BeginInvalidate,
       HandDequeue, DiscardCached, EndInvalidate
  <2> QED
    BY <2>1, <1>1, <1>2, <1>3, <1>4, <1>5, <1>6, <1>7, <1>8
-----------------------------------------------------------------------------
(* Callbacks *)

\* The loop was given, after what it had, an action on the operations of P,
\* if there are any, and maybe callbacks that concern no operation.
Extends(P, act) ==
    /\ Len(ready') \in Nat /\ Len(ready') >= Len(ready)
    /\ \A i \in 1..Len(ready) : ready'[i] = ready[i]
    /\ applied' = applied
    /\ P # {} => /\ Len(ready') > Len(ready)
                 /\ ready'[Len(ready) + 1].act = act
                 /\ ready'[Len(ready) + 1].ops = P
    /\ \A i \in (Len(ready) + 1)..Len(ready') :
          i # Len(ready) + 1 \/ P = {} => ready'[i].ops = {}

\* What that does to an operation of P, and to the others.
LEMMA ExtendsOthers ==
  ASSUME ESTypeOK, NEW P, NEW act, Extends(P, act), NEW o \in Ops \ P
  PROVE  /\ ActionsOn(o)' = ActionsOn(o)
         /\ \A i \in ActionsOn(o) : ready'[i] = ready[i]
         /\ Pushes(o)' = Pushes(o)
         /\ Dequeues(o)' = Dequeues(o)
         /\ Coming(o)' = Coming(o)
<1>1. Len(ready) \in Nat
  BY DEF ESTypeOK
<1>2. ActionsOn(o)' = ActionsOn(o)
  <2>1. \A i \in 1..Len(ready') : o \in ready'[i].ops => i \in 1..Len(ready)
    BY <1>1 DEF Extends
  <2> QED
    BY <1>1, <2>1 DEF Extends, ActionsOn
<1>3. \A i \in ActionsOn(o) : ready'[i] = ready[i]
  BY DEF Extends, ActionsOn
<1>4. applied' = applied
  BY DEF Extends
<1>5. Pushes(o)' = Pushes(o) /\ Dequeues(o)' = Dequeues(o)
  BY <1>2, <1>3, <1>4 DEF Pushes, Dequeues, Unapplied
<1>6. Coming(o)' = Coming(o)
  BY <1>4, <1>5 DEF Coming, Unapplied
<1> QED
  BY <1>2, <1>3, <1>5, <1>6

LEMMA ExtendsNothing ==
  ASSUME ESTypeOK, Extends({}, "push"), NEW o \in Ops
  PROVE  /\ ActionsOn(o)' = ActionsOn(o)
         /\ \A i \in ActionsOn(o) : ready'[i] = ready[i]
         /\ Pushes(o)' = Pushes(o)
         /\ Dequeues(o)' = Dequeues(o)
         /\ Coming(o)' = Coming(o)
<1> DEFINE P == {}
<1>1. Extends(P, "push") /\ o \in Ops \ P
  OBVIOUS
<1> HIDE DEF P
<1> QED
  BY <1>1, ExtendsOthers

LEMMA ExtendsWith ==
  ASSUME ESTypeOK, LoopOK, NEW P, NEW act, Extends(P, act), NEW o \in P
  PROVE  /\ ActionsOn(o)' = ActionsOn(o) \cup {Len(ready) + 1}
         /\ \A i \in ActionsOn(o) : i < Len(ready) + 1 /\ ready'[i] = ready[i]
         /\ ready'[Len(ready) + 1].act = act
         /\ act = "push" =>
              /\ Pushes(o)' = Pushes(o) \cup {Len(ready) + 1}
              /\ Dequeues(o)' = Dequeues(o)
              /\ Coming(o)' = Coming(o) \cup
                    (IF Dequeues(o) = {} THEN {Len(ready) + 1} ELSE {})
         /\ act = "dequeue" =>
              /\ Pushes(o)' = Pushes(o)
              /\ Dequeues(o)' = Dequeues(o) \cup {Len(ready) + 1}
              /\ Coming(o)' = Coming(o)
<1> DEFINE n == Len(ready) + 1
<1>1. Len(ready) \in Nat /\ n \in Nat /\ n > Len(ready) /\ (applied => n # 1)
  BY DEF ESTypeOK, LoopOK
<1>2. /\ Len(ready') \in Nat /\ Len(ready') >= n
      /\ ready'[n].act = act /\ o \in ready'[n].ops
      /\ \A i \in (Len(ready) + 1)..Len(ready') : i # n => ready'[i].ops = {}
      /\ \A i \in 1..Len(ready) : ready'[i] = ready[i]
      /\ applied' = applied
  BY <1>1 DEF Extends
<1>3. ActionsOn(o)' = ActionsOn(o) \cup {n}
  <2>1. ASSUME NEW i \in 1..Len(ready'), i > Len(ready), i # n
        PROVE  o \notin ready'[i].ops
    BY <1>1, <1>2, <2>1
  <2> QED
    BY <1>1, <1>2, <2>1 DEF ActionsOn
<1>4. \A i \in ActionsOn(o) : i < n /\ ready'[i] = ready[i]
  BY <1>1, <1>2 DEF ActionsOn
<1> HIDE DEF n
<1>5. /\ act = "push" => Pushes(o)' = Pushes(o) \cup {n} /\ Dequeues(o)' = Dequeues(o)
      /\ act = "dequeue" => Pushes(o)' = Pushes(o) /\ Dequeues(o)' = Dequeues(o) \cup {n}
  BY <1>1, <1>2, <1>3, <1>4 DEF Pushes, Dequeues, Unapplied
<1>6. /\ \A i \in Pushes(o) \cup Dequeues(o) : i \in Nat /\ i < n
  BY <1>4 DEF Pushes, Dequeues, ActionsOn
<1>7. act = "push" => Coming(o)' = Coming(o) \cup (IF Dequeues(o) = {} THEN {n} ELSE {})
  <2> SUFFICES ASSUME act = "push"
               PROVE  Coming(o)' = Coming(o) \cup (IF Dequeues(o) = {} THEN {n} ELSE {})
    OBVIOUS
  <2>1. /\ Pushes(o)' = Pushes(o) \cup {n} /\ Dequeues(o)' = Dequeues(o)
        /\ applied' = applied
    BY <1>2, <1>5
  <2>2. CASE Dequeues(o) = {}
    BY <1>1, <2>1, <2>2 DEF Coming, Unapplied
  <2>3. CASE Dequeues(o) # {}
    <3>1. PICK m \in Dequeues(o) : ~(n < m)
      BY <1>1, <1>6, <2>3
    <3> QED
      BY <2>1, <2>3, <3>1 DEF Coming, Unapplied
  <2> QED
    BY <2>2, <2>3
<1>8. act = "dequeue" => Coming(o)' = Coming(o)
  BY <1>2, <1>5, <1>6 DEF Coming, Unapplied
<1> QED
  BY <1>2, <1>3, <1>4, <1>5, <1>7, <1>8 DEF n

\* The first callback is done: the others move up.
Shortens ==
    /\ ready # <<>> /\ ready' = Tail(ready) /\ applied' = FALSE
    /\ applied \/ Head(ready).ops = {}

LEMMA ShortensAll ==
  ASSUME ESTypeOK, Shortens
  PROVE  /\ Len(ready') \in Nat /\ Len(ready) = Len(ready') + 1
         /\ \A i \in 1..Len(ready') : ready'[i] = ready[i + 1]
         /\ Head(ready) = ready[1]
<1>1. ready \in Seq(Callbacks)
  BY DEF ESTypeOK
<1> QED
  BY <1>1 DEF Shortens

LEMMA ShortensOn ==
  ASSUME ESTypeOK, Shortens, NEW o \in Ops
  PROVE  /\ \A i \in Nat \ {0} : i \in ActionsOn(o)' <=> i + 1 \in ActionsOn(o)
         /\ \A i \in Nat \ {0} : i \in Pushes(o)' <=> i + 1 \in Pushes(o)
         /\ \A i \in Nat \ {0} : i \in Dequeues(o)' <=> i + 1 \in Dequeues(o)
         /\ \A i \in Nat \ {0} : i \in Coming(o)' <=> i + 1 \in Coming(o)
         /\ 1 \notin Dequeues(o) /\ 1 \notin Coming(o)
         /\ Dequeues(o) = {} <=> Dequeues(o)' = {}
         /\ Coming(o) = {} <=> Coming(o)' = {}
<1>1. /\ Len(ready') \in Nat /\ Len(ready) = Len(ready') + 1
      /\ \A i \in 1..Len(ready') : ready'[i] = ready[i + 1]
      /\ Head(ready) = ready[1]
  BY ShortensAll
<1>2. \A i \in Nat \ {0} : i \in ActionsOn(o)' <=> i + 1 \in ActionsOn(o)
  BY <1>1 DEF ActionsOn
<1>3. \A i \in Nat \ {0} : i \in ActionsOn(o)' => ready'[i] = ready[i + 1]
  BY <1>1 DEF ActionsOn
<1>4. \A i \in Nat \ {0} : i \in Pushes(o)' <=> i + 1 \in Pushes(o)
  BY <1>2, <1>3 DEF Pushes
<1>5. ~applied' /\ \A i \in Nat \ {0} : ~(i + 1 = 1)
  BY DEF Shortens
<1>6. \A i \in Nat \ {0} : i \in Dequeues(o)' <=> i + 1 \in Dequeues(o)
  BY <1>2, <1>3, <1>5 DEF Dequeues, Unapplied
<1>7. 1 \notin Dequeues(o) /\ 1 \notin Coming(o)
  BY <1>1 DEF Shortens, Dequeues, Coming, Pushes, ActionsOn, Unapplied
<1>8. /\ Dequeues(o) \subseteq Nat \ {0} /\ Coming(o) \subseteq Nat \ {0}
      /\ Dequeues(o)' \subseteq Nat \ {0} /\ Coming(o)' \subseteq Nat \ {0}
      /\ Pushes(o) \subseteq Nat \ {0} /\ Pushes(o)' \subseteq Nat \ {0}
  BY DEF Dequeues, Coming, Pushes, ActionsOn
<1>9. \A i \in Nat \ {0} : i \in Coming(o)' <=> i + 1 \in Coming(o)
  <2> SUFFICES ASSUME NEW i \in Nat \ {0}
               PROVE  i \in Coming(o)' <=> i + 1 \in Coming(o)
    OBVIOUS
  <2>1. (\A m \in Dequeues(o)' : i < m) <=> \A m \in Dequeues(o) : i + 1 < m
    <3>1. ASSUME \A m \in Dequeues(o)' : i < m, NEW m \in Dequeues(o)
          PROVE  i + 1 < m
      <4>1. m - 1 \in Nat \ {0} /\ (m - 1) + 1 = m
        BY <1>7, <1>8
      <4>2. m - 1 \in Dequeues(o)'
        BY <1>6, <4>1
      <4> QED
        BY <1>8, <3>1, <4>1, <4>2
    <3>2. ASSUME \A m \in Dequeues(o) : i + 1 < m, NEW m \in Dequeues(o)'
          PROVE  i < m
      <4>1. m + 1 \in Dequeues(o) /\ m \in Nat
        BY <1>6, <1>8
      <4> QED
        BY <3>2, <4>1
    <3> QED
      BY <3>1, <3>2
  <2> QED
    BY <1>4, <1>5, <2>1 DEF Coming, Unapplied
<1>10. Dequeues(o) = {} <=> Dequeues(o)' = {}
  <2>1. ASSUME NEW m \in Dequeues(o) PROVE Dequeues(o)' # {}
    <3>1. m - 1 \in Nat \ {0} /\ (m - 1) + 1 = m
      BY <1>7, <1>8
    <3> QED
      BY <1>6, <3>1
  <2> QED
    BY <1>6, <1>8, <2>1
<1>11. Coming(o) = {} <=> Coming(o)' = {}
  <2>1. ASSUME NEW m \in Coming(o) PROVE Coming(o)' # {}
    <3>1. m - 1 \in Nat \ {0} /\ (m - 1) + 1 = m
      BY <1>7, <1>8
    <3> QED
      BY <1>9, <3>1
  <2> QED
    BY <1>8, <1>9, <2>1
<1> QED
  BY <1>2, <1>4, <1>6, <1>7, <1>9, <1>10, <1>11

\* The first callback, a push or a dequeue, acts.
Applies ==
    /\ ready # <<>> /\ ready' = ready /\ ~applied /\ applied'
    /\ Head(ready).act \in {"push", "dequeue"}

LEMMA AppliesOn ==
  ASSUME ESTypeOK, PushesApart, Applies, NEW o \in Ops
  PROVE  /\ ActionsOn(o)' = ActionsOn(o) /\ Pushes(o)' = Pushes(o)
         /\ Dequeues(o)' = Dequeues(o) \ {1}
         /\ o \notin Head(ready).ops =>
              Dequeues(o)' = Dequeues(o) /\ Coming(o)' = Coming(o)
         /\ o \in Head(ready).ops /\ Head(ready).act = "push" =>
              Dequeues(o)' = Dequeues(o) /\ 1 \in Coming(o) /\ Coming(o)' = {}
         /\ o \in Head(ready).ops /\ Head(ready).act = "dequeue" => 1 \in Dequeues(o)
<1>1. Len(ready) \in Nat /\ 1 \in 1..Len(ready) /\ Head(ready) = ready[1]
  BY DEF ESTypeOK, Applies
<1>2. ActionsOn(o)' = ActionsOn(o) /\ ActionsOn(o) \subseteq Nat \ {0}
  BY DEF Applies, ActionsOn
<1>3. Pushes(o)' = Pushes(o) /\ Pushes(o) \subseteq ActionsOn(o)
  BY <1>2 DEF Applies, Pushes
<1>4. Dequeues(o)' = Dequeues(o) \ {1} /\ Dequeues(o) \subseteq ActionsOn(o)
  BY <1>2 DEF Applies, Dequeues, Unapplied
<1>5. 1 \in ActionsOn(o) <=> o \in Head(ready).ops
  BY <1>1 DEF ActionsOn
<1>6. ASSUME o \notin Head(ready).ops
      PROVE  Dequeues(o)' = Dequeues(o) /\ Coming(o)' = Coming(o)
  <2>1. Dequeues(o)' = Dequeues(o) /\ 1 \notin Pushes(o)
    BY <1>3, <1>4, <1>5, <1>6
  <2> QED
    BY <1>3, <2>1 DEF Coming, Unapplied
<1>7. ASSUME o \in Head(ready).ops, Head(ready).act = "push"
      PROVE  Dequeues(o)' = Dequeues(o) /\ 1 \in Coming(o) /\ Coming(o)' = {}
  <2>1. 1 \in Pushes(o) /\ 1 \notin Dequeues(o)
    BY <1>1, <1>5, <1>7 DEF Pushes, Dequeues
  <2>2. Dequeues(o)' = Dequeues(o)
    BY <1>4, <2>1
  <2>3. \A m \in Dequeues(o) : 1 < m
    BY <1>2, <1>4, <2>1
  <2>4. 1 \in Coming(o)
    BY <2>1, <2>3 DEF Coming, Unapplied, Applies
  <2>5. ASSUME NEW i \in Coming(o)'
        PROVE  FALSE
    <3>1. i \in Pushes(o) /\ i # 1 /\ \A m \in Dequeues(o) : i < m
      BY <1>3, <2>2, <2>5 DEF Coming, Unapplied, Applies
    <3>2. i \in Nat /\ 1 < i
      BY <1>2, <1>3, <3>1
    <3>3. \E m \in Dequeues(o) : 1 < m /\ m < i
      BY <2>1, <3>1, <3>2 DEF PushesApart
    <3> QED
      BY <1>2, <1>4, <3>1, <3>2, <3>3
  <2> QED
    BY <2>2, <2>4, <2>5
<1>8. ASSUME o \in Head(ready).ops, Head(ready).act = "dequeue"
      PROVE  1 \in Dequeues(o)
  BY <1>1, <1>5, <1>8 DEF Dequeues, Unapplied, Applies
<1> QED
  BY <1>2, <1>3, <1>4, <1>6, <1>7, <1>8

\* A section that enqueues.
LEMMA EnqueueExtends ==
  ASSUME ESTypeOK, NEW os \in SUBSET Ops, NEW cb,
         cb \in {<<>>, <<Callback("flushed", {}, NoId)>>}, Enqueue(os, cb)
  PROVE  /\ Extends({o \in os : MayEnqueue(o)}, "push")
         /\ \A i \in (Len(ready) + 1)..Len(ready') :
               ready'[i] \in {Callback("push", {o \in os : MayEnqueue(o)}, NoId),
                              Callback("flushed", {}, NoId)}
         /\ \A i \in (Len(ready) + 1)..Len(ready') :
               ready'[i] = Callback("push", {o \in os : MayEnqueue(o)}, NoId) =>
                 {o \in os : MayEnqueue(o)} # {}
<1> DEFINE P == {o \in os : MayEnqueue(o)}
           push == Callback("push", P, NoId)
           none == Callback("flushed", {}, NoId)
<1>1. /\ ready' = ready \o (IF P = {} THEN <<>> ELSE <<push>>) \o cb
      /\ applied' = applied
  BY DEF Enqueue
<1>2. /\ push.act = "push" /\ push.ops = P /\ none.ops = {} /\ none.act = "flushed"
  BY DEF Callback
<1>3. ready \in Seq(Callbacks)
  BY DEF ESTypeOK
<1> HIDE DEF P, push, none
<1>4. PICK C : ready \in Seq(C) /\ push \in C /\ none \in C
  <2>1. ready \in Seq(Callbacks \cup {push, none})
    BY <1>3
  <2> QED
    BY <2>1
<1>5. cb \in {<<>>, <<none>>}
  BY DEF none
<1>6. CASE P = {} /\ cb = <<>>
  <2>1. ready' = ready
    BY <1>1, <1>3, <1>6
  <2> QED
    BY <1>1, <1>3, <1>6, <2>1 DEF Extends, P, push, none
<1>7. CASE P = {} /\ cb = <<none>>
  <2>1. ready' = Append(ready, none)
    BY <1>1, <1>4, <1>7
  <2>2. Len(ready') = Len(ready) + 1 /\ ready'[Len(ready) + 1] = none
        /\ Len(ready) \in Nat
        /\ \A i \in 1..Len(ready) : ready'[i] = ready[i]
    BY <1>4, <2>1
  <2>3. \A i \in (Len(ready) + 1)..Len(ready') : i = Len(ready) + 1
    BY <2>2
  <2>4. none # push
    BY <1>2
  <2>5. Extends(P, "push")
    BY <1>1, <1>2, <1>7, <2>2, <2>3 DEF Extends
  <2> QED
    BY <2>2, <2>3, <2>4, <2>5, Zenon DEF P, push, none
<1>8. CASE P # {} /\ cb = <<>>
  <2>1. ready' = Append(ready, push)
    BY <1>1, <1>4, <1>8
  <2>2. Len(ready') = Len(ready) + 1 /\ ready'[Len(ready) + 1] = push
        /\ Len(ready) \in Nat
        /\ \A i \in 1..Len(ready) : ready'[i] = ready[i]
    BY <1>4, <2>1
  <2>3. \A i \in (Len(ready) + 1)..Len(ready') : i = Len(ready) + 1
    BY <2>2
  <2>4. Extends(P, "push")
    BY <1>1, <1>2, <1>8, <2>2, <2>3 DEF Extends
  <2> QED
    BY <1>8, <2>2, <2>3, <2>4, Zenon DEF P, push, none
<1>9. CASE P # {} /\ cb = <<none>>
  <2>1. ready' = Append(Append(ready, push), none)
    <3>1. ready' = (ready \o <<push>>) \o <<none>>
      BY <1>1, <1>9
    <3>2. ready \o <<push>> = Append(ready, push) /\ Append(ready, push) \in Seq(C)
      BY <1>4
    <3> DEFINE r == Append(ready, push)
    <3> HIDE DEF r
    <3>3. r \in Seq(C) => r \o <<none>> = Append(r, none)
      BY <1>4
    <3> QED
      BY <3>1, <3>2, <3>3 DEF r
  <2>2. /\ Len(ready') = Len(ready) + 2 /\ Len(ready) \in Nat
        /\ ready'[Len(ready) + 1] = push /\ ready'[Len(ready) + 2] = none
        /\ \A i \in 1..Len(ready) : ready'[i] = ready[i]
    BY <1>4, <2>1
  <2>3. \A i \in (Len(ready) + 1)..Len(ready') : i = Len(ready) + 1 \/ i = Len(ready) + 2
    BY <2>2
  <2>4. Extends(P, "push")
    <3>1. \A i \in (Len(ready) + 1)..Len(ready') :
             i # Len(ready) + 1 \/ P = {} => ready'[i].ops = {}
      BY <1>2, <1>9, <2>2, <2>3
    <3>2. Len(ready') \in Nat /\ Len(ready') > Len(ready) /\ Len(ready') >= Len(ready)
      BY <2>2
    <3>3. ready'[Len(ready) + 1].act = "push" /\ ready'[Len(ready) + 1].ops = P
      BY <1>2, <2>2
    <3> QED
      BY <1>1, <2>2, <3>1, <3>2, <3>3, Zenon DEF Extends
  <2> QED
    BY <1>9, <2>2, <2>3, <2>4, Zenon DEF P, push, none
<1> QED
  BY <1>5, <1>6, <1>7, <1>8, <1>9

\* The other steps on the loop.
LEMMA ExecuteExtends ==
  ASSUME ESTypeOK, Execute
  PROVE  /\ Extends({}, "push")
         /\ Len(ready') = Len(ready) + 1 /\ Len(ready) \in Nat
         /\ ready'[Len(ready) + 1] = Callback("build", {}, lastId + 1)
<1> DEFINE cb == Callback("build", {}, lastId + 1)
<1>1. cb.ops = {}
  BY DEF Callback
<1>2. ready' = Append(ready, cb) /\ applied' = applied
  BY DEF Execute
<1>3. ready \in Seq(Callbacks)
  BY DEF ESTypeOK
<1> HIDE DEF cb
<1>4. /\ Len(ready') = Len(ready) + 1 /\ Len(ready) \in Nat
      /\ ready'[Len(ready) + 1] = cb
      /\ \A i \in 1..Len(ready) : ready'[i] = ready[i]
  BY <1>2, <1>3
<1>5. \A i \in (Len(ready) + 1)..Len(ready') : ready'[i] = cb
  BY <1>4
<1>6. Extends({}, "push")
  BY <1>1, <1>2, <1>4, <1>5 DEF Extends
<1> QED
  BY <1>4, <1>6 DEF cb

LEMMA HandDequeueExtends ==
  ASSUME ESTypeOK, NEW o \in Ops, HandDequeue(o)
  PROVE  /\ Extends({o}, "dequeue")
         /\ Len(ready') = Len(ready) + 1 /\ Len(ready) \in Nat
         /\ ready'[Len(ready) + 1] = Callback("dequeue", {o}, NoId)
<1> DEFINE cb == Callback("dequeue", {o}, NoId)
<1>1. cb.ops = {o} /\ cb.act = "dequeue"
  BY DEF Callback
<1>2. ready' = Append(ready, cb) /\ applied' = applied
  BY DEF HandDequeue
<1>3. ready \in Seq(Callbacks)
  BY DEF ESTypeOK
<1> HIDE DEF cb
<1>4. /\ Len(ready') = Len(ready) + 1 /\ Len(ready) \in Nat
      /\ ready'[Len(ready) + 1] = cb
      /\ \A i \in 1..Len(ready) : ready'[i] = ready[i]
  BY <1>2, <1>3
<1>5. \A i \in (Len(ready) + 1)..Len(ready') : i = Len(ready) + 1
  BY <1>4
<1>6. Extends({o}, "dequeue")
  BY <1>1, <1>2, <1>4, <1>5 DEF Extends
<1> QED
  BY <1>4, <1>6 DEF cb

LEMMA LoopUnchanged ==
  ASSUME ESTypeOK, UNCHANGED <<ready, applied>>
  PROVE  Extends({}, "push")
<1>1. Len(ready) \in Nat
  BY DEF ESTypeOK
<1> QED
  BY <1>1 DEF Extends

LEMMA ApplyApplies ==
  ASSUME ApplyLoopAction
  PROVE  Applies
  BY DEF ApplyLoopAction, Applies, LoopFree

LEMMA ClearShortens ==
  ASSUME LoopOK, ClearPending
  PROVE  Shortens
  BY DEF LoopOK, ClearPending, Shortens

LEMMA StartShortens ==
  ASSUME ESTypeOK, LoopOK, StartBuild \/ EndFlush
  PROVE  Shortens
<1>1. ready # <<>> /\ ready' = Tail(ready) /\ applied' = FALSE
      /\ Head(ready).act \in {"build", "flushed"}
  BY DEF StartBuild, EndFlush, LoopFree, ESTypeOK
<1>2. Head(ready) = ready[1] /\ 1 \in 1..Len(ready)
  BY <1>1 DEF ESTypeOK
<1> QED
  BY <1>1, <1>2 DEF LoopOK, CallbackOK, Shortens

\* What the steps do to the loop, sorted by shape.
LEMMA LoopShapes ==
  ASSUME ESTypeOK, [ESNext]_esVars
  PROVE  \/ UNCHANGED <<ready, applied, pending, lastId, started>>
         \/ Execute \/ StartBuild \/ EndFlush \/ ClearPending \/ ApplyLoopAction
         \/ /\ UNCHANGED <<lastId, started>>
            /\ \E os \in SUBSET Ops :
               \E cb \in {<<>>, <<Callback("flushed", {}, NoId)>>} : Enqueue(os, cb)
         \/ \E o \in Ops : HandDequeue(o)
<1> DEFINE Goal ==
         \/ UNCHANGED <<ready, applied, pending, lastId, started>>
         \/ Execute \/ StartBuild \/ EndFlush \/ ClearPending \/ ApplyLoopAction
         \/ /\ UNCHANGED <<lastId, started>>
            /\ \E os \in SUBSET Ops :
               \E cb \in {<<>>, <<Callback("flushed", {}, NoId)>>} : Enqueue(os, cb)
         \/ \E o \in Ops : HandDequeue(o)
<1>1. \A r : Needed(r) \in SUBSET Ops
  BY DEF Needed, Testcases
<1>2. ASSUME EnqueueMissing \/ \E o \in Ops : EnqueueLost(o)
      PROVE  Goal
  BY <1>1, <1>2 DEF EnqueueMissing, EnqueueLost, tableVars
<1>3. ASSUME WriteResults
      PROVE  Goal
  BY <1>3, WriteStep DEF WriteResults, tableVars
<1>4. ASSUME NEW gone, EndInvalidate(gone)
      PROVE  Goal
  BY <1>1, <1>4 DEF EndInvalidate, tableVars
<1>5. ASSUME NEW d \in Ids, \/ WorkerLost(d) \/ JobGroupError(d)
                            \/ \E bad \in SUBSET Ops : ActionFinished(d, bad)
      PROVE  UNCHANGED <<ready, applied, pending, lastId, started>>
  <2>1. EndOf({d})
    BY <1>5 DEF WorkerLost, JobGroupError, ActionFinished, LoseLive, LoseWhole, Take, Drop
  <2> QED
    BY <1>5, <2>1 DEF EndOf, WorkerLost, JobGroupError, ActionFinished, loopVars
<1>6. ASSUME \/ \E os \in SUBSET Ops : Pop(os)
             \/ BeginExecute \/ TakeBatch \/ DiscardCached
             \/ \E scope \in Scopes : BeginInvalidate(scope)
             \/ UNCHANGED esVars
      PROVE  UNCHANGED <<ready, applied, pending, lastId, started>>
  BY <1>6 DEF Pop, BeginExecute, TakeBatch, DiscardCached, BeginInvalidate, esVars,
     loopVars, tableVars
<1>7. ASSUME IgnoreOnThread
      PROVE  UNCHANGED <<ready, applied, pending, lastId, started>>
  BY <1>7 DEF IgnoreOnThread, IgnoreOp, loopVars
<1> QED
  BY <1>2, <1>3, <1>4, <1>5, <1>6, <1>7 DEF ESNext, LoopStep, SectionStep

\* New callbacks are well formed, and their ids new.
LEMMA LoopExtends ==
  ASSUME ESTypeOK, LoopOK, NEW P, NEW act, Extends(P, act),
         UNCHANGED started, lastId' \in Nat, lastId' >= lastId,
         \A i \in (Len(ready) + 1)..Len(ready') :
            /\ CallbackOK(ready[i])'
            /\ ready'[i].id # NoId => ready'[i].id > lastId /\ i = Len(ready) + 1
  PROVE  LoopOK'
<1>1. /\ Len(ready) \in Nat /\ Len(ready') \in Nat /\ Len(ready') >= Len(ready)
      /\ \A i \in 1..Len(ready) : ready'[i] = ready[i]
      /\ applied' = applied /\ lastId \in Nat
  BY DEF Extends, ESTypeOK, TableTypeOK
<1>2. \A i \in 1..Len(ready') : i \in 1..Len(ready) \/ i \in (Len(ready) + 1)..Len(ready')
  BY <1>1
<1>3. ASSUME NEW i \in 1..Len(ready)
      PROVE  /\ CallbackOK(ready[i])'
             /\ ready[i].id # NoId => ready[i].id <= lastId
  <2>1. CallbackOK(ready[i])
    BY DEF LoopOK
  <2>2. ready[i] \in Callbacks /\ ready'[i] = ready[i]
    BY <1>1 DEF ESTypeOK
  <2>3. 1..lastId \subseteq 1..lastId'
    BY <1>1
  <2> QED
    BY <1>1, <2>1, <2>2, <2>3 DEF CallbackOK, Callbacks
<1>4. \A i \in 1..Len(ready') : CallbackOK(ready[i])'
  BY <1>2, <1>3
<1>5. ASSUME NEW i \in 1..Len(ready'), NEW j \in 1..Len(ready'),
             ready'[i].id = ready'[j].id, ready'[i].id # NoId
      PROVE  i = j
  <2>1. CASE i \in 1..Len(ready) /\ j \in 1..Len(ready)
    BY <1>1, <1>5, <2>1 DEF LoopOK
  <2>2. CASE i \in 1..Len(ready) /\ j \in (Len(ready) + 1)..Len(ready')
    <3>1. ready[i].id <= lastId /\ ready[i].id > lastId /\ ready[i] \in Callbacks
      BY <1>1, <1>3, <1>5, <2>2 DEF ESTypeOK
    <3> QED
      BY <1>1, <3>1 DEF Callbacks
  <2>3. CASE j \in 1..Len(ready) /\ i \in (Len(ready) + 1)..Len(ready')
    <3>1. ready[j].id <= lastId /\ ready[j].id > lastId /\ ready[j] \in Callbacks
      BY <1>1, <1>3, <1>5, <2>3 DEF ESTypeOK
    <3> QED
      BY <1>1, <3>1 DEF Callbacks
  <2>4. CASE i \in (Len(ready) + 1)..Len(ready') /\ j \in (Len(ready) + 1)..Len(ready')
    BY <1>5, <2>4
  <2> QED
    BY <1>2, <2>1, <2>2, <2>3, <2>4
<1>6. applied' => ready' # <<>> /\ Head(ready').act \in {"push", "dequeue"}
  <2> SUFFICES ASSUME applied
               PROVE  ready' # <<>> /\ Head(ready').act \in {"push", "dequeue"}
    BY <1>1
  <2>1. ready # <<>> /\ Head(ready).act \in {"push", "dequeue"}
    BY DEF LoopOK
  <2>2. 1 \in 1..Len(ready) /\ Head(ready) = ready[1]
    BY <2>1 DEF ESTypeOK
  <2>3. ready' # <<>> /\ Head(ready') = ready'[1]
    BY <1>1, <2>2
  <2> QED
    BY <1>1, <2>1, <2>2, <2>3
<1> QED
  BY <1>4, <1>5, <1>6 DEF LoopOK

\* The callbacks stay well formed.
LEMMA LoopStepOK ==
  ASSUME ESTypeOK, ESTypeOK', TableOK, LoopOK, SectionOK, [ESNext]_esVars
  PROVE  LoopOK'
<1>1. CASE UNCHANGED <<ready, applied, pending, lastId, started>>
  BY <1>1 DEF LoopOK, CallbackOK
<1>2. CASE Execute
  <2>1. /\ started' = started /\ lastId \in Nat /\ lastId' = lastId + 1
    BY <1>2 DEF Execute, Hand, ESTypeOK, TableTypeOK
  <2>2. /\ Extends({}, "push") /\ Len(ready') = Len(ready) + 1 /\ Len(ready) \in Nat
        /\ ready'[Len(ready) + 1] = Callback("build", {}, lastId + 1)
    BY <1>2, ExecuteExtends
  <2>3. lastId + 1 \notin started /\ lastId + 1 \in 1..lastId'
    BY <2>1 DEF TableOK
  <2>4. ASSUME NEW i \in (Len(ready) + 1)..Len(ready')
        PROVE  /\ CallbackOK(ready[i])'
               /\ ready'[i].id # NoId => ready'[i].id > lastId /\ i = Len(ready) + 1
    <3>1. i = Len(ready) + 1
      BY <2>2
    <3> QED
      BY <2>1, <2>2, <2>3, <3>1 DEF CallbackOK, Callback
  <2>5. lastId' \in Nat /\ lastId' >= lastId
    BY <2>1
  <2> QED
    BY <2>1, <2>2, <2>4, <2>5, LoopExtends
<1>3. CASE StartBuild
  <2>1. Shortens
    BY <1>3, StartShortens
  <2>2. /\ Len(ready') \in Nat /\ Len(ready) = Len(ready') + 1
        /\ \A i \in 1..Len(ready') : ready'[i] = ready[i + 1]
        /\ Head(ready) = ready[1]
    BY <2>1, ShortensAll
  <2>3. /\ started' = started \cup {ready[1].id} /\ lastId' = lastId /\ ~applied'
        /\ ready[1].act = "build"
    BY <1>3, <2>2 DEF StartBuild, LoopFree, tableVars
  <2>4. ready[1].id # NoId
    BY <2>2, <2>3 DEF LoopOK, CallbackOK
  <2>5. ASSUME NEW i \in 1..Len(ready')
        PROVE  CallbackOK(ready[i])'
    <3>1. i + 1 \in 1..Len(ready) /\ 1 \in 1..Len(ready) /\ i + 1 # 1
      BY <2>2
    <3>2. CallbackOK(ready[i + 1]) /\ ready'[i] = ready[i + 1]
      BY <2>2, <3>1 DEF LoopOK
    <3>3. ready[i + 1].id # ready[1].id
      BY <2>4, <3>1 DEF LoopOK
    <3> QED
      BY <2>3, <3>2, <3>3 DEF CallbackOK
  <2>6. ASSUME NEW i \in 1..Len(ready'), NEW j \in 1..Len(ready'),
               ready'[i].id = ready'[j].id, ready'[i].id # NoId
        PROVE  i = j
    <3>1. i + 1 = j + 1
      BY <2>2, <2>6 DEF LoopOK
    <3> QED
      BY <3>1
  <2> QED
    BY <2>3, <2>5, <2>6 DEF LoopOK
<1>4. CASE EndFlush \/ ClearPending
  <2>1. Shortens
    BY <1>4, StartShortens, ClearShortens
  <2>2. /\ Len(ready') \in Nat /\ Len(ready) = Len(ready') + 1
        /\ \A i \in 1..Len(ready') : ready'[i] = ready[i + 1]
    BY <2>1, ShortensAll
  <2>3. started' = started /\ lastId' = lastId /\ ~applied'
    BY <1>4, <2>1 DEF Shortens, EndFlush, ClearPending, tableVars
  <2>5. ASSUME NEW i \in 1..Len(ready')
        PROVE  CallbackOK(ready[i])'
    <3>1. i + 1 \in 1..Len(ready)
      BY <2>2
    <3>2. CallbackOK(ready[i + 1]) /\ ready'[i] = ready[i + 1]
      BY <2>2, <3>1 DEF LoopOK
    <3> QED
      BY <2>3, <3>2 DEF CallbackOK
  <2>6. ASSUME NEW i \in 1..Len(ready'), NEW j \in 1..Len(ready'),
               ready'[i].id = ready'[j].id, ready'[i].id # NoId
        PROVE  i = j
    <3>1. i + 1 = j + 1
      BY <2>2, <2>6 DEF LoopOK
    <3> QED
      BY <3>1
  <2> QED
    BY <2>3, <2>5, <2>6 DEF LoopOK
<1>5. CASE ApplyLoopAction
  <2>1. ready' = ready /\ started' = started /\ ready # <<>>
        /\ Head(ready).act \in {"push", "dequeue"}
    BY <1>5, ApplyApplies DEF ApplyLoopAction, Applies
  <2>2. lastId' = lastId
    BY <1>5 DEF ApplyLoopAction, DequeueAndIgnore, IgnoreOp, tableVars
  <2> QED
    BY <2>1, <2>2 DEF LoopOK, CallbackOK
<1>6. ASSUME UNCHANGED <<lastId, started>>, NEW os \in SUBSET Ops,
             NEW cb \in {<<>>, <<Callback("flushed", {}, NoId)>>}, Enqueue(os, cb)
      PROVE  LoopOK'
  <2> DEFINE P == {o \in os : MayEnqueue(o)}
  <2>1. /\ Extends(P, "push")
        /\ \A i \in (Len(ready) + 1)..Len(ready') :
              ready'[i] \in {Callback("push", P, NoId), Callback("flushed", {}, NoId)}
        /\ \A i \in (Len(ready) + 1)..Len(ready') :
              ready'[i] = Callback("push", P, NoId) => P # {}
    BY <1>6, EnqueueExtends
  <2> HIDE DEF P
  <2>2. ASSUME NEW i \in (Len(ready) + 1)..Len(ready')
        PROVE  /\ CallbackOK(ready[i])'
               /\ ready'[i].id # NoId => ready'[i].id > lastId /\ i = Len(ready) + 1
    <3>1. \/ ready'[i] = Callback("push", P, NoId) /\ P # {}
          \/ ready'[i] = Callback("flushed", {}, NoId)
      BY <2>1
    <3> QED
      BY <3>1 DEF CallbackOK, Callback
  <2>3. lastId' \in Nat /\ lastId' >= lastId
    BY <1>6 DEF ESTypeOK, TableTypeOK
  <2> QED
    BY <1>6, <2>1, <2>2, <2>3, LoopExtends
<1>7. ASSUME NEW o \in Ops, HandDequeue(o)
      PROVE  LoopOK'
  <2>1. /\ Extends({o}, "dequeue") /\ Len(ready') = Len(ready) + 1 /\ Len(ready) \in Nat
        /\ ready'[Len(ready) + 1] = Callback("dequeue", {o}, NoId)
    BY <1>7, HandDequeueExtends
  <2>2. ASSUME NEW i \in (Len(ready) + 1)..Len(ready')
        PROVE  /\ CallbackOK(ready[i])'
               /\ ready'[i].id # NoId => ready'[i].id > lastId /\ i = Len(ready) + 1
    <3>1. i = Len(ready) + 1
      BY <2>1
    <3> QED
      BY <2>1, <3>1 DEF CallbackOK, Callback
  <2>3. lastId' \in Nat /\ lastId' >= lastId /\ started' = started
    BY <1>7 DEF ESTypeOK, TableTypeOK, HandDequeue, tableVars
  <2> QED
    BY <2>1, <2>2, <2>3, LoopExtends
<1> QED
  BY <1>1, <1>2, <1>3, <1>4, <1>5, <1>6, <1>7, LoopShapes
-----------------------------------------------------------------------------
(* The marks of _pending_operations *)

\* There are finitely many actions, and they are positions of the loop's list.
LEMMA ActionsFinite ==
  ASSUME ESTypeOK, NEW o
  PROVE  /\ IsFiniteSet(ActionsOn(o)) /\ Cardinality(ActionsOn(o)) \in Nat
         /\ ActionsOn(o) \subseteq 1..Len(ready) /\ Len(ready) \in Nat
<1>1. Len(ready) \in Nat /\ ActionsOn(o) \in SUBSET (1..Len(ready))
  BY DEF ESTypeOK, ActionsOn
<1>2. IsFiniteSet(1..Len(ready))
  BY <1>1, FS_Interval
<1>3. IsFiniteSet(ActionsOn(o))
  BY <1>1, <1>2, FS_Subset
<1> QED
  BY <1>1, <1>3, FS_CardinalityType

\* The mark of an operation says what the loop has to do with it.
Marked(o) ==
    /\ pending[o].count = Cardinality(ActionsOn(o))
    /\ \A i \in ActionsOn(o) :
          (\A j \in ActionsOn(o) : j <= i) => pending[o].last = ready[i].act
    /\ ActionsOn(o) = {} => pending[o].last = "none"

LEMMA MarksAreMarked == MarksOK <=> \A o \in Ops : Marked(o)
  BY DEF MarksOK, PendingPredictsLoop, Marked

\* One more action on o, at the end.
LEMMA MarkedMore ==
  ASSUME ESTypeOK, LoopOK, NEW P, NEW act, Extends(P, act), NEW o \in Ops, Marked(o),
         pending'[o] = IF o \in P THEN [last |-> act, count |-> pending[o].count + 1]
                                  ELSE pending[o]
  PROVE  Marked(o)'
<1>1. CASE o \notin P
  BY <1>1, ExtendsOthers DEF Marked
<1>2. CASE o \in P
  <2> DEFINE n == Len(ready) + 1
  <2>1. /\ ActionsOn(o)' = ActionsOn(o) \cup {n} /\ ready'[n].act = act
        /\ \A i \in ActionsOn(o) : i < n
    BY <1>2, ExtendsWith
  <2>2. IsFiniteSet(ActionsOn(o)) /\ n \in Nat /\ ActionsOn(o) \subseteq 1..Len(ready)
        /\ Len(ready) \in Nat
    BY ActionsFinite
  <2> HIDE DEF n
  <2>3. n \notin ActionsOn(o)
    BY <2>1, <2>2
  <2>4. Cardinality(ActionsOn(o)') = Cardinality(ActionsOn(o)) + 1
    BY <2>1, <2>2, <2>3, FS_AddElement
  <2>5. pending'[o].count = Cardinality(ActionsOn(o)') /\ pending'[o].last = act
    BY <1>2, <2>4 DEF Marked
  <2>6. ASSUME NEW i \in ActionsOn(o)', \A j \in ActionsOn(o)' : j <= i
        PROVE  i = n
    BY <2>1, <2>2, <2>6
  <2> QED
    BY <2>1, <2>5, <2>6 DEF Marked
<1> QED
  BY <1>1, <1>2

\* The first callback is gone, and with it its mark.
LEMMA MarkedLess ==
  ASSUME ESTypeOK, Shortens, NEW o \in Ops, Marked(o),
         pending'[o] = IF o \notin Head(ready).ops THEN pending[o]
                       ELSE IF pending[o].count <= 1 THEN NoPending
                       ELSE [pending[o] EXCEPT !.count = @ - 1]
  PROVE  Marked(o)'
<1>1. /\ Len(ready') \in Nat /\ Len(ready) = Len(ready') + 1
      /\ \A i \in 1..Len(ready') : ready'[i] = ready[i + 1]
      /\ Head(ready) = ready[1]
  BY ShortensAll
<1>2. \A i \in Nat \ {0} : i \in ActionsOn(o)' <=> i + 1 \in ActionsOn(o)
  BY ShortensOn
<1>3. /\ IsFiniteSet(ActionsOn(o)) /\ Cardinality(ActionsOn(o)) \in Nat
      /\ ActionsOn(o) \subseteq Nat \ {0}
  BY ActionsFinite
<1>4. ActionsOn(o)' \subseteq Nat \ {0}
      /\ \A i \in ActionsOn(o)' : ready'[i] = ready[i + 1]
  BY <1>1 DEF ActionsOn
<1>5. 1 \in ActionsOn(o) <=> o \in Head(ready).ops
  BY <1>1 DEF ActionsOn
<1> DEFINE A == ActionsOn(o)
           B == ActionsOn(o)'
<1> HIDE DEF A, B
<1>6. IsFiniteSet(B) /\ Cardinality(B) = Cardinality(A \ {1})
  <2> DEFINE f == [i \in A \ {1} |-> i - 1]
  <2>1. \A i \in A \ {1} : i - 1 \in B
    <3> SUFFICES ASSUME NEW i \in A \ {1} PROVE i - 1 \in B
      OBVIOUS
    <3>1. i - 1 \in Nat \ {0} /\ (i - 1) + 1 = i
      BY <1>3 DEF A
    <3> QED
      BY <1>2, <3>1 DEF A, B
  <2>2. f \in [A \ {1} -> B]
    BY <2>1
  <2>3. \A i, j \in A \ {1} : f[i] = f[j] => i = j
    BY <1>3 DEF A
  <2>4. \A j \in B : \E i \in A \ {1} : f[i] = j
    <3> SUFFICES ASSUME NEW j \in B PROVE \E i \in A \ {1} : f[i] = j
      OBVIOUS
    <3>1. j \in Nat \ {0} /\ j + 1 \in A /\ j + 1 # 1 /\ (j + 1) - 1 = j
      BY <1>2, <1>4 DEF A, B
    <3> QED
      BY <3>1
  <2>5. f \in Bijection(A \ {1}, B)
    BY <2>2, <2>3, <2>4 DEF Bijection, Injection, Surjection, IsInjective
  <2>6. ExistsBijection(A \ {1}, B)
    BY <2>5 DEF ExistsBijection
  <2>7. IsFiniteSet(A \ {1})
    BY <1>3, FS_RemoveElement DEF A
  <2> QED
    BY <2>6, <2>7, FS_Bijection
<1>7. Cardinality(A \ {1}) = IF 1 \in A THEN Cardinality(A) - 1 ELSE Cardinality(A)
  BY <1>3, FS_RemoveElement DEF A
<1>8. ASSUME NEW i \in B, \A j \in B : j <= i
      PROVE  i + 1 \in A /\ \A j \in A : j <= i + 1
  <2>1. i \in Nat \ {0} /\ i + 1 \in A
    BY <1>2, <1>4 DEF A, B
  <2>2. ASSUME NEW j \in A, j # 1
        PROVE  j <= i + 1
    <3>1. j - 1 \in Nat \ {0} /\ (j - 1) + 1 = j
      BY <1>3, <2>2 DEF A
    <3>2. j - 1 \in B
      BY <1>2, <3>1 DEF A, B
    <3> QED
      BY <1>8, <2>1, <3>1, <3>2
  <2> QED
    BY <2>1, <2>2
<1>9. CASE o \notin Head(ready).ops
  <2>1. pending'[o] = pending[o] /\ 1 \notin A
    BY <1>5, <1>9 DEF A
  <2>2. A = {} <=> B = {}
    <3>1. ASSUME NEW j \in A PROVE B # {}
      <4>1. j - 1 \in Nat \ {0} /\ (j - 1) + 1 = j
        BY <1>3, <2>1 DEF A
      <4> QED
        BY <1>2, <4>1 DEF A, B
    <3> QED
      BY <1>2, <1>4, <3>1 DEF A, B
  <2>3. /\ pending[o].count = Cardinality(A)
        /\ \A i \in A : (\A j \in A : j <= i) => pending[o].last = ready[i].act
        /\ A = {} => pending[o].last = "none"
    BY DEF Marked, A
  <2>4. /\ pending'[o].count = Cardinality(B)
        /\ \A i \in B : (\A j \in B : j <= i) => pending'[o].last = ready[i + 1].act
        /\ B = {} => pending'[o].last = "none"
    BY <1>6, <1>7, <1>8, <2>1, <2>2, <2>3
  <2> QED
    BY <1>4, <2>4 DEF Marked, B
<1>10. CASE o \in Head(ready).ops
  <2>1. 1 \in A /\ pending[o].count = Cardinality(A) /\ pending[o] \in
        [last : {"none", "push", "dequeue"}, count : Nat]
    BY <1>5, <1>10 DEF A, Marked, ESTypeOK
  <2>2. Cardinality(B) = Cardinality(A) - 1 /\ Cardinality(A) \in Nat
        /\ Cardinality(B) \in Nat
    BY <1>3, <1>6, <1>7, <2>1, FS_CardinalityType DEF A
  <2>3. \A i \in A : (\A j \in A : j <= i) => pending[o].last = ready[i].act
    BY DEF Marked, A
  <2>4. CASE pending[o].count <= 1
    <3>1. pending'[o] = NoPending /\ Cardinality(B) = 0
      BY <1>10, <2>1, <2>2, <2>4
    <3>2. B = {}
      BY <1>6, <3>1, FS_EmptySet
    <3>3. pending'[o].count = Cardinality(B) /\ pending'[o].last = "none"
      <4>1. NoPending.count = 0 /\ NoPending.last = "none"
        BY DEF NoPending
      <4> QED
        BY <3>1, <4>1, Zenon
    <3> QED
      BY <3>2, <3>3 DEF Marked, B
  <2>5. CASE pending[o].count > 1
    <3>1. pending'[o].last = pending[o].last /\ pending'[o].count = pending[o].count - 1
      BY <1>10, <2>1, <2>5
    <3>2. B # {}
      BY <2>1, <2>2, <2>5, FS_EmptySet
    <3>3. /\ pending'[o].count = Cardinality(B)
          /\ \A i \in B : (\A j \in B : j <= i) => pending'[o].last = ready[i + 1].act
      BY <1>8, <2>1, <2>2, <2>3, <3>1
    <3> QED
      BY <1>4, <3>2, <3>3 DEF Marked, B
  <2> QED
    BY <2>1, <2>4, <2>5
<1> QED
  BY <1>9, <1>10

\* _pending_operations predicts the loop, after every step.
LEMMA MarksStep ==
  ASSUME ESTypeOK, LoopOK, MarksOK, [ESNext]_esVars
  PROVE  MarksOK'
<1> SUFFICES ASSUME NEW o \in Ops
             PROVE  Marked(o)'
  BY DEF MarksOK, PendingPredictsLoop, Marked
<1>0. Marked(o)
  BY MarksAreMarked
<1>1. CASE UNCHANGED <<ready, applied, pending, lastId, started>>
  BY <1>0, <1>1 DEF Marked, ActionsOn
<1>2. CASE Execute
  <2>1. pending' = pending
    BY <1>2 DEF Execute
  <2>2. Extends({}, "push")
    BY <1>2, ExecuteExtends
  <2> QED
    BY <1>0, <2>1, <2>2, ExtendsNothing DEF Marked
<1>3. CASE StartBuild \/ EndFlush
  <2>1. Shortens /\ pending' = pending /\ ~applied
    BY <1>3, StartShortens DEF StartBuild, EndFlush, LoopFree
  <2>2. o \notin Head(ready).ops
    BY <2>1 DEF Shortens
  <2> QED
    BY <1>0, <2>1, <2>2, MarkedLess
<1>4. CASE ClearPending
  <2>1. Shortens
    BY <1>4, ClearShortens
  <2>2. pending'[o] = IF o \notin Head(ready).ops THEN pending[o]
                      ELSE IF pending[o].count <= 1 THEN NoPending
                      ELSE [pending[o] EXCEPT !.count = @ - 1]
    BY <1>4, Zenon DEF ClearPending, Cleared
  <2> QED
    BY <1>0, <2>1, <2>2, MarkedLess
<1>5. CASE ApplyLoopAction
  <2>1. UNCHANGED <<ready, pending>>
    BY <1>5 DEF ApplyLoopAction
  <2> QED
    BY <1>0, <2>1 DEF Marked, ActionsOn
<1>6. ASSUME NEW os \in SUBSET Ops,
             NEW cb \in {<<>>, <<Callback("flushed", {}, NoId)>>}, Enqueue(os, cb)
      PROVE  Marked(o)'
  <2> DEFINE P == {p \in os : MayEnqueue(p)}
  <2>1. Extends(P, "push")
    BY <1>6, EnqueueExtends
  <2>2. pending' = Recorded(P, "push")
    BY <1>6, Zenon DEF Enqueue
  <2> HIDE DEF P
  <2> QED
    BY <1>0, <2>1, <2>2, MarkedMore DEF Recorded
<1>7. ASSUME NEW p \in Ops, HandDequeue(p)
      PROVE  Marked(o)'
  <2>1. pending' = Recorded({p}, "dequeue")
    BY <1>7 DEF HandDequeue
  <2> QED
    BY <1>0, <1>7, <2>1, HandDequeueExtends, MarkedMore DEF Recorded
<1> QED
  BY <1>1, <1>2, <1>3, <1>4, <1>5, <1>6, <1>7, LoopShapes
-----------------------------------------------------------------------------
(* The section *)

\* The section in progress stays well formed.
LEMMA SectionStepOK ==
  ASSUME ESTypeOK, SectionOK, [ESNext]_esVars
  PROVE  SectionOK'
<1>1. CASE UNCHANGED <<sec, dequeued, epoch>>
  BY <1>1 DEF SectionOK
<1>2. ASSUME NEW scope \in Scopes, BeginInvalidate(scope)
      PROVE  SectionOK'
  <2>1. /\ sec = Free /\ dequeued' = dequeued /\ epoch' = epoch
        /\ \A o \in Ops : epoch[o] < MaxInvalidations
        /\ sec' = [pc |-> IF scope = {} THEN "discard" ELSE "dequeue",
                   scope |-> scope, todo |-> scope, at |-> {}]
    BY <1>2 DEF BeginInvalidate, LockFree, dbVars
  <2>2. dequeued = {}
    BY <2>1 DEF SectionOK, Free
  <2> QED
    BY <2>1, <2>2 DEF SectionOK
<1>3. ASSUME NEW o \in Ops, HandDequeue(o)
      PROVE  SectionOK'
  <2>1. /\ sec.pc = "dequeue" /\ o \in sec.todo /\ dequeued' = dequeued \cup {o}
        /\ epoch' = epoch /\ sec \in Section
        /\ sec' = [sec EXCEPT !.pc = "ignore", !.at = {o}, !.todo = @ \ {o}]
    BY <1>3 DEF HandDequeue, dbVars, ESTypeOK
  <2>2. /\ sec'.pc = "ignore" /\ sec'.at = {o} /\ sec'.todo = sec.todo \ {o}
        /\ sec'.scope = sec.scope
    BY <2>1 DEF Section
  <2>3. dequeued' = sec'.scope \ sec'.todo /\ sec'.todo \subseteq sec'.scope
    BY <2>1, <2>2 DEF SectionOK
  <2> QED
    BY <2>1, <2>2, <2>3 DEF SectionOK
<1>4. CASE IgnoreOnThread
  <2>1. /\ sec.pc = "ignore" /\ dequeued' = dequeued /\ epoch' = epoch /\ sec \in Section
        /\ sec' = [sec EXCEPT !.pc = IF sec.todo = {} THEN "discard" ELSE "dequeue",
                              !.at = {}]
    BY <1>4 DEF IgnoreOnThread, dbVars, ESTypeOK
  <2>2. /\ sec'.pc = IF sec.todo = {} THEN "discard" ELSE "dequeue"
        /\ sec'.at = {} /\ sec'.todo = sec.todo /\ sec'.scope = sec.scope
    BY <2>1 DEF Section
  <2> QED
    BY <2>1, <2>2 DEF SectionOK
<1>5. CASE DiscardCached
  <2>1. /\ sec.pc = "discard" /\ dequeued' = dequeued /\ epoch' = epoch /\ sec \in Section
        /\ sec' = [sec EXCEPT !.pc = "commit"]
    BY <1>5 DEF DiscardCached, dbVars, ESTypeOK
  <2>2. /\ sec'.pc = "commit" /\ sec'.at = sec.at /\ sec'.todo = sec.todo
        /\ sec'.scope = sec.scope
    BY <2>1 DEF Section
  <2> QED
    BY <2>1, <2>2 DEF SectionOK
<1>6. ASSUME NEW gone, EndInvalidate(gone)
      PROVE  SectionOK'
  BY <1>6 DEF EndInvalidate, SectionOK, Free
<1> QED
  <2>1. \/ UNCHANGED <<sec, dequeued, epoch>>
        \/ \E scope \in Scopes : BeginInvalidate(scope)
        \/ \E o \in Ops : HandDequeue(o)
        \/ IgnoreOnThread \/ DiscardCached
        \/ \E gone \in Wiped(sec.scope) : EndInvalidate(gone)
    BY DEF ESNext, LoopStep, SectionStep, esVars, secVars, dbVars, ApplyLoopAction,
       ClearPending, Pop, BeginExecute, Execute, StartBuild, WorkerLost, TakeBatch,
       EndFlush, EnqueueMissing, EnqueueLost, ActionFinished, JobGroupError, WriteResults
  <2> QED
    BY <1>1, <1>2, <1>3, <1>4, <1>5, <1>6, <2>1
-----------------------------------------------------------------------------
(* Pushes and dequeues *)

\* Natural numbers have a least one.
LEMMA LeastNatural ==
  ASSUME NEW S \in SUBSET Nat, S # {}
  PROVE  \E n \in S : \A k \in S : n <= k
<1> DEFINE R == {ss \in Nat \X Nat : ss[1] < ss[2]}
<1>1. IsWellFoundedOn(R, Nat)
  BY NatLessThanWellFounded, Zenon DEF OpToRel
<1>2. PICK n \in S : \A k \in S : ~(<<k, n>> \in R)
  <2> HIDE DEF R
  <2> QED
    BY <1>1, WFMin
<1>3. \A k \in S : ~(k < n)
  BY <1>2
<1> QED
  BY <1>3

\* A mark that is not of a push is of a dequeue behind every push.
LEMMA LastAction ==
  ASSUME ESTypeOK, LoopOK, MarksOK, NEW o \in Ops, pending[o].last # "push"
  PROVE  /\ pending[o].last = "none" => ActionsOn(o) = {}
         /\ \A i \in Pushes(o) : \E m \in Dequeues(o) : i < m
         /\ ActionsOn(o) # {} =>
              \E m \in ActionsOn(o) : ready[m].act = "dequeue" /\
                 \A j \in ActionsOn(o) : j <= m
<1>1. /\ ActionsOn(o) \subseteq 1..Len(ready) /\ Len(ready) \in Nat
  BY ActionsFinite
<1>2. /\ \A i \in ActionsOn(o) :
            (\A j \in ActionsOn(o) : j <= i) => pending[o].last = ready[i].act
      /\ ActionsOn(o) = {} => pending[o].last = "none"
  BY DEF MarksOK, PendingPredictsLoop
<1>3. \A i \in ActionsOn(o) : ready[i].act \in {"push", "dequeue"}
  <2> SUFFICES ASSUME NEW i \in ActionsOn(o)
               PROVE  ready[i].act \in {"push", "dequeue"}
    OBVIOUS
  <2>1. CallbackOK(ready[i]) /\ o \in ready[i].ops /\ ready[i] \in Callbacks
    BY <1>1 DEF LoopOK, ActionsOn, ESTypeOK
  <2> QED
    BY <2>1 DEF CallbackOK, Callbacks
<1>4. ASSUME ActionsOn(o) # {}
      PROVE  \E m \in ActionsOn(o) : \A j \in ActionsOn(o) : j <= m
  <2> DEFINE S == {Len(ready) - i : i \in ActionsOn(o)}
  <2>1. S \in SUBSET Nat /\ S # {}
    BY <1>1, <1>4
  <2>2. PICK n \in S : \A k \in S : n <= k
    BY <2>1, LeastNatural
  <2>3. PICK m \in ActionsOn(o) : n = Len(ready) - m
    OBVIOUS
  <2>4. ASSUME NEW j \in ActionsOn(o)
        PROVE  j <= m
    <3>1. Len(ready) - j \in S /\ j \in Nat /\ m \in Nat
      BY <1>1
    <3>2. Len(ready) - m <= Len(ready) - j
      BY <2>2, <2>3, <3>1
    <3> QED
      BY <1>1, <3>1, <3>2
  <2> QED
    BY <2>4
<1>5. ASSUME ActionsOn(o) # {}
      PROVE  \E m \in ActionsOn(o) : ready[m].act = "dequeue" /\
                \A j \in ActionsOn(o) : j <= m
  BY <1>2, <1>3, <1>4, <1>5
<1>6. ASSUME NEW i \in Pushes(o)
      PROVE  \E m \in Dequeues(o) : i < m
  <2>1. i \in ActionsOn(o) /\ ready[i].act = "push"
    BY DEF Pushes
  <2>2. PICK m \in ActionsOn(o) : ready[m].act = "dequeue" /\
                \A j \in ActionsOn(o) : j <= m
    BY <1>5, <2>1
  <2>3. i < m /\ m # 1
    BY <1>1, <2>1, <2>2
  <2> QED
    BY <2>2, <2>3 DEF Dequeues, Unapplied
<1> QED
  BY <1>2, <1>3, <1>5, <1>6

\* A section that enqueues has forgotten, by then, what it has dequeued.
LEMMA SectionShapes ==
  ASSUME ESTypeOK, SectionOK, [ESNext]_esVars
  PROVE  \/ UNCHANGED <<ready, applied, dequeued>>
         \/ Execute \/ StartBuild \/ EndFlush \/ ClearPending \/ ApplyLoopAction
         \/ dequeued' = {} /\ \E os \in SUBSET Ops :
              \E cb \in {<<>>, <<Callback("flushed", {}, NoId)>>} : Enqueue(os, cb)
         \/ \E p \in Ops : HandDequeue(p)
<1> DEFINE Goal ==
         dequeued' = {} /\ \E os \in SUBSET Ops :
            \E cb \in {<<>>, <<Callback("flushed", {}, NoId)>>} : Enqueue(os, cb)
<1>1. \A r : Needed(r) \in SUBSET Ops
  BY DEF Needed, Testcases
<1>2. LockFree => dequeued = {}
  BY DEF LockFree, SectionOK, Free
<1>3. ASSUME EnqueueMissing \/ \E o \in Ops : EnqueueLost(o)
      PROVE  Goal
  BY <1>1, <1>2, <1>3 DEF EnqueueMissing, EnqueueLost, secVars
<1>4. ASSUME WriteResults
      PROVE  Goal
  BY <1>2, <1>4, WriteStep DEF WriteResults, secVars
<1>5. ASSUME NEW gone, EndInvalidate(gone)
      PROVE  Goal
  BY <1>1, <1>5 DEF EndInvalidate
<1>6. ASSUME NEW d \in Ids, \/ WorkerLost(d) \/ JobGroupError(d)
                            \/ \E bad \in SUBSET Ops : ActionFinished(d, bad)
      PROVE  UNCHANGED <<ready, applied, dequeued>>
  BY <1>6 DEF WorkerLost, JobGroupError, ActionFinished, loopVars, secVars
<1>7. ASSUME \/ \E os \in SUBSET Ops : Pop(os)
             \/ BeginExecute \/ TakeBatch \/ DiscardCached \/ IgnoreOnThread
             \/ \E scope \in Scopes : BeginInvalidate(scope)
             \/ UNCHANGED esVars
      PROVE  UNCHANGED <<ready, applied, dequeued>>
  BY <1>7 DEF Pop, BeginExecute, TakeBatch, DiscardCached, BeginInvalidate, esVars,
     IgnoreOnThread, loopVars, secVars
<1> QED
  BY <1>3, <1>4, <1>5, <1>6, <1>7 DEF ESNext, LoopStep, SectionStep

\* Two pushes of an operation stay apart.
LEMMA PushesStep ==
  ASSUME ESTypeOK, LoopOK, MarksOK, SectionOK, PushesApart, [ESNext]_esVars
  PROVE  PushesApart'
<1> SUFFICES ASSUME NEW o \in Ops
             PROVE  /\ \A i, j \in Pushes(o)' : i < j =>
                          \E m \in Dequeues(o)' : i < m /\ m < j
                    /\ o \in dequeued' => \A i \in Pushes(o)' :
                          \E m \in ActionsOn(o)' : i < m /\ ready'[m].act = "dequeue"
  BY DEF PushesApart
<1>0. /\ \A i, j \in Pushes(o) : i < j => \E m \in Dequeues(o) : i < m /\ m < j
      /\ o \in dequeued => \A i \in Pushes(o) :
            \E m \in ActionsOn(o) : i < m /\ ready[m].act = "dequeue"
  BY DEF PushesApart
<1>1. CASE UNCHANGED <<ready, applied, dequeued>>
  BY <1>0, <1>1 DEF Pushes, Dequeues, ActionsOn, Unapplied
<1>2. CASE Execute
  <2>1. Extends({}, "push") /\ dequeued' = dequeued
    BY <1>2, ExecuteExtends DEF Execute, secVars
  <2> QED
    BY <1>0, <2>1, ExtendsNothing
<1>3. CASE StartBuild \/ EndFlush \/ ClearPending
  <2>1. Shortens /\ dequeued' = dequeued
    BY <1>3, StartShortens, ClearShortens DEF StartBuild, EndFlush, ClearPending, secVars
  <2>2. /\ \A i \in Nat \ {0} : i \in ActionsOn(o)' <=> i + 1 \in ActionsOn(o)
        /\ \A i \in Nat \ {0} : i \in Pushes(o)' <=> i + 1 \in Pushes(o)
        /\ \A i \in Nat \ {0} : i \in Dequeues(o)' <=> i + 1 \in Dequeues(o)
    BY <2>1, ShortensOn
  <2>3. \A i \in 1..Len(ready') : ready'[i] = ready[i + 1]
    BY <2>1, ShortensAll
  <2>4. /\ Pushes(o)' \subseteq Nat \ {0}
        /\ ActionsOn(o) \subseteq Nat \ {0} /\ Dequeues(o) \subseteq Nat \ {0}
        /\ ActionsOn(o)' \subseteq 1..Len(ready')
    BY DEF Pushes, ActionsOn, Dequeues
  <2>5. ASSUME NEW i \in Pushes(o)', NEW j \in Pushes(o)', i < j
        PROVE  \E m \in Dequeues(o)' : i < m /\ m < j
    <3>1. PICK m \in Dequeues(o) : i + 1 < m /\ m < j + 1
      BY <1>0, <2>2, <2>4, <2>5
    <3>2. m - 1 \in Nat \ {0} /\ (m - 1) + 1 = m /\ i < m - 1 /\ m - 1 < j
      BY <2>4, <3>1
    <3>3. m - 1 \in Dequeues(o)'
      BY <2>2, <3>2
    <3> QED
      BY <3>2, <3>3
  <2>6. ASSUME o \in dequeued', NEW i \in Pushes(o)'
        PROVE  \E m \in ActionsOn(o)' : i < m /\ ready'[m].act = "dequeue"
    <3>1. PICK m \in ActionsOn(o) : i + 1 < m /\ ready[m].act = "dequeue"
      BY <1>0, <2>1, <2>2, <2>4, <2>6
    <3>2. m - 1 \in Nat \ {0} /\ (m - 1) + 1 = m /\ i < m - 1
      BY <2>4, <3>1
    <3>3. m - 1 \in ActionsOn(o)'
      BY <2>2, <3>2
    <3>4. ready'[m - 1] = ready[m]
      BY <2>3, <2>4, <3>2, <3>3
    <3> QED
      BY <3>1, <3>2, <3>3, <3>4
  <2> QED
    BY <2>5, <2>6
<1>4. CASE ApplyLoopAction
  <2>1. Applies /\ dequeued' = dequeued /\ ready' = ready
    BY <1>4, ApplyApplies DEF ApplyLoopAction, secVars
  <2>2. /\ ActionsOn(o)' = ActionsOn(o) /\ Pushes(o)' = Pushes(o)
        /\ Dequeues(o)' = Dequeues(o) \ {1}
    BY <2>1, AppliesOn
  <2>3. Pushes(o) \subseteq Nat \ {0}
    BY DEF Pushes, ActionsOn
  <2> QED
    BY <1>0, <2>1, <2>2, <2>3
<1>5. ASSUME NEW os \in SUBSET Ops, dequeued' = {},
             NEW cb \in {<<>>, <<Callback("flushed", {}, NoId)>>}, Enqueue(os, cb)
      PROVE  \A i, j \in Pushes(o)' : i < j => \E m \in Dequeues(o)' : i < m /\ m < j
  <2> DEFINE P == {p \in os : MayEnqueue(p)}
  <2>1. Extends(P, "push")
    BY <1>5, EnqueueExtends
  <2>2. CASE o \notin P
    <3> HIDE DEF P
    <3> QED
      BY <1>0, <2>1, <2>2, ExtendsOthers
  <2>3. CASE o \in P
    <3>1. pending[o].last # "push"
      BY <2>3 DEF MayEnqueue
    <3> HIDE DEF P
    <3>2. /\ Pushes(o)' = Pushes(o) \cup {Len(ready) + 1}
          /\ Dequeues(o)' = Dequeues(o)
          /\ \A i \in ActionsOn(o) : i < Len(ready) + 1
      BY <2>1, <2>3, ExtendsWith
    <3>3. /\ \A i \in Pushes(o) : \E m \in Dequeues(o) : i < m
      BY <3>1, LastAction
    <3>4. Dequeues(o) \subseteq ActionsOn(o) /\ ActionsOn(o) \subseteq Nat
          /\ Pushes(o) \subseteq ActionsOn(o) /\ Len(ready) + 1 \in Nat
      BY DEF Dequeues, ActionsOn, Pushes, ESTypeOK
    <3> QED
      BY <1>0, <3>2, <3>3, <3>4
  <2> QED
    BY <2>2, <2>3
<1>6. ASSUME NEW p \in Ops, HandDequeue(p)
      PROVE  /\ \A i, j \in Pushes(o)' : i < j =>
                   \E m \in Dequeues(o)' : i < m /\ m < j
             /\ o \in dequeued' => \A i \in Pushes(o)' :
                   \E m \in ActionsOn(o)' : i < m /\ ready'[m].act = "dequeue"
  <2> DEFINE P == {p}
  <2>1. Extends(P, "dequeue") /\ dequeued' = dequeued \cup {p}
    BY <1>6, HandDequeueExtends DEF HandDequeue
  <2>2. CASE o # p
    <3>1. o \in Ops \ P
      BY <2>2
    <3> HIDE DEF P
    <3> QED
      BY <1>0, <2>1, <2>2, <3>1, ExtendsOthers
  <2>3. CASE o = p
    <3>1. o \in P
      BY <2>3
    <3> HIDE DEF P
    <3>2. /\ ActionsOn(o)' = ActionsOn(o) \cup {Len(ready) + 1}
          /\ \A i \in ActionsOn(o) : i < Len(ready) + 1
          /\ ready'[Len(ready) + 1].act = "dequeue"
          /\ Pushes(o)' = Pushes(o)
          /\ Dequeues(o)' = Dequeues(o) \cup {Len(ready) + 1}
      BY <2>1, <3>1, ExtendsWith
    <3>3. Pushes(o) \subseteq ActionsOn(o)
      BY DEF Pushes
    <3> QED
      BY <1>0, <3>2, <3>3
  <2> QED
    BY <2>2, <2>3
<1> QED
  <2>1. \/ UNCHANGED <<ready, applied, dequeued>>
        \/ Execute \/ StartBuild \/ EndFlush \/ ClearPending \/ ApplyLoopAction
        \/ dequeued' = {} /\ \E os \in SUBSET Ops :
             \E cb \in {<<>>, <<Callback("flushed", {}, NoId)>>} : Enqueue(os, cb)
        \/ \E p \in Ops : HandDequeue(p)
    BY SectionShapes
  <2> QED
    BY <1>1, <1>2, <1>3, <1>4, <1>5, <1>6, <2>1
-----------------------------------------------------------------------------
(* What a dequeue leaves behind *)

\* The steps by kind: a section that enqueues, the end of a job group, and
\* those that hand the loop nothing.
Enqueues ==
    \/ EnqueueMissing \/ \E o \in Ops : EnqueueLost(o)
    \/ WriteResults \/ \E gone \in Wiped(sec.scope) : EndInvalidate(gone)

Ends(d) ==
    \/ WorkerLost(d) \/ JobGroupError(d)
    \/ \E bad \in SUBSET Ops : ActionFinished(d, bad)

LEMMA StepKinds ==
  ASSUME [ESNext]_esVars
  PROVE  \/ UNCHANGED esVars
         \/ ApplyLoopAction \/ ClearPending
         \/ \E os \in SUBSET Ops : Pop(os)
         \/ BeginExecute \/ Execute \/ StartBuild \/ TakeBatch \/ EndFlush
         \/ \E d \in Ids : Ends(d)
         \/ Enqueues /\ (popped = {} \/ RaceWindow)
         \/ \E scope \in Scopes : BeginInvalidate(scope)
         \/ \E o \in Ops : HandDequeue(o)
         \/ IgnoreOnThread \/ DiscardCached
  BY DEF ESNext, LoopStep, SectionStep, Enqueues, Ends

LEMMA EnqueuesFacts ==
  ASSUME SectionOK, Enqueues
  PROVE  /\ UNCHANGED <<tableVars, execVars, born, started, cache, batch>>
         /\ dequeued' = {} /\ sec.at = {} /\ sec'.at = {}
         /\ sec' = Free /\ (sec = Free \/ sec.pc = "commit")
         /\ \E os \in SUBSET Ops :
            \E cb \in {<<>>, <<Callback("flushed", {}, NoId)>>} : Enqueue(os, cb)
<1>1. \A r : Needed(r) \in SUBSET Ops
  BY DEF Needed, Testcases
<1>2. LockFree => dequeued = {} /\ sec.at = {}
  BY DEF LockFree, SectionOK, Free
<1> DEFINE Goal ==
         /\ UNCHANGED <<tableVars, execVars, born, started, cache, batch>>
         /\ dequeued' = {} /\ sec.at = {} /\ sec'.at = {}
         /\ sec' = Free /\ (sec = Free \/ sec.pc = "commit")
         /\ \E os \in SUBSET Ops :
            \E cb \in {<<>>, <<Callback("flushed", {}, NoId)>>} : Enqueue(os, cb)
<1>3. ASSUME EnqueueMissing \/ \E o \in Ops : EnqueueLost(o)
      PROVE  Goal
  BY <1>1, <1>2, <1>3 DEF EnqueueMissing, EnqueueLost, LockFree, secVars, cacheVars
<1>4. ASSUME WriteResults
      PROVE  Goal
  BY <1>2, <1>4, WriteStep DEF WriteResults, LockFree, secVars
<1>5. ASSUME NEW gone, EndInvalidate(gone)
      PROVE  Goal
  <2>1. sec.at = {} /\ sec'.at = {}
    BY <1>5 DEF EndInvalidate, SectionOK, Free
  <2> QED
    BY <1>1, <1>5, <2>1 DEF EndInvalidate, cacheVars
<1> QED
  BY <1>3, <1>4, <1>5 DEF Enqueues

LEMMA EndsFacts ==
  ASSUME NEW d \in Ids, Ends(d)
  PROVE  /\ EndOf({d})
         /\ UNCHANGED <<dbVars, execVars, born, started, batch, flush, loopVars, secVars>>
<1>1. EndOf({d})
  BY DEF Ends, WorkerLost, JobGroupError, ActionFinished, LoseLive, LoseWhole, Take, Drop
<1> QED
  BY <1>1 DEF Ends, WorkerLost, JobGroupError, ActionFinished, cacheVars

\* The part of DequeuesClean about one operation.
CleanOf(o) ==
    /\ o \in dequeued /\ Dequeues(o) = {} => Cleaned(o)
    /\ \A i \in ActionsOn(o) :
          ready[i].act = "dequeue" /\ ~Unapplied(i) => Cleaned(o)
    /\ o \notin sec.at => \A m \in Dequeues(o), d \in LiveGroups(o) :
          \E k \in (m + 1)..Len(ready) : ready[k].id = d

\* Less is on its way than before, and the loop has what it had.
LEMMA CleanLess ==
  ASSUME NEW o \in Ops, CleanOf(o), UNCHANGED <<ready, applied, dequeued>>,
         (queue \cup popped \cup executing)' \subseteq queue \cup popped \cup executing,
         LiveGroups(o)' \subseteq LiveGroups(o),
         o \notin sec'.at => o \notin sec.at \/ LiveGroups(o)' = {}
  PROVE  CleanOf(o)'
<1>1. /\ ActionsOn(o)' = ActionsOn(o) /\ Dequeues(o)' = Dequeues(o)
      /\ Cleaned(o) => Cleaned(o)'
  BY DEF ActionsOn, Dequeues, Unapplied, Cleaned
<1>2. (\A i \in ActionsOn(o) : ready[i].act = "dequeue" /\ ~Unapplied(i) => Cleaned(o))'
  BY <1>1 DEF CleanOf, Unapplied
<1>3. ASSUME o \notin sec'.at, NEW m \in Dequeues(o), NEW d \in LiveGroups(o)'
      PROVE  \E k \in (m + 1)..Len(ready) : ready[k].id = d
  BY <1>3 DEF CleanOf
<1> QED
  BY <1>1, <1>2, <1>3 DEF CleanOf

\* The loop runs the dequeue of o.
LEMMA DequeueCleans ==
  ASSUME ESTypeOK, TableOK, LoopOK, Once, ApplyLoopAction, Head(ready).act = "dequeue"
  PROVE  \E p \in Ops : /\ Head(ready).ops = {p} /\ DequeueAndIgnore(p)
                        /\ Cleaned(p)'
                        /\ \A o \in Ops \ {p} : LiveGroups(o)' = LiveGroups(o)
<1>1. ready # <<>> /\ Head(ready) = ready[1] /\ 1 \in 1..Len(ready) /\ popped = {}
  BY DEF ApplyLoopAction, ESTypeOK, LoopFree
<1>2. PICK p \in Ops : Head(ready).ops = {p}
  BY <1>1 DEF LoopOK, CallbackOK
<1>3. DequeueAndIgnore(p)
  BY <1>2 DEF ApplyLoopAction
<1>4. LiveGroups(p)' = {} /\ \A o \in Ops \ {p} : LiveGroups(o)' = LiveGroups(o)
  BY <1>3, LiveIgnore DEF DequeueAndIgnore
<1>5. p \in queue => p \notin executing
  BY DEF Once
<1>6. p \notin (queue \cup popped \cup executing)'
  BY <1>1, <1>3, <1>5 DEF DequeueAndIgnore
<1> QED
  BY <1>2, <1>3, <1>4, <1>6 DEF Cleaned

\* What is dequeued stays out, and a job group that still has the operation
\* starts behind the dequeue.
LEMMA CleanStep ==
  ASSUME ESTypeOK, TableOK, LoopOK, SectionOK, PushesApart, DequeuesClean, Once,
         [ESNext]_esVars
  PROVE  DequeuesClean'
<1> SUFFICES ASSUME NEW o \in Ops
             PROVE  CleanOf(o)'
  BY DEF DequeuesClean, CleanOf
<1>0. CleanOf(o)
  BY DEF DequeuesClean, CleanOf
<1>1. CASE UNCHANGED esVars \/ TakeBatch \/ BeginExecute \/ \E os \in SUBSET Ops : Pop(os)
  <2>1. /\ UNCHANGED <<ready, applied, dequeued, sec, tableVars>>
        /\ (queue \cup popped \cup executing)' \subseteq queue \cup popped \cup executing
    BY <1>1 DEF esVars, TakeBatch, BeginExecute, Pop, execVars, loopVars, secVars
  <2>2. LiveGroups(o)' = LiveGroups(o)
    BY <2>1, LiveSame
  <2> QED
    BY <1>0, <2>1, <2>2, CleanLess
<1>2. CASE DiscardCached \/ \E scope \in Scopes : BeginInvalidate(scope)
  <2>1. UNCHANGED <<ready, applied, dequeued, execVars, tableVars>>
    BY <1>2 DEF DiscardCached, BeginInvalidate, loopVars
  <2>2. sec.at = {}
    BY <1>2 DEF DiscardCached, BeginInvalidate, LockFree, Free, SectionOK
  <2>3. LiveGroups(o)' = LiveGroups(o)
    BY <2>1, LiveSame
  <2> QED
    BY <1>0, <2>1, <2>2, <2>3, CleanLess DEF execVars
<1>3. ASSUME NEW d \in Ids, Ends(d)
      PROVE  CleanOf(o)'
  <2>1. EndOf({d}) /\ UNCHANGED <<ready, applied, dequeued, sec, queue, popped, executing>>
    BY <1>3, EndsFacts DEF loopVars, secVars, execVars
  <2>2. LiveGroups(o)' \subseteq LiveGroups(o)
    BY <2>1, LiveEnd
  <2> QED
    BY <1>0, <2>1, <2>2, CleanLess
<1>4. CASE IgnoreOnThread
  <2>1. UNCHANGED <<ready, applied, dequeued, queue, popped, executing>>
    BY <1>4 DEF IgnoreOnThread, loopVars, execVars
  <2>2. PICK p \in sec.at : IgnoreOp(p)
    BY <1>4 DEF IgnoreOnThread
  <2>3. p \in Ops /\ sec.at = {p}
    BY <1>4, <2>2 DEF IgnoreOnThread, SectionOK, ESTypeOK
  <2>4. LiveGroups(p)' = {} /\ \A q \in Ops \ {p} : LiveGroups(q)' = LiveGroups(q)
    BY <2>2, <2>3, LiveIgnore
  <2> QED
    BY <1>0, <2>1, <2>3, <2>4, CleanLess
<1>5. CASE Execute
  <2>1. /\ Extends({}, "push") /\ Len(ready') = Len(ready) + 1 /\ Len(ready) \in Nat
        /\ ready'[Len(ready) + 1] = Callback("build", {}, lastId + 1)
    BY <1>5, ExecuteExtends
  <2>2. /\ ActionsOn(o)' = ActionsOn(o)
        /\ \A i \in ActionsOn(o) : ready'[i] = ready[i]
        /\ Dequeues(o)' = Dequeues(o)
    BY <2>1, ExtendsNothing
  <2>3. /\ UNCHANGED <<sec, dequeued, applied, queue, popped>> /\ executing' = {}
        /\ Hand(executing)
    BY <1>5 DEF Execute, secVars
  <2>4. LiveGroups(o)' = IF o \in executing
                          THEN LiveGroups(o) \cup {lastId + 1} ELSE LiveGroups(o)
    BY <2>3, LiveHand
  <2>5. Cleaned(o) => Cleaned(o)'
    BY <2>3, <2>4 DEF Cleaned
  <2>6. \A i \in 1..Len(ready) : ready'[i] = ready[i]
    BY <2>1 DEF Extends
  <2>7. Dequeues(o) \subseteq 1..Len(ready)
    BY DEF Dequeues, ActionsOn
  <2>8. ASSUME o \notin sec'.at, NEW m \in Dequeues(o), NEW d \in LiveGroups(o)'
        PROVE  \E k \in (m + 1)..Len(ready') : ready'[k].id = d
    <3>1. CASE d \in LiveGroups(o)
      <4>1. PICK k \in (m + 1)..Len(ready) : ready[k].id = d
        BY <1>0, <2>3, <2>8, <3>1 DEF CleanOf
      <4>2. k \in (m + 1)..Len(ready') /\ k \in 1..Len(ready)
        BY <2>1, <2>7, <4>1
      <4> QED
        BY <2>6, <4>1, <4>2
    <3>2. CASE d = lastId + 1
      <4>1. ready'[Len(ready) + 1].id = d
        BY <2>1, <3>2 DEF Callback
      <4>2. Len(ready) + 1 \in (m + 1)..Len(ready')
        BY <2>1, <2>7
      <4> QED
        BY <4>1, <4>2
    <3> QED
      BY <2>4, <3>1, <3>2
  <2>9. \A i \in ActionsOn(o)' : Unapplied(i)' <=> Unapplied(i)
    BY <2>3 DEF Unapplied
  <2> QED
    BY <1>0, <2>2, <2>3, <2>5, <2>8, <2>9 DEF CleanOf
<1>6. CASE StartBuild \/ EndFlush \/ ClearPending
  <2>1. Shortens /\ UNCHANGED <<sec, dequeued, tableVars, queue, popped, executing>>
    BY <1>6, StartShortens, ClearShortens DEF StartBuild, EndFlush, ClearPending, secVars,
       execVars
  <2>2. /\ \A i \in Nat \ {0} : i \in Dequeues(o)' <=> i + 1 \in Dequeues(o)
        /\ Dequeues(o) = {} <=> Dequeues(o)' = {}
    BY <2>1, ShortensOn
  <2>3. /\ Len(ready') \in Nat /\ Len(ready) = Len(ready') + 1
        /\ \A i \in 1..Len(ready') : ready'[i] = ready[i + 1]
    BY <2>1, ShortensAll
  <2>4. LiveGroups(o)' = LiveGroups(o)
    BY <2>1, LiveSame
  <2>5. Cleaned(o)' <=> Cleaned(o)
    BY <2>1, <2>4 DEF Cleaned
  <2>6. Dequeues(o)' \subseteq Nat \ {0}
    BY DEF Dequeues, ActionsOn
  <2>7. ASSUME o \notin sec'.at, NEW m \in Dequeues(o)', NEW d \in LiveGroups(o)'
        PROVE  \E k \in (m + 1)..Len(ready') : ready'[k].id = d
    <3>1. PICK k \in (m + 2)..Len(ready) : ready[k].id = d
      <4>1. m \in Nat \ {0} /\ m + 1 \in Dequeues(o) /\ (m + 1) + 1 = m + 2
        BY <2>2, <2>6
      <4>2. \E k \in ((m + 1) + 1)..Len(ready) : ready[k].id = d
        BY <1>0, <2>1, <2>4, <2>7, <4>1 DEF CleanOf
      <4> QED
        BY <4>1, <4>2
    <3>2. m \in Nat \ {0} /\ k - 1 \in (m + 1)..Len(ready') /\ k - 1 \in 1..Len(ready')
          /\ (k - 1) + 1 = k
      BY <2>3, <2>6, <3>1
    <3> QED
      BY <2>3, <3>1, <3>2
  <2>8. ~applied'
    BY <2>1 DEF Shortens
  <2> QED
    BY <1>0, <2>1, <2>2, <2>5, <2>7, <2>8 DEF CleanOf, Unapplied
<1>7. CASE ApplyLoopAction /\ Head(ready).act = "push"
  <2>1. /\ Applies /\ UNCHANGED <<ready, sec, dequeued, tableVars, popped, executing>>
        /\ queue' = queue \cup Head(ready).ops
    BY <1>7, ApplyApplies DEF ApplyLoopAction, secVars
  <2>2. LiveGroups(o)' = LiveGroups(o)
    BY <2>1, LiveSame
  <2>3. /\ ActionsOn(o)' = ActionsOn(o) /\ Dequeues(o)' = Dequeues(o)
    BY <1>7, <2>1, AppliesOn
  <2>4. Len(ready) \in Nat /\ 1 \in 1..Len(ready) /\ Head(ready) = ready[1]
    BY <2>1 DEF ESTypeOK, Applies
  <2>5. (\A i \in ActionsOn(o) : ready[i].act = "dequeue" /\ ~Unapplied(i) => Cleaned(o))'
    BY <1>7, <2>1, <2>3, <2>4 DEF Unapplied
  <2>6. ASSUME o \in dequeued, Dequeues(o) = {}
        PROVE  Cleaned(o)'
    <3>1. Cleaned(o)
      BY <1>0, <2>6 DEF CleanOf
    <3>2. o \notin Head(ready).ops
      <4> SUFFICES ASSUME o \in Head(ready).ops
                   PROVE  FALSE
        OBVIOUS
      <4>1. 1 \in Pushes(o)
        BY <1>7, <2>4 DEF Pushes, ActionsOn
      <4>2. PICK m \in ActionsOn(o) : 1 < m /\ ready[m].act = "dequeue"
        BY <2>6, <4>1 DEF PushesApart
      <4> QED
        BY <2>6, <4>2 DEF Dequeues, Unapplied, ActionsOn
    <3> QED
      BY <2>1, <2>2, <3>1, <3>2 DEF Cleaned
  <2> QED
    BY <1>0, <2>1, <2>2, <2>3, <2>5, <2>6 DEF CleanOf
<1>8. CASE ApplyLoopAction /\ Head(ready).act = "dequeue"
  <2>1. Applies /\ UNCHANGED <<ready, sec, dequeued, popped>>
    BY <1>8, ApplyApplies DEF ApplyLoopAction, secVars, DequeueAndIgnore
  <2>2. PICK p \in Ops : /\ Head(ready).ops = {p} /\ DequeueAndIgnore(p)
                         /\ Cleaned(p)'
                         /\ \A q \in Ops \ {p} : LiveGroups(q)' = LiveGroups(q)
    BY <1>8, DequeueCleans
  <2>3. CASE o = p
    BY <2>2, <2>3 DEF CleanOf, Cleaned
  <2>4. CASE o # p
    <3>1. /\ ActionsOn(o)' = ActionsOn(o) /\ Dequeues(o)' = Dequeues(o)
          /\ LiveGroups(o)' = LiveGroups(o)
      BY <2>1, <2>2, <2>4, AppliesOn
    <3>2. Len(ready) \in Nat /\ 1 \in 1..Len(ready) /\ Head(ready) = ready[1]
      BY <2>1 DEF ESTypeOK, Applies
    <3>3. 1 \notin ActionsOn(o)
      BY <2>2, <2>4, <3>2 DEF ActionsOn
    <3>4. Cleaned(o) => Cleaned(o)'
      BY <2>1, <2>2, <2>4, <3>1 DEF Cleaned, DequeueAndIgnore
    <3> QED
      BY <1>0, <2>1, <3>1, <3>3, <3>4 DEF CleanOf, Unapplied
  <2> QED
    BY <2>3, <2>4
<1>9. CASE Enqueues
  <2>1. /\ UNCHANGED <<tableVars, execVars, born, started, cache, batch>>
        /\ dequeued' = {} /\ sec.at = {} /\ sec'.at = {}
    BY <1>9, EnqueuesFacts
  <2>2. PICK os \in SUBSET Ops, cb \in {<<>>, <<Callback("flushed", {}, NoId)>>} :
            Enqueue(os, cb)
    BY <1>9, EnqueuesFacts
  <2> DEFINE P == {q \in os : MayEnqueue(q)}
  <2>3. Extends(P, "push")
    BY <2>2, EnqueueExtends
  <2> HIDE DEF P
  <2>4. /\ Len(ready') \in Nat /\ Len(ready) \in Nat /\ Len(ready') >= Len(ready)
        /\ \A i \in 1..Len(ready) : ready'[i] = ready[i]
        /\ applied' = applied
    BY <2>3 DEF Extends, ESTypeOK
  <2>5. Dequeues(o)' = Dequeues(o) /\ Dequeues(o) \subseteq 1..Len(ready)
    BY <2>3, ExtendsOthers, ExtendsWith DEF Dequeues, ActionsOn
  <2>6. LiveGroups(o)' = LiveGroups(o) /\ (Cleaned(o)' <=> Cleaned(o))
    <3>1. LiveGroups(o)' = LiveGroups(o)
      BY <2>1, LiveSame
    <3> QED
      BY <2>1, <3>1 DEF Cleaned, execVars
  <2>7. ASSUME NEW i \in ActionsOn(o)', ready'[i].act = "dequeue", ~Unapplied(i)'
        PROVE  Cleaned(o)'
    <3>1. i = 1 /\ applied
      BY <2>4, <2>7 DEF Unapplied
    <3>2. 1 \in 1..Len(ready)
      BY <3>1 DEF LoopOK, ESTypeOK
    <3>3. 1 \in ActionsOn(o) /\ ready[1].act = "dequeue"
      BY <2>4, <2>7, <3>1, <3>2 DEF ActionsOn
    <3> QED
      BY <1>0, <2>6, <3>1, <3>3 DEF CleanOf, Unapplied
  <2>8. ASSUME NEW m \in Dequeues(o), NEW d \in LiveGroups(o)
        PROVE  \E k \in (m + 1)..Len(ready') : ready'[k].id = d
    <3>1. PICK k \in (m + 1)..Len(ready) : ready[k].id = d
      BY <1>0, <2>1 DEF CleanOf
    <3>2. k \in (m + 1)..Len(ready') /\ k \in 1..Len(ready)
      BY <2>4, <2>5, <3>1
    <3> QED
      BY <2>4, <3>1, <3>2
  <2> QED
    BY <2>1, <2>5, <2>6, <2>7, <2>8 DEF CleanOf
<1>10. ASSUME NEW p \in Ops, HandDequeue(p)
       PROVE  CleanOf(o)'
  <2>1. /\ Extends({p}, "dequeue") /\ Len(ready') = Len(ready) + 1 /\ Len(ready) \in Nat
    BY <1>10, HandDequeueExtends
  <2>2. /\ UNCHANGED <<tableVars, queue, popped, executing>> /\ sec.at = {}
        /\ sec'.at = {p} /\ dequeued' = dequeued \cup {p}
    BY <1>10 DEF HandDequeue, execVars, SectionOK, ESTypeOK, Section
  <2>4. /\ \A i \in 1..Len(ready) : ready'[i] = ready[i]
        /\ applied' = applied
    BY <2>1 DEF Extends
  <2>6. LiveGroups(o)' = LiveGroups(o) /\ (Cleaned(o)' <=> Cleaned(o))
    <3>1. LiveGroups(o)' = LiveGroups(o)
      BY <2>2, LiveSame
    <3> QED
      BY <2>2, <3>1 DEF Cleaned
  <2>7. ASSUME NEW i \in ActionsOn(o)', ready'[i].act = "dequeue", ~Unapplied(i)'
        PROVE  Cleaned(o)'
    <3>1. i = 1 /\ applied
      BY <2>4, <2>7 DEF Unapplied
    <3>2. 1 \in 1..Len(ready)
      BY <3>1 DEF LoopOK, ESTypeOK
    <3>3. 1 \in ActionsOn(o) /\ ready[1].act = "dequeue"
      BY <2>4, <2>7, <3>1, <3>2 DEF ActionsOn
    <3> QED
      BY <1>0, <2>6, <3>1, <3>3 DEF CleanOf, Unapplied
  <2> DEFINE P == {p}
  <2>8. CASE o = p
    <3>1. o \in P /\ Extends(P, "dequeue")
      BY <2>1, <2>8
    <3> HIDE DEF P
    <3>2. Dequeues(o)' # {}
      BY <3>1, ExtendsWith
    <3> QED
      BY <2>2, <2>7, <2>8, <3>2 DEF CleanOf
  <2>9. CASE o # p
    <3>1. o \in Ops \ P /\ Extends(P, "dequeue")
      BY <2>1, <2>9
    <3> HIDE DEF P
    <3>2. Dequeues(o)' = Dequeues(o) /\ Dequeues(o) \subseteq 1..Len(ready)
      BY <3>1, ExtendsOthers DEF Dequeues, ActionsOn
    <3>3. ASSUME NEW m \in Dequeues(o), NEW d \in LiveGroups(o)
          PROVE  \E k \in (m + 1)..Len(ready') : ready'[k].id = d
      <4>1. PICK k \in (m + 1)..Len(ready) : ready[k].id = d
        BY <1>0, <2>2 DEF CleanOf
      <4>2. k \in (m + 1)..Len(ready') /\ k \in 1..Len(ready)
        BY <2>1, <3>2, <4>1
      <4> QED
        BY <2>4, <4>1, <4>2
    <3>4. o \in dequeued' => o \in dequeued
      BY <2>2, <2>9
    <3> QED
      BY <1>0, <2>6, <2>7, <3>2, <3>3, <3>4 DEF CleanOf
  <2> QED
    BY <2>8, <2>9
<1> QED
  <2>1. ApplyLoopAction => Head(ready).act \in {"push", "dequeue"}
    BY DEF ApplyLoopAction
  <2> QED
    BY <2>1, StepKinds, <1>1, <1>2, <1>3, <1>4, <1>5, <1>6, <1>7, <1>8, <1>9, <1>10
-----------------------------------------------------------------------------
(* The cache *)

\* A job group that has started gives results only of operations that no
\* dequeue is to take out: the first step of its coroutine is done.
LEMMA StartedIsNotDoomed ==
  ASSUME ESTypeOK, LoopOK, DequeuesClean, NEW o \in Ops, o \notin sec.at,
         NEW d \in started, d \in LiveGroups(o)
  PROVE  Dequeues(o) = {}
<1> SUFFICES ASSUME NEW m \in Dequeues(o)
             PROVE  FALSE
  OBVIOUS
<1>1. PICK k \in (m + 1)..Len(ready) : ready[k].id = d
  BY DEF DequeuesClean
<1>2. m \in Nat /\ k \in 1..Len(ready)
  BY <1>1 DEF Dequeues, ActionsOn, ESTypeOK
<1>3. CallbackOK(ready[k]) /\ ready[k] \in Callbacks /\ d \in Ids
  BY <1>2 DEF LoopOK, ESTypeOK
<1>4. ready[k].id # NoId
  BY <1>1, <1>3
<1>5. ready[k].act \in {"push", "dequeue", "build", "flushed"}
  BY <1>3 DEF Callbacks
<1> QED
  BY <1>1, <1>3, <1>4, <1>5, Zenon DEF CallbackOK

\* What _action_finished_sync does to the cache.
LEMMA FinishedCache ==
  ASSUME ESTypeOK, LoopOK, SectionOK, DequeuesClean, NEW d \in Ids, NEW bad \in SUBSET Ops,
         ActionFinished(d, bad), NEW o \in Ops
  PROVE  /\ d \in LiveGroups(o) =>
              /\ cache'[o] = {[epoch |-> born[d][o], good |-> o \notin bad]}
              /\ Dequeues(o) = {}
         /\ d \notin LiveGroups(o) => cache'[o] = cache[o]
         /\ UNCHANGED <<batch, flush, ready, applied, sec, dequeued, rows, epoch>>
<1>1. d \in held /\ taken'[d] = group[d] \ ignored[d]
  BY DEF ActionFinished, Take, ESTypeOK, TableTypeOK
<1>2. d \in LiveGroups(o) <=> o \in taken'[d]
  BY <1>1 DEF LiveGroups
<1>3. cache'[o] = IF o \in taken'[d] THEN {[epoch |-> born[d][o], good |-> o \notin bad]}
                  ELSE cache[o]
  BY DEF ActionFinished
<1>4. sec.at = {} /\ d \in started
  BY DEF ActionFinished, LockFree, Free
<1>5. d \in LiveGroups(o) => Dequeues(o) = {}
  BY <1>4, StartedIsNotDoomed
<1>6. UNCHANGED <<batch, flush, ready, applied, sec, dequeued, rows, epoch>>
  BY DEF ActionFinished, loopVars, secVars, dbVars
<1> QED
  BY <1>2, <1>3, <1>5, <1>6

\* The part of CacheClean about one operation.
CacheOf(o) ==
    /\ \A m \in Dequeues(o) :
          o \notin dequeued \/ (\E j \in ActionsOn(o) : j > m) => ~InCache(o)
    /\ sec.pc = "commit" /\ o \in sec.scope => ~InCache(o)

\* What is to be dequeued is not cached.
LEMMA CacheStep ==
  ASSUME ESTypeOK, LoopOK, SectionOK, PushesApart, DequeuesClean, CacheClean,
         [ESNext]_esVars
  PROVE  CacheClean'
<1> SUFFICES ASSUME NEW o \in Ops
             PROVE  CacheOf(o)'
  BY DEF CacheClean, CacheOf
<1>0. CacheOf(o)
  BY DEF CacheClean, CacheOf
<1>1. CASE UNCHANGED esVars \/ BeginExecute \/ \E os \in SUBSET Ops : Pop(os)
  <2>1. UNCHANGED <<ready, applied, dequeued, sec, cache, batch>>
    BY <1>1 DEF esVars, BeginExecute, Pop, loopVars, secVars, cacheVars
  <2> QED
    BY <1>0, <2>1 DEF CacheOf, Dequeues, ActionsOn, InCache, Unapplied
<1>2. CASE TakeBatch
  <2>1. UNCHANGED <<ready, applied, dequeued, sec>>
    BY <1>2 DEF TakeBatch, loopVars, secVars
  <2>2. InCache(o)' => InCache(o)
    BY <1>2 DEF TakeBatch, InCache, Nothing
  <2> QED
    BY <1>0, <2>1, <2>2 DEF CacheOf, Dequeues, ActionsOn, Unapplied
<1>3. CASE DiscardCached
  <2>1. UNCHANGED <<ready, applied, dequeued>> /\ sec'.scope = sec.scope
    BY <1>3 DEF DiscardCached, loopVars, ESTypeOK, Section
  <2>2. (InCache(o)' => InCache(o)) /\ (o \in sec.scope => ~InCache(o)')
    BY <1>3 DEF DiscardCached, InCache, Without
  <2> QED
    BY <1>0, <2>1, <2>2 DEF CacheOf, Dequeues, ActionsOn, Unapplied
<1>4. CASE IgnoreOnThread \/ \E scope \in Scopes : BeginInvalidate(scope)
  <2>1. UNCHANGED <<ready, applied, dequeued, cache, batch>>
    BY <1>4 DEF IgnoreOnThread, BeginInvalidate, loopVars, cacheVars
  <2>2. sec'.pc # "commit"
    <3>1. IgnoreOnThread => sec'.pc # "commit"
      BY DEF IgnoreOnThread, ESTypeOK, Section
    <3>2. \A scope \in Scopes : BeginInvalidate(scope) => sec'.pc # "commit"
      BY DEF BeginInvalidate
    <3> QED
      BY <1>4, <3>1, <3>2
  <2> QED
    BY <1>0, <2>1, <2>2 DEF CacheOf, Dequeues, ActionsOn, InCache, Unapplied
<1>5. ASSUME NEW d \in Ids, Ends(d)
      PROVE  CacheOf(o)'
  <2>1. UNCHANGED <<ready, applied, dequeued, sec, batch>>
    BY <1>5, EndsFacts DEF loopVars, secVars
  <2>2. CASE cache'[o] = cache[o]
    BY <1>0, <2>1, <2>2 DEF CacheOf, Dequeues, ActionsOn, InCache, Unapplied
  <2>3. ASSUME NEW bad \in SUBSET Ops, ActionFinished(d, bad), d \in LiveGroups(o)
        PROVE  CacheOf(o)'
    <3>1. Dequeues(o) = {}
      BY <2>3, FinishedCache
    <3>2. sec.pc = "free"
      BY <2>3 DEF ActionFinished, LockFree, Free
    <3> QED
      BY <2>1, <3>1, <3>2 DEF CacheOf, Dequeues, ActionsOn, Unapplied
  <2>4. WorkerLost(d) \/ JobGroupError(d) => cache'[o] = cache[o]
    BY DEF WorkerLost, JobGroupError, cacheVars
  <2> QED
    BY <1>5, <2>2, <2>3, <2>4, FinishedCache DEF Ends
<1>6. CASE Execute
  <2>1. Extends({}, "push") /\ UNCHANGED <<sec, dequeued, cache, batch>>
    BY <1>6, ExecuteExtends DEF Execute, secVars, cacheVars
  <2>2. ActionsOn(o)' = ActionsOn(o) /\ Dequeues(o)' = Dequeues(o)
    BY <2>1, ExtendsNothing
  <2> QED
    BY <1>0, <2>1, <2>2 DEF CacheOf, InCache
<1>7. CASE StartBuild \/ EndFlush \/ ClearPending
  <2>1. Shortens /\ UNCHANGED <<sec, dequeued>>
    BY <1>7, StartShortens, ClearShortens DEF StartBuild, EndFlush, ClearPending, secVars
  <2>2. InCache(o)' => InCache(o)
    BY <1>7 DEF StartBuild, EndFlush, ClearPending, InCache, cacheVars, Nothing
  <2>3. /\ \A i \in Nat \ {0} : i \in ActionsOn(o)' <=> i + 1 \in ActionsOn(o)
        /\ \A i \in Nat \ {0} : i \in Dequeues(o)' <=> i + 1 \in Dequeues(o)
    BY <2>1, ShortensOn
  <2>4. ActionsOn(o)' \subseteq Nat \ {0} /\ Dequeues(o)' \subseteq Nat \ {0}
    BY DEF Dequeues, ActionsOn
  <2>5. ASSUME NEW m \in Dequeues(o)',
               o \notin dequeued' \/ \E j \in ActionsOn(o)' : j > m
        PROVE  ~InCache(o)
    <3>1. m + 1 \in Dequeues(o)
      BY <2>3, <2>4
    <3>2. o \notin dequeued \/ \E j \in ActionsOn(o) : j > m + 1
      BY <2>1, <2>3, <2>4, <2>5
    <3> QED
      BY <1>0, <3>1, <3>2 DEF CacheOf
  <2> QED
    BY <1>0, <2>1, <2>2, <2>5 DEF CacheOf
<1>8. CASE ApplyLoopAction
  <2>1. Applies /\ UNCHANGED <<sec, dequeued, cache, batch>>
    BY <1>8, ApplyApplies DEF ApplyLoopAction, secVars, cacheVars
  <2>2. ActionsOn(o)' = ActionsOn(o) /\ Dequeues(o)' \subseteq Dequeues(o)
    BY <2>1, AppliesOn
  <2> QED
    BY <1>0, <2>1, <2>2 DEF CacheOf, InCache
<1>9. CASE Enqueues
  <2>1. /\ UNCHANGED <<cache, batch>> /\ dequeued' = {}
    BY <1>9, EnqueuesFacts
  <2>2. PICK os \in SUBSET Ops, cb \in {<<>>, <<Callback("flushed", {}, NoId)>>} :
            Enqueue(os, cb)
    BY <1>9, EnqueuesFacts
  <2> DEFINE P == {q \in os : MayEnqueue(q)}
  <2>3. Extends(P, "push")
    BY <2>2, EnqueueExtends
  <2>4. InCache(o)' <=> InCache(o)
    BY <2>1 DEF InCache
  <2>5. sec'.pc # "commit"
    BY <1>9, EnqueuesFacts DEF Free
  <2>6. CASE o \in P
    BY <2>4, <2>5, <2>6 DEF MayEnqueue, CacheOf
  <2>7. CASE o \notin P
    <3> HIDE DEF P
    <3>1. Dequeues(o)' = Dequeues(o)
      BY <2>3, <2>7, ExtendsOthers
    <3>2. o \in dequeued => sec.pc = "commit" /\ o \in sec.scope
      BY <1>9, EnqueuesFacts DEF Free, SectionOK
    <3>3. Dequeues(o) # {} => ~InCache(o)
      BY <1>0, <3>2 DEF CacheOf
    <3> QED
      BY <2>4, <2>5, <3>1, <3>3 DEF CacheOf
  <2> QED
    BY <2>6, <2>7
<1>10. ASSUME NEW p \in Ops, HandDequeue(p)
       PROVE  CacheOf(o)'
  <2> DEFINE P == {p}
  <2>1. /\ Extends(P, "dequeue") /\ UNCHANGED <<cache, batch>> /\ sec'.pc # "commit"
        /\ dequeued' = dequeued \cup {p} /\ p \notin dequeued
    BY <1>10, HandDequeueExtends DEF HandDequeue, cacheVars, ESTypeOK, Section, SectionOK
  <2>2. InCache(o)' <=> InCache(o)
    BY <2>1 DEF InCache
  <2>3. CASE o # p
    <3>1. o \in Ops \ P /\ (o \in dequeued' <=> o \in dequeued)
      BY <2>1, <2>3
    <3> HIDE DEF P
    <3>2. Dequeues(o)' = Dequeues(o) /\ ActionsOn(o)' = ActionsOn(o)
      BY <2>1, <3>1, ExtendsOthers
    <3> QED
      BY <1>0, <2>1, <2>2, <3>1, <3>2 DEF CacheOf
  <2>4. CASE o = p
    <3>1. o \in P /\ o \in dequeued' /\ o \notin dequeued
      BY <2>1, <2>4
    <3> HIDE DEF P
    <3>2. /\ Dequeues(o)' = Dequeues(o) \cup {Len(ready) + 1}
          /\ ActionsOn(o)' = ActionsOn(o) \cup {Len(ready) + 1}
          /\ \A i \in ActionsOn(o) : i < Len(ready) + 1
      BY <2>1, <3>1, ExtendsWith
    <3>3. \A m \in Dequeues(o) : ~InCache(o)
      BY <1>0, <3>1 DEF CacheOf
    <3>4. Len(ready) \in Nat /\ ActionsOn(o) \subseteq Nat
      BY DEF ESTypeOK, ActionsOn
    <3>5. ~\E j \in ActionsOn(o)' : j > Len(ready) + 1
      BY <3>2, <3>4
    <3> QED
      BY <2>1, <2>2, <3>1, <3>2, <3>3, <3>5 DEF CacheOf
  <2> QED
    BY <2>3, <2>4
<1> QED
  BY StepKinds, <1>1, <1>2, <1>3, <1>4, <1>5, <1>6, <1>7, <1>8, <1>9, <1>10

\* The cache and the batch have one result of an operation at most.
LEMMA CacheOneStep ==
  ASSUME ESTypeOK, LoopOK, SectionOK, DequeuesClean, CacheOne, [ESNext]_esVars
  PROVE  CacheOne'
<1>1. CASE UNCHANGED <<cache, batch>>
  BY <1>1 DEF CacheOne
<1>2. CASE TakeBatch
  BY <1>2 DEF TakeBatch, CacheOne, Nothing
<1>3. CASE EndFlush
  BY <1>3 DEF EndFlush, CacheOne, Nothing
<1>4. CASE DiscardCached
  BY <1>4 DEF DiscardCached, CacheOne, Without
<1>5. ASSUME NEW d \in Ids, NEW bad \in SUBSET Ops, ActionFinished(d, bad)
      PROVE  CacheOne'
  <2>1. batch' = batch
    BY <1>5 DEF ActionFinished
  <2>2. ASSUME NEW o \in Ops
        PROVE  \A r, s \in cache'[o] : r = s
    BY <1>5, <2>2, FinishedCache DEF CacheOne
  <2> QED
    BY <2>1, <2>2 DEF CacheOne
<1> QED
  <2>1. \A d \in Ids : WorkerLost(d) \/ JobGroupError(d) => UNCHANGED <<cache, batch>>
    BY DEF WorkerLost, JobGroupError, cacheVars
  <2>2. \/ UNCHANGED esVars \/ ApplyLoopAction \/ ClearPending
        \/ \E os \in SUBSET Ops : Pop(os)
        \/ BeginExecute \/ Execute \/ StartBuild
        \/ \E scope \in Scopes : BeginInvalidate(scope)
        \/ \E o \in Ops : HandDequeue(o)
        \/ IgnoreOnThread
        => UNCHANGED <<cache, batch>>
    BY DEF esVars, ApplyLoopAction, ClearPending, Pop, BeginExecute, Execute, StartBuild,
       BeginInvalidate, HandDequeue, IgnoreOnThread, cacheVars
  <2>3. Enqueues => UNCHANGED <<cache, batch>>
    BY EnqueuesFacts
  <2> QED
    BY StepKinds, <2>1, <2>2, <2>3, <1>1, <1>2, <1>3, <1>4, <1>5 DEF Ends
-----------------------------------------------------------------------------
(* One place *)

\* The part of Once about one operation.
OnceOf(o) ==
    /\ o \in queue => /\ o \notin popped \cup executing
                      /\ LiveGroups(o) = {} /\ cache[o] = {}
                      /\ ~Flushing(o) /\ Coming(o) = {}
    /\ o \in popped => /\ o \notin executing
                       /\ LiveGroups(o) = {} /\ cache[o] = {}
                       /\ ~Flushing(o) /\ Coming(o) = {}
    /\ o \in executing => /\ LiveGroups(o) = {} /\ cache[o] = {}
                          /\ ~Flushing(o) /\ Coming(o) = {}
    /\ LiveGroups(o) # {} => cache[o] = {} /\ ~Flushing(o) /\ Coming(o) = {}
    /\ cache[o] # {} => ~Flushing(o) /\ Coming(o) = {}
    /\ Flushing(o) => Coming(o) = {}

\* An operation that comes to no new place.
LEMMA OnceLess ==
  ASSUME NEW o \in Ops, OnceOf(o),
         o \in queue' => o \in queue, o \in popped' => o \in popped,
         o \in executing' => o \in executing,
         LiveGroups(o)' # {} => LiveGroups(o) # {},
         cache'[o] # {} => cache[o] # {}, Flushing(o)' => Flushing(o),
         Coming(o)' # {} => Coming(o) # {}
  PROVE  OnceOf(o)'
  BY DEF OnceOf

\* The executor's __contains__, the marks and _dequeued_in_section together:
\* what a section may push, and no dequeue is to take out, is nowhere.
LEMMA MayEnqueueWhatIsNowhere ==
  ASSUME ESTypeOK, TableOK, LoopOK, MarksOK, DequeuesClean, popped = {},
         NEW o \in Ops, MayEnqueue(o), Dequeues(o) = {}
  PROVE  Cleaned(o) /\ ~InCache(o)
<1>1. CASE pending[o].last = "dequeue"
  <2>1. ActionsOn(o) # {}
    BY <1>1 DEF MarksOK
  <2>2. PICK m \in ActionsOn(o) : ready[m].act = "dequeue"
    BY <1>1, <2>1, LastAction
  <2>3. ~Unapplied(m)
    BY <2>2 DEF Dequeues
  <2> QED
    BY <2>2, <2>3 DEF DequeuesClean, MayEnqueue
<1>2. CASE o \in dequeued
  BY <1>2 DEF DequeuesClean, MayEnqueue
<1>3. CASE ~InExecutor(o)
  <2>1. o \notin queue \cup executing /\ holder[o] = NoId
    BY <1>3 DEF InExecutor
  <2>2. ASSUME NEW d \in LiveGroups(o) PROVE FALSE
    <3>1. d \in held /\ o \in group[d] \ ignored[d]
      BY DEF LiveGroups
    <3>2. d \in Ids /\ holder[o] = d
      BY <3>1 DEF TableOK, ESTypeOK, TableTypeOK
    <3> QED
      BY <2>1, <3>2
  <2> QED
    BY <2>1, <2>2 DEF Cleaned, MayEnqueue
<1> QED
  BY <1>1, <1>2, <1>3 DEF MayEnqueue

\* An operation stays in one place.
LEMMA OnceStep ==
  ASSUME ESTypeOK, TableOK, LoopOK, MarksOK, SectionOK, PushesApart, DequeuesClean,
         CacheClean, Once, [ESNext]_esVars, ~RaceWindow
  PROVE  Once'
<1> SUFFICES ASSUME NEW o \in Ops
             PROVE  OnceOf(o)'
  BY DEF Once, OnceOf
<1>0. OnceOf(o)
  BY DEF Once, OnceOf
<1>1. CASE UNCHANGED esVars \/ DiscardCached \/ \E scope \in Scopes : BeginInvalidate(scope)
  <2>1. UNCHANGED <<ready, applied, queue, popped, executing, flush, tableVars>>
    BY <1>1 DEF esVars, DiscardCached, BeginInvalidate, loopVars, execVars, cacheVars
  <2>2. (cache'[o] # {} => cache[o] # {}) /\ (batch'[o] # {} => batch[o] # {})
    BY <1>1 DEF esVars, DiscardCached, BeginInvalidate, cacheVars, Without
  <2>3. LiveGroups(o)' = LiveGroups(o)
    BY <2>1, LiveSame
  <2>4. Coming(o)' = Coming(o) /\ (Flushing(o)' => Flushing(o))
    BY <2>1, <2>2 DEF Coming, Pushes, Dequeues, ActionsOn, Unapplied, Flushing
  <2> QED
    BY <1>0, <2>1, <2>2, <2>3, <2>4, OnceLess
<1>2. CASE BeginExecute \/ \E os \in SUBSET Ops : Pop(os)
  <2>1. UNCHANGED <<ready, applied, cache, batch, flush, tableVars>>
    BY <1>2 DEF BeginExecute, Pop, loopVars, cacheVars
  <2>2. LiveGroups(o)' = LiveGroups(o)
    BY <2>1, LiveSame
  <2>3. Coming(o)' = Coming(o) /\ (Flushing(o)' <=> Flushing(o))
    BY <2>1 DEF Coming, Pushes, Dequeues, ActionsOn, Unapplied, Flushing
  <2>4. \/ popped' = {} /\ executing' = popped /\ queue' = queue
        \/ executing' = {} /\ queue' \subseteq queue /\ popped' \subseteq queue
           /\ queue' \cap popped' = {}
    BY <1>2 DEF BeginExecute, Pop
  <2> QED
    BY <1>0, <2>1, <2>2, <2>3, <2>4 DEF OnceOf
<1>3. CASE Execute
  <2>1. /\ Extends({}, "push") /\ UNCHANGED <<queue, popped, cache, batch, flush>>
        /\ executing' = {} /\ Hand(executing)
    BY <1>3, ExecuteExtends DEF Execute, cacheVars
  <2>2. Coming(o)' = Coming(o) /\ (Flushing(o)' <=> Flushing(o))
    BY <2>1, ExtendsNothing DEF Flushing
  <2>3. LiveGroups(o)' # {} => LiveGroups(o) # {} \/ o \in executing
    BY <2>1, LiveHand
  <2> QED
    BY <1>0, <2>1, <2>2, <2>3 DEF OnceOf
<1>4. CASE StartBuild \/ EndFlush \/ ClearPending
  <2>1. Shortens /\ UNCHANGED <<queue, popped, executing, cache, tableVars>>
    BY <1>4, StartShortens, ClearShortens DEF StartBuild, EndFlush, ClearPending, execVars,
       cacheVars
  <2>2. Flushing(o)' => Flushing(o)
    BY <1>4 DEF StartBuild, EndFlush, ClearPending, Flushing, cacheVars, Nothing
  <2>3. LiveGroups(o)' = LiveGroups(o)
    BY <2>1, LiveSame
  <2>4. Coming(o)' # {} => Coming(o) # {}
    BY <2>1, ShortensOn
  <2> QED
    BY <1>0, <2>1, <2>2, <2>3, <2>4, OnceLess
<1>5. CASE TakeBatch
  <2>1. /\ UNCHANGED <<ready, applied, queue, popped, executing, tableVars>>
        /\ cache'[o] = {} /\ batch'[o] = cache[o]
    BY <1>5 DEF TakeBatch, loopVars, execVars, Nothing
  <2>2. LiveGroups(o)' = LiveGroups(o)
    BY <2>1, LiveSame
  <2>3. Coming(o)' = Coming(o) /\ (Flushing(o)' => cache[o] # {})
    BY <2>1 DEF Coming, Pushes, Dequeues, ActionsOn, Unapplied, Flushing
  <2> QED
    BY <1>0, <2>1, <2>2, <2>3 DEF OnceOf
<1>6. ASSUME NEW d \in Ids, Ends(d)
      PROVE  OnceOf(o)'
  <2>1. /\ EndOf({d})
        /\ UNCHANGED <<ready, applied, queue, popped, executing, batch, flush>>
    BY <1>6, EndsFacts DEF loopVars, execVars
  <2>2. LiveGroups(o)' = LiveGroups(o) \ {d}
    BY <2>1, LiveEnd
  <2>3. Coming(o)' = Coming(o) /\ (Flushing(o)' <=> Flushing(o))
    BY <2>1 DEF Coming, Pushes, Dequeues, ActionsOn, Unapplied, Flushing
  <2>4. CASE cache'[o] = cache[o]
    BY <1>0, <2>1, <2>2, <2>3, <2>4, OnceLess
  <2>5. CASE d \in LiveGroups(o)
    <3>1. \A e \in LiveGroups(o) : holder[o] = e
      BY DEF LiveGroups, TableOK
    <3>2. LiveGroups(o)' = {}
      BY <2>2, <2>5, <3>1
    <3> QED
      BY <1>0, <2>1, <2>3, <2>5, <3>2 DEF OnceOf
  <2>6. WorkerLost(d) \/ JobGroupError(d) => cache'[o] = cache[o]
    BY DEF WorkerLost, JobGroupError, cacheVars
  <2> QED
    BY <1>6, <2>4, <2>5, <2>6, FinishedCache DEF Ends
<1>7. CASE ApplyLoopAction /\ Head(ready).act = "push"
  <2>1. /\ Applies /\ UNCHANGED <<tableVars, popped, executing, cache, batch, flush>>
        /\ queue' = queue \cup Head(ready).ops
    BY <1>7, ApplyApplies DEF ApplyLoopAction, cacheVars
  <2>2. LiveGroups(o)' = LiveGroups(o) /\ (Flushing(o)' <=> Flushing(o))
    BY <2>1, LiveSame DEF Flushing
  <2>3. CASE o \notin Head(ready).ops
    <3>1. Coming(o)' = Coming(o)
      BY <2>1, <2>3, AppliesOn
    <3> QED
      BY <1>0, <2>1, <2>2, <2>3, <3>1, OnceLess
  <2>4. CASE o \in Head(ready).ops
    <3>1. Coming(o) # {} /\ Coming(o)' = {}
      BY <1>7, <2>1, <2>4, AppliesOn
    <3> QED
      BY <1>0, <2>1, <2>2, <3>1 DEF OnceOf
  <2> QED
    BY <2>3, <2>4
<1>8. CASE ApplyLoopAction /\ Head(ready).act = "dequeue"
  <2>1. Applies /\ UNCHANGED <<ready, popped, cache, batch, flush>>
    BY <1>8, ApplyApplies DEF ApplyLoopAction, cacheVars, DequeueAndIgnore
  <2>2. PICK p \in Ops : /\ Head(ready).ops = {p} /\ DequeueAndIgnore(p)
                         /\ Cleaned(p)'
                         /\ \A q \in Ops \ {p} : LiveGroups(q)' = LiveGroups(q)
    BY <1>8, DequeueCleans
  <2>3. Flushing(o)' <=> Flushing(o)
    BY <2>1 DEF Flushing
  <2>4. CASE o = p
    <3>1. 1 \in Dequeues(o) /\ Pushes(o)' = Pushes(o)
      BY <1>8, <2>1, <2>2, <2>4, AppliesOn
    <3>2. ASSUME NEW i \in Coming(o)'
          PROVE  ~InCache(o)
      <4>1. i \in Pushes(o) /\ i # 1
        BY <2>1, <3>1 DEF Coming, Unapplied, Applies
      <4>2. i \in ActionsOn(o) /\ i > 1
        BY <4>1 DEF Pushes, ActionsOn
      <4> QED
        BY <3>1, <4>2 DEF CacheClean
    <3>3. Coming(o)' # {} => cache'[o] = {} /\ ~Flushing(o)'
      BY <2>1, <3>2 DEF InCache, Flushing
    <3>4. cache'[o] # {} => ~Flushing(o)'
      BY <1>0, <2>1, <2>3 DEF OnceOf
    <3>5. Cleaned(o)'
      BY <2>2, <2>4
    <3> QED
      BY <3>3, <3>4, <3>5 DEF OnceOf, Cleaned
  <2>5. CASE o # p
    <3>1. LiveGroups(o)' = LiveGroups(o) /\ Coming(o)' = Coming(o)
      BY <2>1, <2>2, <2>5, AppliesOn
    <3>2. queue' \subseteq queue /\ executing' \subseteq executing
      BY <2>2 DEF DequeueAndIgnore
    <3> QED
      BY <1>0, <2>1, <2>3, <3>1, <3>2, OnceLess
  <2> QED
    BY <2>4, <2>5
<1>9. CASE Enqueues /\ popped = {}
  <2>1. UNCHANGED <<tableVars, queue, popped, executing, cache, batch>>
    BY <1>9, EnqueuesFacts DEF execVars
  <2>2. PICK os \in SUBSET Ops, cb \in {<<>>, <<Callback("flushed", {}, NoId)>>} :
            Enqueue(os, cb)
    BY <1>9, EnqueuesFacts
  <2> DEFINE P == {q \in os : MayEnqueue(q)}
  <2>3. Extends(P, "push")
    BY <2>2, EnqueueExtends
  <2>4. LiveGroups(o)' = LiveGroups(o)
    BY <2>1, LiveSame
  <2>5. flush' = "taken" => flush = "taken"
    BY <1>9 DEF Enqueues, EnqueueMissing, EnqueueLost, WriteResults, EndInvalidate, cacheVars
  <2>6. Flushing(o)' => Flushing(o)
    BY <2>1, <2>5 DEF Flushing
  <2>7. CASE Coming(o)' = Coming(o)
    BY <1>0, <2>1, <2>4, <2>6, <2>7, OnceLess
  <2>8. CASE o \in P /\ Dequeues(o) = {}
    <3>1. Cleaned(o) /\ ~InCache(o)
      BY <1>9, <2>8, MayEnqueueWhatIsNowhere
    <3> QED
      BY <2>1, <2>4, <2>6, <3>1 DEF OnceOf, Cleaned, InCache, Flushing
  <2> HIDE DEF P
  <2>9. o \in P /\ Dequeues(o) # {} => Coming(o)' = Coming(o)
    BY <2>3, ExtendsWith
  <2>10. o \notin P => Coming(o)' = Coming(o)
    BY <2>3, ExtendsOthers
  <2> QED
    BY <2>7, <2>8, <2>9, <2>10
<1>10. ASSUME NEW p \in Ops, HandDequeue(p)
       PROVE  OnceOf(o)'
  <2> DEFINE P == {p}
  <2>1. /\ Extends(P, "dequeue")
        /\ UNCHANGED <<tableVars, queue, popped, executing, cache, batch, flush>>
    BY <1>10, HandDequeueExtends DEF HandDequeue, cacheVars, execVars
  <2>2. LiveGroups(o)' = LiveGroups(o)
    BY <2>1, LiveSame
  <2> HIDE DEF P
  <2>3. Coming(o)' = Coming(o)
    BY <2>1, ExtendsOthers, ExtendsWith
  <2> QED
    BY <1>0, <2>1, <2>2, <2>3, OnceLess DEF Flushing
<1>11. CASE IgnoreOnThread
  <2>1. UNCHANGED <<ready, applied, queue, popped, executing, cache, batch, flush>>
    BY <1>11 DEF IgnoreOnThread, loopVars, execVars, cacheVars
  <2>2. PICK p \in sec.at : IgnoreOp(p)
    BY <1>11 DEF IgnoreOnThread
  <2>3. p \in Ops
    BY <1>11, <2>2 DEF ESTypeOK, Section
  <2>4. LiveGroups(o)' # {} => LiveGroups(o) # {}
    BY <2>2, <2>3, LiveIgnore
  <2>5. Coming(o)' = Coming(o) /\ (Flushing(o)' <=> Flushing(o))
    BY <2>1 DEF Coming, Pushes, Dequeues, ActionsOn, Unapplied, Flushing
  <2> QED
    BY <1>0, <2>1, <2>4, <2>5, OnceLess
<1> QED
  <2>1. ApplyLoopAction => Head(ready).act \in {"push", "dequeue"}
    BY DEF ApplyLoopAction
  <2> QED
    BY <2>1, StepKinds, <1>1, <1>2, <1>3, <1>4, <1>5, <1>6, <1>7, <1>8, <1>9, <1>10, <1>11
-----------------------------------------------------------------------------
(* The present epoch *)

\* The part of Fresh about one operation.
FreshOf(o) ==
    /\ rows[o] \subseteq {epoch[o]}
    /\ \A r \in cache[o] : r.epoch = epoch[o]
    /\ flush = "taken" => \A r \in batch[o] : r.epoch = epoch[o]
    /\ \A d \in LiveGroups(o) : born[d][o] = epoch[o] \/ Dequeues(o) # {}

\* A step that makes nothing new of an operation.
LEMMA FreshLess ==
  ASSUME NEW o \in Ops, FreshOf(o), UNCHANGED <<rows, epoch, born>>,
         cache'[o] \subseteq cache[o],
         flush' = "taken" => flush = "taken" /\ batch'[o] \subseteq batch[o],
         LiveGroups(o)' \subseteq LiveGroups(o),
         Dequeues(o) # {} => Dequeues(o)' # {} \/ LiveGroups(o)' = {}
  PROVE  FreshOf(o)'
  BY DEF FreshOf

\* What an invalidation is about to commit is nowhere on its way, or doomed.
LEMMA CommitIsClean ==
  ASSUME ESTypeOK, SectionOK, DequeuesClean, CacheClean, sec.pc = "commit",
         NEW gone \in Wiped(sec.scope), NEW o \in gone
  PROVE  /\ o \in Ops /\ cache[o] = {} /\ batch[o] = {}
         /\ LiveGroups(o) # {} => Dequeues(o) # {}
<1>1. o \in sec.scope /\ sec.scope \subseteq Ops
  <2>1. gone \subseteq sec.scope
    BY DEF Wiped
  <2> QED
    BY <2>1 DEF ESTypeOK, Section
<1>2. o \in dequeued
  BY <1>1 DEF SectionOK
<1> QED
  BY <1>1, <1>2 DEF CacheClean, InCache, DequeuesClean, Cleaned

\* Nothing stale is stored, or on its way to be.
LEMMA FreshStep ==
  ASSUME ESTypeOK, TableOK, LoopOK, SectionOK, PushesApart, DequeuesClean, CacheClean, Once,
         Fresh, [ESNext]_esVars
  PROVE  Fresh'
<1> SUFFICES ASSUME NEW o \in Ops
             PROVE  FreshOf(o)'
  BY DEF Fresh, FreshOf
<1>0. FreshOf(o)
  BY DEF Fresh, FreshOf
<1>1. CASE \/ UNCHANGED esVars \/ DiscardCached \/ BeginExecute
           \/ \E scope \in Scopes : BeginInvalidate(scope)
           \/ \E os \in SUBSET Ops : Pop(os)
  <2>1. UNCHANGED <<ready, applied, rows, epoch, born, flush, tableVars>>
    BY <1>1 DEF esVars, DiscardCached, BeginInvalidate, BeginExecute, Pop, loopVars, dbVars,
       cacheVars
  <2>2. cache'[o] \subseteq cache[o] /\ batch'[o] \subseteq batch[o]
    BY <1>1 DEF esVars, DiscardCached, BeginInvalidate, BeginExecute, Pop, cacheVars, Without
  <2>3. LiveGroups(o)' = LiveGroups(o)
    BY <2>1, LiveSame
  <2>4. Dequeues(o)' = Dequeues(o)
    BY <2>1 DEF Dequeues, ActionsOn, Unapplied
  <2> QED
    BY <1>0, <2>1, <2>2, <2>3, <2>4, FreshLess
<1>2. CASE TakeBatch
  <2>1. UNCHANGED <<ready, applied, rows, epoch, born, tableVars>>
    BY <1>2 DEF TakeBatch, loopVars, dbVars
  <2>2. cache'[o] = {} /\ batch'[o] = cache[o]
    BY <1>2 DEF TakeBatch, Nothing
  <2>3. LiveGroups(o)' = LiveGroups(o)
    BY <2>1, LiveSame
  <2>4. Dequeues(o)' = Dequeues(o)
    BY <2>1 DEF Dequeues, ActionsOn, Unapplied
  <2> QED
    BY <1>0, <2>1, <2>2, <2>3, <2>4 DEF FreshOf
<1>3. CASE Execute
  <2>1. /\ Extends({}, "push") /\ UNCHANGED <<rows, epoch, cache, batch, flush>>
        /\ Hand(executing)
    BY <1>3, ExecuteExtends DEF Execute, cacheVars, dbVars
  <2>2. Dequeues(o)' = Dequeues(o)
    BY <2>1, ExtendsNothing
  <2>3. LiveGroups(o)' \subseteq LiveGroups(o) \cup {lastId + 1}
    BY <2>1, LiveHand
  <2>4. lastId + 1 \in Ids /\ \A d \in LiveGroups(o) : d \in Ids /\ d # lastId + 1
    BY <2>1 DEF Hand, LiveGroups, TableOK, ESTypeOK, TableTypeOK
  <2>5. /\ born'[lastId + 1] = epoch
        /\ \A d \in LiveGroups(o) : born'[d] = born[d]
    BY <1>3, <2>4 DEF Execute, ESTypeOK
  <2> QED
    BY <1>0, <2>1, <2>2, <2>3, <2>5 DEF FreshOf
<1>4. CASE StartBuild \/ EndFlush \/ ClearPending
  <2>1. Shortens /\ UNCHANGED <<rows, epoch, born, cache, tableVars>>
    BY <1>4, StartShortens, ClearShortens DEF StartBuild, EndFlush, ClearPending, dbVars,
       cacheVars
  <2>2. flush' = "taken" => flush = "taken" /\ batch' = batch
    BY <1>4 DEF StartBuild, EndFlush, ClearPending, cacheVars
  <2>3. LiveGroups(o)' = LiveGroups(o)
    BY <2>1, LiveSame
  <2>4. Dequeues(o) = {} <=> Dequeues(o)' = {}
    BY <2>1, ShortensOn
  <2> QED
    BY <1>0, <2>1, <2>2, <2>3, <2>4, FreshLess
<1>5. ASSUME NEW d \in Ids, Ends(d)
      PROVE  FreshOf(o)'
  <2>1. EndOf({d}) /\ UNCHANGED <<ready, applied, rows, epoch, born, batch, flush>>
    BY <1>5, EndsFacts DEF loopVars, dbVars
  <2>2. LiveGroups(o)' \subseteq LiveGroups(o)
    BY <2>1, LiveEnd
  <2>3. Dequeues(o)' = Dequeues(o)
    BY <2>1 DEF Dequeues, ActionsOn, Unapplied
  <2>4. CASE cache'[o] = cache[o]
    BY <1>0, <2>1, <2>2, <2>3, <2>4, FreshLess
  <2>5. ASSUME NEW bad \in SUBSET Ops, ActionFinished(d, bad), d \in LiveGroups(o)
        PROVE  FreshOf(o)'
    <3>1. /\ cache'[o] = {[epoch |-> born[d][o], good |-> o \notin bad]}
          /\ Dequeues(o) = {}
      BY <2>5, FinishedCache
    <3>2. born[d][o] = epoch[o]
      BY <1>0, <2>5, <3>1 DEF FreshOf
    <3> QED
      BY <1>0, <2>1, <2>2, <2>3, <3>1, <3>2 DEF FreshOf
  <2>6. WorkerLost(d) \/ JobGroupError(d) => cache'[o] = cache[o]
    BY DEF WorkerLost, JobGroupError, cacheVars
  <2> QED
    BY <1>5, <2>4, <2>5, <2>6, FinishedCache DEF Ends
<1>6. CASE ApplyLoopAction
  <2>1. Applies /\ UNCHANGED <<rows, epoch, born, cache, batch, flush>>
    BY <1>6, ApplyApplies DEF ApplyLoopAction, cacheVars, dbVars
  <2>2. CASE Head(ready).act = "push"
    <3>1. LiveGroups(o)' = LiveGroups(o)
      BY <1>6, <2>2, LiveSame DEF ApplyLoopAction
    <3>2. Dequeues(o)' = Dequeues(o)
      BY <2>1, <2>2, AppliesOn
    <3> QED
      BY <1>0, <2>1, <3>1, <3>2, FreshLess
  <2>3. CASE Head(ready).act = "dequeue"
    <3>1. PICK p \in Ops : /\ Head(ready).ops = {p} /\ Cleaned(p)'
                           /\ \A q \in Ops \ {p} : LiveGroups(q)' = LiveGroups(q)
      BY <1>6, <2>3, DequeueCleans
    <3>2. CASE o = p
      BY <1>0, <2>1, <3>1, <3>2, FreshLess DEF Cleaned
    <3>3. CASE o # p
      <4>1. Dequeues(o)' = Dequeues(o) /\ LiveGroups(o)' = LiveGroups(o)
        BY <2>1, <3>1, <3>3, AppliesOn
      <4> QED
        BY <1>0, <2>1, <4>1, FreshLess
    <3> QED
      BY <3>2, <3>3
  <2> QED
    BY <1>6, <2>2, <2>3 DEF ApplyLoopAction
<1>7. CASE Enqueues
  <2>1. UNCHANGED <<tableVars, born, cache, batch>>
    BY <1>7, EnqueuesFacts
  <2>2. PICK os \in SUBSET Ops, cb \in {<<>>, <<Callback("flushed", {}, NoId)>>} :
            Enqueue(os, cb)
    BY <1>7, EnqueuesFacts
  <2> DEFINE P == {q \in os : MayEnqueue(q)}
  <2>3. Extends(P, "push")
    BY <2>2, EnqueueExtends
  <2> HIDE DEF P
  <2>4. LiveGroups(o)' = LiveGroups(o) /\ Dequeues(o)' = Dequeues(o)
    BY <2>1, <2>3, LiveSame, ExtendsOthers, ExtendsWith
  <2>5. CASE EnqueueMissing \/ \E q \in Ops : EnqueueLost(q)
    <3>1. UNCHANGED <<rows, epoch, flush>>
      BY <2>5 DEF EnqueueMissing, EnqueueLost, dbVars, cacheVars
    <3> QED
      BY <1>0, <2>1, <2>4, <3>1, FreshLess
  <2>6. CASE WriteResults
    <3>1. epoch' = epoch /\ flush = "taken" /\ flush' = "written"
      BY <2>6 DEF WriteResults
    <3>2. rows'[o] \subseteq {epoch[o]}
      <4>1. /\ rows[o] \subseteq {epoch[o]}
            /\ \A r \in batch[o] : r.epoch = epoch[o]
        BY <1>0, <3>1 DEF FreshOf
      <4>2. rows'[o] \in {{}, rows[o], {r.epoch : r \in batch[o]}}
        BY <2>6, WriteStep
      <4> QED
        BY <4>1, <4>2
    <3> QED
      BY <1>0, <2>1, <2>4, <3>1, <3>2 DEF FreshOf
  <2>7. ASSUME NEW gone \in Wiped(sec.scope), EndInvalidate(gone)
        PROVE  FreshOf(o)'
    <3>1. sec.pc = "commit" /\ flush' = flush
      BY <2>7 DEF EndInvalidate, cacheVars
    <3>2. CASE UNCHANGED <<rows, epoch>>
      BY <1>0, <2>1, <2>4, <3>1, <3>2, FreshLess
    <3>3. CASE rows' = Without(rows, gone) /\
               epoch' = [q \in Ops |-> IF q \in gone THEN epoch[q] + 1 ELSE epoch[q]]
      <4>1. CASE o \in gone
        <5>1. rows'[o] = {}
          BY <3>3, <4>1 DEF Without
        <5> QED
          BY <2>1, <2>4, <3>1, <4>1, <5>1, CommitIsClean DEF FreshOf
      <4>2. CASE o \notin gone
        <5>1. rows'[o] = rows[o] /\ epoch'[o] = epoch[o]
          BY <3>3, <4>2 DEF Without
        <5> QED
          BY <1>0, <2>1, <2>4, <3>1, <5>1 DEF FreshOf
      <4> QED
        BY <4>1, <4>2
    <3> QED
      BY <2>7, <3>2, <3>3, Zenon DEF EndInvalidate, dbVars
  <2> QED
    BY <1>7, <2>5, <2>6, <2>7 DEF Enqueues
<1>8. ASSUME NEW p \in Ops, HandDequeue(p)
      PROVE  FreshOf(o)'
  <2> DEFINE P == {p}
  <2>1. /\ Extends(P, "dequeue")
        /\ UNCHANGED <<tableVars, rows, epoch, born, cache, batch, flush>>
    BY <1>8, HandDequeueExtends DEF HandDequeue, cacheVars, dbVars
  <2>2. LiveGroups(o)' = LiveGroups(o)
    BY <2>1, LiveSame
  <2> HIDE DEF P
  <2>3. Dequeues(o) \subseteq Dequeues(o)'
    BY <2>1, ExtendsOthers, ExtendsWith
  <2> QED
    BY <1>0, <2>1, <2>2, <2>3, FreshLess
<1>9. CASE IgnoreOnThread
  <2>1. UNCHANGED <<ready, applied, rows, epoch, born, cache, batch, flush>>
    BY <1>9 DEF IgnoreOnThread, loopVars, dbVars, cacheVars
  <2>2. PICK p \in sec.at : IgnoreOp(p)
    BY <1>9 DEF IgnoreOnThread
  <2>3. p \in Ops
    BY <1>9, <2>2 DEF ESTypeOK, Section
  <2>4. LiveGroups(o)' \subseteq LiveGroups(o)
    BY <2>2, <2>3, LiveIgnore
  <2>5. Dequeues(o)' = Dequeues(o)
    BY <2>1 DEF Dequeues, ActionsOn, Unapplied
  <2> QED
    BY <1>0, <2>1, <2>4, <2>5, FreshLess
<1> QED
  BY StepKinds, <1>1, <1>2, <1>3, <1>4, <1>5, <1>6, <1>7, <1>8, <1>9
-----------------------------------------------------------------------------
(* The theorems.  They are about a program whose threads cannot switch      *)
(* between AsyncExecutor.run's pop and execute() (see RaceWindow).          *)

LEMMA InitHolds == ESInit => IInv
<1> SUFFICES ASSUME ESInit
             PROVE  IInv
  OBVIOUS
<1>1. ready = <<>> /\ Len(ready) = 0 /\ 1..Len(ready) = {} /\ ~applied
  BY DEF ESInit
<1>2. \A o : ActionsOn(o) = {} /\ Pushes(o) = {} /\ Dequeues(o) = {} /\ Coming(o) = {}
  BY <1>1 DEF ActionsOn, Pushes, Dequeues, Coming
<1>3. \A o : LiveGroups(o) = {}
  BY DEF ESInit, TableInit, LiveGroups
<1>4. ESTypeOK
  <2>1. TableTypeOK
    BY DEF ESInit, TableInit, TableTypeOK
  <2>2. 0 \in Epochs
    BY DEF Epochs
  <2>3. /\ rows \in [Ops -> SUBSET Epochs] /\ epoch \in [Ops -> Epochs]
        /\ born \in [Ids -> [Ops -> Epochs]]
        /\ cache \in [Ops -> SUBSET Results] /\ batch \in [Ops -> SUBSET Results]
    BY <2>2 DEF ESInit, Nothing
  <2>4. pending \in [Ops -> [last : {"none", "push", "dequeue"}, count : Nat]]
    BY DEF ESInit, NoPending
  <2>5. sec \in Section
    BY DEF ESInit, Free, Section
  <2>6. ready \in Seq(Callbacks)
    BY <1>1
  <2>7. applied \in BOOLEAN
    BY Zenon DEF ESInit
  <2>8. faults \in 0..MaxFaults
    BY DEF ESInit
  <2>9. /\ queue \subseteq Ops /\ popped \subseteq Ops /\ executing \subseteq Ops
        /\ started \subseteq Ids /\ flush \in {"idle", "taken", "written"}
        /\ dequeued \subseteq Ops /\ lostOps \subseteq Ops
    BY DEF ESInit
  <2> QED
    BY <2>1, <2>3, <2>4, <2>5, <2>6, <2>7, <2>8, <2>9 DEF ESTypeOK
<1>5. TableOK
  BY DEF ESInit, TableInit, TableOK
<1>6. LoopOK
  BY <1>1 DEF LoopOK
<1>7. MarksOK
  <2>1. Cardinality({}) = 0
    BY FS_EmptySet
  <2>2. \A o \in Ops : pending[o].count = 0 /\ pending[o].last = "none"
    BY DEF ESInit, NoPending
  <2> QED
    BY <1>2, <2>1, <2>2 DEF MarksOK, PendingPredictsLoop
<1>8. SectionOK
  BY DEF ESInit, Free, SectionOK
<1>9. PushesApart /\ DequeuesClean /\ CacheClean
  BY <1>2, <1>8 DEF PushesApart, DequeuesClean, CacheClean, ESInit, Free
<1>10. CacheOne /\ Once /\ Fresh
  BY <1>2, <1>3 DEF CacheOne, Once, Fresh, ESInit, Nothing, Flushing
<1> QED
  BY <1>4, <1>5, <1>6, <1>7, <1>8, <1>9, <1>10 DEF IInv

LEMMA StepHolds ==
  ASSUME ~RaceWindow, IInv, [ESNext]_esVars
  PROVE  IInv'
<1>1. /\ ESTypeOK /\ TableOK /\ LoopOK /\ MarksOK /\ SectionOK /\ PushesApart
      /\ DequeuesClean /\ CacheClean /\ CacheOne /\ Once /\ Fresh
  BY DEF IInv
<1>2. ESTypeOK'
  BY <1>1, TypeStep
<1>3. TableOK' /\ LoopOK' /\ MarksOK' /\ SectionOK'
  BY <1>1, <1>2, TableStep, LoopStepOK, MarksStep, SectionStepOK
<1>4. PushesApart' /\ DequeuesClean' /\ CacheClean' /\ CacheOne'
  BY <1>1, PushesStep, CleanStep, CacheStep, CacheOneStep
<1>5. Once' /\ Fresh'
  BY <1>1, OnceStep, FreshStep
<1> QED
  BY <1>2, <1>3, <1>4, <1>5 DEF IInv

(***************************************************************************)
(* Invariance: the loop's callbacks, the marks, the pool's bookkeeping and *)
(* the places an operation may be in stay consistent, however the loop and *)
(* the sections interleave.                                                *)
(***************************************************************************)
THEOREM Invariance ==
  ASSUME ~RaceWindow
  PROVE  ESSpec => []IInv
<1>1. ESInit => IInv
  BY InitHolds
<1>2. IInv /\ [ESNext]_esVars => IInv'
  BY StepHolds
<1> QED
  BY <1>1, <1>2, PTL DEF ESSpec

(***************************************************************************)
(* Type correctness of the service's state.                                *)
(***************************************************************************)
THEOREM TypeCorrect ==
  ASSUME ~RaceWindow
  PROVE  ESSpec => []ESTypeOK
<1>1. IInv => ESTypeOK
  BY DEF IInv
<1> QED
  BY <1>1, Invariance, PTL

(***************************************************************************)
(* _pending_operations predicts the loop: its count is that of the loop    *)
(* actions on the operation, its action the last of them.                  *)
(***************************************************************************)
THEOREM MarksPredictTheLoop ==
  ASSUME ~RaceWindow
  PROVE  ESSpec => []PendingPredictsLoop
<1>1. IInv => PendingPredictsLoop
  BY DEF IInv, MarksOK
<1> QED
  BY <1>1, Invariance, PTL

(***************************************************************************)
(* _write_results_sync never stores a result that was computed before the  *)
(* last invalidation that _invalidate_submission_sync made of its          *)
(* operation, however many testcases there are and whatever tombstones     *)
(* make it blank the row itself.                                           *)
(***************************************************************************)
THEOREM NothingStaleIsStored ==
  ASSUME ~RaceWindow
  PROVE  ESSpec => []NoStaleRow
<1>1. IInv => NoStaleRow
  BY DEF IInv, Fresh, NoStaleRow
<1> QED
  BY <1>1, Invariance, PTL

\* A set whose elements are all the same has one at most.
LEMMA AtMostOne ==
  ASSUME NEW S, \A x, y \in S : x = y
  PROVE  /\ S = {} => Cardinality(S) = 0
         /\ S # {} => Cardinality(S) = 1
<1>1. S = {} => Cardinality(S) = 0
  BY FS_EmptySet
<1>2. ASSUME NEW x \in S
      PROVE  Cardinality(S) = 1
  <2>1. S = {x}
    OBVIOUS
  <2> QED
    BY <2>1, FS_Singleton
<1> QED
  BY <1>1, <1>2

LEMMA OnceIsProcessedOnce == IInv => ProcessedOnce
<1> SUFFICES ASSUME IInv, NEW o \in Ops,
                    \A i \in ActionsOn(o) : ready[i].act # "dequeue"
             PROVE  Copies(o) <= 1
  BY DEF ProcessedOnce
<1> DEFINE A == {P \in {<<"queue", queue>>, <<"popped", popped>>,
                        <<"executing", executing>>} : o \in P[2]}
           L == LiveGroups(o)
           M == UnappliedPushes(o)
           C == cache[o]
           F == IF flush = "taken" THEN batch[o] ELSE {}
<1>1. OnceOf(o)
  BY DEF IInv, Once, OnceOf
<1>2. M = Coming(o)
  <2>1. Dequeues(o) = {}
    BY DEF Dequeues
  <2> QED
    BY <2>1 DEF UnappliedPushes, Coming, Pushes, Unapplied
<1>3. \A x, y \in A : x = y
  BY <1>1 DEF OnceOf
<1>4. \A x, y \in L : x = y
  BY DEF IInv, TableOK, LiveGroups
<1>5. \A x, y \in M : x = y
  <2>1. \A i, j \in Pushes(o) : ~(i < j)
    BY DEF IInv, PushesApart, Dequeues
  <2>2. M \subseteq Pushes(o) /\ Pushes(o) \subseteq Nat
    BY DEF UnappliedPushes, Pushes, ActionsOn
  <2> QED
    BY <2>1, <2>2
<1>6. (\A x, y \in C : x = y) /\ (\A x, y \in F : x = y)
  BY DEF IInv, CacheOne
<1>7. A # {} => o \in queue \/ o \in popped \/ o \in executing
  OBVIOUS
<1>8. Flushing(o) <=> F # {}
  BY DEF Flushing
<1>9. /\ A # {} => L = {} /\ C = {} /\ F = {} /\ M = {}
      /\ L # {} => C = {} /\ F = {} /\ M = {}
      /\ C # {} => F = {} /\ M = {}
      /\ F # {} => M = {}
  BY <1>1, <1>2, <1>7, <1>8 DEF OnceOf
<1>10. Copies(o) = Cardinality(A) + Cardinality(L) + Cardinality(M) + Cardinality(C)
                   + Cardinality(F)
  <2>1. Cardinality({}) = 0
    BY FS_EmptySet
  <2> QED
    BY <2>1 DEF Copies
<1> HIDE DEF A, L, M, C, F
<1>11. /\ (A = {} => Cardinality(A) = 0) /\ (A # {} => Cardinality(A) = 1)
       /\ (L = {} => Cardinality(L) = 0) /\ (L # {} => Cardinality(L) = 1)
       /\ (M = {} => Cardinality(M) = 0) /\ (M # {} => Cardinality(M) = 1)
       /\ (C = {} => Cardinality(C) = 0) /\ (C # {} => Cardinality(C) = 1)
       /\ (F = {} => Cardinality(F) = 0) /\ (F # {} => Cardinality(F) = 1)
  BY <1>3, <1>4, <1>5, <1>6, AtMostOne
<1> QED
  BY <1>9, <1>10, <1>11

(***************************************************************************)
(* Unless an invalidation is taking it out of where it is, an operation is *)
(* on its way to a result in one place only: the queue, the executor, a    *)
(* worker, the result cache, the batch being written, or a push to come.   *)
(***************************************************************************)
THEOREM OperationsAreProcessedOnce ==
  ASSUME ~RaceWindow
  PROVE  ESSpec => []ProcessedOnce
  BY OnceIsProcessedOnce, Invariance, PTL

\* Every step is one of the pool's client, and hands out only what it may.
LEMMA StepKeepsContract ==
  ASSUME IInv, [ESNext]_esVars
  PROVE  [TableNext]_tableVars
<1>1. CASE Execute
  <2>1. ASSUME NEW o \in executing PROVE o \in Ops /\ MayHand(o)
    <3>1. o \in Ops
      BY DEF IInv, ESTypeOK
    <3>2. LiveGroups(o) = {}
      BY <3>1 DEF IInv, Once
    <3>3. holder[o] # NoId => holder[o] \in held /\ o \in group[holder[o]]
      BY <3>1 DEF IInv, TableOK
    <3> QED
      BY <3>1, <3>2, <3>3 DEF MayHand, LiveGroups
  <2>2. executing \in SUBSET {o \in Ops : MayHand(o)}
    BY <2>1
  <2>3. Hand(executing)
    BY <1>1 DEF Execute
  <2> QED
    BY <2>2, <2>3 DEF TableNext
<1>2. CASE ApplyLoopAction
  <2>1. Head(ready).ops \subseteq Ops
    <3>1. Head(ready) \in Callbacks
      BY <1>2 DEF IInv, ESTypeOK, ApplyLoopAction
    <3> QED
      BY <3>1 DEF Callbacks
  <2> QED
    BY <1>2, <2>1 DEF ApplyLoopAction, DequeueAndIgnore, TableNext
<1>3. CASE IgnoreOnThread
  <2>1. sec.at \subseteq Ops
    BY DEF IInv, ESTypeOK, Section
  <2> QED
    BY <1>3, <2>1 DEF IgnoreOnThread, TableNext
<1>4. ASSUME NEW d \in Ids, Ends(d)
      PROVE  TableNext
  <2>1. Take(d) \/ Drop(d) \/ LoseLive({d}) \/ LoseWhole({d})
    BY <1>4 DEF Ends, WorkerLost, JobGroupError, ActionFinished
  <2>2. {d} \in SUBSET Ids
    BY <1>4
  <2> QED
    BY <2>1, <2>2 DEF TableNext
<1> QED
  <2>1. Enqueues => UNCHANGED tableVars
    BY DEF Enqueues, EnqueueMissing, EnqueueLost, WriteResults, EndInvalidate
  <2>2. \/ UNCHANGED esVars \/ ClearPending \/ \E os \in SUBSET Ops : Pop(os)
        \/ BeginExecute \/ StartBuild \/ TakeBatch \/ EndFlush
        \/ \E scope \in Scopes : BeginInvalidate(scope)
        \/ \E o \in Ops : HandDequeue(o)
        \/ DiscardCached
        => UNCHANGED tableVars
    BY DEF esVars, ClearPending, Pop, BeginExecute, StartBuild, TakeBatch, EndFlush,
       BeginInvalidate, HandDequeue, DiscardCached
  <2> QED
    BY StepKinds, <2>1, <2>2, <1>1, <1>2, <1>3, <1>4

(***************************************************************************)
(* The EvaluationService keeps its side of the pool's contract: execute()  *)
(* hands out no operation that a worker has and has not been told to       *)
(* ignore, although it does not look.                                      *)
(***************************************************************************)
THEOREM ContractIsKept ==
  ASSUME ~RaceWindow
  PROVE  ESSpec => KeepsPoolContract
<1>1. ESInit => TableInit
  BY DEF ESInit
<1>2. IInv /\ [ESNext]_esVars => [TableNext]_tableVars
  BY StepKeepsContract
<1> QED
  BY <1>1, <1>2, Invariance, PTL DEF ESSpec, KeepsPoolContract, TableSpec
=============================================================================
