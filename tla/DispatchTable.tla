---------------------------- MODULE DispatchTable ----------------------------
(***************************************************************************)
(* What the WorkerPool promises to the EvaluationService, with no worker   *)
(* in it.  Every acquire_worker hands out a job group under a fresh        *)
(* dispatch id; the group stays held until exactly one of three things     *)
(* happens: its answer is taken, its answer is dropped (an error), or the  *)
(* pool gives its operations back as lost.  An operation can be ignored    *)
(* while a group holds it, and its result is then never taken.             *)
(*                                                                         *)
(* WorkerPool implements this specification (workers, clocks, connections  *)
(* and the flags that disable a worker are its business); the              *)
(* EvaluationService is specified on top of it.                            *)
(***************************************************************************)
EXTENDS Integers

CONSTANTS
    Ops,          \* the operations (ESOperation)
    MaxDispatch   \* bound on the dispatch ids, which the code never reuses

ASSUME MaxDispatchAssumption == MaxDispatch \in Nat

Ids  == 1..MaxDispatch
NoId == 0

VARIABLES
    group,    \* group[d]: the operations sent under dispatch id d
    held,     \* the ids the pool is waiting for
    ignored,  \* ignored[d]: the operations of d whose result is to be ignored
    holder,   \* holder[o]: the id the reverse lookup finds o under, or NoId
    lastId,   \* the last id handed out
    taken,    \* taken[d]: the operations of d whose results went to the cache
    lost      \* lost[d]: the operations of d given back to be queued again

tableVars == <<group, held, ignored, holder, lastId, taken, lost>>

TableTypeOK ==
    /\ group \in [Ids -> SUBSET Ops]
    /\ held \subseteq Ids
    /\ ignored \in [Ids -> SUBSET Ops]
    /\ holder \in [Ops -> Ids \cup {NoId}]
    /\ lastId \in 0..MaxDispatch
    /\ taken \in [Ids -> SUBSET Ops]
    /\ lost \in [Ids -> SUBSET Ops]

TableInit ==
    /\ group   = [d \in Ids |-> {}]
    /\ held    = {}
    /\ ignored = [d \in Ids |-> {}]
    /\ holder  = [o \in Ops |-> NoId]
    /\ lastId  = 0
    /\ taken   = [d \in Ids |-> {}]
    /\ lost    = [d \in Ids |-> {}]

(***************************************************************************)
(* The client's side of the contract: it hands out an operation only if no *)
(* group holds it, or if it has asked for the held copy to be ignored.     *)
(***************************************************************************)
MayHand(o) == holder[o] # NoId => o \in ignored[holder[o]]

\* acquire_worker: a fresh id; the reverse lookup moves to the new group.
Hand(os) ==
    LET d == lastId + 1
    IN  /\ d \in Ids
        /\ os # {}
        /\ lastId' = d
        /\ held'   = held \cup {d}
        /\ group'  = [group EXCEPT ![d] = os]
        /\ holder' = [o \in Ops |-> IF o \in os THEN d ELSE holder[o]]
        /\ UNCHANGED <<ignored, taken, lost>>

\* ignore_operation: only the group the reverse lookup finds learns of it.
IgnoreOp(o) ==
    /\ ignored' = IF holder[o] = NoId
                  THEN ignored
                  ELSE [ignored EXCEPT ![holder[o]] = @ \cup {o}]
    /\ UNCHANGED <<group, held, holder, lastId, taken, lost>>

\* Mutant: the reverse lookup still finds what the ended groups held.
EndOfKeepingHolder(D) ==
    /\ held'    = held \ D
    /\ ignored' = [d \in Ids |-> IF d \in D THEN {} ELSE ignored[d]]
    /\ UNCHANGED <<group, holder, lastId>>

\* The pool stops waiting for the groups in D.
EndOf(D) ==
    /\ held'    = held \ D
    /\ ignored' = [d \in Ids |-> IF d \in D THEN {} ELSE ignored[d]]
    /\ holder'  = [o \in Ops |-> IF holder[o] \in D THEN NoId ELSE holder[o]]
    /\ UNCHANGED <<group, lastId>>

\* The answer of d: its results, but the ignored ones, go to the cache.
Take(d) ==
    /\ d \in held
    /\ EndOf({d})
    /\ taken' = [taken EXCEPT ![d] = group[d] \ ignored[d]]
    /\ UNCHANGED lost

\* d ended in an error: nobody gets its operations.
Drop(d) ==
    /\ d \in held
    /\ EndOf({d})
    /\ UNCHANGED <<taken, lost>>

(***************************************************************************)
(* check_timeouts and disable_worker give back what was not ignored.       *)
(***************************************************************************)
LoseLive(D) ==
    /\ D # {} /\ D \subseteq held
    /\ EndOf(D)
    /\ lost' = [d \in Ids |-> IF d \in D THEN group[d] \ ignored[d] ELSE lost[d]]
    /\ UNCHANGED taken

(***************************************************************************)
(* check_connections gives back every operation, the ignored ones too.     *)
(***************************************************************************)
LoseWhole(D) ==
    /\ D # {} /\ D \subseteq held
    /\ EndOf(D)
    /\ lost' = [d \in Ids |-> IF d \in D THEN group[d] ELSE lost[d]]
    /\ UNCHANGED taken

TableNext ==
    \/ \E os \in SUBSET {o \in Ops : MayHand(o)} : Hand(os)
    \/ \E o \in Ops : IgnoreOp(o)
    \/ \E d \in Ids : Take(d) \/ Drop(d)
    \/ \E D \in SUBSET Ids : LoseLive(D) \/ LoseWhole(D)

TableSpec == TableInit /\ [][TableNext]_tableVars
==============================================================================
