---------------------------- MODULE SubtaskGates ----------------------------
(***************************************************************************)
(* What a submission result may run next, what it may skip and what it is  *)
(* worth, as pure functions of a dataset and of the evaluations stored so  *)
(* far: cms/grading/twophase.py (screening of a codename group),           *)
(* cms/grading/subtaskdag.py (dependencies between subtasks), the group    *)
(* score types of cms/grading/scoretypes and the operations that           *)
(* cms/service/esoperations.py derives from them.                          *)
(*                                                                         *)
(* A dataset `ds' is a record:                                             *)
(*   twoPhase   whether the deployment has two-phase evaluation on         *)
(*   group      testcase -> codename group                                 *)
(*   screening  the testcases whose tag makes them screening testcases     *)
(*   target     subtask -> its testcases (retrieve_target_testcases)       *)
(*   depends    subtask -> the subtasks it depends on                      *)
(*   order      the subtasks in topological order (SubtaskGate below)      *)
(*   reduce     the group score type                                       *)
(*   outcome    testcase -> what this submission scores there when run     *)
(*   compiles   whether this submission compiles                           *)
(* Outcomes are 0 (wrong, or out of time), 1 and 2; a GroupThreshold       *)
(* subtask has its threshold at 1.  Subtasks are numbered from 1.          *)
(*                                                                         *)
(* The evaluations are a function from testcases to "none", "graded" (a    *)
(* worker ran it), "skipped" (synthesized by the screening) and            *)
(* "dependency" (synthesized by the subtask dependencies).                 *)
(***************************************************************************)
EXTENDS Integers, FiniteSets, SequencesExt

EvaluationState == {"none", "graded", "skipped", "dependency"}

Subtasks(ds) == DOMAIN ds.target

TestcasesOf(ds) == DOMAIN ds.group

Unevaluated(ds, evals) == {t \in TestcasesOf(ds) : evals[t] = "none"}

(* The outcome of a stored evaluation: a synthesized one has 0.            *)
OutcomeOf(ds, evals, t) == IF evals[t] = "graded" THEN ds.outcome[t] ELSE 0

-----------------------------------------------------------------------------
(* Score types *)

(* functools.reduce of a product, over the evaluations of testcases.       *)
Product(ds, evals, S) ==
    LET ts == SetToSeq(S)
        product[n \in 0 .. Cardinality(S)] ==
            IF n = 0 THEN 1 ELSE product[n - 1] * OutcomeOf(ds, evals, ts[n])
    IN product[Cardinality(S)]

(* ScoreTypeGroup.reduce of GroupMin, GroupMul and GroupThreshold, over    *)
(* the evaluations of the testcases in S.                                  *)
Reduce(ds, evals, S) ==
    CASE ds.reduce = "GroupMin" ->
            Min({OutcomeOf(ds, evals, t) : t \in S})
      [] ds.reduce = "GroupMul" ->
            Product(ds, evals, S)
      [] ds.reduce = "GroupThreshold" ->
            IF \A t \in S : OutcomeOf(ds, evals, t) \in {1} THEN 1 ELSE 0

(* topological_order: of the subtasks whose dependencies all came, the     *)
(* lowest number first; shorter than the subtasks when there is a cycle.   *)
TopologicalOrder(depends) ==
    LET order[n \in 0 .. Len(depends)] ==
          IF n = 0 THEN <<>>
          ELSE LET before == Range(order[n - 1])
                   ready == {i \in DOMAIN depends \ before : depends[i] \subseteq before}
               IN IF ready = {} THEN order[n - 1]
                                ELSE Append(order[n - 1], Min(ready))
    IN order[Len(depends)]

(* parse_dependencies accepts what it can order, with no subtask           *)
(* depending on itself or on one that does not exist.                      *)
AcceptsDependencies(depends) ==
    /\ \A i \in DOMAIN depends : depends[i] \subseteq DOMAIN depends \ {i}
    /\ Len(TopologicalOrder(depends)) = Len(depends)

(* SubtaskGate.__init__ keeps the order of the subtasks of a dataset.      *)
SubtaskGate(d) ==
    [twoPhase |-> d.twoPhase, group |-> d.group, screening |-> d.screening,
     target |-> d.target, depends |-> d.depends, order |-> TopologicalOrder(d.depends),
     reduce |-> d.reduce, outcome |-> d.outcome, compiles |-> d.compiles]

(* zeroed_by, for one subtask: it is worth 0 if one it depends on is.      *)
ZeroStep(depends, acc, i) ==
    LET failed == {d \in depends[i] : acc.effective[d] <= 0}
    IN IF failed = {} THEN acc
       ELSE [acc EXCEPT !.zeroed[i] = Min(failed), !.effective[i] = 0]

\* Mutant: dependencies do not change the score of what was run.
ZeroedByUnrun(fractions, depends, order) == [i \in DOMAIN depends |-> 0]

(* zeroed_by: the lowest dependency that makes a subtask worth 0, or 0.    *)
ZeroedBy(fractions, depends, order) ==
    LET after[n \in 0 .. Len(order)] ==
          IF n = 0 THEN [zeroed |-> [i \in DOMAIN depends |-> 0], effective |-> fractions]
          ELSE ZeroStep(depends, after[n - 1], order[n])
    IN after[Len(order)].zeroed

(* ScoreTypeGroup.compute_score: what each subtask is worth.               *)
SubtaskScores(ds, evals) ==
    LET fractions == [i \in Subtasks(ds) |-> Reduce(ds, evals, ds.target[i])]
        zeroed == ZeroedBy(fractions, ds.depends, ds.order)
    IN [i \in Subtasks(ds) |-> IF zeroed[i] # 0 THEN 0 ELSE fractions[i]]

-----------------------------------------------------------------------------
(* Two-phase screening *)

ScreeningOf(ds, g) == {t \in ds.screening : ds.group[t] = g}

(* outcomes_for_screening leaves out what the dependencies skipped.        *)
\* Mutant: it does not.
EveryEvaluationCounts(evals, t) == evals[t] # "none"

CountsForScreening(evals, t) == evals[t] \in {"graded", "skipped"}

(* group_screening_status, for one group.                                  *)
ScreeningStatus(ds, evals, g) ==
    LET screening == ScreeningOf(ds, g)
    IN CASE screening = {} -> "passed"
         [] \E t \in screening : ~CountsForScreening(evals, t) -> "pending"
         [] \A t \in screening : OutcomeOf(ds, evals, t) > 0 -> "passed"
         [] OTHER -> "failed"

(* Whether the screening lets a testcase go to a worker.                   *)
ScreeningReleases(ds, evals, t) ==
    \/ ~ds.twoPhase
    \/ t \in ds.screening
    \/ ScreeningStatus(ds, evals, ds.group[t]) = "passed"

(* _advance_two_phase: the evaluations with the skips of failed groups.    *)
WithScreeningSkips(ds, evals) ==
    [t \in TestcasesOf(ds) |->
        IF /\ ds.twoPhase
           /\ evals[t] = "none"
           /\ t \notin ds.screening
           /\ ScreeningStatus(ds, evals, ds.group[t]) = "failed"
        THEN "skipped" ELSE evals[t]]

-----------------------------------------------------------------------------
(* Subtask dependencies *)

(* SubtaskGate.statuses: the status of each subtask and the lowest         *)
(* dependency that failed (0 if none did), in topological order.           *)
StatusStep(ds, evals, acc, i) ==
    LET failed == {d \in ds.depends[i] : acc.status[d] = "failed"}
        done == {t \in ds.target[i] : evals[t] # "none"}
    IN CASE failed # {} ->
              [acc EXCEPT !.status[i] = "failed", !.blocked[i] = Min(failed)]
         [] failed = {} /\ done # {} /\ Reduce(ds, evals, done) <= 0 ->
              [acc EXCEPT !.status[i] = "failed"]
         [] OTHER ->
              IF /\ done = ds.target[i]
                 /\ \A d \in ds.depends[i] : acc.status[d] = "passed"
              THEN [acc EXCEPT !.status[i] = "passed"] ELSE acc

Statuses(ds, evals) ==
    LET after[n \in 0 .. Len(ds.order)] ==
          IF n = 0 THEN [status |-> [i \in Subtasks(ds) |-> "pending"],
                         blocked |-> [i \in Subtasks(ds) |-> 0]]
          ELSE StatusStep(ds, evals, after[n - 1], ds.order[n])
    IN after[Len(ds.order)]

SubtasksOf(ds, t) == {i \in Subtasks(ds) : t \in ds.target[i]}

(* SubtaskGate.releasable                                                  *)
\* Mutant: every subtask of the testcase must be clear, not just one.
ReleasableByAll(ds, status, t) ==
    \A i \in SubtasksOf(ds, t) : \A d \in ds.depends[i] : status[d] = "passed"

Releasable(ds, status, t) ==
    \/ SubtasksOf(ds, t) = {}
    \/ \E i \in SubtasksOf(ds, t) :
          \A d \in ds.depends[i] : status[d] = "passed"

(* SubtaskGate.skippable                                                   *)
Skippable(ds, blocked, t) ==
    /\ SubtasksOf(ds, t) # {}
    /\ \A i \in SubtasksOf(ds, t) : blocked[i] # 0

(* _advance_dependencies                                                   *)
WithDependencySkips(ds, evals) ==
    LET blocked == Statuses(ds, evals).blocked
    IN [t \in TestcasesOf(ds) |->
          IF evals[t] = "none" /\ Skippable(ds, blocked, t)
          THEN "dependency" ELSE evals[t]]

-----------------------------------------------------------------------------
(* submission_get_operations, for a result to evaluate: the testcases that *)
(* both gates let go to a worker now.                                      *)
ReleasedTestcases(ds, evals) ==
    LET status == Statuses(ds, evals).status
    IN {t \in Unevaluated(ds, evals) :
          Releasable(ds, status, t) /\ ScreeningReleases(ds, evals, t)}

-----------------------------------------------------------------------------
(* What docs/subtask-dependencies.md and docs/two-phase-grading.md promise,*)
(* stated without the code: used by the properties only.                   *)

(* The alignment rule of docs/subtask-dependencies.md.                     *)
Aligned(ds) ==
    \A t \in TestcasesOf(ds) \ ds.screening, i \in Subtasks(ds) :
        t \in ds.target[i] => ScreeningOf(ds, ds.group[t]) \subseteq ds.target[i]

(* What a subtask scores by itself when every testcase is run.             *)
OwnScore(ds, i) ==
    Reduce(ds, [t \in TestcasesOf(ds) |-> "graded"], ds.target[i])

(* The subtasks that score 0, or depend, directly or not, on one that does:*)
(* the least set closed under both.                                        *)
Worthless(ds) ==
    {i \in Subtasks(ds) : \A W \in SUBSET Subtasks(ds) :
        (\A j \in Subtasks(ds) :
            OwnScore(ds, j) = 0 \/ ds.depends[j] \cap W # {} => j \in W) => i \in W}

(* They are worth 0, and the others their own score.                       *)
ScoresOfFullGrading(ds) ==
    [i \in Subtasks(ds) |-> IF i \in Worthless(ds) THEN 0 ELSE OwnScore(ds, i)]

=============================================================================
