----------------------------- MODULE MCResults -----------------------------
(* Datasets for TLC: every small one, and a few with a chain of subtasks.  *)
EXTENDS Results, TLC

CONSTANTS t1, t2, t3

T == {t1, t2, t3}

(* The groups of a dataset, as a partition: each testcase gets its block.  *)
Groupings == {g \in [T -> SUBSET T] :
                \A t \in T : t \in g[t] /\ \A u \in g[t] : g[u] = g[t]}

(* Two subtasks, the second depending on the first or not, over every      *)
(* choice of targets, groups, screening testcases and right answers.       *)
SmallCases ==
    [twoPhase : {TRUE}, group : Groupings, screening : SUBSET T,
     target : {<<a, b>> : a, b \in SUBSET T \ {{}}},
     depends : {<<{}, {}>>, <<{}, {1}>>},
     reduce : {"GroupMin"}, outcome : [T -> {0, 1}], compiles : {TRUE}]

(* A few to go through with faults: a subtask with its screening that      *)
(* depends on another, passed and failed; a failed screening; ...          *)
Aided ==
    [twoPhase |-> TRUE, group |-> (t1 :> 1 @@ t2 :> 2 @@ t3 :> 2), screening |-> {t2},
     target |-> <<{t1}, {t2, t3}>>, depends |-> <<{}, {1}>>,
     reduce |-> "GroupMin", outcome |-> (t1 :> 1 @@ t2 :> 1 @@ t3 :> 2), compiles |-> TRUE]
Blocked == [Aided EXCEPT !.outcome[t1] = 0]
Screened == [Aided EXCEPT !.depends = <<{}, {}>>, !.outcome[t2] = 0]

(* ... a chain of subtasks against their numbers, without screening; ...   *)
Chain ==
    [Aided EXCEPT !.twoPhase = FALSE, !.target = <<{t1}, {t2}, {t3}>>,
                  !.depends = <<{2}, {}, {1}>>, !.reduce = "GroupThreshold",
                  !.outcome = (t1 :> 2 @@ t2 :> 1 @@ t3 :> 1)]

(* ... no gate at all; gates that hold each other, as the first subtask is *)
(* screened by a testcase of the second; a compilation error.              *)
Plain == [Aided EXCEPT !.twoPhase = FALSE, !.depends = <<{}, {}>>, !.reduce = "GroupMul"]
Crossed == [Aided EXCEPT !.group = (t1 :> 1 @@ t2 :> 1 @@ t3 :> 2)]
DoesNotCompile == [Plain EXCEPT !.compiles = FALSE]

PickedCases == {Aided, Blocked, Screened, Chain, Plain, Crossed, DoesNotCompile}

Symmetry == Permutations(T)

=============================================================================
