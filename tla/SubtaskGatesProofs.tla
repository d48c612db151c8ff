------------------------- MODULE SubtaskGatesProofs -------------------------
(***************************************************************************)
(* What the gates and the score types compute, for every dataset that      *)
(* parse_dependencies accepts and for all evaluations.                     *)
(*                                                                         *)
(* The loops over the subtasks are recursive functions, whose runs exist   *)
(* (RunExists).  Each of statuses and zeroed_by is then shown to give      *)
(* every subtask what follows from the subtasks it depends on, so that the *)
(* rest of the argument goes from these to the subtask                     *)
(* (DependencyInduction), and the order is needed no more.  The subtasks   *)
(* that full grading makes worthless are the least set closed under        *)
(* dependency: what has passed is outside of it, and, on a dataset that    *)
(* follows the alignment rule, what has failed is inside.                  *)
(***************************************************************************)
EXTENDS SubtaskGates, FiniteSetTheorems, WellFoundedInduction, TLAPS

-----------------------------------------------------------------------------
(* Induction *)

\* Every nonempty set of numbers has a least one.
LEMMA LeastNumber ==
  ASSUME NEW T \in SUBSET Nat, T # {}
  PROVE  \E x \in T : \A y \in T : x <= y
<1> DEFINE R == {ss \in Nat \X Nat : ss[1] < ss[2]}
<1>1. IsWellFoundedOn(R, Nat)
  BY NatLessThanWellFounded DEF OpToRel
<1>2. \A x \in Nat, y \in Nat : y < x => <<y, x>> \in R
  OBVIOUS
<1> HIDE DEF R
<1>3. PICK x \in T : \A y \in T : ~ (<<y, x>> \in R)
  BY <1>1, WFMin
<1>4. \A y \in T : ~(y < x)
  BY <1>2, <1>3
<1>5. \A y \in T : x <= y
  BY <1>4
<1> QED
  BY <1>5

\* Induction over the positions of a sequence.
LEMMA UpTo ==
  ASSUME NEW N \in Nat, NEW T, 0 \in T, \A n \in 1 .. N : n - 1 \in T => n \in T
  PROVE  \A n \in 0 .. N : n \in T
<1> DEFINE M == {n \in 0 .. N : n \notin T}
<1>1. SUFFICES ASSUME M # {}
               PROVE  FALSE
  OBVIOUS
<1>2. PICK x \in M : \A y \in M : x <= y
  <2>1. M \in SUBSET Nat
    OBVIOUS
  <2> HIDE DEF M
  <2> QED
    BY <1>1, <2>1, LeastNumber
<1>3. x \in 1 .. N /\ x - 1 \in 0 .. N /\ ~(x <= x - 1)
  BY <1>2
<1>4. x - 1 \in T
  BY <1>2, <1>3
<1> QED
  BY <1>2, <1>3, <1>4

\* The first n steps of a loop over positions.
Runs(S, step, x, n) ==
    {f \in [0 .. n -> S] : f[0] = x /\ \A k \in 1 .. n : f[k] = step[<<k, f[k - 1]>>]}

\* Such a loop can be run to its end.
LEMMA RunExists ==
  ASSUME NEW S, NEW x \in S, NEW N \in Nat, NEW step \in [(1 .. N) \X S -> S]
  PROVE  Runs(S, step, x, N) # {}
<1> DEFINE T == {n \in Nat : n <= N => Runs(S, step, x, n) # {}}
<1>1. 0 \in T
  <2>1. [k \in 0 .. 0 |-> x] \in Runs(S, step, x, 0)
    BY DEF Runs
  <2> QED
    BY <2>1
<1>2. ASSUME NEW n \in 1 .. N, n - 1 \in T
      PROVE  n \in T
  <2>1. n - 1 \in Nat /\ n - 1 <= N
    OBVIOUS
  <2>2. PICK g : g \in Runs(S, step, x, n - 1)
    BY <1>2, <2>1
  <2>3. /\ g \in [0 .. n - 1 -> S] /\ g[0] = x
        /\ \A k \in 1 .. n - 1 : g[k] = step[<<k, g[k - 1]>>]
    BY <2>2 DEF Runs
  <2> DEFINE h == [k \in 0 .. n |-> IF k = n THEN step[<<n, g[n - 1]>>] ELSE g[k]]
  <2>4. h \in [0 .. n -> S]
    <3>1. g[n - 1] \in S
      BY <2>1, <2>3
    <3>2. step[<<n, g[n - 1]>>] \in S
      BY <3>1
    <3>3. \A k \in 0 .. n : k # n => g[k] \in S
      BY <2>3
    <3> QED
      BY <3>2, <3>3
  <2>5. h[0] = x
    BY <2>3
  <2>6. ASSUME NEW k \in 1 .. n
        PROVE  h[k] = step[<<k, h[k - 1]>>]
    <3>1. k - 1 \in 0 .. n /\ k - 1 # n /\ k \in 0 .. n
      OBVIOUS
    <3>2. h[k - 1] = g[k - 1]
      BY <3>1
    <3>3. CASE k = n
      BY <3>1, <3>2, <3>3
    <3>4. CASE k # n
      <4>1. k \in 1 .. n - 1
        BY <3>4
      <4> QED
        BY <2>3, <3>1, <3>2, <3>4, <4>1
    <3> QED
      BY <3>3, <3>4
  <2> HIDE DEF h
  <2>7. h \in Runs(S, step, x, n)
    BY <2>4, <2>5, <2>6 DEF Runs
  <2> QED
    BY <2>1, <2>7
<1>3. N \in T
  <2> HIDE DEF T
  <2>1. \A n \in 0 .. N : n \in T
    BY <1>1, <1>2, UpTo
  <2> QED
    BY <2>1
<1> QED
  BY <1>3

\* Min is that number.
LEMMA MinIs ==
  ASSUME NEW S \in SUBSET Nat, S # {}
  PROVE  Min(S) \in S /\ \A y \in S : Min(S) <= y
<1>1. \E x \in S : \A y \in S : x =< y
  BY LeastNumber
<1> QED
  BY <1>1 DEF Min
-----------------------------------------------------------------------------
(* Score types *)

\* The testcases of a set, one after the other.
LEMMA SeqOfSet ==
  ASSUME NEW S, IsFiniteSet(S)
  PROVE  /\ Cardinality(S) \in Nat
         /\ SetToSeq(S) \in [1 .. Cardinality(S) -> S]
         /\ \A t \in S : \E k \in 1 .. Cardinality(S) : SetToSeq(S)[k] = t
<1> DEFINE n == Cardinality(S)
           f == SetToSeq(S)
<1>1. n \in Nat /\ ExistsBijection(1 .. n, S)
  BY FS_CardinalityType
<1>2. PICK g : g \in Bijection(1 .. n, S)
  BY <1>1 DEF ExistsBijection
<1>3. g \in [1 .. n -> S] /\ \A a, b \in 1 .. n : g[a] = g[b] => a = b
  BY <1>2 DEF Bijection, Injection, IsInjective
<1>4. \E h \in [1 .. n -> S] : IsInjective(h)
  BY <1>3 DEF IsInjective
<1>5. f \in [1 .. n -> S] /\ IsInjective(f)
  BY <1>4 DEF SetToSeq
<1> HIDE DEF n, f
<1>6. f \in Injection(1 .. n, S)
  BY <1>5 DEF Injection
<1>7. Cardinality(1 .. n) = n
  BY <1>1, FS_Interval
<1>8. f \in Surjection(1 .. n, S)
  BY <1>6, <1>7, FS_Injection DEF n
<1>9. \A t \in S : \E k \in 1 .. n : f[k] = t
  BY <1>8 DEF Surjection
<1> QED
  BY <1>1, <1>5, <1>9 DEF n, f

\* When a product is 0.
LEMMA ProductStep ==
  ASSUME NEW p \in Nat, NEW q \in Nat
  PROVE  /\ p * q \in Nat
         /\ p * 0 = 0 /\ 0 * q = 0
         /\ p > 0 /\ q > 0 => p * q > 0
  OBVIOUS

\* The product is taken factor by factor.
LEMMA ProductRuns ==
  ASSUME NEW d, NEW evals, NEW S, IsFiniteSet(S),
         \A t \in S : OutcomeOf(d, evals, t) \in Nat
  PROVE  \E f : /\ Product(d, evals, S) = f[Cardinality(S)]
                /\ f[0] = 1
                /\ \A n \in 1 .. Cardinality(S) :
                      f[n] = f[n - 1] * OutcomeOf(d, evals, SetToSeq(S)[n])
<1> DEFINE N == Cardinality(S)
           ts == SetToSeq(S)
           v == [k \in 1 .. N |-> OutcomeOf(d, evals, ts[k])]
           product[n \in 0 .. N] ==
               IF n = 0 THEN 1 ELSE product[n - 1] * OutcomeOf(d, evals, ts[n])
           step == [p \in (1 .. N) \X Nat |-> p[2] * v[p[1]]]
<1>1. /\ N \in Nat /\ ts \in [1 .. N -> S]
      /\ \A t \in S : \E k \in 1 .. N : ts[k] = t
  BY SeqOfSet
<1>2. v \in [1 .. N -> Nat] /\ \A k \in 1 .. N : v[k] = OutcomeOf(d, evals, ts[k])
  BY <1>1
<1>3. Product(d, evals, S) = product[N]
  BY DEF Product
<1> HIDE DEF v, N, ts
<1>4. step \in [(1 .. N) \X Nat -> Nat]
  <2>1. \A p \in (1 .. N) \X Nat : p[2] \in Nat /\ v[p[1]] \in Nat
    BY <1>2
  <2>2. \A p \in (1 .. N) \X Nat : p[2] * v[p[1]] \in Nat
    BY <2>1, ProductStep
  <2> QED
    BY <2>2
<1>5. \A n \in 1 .. N, x \in Nat : step[<<n, x>>] = x * OutcomeOf(d, evals, ts[n])
  BY <1>2
<1> HIDE DEF step
<1>6. PICK f \in [0 .. N -> Nat] : f[0] = 1 /\ \A k \in 1 .. N : f[k] = step[<<k, f[k - 1]>>]
  <2> HIDE DEF product
  <2>1. 1 \in Nat /\ N \in Nat
    BY <1>1
  <2>2. Runs(Nat, step, 1, N) # {}
    BY <1>4, <2>1, RunExists
  <2> QED
    BY <2>2 DEF Runs
<1>7. f = [n \in 0 .. N |-> IF n = 0 THEN 1 ELSE f[n - 1] * OutcomeOf(d, evals, ts[n])]
  <2>1. ASSUME NEW n \in 0 .. N, n # 0
        PROVE  f[n] = f[n - 1] * OutcomeOf(d, evals, ts[n])
    <3>1. n \in 1 .. N /\ n - 1 \in 0 .. N
      BY <1>1, <2>1
    <3> QED
      BY <1>5, <1>6, <3>1
  <2> QED
    BY <1>6, <2>1
<1>8. product = [n \in 0 .. N |->
                   IF n = 0 THEN 1 ELSE product[n - 1] * OutcomeOf(d, evals, ts[n])]
  BY <1>7
<1> HIDE DEF product
<1>9. /\ product[0] = 1
      /\ \A n \in 1 .. N : product[n] = product[n - 1] * OutcomeOf(d, evals, ts[n])
  <2>1. ASSUME NEW n \in 1 .. N
        PROVE  product[n] = product[n - 1] * OutcomeOf(d, evals, ts[n])
    <3>1. n \in 0 .. N /\ n # 0
      BY <1>1
    <3> QED
      BY <1>8, <3>1
  <2>2. 0 \in 0 .. N
    BY <1>1
  <2> QED
    BY <1>8, <2>1, <2>2
<1> QED
  BY <1>3, <1>9 DEF N, ts

\* What the product of outcomes is when one is 0, and when none is.
LEMMA ProductIs ==
  ASSUME NEW d, NEW evals, NEW S, IsFiniteSet(S),
         \A t \in S : OutcomeOf(d, evals, t) \in Nat
  PROVE  /\ Product(d, evals, S) \in Nat
         /\ Product(d, evals, S) = 0 <=> \E t \in S : OutcomeOf(d, evals, t) = 0
<1> DEFINE N == Cardinality(S)
           ts == SetToSeq(S)
           v == [k \in 1 .. N |-> OutcomeOf(d, evals, ts[k])]
<1>1. /\ N \in Nat /\ ts \in [1 .. N -> S]
      /\ \A t \in S : \E k \in 1 .. N : ts[k] = t
  BY SeqOfSet
<1>2. v \in [1 .. N -> Nat] /\ \A k \in 1 .. N : v[k] = OutcomeOf(d, evals, ts[k])
  BY <1>1
<1>3. PICK product :
         /\ Product(d, evals, S) = product[N]
         /\ product[0] = 1
         /\ \A n \in 1 .. N : product[n] = product[n - 1] * OutcomeOf(d, evals, ts[n])
  BY ProductRuns
<1> HIDE DEF v, N, ts
<1>9. product[0] = 1 /\ \A n \in 1 .. N : product[n] = product[n - 1] * v[n]
  BY <1>2, <1>3
<1> DEFINE T == {n \in 0 .. N : /\ product[n] \in Nat
                                /\ product[n] = 0 <=> \E k \in 1 .. n : v[k] = 0}
<1>10. 0 \in T
  BY <1>1, <1>9
<1>11. ASSUME NEW n \in 1 .. N, n - 1 \in T
       PROVE  n \in T
  <2>1. n \in 0 .. N /\ v[n] \in Nat /\ product[n] = product[n - 1] * v[n]
    BY <1>1, <1>2, <1>9
  <2>2. /\ product[n - 1] \in Nat
        /\ product[n - 1] = 0 <=> \E k \in 1 .. n - 1 : v[k] = 0
    BY <1>11
  <2>3. (\E k \in 1 .. n : v[k] = 0) <=> (v[n] = 0 \/ \E k \in 1 .. n - 1 : v[k] = 0)
    <3>1. n \in Nat /\ n \in 1 .. n /\ \A k \in 1 .. n - 1 : k \in 1 .. n
      BY <1>1
    <3>2. \A k \in 1 .. n : k = n \/ k \in 1 .. n - 1
      BY <3>1
    <3> QED
      BY <3>1, <3>2
  <2>4. product[n] \in Nat /\ (product[n] = 0 <=> (product[n - 1] = 0 \/ v[n] = 0))
    <3> DEFINE a == product[n - 1]
               b == v[n]
    <3>1. a \in Nat /\ b \in Nat /\ product[n] = a * b
      BY <2>1, <2>2
    <3> HIDE DEF a, b
    <3>2. a * b \in Nat /\ (a = 0 \/ b = 0 => a * b = 0) /\ (a > 0 /\ b > 0 => a * b > 0)
      BY <3>1, ProductStep
    <3>3. a = 0 \/ a > 0
      BY <3>1
    <3>4. b = 0 \/ b > 0
      BY <3>1
    <3>5. a * b = 0 <=> (a = 0 \/ b = 0)
      BY <3>2, <3>3, <3>4
    <3> QED
      BY <3>1, <3>2, <3>5 DEF a, b
  <2> QED
    BY <2>1, <2>2, <2>3, <2>4
<1>12. N \in T
  <2> HIDE DEF T
  <2>1. \A n \in 0 .. N : n \in T
    BY <1>1, <1>10, <1>11, UpTo
  <2> QED
    BY <1>1, <2>1
<1>13. (\E k \in 1 .. N : v[k] = 0) <=> (\E t \in S : OutcomeOf(d, evals, t) = 0)
  BY <1>1, <1>2
<1> QED
  BY <1>3, <1>12, <1>13

\* It depends on the outcomes of its testcases only.
LEMMA ProductSame ==
  ASSUME NEW d, NEW e, NEW g, NEW S, IsFiniteSet(S),
         \A t \in S : OutcomeOf(d, e, t) \in Nat /\ OutcomeOf(d, e, t) = OutcomeOf(d, g, t)
  PROVE  Product(d, e, S) = Product(d, g, S)
<1> DEFINE N == Cardinality(S)
           ts == SetToSeq(S)
<1>1. N \in Nat /\ ts \in [1 .. N -> S]
  BY SeqOfSet
<1>2. PICK x : /\ Product(d, e, S) = x[N] /\ x[0] = 1
               /\ \A n \in 1 .. N : x[n] = x[n - 1] * OutcomeOf(d, e, ts[n])
  BY ProductRuns
<1>3. PICK y : /\ Product(d, g, S) = y[N] /\ y[0] = 1
               /\ \A n \in 1 .. N : y[n] = y[n - 1] * OutcomeOf(d, g, ts[n])
  BY ProductRuns
<1> HIDE DEF N, ts
<1> DEFINE T == {n \in 0 .. N : x[n] = y[n]}
<1>4. 0 \in T
  BY <1>1, <1>2, <1>3
<1>5. ASSUME NEW n \in 1 .. N, n - 1 \in T
      PROVE  n \in T
  <2>1. n \in 0 .. N /\ OutcomeOf(d, e, ts[n]) = OutcomeOf(d, g, ts[n])
    BY <1>1
  <2>2. x[n] = x[n - 1] * OutcomeOf(d, e, ts[n]) /\ y[n] = y[n - 1] * OutcomeOf(d, g, ts[n])
    BY <1>2, <1>3
  <2> QED
    BY <1>5, <2>1, <2>2
<1>6. N \in T
  <2> HIDE DEF T
  <2>1. \A n \in 0 .. N : n \in T
    BY <1>1, <1>4, <1>5, UpTo
  <2> QED
    BY <1>1, <2>1
<1> QED
  BY <1>2, <1>3, <1>6

\* Testcases that reduce can be called on: the minimum and the product of none
\* raise.
Reducible(d, S) == S # {} \/ d.reduce = "GroupThreshold"

\* What the code makes sure of a dataset, but for the order of its subtasks.
IsDataset(d) ==
    /\ IsFiniteSet(TestcasesOf(d))
    /\ d.screening \subseteq TestcasesOf(d)
    /\ d.outcome \in [TestcasesOf(d) -> Nat]
    /\ d.target \in Seq(SUBSET TestcasesOf(d))
    /\ \A i \in Subtasks(d) : Reducible(d, d.target[i])
    /\ d.depends \in [Subtasks(d) -> SUBSET Subtasks(d)]
    /\ d.reduce \in {"GroupMin", "GroupMul", "GroupThreshold"}

EvaluationsOf(d) == [TestcasesOf(d) -> EvaluationState]

\* An evaluation that makes its subtask worth 0.
Bad(d, evals, t) ==
    IF d.reduce = "GroupThreshold" THEN OutcomeOf(d, evals, t) # 1
                                   ELSE OutcomeOf(d, evals, t) = 0

\* Outcomes are numbers.
LEMMA OutcomesAreNat ==
  ASSUME NEW d, IsDataset(d), NEW evals, NEW t \in TestcasesOf(d)
  PROVE  OutcomeOf(d, evals, t) \in Nat
  BY DEF IsDataset, OutcomeOf

\* A subtask, or a part of it, is worth 0 because of one of its evaluations.
LEMMA ReduceIs ==
  ASSUME NEW d, IsDataset(d), NEW evals, NEW S \in SUBSET TestcasesOf(d),
         Reducible(d, S)
  PROVE  /\ Reduce(d, evals, S) \in Nat
         /\ Reduce(d, evals, S) = 0 <=> \E t \in S : Bad(d, evals, t)
<1>1. IsFiniteSet(S)
  BY FS_Subset DEF IsDataset
<1>2. \A t \in S : OutcomeOf(d, evals, t) \in Nat
  BY OutcomesAreNat
<1>3. CASE d.reduce = "GroupMin"
  <2> DEFINE M == {OutcomeOf(d, evals, t) : t \in S}
  <2>1. Reduce(d, evals, S) = Min(M)
    BY <1>3 DEF Reduce
  <2>2. M \in SUBSET Nat /\ M # {}
    BY <1>2, <1>3 DEF Reducible
  <2> HIDE DEF M
  <2>3. Min(M) \in M /\ \A y \in M : Min(M) <= y
    BY <2>2, MinIs
  <2>4. Min(M) \in Nat /\ (Min(M) = 0 <=> 0 \in M)
    <3> DEFINE m == Min(M)
    <3>1. m \in M /\ m \in Nat /\ \A y \in M : m <= y
      BY <2>2, <2>3
    <3> HIDE DEF m
    <3>2. 0 \in M => m = 0
      BY <3>1
    <3> QED
      BY <3>1, <3>2 DEF m
  <2>5. 0 \in M <=> \E t \in S : OutcomeOf(d, evals, t) = 0
    BY DEF M
  <2> QED
    BY <1>3, <2>1, <2>4, <2>5 DEF Bad
<1>4. CASE d.reduce = "GroupMul"
  <2>1. Reduce(d, evals, S) = Product(d, evals, S)
    BY <1>4 DEF Reduce
  <2> QED
    BY <1>1, <1>2, <1>4, <2>1, ProductIs DEF Bad
<1>5. CASE d.reduce = "GroupThreshold"
  BY <1>5 DEF Reduce, Bad
<1> QED
  BY <1>3, <1>4, <1>5 DEF IsDataset

\* It depends on the outcomes of its testcases only.
LEMMA ReduceSame ==
  ASSUME NEW d, IsDataset(d), NEW e, NEW g, NEW S \in SUBSET TestcasesOf(d),
         \A t \in S : OutcomeOf(d, e, t) = OutcomeOf(d, g, t)
  PROVE  Reduce(d, e, S) = Reduce(d, g, S)
<1>1. IsFiniteSet(S) /\ \A t \in S : OutcomeOf(d, e, t) \in Nat
  BY FS_Subset, OutcomesAreNat DEF IsDataset
<1>2. CASE d.reduce = "GroupMin"
  <2>1. {OutcomeOf(d, e, t) : t \in S} = {OutcomeOf(d, g, t) : t \in S}
    OBVIOUS
  <2> QED
    BY <1>2, <2>1 DEF Reduce
<1>3. CASE d.reduce = "GroupMul"
  BY <1>1, <1>3, ProductSame DEF Reduce
<1>4. CASE d.reduce = "GroupThreshold"
  BY <1>4 DEF Reduce
<1> QED
  BY <1>2, <1>3, <1>4 DEF IsDataset

\* What one evaluation tells of full grading, in which every testcase is run.
AllRun(d) == [t \in TestcasesOf(d) |-> "graded"]

LEMMA BadOnes ==
  ASSUME NEW d, IsDataset(d), NEW evals, NEW t \in TestcasesOf(d)
  PROVE  /\ ~Bad(d, evals, t) => /\ evals[t] = "graded"
                                 /\ OutcomeOf(d, evals, t) = OutcomeOf(d, AllRun(d), t)
         /\ Bad(d, evals, t) /\ evals[t] = "graded" => Bad(d, AllRun(d), t)
         /\ Bad(d, AllRun(d), t) => Bad(d, evals, t)
         /\ d.outcome[t] = 0 => Bad(d, AllRun(d), t)
<1>1. AllRun(d)[t] = "graded" /\ OutcomeOf(d, AllRun(d), t) = d.outcome[t]
  BY DEF AllRun, OutcomeOf
<1>2. evals[t] = "graded" => OutcomeOf(d, evals, t) = d.outcome[t]
  BY DEF OutcomeOf
<1>3. evals[t] # "graded" => OutcomeOf(d, evals, t) = 0
  BY DEF OutcomeOf
<1> QED
  BY <1>1, <1>2, <1>3 DEF Bad

\* What a subtask is worth when everything is run.
LEMMA OwnScoreIs ==
  ASSUME NEW d, IsDataset(d), NEW i \in Subtasks(d)
  PROVE  /\ d.target[i] \in SUBSET TestcasesOf(d) /\ Reducible(d, d.target[i])
         /\ OwnScore(d, i) \in Nat
         /\ OwnScore(d, i) = 0 <=> \E t \in d.target[i] : Bad(d, AllRun(d), t)
<1>1. d.target[i] \in SUBSET TestcasesOf(d) /\ Reducible(d, d.target[i])
  BY DEF IsDataset, Subtasks
<1>2. OwnScore(d, i) = Reduce(d, AllRun(d), d.target[i])
  BY DEF OwnScore, AllRun
<1> QED
  BY <1>1, <1>2, ReduceIs

-----------------------------------------------------------------------------
(* Subtasks that are worth nothing *)

\* A subtask is worthless because of itself, or of one it depends on.
Closed(d, W) ==
    \A j \in Subtasks(d) : OwnScore(d, j) = 0 \/ d.depends[j] \cap W # {} => j \in W

\* Worthless is within every closed set ...
LEMMA WorthlessIsLeast ==
  ASSUME NEW d, NEW W \in SUBSET Subtasks(d), Closed(d, W)
  PROVE  Worthless(d) \subseteq W
  BY DEF Worthless, Closed

\* ... and is one.
LEMMA WorthlessIs ==
  ASSUME NEW d, NEW i \in Subtasks(d)
  PROVE  i \in Worthless(d) <=>
            OwnScore(d, i) = 0 \/ \E x \in d.depends[i] : x \in Worthless(d)
<1> DEFINE W == Worthless(d)
<1>1. Closed(d, W)
  <2>1. SUFFICES ASSUME NEW j \in Subtasks(d), OwnScore(d, j) = 0 \/ d.depends[j] \cap W # {}
                 PROVE  j \in W
    BY DEF Closed
  <2>2. SUFFICES ASSUME NEW V \in SUBSET Subtasks(d), Closed(d, V)
                 PROVE  j \in V
    BY DEF Worthless, Closed
  <2>3. W \subseteq V
    BY <2>2, WorthlessIsLeast
  <2> QED
    BY <2>1, <2>2, <2>3 DEF Closed
<1>2. ASSUME i \in W, OwnScore(d, i) # 0, d.depends[i] \cap W = {}
      PROVE  FALSE
  <2>1. W \ {i} \in SUBSET Subtasks(d)
    BY DEF Worthless
  <2>2. Closed(d, W \ {i})
    <3>1. SUFFICES ASSUME NEW j \in Subtasks(d),
                          OwnScore(d, j) = 0 \/ d.depends[j] \cap (W \ {i}) # {}
                   PROVE  j \in W \ {i}
      BY DEF Closed
    <3>2. j \in W
      BY <1>1, <3>1 DEF Closed
    <3>3. j # i
      BY <1>2, <3>1
    <3> QED
      BY <3>2, <3>3
  <2>3. W \subseteq W \ {i}
    BY <2>1, <2>2, WorthlessIsLeast
  <2> QED
    BY <1>2, <2>3
<1> HIDE DEF W
<1>3. (OwnScore(d, i) = 0 \/ \E x \in d.depends[i] : x \in W) => i \in W
  BY <1>1 DEF Closed
<1>4. i \in W => (OwnScore(d, i) = 0 \/ \E x \in d.depends[i] : x \in W)
  BY <1>2
<1> QED
  BY <1>3, <1>4 DEF W

-----------------------------------------------------------------------------
(* Subtask by subtask *)

\* The order has every subtask once, behind those it depends on.
OrderOK(d) ==
    /\ d.order \in Seq(Subtasks(d))
    /\ \A k, l \in 1 .. Len(d.order) : d.order[k] = d.order[l] => k = l
    /\ \A i \in Subtasks(d) : \E k \in 1 .. Len(d.order) : d.order[k] = i
    /\ \A k \in 1 .. Len(d.order) : \A x \in d.depends[d.order[k]] :
          \E l \in 1 .. k - 1 : d.order[l] = x

\* What passes from the subtasks a subtask depends on to that subtask, all have.
LEMMA DependencyInduction ==
  ASSUME NEW d, OrderOK(d), NEW V,
         \A i \in Subtasks(d) : (\A x \in d.depends[i] : x \in V) => i \in V
  PROVE  \A i \in Subtasks(d) : i \in V
<1> DEFINE N == Len(d.order)
           M == {k \in 1 .. N : d.order[k] \notin V}
<1>1. N \in Nat /\ \A k \in 1 .. N : d.order[k] \in Subtasks(d)
  BY DEF OrderOK
<1>2. ASSUME M # {}
      PROVE  FALSE
  <2>1. PICK k \in M : \A l \in M : k <= l
    <3>1. M \in SUBSET Nat
      OBVIOUS
    <3> HIDE DEF M
    <3> QED
      BY <1>2, <3>1, LeastNumber
  <2>2. ASSUME NEW x \in d.depends[d.order[k]]
        PROVE  x \in V
    <3>1. PICK l \in 1 .. k - 1 : d.order[l] = x
      BY DEF OrderOK
    <3>2. l \in 1 .. N /\ ~(k <= l)
      BY <1>1
    <3> QED
      BY <2>1, <3>1, <3>2
  <2> QED
    BY <1>1, <2>2
<1>3. \A k \in 1 .. N : d.order[k] \in V
  BY <1>2
<1> QED
  BY <1>3 DEF OrderOK

StatusTypes(d) ==
    [status : [Subtasks(d) -> {"pending", "passed", "failed"}],
     blocked : [Subtasks(d) -> Nat]]

\* The status of a subtask, given those it depends on.
FailedOf(d, status, i) == {x \in d.depends[i] : status[x] = "failed"}

DoneOf(d, evals, i) == {t \in d.target[i] : evals[t] # "none"}

StatusOf(d, evals, status, i) ==
    IF \/ FailedOf(d, status, i) # {}
       \/ /\ DoneOf(d, evals, i) # {}
          /\ Reduce(d, evals, DoneOf(d, evals, i)) <= 0
    THEN "failed"
    ELSE IF /\ DoneOf(d, evals, i) = d.target[i]
            /\ \A x \in d.depends[i] : status[x] = "passed"
         THEN "passed" ELSE "pending"

BlockOf(d, status, i) ==
    IF FailedOf(d, status, i) = {} THEN 0 ELSE Min(FailedOf(d, status, i))

\* It depends on their status only.
LEMMA SameStatus ==
  ASSUME NEW d, NEW evals, NEW r, NEW s, NEW i, \A x \in d.depends[i] : r[x] = s[x]
  PROVE  /\ StatusOf(d, evals, r, i) = StatusOf(d, evals, s, i)
         /\ BlockOf(d, r, i) = BlockOf(d, s, i)
<1>1. FailedOf(d, r, i) = FailedOf(d, s, i)
  BY DEF FailedOf
<1>2. (\A x \in d.depends[i] : r[x] = "passed") <=> (\A x \in d.depends[i] : s[x] = "passed")
  OBVIOUS
<1> QED
  BY <1>1, <1>2 DEF StatusOf, BlockOf

\* A round of the loop of statuses gives one subtask its status.
LEMMA StatusStepIs ==
  ASSUME NEW d, IsDataset(d), NEW evals, NEW acc \in StatusTypes(d), NEW i \in Subtasks(d)
  PROVE  LET r == StatusStep(d, evals, acc, i)
         IN  /\ r \in StatusTypes(d)
             /\ \A j \in Subtasks(d) : j # i =>
                   r.status[j] = acc.status[j] /\ r.blocked[j] = acc.blocked[j]
             /\ acc.status[i] = "pending" /\ acc.blocked[i] = 0 =>
                   /\ r.status[i] = StatusOf(d, evals, acc.status, i)
                   /\ r.blocked[i] = BlockOf(d, acc.status, i)
<1> DEFINE failed == FailedOf(d, acc.status, i)
           done == DoneOf(d, evals, i)
           r == StatusStep(d, evals, acc, i)
           all == done = d.target[i] /\ \A x \in d.depends[i] : acc.status[x] = "passed"
           worth == Reduce(d, evals, done)
           Goal == /\ r \in StatusTypes(d)
                   /\ \A j \in Subtasks(d) : j # i =>
                         r.status[j] = acc.status[j] /\ r.blocked[j] = acc.blocked[j]
                   /\ acc.status[i] = "pending" /\ acc.blocked[i] = 0 =>
                         /\ r.status[i] = StatusOf(d, evals, acc.status, i)
                         /\ r.blocked[i] = BlockOf(d, acc.status, i)
<1> SUFFICES Goal
  OBVIOUS
<1>0. failed \in SUBSET Nat /\ (failed # {} => Min(failed) \in Nat)
  <2>1. failed \in SUBSET Nat
    BY DEF FailedOf, IsDataset, Subtasks
  <2> HIDE DEF failed
  <2> QED
    BY <2>1, MinIs
<1>1. r = CASE failed # {} ->
                 [acc EXCEPT !.status[i] = "failed", !.blocked[i] = Min(failed)]
            [] failed = {} /\ done # {} /\ worth <= 0 -> [acc EXCEPT !.status[i] = "failed"]
            [] OTHER -> IF all THEN [acc EXCEPT !.status[i] = "passed"] ELSE acc
  BY DEF StatusStep, FailedOf, DoneOf
<1>2. /\ StatusOf(d, evals, acc.status, i) =
            IF failed # {} \/ (done # {} /\ worth <= 0) THEN "failed"
            ELSE IF all THEN "passed" ELSE "pending"
      /\ BlockOf(d, acc.status, i) = IF failed = {} THEN 0 ELSE Min(failed)
  BY DEF StatusOf, BlockOf
<1> HIDE DEF failed, done, r, all, worth
<1>3. CASE failed # {}
  <2>1. r = [acc EXCEPT !.status[i] = "failed", !.blocked[i] = Min(failed)]
    BY <1>1, <1>3
  <2>2. r.status[i] = "failed" /\ r.blocked[i] = Min(failed)
    BY <2>1 DEF StatusTypes
  <2>3. \A j \in Subtasks(d) : j # i =>
           r.status[j] = acc.status[j] /\ r.blocked[j] = acc.blocked[j]
    BY <2>1 DEF StatusTypes
  <2>4. r \in StatusTypes(d)
    BY <1>0, <1>3, <2>1 DEF StatusTypes
  <2> QED
    BY <1>2, <1>3, <2>2, <2>3, <2>4
<1>4. ASSUME NEW x \in {"failed", "passed"}, failed = {},
             r = [acc EXCEPT !.status[i] = x],
             x = IF failed # {} \/ (done # {} /\ worth <= 0) THEN "failed"
                 ELSE IF all THEN "passed" ELSE "pending"
      PROVE  Goal
  <2>2. r.status[i] = x /\ r.blocked[i] = acc.blocked[i]
    BY <1>4 DEF StatusTypes
  <2>3. \A j \in Subtasks(d) : j # i =>
           r.status[j] = acc.status[j] /\ r.blocked[j] = acc.blocked[j]
    BY <1>4 DEF StatusTypes
  <2>4. r \in StatusTypes(d)
    BY <1>4 DEF StatusTypes
  <2> QED
    BY <1>2, <1>4, <2>2, <2>3, <2>4
<1>5. CASE failed = {} /\ done # {} /\ worth <= 0
  <2>1. r = [acc EXCEPT !.status[i] = "failed"]
    BY <1>1, <1>5
  <2> QED
    BY <1>4, <1>5, <2>1
<1>6. CASE failed = {} /\ ~(done # {} /\ worth <= 0)
  <2>1. r = IF all THEN [acc EXCEPT !.status[i] = "passed"] ELSE acc
    BY <1>1, <1>6
  <2>2. CASE all
    BY <1>4, <1>6, <2>1, <2>2
  <2>3. CASE ~all
    BY <1>2, <1>6, <2>1, <2>3
  <2> QED
    BY <2>2, <2>3
<1> HIDE DEF Goal
<1> QED
  BY <1>3, <1>5, <1>6

\* SubtaskGate.statuses: each subtask has the status that follows from those it
\* depends on.
LEMMA StatusesAre ==
  ASSUME NEW d, IsDataset(d), OrderOK(d), NEW evals
  PROVE  LET s == Statuses(d, evals)
         IN  /\ s \in StatusTypes(d)
             /\ \A i \in Subtasks(d) : /\ s.status[i] = StatusOf(d, evals, s.status, i)
                                        /\ s.blocked[i] = BlockOf(d, s.status, i)
<1> DEFINE N == Len(d.order)
           S == StatusTypes(d)
           x == [status |-> [i \in Subtasks(d) |-> "pending"],
                 blocked |-> [i \in Subtasks(d) |-> 0]]
           after[n \in 0 .. N] ==
               IF n = 0 THEN x ELSE StatusStep(d, evals, after[n - 1], d.order[n])
           step == [p \in (1 .. N) \X S |-> StatusStep(d, evals, p[2], d.order[p[1]])]
<1>1. N \in Nat /\ (\A k \in 1 .. N : d.order[k] \in Subtasks(d)) /\ x \in S
  BY DEF OrderOK, StatusTypes
<1>2. Statuses(d, evals) = after[N]
  BY DEF Statuses
<1>3. \A acc \in S, i \in Subtasks(d) : StatusStep(d, evals, acc, i) \in S
  BY StatusStepIs
<1>4. \A i \in Subtasks(d) : x.status[i] = "pending" /\ x.blocked[i] = 0
  OBVIOUS
<1> HIDE DEF S, x
<1>5. step \in [(1 .. N) \X S -> S]
  BY <1>1, <1>3
<1>6. \A n \in 1 .. N, a \in S : step[<<n, a>>] = StatusStep(d, evals, a, d.order[n])
  OBVIOUS
<1> HIDE DEF step, after, N
<1>7. PICK f \in [0 .. N -> S] : f[0] = x /\ \A k \in 1 .. N : f[k] = step[<<k, f[k - 1]>>]
  <2>1. Runs(S, step, x, N) # {}
    BY <1>1, <1>5, RunExists
  <2> QED
    BY <2>1 DEF Runs
<1>8. f = [n \in 0 .. N |-> IF n = 0 THEN x ELSE StatusStep(d, evals, f[n - 1], d.order[n])]
  <2>1. ASSUME NEW n \in 0 .. N, n # 0
        PROVE  f[n] = StatusStep(d, evals, f[n - 1], d.order[n])
    <3>1. n \in 1 .. N /\ n - 1 \in 0 .. N
      BY <1>1, <2>1
    <3> QED
      BY <1>6, <1>7, <3>1
  <2> QED
    BY <1>7, <2>1
<1>9. after = [n \in 0 .. N |->
                  IF n = 0 THEN x ELSE StatusStep(d, evals, after[n - 1], d.order[n])]
  BY <1>8 DEF after
<1>10. /\ after[0] = x
       /\ \A n \in 1 .. N : after[n] = StatusStep(d, evals, after[n - 1], d.order[n])
  <2>1. ASSUME NEW n \in 1 .. N
        PROVE  after[n] = StatusStep(d, evals, after[n - 1], d.order[n])
    <3>1. n \in 0 .. N /\ n # 0
      BY <1>1
    <3> QED
      BY <1>9, <3>1
  <2>2. 0 \in 0 .. N
    BY <1>1
  <2> QED
    BY <1>9, <2>1, <2>2
<1> DEFINE Is(acc, i) == /\ acc.status[i] = StatusOf(d, evals, acc.status, i)
                         /\ acc.blocked[i] = BlockOf(d, acc.status, i)
           Good(n) == /\ after[n] \in S
                      /\ \A k \in 1 .. n : Is(after[n], d.order[k])
                      /\ \A k \in n + 1 .. N : /\ after[n].status[d.order[k]] = "pending"
                                                /\ after[n].blocked[d.order[k]] = 0
           T == {n \in 0 .. N : Good(n)}
<1>11. 0 \in T
  BY <1>1, <1>4, <1>10
<1>12. ASSUME NEW n \in 1 .. N, n - 1 \in T
       PROVE  n \in T
  <2> DEFINE a == after[n - 1]
             b == after[n]
             i == d.order[n]
  <2>1. n \in 0 .. N /\ n \in n - 1 + 1 .. N /\ i \in Subtasks(d)
    BY <1>1
  <2>2. /\ a \in S
        /\ \A k \in 1 .. n - 1 : Is(a, d.order[k])
        /\ \A k \in n .. N : a.status[d.order[k]] = "pending" /\ a.blocked[d.order[k]] = 0
    BY <1>1, <1>12
  <2>3. b = StatusStep(d, evals, a, i)
    BY <1>10
  <2>4. a.status[i] = "pending" /\ a.blocked[i] = 0
    BY <1>1, <2>2
  <2> HIDE DEF a, b
  <2>5. /\ b \in S
        /\ \A j \in Subtasks(d) : j # i =>
              b.status[j] = a.status[j] /\ b.blocked[j] = a.blocked[j]
        /\ b.status[i] = StatusOf(d, evals, a.status, i)
        /\ b.blocked[i] = BlockOf(d, a.status, i)
    BY <2>1, <2>2, <2>3, <2>4, StatusStepIs DEF S
  <2>6. ASSUME NEW k \in 1 .. N, k # n
        PROVE  d.order[k] # i /\ d.order[k] \in Subtasks(d)
    BY <1>1, <2>6 DEF OrderOK, N
  <2>7. ASSUME NEW k \in 1 .. n, NEW y \in d.depends[d.order[k]]
        PROVE  b.status[y] = a.status[y]
    <3>0. k \in 1 .. N
      BY <1>1
    <3>1. PICK l \in 1 .. k - 1 : d.order[l] = y
      BY <3>0, <2>7 DEF OrderOK, N
    <3>2. l \in 1 .. N /\ l # n
      BY <1>1
    <3> QED
      BY <2>5, <2>6, <3>1, <3>2
  <2>8. ASSUME NEW k \in 1 .. n
        PROVE  Is(b, d.order[k])
    <3>1. /\ StatusOf(d, evals, b.status, d.order[k]) = StatusOf(d, evals, a.status, d.order[k])
          /\ BlockOf(d, b.status, d.order[k]) = BlockOf(d, a.status, d.order[k])
      BY <2>7, SameStatus
    <3>2. CASE k = n
      BY <2>5, <3>1, <3>2
    <3>3. CASE k # n
      <4>1. k \in 1 .. n - 1 /\ k \in 1 .. N
        BY <1>1, <3>3
      <4>2. Is(a, d.order[k])
        BY <2>2, <4>1
      <4>3. /\ b.status[d.order[k]] = a.status[d.order[k]]
            /\ b.blocked[d.order[k]] = a.blocked[d.order[k]]
        BY <2>5, <2>6, <3>3, <4>1
      <4> QED
        BY <3>1, <4>2, <4>3
    <3> QED
      BY <3>2, <3>3
  <2>9. ASSUME NEW k \in n + 1 .. N
        PROVE  b.status[d.order[k]] = "pending" /\ b.blocked[d.order[k]] = 0
    <3>1. k \in 1 .. N /\ k # n /\ k \in n .. N
      BY <1>1
    <3> QED
      BY <2>2, <2>5, <2>6, <3>1
  <2> HIDE DEF Is
  <2> QED
    BY <2>1, <2>5, <2>8, <2>9 DEF b
<1>13. N \in T
  <2> HIDE DEF T
  <2>1. \A n \in 0 .. N : n \in T
    BY <1>1, <1>11, <1>12, UpTo
  <2> QED
    BY <1>1, <2>1
<1>14. \A i \in Subtasks(d) : Is(after[N], i)
  <2>1. \A k \in 1 .. N : Is(after[N], d.order[k])
    BY <1>13
  <2>2. \A i \in Subtasks(d) : \E k \in 1 .. N : d.order[k] = i
    BY DEF OrderOK, N
  <2> HIDE DEF Is, T
  <2> QED
    BY <2>1, <2>2
<1> QED
  BY <1>2, <1>13, <1>14 DEF S

ZeroTypes(d) ==
    [zeroed : [Subtasks(d) -> Nat], effective : [Subtasks(d) -> Nat]]

\* What a subtask is worth, given those it depends on.
WorthlessOf(d, worth, i) == {x \in d.depends[i] : worth[x] <= 0}

WorthOf(d, fr, worth, i) == IF WorthlessOf(d, worth, i) = {} THEN fr[i] ELSE 0

ZeroOf(d, worth, i) ==
    IF WorthlessOf(d, worth, i) = {} THEN 0 ELSE Min(WorthlessOf(d, worth, i))

\* What a subtask is worth depends on what those are worth.
LEMMA SameZero ==
  ASSUME NEW d, NEW fr, NEW r, NEW s, NEW i, \A x \in d.depends[i] : r[x] = s[x]
  PROVE  /\ WorthOf(d, fr, r, i) = WorthOf(d, fr, s, i)
         /\ ZeroOf(d, r, i) = ZeroOf(d, s, i)
<1>1. WorthlessOf(d, r, i) = WorthlessOf(d, s, i)
  BY DEF WorthlessOf
<1> QED
  BY <1>1 DEF WorthOf, ZeroOf

\* A round of the loop of zeroed_by settles one subtask.
LEMMA ZeroStepIs ==
  ASSUME NEW d, IsDataset(d), NEW acc \in ZeroTypes(d), NEW i \in Subtasks(d)
  PROVE  LET r == ZeroStep(d.depends, acc, i)
         IN  /\ r \in ZeroTypes(d)
             /\ \A j \in Subtasks(d) : j # i =>
                   r.effective[j] = acc.effective[j] /\ r.zeroed[j] = acc.zeroed[j]
             /\ \A fr : acc.effective[i] = fr[i] /\ acc.zeroed[i] = 0 =>
                   /\ r.effective[i] = WorthOf(d, fr, acc.effective, i)
                   /\ r.zeroed[i] = ZeroOf(d, acc.effective, i)
<1> DEFINE failed == WorthlessOf(d, acc.effective, i)
           r == ZeroStep(d.depends, acc, i)
<1>0. failed # {} => Min(failed) \in Nat
  <2>1. failed \in SUBSET Nat
    BY DEF WorthlessOf, IsDataset, Subtasks
  <2> HIDE DEF failed
  <2> QED
    BY <2>1, MinIs
<1>1. r = IF failed = {} THEN acc
          ELSE [acc EXCEPT !.zeroed[i] = Min(failed), !.effective[i] = 0]
  BY DEF ZeroStep, WorthlessOf
<1>2. /\ \A fr : WorthOf(d, fr, acc.effective, i) = IF failed = {} THEN fr[i] ELSE 0
      /\ ZeroOf(d, acc.effective, i) = IF failed = {} THEN 0 ELSE Min(failed)
  BY DEF WorthOf, ZeroOf
<1> HIDE DEF failed, r
<1>3. CASE failed = {}
  <2>1. r = acc
    BY <1>1, <1>3
  <2> QED
    BY <1>2, <1>3, <2>1 DEF r
<1>4. CASE failed # {}
  <2>1. r = [acc EXCEPT !.zeroed[i] = Min(failed), !.effective[i] = 0]
    BY <1>1, <1>4
  <2>2. r.effective[i] = 0 /\ r.zeroed[i] = Min(failed)
    BY <2>1 DEF ZeroTypes
  <2>3. \A j \in Subtasks(d) : j # i =>
           r.effective[j] = acc.effective[j] /\ r.zeroed[j] = acc.zeroed[j]
    BY <2>1 DEF ZeroTypes
  <2>4. r \in ZeroTypes(d)
    BY <1>0, <1>4, <2>1 DEF ZeroTypes
  <2> QED
    BY <1>2, <1>4, <2>2, <2>3, <2>4 DEF r
<1> QED
  BY <1>3, <1>4

\* zeroed_by: each subtask is worth what follows from those it depends on.
LEMMA ZeroedAre ==
  ASSUME NEW d, IsDataset(d), OrderOK(d), NEW fr \in [Subtasks(d) -> Nat]
  PROVE  \E worth \in [Subtasks(d) -> Nat] : \A i \in Subtasks(d) :
            /\ worth[i] = WorthOf(d, fr, worth, i)
            /\ ZeroedBy(fr, d.depends, d.order)[i] = ZeroOf(d, worth, i)
<1> DEFINE N == Len(d.order)
           S == ZeroTypes(d)
           x == [zeroed |-> [i \in DOMAIN d.depends |-> 0], effective |-> fr]
           after[n \in 0 .. N] ==
               IF n = 0 THEN x ELSE ZeroStep(d.depends, after[n - 1], d.order[n])
           step == [p \in (1 .. N) \X S |-> ZeroStep(d.depends, p[2], d.order[p[1]])]
<1>1. N \in Nat /\ (\A k \in 1 .. N : d.order[k] \in Subtasks(d)) /\ x \in S
  BY DEF OrderOK, ZeroTypes, IsDataset
<1>2. ZeroedBy(fr, d.depends, d.order) = after[N].zeroed
  BY DEF ZeroedBy
<1>3. \A acc \in S, i \in Subtasks(d) : ZeroStep(d.depends, acc, i) \in S
  BY ZeroStepIs
<1>4. \A i \in Subtasks(d) : x.effective[i] = fr[i] /\ x.zeroed[i] = 0
  BY DEF IsDataset
<1> HIDE DEF S, x
<1>5. step \in [(1 .. N) \X S -> S]
  BY <1>1, <1>3
<1>6. \A n \in 1 .. N, a \in S : step[<<n, a>>] = ZeroStep(d.depends, a, d.order[n])
  OBVIOUS
<1> HIDE DEF step, after, N
<1>7. PICK f \in [0 .. N -> S] : f[0] = x /\ \A k \in 1 .. N : f[k] = step[<<k, f[k - 1]>>]
  <2>1. Runs(S, step, x, N) # {}
    BY <1>1, <1>5, RunExists
  <2> QED
    BY <2>1 DEF Runs
<1>8. f = [n \in 0 .. N |-> IF n = 0 THEN x ELSE ZeroStep(d.depends, f[n - 1], d.order[n])]
  <2>1. ASSUME NEW n \in 0 .. N, n # 0
        PROVE  f[n] = ZeroStep(d.depends, f[n - 1], d.order[n])
    <3>1. n \in 1 .. N /\ n - 1 \in 0 .. N
      BY <1>1, <2>1
    <3> QED
      BY <1>6, <1>7, <3>1
  <2> QED
    BY <1>7, <2>1
<1>9. after = [n \in 0 .. N |->
                  IF n = 0 THEN x ELSE ZeroStep(d.depends, after[n - 1], d.order[n])]
  BY <1>8 DEF after
<1>10. /\ after[0] = x
       /\ \A n \in 1 .. N : after[n] = ZeroStep(d.depends, after[n - 1], d.order[n])
  <2>1. ASSUME NEW n \in 1 .. N
        PROVE  after[n] = ZeroStep(d.depends, after[n - 1], d.order[n])
    <3>1. n \in 0 .. N /\ n # 0
      BY <1>1
    <3> QED
      BY <1>9, <3>1
  <2>2. 0 \in 0 .. N
    BY <1>1
  <2> QED
    BY <1>9, <2>1, <2>2
<1> DEFINE Is(acc, i) == /\ acc.effective[i] = WorthOf(d, fr, acc.effective, i)
                         /\ acc.zeroed[i] = ZeroOf(d, acc.effective, i)
           Good(n) == /\ after[n] \in S
                      /\ \A k \in 1 .. n : Is(after[n], d.order[k])
                      /\ \A k \in n + 1 .. N : /\ after[n].effective[d.order[k]] = fr[d.order[k]]
                                                /\ after[n].zeroed[d.order[k]] = 0
           T == {n \in 0 .. N : Good(n)}
<1>11. 0 \in T
  BY <1>1, <1>4, <1>10
<1>12. ASSUME NEW n \in 1 .. N, n - 1 \in T
       PROVE  n \in T
  <2> DEFINE a == after[n - 1]
             b == after[n]
             i == d.order[n]
  <2>1. n \in 0 .. N /\ n \in n - 1 + 1 .. N /\ i \in Subtasks(d)
    BY <1>1
  <2>2. /\ a \in S
        /\ \A k \in 1 .. n - 1 : Is(a, d.order[k])
        /\ \A k \in n .. N : a.effective[d.order[k]] = fr[d.order[k]] /\ a.zeroed[d.order[k]] = 0
    BY <1>1, <1>12
  <2>3. b = ZeroStep(d.depends, a, i)
    BY <1>10
  <2>4. a.effective[i] = fr[i] /\ a.zeroed[i] = 0
    BY <1>1, <2>2
  <2> HIDE DEF a, b
  <2>5. /\ b \in S
        /\ \A j \in Subtasks(d) : j # i =>
              b.effective[j] = a.effective[j] /\ b.zeroed[j] = a.zeroed[j]
        /\ b.effective[i] = WorthOf(d, fr, a.effective, i)
        /\ b.zeroed[i] = ZeroOf(d, a.effective, i)
    BY <2>1, <2>2, <2>3, <2>4, ZeroStepIs DEF S
  <2>6. ASSUME NEW k \in 1 .. N, k # n
        PROVE  d.order[k] # i /\ d.order[k] \in Subtasks(d)
    BY <1>1, <2>6 DEF OrderOK, N
  <2>7. ASSUME NEW k \in 1 .. n, NEW y \in d.depends[d.order[k]]
        PROVE  b.effective[y] = a.effective[y]
    <3>0. k \in 1 .. N
      BY <1>1
    <3>1. PICK l \in 1 .. k - 1 : d.order[l] = y
      BY <3>0, <2>7 DEF OrderOK, N
    <3>2. l \in 1 .. N /\ l # n
      BY <1>1
    <3> QED
      BY <2>5, <2>6, <3>1, <3>2
  <2>8. ASSUME NEW k \in 1 .. n
        PROVE  Is(b, d.order[k])
    <3>1. /\ WorthOf(d, fr, b.effective, d.order[k]) = WorthOf(d, fr, a.effective, d.order[k])
          /\ ZeroOf(d, b.effective, d.order[k]) = ZeroOf(d, a.effective, d.order[k])
      BY <2>7, SameZero
    <3>2. CASE k = n
      BY <2>5, <3>1, <3>2
    <3>3. CASE k # n
      <4>1. k \in 1 .. n - 1 /\ k \in 1 .. N
        BY <1>1, <3>3
      <4>2. Is(a, d.order[k])
        BY <2>2, <4>1
      <4>3. /\ b.effective[d.order[k]] = a.effective[d.order[k]]
            /\ b.zeroed[d.order[k]] = a.zeroed[d.order[k]]
        BY <2>5, <2>6, <3>3, <4>1
      <4> QED
        BY <3>1, <4>2, <4>3
    <3> QED
      BY <3>2, <3>3
  <2>9. ASSUME NEW k \in n + 1 .. N
        PROVE  b.effective[d.order[k]] = fr[d.order[k]] /\ b.zeroed[d.order[k]] = 0
    <3>1. k \in 1 .. N /\ k # n /\ k \in n .. N
      BY <1>1
    <3> QED
      BY <2>2, <2>5, <2>6, <3>1
  <2> HIDE DEF Is
  <2> QED
    BY <2>1, <2>5, <2>8, <2>9 DEF b
<1>13. N \in T
  <2> HIDE DEF T
  <2>1. \A n \in 0 .. N : n \in T
    BY <1>1, <1>11, <1>12, UpTo
  <2> QED
    BY <1>1, <2>1
<1>14. \A i \in Subtasks(d) : Is(after[N], i)
  <2>1. \A k \in 1 .. N : Is(after[N], d.order[k])
    BY <1>13
  <2>2. \A i \in Subtasks(d) : \E k \in 1 .. N : d.order[k] = i
    BY DEF OrderOK, N
  <2> HIDE DEF Is, T
  <2> QED
    BY <2>1, <2>2
<1>15. after[N].effective \in [Subtasks(d) -> Nat]
  BY <1>13 DEF S, ZeroTypes
<1> HIDE DEF T
<1> QED
  BY <1>2, <1>14, <1>15

-----------------------------------------------------------------------------
(* What the gates let go, skip and score *)

\* A subtask that has passed was run, and is worth something in full grading.
LEMMA PassedIsWorth ==
  ASSUME NEW d, IsDataset(d), OrderOK(d), NEW evals, NEW i \in Subtasks(d),
         Statuses(d, evals).status[i] = "passed"
  PROVE  /\ i \notin Worthless(d)
         /\ \A t \in d.target[i] : evals[t] = "graded"
         /\ \A x \in d.depends[i] : Statuses(d, evals).status[x] = "passed"
<1> DEFINE s == Statuses(d, evals).status
           Run(j) == \A t \in d.target[j] : evals[t] = "graded"
<1>1. \A j \in Subtasks(d) : s[j] = StatusOf(d, evals, s, j)
  BY StatusesAre
<1> HIDE DEF s
<1>2. ASSUME NEW j \in Subtasks(d), s[j] = "passed"
      PROVE  /\ OwnScore(d, j) # 0 /\ Run(j)
             /\ \A x \in d.depends[j] : s[x] = "passed"
  <2> DEFINE S == d.target[j]
  <2>1. /\ DoneOf(d, evals, j) = S /\ \A x \in d.depends[j] : s[x] = "passed"
        /\ ~(S # {} /\ Reduce(d, evals, S) <= 0)
    BY <1>1, <1>2 DEF StatusOf
  <2>2. S \in SUBSET TestcasesOf(d) /\ Reducible(d, S)
    BY OwnScoreIs
  <2> HIDE DEF S
  <2>3. S # {} => Reduce(d, evals, S) # 0
    BY <2>1
  <2>4. \A t \in S : ~Bad(d, evals, t)
    BY <2>2, <2>3, ReduceIs
  <2>5. \A t \in S : evals[t] = "graded" /\ ~Bad(d, AllRun(d), t)
    BY <2>2, <2>4, BadOnes
  <2> QED
    BY <2>1, <2>5, OwnScoreIs DEF S
<1> DEFINE W == {j \in Subtasks(d) : s[j] # "passed"}
<1>3. Closed(d, W)
  BY <1>2 DEF Closed
<1>4. Worthless(d) \subseteq W
  BY <1>3, WorthlessIsLeast
<1>5. s[i] = "passed"
  BY DEF s
<1> QED
  BY <1>2, <1>4, <1>5 DEF s

\* A subtask that has passed scores in full grading.
LEMMA PassedScores ==
  ASSUME NEW d, IsDataset(d), OrderOK(d), NEW evals, NEW i \in Subtasks(d),
         Statuses(d, evals).status[i] = "passed"
  PROVE  ScoresOfFullGrading(d)[i] > 0
<1>1. i \notin Worthless(d)
  BY PassedIsWorth
<1>2. OwnScore(d, i) \in Nat /\ OwnScore(d, i) # 0
  BY <1>1, OwnScoreIs, WorthlessIs
<1>3. ScoresOfFullGrading(d)[i] = OwnScore(d, i)
  BY <1>1 DEF ScoresOfFullGrading
<1> QED
  BY <1>2, <1>3

\* Screening skips, and dependency skips of an aligned dataset, have a cause.
ScreeningSkipsOK(d, evals) ==
    \A t \in TestcasesOf(d) :
        evals[t] = "skipped" =>
            /\ t \notin d.screening
            /\ \E s \in ScreeningOf(d, d.group[t]) : d.outcome[s] = 0

DependencySkipsOK(d, evals) ==
    \A t \in TestcasesOf(d) :
        evals[t] = "dependency" =>
            \A i \in SubtasksOf(d, t) : \E x \in d.depends[i] : x \in Worthless(d)

\* A screening testcase of an aligned dataset is in the subtasks it screens for.
LEMMA AlignedScreening ==
  ASSUME NEW d, IsDataset(d), Aligned(d), NEW i \in Subtasks(d), NEW t \in d.target[i],
         t \notin d.screening, NEW s \in ScreeningOf(d, d.group[t])
  PROVE  s \in d.target[i]
<1>1. t \in TestcasesOf(d)
  BY OwnScoreIs
<1> QED
  BY <1>1 DEF Aligned

\* What makes a subtask worth 0, though it may not have been run, also does in
\* full grading, for this subtask or for one it depends on.
LEMMA BadIsWorthless ==
  ASSUME NEW d, IsDataset(d), Aligned(d), NEW evals \in EvaluationsOf(d),
         ScreeningSkipsOK(d, evals), DependencySkipsOK(d, evals),
         NEW i \in Subtasks(d), NEW t \in d.target[i], evals[t] # "none", Bad(d, evals, t)
  PROVE  i \in Worthless(d)
<1>1. t \in TestcasesOf(d) /\ i \in SubtasksOf(d, t)
  BY OwnScoreIs DEF SubtasksOf
<1>2. evals[t] \in {"graded", "skipped", "dependency"}
  BY <1>1 DEF EvaluationsOf, EvaluationState
<1>3. ASSUME NEW u \in d.target[i], Bad(d, AllRun(d), u)
      PROVE  i \in Worthless(d)
  BY <1>3, OwnScoreIs, WorthlessIs
<1>4. CASE evals[t] = "graded"
  BY <1>1, <1>3, <1>4, BadOnes
<1>5. CASE evals[t] = "skipped"
  <2>1. PICK s \in ScreeningOf(d, d.group[t]) : d.outcome[s] = 0
    BY <1>1, <1>5 DEF ScreeningSkipsOK
  <2>2. s \in d.target[i] /\ s \in TestcasesOf(d)
    <3>1. t \notin d.screening
      BY <1>1, <1>5 DEF ScreeningSkipsOK
    <3>2. s \in d.target[i]
      BY <3>1, AlignedScreening
    <3> QED
      BY <3>2, OwnScoreIs
  <2> QED
    BY <1>3, <2>1, <2>2, BadOnes
<1>6. CASE evals[t] = "dependency"
  BY <1>1, <1>6, WorthlessIs DEF DependencySkipsOK
<1> QED
  BY <1>2, <1>4, <1>5, <1>6

\* A subtask that has failed is worthless in full grading of an aligned dataset,
\* and one is blocked by a dependency that is.
LEMMA FailedIsWorthless ==
  ASSUME NEW d, IsDataset(d), OrderOK(d), Aligned(d), NEW evals \in EvaluationsOf(d),
         ScreeningSkipsOK(d, evals), DependencySkipsOK(d, evals), NEW i \in Subtasks(d)
  PROVE  /\ Statuses(d, evals).status[i] = "failed" => i \in Worthless(d)
         /\ Statuses(d, evals).blocked[i] # 0 => \E x \in d.depends[i] : x \in Worthless(d)
<1> DEFINE s == Statuses(d, evals).status
           b == Statuses(d, evals).blocked
           V == {j \in Subtasks(d) : s[j] = "failed" => j \in Worthless(d)}
<1>1. \A j \in Subtasks(d) : s[j] = StatusOf(d, evals, s, j) /\ b[j] = BlockOf(d, s, j)
  BY StatusesAre
<1> HIDE DEF s, b
<1>2. ASSUME NEW j \in Subtasks(d), \A x \in d.depends[j] : x \in V
      PROVE  j \in V
  <2>1. SUFFICES ASSUME s[j] = "failed"
                 PROVE  j \in Worthless(d)
    OBVIOUS
  <2>2. CASE FailedOf(d, s, j) # {}
    <3>1. PICK x \in d.depends[j] : s[x] = "failed"
      BY <2>2 DEF FailedOf
    <3>2. x \in Worthless(d)
      BY <1>2, <3>1
    <3> QED
      BY <3>2, WorthlessIs
  <2>3. CASE FailedOf(d, s, j) = {}
    <3> DEFINE D == DoneOf(d, evals, j)
    <3>1. D # {} /\ Reduce(d, evals, D) <= 0
      BY <1>1, <2>1, <2>3 DEF StatusOf
    <3>2. D \in SUBSET TestcasesOf(d) /\ \A t \in D : t \in d.target[j] /\ evals[t] # "none"
      BY OwnScoreIs DEF DoneOf
    <3> HIDE DEF D
    <3>3. Reduce(d, evals, D) \in Nat
      BY <3>1, <3>2, ReduceIs DEF Reducible
    <3>4. Reduce(d, evals, D) = 0
      BY <3>1, <3>3
    <3>5. PICK t \in D : Bad(d, evals, t)
      BY <3>1, <3>2, <3>4, ReduceIs DEF Reducible
    <3> QED
      BY <3>2, <3>5, BadIsWorthless
  <2> QED
    BY <2>2, <2>3
<1>3. \A j \in Subtasks(d) : j \in V
  <2> HIDE DEF V
  <2> QED
    BY <1>2, DependencyInduction
<1>4. ASSUME b[i] # 0
      PROVE  \E x \in d.depends[i] : x \in Worthless(d)
  <2>1. FailedOf(d, s, i) # {}
    BY <1>1, <1>4 DEF BlockOf
  <2>2. PICK x \in d.depends[i] : s[x] = "failed"
    BY <2>1 DEF FailedOf
  <2>3. x \in Subtasks(d)
    BY DEF IsDataset
  <2> QED
    BY <1>3, <2>2, <2>3
<1> QED
  BY <1>3, <1>4 DEF s, b

\* Dependency skips of an aligned dataset have a cause when they are made.
LEMMA DependencySkipsCause ==
  ASSUME NEW d, IsDataset(d), OrderOK(d), Aligned(d), NEW evals \in EvaluationsOf(d),
         ScreeningSkipsOK(d, evals), DependencySkipsOK(d, evals)
  PROVE  /\ DependencySkipsOK(d, WithScreeningSkips(d, evals))
         /\ DependencySkipsOK(d, WithDependencySkips(d, evals))
<1>1. \A t \in TestcasesOf(d) :
         WithScreeningSkips(d, evals)[t] = "dependency" => evals[t] = "dependency"
  BY DEF WithScreeningSkips
<1>2. DependencySkipsOK(d, WithScreeningSkips(d, evals))
  BY <1>1 DEF DependencySkipsOK
<1>3. ASSUME NEW t \in TestcasesOf(d), WithDependencySkips(d, evals)[t] = "dependency",
             NEW i \in SubtasksOf(d, t)
      PROVE  \E x \in d.depends[i] : x \in Worthless(d)
  <2>1. CASE evals[t] = "dependency"
    BY <2>1 DEF DependencySkipsOK
  <2>2. CASE evals[t] # "dependency"
    <3>1. Skippable(d, Statuses(d, evals).blocked, t)
      BY <1>3, <2>2 DEF WithDependencySkips
    <3>2. i \in Subtasks(d) /\ Statuses(d, evals).blocked[i] # 0
      BY <3>1 DEF Skippable, SubtasksOf
    <3> QED
      BY <3>2, FailedIsWorthless
  <2> QED
    BY <2>1, <2>2
<1> QED
  BY <1>2, <1>3 DEF DependencySkipsOK

\* compute_score: a subtask is worth what its evaluations say, or 0 if one it
\* depends on is.
LEMMA ScoresAre ==
  ASSUME NEW d, IsDataset(d), OrderOK(d), NEW evals
  PROVE  /\ SubtaskScores(d, evals) \in [Subtasks(d) -> Nat]
         /\ \A i \in Subtasks(d) :
              SubtaskScores(d, evals)[i] =
                IF \E x \in d.depends[i] : SubtaskScores(d, evals)[x] = 0
                THEN 0 ELSE Reduce(d, evals, d.target[i])
<1> DEFINE fr == [i \in Subtasks(d) |-> Reduce(d, evals, d.target[i])]
           z == ZeroedBy(fr, d.depends, d.order)
           s == SubtaskScores(d, evals)
<1>1. fr \in [Subtasks(d) -> Nat] /\ \A i \in Subtasks(d) : fr[i] = Reduce(d, evals, d.target[i])
  BY OwnScoreIs, ReduceIs
<1>2. s = [i \in Subtasks(d) |-> IF z[i] # 0 THEN 0 ELSE fr[i]]
  BY DEF SubtaskScores
<1> HIDE DEF fr, s
<1>3. PICK worth \in [Subtasks(d) -> Nat] : \A i \in Subtasks(d) :
         worth[i] = WorthOf(d, fr, worth, i) /\ z[i] = ZeroOf(d, worth, i)
  BY <1>1, ZeroedAre
<1> HIDE DEF z
<1>4. ASSUME NEW i \in Subtasks(d)
      PROVE  s[i] = worth[i]
  <2> DEFINE F == WorthlessOf(d, worth, i)
  <2>1. worth[i] = IF F = {} THEN fr[i] ELSE 0
    BY <1>3 DEF WorthOf
  <2>2. z[i] = IF F = {} THEN 0 ELSE Min(F)
    BY <1>3 DEF ZeroOf
  <2>3. F \in SUBSET Nat /\ 0 \notin F
    BY DEF WorthlessOf, IsDataset, Subtasks
  <2> HIDE DEF F
  <2>4. F # {} => Min(F) # 0
    BY <2>3, MinIs
  <2> QED
    BY <1>2, <2>1, <2>2, <2>4
<1>5. s \in [Subtasks(d) -> Nat]
  BY <1>1, <1>2
<1>6. ASSUME NEW i \in Subtasks(d)
      PROVE  s[i] = IF \E x \in d.depends[i] : s[x] = 0 THEN 0 ELSE Reduce(d, evals, d.target[i])
  <2>1. \A x \in d.depends[i] : x \in Subtasks(d) /\ s[x] = worth[x] /\ worth[x] \in Nat
    BY <1>3, <1>4 DEF IsDataset
  <2>2. \A x \in d.depends[i] : worth[x] <= 0 <=> s[x] = 0
    BY <2>1
  <2>3. WorthlessOf(d, worth, i) = {} <=> ~ \E x \in d.depends[i] : s[x] = 0
    BY <2>2 DEF WorthlessOf
  <2> QED
    BY <1>1, <1>3, <1>4, <2>3 DEF WorthOf
<1> QED
  BY <1>5, <1>6 DEF s

(***************************************************************************)
(* compute_score of a result of an aligned dataset in which every testcase *)
(* has an evaluation, whichever of them the gates skipped with a cause,    *)
(* gives every subtask what full grading would.                            *)
(***************************************************************************)
THEOREM ScoresAreFull ==
  ASSUME NEW d, IsDataset(d), OrderOK(d), Aligned(d), NEW evals \in EvaluationsOf(d),
         ScreeningSkipsOK(d, evals), DependencySkipsOK(d, evals),
         \A t \in TestcasesOf(d) : evals[t] # "none"
  PROVE  SubtaskScores(d, evals) = ScoresOfFullGrading(d)
<1> DEFINE s == SubtaskScores(d, evals)
           w == ScoresOfFullGrading(d)
           V == {j \in Subtasks(d) : s[j] = w[j]}
<1>1. \A i \in Subtasks(d) : w[i] = IF i \in Worthless(d) THEN 0 ELSE OwnScore(d, i)
  BY DEF ScoresOfFullGrading
<1>2. /\ s \in [Subtasks(d) -> Nat]
      /\ \A i \in Subtasks(d) :
            s[i] = IF \E x \in d.depends[i] : s[x] = 0 THEN 0 ELSE Reduce(d, evals, d.target[i])
  BY ScoresAre
<1>3. DOMAIN w = Subtasks(d) /\ w = [i \in Subtasks(d) |-> w[i]]
  BY DEF ScoresOfFullGrading
<1> HIDE DEF s, w
<1>4. ASSUME NEW j \in Subtasks(d), \A x \in d.depends[j] : x \in V
      PROVE  j \in V
  <2> DEFINE S == d.target[j]
             r == Reduce(d, evals, S)
  <2>1. /\ S \in SUBSET TestcasesOf(d) /\ Reducible(d, S)
        /\ OwnScore(d, j) = 0 <=> \E t \in S : Bad(d, AllRun(d), t)
    BY OwnScoreIs
  <2>2. r = 0 <=> \E t \in S : Bad(d, evals, t)
    BY <2>1, ReduceIs
  <2>3. s[j] = IF \E x \in d.depends[j] : s[x] = 0 THEN 0 ELSE r
    BY <1>2
  <2>4. CASE j \in Worthless(d)
    <3>1. SUFFICES s[j] = 0
      BY <1>1, <2>4
    <3>2. CASE OwnScore(d, j) = 0
      <4>1. \E t \in S : Bad(d, evals, t)
        BY <2>1, <3>2, BadOnes
      <4>2. r = 0
        BY <2>2, <4>1
      <4> QED
        BY <2>3, <4>2
    <3>3. CASE OwnScore(d, j) # 0
      <4>1. PICK x \in d.depends[j] : x \in Worthless(d)
        BY <2>4, <3>3, WorthlessIs
      <4>2. s[x] = 0
        BY <1>1, <1>4, <4>1
      <4> QED
        BY <2>3, <4>2
    <3> QED
      BY <3>2, <3>3
  <2>5. CASE j \notin Worthless(d)
    <3>1. \A x \in d.depends[j] : x \notin Worthless(d)
      BY <2>5, WorthlessIs
    <3>2. \A x \in d.depends[j] : s[x] # 0
      <4>1. SUFFICES ASSUME NEW x \in d.depends[j]
                     PROVE  s[x] # 0
        OBVIOUS
      <4>2. x \in Subtasks(d) /\ s[x] = w[x] /\ x \notin Worthless(d)
        BY <1>4, <3>1
      <4>3. OwnScore(d, x) # 0
        BY <4>2, WorthlessIs
      <4> QED
        BY <1>1, <4>2, <4>3
    <3>3. \A t \in S : ~Bad(d, evals, t)
      <4>1. SUFFICES ASSUME NEW t \in S, Bad(d, evals, t)
                     PROVE  FALSE
        OBVIOUS
      <4>2. evals[t] # "none"
        BY <2>1
      <4> QED
        BY <2>5, <4>1, <4>2, BadIsWorthless
    <3>4. \A t \in S : OutcomeOf(d, evals, t) = OutcomeOf(d, AllRun(d), t)
      BY <2>1, <3>3, BadOnes
    <3>5. r = OwnScore(d, j)
      BY <2>1, <3>4, ReduceSame DEF OwnScore, AllRun
    <3> QED
      BY <1>1, <2>3, <2>5, <3>2, <3>5
  <2> QED
    BY <2>4, <2>5
<1>5. \A j \in Subtasks(d) : j \in V
  <2> HIDE DEF V
  <2> QED
    BY <1>4, DependencyInduction
<1> QED
  BY <1>2, <1>3, <1>5 DEF s, w

\* What has passed after the screening skips had passed before them.
LEMMA PassedBefore ==
  ASSUME NEW d, IsDataset(d), OrderOK(d), NEW evals, NEW i \in Subtasks(d),
         Statuses(d, WithScreeningSkips(d, evals)).status[i] = "passed"
  PROVE  Statuses(d, evals).status[i] = "passed"
<1> DEFINE e == WithScreeningSkips(d, evals)
           r == Statuses(d, e).status
           s == Statuses(d, evals).status
           V == {j \in Subtasks(d) : r[j] = "passed" => s[j] = "passed"}
<1>1. \A j \in Subtasks(d) : r[j] = StatusOf(d, e, r, j) /\ s[j] = StatusOf(d, evals, s, j)
  BY StatusesAre
<1>2. \A j \in Subtasks(d) : r[j] = "passed" =>
         /\ \A t \in d.target[j] : e[t] = "graded"
         /\ \A x \in d.depends[j] : r[x] = "passed"
  BY PassedIsWorth
<1>3. \A t \in TestcasesOf(d) : e[t] = "graded" => evals[t] = "graded"
  BY DEF WithScreeningSkips
<1> HIDE DEF r, s, e
<1>4. ASSUME NEW j \in Subtasks(d), \A x \in d.depends[j] : x \in V
      PROVE  j \in V
  <2>1. SUFFICES ASSUME r[j] = "passed"
                 PROVE  s[j] = "passed"
    OBVIOUS
  <2> DEFINE S == d.target[j]
  <2>2. S \in SUBSET TestcasesOf(d) /\ Reducible(d, S)
    BY OwnScoreIs
  <2>3. \A t \in S : e[t] = "graded" /\ evals[t] = "graded"
    BY <1>2, <1>3, <2>1, <2>2
  <2>4. \A x \in d.depends[j] : s[x] = "passed"
    BY <1>2, <1>4, <2>1
  <2>5. DoneOf(d, e, j) = S /\ DoneOf(d, evals, j) = S /\ FailedOf(d, s, j) = {}
    BY <2>3, <2>4 DEF DoneOf, FailedOf
  <2>6. S # {} => ~(Reduce(d, e, S) <= 0)
    BY <1>1, <2>1, <2>2, <2>5 DEF StatusOf
  <2>7. Reduce(d, e, S) = Reduce(d, evals, S)
    <3>1. \A t \in S : OutcomeOf(d, e, t) = OutcomeOf(d, evals, t)
      BY <2>3 DEF OutcomeOf
    <3> QED
      BY <2>2, <3>1, ReduceSame
  <2> QED
    BY <1>1, <2>4, <2>5, <2>6, <2>7 DEF StatusOf
<1>5. \A j \in Subtasks(d) : j \in V
  <2> HIDE DEF V
  <2> QED
    BY <1>4, DependencyInduction
<1> QED
  BY <1>5 DEF r, s, e

\* With nothing to release, a subtask whose dependencies have passed has no
\* testcase left once the screening has skipped what it can.
LEMMA NoneIsHeldBack ==
  ASSUME NEW d, IsDataset(d), OrderOK(d), Aligned(d), NEW evals \in EvaluationsOf(d),
         DependencySkipsOK(d, evals), ReleasedTestcases(d, evals) = {},
         NEW j \in Subtasks(d), NEW u \in d.target[j],
         \A x \in d.depends[j] :
            Statuses(d, WithScreeningSkips(d, evals)).status[x] = "passed"
  PROVE  WithScreeningSkips(d, evals)[u] # "none"
<1> DEFINE s == Statuses(d, evals).status
           g == d.group[u]
<1>1. SUFFICES ASSUME WithScreeningSkips(d, evals)[u] = "none"
               PROVE  FALSE
  OBVIOUS
<1>2. \A x \in d.depends[j] : x \in Subtasks(d) /\ s[x] = "passed" /\ x \notin Worthless(d)
  <2>1. \A x \in d.depends[j] : x \in Subtasks(d)
    BY DEF IsDataset
  <2> QED
    BY <2>1, PassedBefore, PassedIsWorth
<1>3. u \in TestcasesOf(d)
  BY OwnScoreIs
<1>4. /\ evals[u] = "none"
      /\ ~(d.twoPhase /\ u \notin d.screening /\ ScreeningStatus(d, evals, g) = "failed")
  BY <1>1, <1>3 DEF WithScreeningSkips
<1>5. ASSUME NEW t \in d.target[j], evals[t] = "none"
      PROVE  ~ScreeningReleases(d, evals, t)
  <2>1. t \in Unevaluated(d, evals) /\ j \in SubtasksOf(d, t)
    BY <1>5, OwnScoreIs DEF Unevaluated, SubtasksOf
  <2>2. Releasable(d, s, t)
    BY <1>2, <2>1 DEF Releasable
  <2> QED
    BY <2>1, <2>2 DEF ReleasedTestcases
<1>6. d.twoPhase /\ u \notin d.screening /\ ScreeningStatus(d, evals, g) # "passed"
  BY <1>4, <1>5, Zenon DEF ScreeningReleases
<1>7. ScreeningStatus(d, evals, g) \notin {"passed", "failed"}
  BY <1>4, <1>6
<1>8. PICK t \in ScreeningOf(d, g) : ~CountsForScreening(evals, t)
  BY <1>7 DEF ScreeningStatus
<1>9. t \in d.target[j] /\ t \in d.screening /\ t \in TestcasesOf(d)
  <2>1. t \in d.target[j]
    BY <1>6, <1>8, AlignedScreening
  <2>2. t \in d.screening
    BY DEF ScreeningOf
  <2> QED
    BY <2>1, <2>2 DEF IsDataset
<1>10. evals[t] \in {"none", "dependency"}
  BY <1>8, <1>9 DEF CountsForScreening, EvaluationsOf, EvaluationState
<1>11. evals[t] # "none"
  BY <1>5, <1>9 DEF ScreeningReleases
<1>12. \E x \in d.depends[j] : x \in Worthless(d)
  BY <1>9, <1>10, <1>11 DEF DependencySkipsOK, SubtasksOf
<1> QED
  BY <1>2, <1>12

(***************************************************************************)
(* On an aligned dataset with every testcase in a subtask, when the gates  *)
(* release nothing of a result, every subtask has passed or failed once    *)
(* _advance_two_phase is done, and _advance_dependencies can skip all that *)
(* is left.                                                                *)
(***************************************************************************)
THEOREM NothingIsLeft ==
  ASSUME NEW d, IsDataset(d), OrderOK(d), Aligned(d), NEW evals \in EvaluationsOf(d),
         DependencySkipsOK(d, evals), ReleasedTestcases(d, evals) = {},
         \A t \in TestcasesOf(d) : SubtasksOf(d, t) # {},
         NEW t \in TestcasesOf(d), WithScreeningSkips(d, evals)[t] = "none"
  PROVE  Skippable(d, Statuses(d, WithScreeningSkips(d, evals)).blocked, t)
<1> DEFINE e == WithScreeningSkips(d, evals)
           s == Statuses(d, e).status
           b == Statuses(d, e).blocked
           V == {j \in Subtasks(d) : s[j] # "pending"}
<1>1. \A j \in Subtasks(d) : s[j] = StatusOf(d, e, s, j) /\ b[j] = BlockOf(d, s, j)
  BY StatusesAre
<1>2. \A j \in Subtasks(d) : s[j] \in {"pending", "passed", "failed"}
  BY StatusesAre DEF StatusTypes
<1>3. ASSUME NEW j \in Subtasks(d), NEW u \in d.target[j], \A x \in d.depends[j] : s[x] = "passed"
      PROVE  e[u] # "none"
  BY <1>3, NoneIsHeldBack
<1>4. e[t] = "none"
  OBVIOUS
<1> HIDE DEF s, b, e
<1>5. ASSUME NEW j \in Subtasks(d), \A x \in d.depends[j] : x \in V
      PROVE  j \in V
  <2>1. SUFFICES ASSUME s[j] = "pending"
                 PROVE  FALSE
    OBVIOUS
  <2>2. FailedOf(d, s, j) = {}
    BY <1>1, <2>1 DEF StatusOf
  <2>3. \A x \in d.depends[j] : s[x] = "passed"
    BY <1>2, <1>5, <2>2 DEF FailedOf
  <2>4. DoneOf(d, e, j) = d.target[j]
    BY <1>3, <2>3 DEF DoneOf
  <2> QED
    BY <1>1, <2>1, <2>3, <2>4 DEF StatusOf
<1>6. \A j \in Subtasks(d) : j \in V
  <2> HIDE DEF V
  <2> QED
    BY <1>5, DependencyInduction
<1>7. ASSUME NEW j \in SubtasksOf(d, t), b[j] = 0
      PROVE  FALSE
  <2>1. j \in Subtasks(d) /\ t \in d.target[j]
    BY DEF SubtasksOf
  <2>2. d.depends[j] \subseteq Subtasks(d)
    BY <2>1 DEF IsDataset
  <2>3. FailedOf(d, s, j) = {}
    <3> DEFINE F == FailedOf(d, s, j)
    <3>1. b[j] = IF F = {} THEN 0 ELSE Min(F)
      BY <1>1, <2>1 DEF BlockOf
    <3>2. F \in SUBSET Nat /\ 0 \notin F
      BY <2>2 DEF FailedOf, IsDataset, Subtasks
    <3> HIDE DEF F
    <3>3. F # {} => Min(F) # 0
      BY <3>2, MinIs
    <3> QED
      BY <1>7, <3>1, <3>3 DEF F
  <2>4. \A x \in d.depends[j] : s[x] = "passed"
    BY <1>2, <1>6, <2>2, <2>3 DEF FailedOf
  <2> QED
    BY <1>3, <1>4, <2>1, <2>4
<1> QED
  BY <1>7 DEF Skippable, b, e

-----------------------------------------------------------------------------
(* The order of the subtasks *)

\* Subtasks put in order so far.
OrdersOf(depends) ==
    {o \in Seq(DOMAIN depends) :
        /\ \A k, l \in 1 .. Len(o) : o[k] = o[l] => k = l
        /\ \A k \in 1 .. Len(o) : \A x \in depends[o[k]] : \E l \in 1 .. k - 1 : o[l] = x}

ReadyFor(depends, o) == {i \in DOMAIN depends \ Range(o) : depends[i] \subseteq Range(o)}

ExtendOrder(depends, o) ==
    IF ReadyFor(depends, o) = {} THEN o ELSE Append(o, Min(ReadyFor(depends, o)))

\* A round of the loop of topological_order keeps the order.
LEMMA ExtendOrderIs ==
  ASSUME NEW N \in Nat, NEW depends, DOMAIN depends = 1 .. N, NEW o \in OrdersOf(depends)
  PROVE  ExtendOrder(depends, o) \in OrdersOf(depends)
<1> DEFINE R == ReadyFor(depends, o)
           i == Min(R)
           L == Len(o)
           p == Append(o, i)
<1>1. CASE R = {}
  BY <1>1 DEF ExtendOrder
<1>2. CASE R # {}
  <2>1. R \in SUBSET Nat
    BY DEF ReadyFor
  <2>2. i \in R
    <3> HIDE DEF R
    <3> QED
      BY <1>2, <2>1, MinIs
  <2>3. /\ o \in Seq(1 .. N) /\ L \in Nat
        /\ \A k, l \in 1 .. L : o[k] = o[l] => k = l
        /\ \A k \in 1 .. L : \A x \in depends[o[k]] : \E l \in 1 .. k - 1 : o[l] = x
    BY DEF OrdersOf
  <2>4. /\ i \in 1 .. N
        /\ \A k \in 1 .. L : o[k] # i
        /\ \A x \in depends[i] : \E l \in 1 .. L : o[l] = x
    <3>1. Range(o) = {o[k] : k \in 1 .. L}
      BY <2>3 DEF Range
    <3> QED
      BY <2>2, <3>1 DEF ReadyFor
  <2> HIDE DEF i, R
  <2>5. /\ p \in Seq(1 .. N) /\ Len(p) = L + 1
        /\ \A k \in 1 .. L : p[k] = o[k]
        /\ p[L + 1] = i
    BY <2>3, <2>4
  <2> HIDE DEF p, L
  <2>6. \A k \in 1 .. L + 1 : k = L + 1 \/ k \in 1 .. L
    BY <2>3
  <2>7. \A k, l \in 1 .. Len(p) : p[k] = p[l] => k = l
    BY <2>3, <2>4, <2>5, <2>6
  <2>8. ASSUME NEW k \in 1 .. Len(p), NEW x \in depends[p[k]]
        PROVE  \E l \in 1 .. k - 1 : p[l] = x
    <3>1. CASE k = L + 1
      <4>1. PICK l \in 1 .. L : o[l] = x
        BY <2>4, <2>5, <2>8, <3>1
      <4>2. l \in 1 .. k - 1
        BY <2>3, <3>1
      <4> QED
        BY <2>5, <4>1, <4>2
    <3>2. CASE k \in 1 .. L
      <4>1. PICK l \in 1 .. k - 1 : o[l] = x
        BY <2>3, <2>5, <2>8, <3>2
      <4>2. l \in 1 .. L
        BY <2>3, <3>2
      <4> QED
        BY <2>5, <4>1, <4>2
    <3> QED
      BY <2>5, <2>6, <3>1, <3>2
  <2>9. p \in OrdersOf(depends)
    BY <2>5, <2>7, <2>8 DEF OrdersOf
  <2> QED
    BY <1>2, <2>9 DEF ExtendOrder, p, i, R
<1> QED
  BY <1>1, <1>2

\* topological_order gives subtasks, all or some, in order.
LEMMA TopologicalOrderIs ==
  ASSUME NEW N \in Nat, NEW depends, DOMAIN depends = 1 .. N, Len(depends) = N
  PROVE  TopologicalOrder(depends) \in OrdersOf(depends)
<1> DEFINE S == OrdersOf(depends)
           order[n \in 0 .. N] ==
               IF n = 0 THEN <<>> ELSE ExtendOrder(depends, order[n - 1])
           step == [p \in (1 .. N) \X S |-> ExtendOrder(depends, p[2])]
<1>1. TopologicalOrder(depends) = order[N]
  BY DEF TopologicalOrder, ExtendOrder, ReadyFor
<1>2. <<>> \in S
  BY DEF OrdersOf
<1>3. \A o \in S : ExtendOrder(depends, o) \in S
  BY ExtendOrderIs
<1> HIDE DEF S
<1>4. /\ step \in [(1 .. N) \X S -> S]
      /\ \A n \in 1 .. N, o \in S : step[<<n, o>>] = ExtendOrder(depends, o)
  BY <1>3
<1> HIDE DEF step, order
<1>5. PICK f \in [0 .. N -> S] : f[0] = <<>> /\ \A k \in 1 .. N : f[k] = step[<<k, f[k - 1]>>]
  <2>1. Runs(S, step, <<>>, N) # {}
    BY <1>2, <1>4, RunExists
  <2> QED
    BY <2>1 DEF Runs
<1>6. f = [n \in 0 .. N |-> IF n = 0 THEN <<>> ELSE ExtendOrder(depends, f[n - 1])]
  <2>1. ASSUME NEW n \in 0 .. N, n # 0
        PROVE  f[n] = ExtendOrder(depends, f[n - 1])
    <3>1. n \in 1 .. N /\ n - 1 \in 0 .. N
      BY <2>1
    <3> QED
      BY <1>4, <1>5, <3>1
  <2> QED
    BY <1>5, <2>1
<1>7. order = [n \in 0 .. N |-> IF n = 0 THEN <<>> ELSE ExtendOrder(depends, order[n - 1])]
  BY <1>6 DEF order
<1> DEFINE T == {n \in 0 .. N : order[n] \in S}
<1>8. 0 \in T
  <2>1. 0 \in 0 .. N
    OBVIOUS
  <2> QED
    BY <1>2, <1>7, <2>1
<1>9. ASSUME NEW n \in 1 .. N, n - 1 \in T
      PROVE  n \in T
  <2>1. n \in 0 .. N /\ n # 0
    OBVIOUS
  <2> QED
    BY <1>3, <1>7, <1>9, <2>1
<1>10. N \in T
  <2> HIDE DEF T
  <2>1. \A n \in 0 .. N : n \in T
    BY <1>8, <1>9, UpTo
  <2> QED
    BY <2>1
<1> QED
  BY <1>1, <1>10 DEF S

(***************************************************************************)
(* What parse_dependencies accepts, topological_order puts in order: every *)
(* subtask once, behind all those it depends on.                           *)
(***************************************************************************)
THEOREM AcceptedIsInOrder ==
  ASSUME NEW N \in Nat, NEW depends, DOMAIN depends = 1 .. N, Len(depends) = N,
         AcceptsDependencies(depends),
         NEW o, o = TopologicalOrder(depends)
  PROVE  /\ o \in OrdersOf(depends)
         /\ \A i \in 1 .. N : \E k \in 1 .. Len(o) : o[k] = i
<1>1. o \in OrdersOf(depends) /\ Len(o) = N
  BY TopologicalOrderIs DEF AcceptsDependencies
<1>2. o \in Injection(1 .. N, 1 .. N)
  <2>1. /\ o \in Seq(1 .. N)
        /\ \A k, l \in 1 .. N : o[k] = o[l] => k = l
    BY <1>1 DEF OrdersOf
  <2>2. o \in [1 .. N -> 1 .. N]
    BY <1>1, <2>1
  <2> QED
    BY <2>1, <2>2 DEF Injection, IsInjective
<1>3. IsFiniteSet(1 .. N)
  BY FS_Interval
<1>4. o \in Surjection(1 .. N, 1 .. N)
  BY <1>2, <1>3, FS_Injection
<1>5. \A i \in 1 .. N : \E k \in 1 .. Len(o) : o[k] = i
  BY <1>1, <1>4 DEF Surjection
<1> QED
  BY <1>1, <1>5

\* That is the order SubtaskGate keeps.
LEMMA AcceptedOrderOK ==
  ASSUME NEW d, NEW N \in Nat, Subtasks(d) = 1 .. N,
         NEW D, d.depends = D, DOMAIN D = 1 .. N, Len(D) = N,
         AcceptsDependencies(D), NEW o, o = TopologicalOrder(D), d.order = o
  PROVE  OrderOK(d)
<1>1. /\ o \in OrdersOf(D)
      /\ \A i \in 1 .. N : \E k \in 1 .. Len(o) : o[k] = i
  BY AcceptedIsInOrder
<1>2. /\ o \in Seq(1 .. N)
      /\ \A k, l \in 1 .. Len(o) : o[k] = o[l] => k = l
      /\ \A k \in 1 .. Len(o) : \A x \in D[o[k]] : \E l \in 1 .. k - 1 : o[l] = x
  BY <1>1 DEF OrdersOf
<1> QED
  BY <1>1, <1>2 DEF OrderOK

\* A dataset, before its dependencies are parsed.
IsCase(c) ==
    /\ IsFiniteSet(TestcasesOf(c))
    /\ c.screening \subseteq TestcasesOf(c)
    /\ c.outcome \in [TestcasesOf(c) -> Nat]
    /\ c.target \in Seq(SUBSET TestcasesOf(c))
    /\ \A i \in Subtasks(c) : Reducible(c, c.target[i])
    /\ c.depends \in Seq(SUBSET Nat)
    /\ Len(c.depends) = Len(c.target)
    /\ c.reduce \in {"GroupMin", "GroupMul", "GroupThreshold"}

\* So what a dataset is loaded as has all that the gates rely on.
LEMMA SubtaskGateIs ==
  ASSUME NEW c, IsCase(c), AcceptsDependencies(c.depends)
  PROVE  IsDataset(SubtaskGate(c)) /\ OrderOK(SubtaskGate(c))
<1> DEFINE d == SubtaskGate(c)
           N == Len(c.target)
           D == c.depends
<1>1. /\ d.group = c.group /\ d.screening = c.screening /\ d.outcome = c.outcome
      /\ d.target = c.target /\ d.depends = D /\ d.reduce = c.reduce
      /\ d.order = TopologicalOrder(D)
  BY DEF SubtaskGate
<1> HIDE DEF d
<1>2. TestcasesOf(d) = TestcasesOf(c)
  BY <1>1 DEF TestcasesOf
<1>3. /\ N \in Nat /\ DOMAIN c.target = 1 .. N
      /\ Len(D) = N /\ DOMAIN D = 1 .. N /\ D \in [1 .. N -> SUBSET Nat]
  <2>1. c.target \in Seq(SUBSET TestcasesOf(c))
    BY DEF IsCase
  <2>2. D \in Seq(SUBSET Nat) /\ Len(D) = N
    BY DEF IsCase
  <2> HIDE DEF D
  <2> QED
    BY <2>1, <2>2
<1>4. Subtasks(d) = 1 .. N
  BY <1>1, <1>3 DEF Subtasks
<1>5. AcceptsDependencies(D)
  BY DEF D
<1> HIDE DEF N, D
<1>6. D \in [1 .. N -> SUBSET (1 .. N)]
  BY <1>3, <1>5 DEF AcceptsDependencies
<1>7. IsDataset(d)
  <2>1. \A i \in Subtasks(d) : Reducible(d, d.target[i])
    BY <1>1, <1>3, <1>4 DEF IsCase, Reducible, Subtasks
  <2> QED
    BY <1>1, <1>2, <1>4, <1>6, <2>1 DEF IsCase, IsDataset
<1>8. OrderOK(d)
  BY <1>1, <1>3, <1>4, <1>5, AcceptedOrderOK
<1> QED
  BY <1>7, <1>8 DEF d
=============================================================================
