--------------------------- MODULE ResultsProofs ---------------------------
(***************************************************************************)
(* What Results keeps for every dataset and any number of faults, tries    *)
(* and revisions.                                                          *)
(*                                                                         *)
(* EvaluationService and ScoringService meet in one row.  The argument is  *)
(* that whoever may change what a score is computed of keeps the other     *)
(* out: an invalidation holds the row's lock from its flush to its commit, *)
(* the scorer from its read to its commit, and the writers that take no    *)
(* lock only add evaluations to a result that has one missing, which is    *)
(* never one being scored.                                                 *)
(*                                                                         *)
(* What the gates skip has a cause in full grading, at every commit and    *)
(* for evaluations that are invalidated and made again one by one: so the  *)
(* score is that of full grading, and the two gates never hold each other. *)
(* What they compute of one row is the matter of SubtaskGatesProofs.       *)
(***************************************************************************)
EXTENDS Results, SubtaskGatesProofs

\* The dataset is one of Cases, with its subtasks ordered.
DatasetOK == IsDataset(ds) /\ OrderOK(ds)

\* A try that failed is a fault.
TriesOK(r) == r.compilationTries <= faults /\ r.evaluationTries <= faults

\* Where a section may be, with what it carries along.
SectionOK ==
    \/ section \in [pc : {"idle", "compilationEnded", "enqueue", "finalize"}]
    \/ section \in [pc : {"screening", "dependencies"}, next : {"outcome", "finalize"}]
    \/ section \in [pc : {"outcome", "evaluationEnded"}, next : {"outcome"}]
    \/ section \in [pc : {"finalize"}, next : {"finalize"}]
    \/ section.pc = "loaded"

ScorerOK ==
    \/ scorer = Idle
    \/ scorer \in [pc : {"begun"}, revision : 0 .. revision]
    \/ /\ scorer = [pc |-> "locked", score |-> scorer.score]
       /\ IsScore(scorer.score) /\ scorer.score # NoScore

\* Only an invalidation leaves something flushed.  It has no outcome and no
\* score, and the scorer is kept out.
SessionOK ==
    session # NoRow =>
        /\ section.pc \in {"enqueue", "screening", "dependencies", "finalize"}
        /\ section.pc \in {"screening", "dependencies"} => section.next = "finalize"
        /\ scorer.pc # "locked"
        /\ ~session.evaluated /\ session.score = NoScore

\* A submission compiles or it does not; one that does not has nothing to run.
CompilesOK(r) ==
    /\ r.compilation = "ok" => ds.compiles
    /\ r.compilation = "fail" => ~ds.compiles

NothingToRun ==
    ~ds.compiles =>
        /\ todo \subseteq {Compile} /\ ~row.evaluated
        /\ section.pc \notin {"outcome", "evaluationEnded"}
        /\ section.pc \in {"screening", "dependencies"} => section.next # "outcome"

\* What the scorer has computed is of the row as it is.
LockedIsOfThisRow ==
    scorer.pc = "locked" =>
        /\ row.compilation = "fail" \/ row.evaluated
        /\ scorer.score[1] = ComputeScore(row)

\* What was skipped has a cause in full grading; of what the dependencies skip,
\* that takes a dataset that follows the alignment rule.
SkipsOK(evals) ==
    /\ ScreeningSkipsOK(ds, evals)
    /\ Aligned(ds) => DependencySkipsOK(ds, evals)

\* On the way to "finalize", submission_enqueue_operations has nothing to release;
\* then, after the screening skips, what is left can be skipped; then nothing is left.
NothingHeldAt(sec, r) ==
    ToEvaluate(r) =>
        /\ sec.pc = "screening" /\ sec.next = "finalize" =>
              ReleasedTestcases(ds, r.evals) = {}
        /\ sec.pc = "dependencies" /\ sec.next = "finalize" =>
              \A t \in Unevaluated(ds, r.evals) :
                  Skippable(ds, Statuses(ds, r.evals).blocked, t)
        /\ sec.pc = "finalize" => Complete(r)

NothingIsHeld ==
    Aligned(ds) /\ (\A t \in TestcasesOf(ds) : SubtasksOf(ds, t) # {}) =>
        ~released /\ NothingHeldAt(section, View)

IInv ==
    /\ TypeOK
    /\ DatasetOK
    /\ TriesOK(row) /\ (session # NoRow => TriesOK(session))
    /\ SectionOK
    /\ ScorerOK
    /\ SessionOK
    /\ CompilesOK(row) /\ (session # NoRow => CompilesOK(session))
    /\ NothingToRun
    /\ OutcomeIsComplete
    /\ ScoreIsOfTheseEvaluations
    /\ LockedIsOfThisRow
    /\ SkipsOK(row.evals) /\ (session # NoRow => SkipsOK(session.evals))
    /\ GatesHold
    /\ NothingIsHeld

USE ResultsAssumption
-----------------------------------------------------------------------------
(* Rows *)

\* What the steps make of a row is a row.
LEMMA RowAgain ==
  ASSUME NEW r, IsRow(r)
  PROVE  /\ \A e \in [TestcasesOf(ds) -> EvaluationState] : IsRow([r EXCEPT !.evals = e])
         /\ \A b \in BOOLEAN : IsRow([r EXCEPT !.evaluated = b])
         /\ \A c \in {"none", "ok", "fail"} : IsRow([r EXCEPT !.compilation = c])
         /\ \A n \in 0 .. MaxFaults : /\ IsRow([r EXCEPT !.compilationTries = n])
                                      /\ IsRow([r EXCEPT !.evaluationTries = n])
         /\ \A s : IsScore(s) => IsRow([r EXCEPT !.score = s])
         /\ r # NoRow
<1>1. \A e \in [TestcasesOf(ds) -> EvaluationState] : IsRow([r EXCEPT !.evals = e])
  BY DEF IsRow
<1>2. \A b \in BOOLEAN : IsRow([r EXCEPT !.evaluated = b])
  BY DEF IsRow
<1>3. \A c \in {"none", "ok", "fail"} : IsRow([r EXCEPT !.compilation = c])
  BY DEF IsRow
<1>4. \A n \in 0 .. MaxFaults : /\ IsRow([r EXCEPT !.compilationTries = n])
                                /\ IsRow([r EXCEPT !.evaluationTries = n])
  BY DEF IsRow
<1>5. \A s : IsScore(s) => IsRow([r EXCEPT !.score = s])
  BY DEF IsRow
<1>6. r # NoRow
  BY DEF IsRow, NoRow
<1> QED
  BY <1>1, <1>2, <1>3, <1>4, <1>5, <1>6

\* Its fields.
LEMMA RowFields ==
  ASSUME NEW r, IsRow(r)
  PROVE  /\ r.compilation \in {"none", "ok", "fail"}
         /\ r.compilationTries \in 0 .. MaxFaults /\ r.evaluationTries \in 0 .. MaxFaults
         /\ r.evals \in [TestcasesOf(ds) -> EvaluationState]
         /\ r.evaluated \in BOOLEAN
         /\ IsScore(r.score)
  BY DEF IsRow

\* The dataset never changes, and nor does what a row is.
LEMMA RowsStay ==
  ASSUME ds' = ds, NEW r
  PROVE  (IsRow(r)' <=> IsRow(r')) /\ (IsScore(r)' <=> IsScore(r'))
  BY DEF IsRow, IsScore, TestcasesOf, Subtasks, NoScore

\* Whatever the evaluations, there is a score for them.
LEMMA ScoreIsScore ==
  ASSUME NEW r, IsRow(r), NEW n \in 0 .. MaxRevisions
  PROVE  IsScore(<<ComputeScore(r), n>>) /\ <<ComputeScore(r), n>> # NoScore
<1> DEFINE W == {SubtaskScores(ds, evals) : evals \in [TestcasesOf(ds) -> EvaluationState]}
                \cup {[i \in Subtasks(ds) |-> 0]}
<1>1. ComputeScore(r) \in W
  BY RowFields DEF ComputeScore
<1>2. <<ComputeScore(r), n>> \in W \X (0 .. MaxRevisions)
  <2> HIDE DEF W
  <2> QED
    BY <1>1
<1>3. <<ComputeScore(r), n>> # NoScore
  BY DEF NoScore
<1> QED
  BY <1>2, <1>3 DEF IsScore

\* Skips only replace evaluations that are missing.
Fills(old, new) ==
    /\ new \in [TestcasesOf(ds) -> EvaluationState]
    /\ \A t \in TestcasesOf(ds) : old[t] # "none" => new[t] = old[t]

LEMMA SkipsFill ==
  ASSUME NEW evals \in [TestcasesOf(ds) -> EvaluationState]
  PROVE  /\ Fills(evals, WithScreeningSkips(ds, evals))
         /\ Fills(evals, WithDependencySkips(ds, evals))
<1>1. Fills(evals, WithScreeningSkips(ds, evals))
  BY DEF Fills, WithScreeningSkips, EvaluationState
<1>2. Fills(evals, WithDependencySkips(ds, evals))
  BY DEF Fills, WithDependencySkips, EvaluationState
<1> QED
  BY <1>1, <1>2

\* An invalidated row.
LEMMA InvalidatedRow ==
  ASSUME NEW r, IsRow(r), NEW seen, NEW T
  PROVE  /\ IsRow(InvalidateEvaluation(r, seen, T)) /\ IsRow(InvalidateCompilation(r, seen))
         /\ \A x \in {InvalidateEvaluation(r, seen, T), InvalidateCompilation(r, seen)} :
              /\ ~x.evaluated /\ x.score = NoScore /\ x.evaluationTries = 0
              /\ x.compilationTries \in {0, r.compilationTries}
              /\ x.compilation \in {"none", r.compilation}
              /\ \A t \in TestcasesOf(ds) : x.evals[t] \in {"none", r.evals[t]}
<1>1. IsScore(NoScore) /\ 0 \in 0 .. MaxFaults
  BY DEF IsScore
<1>2. ASSUME NEW U
      PROVE  /\ IsRow(InvalidateEvaluation(r, seen, U))
             /\ ~InvalidateEvaluation(r, seen, U).evaluated
             /\ InvalidateEvaluation(r, seen, U).score = NoScore
             /\ InvalidateEvaluation(r, seen, U).evaluationTries = 0
             /\ InvalidateEvaluation(r, seen, U).compilationTries = r.compilationTries
             /\ InvalidateEvaluation(r, seen, U).compilation = r.compilation
             /\ \A t \in TestcasesOf(ds) :
                   InvalidateEvaluation(r, seen, U).evals[t] \in {"none", r.evals[t]}
  <2> DEFINE e == [t \in DOMAIN r.evals |-> IF t \in U THEN "none" ELSE r.evals[t]]
  <2>1. e \in [TestcasesOf(ds) -> EvaluationState]
        /\ \A t \in TestcasesOf(ds) : e[t] \in {"none", r.evals[t]}
    BY RowFields DEF EvaluationState
  <2> HIDE DEF e
  <2>2. InvalidateEvaluation(r, seen, U) =
          [r EXCEPT !.score = NoScore, !.evaluated = FALSE, !.evaluationTries = 0, !.evals = e]
    BY DEF InvalidateEvaluation, InvalidateScore, e
  <2> QED
    BY <1>1, <2>1, <2>2 DEF IsRow
<1>3. InvalidateCompilation(r, seen) =
        [InvalidateEvaluation(r, seen, TestcasesOf(ds)) EXCEPT
           !.compilation = "none", !.compilationTries = 0, !.tombstone = FALSE]
  BY DEF InvalidateCompilation
<1> DEFINE x == InvalidateEvaluation(r, seen, TestcasesOf(ds))
           y == InvalidateCompilation(r, seen)
<1>4. IsRow(x) /\ ~x.evaluated /\ x.score = NoScore /\ x.evaluationTries = 0
      /\ \A t \in TestcasesOf(ds) : x.evals[t] \in {"none", r.evals[t]}
  BY <1>2
<1>5. y = [x EXCEPT !.compilation = "none", !.compilationTries = 0, !.tombstone = FALSE]
  BY <1>3
<1> HIDE DEF x, y
<1>6. IsRow(y) /\ ~y.evaluated /\ y.score = NoScore /\ y.evaluationTries = 0
      /\ y.compilationTries = 0 /\ y.compilation = "none"
      /\ \A t \in TestcasesOf(ds) : y.evals[t] \in {"none", r.evals[t]}
  BY <1>1, <1>4, <1>5 DEF IsRow
<1> QED
  BY <1>2, <1>6 DEF y

\* A row that a result blanks, whose compilation is all it needs.
LEMMA BlankedRow ==
  ASSUME NEW r, IsRow(r), NEW b, b = InvalidateCompilation(r, r.score)
  PROVE  /\ IsRow(b) /\ ~b.evaluated /\ b.score = NoScore /\ b.evaluationTries = 0
         /\ b.compilationTries = 0 /\ b.compilation = "none"
         /\ b.evals = [t \in TestcasesOf(ds) |-> "none"]
         /\ Operations(b) \subseteq {Compile}
<1> DEFINE x == InvalidateEvaluation(r, r.score, TestcasesOf(ds))
           e == [t \in TestcasesOf(ds) |-> "none"]
<1>1. IsRow(b) /\ ~b.evaluated /\ b.score = NoScore /\ b.evaluationTries = 0 /\ IsRow(x)
  BY InvalidatedRow
<1>2. x.evals = e
  <2>1. DOMAIN r.evals = TestcasesOf(ds)
    BY RowFields
  <2>2. [t \in DOMAIN r.evals |-> IF t \in TestcasesOf(ds) THEN "none" ELSE r.evals[t]] = e
    BY <2>1
  <2>3. x = [InvalidateScore(r, r.score) EXCEPT !.evaluated = FALSE, !.evaluationTries = 0,
                                                !.evals = e]
    BY <2>2 DEF InvalidateEvaluation
  <2> HIDE DEF e, x
  <2> QED
    BY <2>3 DEF InvalidateScore, IsRow
<1>3. b = [x EXCEPT !.compilation = "none", !.compilationTries = 0, !.tombstone = FALSE]
  BY DEF InvalidateCompilation
<1>4. b.evals = e /\ b.compilationTries = 0 /\ b.compilation = "none"
  <2> HIDE DEF e, x
  <2> QED
    BY <1>1, <1>2, <1>3 DEF IsRow
<1>5. Operations(b) \subseteq {Compile}
  <2>1. ~ToEvaluate(b)
    BY <1>4 DEF ToEvaluate
  <2> QED
    BY <2>1 DEF Operations
<1> QED
  BY <1>1, <1>4, <1>5

\* What a compilation that ended makes of the row.
LEMMA CompiledRow ==
  ASSUME IsRow(row), WriteCompilation(TRUE)
  PROVE  /\ IsRow(row') /\ ~row'.evaluated /\ row'.score = NoScore
         /\ row'.compilationTries = 0 /\ row'.evaluationTries = 0
         /\ row'.compilation = IF ds.compiles THEN "ok" ELSE "fail"
         /\ row'.evals = [t \in TestcasesOf(ds) |-> "none"]
<1> DEFINE b == InvalidateCompilation(row, row.score)
           c == IF ds.compiles THEN "ok" ELSE "fail"
           e == [t \in TestcasesOf(ds) |-> "none"]
<1>1. row' = [b EXCEPT !.compilation = c]
  BY DEF WriteCompilation
<1>2. /\ IsRow(b) /\ ~b.evaluated /\ b.score = NoScore /\ b.evaluationTries = 0
      /\ b.compilationTries = 0 /\ b.evals = e
  BY BlankedRow
<1>3. c \in {"none", "ok", "fail"}
  OBVIOUS
<1> HIDE DEF b, c, e
<1>4. IsRow(row')
  BY <1>1, <1>2, <1>3, RowAgain
<1>5. /\ ~row'.evaluated /\ row'.score = NoScore /\ row'.evaluationTries = 0
      /\ row'.compilationTries = 0 /\ row'.evals = e /\ row'.compilation = c
  BY <1>1, <1>2 DEF IsRow
<1> QED
  BY <1>4, <1>5 DEF c, e

\* What a result that reports the tombstone makes of the row.
LEMMA TombstoneRow ==
  ASSUME TypeOK, DatasetOK, NEW batch, NEW late, NEW failed,
         WriteTombstone(batch, late, failed)
  PROVE  /\ IsRow(row') /\ ~row'.evaluated /\ row'.score = NoScore
         /\ row'.compilationTries = 0 /\ row'.evaluationTries = Cardinality(failed)
         /\ Cardinality(failed) \in Nat /\ faults' = faults + Cardinality(failed)
         /\ faults' <= MaxFaults /\ row'.compilation = "none"
         /\ \A t \in TestcasesOf(ds) : row'.evals[t] \in {"none", "graded"}
         /\ todo' \subseteq todo \cup {Compile}
<1> DEFINE n == Cardinality(failed)
           b == InvalidateCompilation(row, row.score)
           e == [t \in DOMAIN b.evals |->
                   IF t \in late \ failed THEN "graded" ELSE b.evals[t]]
<1>0. n \in Nat
  <2>1. failed \subseteq TestcasesOf(ds)
    BY DEF TypeOK, WriteTombstone
  <2> QED
    BY <2>1, FS_Subset, FS_CardinalityType DEF DatasetOK, IsDataset
<1>1. /\ row' = [b EXCEPT !.evals = e, !.evaluationTries = n]
      /\ faults' = faults + n /\ faults' <= MaxFaults
      /\ todo' = (todo \ batch) \cup Operations(b)
  BY DEF WriteTombstone, Fault
<1>2. /\ IsRow(b) /\ ~b.evaluated /\ b.score = NoScore /\ b.compilation = "none"
      /\ b.compilationTries = 0 /\ b.evals = [t \in TestcasesOf(ds) |-> "none"]
      /\ Operations(b) \subseteq {Compile}
  BY BlankedRow DEF TypeOK
<1>3. /\ e \in [TestcasesOf(ds) -> EvaluationState]
      /\ \A t \in TestcasesOf(ds) : e[t] \in {"none", "graded"}
  <2> HIDE DEF b
  <2> QED
    BY <1>2 DEF EvaluationState
<1>4. n \in 0 .. MaxFaults
  <2> HIDE DEF n
  <2>1. faults \in 0 .. MaxFaults
    BY DEF TypeOK
  <2> QED
    BY <1>0, <1>1, <2>1
<1> HIDE DEF b, e, n
<1>5. IsRow(row')
  BY <1>1, <1>2, <1>3, <1>4 DEF IsRow
<1>6. /\ ~row'.evaluated /\ row'.score = NoScore /\ row'.evaluationTries = n
      /\ row'.compilationTries = 0 /\ row'.evals = e /\ row'.compilation = "none"
  BY <1>1, <1>2 DEF IsRow
<1> QED
  BY <1>0, <1>1, <1>2, <1>3, <1>5, <1>6 DEF n

\* What an invalidation flushes.
LEMMA FlushedRow ==
  ASSUME IsRow(row), InvalidateFlush
  PROVE  /\ row' = row /\ scorer' = scorer /\ todo' = todo
         /\ IsRow(session') /\ ~session'.evaluated /\ session'.score = NoScore
         /\ session'.evaluationTries = 0
         /\ session'.compilationTries \in {0, row.compilationTries}
         /\ session'.compilation \in {"none", row.compilation}
         /\ \A t \in TestcasesOf(ds) : session'.evals[t] \in {"none", row.evals[t]}
<1> DEFINE x == InvalidateCompilation(row, section.seen)
           y == InvalidateEvaluation(row, section.seen, section.testcases)
<1>1. /\ row' = row /\ scorer' = scorer /\ todo' = todo
      /\ session' = x \/ session' = y
  BY DEF InvalidateFlush
<1>2. IsRow(x) /\ IsRow(y)
  BY InvalidatedRow
<1>3. \A z \in {y, x} : /\ ~z.evaluated /\ z.score = NoScore /\ z.evaluationTries = 0
                        /\ z.compilationTries \in {0, row.compilationTries}
                        /\ z.compilation \in {"none", row.compilation}
                        /\ \A t \in TestcasesOf(ds) : z.evals[t] \in {"none", row.evals[t]}
  BY InvalidatedRow
<1> HIDE DEF x, y
<1> QED
  BY <1>1, <1>2, <1>3
-----------------------------------------------------------------------------
(* Steps *)

\* What a section sees is a row.
LEMMA ViewIsRow ==
  ASSUME TypeOK
  PROVE  IsRow(View)
  BY DEF TypeOK, View

\* The steps, by what they do to the row and to what is flushed of it.
Advances ==
    /\ session' = NoRow
    /\ \E e \in {WithScreeningSkips(ds, View.evals), WithDependencySkips(ds, View.evals)} :
          row' = [View EXCEPT !.evals = e]

LEMMA RowCases ==
  ASSUME [Next]_vars
  PROVE  /\ ds' = ds
         /\ \/ UNCHANGED <<row, session>>
            \/ session' = NoRow /\ row' = row /\ section' = Idle
            \/ row' = View /\ session' = NoRow /\ section' = Idle /\ scorer' = scorer
            \/ Advances /\ UNCHANGED <<todo, scorer, faults>>
            \/ \E success \in BOOLEAN : WriteCompilation(success)
            \/ \E batch \in SUBSET (todo \ {Compile}) : \E failed, other \in SUBSET batch :
                  \/ WriteEvaluations(batch, failed, other)
                  \/ WriteTombstone(batch, other, failed)
            \/ CleanFiles \/ SetOutcome \/ FinalizeCompleteResult \/ InvalidateFlush
            \/ ScoreCommit \/ RescoreBlank
<1> DEFINE Goal ==
            \/ UNCHANGED <<row, session>>
            \/ session' = NoRow /\ row' = row /\ section' = Idle
            \/ row' = View /\ session' = NoRow /\ section' = Idle /\ scorer' = scorer
            \/ Advances /\ UNCHANGED <<todo, scorer, faults>>
            \/ \E success \in BOOLEAN : WriteCompilation(success)
            \/ \E batch \in SUBSET (todo \ {Compile}) : \E failed, other \in SUBSET batch :
                  \/ WriteEvaluations(batch, failed, other)
                  \/ WriteTombstone(batch, other, failed)
            \/ CleanFiles \/ SetOutcome \/ FinalizeCompleteResult \/ InvalidateFlush
            \/ ScoreCommit \/ RescoreBlank
<1>1. ASSUME \/ UNCHANGED vars \/ CompilationEnded \/ EvaluationEnded \/ EnqueueNothing
             \/ MissingOperations \/ Invalidate
             \/ \E batch \in SUBSET todo : DropBatch(batch)
      PROVE  ds' = ds /\ UNCHANGED <<row, session>>
  BY <1>1 DEF vars, CompilationEnded, EvaluationEnded, EnqueueNothing, MissingOperations,
     Invalidate, InvalidateLoad, DropBatch
<1>2. ASSUME ScoreBegin \/ ScoreRead \/ MissingScores \/ ChangeParameters \/ RescoreLoad \/ StopSS
      PROVE  ds' = ds /\ UNCHANGED <<row, session>>
  BY <1>2 DEF ScoreBegin, ScoreRead, MissingScores, ChangeParameters, RescoreLoad, StopSS,
     esVars
<1>3. ASSUME StopES \/ CutSection \/ CutCommit
      PROVE  ds' = ds /\ session' = NoRow /\ row' = row /\ section' = Idle
  BY <1>3 DEF StopES, CutSection, CutCommit
<1>4. ASSUME EnqueueOperations \/ ReleaseWithoutGates \/ NothingToFinalize
      PROVE  ds' = ds /\ row' = View /\ session' = NoRow /\ section' = Idle /\ scorer' = scorer
  BY <1>4 DEF EnqueueOperations, ReleaseWithoutGates, NothingToFinalize, EndSection, Commit
<1>5. ASSUME AdvanceTwoPhase \/ AdvanceDependencies
      PROVE  ds' = ds /\ Goal
  BY <1>5 DEF AdvanceTwoPhase, AdvanceDependencies, Advances, Commit
<1>6. ASSUME Write \/ CleanFiles \/ SetOutcome \/ FinalizeCompleteResult \/ InvalidateFlush
      PROVE  ds' = ds /\ Goal
  <2>1. \A batch, failed, other :
           WriteEvaluations(batch, failed, other) \/ WriteTombstone(batch, other, failed)
              => ds' = ds
    BY DEF WriteEvaluations, WriteTombstone
  <2>2. ds' = ds
    BY <1>6, <2>1 DEF Write, WriteCompilation, CleanFiles, SetOutcome,
       FinalizeCompleteResult, InvalidateFlush
  <2> QED
    BY <1>6, <2>2 DEF Write
<1>7. ASSUME ScoreCommit \/ RescoreBlank
      PROVE  ds' = ds /\ Goal
  BY <1>7 DEF ScoreCommit, RescoreBlank
<1> QED
  BY <1>1, <1>2, <1>3, <1>4, <1>5, <1>6, <1>7 DEF Next, Section, Score

\* The dataset stays as good as it was.
LEMMA DatasetStep ==
  ASSUME DatasetOK, [Next]_vars
  PROVE  DatasetOK'
<1>1. ds' = ds
  BY RowCases
<1> QED
  BY <1>1 DEF DatasetOK, TestcasesOf

\* Faults are counted.
LEMMA FaultsStep ==
  ASSUME TypeOK, DatasetOK, [Next]_vars
  PROVE  faults' \in 0 .. MaxFaults /\ faults <= faults'
<1>0. faults \in 0 .. MaxFaults
  BY DEF TypeOK
<1>1. CASE UNCHANGED faults \/ Fault(1)
  BY <1>0, <1>1 DEF Fault
<1>2. ASSUME NEW batch \in SUBSET (todo \ {Compile}),
             NEW failed \in SUBSET batch, NEW other \in SUBSET batch,
             WriteEvaluations(batch, failed, other) \/ WriteTombstone(batch, other, failed)
      PROVE  faults' \in 0 .. MaxFaults /\ faults <= faults'
  <2>1. failed \subseteq TestcasesOf(ds) /\ other \subseteq TestcasesOf(ds)
    BY DEF TypeOK
  <2>2. Cardinality(failed) \in Nat /\ Cardinality(other) \in Nat
    BY <2>1, FS_Subset, FS_CardinalityType DEF DatasetOK, IsDataset
  <2>3. PICK n \in Nat : faults' = faults + n /\ faults + n <= MaxFaults
    BY <1>2, <2>2 DEF WriteEvaluations, WriteTombstone, Fault
  <2> QED
    BY <1>0, <2>3
<1> QED
  <2>1. ASSUME Section \/ MissingOperations \/ UNCHANGED vars
        PROVE  UNCHANGED faults
    BY <2>1 DEF Section, AdvanceTwoPhase, AdvanceDependencies, SetOutcome, CompilationEnded,
       EvaluationEnded, EnqueueOperations, EnqueueNothing, FinalizeCompleteResult,
       ReleaseWithoutGates, NothingToFinalize, InvalidateFlush, MissingOperations, vars
  <2>2. ASSUME Score \/ MissingScores \/ RescoreBlank \/ ChangeParameters \/ RescoreLoad
        PROVE  UNCHANGED faults
    BY <2>2 DEF Score, ScoreBegin, ScoreRead, ScoreCommit, MissingScores, RescoreBlank,
       ChangeParameters, RescoreLoad
  <2>3. ASSUME \/ StopSS \/ StopES \/ CutSection \/ CutCommit \/ CleanFiles \/ Invalidate
               \/ \E batch \in SUBSET todo : DropBatch(batch)
        PROVE  Fault(1)
    BY <2>3 DEF StopSS, StopES, CutSection, CutCommit, CleanFiles, Invalidate,
       InvalidateLoad, DropBatch
  <2>4. \A success \in BOOLEAN : WriteCompilation(success) => UNCHANGED faults \/ Fault(1)
    BY DEF WriteCompilation
  <2> QED
    BY <1>1, <1>2, <2>1, <2>2, <2>3, <2>4 DEF Next, Write

\* A section goes from one of its places to the next.
LEMMA SectionStep ==
  ASSUME SectionOK, [Next]_vars
  PROVE  SectionOK'
<1>1. CASE UNCHANGED section
  BY <1>1 DEF SectionOK
<1>2. CASE section' \in [pc : {"idle", "compilationEnded", "enqueue", "finalize"}]
  BY <1>2 DEF SectionOK
<1>3. CASE section' \in [pc : {"screening"}, next : {"outcome", "finalize"}]
  BY <1>3 DEF SectionOK
<1>4. CASE section'.pc = "loaded"
  BY <1>4 DEF SectionOK
<1>5. CASE AdvanceTwoPhase
  <2>1. section \in [pc : {"screening"}, next : {"outcome", "finalize"}]
    BY <1>5 DEF AdvanceTwoPhase, At, SectionOK
  <2>2. section' \in [pc : {"dependencies"}, next : {"outcome", "finalize"}]
    BY <1>5, <2>1 DEF AdvanceTwoPhase, Goto
  <2> QED
    BY <2>2 DEF SectionOK
<1>6. CASE AdvanceDependencies
  <2>1. section \in [pc : {"dependencies"}, next : {"outcome", "finalize"}]
    BY <1>6 DEF AdvanceDependencies, At, SectionOK
  <2>2. section' = [section EXCEPT !.pc = section.next]
    BY <1>6 DEF AdvanceDependencies, Goto
  <2>3. \/ section' \in [pc : {"outcome"}, next : {"outcome"}]
        \/ section' \in [pc : {"finalize"}, next : {"finalize"}]
    BY <2>1, <2>2
  <2> QED
    BY <2>3 DEF SectionOK
<1>7. CASE SetOutcome
  <2>1. section \in [pc : {"outcome"}, next : {"outcome"}]
    BY <1>7 DEF SetOutcome, At, SectionOK
  <2>2. section' \in [pc : {"evaluationEnded"}, next : {"outcome"}]
    BY <1>7, <2>1 DEF SetOutcome, Goto
  <2> QED
    BY <2>2 DEF SectionOK
<1> DEFINE Plain == section' \in [pc : {"idle", "compilationEnded", "enqueue", "finalize"}]
<1>8. ASSUME CompilationEnded \/ EvaluationEnded \/ EnqueueOperations
             \/ FinalizeCompleteResult \/ ReleaseWithoutGates \/ NothingToFinalize
             \/ InvalidateFlush \/ StopES \/ CutSection \/ CutCommit
      PROVE  Plain
  BY <1>8 DEF CompilationEnded, EvaluationEnded, EnqueueOperations,
     FinalizeCompleteResult, ReleaseWithoutGates, NothingToFinalize, InvalidateFlush,
     StopES, CutSection, CutCommit, EndSection, Idle
<1>9. ASSUME NEW success \in BOOLEAN, WriteCompilation(success)
      PROVE  Plain
  BY <1>9 DEF WriteCompilation
<1>10. ASSUME \/ EnqueueNothing
              \/ \E batch \in SUBSET (todo \ {Compile}) : \E failed, other \in SUBSET batch :
                   WriteEvaluations(batch, failed, other) \/ WriteTombstone(batch, other, failed)
       PROVE  section' \in [pc : {"screening"}, next : {"outcome", "finalize"}]
  <2>1. CASE EnqueueNothing
    BY <2>1 DEF EnqueueNothing
  <2>2. ASSUME NEW batch, NEW failed, NEW other,
               WriteEvaluations(batch, failed, other) \/ WriteTombstone(batch, other, failed)
        PROVE  section' \in [pc : {"screening"}, next : {"outcome", "finalize"}]
    <3>1. section' = [pc |-> "screening", next |-> "outcome"]
      BY <2>2 DEF WriteEvaluations, WriteTombstone
    <3> QED
      BY <3>1
  <2> QED
    BY <1>10, <2>1, <2>2
<1>11. ASSUME MissingOperations
       PROVE  Plain \/ UNCHANGED section
  BY <1>11 DEF MissingOperations
<1>12. ASSUME Invalidate
       PROVE  section'.pc = "loaded"
  BY <1>12 DEF Invalidate, InvalidateLoad
<1>13. ASSUME \/ Score \/ MissingScores \/ RescoreBlank \/ ChangeParameters
              \/ RescoreLoad \/ StopSS \/ UNCHANGED vars \/ CleanFiles
              \/ \E batch \in SUBSET todo : DropBatch(batch)
       PROVE  UNCHANGED section
  BY <1>13 DEF Score, ScoreBegin, ScoreRead, ScoreCommit, MissingScores, RescoreBlank,
     ChangeParameters, RescoreLoad, StopSS, vars, esVars, DropBatch, CleanFiles
<1> QED
  BY <1>1, <1>2, <1>3, <1>4, <1>5, <1>6, <1>7, <1>8, <1>9, <1>10, <1>11, <1>12, <1>13
     DEF Next, Section, Write

\* The scorer holds a score only between its read and its commit.
LEMMA ScorerStep ==
  ASSUME TypeOK, ScorerOK, [Next]_vars
  PROVE  ScorerOK'
<1>0. ds' = ds /\ revision \in 0 .. MaxRevisions /\ revision' \in 0 .. MaxRevisions
      /\ revision <= revision'
  <2>1. ds' = ds
    BY RowCases
  <2>2. UNCHANGED revision \/ ChangeParameters
    <3>1. ASSUME Section
          PROVE  UNCHANGED revision
      BY <3>1 DEF Section, AdvanceTwoPhase, AdvanceDependencies, SetOutcome,
         CompilationEnded, EvaluationEnded, EnqueueOperations, EnqueueNothing,
         FinalizeCompleteResult, ReleaseWithoutGates, NothingToFinalize, InvalidateFlush
    <3>2. \A success : WriteCompilation(success) => UNCHANGED revision
      BY DEF WriteCompilation
    <3>3. \A batch, failed, other :
             WriteEvaluations(batch, failed, other) \/ WriteTombstone(batch, other, failed)
             => UNCHANGED revision
      BY DEF WriteEvaluations, WriteTombstone
    <3>4. Write => UNCHANGED revision
      BY <3>2, <3>3 DEF Write
    <3>5. Invalidate \/ MissingOperations => UNCHANGED revision
      BY DEF Invalidate, InvalidateLoad, MissingOperations
    <3>6. \A batch : DropBatch(batch) => UNCHANGED revision
      BY DEF DropBatch
    <3>7. StopES \/ CutSection \/ CutCommit \/ CleanFiles => UNCHANGED revision
      BY DEF StopES, CutSection, CutCommit, CleanFiles
    <3>8. Score \/ MissingScores \/ RescoreBlank \/ RescoreLoad \/ StopSS
          => UNCHANGED revision
      BY DEF Score, ScoreBegin, ScoreRead, ScoreCommit, MissingScores, RescoreBlank,
         RescoreLoad, StopSS
    <3>9. UNCHANGED vars => UNCHANGED revision
      BY DEF vars
    <3> QED
      BY <3>1, <3>4, <3>5, <3>6, <3>7, <3>8, <3>9 DEF Next
  <2> QED
    BY <2>1, <2>2 DEF TypeOK, ChangeParameters
<1>1. CASE UNCHANGED scorer
  <2>1. \A s : IsScore(s)' <=> IsScore(s)
    BY <1>0 DEF IsScore, TestcasesOf, Subtasks
  <2> QED
    BY <1>0, <1>1, <2>1 DEF ScorerOK, Idle
<1>2. CASE scorer' = Idle
  BY <1>2 DEF ScorerOK
<1>3. CASE ScoreBegin
  BY <1>0, <1>3 DEF ScorerOK, ScoreBegin
<1>4. CASE ScoreRead
  <2>1. CASE scorer' = Idle
    BY <2>1, <1>2
  <2>2. CASE scorer' = [pc |-> "locked", score |-> <<ComputeScore(row), scorer.revision>>]
    <3>1. scorer.revision \in 0 .. MaxRevisions
      BY <1>4, <1>0 DEF ScoreRead, MayRead, ScorerOK, Idle
    <3> DEFINE s == <<ComputeScore(row), scorer.revision>>
    <3>2. IsScore(s) /\ s # NoScore
      BY <3>1, ScoreIsScore DEF TypeOK
    <3> HIDE DEF s
    <3>3. scorer' = [pc |-> "locked", score |-> s]
      BY <2>2 DEF s
    <3>4. scorer'.score = s /\ scorer' = [pc |-> "locked", score |-> scorer'.score]
      BY <3>3
    <3>5. IsScore(scorer.score)'
      BY <3>2, <3>4, <1>0 DEF IsScore, TestcasesOf, Subtasks
    <3> QED
      BY <3>2, <3>4, <3>5 DEF ScorerOK
  <2> QED
    BY <2>1, <2>2, <1>4 DEF ScoreRead
<1>5. ASSUME ScoreCommit \/ StopSS
      PROVE  scorer' = Idle
  BY <1>5 DEF ScoreCommit, StopSS
<1>6. ASSUME Section \/ MissingOperations \/ UNCHANGED vars \/ Write
             \/ \E batch \in SUBSET todo : DropBatch(batch)
      PROVE  UNCHANGED scorer
  BY <1>6 DEF Section, AdvanceTwoPhase, AdvanceDependencies, SetOutcome, CompilationEnded,
     EvaluationEnded, EnqueueOperations, EnqueueNothing, FinalizeCompleteResult,
     ReleaseWithoutGates, NothingToFinalize, InvalidateFlush, MissingOperations, vars,
     Write, WriteCompilation, WriteEvaluations, WriteTombstone, DropBatch
<1>7. ASSUME \/ MissingScores \/ RescoreBlank \/ ChangeParameters \/ RescoreLoad
             \/ StopES \/ CutSection \/ CutCommit \/ CleanFiles \/ Invalidate
      PROVE  UNCHANGED scorer
  BY <1>7 DEF MissingScores, RescoreBlank, ChangeParameters, RescoreLoad, ssVars,
     StopES, CutSection, CutCommit, CleanFiles, Invalidate, InvalidateLoad
<1> QED
  BY <1>1, <1>2, <1>3, <1>4, <1>5, <1>6, <1>7 DEF Next, Score

\* What is stored and what is flushed stay rows, with no more tries than faults.
LEMMA RowStep ==
  ASSUME TypeOK, DatasetOK, ScorerOK, TriesOK(row), session # NoRow => TriesOK(session),
         [Next]_vars
  PROVE  /\ IsRow(row)' /\ TriesOK(row)'
         /\ (session = NoRow \/ (IsRow(session) /\ TriesOK(session)))'
<1> DEFINE Tried(r) == r.compilationTries <= faults' /\ r.evaluationTries <= faults'
           Row == IsRow(row') /\ Tried(row')
           Session == session' = NoRow \/ (IsRow(session') /\ Tried(session'))
<1>1. ds' = ds /\ faults \in 0 .. MaxFaults /\ faults' \in 0 .. MaxFaults /\ faults <= faults'
      /\ MaxFaults \in Nat
  BY RowCases, FaultsStep DEF TypeOK
<1>2. ASSUME NEW r, IsRow(r), TriesOK(r)
      PROVE  Tried(r)
  BY <1>1, <1>2, RowFields DEF TriesOK
<1>3. IsRow(row) /\ Tried(row) /\ (session = NoRow \/ (IsRow(session) /\ Tried(session)))
      /\ IsRow(View) /\ Tried(View)
  BY <1>2, ViewIsRow DEF TypeOK, View
<1> SUFFICES Row /\ Session
  BY <1>1, RowsStay DEF TriesOK
<1>4. CASE UNCHANGED <<row, session>>
  BY <1>3, <1>4
<1>5. CASE session' = NoRow /\ row' \in {row, View}
  BY <1>3, <1>5
<1>6. CASE Advances
  <2>1. PICK e : row' = [View EXCEPT !.evals = e]
                 /\ e \in [TestcasesOf(ds) -> EvaluationState] /\ session' = NoRow
    BY <1>3, <1>6, SkipsFill, RowFields DEF Advances, Fills
  <2> DEFINE v == View
  <2>2. IsRow(v) /\ Tried(v) /\ row' = [v EXCEPT !.evals = e]
    BY <1>3, <2>1
  <2> HIDE DEF v
  <2>3. IsRow(row')
    BY <2>1, <2>2 DEF IsRow
  <2>4. Tried(row')
    BY <2>2 DEF IsRow
  <2> QED
    BY <2>1, <2>3, <2>4
<1>7. ASSUME NEW success \in BOOLEAN, WriteCompilation(success)
      PROVE  Row /\ Session
  <2>1. session' = session
    BY <1>7 DEF WriteCompilation
  <2>2. CASE success
    <3>1. success = TRUE
      BY <2>2
    <3>2. IsRow(row') /\ row'.compilationTries = 0 /\ row'.evaluationTries = 0
      BY <1>3, <1>7, <3>1, CompiledRow
    <3> QED
      BY <1>1, <1>3, <2>1, <3>2
  <2>3. CASE ~success
    <3>1. row' = [row EXCEPT !.compilationTries = row.compilationTries + 1]
          /\ faults' = faults + 1
      BY <1>7, <2>3 DEF WriteCompilation, Fault
    <3>2. row.compilationTries \in Nat /\ row.compilationTries <= faults
          /\ row.compilationTries + 1 \in 0 .. MaxFaults
          /\ row.compilationTries + 1 <= faults'
      BY <1>1, <1>3, <3>1, RowFields DEF TriesOK
    <3>3. IsRow(row')
      BY <1>3, <3>1, <3>2, RowAgain
    <3>4. row'.compilationTries = row.compilationTries + 1
          /\ row'.evaluationTries = row.evaluationTries
      BY <1>3, <3>1 DEF IsRow
    <3> QED
      BY <1>3, <2>1, <3>2, <3>3, <3>4
  <2> QED
    BY <2>2, <2>3
<1>8. ASSUME NEW batch \in SUBSET (todo \ {Compile}),
             NEW failed \in SUBSET batch, NEW other \in SUBSET batch,
             WriteEvaluations(batch, failed, other)
      PROVE  Row /\ Session
  <2>0. Cardinality(failed) \in Nat /\ Cardinality(other) \in Nat
    <3>1. failed \subseteq TestcasesOf(ds) /\ other \subseteq TestcasesOf(ds)
      BY DEF TypeOK
    <3> QED
      BY <3>1, FS_Subset, FS_CardinalityType DEF DatasetOK, IsDataset
  <2> DEFINE n == Cardinality(failed)
             k == Cardinality(other)
             e == [t \in DOMAIN row.evals |->
                     IF t \in batch \ (failed \cup other) /\ row.evals[t] = "none"
                     THEN "graded" ELSE row.evals[t]]
             m == row.evaluationTries + n
  <2>1. session' = session /\ faults' = faults + (n + k)
        /\ row' = [row EXCEPT !.evals = e, !.evaluationTries = m]
    BY <1>8 DEF WriteEvaluations, Fault
  <2>2. e \in [TestcasesOf(ds) -> EvaluationState]
    BY <1>3, RowFields DEF EvaluationState
  <2>3. m \in 0 .. MaxFaults /\ m <= faults'
    <3> HIDE DEF n, k
    <3>1. n \in Nat /\ k \in Nat
      BY <2>0 DEF n, k
    <3>2. row.evaluationTries \in Nat /\ row.evaluationTries <= faults
      BY <1>1, <1>3, RowFields DEF TriesOK
    <3> QED
      BY <1>1, <2>1, <3>1, <3>2
  <2> HIDE DEF e, m, n, k
  <2>4. IsRow(row')
    BY <1>3, <2>1, <2>2, <2>3 DEF IsRow
  <2>5. row'.compilationTries = row.compilationTries /\ row'.evaluationTries = m
    BY <1>3, <2>1 DEF IsRow
  <2> QED
    BY <1>3, <2>1, <2>3, <2>4, <2>5
<1>9. CASE SetOutcome \/ FinalizeCompleteResult
  <2>1. PICK r \in {row, View}, b \in BOOLEAN : row' \in {r, [r EXCEPT !.evaluated = b]}
    BY <1>9 DEF SetOutcome, FinalizeCompleteResult, Commit
  <2>2. session' \in {NoRow, session}
    BY <1>9 DEF SetOutcome, FinalizeCompleteResult, Commit
  <2>3. IsRow(r) /\ Tried(r)
    BY <1>3, <2>1
  <2>4. IsRow(row')
    BY <2>1, <2>3 DEF IsRow
  <2>5. Tried(row')
    BY <2>1, <2>3 DEF IsRow
  <2> QED
    BY <1>3, <2>2, <2>4, <2>5
<1>10. CASE InvalidateFlush
  <2>1. row' = row
    BY <1>3, <1>10, FlushedRow
  <2>2. IsRow(session') /\ session'.evaluationTries = 0
        /\ session'.compilationTries \in {0, row.compilationTries}
    BY <1>3, <1>10, FlushedRow
  <2>3. Tried(session')
    BY <1>1, <1>3, <2>2, RowFields
  <2> QED
    BY <1>3, <2>1, <2>2, <2>3
<1>11. CASE ScoreCommit \/ RescoreBlank
  <2>1. PICK s : row' = [row EXCEPT !.score = s] /\ IsScore(s)
    BY <1>11 DEF ScoreCommit, RescoreBlank, IsScore, ScorerOK, Idle
  <2>2. session' = session
    BY <1>11 DEF ScoreCommit, RescoreBlank, esVars
  <2>3. IsRow(row')
    BY <1>3, <2>1, RowAgain
  <2>4. Tried(row')
    BY <1>3, <2>1 DEF IsRow
  <2> QED
    BY <1>3, <2>2, <2>3, <2>4
<1>12. ASSUME NEW batch, NEW late, NEW failed, WriteTombstone(batch, late, failed)
       PROVE  Row /\ Session
  <2> DEFINE n == Cardinality(failed)
  <2>1. /\ IsRow(row') /\ row'.compilationTries = 0 /\ row'.evaluationTries = n
        /\ n \in Nat /\ faults' = faults + n
    BY <1>12, TombstoneRow
  <2>2. session' = session
    BY <1>12 DEF WriteTombstone
  <2> HIDE DEF n
  <2>3. Tried(row')
    BY <1>1, <2>1
  <2> QED
    BY <1>3, <2>1, <2>2, <2>3
<1>13. CASE CleanFiles
  <2>1. row' = [row EXCEPT !.tombstone = TRUE] /\ session' = session
    BY <1>13 DEF CleanFiles
  <2>2. IsRow(row')
    BY <1>3, <2>1 DEF IsRow
  <2>3. Tried(row')
    BY <1>3, <2>1 DEF IsRow
  <2> QED
    BY <1>3, <2>1, <2>2, <2>3
<1> QED
  <2> HIDE DEF Row, Session
  <2> QED
    BY RowCases, <1>4, <1>5, <1>6, <1>7, <1>8, <1>9, <1>10, <1>11, <1>12, <1>13

\* What goes to the workers: what the row as the section sees it still needs, and
\* the compilation that a tombstone asks for.
LEMMA TodoCases ==
  ASSUME TypeOK, DatasetOK, SessionOK, [Next]_vars
  PROVE  \/ todo' \subseteq todo /\ released' = released
         \/ ToCompile(View) /\ todo' = todo \cup {Compile} /\ released' = released
         \/ ToEvaluate(View) /\ released' = released
            /\ todo' = todo \cup ReleasedTestcases(ds, View.evals)
         \/ ToEvaluate(View) /\ (released' = TRUE \/ (~HasGates /\ released' = released))
            /\ todo' = todo \cup Unevaluated(ds, View.evals)
         \/ row.tombstone /\ todo' \subseteq todo \cup {Compile} /\ released' = released
<1> DEFINE Goal ==
         \/ todo' \subseteq todo /\ released' = released
         \/ ToCompile(View) /\ todo' = todo \cup {Compile} /\ released' = released
         \/ ToEvaluate(View) /\ released' = released
            /\ todo' = todo \cup ReleasedTestcases(ds, View.evals)
         \/ ToEvaluate(View) /\ (released' = TRUE \/ (~HasGates /\ released' = released))
            /\ todo' = todo \cup Unevaluated(ds, View.evals)
         \/ row.tombstone /\ todo' \subseteq todo \cup {Compile} /\ released' = released
<1> SUFFICES Goal
  OBVIOUS
<1>1. CASE EnqueueOperations
  <2>1. Operations(View) # {} /\ todo' = todo \cup Operations(View) /\ released' = released
    BY <1>1 DEF EnqueueOperations
  <2>2. CASE ToCompile(View)
    BY <2>1, <2>2 DEF Operations
  <2>3. CASE ~ToCompile(View) /\ ToEvaluate(View)
    BY <2>1, <2>3 DEF Operations
  <2>4. CASE ~ToCompile(View) /\ ~ToEvaluate(View)
    BY <2>1, <2>4 DEF Operations
  <2> QED
    BY <2>2, <2>3, <2>4
<1>2. CASE ReleaseWithoutGates
  BY <1>2 DEF ReleaseWithoutGates
<1>3. CASE MissingOperations
  <2>1. View = row /\ released' = released
    BY <1>3 DEF MissingOperations, View, SessionOK, At
  <2>2. CASE HasGates
    BY <1>3, <2>1, <2>2 DEF MissingOperations
  <2>3. CASE ~HasGates
    <3>1. todo' = todo \cup PlainOperations(row) /\ (ToCompile(row) \/ ToEvaluate(row))
      BY <1>3, <2>3 DEF MissingOperations
    <3>2. CASE ToCompile(row)
      <4>1. PlainOperations(row) = {Compile}
        BY <3>2 DEF PlainOperations, ToCompile, ToEvaluate
      <4> QED
        BY <2>1, <3>1, <3>2, <4>1
    <3>3. CASE ~ToCompile(row) /\ ToEvaluate(row)
      <4>1. PlainOperations(row) = Unevaluated(ds, row.evals)
        BY <3>3 DEF PlainOperations
      <4> QED
        BY <2>1, <2>3, <3>1, <3>3, <4>1
    <3> QED
      BY <3>1, <3>2, <3>3
  <2> QED
    BY <2>2, <2>3
<1>4. ASSUME \/ AdvanceTwoPhase \/ AdvanceDependencies \/ SetOutcome \/ CompilationEnded
             \/ EvaluationEnded \/ EnqueueNothing \/ FinalizeCompleteResult
             \/ NothingToFinalize \/ InvalidateFlush
      PROVE  todo' \subseteq todo /\ released' = released
  BY <1>4 DEF AdvanceTwoPhase, AdvanceDependencies, SetOutcome, CompilationEnded,
     EvaluationEnded, EnqueueNothing, FinalizeCompleteResult, NothingToFinalize,
     InvalidateFlush
<1>5. ASSUME \/ Invalidate \/ StopES \/ CutSection \/ CleanFiles \/ UNCHANGED vars
             \/ \E success \in BOOLEAN : WriteCompilation(success)
      PROVE  todo' \subseteq todo /\ released' = released
  BY <1>5 DEF WriteCompilation, Invalidate, InvalidateLoad, StopES, CutSection, CleanFiles,
     vars
<1>6. ASSUME \/ Score \/ MissingScores \/ RescoreBlank \/ ChangeParameters \/ RescoreLoad
             \/ StopSS
      PROVE  todo' \subseteq todo /\ released' = released
  BY <1>6 DEF Score, ScoreBegin, ScoreRead, ScoreCommit, MissingScores, RescoreBlank,
     ChangeParameters, RescoreLoad, StopSS, esVars
<1>7. (todo' \subseteq todo /\ released' = released) => Goal
  OBVIOUS
<1>8. ASSUME NEW batch, NEW failed, NEW other,
             WriteEvaluations(batch, failed, other) \/ WriteTombstone(batch, other, failed)
      PROVE  Goal
  <2>1. CASE WriteEvaluations(batch, failed, other)
    BY <2>1 DEF WriteEvaluations
  <2>2. CASE WriteTombstone(batch, other, failed)
    <3>1. todo' \subseteq todo \cup {Compile}
      BY <2>2, TombstoneRow
    <3>2. row.tombstone /\ released' = released
      BY <2>2 DEF WriteTombstone
    <3> QED
      BY <3>1, <3>2
  <2> QED
    BY <1>8, <2>1, <2>2
<1>9. ASSUME NEW batch, DropBatch(batch)
      PROVE  Goal
  <2> DEFINE more == Operations(InvalidateCompilation(row, row.score))
  <2>1. more \subseteq {Compile}
    BY BlankedRow DEF TypeOK
  <2>2. /\ todo' = todo \ batch \/ (row.tombstone /\ todo' = (todo \ batch) \cup more)
        /\ released' = released
    BY <1>9 DEF DropBatch
  <2> HIDE DEF more
  <2> QED
    BY <2>1, <2>2
<1>10. CASE CutCommit
  <2>1. View = session
    BY <1>10 DEF CutCommit, View
  <2>2. CASE At("enqueue")
    <3>1. todo' = todo \cup Operations(View) /\ released' = released
      BY <1>10, <2>1, <2>2 DEF CutCommit, At
    <3>2. CASE ToCompile(View)
      BY <3>1, <3>2 DEF Operations
    <3>3. CASE ~ToCompile(View) /\ ToEvaluate(View)
      BY <3>1, <3>3 DEF Operations
    <3>4. CASE ~ToCompile(View) /\ ~ToEvaluate(View)
      BY <3>1, <3>4 DEF Operations
    <3> QED
      BY <3>2, <3>3, <3>4
  <2>3. CASE ~At("enqueue")
    BY <1>10, <2>1, <2>3 DEF CutCommit
  <2> QED
    BY <2>2, <2>3
<1> HIDE DEF Goal
<1> QED
  BY <1>1, <1>2, <1>3, <1>4, <1>5, <1>6, <1>7, <1>8, <1>9, <1>10 DEF Next, Section, Write

\* Only what was in todo when the executables became tombstones was built before.
LEMMA BuiltStep ==
  ASSUME TypeOK, [Next]_vars
  PROVE  built' \subseteq todo' \ {Compile}
<1>0. built \subseteq todo \ {Compile}
  BY DEF TypeOK
<1>1. CASE built' \subseteq built /\ todo \subseteq todo'
  BY <1>0, <1>1
<1>2. ASSUME Section \/ MissingOperations \/ CutSection \/ CutCommit \/ UNCHANGED vars
      PROVE  built' \subseteq built /\ todo \subseteq todo'
  BY <1>2 DEF Section, AdvanceTwoPhase, AdvanceDependencies, SetOutcome, CompilationEnded,
     EvaluationEnded, EnqueueOperations, EnqueueNothing, FinalizeCompleteResult,
     ReleaseWithoutGates, NothingToFinalize, InvalidateFlush, MissingOperations, CutSection,
     CutCommit, vars
<1>3. ASSUME \/ Score \/ MissingScores \/ RescoreBlank \/ ChangeParameters \/ RescoreLoad
             \/ StopSS
      PROVE  built' \subseteq built /\ todo \subseteq todo'
  BY <1>3 DEF Score, ScoreBegin, ScoreRead, ScoreCommit, MissingScores, RescoreBlank,
     ChangeParameters, RescoreLoad, StopSS, esVars
<1>4. CASE StopES \/ Invalidate \/ CleanFiles
  BY <1>4 DEF StopES, Invalidate, InvalidateLoad, CleanFiles
<1>5. ASSUME NEW batch, built' = built \ batch, todo \ batch \subseteq todo'
      PROVE  built' \subseteq todo' \ {Compile}
  BY <1>0, <1>5
<1>6. ASSUME NEW batch, NEW failed, NEW other,
             \/ WriteEvaluations(batch, failed, other) \/ WriteTombstone(batch, other, failed)
             \/ DropBatch(batch)
      PROVE  built' = built \ batch /\ todo \ batch \subseteq todo'
  BY <1>6 DEF WriteEvaluations, WriteTombstone, DropBatch
<1>7. ASSUME NEW success \in BOOLEAN, WriteCompilation(success)
      PROVE  built' \subseteq todo' \ {Compile}
  BY <1>0, <1>7 DEF WriteCompilation
<1> QED
  BY <1>1, <1>2, <1>3, <1>4, <1>5, <1>6, <1>7 DEF Next, Write

\* The types are kept.
LEMMA TypeStep ==
  ASSUME TypeOK, DatasetOK, SessionOK, IsRow(row)', (session = NoRow \/ IsRow(session))',
         faults' \in 0 .. MaxFaults, SectionOK', ScorerOK', [Next]_vars
  PROVE  TypeOK'
<1>0. ds' = ds /\ TestcasesOf(ds)' = TestcasesOf(ds)
  <2>1. ds' = ds
    BY RowCases
  <2> QED
    BY <2>1 DEF TestcasesOf
<1>1. todo' \subseteq {Compile} \cup TestcasesOf(ds)
  <2>1. todo \subseteq {Compile} \cup TestcasesOf(ds)
    BY DEF TypeOK
  <2>2. Unevaluated(ds, View.evals) \subseteq TestcasesOf(ds)
        /\ ReleasedTestcases(ds, View.evals) \subseteq TestcasesOf(ds)
    BY DEF Unevaluated, ReleasedTestcases
  <2>3. \/ todo' \subseteq todo \/ todo' = todo \cup {Compile}
        \/ todo' = todo \cup Unevaluated(ds, View.evals)
        \/ todo' = todo \cup ReleasedTestcases(ds, View.evals)
        \/ todo' \subseteq todo \cup {Compile}
    BY TodoCases
  <2> QED
    BY <2>1, <2>2, <2>3
<1>2. released' \in BOOLEAN
  <2>1. released' = released \/ released' = TRUE
    BY TodoCases
  <2> QED
    BY <2>1, Zenon DEF TypeOK
<1>3. queued' \in BOOLEAN
  <2>0. queued \in BOOLEAN
    BY DEF TypeOK
  <2>1. ASSUME \/ AdvanceTwoPhase \/ AdvanceDependencies \/ SetOutcome
               \/ EnqueueNothing \/ EnqueueOperations \/ ReleaseWithoutGates
               \/ NothingToFinalize \/ InvalidateFlush \/ MissingOperations
        PROVE  queued' = queued
    BY <2>1 DEF AdvanceTwoPhase, AdvanceDependencies, SetOutcome, EnqueueOperations,
       ReleaseWithoutGates, EnqueueNothing, NothingToFinalize, InvalidateFlush,
       MissingOperations
  <2>2. ASSUME CompilationEnded \/ EvaluationEnded \/ FinalizeCompleteResult
        PROVE  queued' = queued \/ queued' = TRUE
    BY <2>2 DEF CompilationEnded, EvaluationEnded, FinalizeCompleteResult, NotifyScoring
  <2>3. ASSUME \/ Write \/ Invalidate \/ StopES \/ CutSection \/ CutCommit \/ CleanFiles
               \/ UNCHANGED vars \/ \E batch \in SUBSET todo : DropBatch(batch)
        PROVE  queued' = queued
    BY <2>3 DEF Write, WriteCompilation, WriteEvaluations, WriteTombstone, Invalidate,
       InvalidateLoad, StopES, CutSection, CutCommit, CleanFiles, vars, DropBatch
  <2>4. ASSUME \/ Score \/ MissingScores \/ RescoreBlank \/ ChangeParameters \/ RescoreLoad
               \/ StopSS
        PROVE  queued' = queued \/ queued' = TRUE \/ queued' = FALSE
    BY <2>4 DEF Score, ScoreBegin, ScoreRead, ScoreCommit, MissingScores, RescoreBlank,
       ChangeParameters, RescoreLoad, StopSS, ssVars
  <2>5. queued' = queued \/ queued' = TRUE \/ queued' = FALSE
    BY <2>1, <2>2, <2>3, <2>4 DEF Next, Section
  <2> QED
    BY <2>0, <2>5, Zenon
<1>4. /\ rescore' \in 0 .. revision'
      /\ asked' \in 0 .. revision' /\ revision' \in 0 .. MaxRevisions
  <2>0. /\ rescore \in 0 .. revision
        /\ asked \in 0 .. revision /\ revision \in 0 .. MaxRevisions
    BY DEF TypeOK
  <2>1. ASSUME Section \/ MissingOperations
        PROVE  UNCHANGED <<rescore, asked, revision>>
    BY <2>1 DEF Section, AdvanceTwoPhase, AdvanceDependencies, SetOutcome, CompilationEnded,
       EvaluationEnded, EnqueueOperations, EnqueueNothing, FinalizeCompleteResult,
       ReleaseWithoutGates, NothingToFinalize, InvalidateFlush, MissingOperations
  <2>2. ASSUME \/ Write \/ Invalidate \/ StopES \/ CutSection \/ CutCommit \/ CleanFiles
               \/ UNCHANGED vars \/ \E batch \in SUBSET todo : DropBatch(batch)
        PROVE  UNCHANGED <<rescore, asked, revision>>
    BY <2>2 DEF Write, WriteCompilation, WriteEvaluations, WriteTombstone, Invalidate,
       InvalidateLoad, StopES, CutSection, CutCommit, CleanFiles, vars, DropBatch
  <2>3. ASSUME Score \/ MissingScores
        PROVE  UNCHANGED <<rescore, asked, revision>>
    BY <2>3 DEF Score, ScoreBegin, ScoreRead, ScoreCommit, MissingScores
  <2>4. CASE RescoreBlank \/ ChangeParameters \/ RescoreLoad \/ StopSS
    BY <2>0, <2>4 DEF RescoreBlank, ChangeParameters, RescoreLoad, StopSS, ssVars
  <2>5. CASE UNCHANGED <<rescore, asked, revision>>
    BY <2>0, <2>5
  <2> QED
    BY <2>1, <2>2, <2>3, <2>4, <2>5 DEF Next
<1>5. section'.pc \in {"idle", "screening", "dependencies", "outcome", "finalize",
                       "compilationEnded", "evaluationEnded", "enqueue", "loaded"}
  BY DEF SectionOK
<1>6. scorer'.pc \in {"idle", "begun", "locked"}
  BY DEF ScorerOK, Idle
<1> QED
  BY <1>0, <1>1, <1>2, <1>3, <1>4, <1>5, <1>6, BuiltStep, Zenon DEF TypeOK

\* An invalidation keeps the scorer out from its flush to its commit.
LEMMA SessionStep ==
  ASSUME TypeOK, SectionOK, SessionOK, [Next]_vars
  PROVE  SessionOK'
<1> DEFINE Place(s) == /\ s.pc \in {"enqueue", "screening", "dependencies", "finalize"}
                       /\ s.pc \in {"screening", "dependencies"} => s.next = "finalize"
<1> SUFFICES ASSUME session' # NoRow
             PROVE  /\ Place(section') /\ scorer'.pc # "locked"
                    /\ ~session'.evaluated /\ session'.score = NoScore
  BY DEF SessionOK, NoRow
<1>1. CASE InvalidateFlush
  <2>1. Place(section') /\ scorer'.pc # "locked"
    BY <1>1 DEF InvalidateFlush, RowIsFree
  <2>2. ~session'.evaluated /\ session'.score = NoScore
    BY <1>1, FlushedRow DEF TypeOK
  <2> QED
    BY <2>1, <2>2
<1>2. CASE ~InvalidateFlush
  <2>1. session' = session
    <3>1. \A success \in BOOLEAN : WriteCompilation(success) => session' = session
      BY DEF WriteCompilation
    <3>2. \A batch, failed, other :
             WriteEvaluations(batch, failed, other) \/ WriteTombstone(batch, other, failed)
                => session' = session
      BY DEF WriteEvaluations, WriteTombstone
    <3>3. CleanFiles \/ SetOutcome \/ ScoreCommit \/ RescoreBlank => session' = session
      BY DEF CleanFiles, SetOutcome, ScoreCommit, RescoreBlank, esVars
    <3>4. ~FinalizeCompleteResult /\ ~Advances
      BY DEF FinalizeCompleteResult, Commit, Advances
    <3> QED
      BY <1>2, RowCases, <3>1, <3>2, <3>3, <3>4
  <2>2. /\ session # NoRow /\ Place(section) /\ scorer.pc # "locked"
        /\ ~session.evaluated /\ session.score = NoScore
    BY <2>1 DEF SessionOK
  <2>3. ASSUME UNCHANGED <<section, scorer>>
        PROVE  Place(section') /\ scorer'.pc # "locked"
    BY <2>2, <2>3
  <2>4. CASE AdvanceTwoPhase \/ AdvanceDependencies
    <3>1. section \in [pc : {"screening", "dependencies"}, next : {"finalize"}]
      BY <2>2, <2>4 DEF AdvanceTwoPhase, AdvanceDependencies, At, SectionOK
    <3>2. section' \in {[section EXCEPT !.pc = "dependencies"], [section EXCEPT !.pc = "finalize"]}
      BY <3>1, <2>4 DEF AdvanceTwoPhase, AdvanceDependencies, Goto
    <3>3. scorer' = scorer
      BY <2>4 DEF AdvanceTwoPhase, AdvanceDependencies
    <3>4. section' \in [pc : {"finalize", "dependencies"}, next : {"finalize"}]
      BY <3>1, <3>2
    <3> QED
      BY <2>1, <2>2, <3>3, <3>4
  <2>5. CASE EnqueueNothing
    <3>1. section' = [pc |-> "screening", next |-> "finalize"] /\ scorer' = scorer
      BY <2>5 DEF EnqueueNothing
    <3> QED
      BY <2>1, <2>2, <3>1
  <2>6. /\ ~CompilationEnded /\ ~EvaluationEnded /\ ~SetOutcome /\ ~EnqueueOperations
        /\ ~FinalizeCompleteResult /\ ~ReleaseWithoutGates /\ ~NothingToFinalize
        /\ ~MissingOperations /\ ~StopES /\ ~CutSection /\ ~CutCommit /\ ~CleanFiles
    BY <2>2 DEF CompilationEnded, EvaluationEnded, SetOutcome, EnqueueOperations,
       FinalizeCompleteResult, ReleaseWithoutGates, NothingToFinalize, MissingOperations,
       StopES, CutSection, CutCommit, CleanFiles, Commit, EndSection, At
  <2>7. ~Write /\ ~Invalidate
    <3>1. ~At("idle")
      BY <2>2 DEF At
    <3>2. \A success : ~WriteCompilation(success)
      BY <3>1 DEF WriteCompilation
    <3>3. \A batch, failed, other :
             ~WriteEvaluations(batch, failed, other) /\ ~WriteTombstone(batch, other, failed)
      BY <3>1 DEF WriteEvaluations, WriteTombstone
    <3>4. ~Invalidate
      BY <3>1 DEF Invalidate, InvalidateLoad
    <3> QED
      BY <3>2, <3>3, <3>4 DEF Write
  <2>8. ASSUME \/ MissingScores \/ RescoreBlank \/ ChangeParameters \/ RescoreLoad
               \/ UNCHANGED vars \/ \E batch \in SUBSET todo : DropBatch(batch)
        PROVE  UNCHANGED <<section, scorer>>
    BY <2>8 DEF MissingScores, RescoreBlank, ChangeParameters, RescoreLoad, vars, esVars,
       ssVars, DropBatch
  <2>9. ~ScoreRead /\ ~ScoreCommit
    BY <2>2 DEF ScoreRead, MayRead, ScoreCommit
  <2>10. ASSUME ScoreBegin \/ StopSS
         PROVE  section' = section /\ scorer'.pc # "locked"
    BY <2>10 DEF ScoreBegin, StopSS, esVars, Idle
  <2>11. CASE (section' = section /\ scorer'.pc # "locked") \/ UNCHANGED <<section, scorer>>
    BY <2>1, <2>2, <2>11
  <2> QED
    <3> HIDE DEF Place
    <3> QED
      BY <1>2, <2>4, <2>5, <2>6, <2>7, <2>8, <2>9, <2>10, <2>11 DEF Next, Section, Score
<1> QED
  BY <1>1, <1>2

\* What the compilation says stays true of the submission.
LEMMA CompilesStep ==
  ASSUME TypeOK, DatasetOK, CompilesOK(row), session # NoRow => CompilesOK(session), [Next]_vars
  PROVE  /\ CompilesOK(row)'
         /\ (session # NoRow => CompilesOK(session))'
<1>1. ds' = ds
  BY RowCases
<1>2. IsRow(row) /\ CompilesOK(row) /\ IsRow(View) /\ CompilesOK(View)
  BY ViewIsRow DEF TypeOK, View
<1> DEFINE Row == CompilesOK(row')
           Session == session' # NoRow => CompilesOK(session')
<1> SUFFICES Row /\ Session
  BY <1>1 DEF CompilesOK, NoRow
<1>3. CASE session' \in {NoRow, session}
           /\ \E r \in {row, View} : row'.compilation = r.compilation
  BY <1>2, <1>3 DEF CompilesOK
<1>4. ASSUME NEW success \in BOOLEAN, WriteCompilation(success)
      PROVE  Row /\ Session
  <2>1. session' = session
    BY <1>4 DEF WriteCompilation
  <2>2. CASE success
    <3>1. success = TRUE
      BY <2>2
    <3>2. row'.compilation = IF ds.compiles THEN "ok" ELSE "fail"
      BY <1>2, <1>4, <3>1, CompiledRow
    <3> QED
      BY <2>1, <3>2 DEF CompilesOK
  <2>3. CASE ~success
    <3>1. row' = [row EXCEPT !.compilationTries = @ + 1]
      BY <1>4, <2>3 DEF WriteCompilation
    <3>2. row'.compilation = row.compilation
      BY <1>2, <3>1 DEF IsRow
    <3> QED
      BY <1>2, <1>3, <2>1, <3>2
  <2> QED
    BY <2>2, <2>3
<1>5. ASSUME NEW batch, NEW failed, NEW other, WriteEvaluations(batch, failed, other)
      PROVE  row'.compilation = row.compilation /\ session' = session
  BY <1>2, <1>5 DEF WriteEvaluations, IsRow
<1>6. ASSUME ScoreCommit \/ RescoreBlank \/ SetOutcome \/ CleanFiles
      PROVE  row'.compilation = row.compilation /\ session' = session
  BY <1>2, <1>6 DEF ScoreCommit, RescoreBlank, SetOutcome, CleanFiles, esVars, IsRow
<1>7. ASSUME FinalizeCompleteResult \/ Advances
      PROVE  row'.compilation = View.compilation /\ session' = NoRow
  <2> DEFINE v == View
  <2>1. PICK e, b : row' = [v EXCEPT !.evals = e] \/ row' = [v EXCEPT !.evaluated = b]
    BY <1>7 DEF FinalizeCompleteResult, Advances, Commit
  <2>2. session' = NoRow
    BY <1>7 DEF FinalizeCompleteResult, Advances, Commit
  <2>3. IsRow(v)
    BY <1>2
  <2> HIDE DEF v
  <2>4. row'.compilation = v.compilation
    BY <2>1, <2>3 DEF IsRow
  <2> QED
    BY <2>2, <2>4 DEF v
<1>8. CASE InvalidateFlush
  <2>1. row' = row /\ session'.compilation \in {"none", row.compilation}
    BY <1>2, <1>8, FlushedRow
  <2> QED
    BY <1>2, <2>1 DEF CompilesOK
<1>9. ASSUME NEW batch, NEW late, NEW failed, WriteTombstone(batch, late, failed)
      PROVE  Row /\ Session
  <2>1. row'.compilation = "none" /\ session' = session
    BY <1>9, TombstoneRow DEF WriteTombstone
  <2> QED
    BY <2>1 DEF CompilesOK
<1> HIDE DEF Row, Session
<1> QED
  BY RowCases, <1>3, <1>4, <1>5, <1>6, <1>7, <1>8, <1>9

\* The steps, by what they do to what a score is computed of.
Blanked ==      \* an invalidation is committed, or a result blanks the row
    /\ scorer.pc # "locked" /\ scorer' = scorer
    /\ ~row'.evaluated /\ row'.score = NoScore

Filled ==       \* missing evaluations are filled, if any
    /\ scorer' = scorer
    /\ Fills(row.evals, row'.evals)
    /\ row'.evaluated = row.evaluated
    /\ row'.compilation = row.compilation /\ row'.score = row.score

Judged ==       \* every evaluation is there, and the outcome with them
    /\ At("outcome") \/ ToEvaluate(View)
    /\ Complete(View) /\ View.evaluated \in BOOLEAN
    /\ row'.evaluated /\ row'.evals = View.evals
    /\ row'.compilation = View.compilation /\ row'.score = View.score
    /\ scorer' = scorer

LEMMA RowEffects ==
  ASSUME TypeOK, DatasetOK, SessionOK, SectionOK, [Next]_vars
  PROVE  \/ row' = row \/ Blanked \/ Filled \/ Judged
         \/ ScoreCommit \/ RescoreBlank
<1>1. IsRow(row) /\ IsRow(View) /\ (session # NoRow => IsRow(session))
  BY ViewIsRow DEF TypeOK
<1>2. session # NoRow => /\ View = session /\ ~session.evaluated /\ session.score = NoScore
                         /\ scorer.pc # "locked"
  BY DEF SessionOK, View
<1>3. session = NoRow => View = row
  BY DEF View
<1> DEFINE Goal == \/ row' = row \/ Blanked \/ Filled \/ Judged
                   \/ ScoreCommit \/ RescoreBlank
<1>4. CASE row' = View /\ session' = NoRow /\ section' = Idle /\ scorer' = scorer
  BY <1>2, <1>3, <1>4 DEF Blanked
<1>5. CASE Advances /\ UNCHANGED <<todo, scorer, faults>>
  <2>1. PICK e : row' = [View EXCEPT !.evals = e] /\ Fills(View.evals, e)
    BY <1>1, <1>5, SkipsFill, RowFields DEF Advances
  <2>2. CASE session # NoRow
    <3>1. row' = [session EXCEPT !.evals = e]
      BY <1>2, <2>1, <2>2
    <3>2. ~row'.evaluated /\ row'.score = NoScore
      BY <1>1, <1>2, <2>2, <3>1 DEF IsRow
    <3> QED
      BY <1>2, <1>5, <2>2, <3>2 DEF Blanked
  <2>3. CASE session = NoRow
    <3>1. row' = [row EXCEPT !.evals = e] /\ Fills(row.evals, e)
      BY <1>3, <2>1, <2>3
    <3>2. row'.evals = e /\ row'.evaluated = row.evaluated
          /\ row'.compilation = row.compilation /\ row'.score = row.score
      BY <1>1, <3>1 DEF IsRow
    <3> QED
      BY <1>5, <3>1, <3>2 DEF Filled
  <2> QED
    BY <2>2, <2>3
<1>6. ASSUME NEW batch, NEW failed, NEW other, WriteEvaluations(batch, failed, other)
      PROVE  Filled
  <2> DEFINE n == row.evaluationTries + Cardinality(failed)
             e == [t \in DOMAIN row.evals |->
                     IF t \in batch \ (failed \cup other) /\ row.evals[t] = "none"
                     THEN "graded" ELSE row.evals[t]]
  <2>1. row' = [row EXCEPT !.evals = e, !.evaluationTries = n] /\ scorer' = scorer
    BY <1>6 DEF WriteEvaluations
  <2>2. Fills(row.evals, e)
    BY <1>1, RowFields DEF Fills, EvaluationState
  <2> HIDE DEF e, n
  <2>3. row'.evals = e /\ row'.evaluated = row.evaluated
        /\ row'.compilation = row.compilation /\ row'.score = row.score
    BY <1>1, <2>1 DEF IsRow
  <2> QED
    BY <2>1, <2>2, <2>3 DEF Filled
<1>7. CASE SetOutcome
  <2>1. session = NoRow /\ View = row
    BY <1>3, <1>7 DEF SetOutcome, At, SessionOK
  <2>2. CASE Complete(row)
    <3>1. row' = [row EXCEPT !.evaluated = TRUE] /\ scorer' = scorer /\ At("outcome")
      BY <1>7, <2>2 DEF SetOutcome
    <3>2. row'.evaluated /\ row'.evals = row.evals
          /\ row'.compilation = row.compilation /\ row'.score = row.score
      BY <1>1, <3>1 DEF IsRow
    <3>3. row.evaluated \in BOOLEAN
      BY <1>1, RowFields
    <3> QED
      BY <2>1, <2>2, <3>1, <3>2, <3>3 DEF Judged
  <2>3. CASE ~Complete(row)
    BY <1>7, <2>3 DEF SetOutcome
  <2> QED
    BY <2>2, <2>3
<1>8. CASE FinalizeCompleteResult
  <2> DEFINE v == View
  <2>1. row' = [v EXCEPT !.evaluated = TRUE] /\ scorer' = scorer /\ Complete(v)
        /\ ToEvaluate(v)
    BY <1>8 DEF FinalizeCompleteResult, Commit
  <2>2. IsRow(v)
    BY <1>1
  <2> HIDE DEF v
  <2>3. row'.evaluated /\ row'.evals = v.evals
        /\ row'.compilation = v.compilation /\ row'.score = v.score
    BY <2>1, <2>2 DEF IsRow
  <2>4. v.evaluated \in BOOLEAN
    BY <2>2, RowFields
  <2> QED
    BY <2>1, <2>3, <2>4 DEF Judged, v
<1>9. CASE InvalidateFlush
  BY <1>9 DEF InvalidateFlush
<1>10. ASSUME NEW success \in BOOLEAN, WriteCompilation(success)
       PROVE  Blanked \/ Filled
  <2>1. scorer' = scorer /\ scorer.pc # "locked"
    BY <1>10 DEF WriteCompilation, RowIsFree
  <2>2. CASE success = TRUE
    <3>1. ~row'.evaluated /\ row'.score = NoScore
      BY <1>1, <1>10, <2>2, CompiledRow
    <3> QED
      BY <2>1, <3>1 DEF Blanked
  <2>3. CASE success = FALSE
    <3>1. row' = [row EXCEPT !.compilationTries = @ + 1]
      BY <1>10, <2>3 DEF WriteCompilation
    <3>2. row'.evals = row.evals /\ row'.evaluated = row.evaluated
          /\ row'.compilation = row.compilation /\ row'.score = row.score
      BY <1>1, <3>1 DEF IsRow
    <3>3. Fills(row.evals, row.evals)
      BY <1>1, RowFields DEF Fills
    <3> QED
      BY <2>1, <3>2, <3>3 DEF Filled
  <2> QED
    BY <2>2, <2>3
<1>11. ASSUME NEW batch, NEW late, NEW failed, WriteTombstone(batch, late, failed)
       PROVE  Blanked
  <2>1. ~row'.evaluated /\ row'.score = NoScore
    BY <1>11, TombstoneRow
  <2>2. scorer' = scorer /\ scorer.pc # "locked"
    BY <1>11 DEF WriteTombstone, RowIsFree
  <2> QED
    BY <2>1, <2>2 DEF Blanked
<1>12. CASE CleanFiles
  <2>1. row' = [row EXCEPT !.tombstone = TRUE] /\ scorer' = scorer
    BY <1>12 DEF CleanFiles
  <2>2. row'.evals = row.evals /\ row'.evaluated = row.evaluated
        /\ row'.compilation = row.compilation /\ row'.score = row.score
    BY <1>1, <2>1 DEF IsRow
  <2>3. Fills(row.evals, row.evals)
    BY <1>1, RowFields DEF Fills
  <2> QED
    BY <2>1, <2>2, <2>3 DEF Filled
<1> QED
  BY RowCases, <1>4, <1>5, <1>6, <1>7, <1>8, <1>9, <1>10, <1>11, <1>12

\* A submission that does not compile has nothing to run.
LEMMA NothingToRunStep ==
  ASSUME TypeOK, DatasetOK, SessionOK, SectionOK, CompilesOK(row), session # NoRow => CompilesOK(session),
         NothingToRun, [Next]_vars
  PROVE  NothingToRun'
<1>1. ds' = ds
  BY RowCases
<1> SUFFICES ASSUME ~ds.compiles
             PROVE  /\ todo' \subseteq {Compile} /\ ~row'.evaluated
                    /\ section'.pc \notin {"outcome", "evaluationEnded"}
                    /\ section'.pc \in {"screening", "dependencies"} => section'.next # "outcome"
  BY <1>1 DEF NothingToRun
<1>2. /\ todo \subseteq {Compile} /\ ~row.evaluated
      /\ section.pc \notin {"outcome", "evaluationEnded"}
      /\ section.pc \in {"screening", "dependencies"} => section.next # "outcome"
  BY DEF NothingToRun
<1>3. ~ToEvaluate(View) /\ ~At("outcome")
  <2>1. CompilesOK(View)
    BY DEF View
  <2> QED
    BY <1>2, <2>1 DEF ToEvaluate, CompilesOK, At
<1>4. todo' \subseteq {Compile}
  BY <1>2, <1>3, TodoCases
<1>5. ~row'.evaluated
  <2>1. ~Judged
    BY <1>3 DEF Judged
  <2>2. IsRow(row)
    BY DEF TypeOK
  <2>4. ASSUME ScoreCommit \/ RescoreBlank
        PROVE  row'.evaluated = row.evaluated
    BY <2>2, <2>4 DEF ScoreCommit, RescoreBlank, IsRow
  <2> QED
    BY <1>2, <2>1, <2>4, RowEffects DEF Blanked, Filled
<1>6. ~\E batch \in SUBSET (todo \ {Compile}) : \E failed, other \in SUBSET batch :
         WriteEvaluations(batch, failed, other) \/ WriteTombstone(batch, other, failed)
  BY <1>2 DEF WriteEvaluations, WriteTombstone
<1> DEFINE Place(s) ==
             /\ s.pc \notin {"outcome", "evaluationEnded"}
             /\ s.pc \in {"screening", "dependencies"} => s.next # "outcome"
<1>7. Place(section')
  <2>1. CASE UNCHANGED section
    BY <1>2, <2>1
  <2>2. ASSUME CompilationEnded \/ EvaluationEnded \/ EnqueueOperations \/ EnqueueNothing
               \/ FinalizeCompleteResult \/ ReleaseWithoutGates \/ NothingToFinalize
               \/ InvalidateFlush \/ StopES \/ CutSection \/ CutCommit
        PROVE  Place(section')
    BY <2>2 DEF CompilationEnded, EvaluationEnded, EnqueueOperations, EnqueueNothing,
       FinalizeCompleteResult, ReleaseWithoutGates, NothingToFinalize, InvalidateFlush,
       StopES, CutSection, CutCommit, EndSection, Idle
  <2>3. CASE AdvanceTwoPhase \/ AdvanceDependencies
    <3>1. section \in [pc : {"screening", "dependencies"}, next : {"finalize"}]
      BY <1>2, <2>3 DEF AdvanceTwoPhase, AdvanceDependencies, At, SectionOK
    <3>2. section' \in {[section EXCEPT !.pc = "dependencies"], [section EXCEPT !.pc = "finalize"]}
      BY <3>1, <2>3 DEF AdvanceTwoPhase, AdvanceDependencies, Goto
    <3>3. section' \in [pc : {"finalize", "dependencies"}, next : {"finalize"}]
      BY <3>1, <3>2
    <3> QED
      BY <3>3
  <2>4. ~SetOutcome
    BY <1>3 DEF SetOutcome
  <2>5. ASSUME NEW success \in BOOLEAN, WriteCompilation(success)
        PROVE  Place(section')
    BY <2>5 DEF WriteCompilation
  <2>6. ASSUME MissingOperations
        PROVE  Place(section')
    BY <1>2, <2>6 DEF MissingOperations
  <2>7. ASSUME Invalidate
        PROVE  Place(section')
    BY <2>7 DEF Invalidate, InvalidateLoad
  <2>8. ASSUME \/ Score \/ MissingScores \/ RescoreBlank \/ ChangeParameters
               \/ RescoreLoad \/ StopSS \/ CleanFiles \/ UNCHANGED vars
               \/ \E batch \in SUBSET todo : DropBatch(batch)
        PROVE  UNCHANGED section
    BY <2>8 DEF Score, ScoreBegin, ScoreRead, ScoreCommit, MissingScores, RescoreBlank,
       ChangeParameters, RescoreLoad, StopSS, CleanFiles, vars, esVars, DropBatch
  <2> HIDE DEF Place
  <2> QED
    BY <1>6, <2>1, <2>2, <2>3, <2>4, <2>5, <2>6, <2>7, <2>8 DEF Next, Section, Write
<1> QED
  BY <1>4, <1>5, <1>7
-----------------------------------------------------------------------------
(* Outcomes and scores *)

\* Evaluations that are all there cannot be filled.
LEMMA CompleteIsFull ==
  ASSUME NEW r, NEW s, IsRow(r), Complete(r), Fills(r.evals, s.evals)
  PROVE  s.evals = r.evals
<1>1. r.evals \in [TestcasesOf(ds) -> EvaluationState]
      /\ s.evals \in [TestcasesOf(ds) -> EvaluationState]
  BY RowFields DEF Fills
<1>2. \A t \in TestcasesOf(ds) : s.evals[t] = r.evals[t]
  BY DEF Complete, Unevaluated, Fills
<1> QED
  BY <1>1, <1>2

\* A score is of the outcome and of the evaluations only.
LEMMA SameScore ==
  ASSUME NEW r, NEW s, s.evaluated = r.evaluated, r.evaluated => s.evals = r.evals
  PROVE  ComputeScore(s) = ComputeScore(r)
  BY DEF ComputeScore

LEMMA ScoresStep ==
  ASSUME TypeOK, DatasetOK, SessionOK, SectionOK, CompilesOK(row), session # NoRow => CompilesOK(session),
         NothingToRun, OutcomeIsComplete, ScoreIsOfTheseEvaluations, LockedIsOfThisRow,
         ScorerOK, [Next]_vars
  PROVE  OutcomeIsComplete' /\ ScoreIsOfTheseEvaluations' /\ LockedIsOfThisRow'
<1>0. ds' = ds /\ IsRow(row) /\ IsRow(View) /\ row.evaluated \in BOOLEAN
  BY RowCases, ViewIsRow, RowFields DEF TypeOK
<1> DEFINE Scorable(r) == r.compilation = "fail" \/ r.evaluated
           Outcome == row'.evaluated => Complete(row')
           Scored == row'.score # NoScore =>
                       Scorable(row') /\ row'.score[1] = ComputeScore(row')
           Locked == scorer'.pc = "locked" =>
                       Scorable(row') /\ scorer'.score[1] = ComputeScore(row')
<1> SUFFICES Outcome /\ Scored /\ Locked
  <2>1. (Complete(row)' <=> Complete(row')) /\ ComputeScore(row)' = ComputeScore(row')
        /\ NoScore' = NoScore
    BY <1>0 DEF Complete, ComputeScore, TestcasesOf, Subtasks, Unevaluated, NoScore
  <2> QED
    BY <2>1 DEF OutcomeIsComplete, ScoreIsOfTheseEvaluations, LockedIsOfThisRow
<1>1. /\ row.evaluated => Complete(row)
      /\ row.score # NoScore => Scorable(row) /\ row.score[1] = ComputeScore(row)
      /\ scorer.pc = "locked" => Scorable(row) /\ scorer.score[1] = ComputeScore(row)
  BY DEF OutcomeIsComplete, ScoreIsOfTheseEvaluations, LockedIsOfThisRow
<1>2. session # NoRow => scorer.pc # "locked"
  BY DEF SessionOK
<1>3. CASE row' = row
  <2>1. CASE scorer' = scorer \/ scorer'.pc # "locked"
    BY <1>1, <1>3, <2>1
  <2>2. CASE ScoreRead /\ NeedsScoring(row)
    <3>1. scorer' = [pc |-> "locked", score |-> <<ComputeScore(row), scorer.revision>>]
          /\ Scorable(row)
      BY <2>2 DEF ScoreRead, NeedsScoring
    <3> QED
      BY <1>1, <1>3, <3>1
  <2>3. ASSUME ScoreBegin \/ StopSS \/ ScoreCommit
        PROVE  scorer'.pc # "locked"
    BY <2>3 DEF ScoreBegin, StopSS, ScoreCommit, Idle
  <2>4. ASSUME ScoreRead /\ ~NeedsScoring(row)
        PROVE  scorer'.pc # "locked"
    BY <2>4 DEF ScoreRead, Idle
  <2>5. ASSUME Section \/ MissingOperations \/ UNCHANGED vars \/ Write
               \/ \E batch \in SUBSET todo : DropBatch(batch)
        PROVE  UNCHANGED scorer
    BY <2>5 DEF Section, AdvanceTwoPhase, AdvanceDependencies, SetOutcome, CompilationEnded,
       EvaluationEnded, EnqueueOperations, EnqueueNothing, FinalizeCompleteResult,
       ReleaseWithoutGates, NothingToFinalize, InvalidateFlush, MissingOperations, vars,
       Write, WriteCompilation, WriteEvaluations, WriteTombstone, DropBatch
  <2>6. ASSUME \/ MissingScores \/ RescoreBlank \/ ChangeParameters \/ RescoreLoad
               \/ StopES \/ CutSection \/ CutCommit \/ CleanFiles \/ Invalidate
        PROVE  UNCHANGED scorer
    BY <2>6 DEF MissingScores, RescoreBlank, ChangeParameters, RescoreLoad, ssVars,
       StopES, CutSection, CutCommit, CleanFiles, Invalidate, InvalidateLoad
  <2> HIDE DEF Outcome, Scored, Locked
  <2> QED
    BY <2>1, <2>2, <2>3, <2>4, <2>5, <2>6 DEF Next, Score
<1>4. CASE Blanked
  BY <1>4 DEF Blanked
\* Same row to the scorer: what was computed of it still is of it.
<1>5. ASSUME row'.evaluated = row.evaluated, row.evaluated => row'.evals = row.evals,
             row.compilation = "fail" => row'.compilation = "fail",
             row'.score = row.score, scorer' = scorer
      PROVE  Outcome /\ Scored /\ Locked
  <2>1. ComputeScore(row') = ComputeScore(row)
    BY <1>5, SameScore
  <2>2. Outcome
    BY <1>1, <1>5 DEF Complete
  <2> QED
    BY <1>1, <1>5, <2>1, <2>2
<1>6. CASE Filled
  <2>1. row.evaluated => row'.evals = row.evals
    BY <1>0, <1>1, <1>6, CompleteIsFull DEF Filled
  <2> QED
    BY <1>5, <1>6, <2>1 DEF Filled
<1>7. CASE Judged
  <2>0. /\ Complete(View) /\ row'.evaluated /\ row'.evals = View.evals
        /\ row'.compilation = View.compilation /\ row'.score = View.score
        /\ scorer' = scorer
    BY <1>7 DEF Judged
  <2>1. Outcome
    BY <2>0 DEF Complete
  <2>2. CASE session = NoRow /\ row.evaluated
    <3>1. View = row
      BY <2>2 DEF View
    <3>2. row'.evaluated = row.evaluated
      BY <1>0, <2>0, <2>2, Zenon
    <3> QED
      BY <1>5, <2>0, <3>1, <3>2
  <2>3. CASE session = NoRow /\ ~row.evaluated
    <3>1. View = row
      BY <2>3 DEF View
    <3>2. row.compilation # "fail"
      BY <1>7, <3>1 DEF Judged, ToEvaluate, CompilesOK, NothingToRun, At
    <3>3. row.score = NoScore /\ scorer.pc # "locked"
      BY <1>1, <2>3, <3>2
    <3> QED
      BY <2>0, <2>1, <3>1, <3>3
  <2>4. CASE session # NoRow
    <3>1. View.score = NoScore /\ scorer.pc # "locked"
      BY <2>4 DEF View, SessionOK
    <3> QED
      BY <2>0, <2>1, <3>1
  <2> QED
    BY <2>2, <2>3, <2>4
<1>9. CASE ScoreCommit
  <2>1. row' = [row EXCEPT !.score = scorer.score] /\ scorer' = Idle /\ scorer.pc = "locked"
    BY <1>9 DEF ScoreCommit
  <2>2. /\ row'.evaluated = row.evaluated /\ row'.evals = row.evals
        /\ row'.compilation = row.compilation /\ row'.score = scorer.score
    BY <1>0, <2>1 DEF IsRow
  <2>3. ComputeScore(row') = ComputeScore(row)
    BY <2>2, SameScore
  <2>4. scorer'.pc # "locked"
    BY <2>1 DEF Idle
  <2>5. Outcome
    BY <1>1, <2>2 DEF Complete
  <2> QED
    BY <1>1, <2>1, <2>2, <2>3, <2>4, <2>5
<1>10. CASE RescoreBlank
  <2>1. row' = [row EXCEPT !.score = NoScore] /\ scorer' = scorer /\ scorer.pc # "locked"
    BY <1>10 DEF RescoreBlank, RowIsFree
  <2>2. row'.evaluated = row.evaluated /\ row'.evals = row.evals /\ row'.score = NoScore
    BY <1>0, <2>1 DEF IsRow
  <2>3. Outcome
    BY <1>1, <2>2 DEF Complete
  <2> QED
    BY <2>1, <2>2, <2>3
<1> HIDE DEF Outcome, Scored, Locked
<1> QED
  BY RowEffects, <1>3, <1>4, <1>6, <1>7, <1>9, <1>10
-----------------------------------------------------------------------------
(* Screening *)

\* A group failed its screening because a screening testcase failed when run.
LEMMA FailedGroup ==
  ASSUME DatasetOK, NEW evals, SkipsOK(evals), NEW g, ScreeningStatus(ds, evals, g) = "failed"
  PROVE  \E s \in ScreeningOf(ds, g) : ds.outcome[s] = 0
<1>1. ASSUME NEW s \in ScreeningOf(ds, g)
      PROVE  s \in TestcasesOf(ds) /\ s \in ds.screening /\ ds.outcome[s] \in Nat
  BY DEF DatasetOK, IsDataset, ScreeningOf
<1>2. /\ \A s \in ScreeningOf(ds, g) : CountsForScreening(evals, s)
      /\ \E s \in ScreeningOf(ds, g) : ~(OutcomeOf(ds, evals, s) > 0)
  BY DEF ScreeningStatus
<1>3. PICK s \in ScreeningOf(ds, g) : ~(OutcomeOf(ds, evals, s) > 0)
  BY <1>2
<1>4. evals[s] = "graded"
  BY <1>1, <1>2 DEF SkipsOK, ScreeningSkipsOK, CountsForScreening
<1>5. OutcomeOf(ds, evals, s) = ds.outcome[s]
  BY <1>4 DEF OutcomeOf
<1> QED
  BY <1>1, <1>3, <1>5

\* A group passed it because all were run and passed.
LEMMA PassedGroup ==
  ASSUME DatasetOK, NEW evals, NEW g, ScreeningStatus(ds, evals, g) = "passed"
  PROVE  \A s \in ScreeningOf(ds, g) : ds.outcome[s] > 0
<1>1. SUFFICES ASSUME NEW s \in ScreeningOf(ds, g)
               PROVE  ds.outcome[s] > 0
  OBVIOUS
<1>2. OutcomeOf(ds, evals, s) > 0
  BY <1>1 DEF ScreeningStatus
<1> QED
  BY <1>2 DEF OutcomeOf

\* Skips have their cause when they are made ...
LEMMA SkipsWithCause ==
  ASSUME DatasetOK, NEW evals \in [TestcasesOf(ds) -> EvaluationState], SkipsOK(evals)
  PROVE  SkipsOK(WithScreeningSkips(ds, evals)) /\ SkipsOK(WithDependencySkips(ds, evals))
<1>1. ScreeningSkipsOK(ds, WithScreeningSkips(ds, evals))
  <2>1. SUFFICES ASSUME NEW t \in TestcasesOf(ds), WithScreeningSkips(ds, evals)[t] = "skipped"
                 PROVE  /\ t \notin ds.screening
                        /\ \E s \in ScreeningOf(ds, ds.group[t]) : ds.outcome[s] = 0
    BY DEF ScreeningSkipsOK
  <2>2. CASE evals[t] = "skipped"
    BY <2>2 DEF SkipsOK, ScreeningSkipsOK
  <2>3. CASE evals[t] # "skipped"
    <3>1. t \notin ds.screening /\ ScreeningStatus(ds, evals, ds.group[t]) = "failed"
      BY <2>1, <2>3 DEF WithScreeningSkips
    <3> QED
      BY <3>1, FailedGroup
  <2> QED
    BY <2>2, <2>3
<1>2. \A t \in TestcasesOf(ds) :
         WithDependencySkips(ds, evals)[t] = "skipped" => evals[t] = "skipped"
  BY DEF WithDependencySkips
<1>3. ScreeningSkipsOK(ds, WithDependencySkips(ds, evals))
  BY <1>2 DEF SkipsOK, ScreeningSkipsOK
<1>4. Aligned(ds) => /\ DependencySkipsOK(ds, WithScreeningSkips(ds, evals))
                     /\ DependencySkipsOK(ds, WithDependencySkips(ds, evals))
  <2>1. evals \in EvaluationsOf(ds)
    BY DEF EvaluationsOf
  <2> QED
    BY <2>1, DependencySkipsCause DEF DatasetOK, SkipsOK
<1> QED
  BY <1>1, <1>3, <1>4 DEF SkipsOK

\* ... and keep it when evaluations are added or invalidated.
LEMMA FewerSkips ==
  ASSUME NEW old, NEW new, SkipsOK(old),
         \A t \in TestcasesOf(ds) : new[t] \in {"skipped", "dependency"} => old[t] = new[t]
  PROVE  SkipsOK(new)
<1>1. ScreeningSkipsOK(ds, new)
  BY DEF SkipsOK, ScreeningSkipsOK
<1>2. Aligned(ds) => DependencySkipsOK(ds, new)
  BY DEF SkipsOK, DependencySkipsOK
<1> QED
  BY <1>1, <1>2 DEF SkipsOK

LEMMA SkipsStep ==
  ASSUME TypeOK, DatasetOK, SkipsOK(row.evals), session # NoRow => SkipsOK(session.evals),
         [Next]_vars
  PROVE  SkipsOK(row.evals)' /\ (session # NoRow => SkipsOK(session.evals))'
<1>0. /\ ds' = ds /\ IsRow(row) /\ IsRow(View) /\ SkipsOK(row.evals) /\ SkipsOK(View.evals)
  BY RowCases, ViewIsRow DEF TypeOK, View
<1> DEFINE Row == SkipsOK(row'.evals)
           Session == session' # NoRow => SkipsOK(session'.evals)
<1> SUFFICES Row /\ Session
  BY <1>0 DEF SkipsOK, NoRow
<1>1. CASE session' \in {NoRow, session} /\ \E r \in {row, View} : row'.evals = r.evals
  BY <1>0, <1>1
<1>2. CASE Advances
  <2> DEFINE v == View
  <2>1. PICK e : /\ row' = [v EXCEPT !.evals = e] /\ session' = NoRow
                 /\ e \in {WithScreeningSkips(ds, v.evals), WithDependencySkips(ds, v.evals)}
    BY <1>2 DEF Advances
  <2>2. IsRow(v) /\ SkipsOK(v.evals)
    BY <1>0
  <2> HIDE DEF v
  <2>3. SkipsOK(e)
    BY <2>1, <2>2, RowFields, SkipsWithCause
  <2>4. row'.evals = e
    BY <2>1, <2>2 DEF IsRow
  <2> QED
    BY <2>1, <2>3, <2>4
<1>3. ASSUME NEW success \in BOOLEAN, WriteCompilation(success)
      PROVE  Row /\ Session
  <2>1. session' = session
    BY <1>3 DEF WriteCompilation
  <2>2. CASE success = TRUE
    <3>1. row'.evals = [t \in TestcasesOf(ds) |-> "none"]
      BY <1>0, <1>3, <2>2, CompiledRow
    <3>2. SkipsOK(row'.evals)
      BY <1>0, <3>1, FewerSkips
    <3> QED
      BY <2>1, <3>2
  <2>3. CASE success = FALSE
    <3>1. row' = [row EXCEPT !.compilationTries = @ + 1]
      BY <1>3, <2>3 DEF WriteCompilation
    <3>2. row'.evals = row.evals
      BY <1>0, <3>1 DEF IsRow
    <3> QED
      BY <1>0, <2>1, <3>2
  <2> QED
    BY <2>2, <2>3
<1>4. ASSUME NEW batch, NEW failed, NEW other, WriteEvaluations(batch, failed, other)
      PROVE  Row /\ Session
  <2> DEFINE n == row.evaluationTries + Cardinality(failed)
             e == [t \in DOMAIN row.evals |->
                     IF t \in batch \ (failed \cup other) /\ row.evals[t] = "none"
                     THEN "graded" ELSE row.evals[t]]
  <2>1. row' = [row EXCEPT !.evals = e, !.evaluationTries = n] /\ session' = session
    BY <1>4 DEF WriteEvaluations
  <2>2. \A t \in TestcasesOf(ds) : e[t] \in {"skipped", "dependency"} => row.evals[t] = e[t]
    BY <1>0, RowFields
  <2> HIDE DEF e, n
  <2>3. row'.evals = e
    BY <1>0, <2>1 DEF IsRow
  <2>4. SkipsOK(e)
    BY <1>0, <2>2, FewerSkips
  <2> QED
    BY <2>1, <2>3, <2>4
<1>5. ASSUME SetOutcome \/ ScoreCommit \/ RescoreBlank \/ CleanFiles
      PROVE  session' = session /\ row'.evals = row.evals
  BY <1>0, <1>5 DEF SetOutcome, ScoreCommit, RescoreBlank, CleanFiles, esVars, IsRow
<1>6. ASSUME FinalizeCompleteResult
      PROVE  session' = NoRow /\ row'.evals = View.evals
  BY <1>0, <1>6 DEF FinalizeCompleteResult, Commit, IsRow
<1>7. CASE InvalidateFlush
  <2>1. row' = row /\ \A t \in TestcasesOf(ds) : session'.evals[t] \in {"none", row.evals[t]}
    BY <1>0, <1>7, FlushedRow
  <2>2. SkipsOK(session'.evals)
    BY <1>0, <2>1, FewerSkips
  <2> QED
    BY <1>0, <2>1, <2>2
<1>8. ASSUME NEW batch, NEW late, NEW failed, WriteTombstone(batch, late, failed)
      PROVE  Row /\ Session
  <2>1. /\ session' = session
        /\ \A t \in TestcasesOf(ds) : row'.evals[t] \in {"none", "graded"}
    BY <1>8, TombstoneRow DEF WriteTombstone
  <2>2. SkipsOK(row'.evals)
    BY <1>0, <2>1, FewerSkips
  <2> QED
    BY <2>1, <2>2
<1> HIDE DEF Row, Session
<1> QED
  BY RowCases, <1>1, <1>2, <1>3, <1>4, <1>5, <1>6, <1>7, <1>8

\* The gates hold what goes to the workers.
LEMMA GatesHoldStep ==
  ASSUME TypeOK, DatasetOK, SessionOK, GatesHold, [Next]_vars
  PROVE  GatesHold'
<1>0. ds' = ds
  BY RowCases
<1> DEFINE Passed(t) == \A s \in ScreeningOf(ds, ds.group[t]) : ds.outcome[s] > 0
           Clear(t) == \E i \in SubtasksOf(ds, t) : \A x \in ds.depends[i] :
                          ScoresOfFullGrading(ds)[x] > 0
<1>1. SUFFICES ASSUME ~released', NEW t \in todo' \ {Compile}
               PROVE  /\ ds.twoPhase /\ t \notin ds.screening => Passed(t)
                      /\ SubtasksOf(ds, t) # {} => Clear(t)
  BY <1>0 DEF GatesHold
<1>2. CASE t \in todo /\ released' = released
  BY <1>1, <1>2 DEF GatesHold
<1> HIDE DEF Passed, Clear
<1>3. CASE t \in ReleasedTestcases(ds, View.evals)
  <2> DEFINE status == Statuses(ds, View.evals).status
  <2>1. Releasable(ds, status, t) /\ ScreeningReleases(ds, View.evals, t)
    BY <1>3 DEF ReleasedTestcases
  <2>2. ASSUME ds.twoPhase, t \notin ds.screening
        PROVE  Passed(t)
    <3>1. ScreeningStatus(ds, View.evals, ds.group[t]) = "passed"
      BY <2>1, <2>2 DEF ScreeningReleases
    <3> QED
      BY <3>1, PassedGroup DEF Passed
  <2>3. ASSUME SubtasksOf(ds, t) # {}
        PROVE  Clear(t)
    <3>1. PICK i \in SubtasksOf(ds, t) : \A x \in ds.depends[i] : status[x] = "passed"
      BY <2>1, <2>3 DEF Releasable
    <3>2. \A x \in ds.depends[i] : x \in Subtasks(ds)
      BY DEF SubtasksOf, DatasetOK, IsDataset
    <3> QED
      BY <3>1, <3>2, PassedScores DEF Clear, DatasetOK
  <2> QED
    BY <2>2, <2>3
<1>4. CASE ~HasGates
  <2>1. ~ds.twoPhase /\ \A i \in SubtasksOf(ds, t) : ds.depends[i] = {}
    BY <1>4 DEF HasGates, SubtasksOf
  <2> QED
    BY <2>1 DEF Clear
<1> QED
  BY <1>1, <1>2, <1>3, <1>4, TodoCases

\* The gates never hold each other.
LEMMA NothingIsHeldStep ==
  ASSUME TypeOK, DatasetOK, SectionOK, SessionOK,
         SkipsOK(row.evals), session # NoRow => SkipsOK(session.evals),
         NothingIsHeld, [Next]_vars
  PROVE  NothingIsHeld'
<1>0. ds' = ds
  BY RowCases
<1> DEFINE Covered == \A t \in TestcasesOf(ds) : SubtasksOf(ds, t) # {}
<1>1. SUFFICES ASSUME Aligned(ds), Covered
               PROVE  ~released' /\ NothingHeldAt(section', View')
  BY <1>0 DEF NothingIsHeld, NothingHeldAt, Complete
<1>2. ~released /\ NothingHeldAt(section, View)
  BY <1>1 DEF NothingIsHeld
<1>3. IsRow(row) /\ IsRow(View) /\ SkipsOK(View.evals)
  BY ViewIsRow DEF TypeOK, View
<1> DEFINE Goal == ~released' /\ NothingHeldAt(section', View')
           Alike(v, w) == /\ w.evals = v.evals /\ w.compilation = v.compilation
                          /\ w.evaluated = v.evaluated
                          /\ w.evaluationTries = v.evaluationTries
<1>4. ASSUME section' = section, released' = released, Alike(View, View')
      PROVE  Goal
  BY <1>2, <1>4 DEF NothingHeldAt, ToEvaluate, Complete
<1>5. ASSUME released' = released,
             \/ section'.pc \notin {"screening", "dependencies", "finalize"}
             \/ section'.pc # "finalize" /\ section'.next # "finalize"
      PROVE  Goal
  BY <1>2, <1>5 DEF NothingHeldAt
<1> HIDE DEF Goal
<1>6. ASSUME \/ UNCHANGED vars \/ ScoreBegin \/ ScoreRead \/ MissingScores \/ ChangeParameters
             \/ RescoreLoad \/ StopSS \/ \E batch \in SUBSET todo : DropBatch(batch)
      PROVE  Goal
  <2>1. UNCHANGED <<row, session, section, released>>
    BY <1>6 DEF vars, ScoreBegin, ScoreRead, MissingScores, ChangeParameters, RescoreLoad,
       StopSS, DropBatch, esVars
  <2> QED
    BY <1>4, <2>1 DEF View
<1>7. ASSUME ScoreCommit \/ RescoreBlank
      PROVE  Goal
  <2>1. /\ UNCHANGED <<session, section, released>> /\ session = NoRow
        /\ \E x : row' = [row EXCEPT !.score = x]
    BY <1>7 DEF ScoreCommit, RescoreBlank, RowIsFree, esVars
  <2>2. Alike(row, row')
    BY <1>3, <2>1 DEF IsRow
  <2> QED
    BY <1>4, <2>1, <2>2 DEF View
<1>8. ASSUME \/ Write \/ Invalidate \/ StopES \/ CutSection \/ CutCommit \/ CompilationEnded
             \/ EvaluationEnded \/ EnqueueOperations \/ FinalizeCompleteResult
             \/ NothingToFinalize \/ InvalidateFlush \/ SetOutcome
      PROVE  Goal
  <2>1. ASSUME StopES \/ CutSection \/ (\E success \in BOOLEAN : WriteCompilation(success))
        PROVE  released' = released /\ section'.pc \in {"compilationEnded", "idle"}
    BY <2>1 DEF StopES, CutSection, WriteCompilation, Idle
  <2>2. ASSUME NEW batch, NEW failed, NEW other,
               WriteEvaluations(batch, failed, other) \/ WriteTombstone(batch, other, failed)
        PROVE  released' = released /\ section' = [pc |-> "screening", next |-> "outcome"]
    BY <2>2 DEF WriteEvaluations, WriteTombstone
  <2>3. Invalidate => released' = released /\ section'.pc = "loaded"
    BY DEF Invalidate, InvalidateLoad
  <2>4. ASSUME \/ CompilationEnded \/ EvaluationEnded \/ EnqueueOperations
               \/ FinalizeCompleteResult \/ NothingToFinalize \/ InvalidateFlush
        PROVE  released' = released /\ section'.pc \in {"enqueue", "idle"}
    BY <2>4 DEF CompilationEnded, EvaluationEnded, EnqueueOperations, FinalizeCompleteResult,
       NothingToFinalize, InvalidateFlush, EndSection, Idle
  <2>5. ASSUME SetOutcome
        PROVE  released' = released /\ section'.pc = "evaluationEnded"
    BY <2>5 DEF SetOutcome, Goto, At, SectionOK
  <2>6. ASSUME CutCommit
        PROVE  released' = released /\ section'.pc = "idle"
    <3>1. View = session /\ section' = Idle
      BY <2>6 DEF CutCommit, View
    <3>2. ~(At("finalize") /\ ToEvaluate(session) /\ ~Complete(session))
      BY <1>2, <3>1 DEF NothingHeldAt, At
    <3> QED
      BY <2>6, <3>1, <3>2 DEF CutCommit, Idle
  <2> QED
    BY <1>5, <1>8, <2>1, <2>2, <2>3, <2>4, <2>5, <2>6 DEF Write
<1>9. CASE EnqueueNothing
  <2>1. /\ section' = [pc |-> "screening", next |-> "finalize"] /\ released' = released
        /\ View' = View /\ Operations(View) = {}
    BY <1>9 DEF EnqueueNothing, View
  <2>2. ToEvaluate(View) => ReleasedTestcases(ds, View.evals) = {}
    BY <2>1 DEF Operations, ToEvaluate, ToCompile
  <2> QED
    BY <1>2, <2>1, <2>2 DEF Goal, NothingHeldAt
<1> DEFINE v == View
           w == View'
           e == WithScreeningSkips(ds, v.evals)
           f == WithDependencySkips(ds, v.evals)
<1>10. IsRow(v) /\ v.evals \in EvaluationsOf(ds)
       /\ ScreeningSkipsOK(ds, v.evals) /\ DependencySkipsOK(ds, v.evals)
  BY <1>1, <1>3, RowFields DEF SkipsOK, EvaluationsOf
<1>11. CASE AdvanceTwoPhase
  <2>1. /\ released' = released /\ section.pc = "screening"
        /\ section' = [section EXCEPT !.pc = "dependencies"]
        /\ w = v \/ w = [v EXCEPT !.evals = e]
        /\ e = v.evals \/ w = [v EXCEPT !.evals = e]
    BY <1>11 DEF AdvanceTwoPhase, Commit, Goto, At, View
  <2>2. section'.pc = "dependencies" /\ section'.next = section.next
    BY <2>1 DEF SectionOK
  <2> HIDE DEF v, w, e
  <2>3. w.evals = e /\ (ToEvaluate(w) <=> ToEvaluate(v))
    BY <1>10, <2>1 DEF IsRow, ToEvaluate
  <2>4. ASSUME section.next = "finalize", ToEvaluate(v), NEW t \in Unevaluated(ds, e)
        PROVE  Skippable(ds, Statuses(ds, e).blocked, t)
    <3>1. ReleasedTestcases(ds, v.evals) = {}
      BY <1>2, <2>1, <2>4 DEF NothingHeldAt, v
    <3>2. t \in TestcasesOf(ds) /\ WithScreeningSkips(ds, v.evals)[t] = "none"
      BY DEF Unevaluated, e
    <3> QED
      BY <1>1, <1>10, <3>1, <3>2, NothingIsLeft DEF DatasetOK, e
  <2> QED
    BY <1>2, <2>1, <2>2, <2>3, <2>4 DEF Goal, NothingHeldAt, w
<1>12. CASE AdvanceDependencies
  <2>1. /\ released' = released /\ section.pc = "dependencies"
        /\ section' = [section EXCEPT !.pc = section.next]
        /\ w = v \/ w = [v EXCEPT !.evals = f]
        /\ f = v.evals \/ w = [v EXCEPT !.evals = f]
    BY <1>12 DEF AdvanceDependencies, Commit, Goto, At, View
  <2>2. section'.pc = section.next /\ section.next \in {"outcome", "finalize"}
    BY <2>1 DEF SectionOK
  <2> HIDE DEF v, w, f
  <2>3. w.evals = f /\ (ToEvaluate(w) <=> ToEvaluate(v))
    BY <1>10, <2>1 DEF IsRow, ToEvaluate
  <2>4. ASSUME section.next = "finalize", ToEvaluate(v)
        PROVE  Complete(w)
    <3>1. \A t \in Unevaluated(ds, v.evals) : Skippable(ds, Statuses(ds, v.evals).blocked, t)
      BY <1>2, <2>1, <2>4 DEF NothingHeldAt, v
    <3>2. \A t \in TestcasesOf(ds) : f[t] # "none"
      BY <3>1 DEF Unevaluated, WithDependencySkips, f
    <3> QED
      BY <2>3, <3>2 DEF Complete, Unevaluated
  <2> QED
    BY <1>2, <2>1, <2>2, <2>3, <2>4 DEF Goal, NothingHeldAt, w
<1>13. CASE MissingOperations
  <2>1. /\ At("idle") /\ released' = released /\ View' = View /\ View = row
        /\ \/ section' = section \/ section' = [pc |-> "enqueue"]
           \/ section' = [pc |-> "finalize"] /\ Complete(row)
    BY <1>13 DEF MissingOperations, View, SessionOK, At
  <2>2. CASE section' = section \/ section' = [pc |-> "enqueue"]
    BY <1>5, <2>1, <2>2 DEF At, Goal
  <2>3. CASE section' = [pc |-> "finalize"] /\ Complete(row)
    BY <1>2, <2>1, <2>3 DEF Goal, NothingHeldAt
  <2> QED
    BY <2>1, <2>2, <2>3
<1>14. CASE ReleaseWithoutGates
  BY <1>2, <1>14 DEF ReleaseWithoutGates, NothingHeldAt, At
<1>15. ASSUME CleanFiles
       PROVE  Goal
  <2>1. /\ UNCHANGED <<session, section, released>> /\ session = NoRow
        /\ row' = [row EXCEPT !.tombstone = TRUE]
    BY <1>15 DEF CleanFiles
  <2>2. Alike(row, row')
    BY <1>3, <2>1 DEF IsRow
  <2> QED
    BY <1>4, <2>1, <2>2 DEF View
<1> QED
  BY <1>6, <1>7, <1>8, <1>9, <1>11, <1>12, <1>13, <1>14, <1>15 DEF Next, Section, Score, Goal
-----------------------------------------------------------------------------
(* Theorems *)

LEMMA InitInv ==
  ASSUME Init
  PROVE  IInv
<1>1. PICK case \in Cases : AcceptsDependencies(case.depends) /\ ds = SubtaskGate(case)
  BY DEF Init
<1>2. DatasetOK
  <2>1. IsCase(case)
    BY DEF IsCase, Reducible
  <2> QED
    BY <1>1, <2>1, SubtaskGateIs DEF DatasetOK
<1> DEFINE e == [t \in TestcasesOf(ds) |-> "none"]
<1>3. e \in [TestcasesOf(ds) -> EvaluationState]
      /\ \A t \in TestcasesOf(ds) : e[t] \notin {"skipped", "dependency"}
  BY DEF EvaluationState
<1> HIDE DEF e
<1>4. row = [compilation |-> "none", compilationTries |-> 0, evals |-> e,
             evaluated |-> FALSE, evaluationTries |-> 0, score |-> NoScore,
             tombstone |-> FALSE]
  BY DEF Init, BlankRow, e
<1>5. IsRow(row) /\ TriesOK(row) /\ CompilesOK(row) /\ SkipsOK(row.evals)
  BY <1>3, <1>4 DEF IsRow, IsScore, TriesOK, CompilesOK, SkipsOK, ScreeningSkipsOK,
     DependencySkipsOK, Init
<1>6. TypeOK
  <2>1. queued \in BOOLEAN /\ released \in BOOLEAN
    BY Zenon DEF Init
  <2>2. /\ rescore \in 0 .. revision /\ asked \in 0 .. revision
        /\ revision \in 0 .. MaxRevisions /\ faults \in 0 .. MaxFaults
    BY DEF Init
  <2>3. /\ session = NoRow /\ todo \subseteq {Compile} \cup TestcasesOf(ds)
        /\ built \subseteq todo \ {Compile}
        /\ section.pc = "idle" /\ scorer.pc = "idle"
    BY DEF Init, Idle
  <2> QED
    BY <1>5, <2>1, <2>2, <2>3 DEF TypeOK
<1>7. SectionOK /\ ScorerOK /\ SessionOK
  BY DEF SectionOK, ScorerOK, SessionOK, Init, Idle
<1>8. NothingToRun /\ OutcomeIsComplete /\ ScoreIsOfTheseEvaluations /\ LockedIsOfThisRow
  BY <1>4 DEF NothingToRun, OutcomeIsComplete, ScoreIsOfTheseEvaluations, LockedIsOfThisRow,
     Init, Idle
<1>9. GatesHold
  BY DEF GatesHold, Init
<1>10. NothingIsHeld
  BY DEF NothingIsHeld, NothingHeldAt, Init, Idle
<1> QED
  BY <1>2, <1>5, <1>6, <1>7, <1>8, <1>9, <1>10 DEF IInv, Init

LEMMA StepInv ==
  ASSUME IInv, [Next]_vars
  PROVE  IInv'
<1>0. /\ TypeOK /\ DatasetOK /\ TriesOK(row) /\ (session # NoRow => TriesOK(session))
      /\ SectionOK /\ ScorerOK /\ SessionOK
      /\ CompilesOK(row) /\ (session # NoRow => CompilesOK(session))
      /\ NothingToRun /\ OutcomeIsComplete /\ ScoreIsOfTheseEvaluations /\ LockedIsOfThisRow
      /\ SkipsOK(row.evals) /\ (session # NoRow => SkipsOK(session.evals))
      /\ GatesHold /\ NothingIsHeld
  BY DEF IInv
<1>1. DatasetOK' /\ SectionOK' /\ ScorerOK' /\ SessionOK'
  BY <1>0, DatasetStep, SectionStep, ScorerStep, SessionStep
<1>2. /\ IsRow(row)' /\ TriesOK(row)'
      /\ (session = NoRow \/ (IsRow(session) /\ TriesOK(session)))'
  BY <1>0, RowStep
<1>3. TypeOK'
  BY <1>0, <1>1, <1>2, FaultsStep, TypeStep
<1>4. CompilesOK(row)' /\ (session # NoRow => CompilesOK(session))' /\ NothingToRun'
  BY <1>0, CompilesStep, NothingToRunStep
<1>5. OutcomeIsComplete' /\ ScoreIsOfTheseEvaluations' /\ LockedIsOfThisRow'
  BY <1>0, ScoresStep
<1>6. SkipsOK(row.evals)' /\ (session # NoRow => SkipsOK(session.evals))' /\ GatesHold'
  BY <1>0, SkipsStep, GatesHoldStep
<1>7. NothingIsHeld'
  BY <1>0, NothingIsHeldStep
<1> QED
  BY <1>1, <1>2, <1>3, <1>4, <1>5, <1>6, <1>7, Zenon DEF IInv

(***************************************************************************)
(* The inductive invariant: who may be where when a session is open or the *)
(* scorer holds the row, and what the row then says.                       *)
(***************************************************************************)
THEOREM Invariance == Spec => []IInv
  BY InitInv, StepInv, PTL DEF Spec

(***************************************************************************)
(* Every step keeps the row, the flushed row and the state of the two      *)
(* services within their types, for any dataset.                           *)
(***************************************************************************)
THEOREM TypeCorrect == Spec => []TypeOK
<1>1. IInv => TypeOK
  BY DEF IInv
<1> QED
  BY <1>1, Invariance, PTL

(***************************************************************************)
(* The outcome of write_results and of submission_enqueue_operations is    *)
(* stored only beside an evaluation for every testcase.                    *)
(***************************************************************************)
THEOREM OutcomesAreComplete == Spec => []OutcomeIsComplete
<1>1. IInv => OutcomeIsComplete
  BY DEF IInv
<1> QED
  BY <1>1, Invariance, PTL

(***************************************************************************)
(* The score that _score_sync commits is that of the evaluations stored    *)
(* beside it, whatever EvaluationService wrote, skipped or invalidated     *)
(* while it was computed.                                                  *)
(***************************************************************************)
THEOREM ScoresAreOfTheirRow == Spec => []ScoreIsOfTheseEvaluations
<1>1. IInv => ScoreIsOfTheseEvaluations
  BY DEF IInv
<1> QED
  BY <1>1, Invariance, PTL

(***************************************************************************)
(* _advance_two_phase skips a testcase only if a screening testcase of its *)
(* group fails when run, on aligned datasets and on others.                *)
(***************************************************************************)
THEOREM SkipsHaveACause == Spec => []ScreeningSkipsHaveACause
<1>1. IInv => ScreeningSkipsHaveACause
  BY DEF IInv, SkipsOK, ScreeningSkipsOK, ScreeningSkipsHaveACause
<1> QED
  BY <1>1, Invariance, PTL

(***************************************************************************)
(* submission_get_operations keeps both gates: a testcase goes to the      *)
(* workers only if the screening testcases of its group were run and       *)
(* passed, and the subtasks that one of its own depends on are worth       *)
(* something in full grading; but for those released without the gates.    *)
(***************************************************************************)
THEOREM GatesAreKept == Spec => []GatesHold
<1>1. IInv => GatesHold
  BY DEF IInv
<1> QED
  BY <1>1, Invariance, PTL

(***************************************************************************)
(* What _advance_two_phase and _advance_dependencies skip does not change  *)
(* the score: for every dataset that follows the alignment rule, it is     *)
(* that of running every testcase.                                         *)
(***************************************************************************)
THEOREM SkippingKeepsTheScore == Spec => []ScoreIsThatOfFullGrading
<1>1. IInv => ScoreIsThatOfFullGrading
  <2>1. SUFFICES ASSUME IInv, row.score # NoScore, row.evaluated, Aligned(ds)
                 PROVE  row.score[1] = ScoresOfFullGrading(ds)
    BY DEF ScoreIsThatOfFullGrading
  <2>2. row.score[1] = SubtaskScores(ds, row.evals)
    BY <2>1 DEF IInv, ScoreIsOfTheseEvaluations, ComputeScore
  <2>3. /\ IsDataset(ds) /\ OrderOK(ds)
        /\ ScreeningSkipsOK(ds, row.evals) /\ DependencySkipsOK(ds, row.evals)
    BY <2>1 DEF IInv, DatasetOK, SkipsOK
  <2>4. row.evals \in EvaluationsOf(ds)
    BY <2>1, RowFields DEF IInv, TypeOK, EvaluationsOf
  <2>5. \A t \in TestcasesOf(ds) : row.evals[t] # "none"
    BY <2>1 DEF IInv, OutcomeIsComplete, Complete, Unevaluated
  <2> QED
    BY <2>1, <2>2, <2>3, <2>4, <2>5, ScoresAreFull
<1> QED
  BY <1>1, Invariance, PTL

(***************************************************************************)
(* On a dataset that follows the alignment rule, with every testcase in a  *)
(* subtask, submission_enqueue_operations never has to release testcases   *)
(* without the gates: whatever failed, was cut short or invalidated, the   *)
(* two gates do not wait for each other.                                   *)
(***************************************************************************)
THEOREM GatesDoNotHoldEachOther == Spec => []GatesNeverHoldEachOther
<1>1. IInv => GatesNeverHoldEachOther
  BY DEF IInv, NothingIsHeld, GatesNeverHoldEachOther
<1> QED
  BY <1>1, Invariance, PTL

(***************************************************************************)
(* A result that failed as often as MAX_COMPILATION_TRIES or               *)
(* MAX_EVALUATION_TRIES allow is sent to no worker again until it is       *)
(* invalidated, but for its compilation when write_results_one_row finds   *)
(* the tombstone in place of its executables.                              *)
(***************************************************************************)
THEOREM GivenUpStaysGivenUp == Spec => GivenUpIsLeftAlone
<1>1. ASSUME IInv, [Next]_vars
      PROVE  [GivenUp(View) => \/ todo' \subseteq todo
                               \/ row.tombstone /\ todo' \subseteq todo \cup {Compile}]_vars
  <2>1. SUFFICES ASSUME GivenUp(View)
                 PROVE  \/ todo' \subseteq todo
                        \/ row.tombstone /\ todo' \subseteq todo \cup {Compile}
    OBVIOUS
  <2>2. IsRow(View) /\ SessionOK /\ TypeOK /\ DatasetOK
    BY <1>1, ViewIsRow DEF IInv
  <2>3. ~ToCompile(View) /\ ~ToEvaluate(View)
    BY <2>1, <2>2, RowFields DEF GivenUp, ToCompile, ToEvaluate
  <2> QED
    BY <1>1, <2>2, <2>3, TodoCases
<1> QED
  BY <1>1, Invariance, PTL DEF Spec, GivenUpIsLeftAlone
=============================================================================
