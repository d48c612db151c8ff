------------------------------ MODULE Results ------------------------------
(***************************************************************************)
(* The life of one submission result: compiled, evaluated in two phases    *)
(* and subtask by subtask, finalized, scored, invalidated and judged again,*)
(* by EvaluationService and ScoringService over the same database row      *)
(* (cms/db/submission.py).                                                 *)
(*                                                                         *)
(* EvaluationService does this work in sections that hold post_finish_lock,*)
(* one at a time (`section'), each of several commits, and may stop, or    *)
(* lose the database, between any two of them.  Where the operations are   *)
(* between the queue, the workers and the result cache is the matter of    *)
(* EvaluationService.tla; here `todo' is the set of operations that are    *)
(* somewhere there.  ScoringService runs on its own, and meets             *)
(* EvaluationService only in the row and its lock.                         *)
(***************************************************************************)
EXTENDS SubtaskGates

CONSTANTS
    Cases,            \* datasets (SubtaskGates) and how a submission does on them
    Compile,          \* the compilation operation
    MaxTries,         \* MAX_COMPILATION_TRIES and MAX_EVALUATION_TRIES
    MaxFaults,        \* failures, crashes, invalidations and cleanings, together
    MaxRevisions      \* changes of the score type parameters by an admin

ASSUME ResultsAssumption ==
    /\ MaxTries \in Nat /\ MaxFaults \in Nat /\ MaxRevisions \in Nat
    /\ \A case \in Cases :
          /\ IsFiniteSet(TestcasesOf(case))
          /\ case.screening \subseteq TestcasesOf(case)
          /\ case.outcome \in [TestcasesOf(case) -> Nat]
          /\ case.target \in Seq(SUBSET TestcasesOf(case))
          /\ case.reduce # "GroupThreshold" => \A i \in Subtasks(case) : case.target[i] # {}
          /\ case.depends \in Seq(SUBSET Nat)
          /\ Len(case.depends) = Len(case.target)
          /\ case.reduce \in {"GroupMin", "GroupMul", "GroupThreshold"}
          /\ case.twoPhase \in BOOLEAN

VARIABLES
    ds,         \* the dataset, and what the submission does on it
    row,        \* the committed SubmissionResult and its evaluations
    session,    \* what EvaluationService has flushed and not committed, or NoRow
    section,    \* where EvaluationService is in its section
    todo,       \* operations queued, at a worker, or in the result cache
    queued,     \* whether ScoringService has the scoring operation in its queue
    scorer,     \* the scoring operation in execution
    rescore,    \* the revision for which a rescore is blanking the score, or 0
    revision,   \* which score type parameters are in the database
    asked,      \* the revision that the last answered rescore asked for
    released,   \* whether testcases were released without the gates
    built,      \* evaluations in todo when the executables became tombstones
    faults      \* spent of MaxFaults

vars == <<ds, row, session, section, todo, queued, scorer, rescore,
          revision, asked, released, built, faults>>

esVars == <<session, section, todo, released, built>>
ssVars == <<queued, scorer, rescore, asked>>

NoScore == <<>>
NoRow == [compilation |-> "absent"]

BlankRow(d) ==
    [compilation |-> "none", compilationTries |-> 0,
     evals |-> [t \in TestcasesOf(d) |-> "none"],
     evaluated |-> FALSE, evaluationTries |-> 0, score |-> NoScore,
     tombstone |-> FALSE]    \* whether its executables are tombstones

Idle == [pc |-> "idle"]

Init ==
    /\ \E case \in Cases : AcceptsDependencies(case.depends) /\ ds = SubtaskGate(case)
    /\ row = BlankRow(ds)
    /\ session = NoRow
    /\ section = Idle
    /\ todo \in {{}, {Compile}}      \* new_submission lost, or received
    /\ queued = FALSE
    /\ scorer = Idle
    /\ rescore = 0
    /\ revision = 0
    /\ asked = 0
    /\ released = FALSE
    /\ built = {}
    /\ faults = 0

Fault(n) == faults + n <= MaxFaults /\ faults' = faults + n

-----------------------------------------------------------------------------
(* What the row says (cms/db/submission.py, esoperations.py) *)

ToCompile(r) == r.compilation = "none" /\ r.compilationTries < MaxTries

(* Mutant: the limit of tries is not looked at.                            *)
ToEvaluateForEver(r) == r.compilation = "ok" /\ ~r.evaluated

ToEvaluate(r) ==
    /\ r.compilation = "ok"
    /\ ~r.evaluated
    /\ r.evaluationTries < MaxTries

NeedsScoring(r) ==
    (r.compilation = "fail" \/ r.evaluated) /\ r.score = NoScore

Operations(r) ==
    CASE ToCompile(r) -> {Compile}
      [] ToEvaluate(r) -> ReleasedTestcases(ds, r.evals)
      [] OTHER -> {}

(* What a dataset without a gate would be given: the plain SQL of          *)
(* get_submissions_operations.                                             *)
PlainOperations(r) ==
    CASE ToCompile(r) -> {Compile}
      [] ToEvaluate(r) -> Unevaluated(ds, r.evals)
      [] OTHER -> {}

Complete(r) == Unevaluated(ds, r.evals) = {}

(* Mutant: the blank score is not written if the row loaded had no score.  *)
InvalidateScoreIfSeen(r, seen) ==
    IF seen = NoScore THEN r ELSE [r EXCEPT !.score = NoScore]

(* invalidate_score writes the blank whatever the loaded row had.          *)
InvalidateScore(r, seen) == [r EXCEPT !.score = NoScore]

InvalidateEvaluation(r, seen, T) ==
    [InvalidateScore(r, seen) EXCEPT
        !.evaluated = FALSE,
        !.evaluationTries = 0,
        !.evals = [t \in DOMAIN r.evals |-> IF t \in T THEN "none" ELSE r.evals[t]]]

InvalidateCompilation(r, seen) ==
    [InvalidateEvaluation(r, seen, TestcasesOf(ds)) EXCEPT
        !.compilation = "none", !.compilationTries = 0, !.tombstone = FALSE]

-----------------------------------------------------------------------------
(* Sections of EvaluationService *)

(* What the session of the section sees, and its commit.                   *)
View == IF session = NoRow THEN row ELSE session
Commit(r) == row' = r /\ session' = NoRow

At(pc) == section.pc = pc
Goto(pc) == section' = [section EXCEPT !.pc = pc]

(* A notification to ScoringService: received, or lost.                    *)
NotifyScoring == queued' \in {TRUE, queued}

(* What writes to the row itself waits for its lock.                       *)
RowIsFree == session = NoRow /\ scorer.pc # "locked"

(* write_results, of the result of a compilation: with job_success, or not.*)
(* to_submission blanks the row before, and with it the evaluations that   *)
(* were stored after a tombstone had the compilation invalidated.          *)
WriteCompilation(success) ==
    /\ At("idle") /\ RowIsFree
    /\ Compile \in todo
    /\ todo' = todo \ {Compile}
    /\ built' = IF success THEN {} ELSE built
    /\ IF success
       THEN /\ row' = [InvalidateCompilation(row, row.score) EXCEPT
                          !.compilation = IF ds.compiles THEN "ok" ELSE "fail"]
            /\ UNCHANGED faults
       ELSE /\ row' = [row EXCEPT !.compilationTries = @ + 1]
            /\ Fault(1)
    /\ section' = [pc |-> "compilationEnded"]
    /\ UNCHANGED <<ds, session, queued, scorer, rescore, revision, asked, released>>

(* write_results, of the results of the evaluations in batch, those in     *)
(* failed without job_success: its first commit.  A result for a testcase  *)
(* that has an evaluation is an IntegrityError, and ignored.  Those in     *)
(* outdated report a tombstone, of executables that were compiled again    *)
(* since or are to be: nothing is written, no try is counted.  Without the *)
(* executables only a job built before can succeed.                        *)
CanSucceed == IF row.compilation = "ok" /\ ~row.tombstone THEN todo ELSE built

WriteEvaluations(batch, failed, outdated) ==
    /\ At("idle")
    /\ batch # {} /\ batch \subseteq todo \ {Compile}
    /\ failed \subseteq batch /\ outdated \subseteq batch \ failed
    /\ batch \ (failed \cup outdated) \subseteq CanSucceed
    /\ outdated # {} => ~row.tombstone
    /\ Fault(Cardinality(failed) + Cardinality(outdated))
    /\ todo' = todo \ batch
    /\ built' = built \ batch
    /\ row' = [row EXCEPT
                !.evals = [t \in DOMAIN row.evals |->
                    IF t \in batch \ (failed \cup outdated) /\ row.evals[t] = "none"
                    THEN "graded" ELSE row.evals[t]],
                !.evaluationTries = @ + Cardinality(failed)]
    /\ section' = [pc |-> "screening", next |-> "outcome"]
    /\ UNCHANGED <<ds, session, queued, scorer, rescore, revision, asked, released>>

(* cmsCleanFiles --tombstone puts the tombstone for every executable.      *)
CleanFiles ==
    /\ row.compilation = "ok" /\ ~row.tombstone
    /\ session = NoRow      \* else it waits for executables to be deleted
    /\ Fault(1)
    /\ row' = [row EXCEPT !.tombstone = TRUE]
    /\ built' = todo \ {Compile}
    /\ UNCHANGED <<ds, session, section, todo, queued, scorer, rescore, revision, asked,
                   released>>

(* write_results, with a result in batch that reports the tombstone: the   *)
(* row is blanked, whatever it says and however often it failed, and the   *)
(* compilation goes to the queue.  Operations in todo are not taken back.  *)
(* Only the results in late, which come after it in the batch, are left.   *)
WriteTombstone(batch, late, failed) ==
    /\ At("idle") /\ RowIsFree
    /\ row.tombstone
    /\ batch \subseteq todo \ {Compile}
    /\ late \subseteq batch /\ late # batch /\ failed \subseteq late
    /\ late \ failed \subseteq built
    /\ Fault(Cardinality(failed))
    /\ built' = built \ batch
    /\ LET blank == InvalidateCompilation(row, row.score)
       IN /\ todo' = (todo \ batch) \cup Operations(blank)
          /\ row' = [blank EXCEPT
                      !.evals = [t \in DOMAIN blank.evals |->
                          IF t \in late \ failed THEN "graded" ELSE blank.evals[t]],
                      !.evaluationTries = Cardinality(failed)]
    /\ section' = [pc |-> "screening", next |-> "outcome"]
    /\ UNCHANGED <<ds, session, queued, scorer, rescore, revision, asked, released>>

(* _write_results_sync drops a batch on a lost connection; what a          *)
(* tombstone in it had pushed is handed to the loop all the same.          *)
DropBatch(batch) ==
    /\ At("idle")
    /\ batch # {} /\ batch \subseteq todo
    /\ Fault(1)
    /\ built' = built \ batch
    /\ \/ todo' = todo \ batch
       \/ /\ row.tombstone /\ RowIsFree /\ batch # {Compile}
          /\ todo' = (todo \ batch) \cup Operations(InvalidateCompilation(row, row.score))
    /\ UNCHANGED <<ds, row, session, section, queued, scorer, rescore, revision, asked,
                   released>>

(* _advance_two_phase, with a commit of its own if it skips anything.      *)
AdvanceTwoPhase ==
    /\ At("screening")
    /\ LET evals == WithScreeningSkips(ds, View.evals)
       IN IF evals = View.evals THEN UNCHANGED <<row, session>>
          ELSE Commit([View EXCEPT !.evals = evals])
    /\ Goto("dependencies")
    /\ UNCHANGED <<ds, todo, queued, scorer, rescore, revision, asked, released,
                   built, faults>>

(* _advance_dependencies, likewise.                                        *)
AdvanceDependencies ==
    /\ At("dependencies")
    /\ LET evals == WithDependencySkips(ds, View.evals)
       IN IF evals = View.evals THEN UNCHANGED <<row, session>>
          ELSE Commit([View EXCEPT !.evals = evals])
    /\ Goto(section.next)
    /\ UNCHANGED <<ds, todo, queued, scorer, rescore, revision, asked, released,
                   built, faults>>

(* The second commit of write_results: the outcome, if no testcase is left.*)
SetOutcome ==
    /\ At("outcome")
    /\ row' = IF Complete(row) THEN [row EXCEPT !.evaluated = TRUE] ELSE row
    /\ Goto("evaluationEnded")
    /\ UNCHANGED <<ds, session, todo, queued, scorer, rescore, revision, asked,
                   released, built, faults>>

(* compilation_ended                                                       *)
CompilationEnded ==
    /\ At("compilationEnded")
    /\ IF row.compilation = "fail" THEN NotifyScoring ELSE UNCHANGED queued
    /\ section' = [pc |-> "enqueue"]
    /\ UNCHANGED <<ds, row, session, todo, scorer, rescore, revision, asked, released,
                   built, faults>>

(* The end of write_results for evaluations: evaluation_ended, or what the *)
(* gates now release.                                                      *)
HasGates == ds.twoPhase \/ \E i \in Subtasks(ds) : ds.depends[i] # {}

EvaluationEnded ==
    /\ At("evaluationEnded")
    /\ IF row.evaluated THEN NotifyScoring ELSE UNCHANGED queued
    /\ section' = IF row.evaluated \/ HasGates THEN [pc |-> "enqueue"] ELSE Idle
    /\ UNCHANGED <<ds, row, session, todo, scorer, rescore, revision, asked, released,
                   built, faults>>

(* The end of a section: a commit of what is flushed, if anything is.      *)
EndSection == section' = Idle /\ Commit(View)

(* submission_enqueue_operations, when there are operations to enqueue.    *)
EnqueueOperations ==
    /\ At("enqueue")
    /\ Operations(View) # {}
    /\ todo' = todo \cup Operations(View)
    /\ EndSection
    /\ UNCHANGED <<ds, queued, scorer, rescore, revision, asked, released, built,
                   faults>>

(* submission_enqueue_operations, when there are none: it lets the gates   *)
(* skip what they can, and then finalizes.                                 *)
EnqueueNothing ==
    /\ At("enqueue")
    /\ Operations(View) = {}
    /\ section' = [pc |-> "screening", next |-> "finalize"]
    /\ UNCHANGED <<ds, row, session, todo, queued, scorer, rescore, revision,
                   asked, released, built, faults>>

(* The last part of submission_enqueue_operations: a result with every     *)
(* evaluation is finalized, else the gates hold each other and all goes.   *)
FinalizeAnyway ==     \* Mutant: finalizes what is not complete.
    /\ At("finalize")
    /\ ToEvaluate(View)
    /\ Commit([View EXCEPT !.evaluated = TRUE])
    /\ NotifyScoring
    /\ section' = Idle
    /\ UNCHANGED <<ds, todo, scorer, rescore, revision, asked, released, built, faults>>

FinalizeCompleteResult ==
    /\ At("finalize")
    /\ ToEvaluate(View) /\ Complete(View)
    /\ Commit([View EXCEPT !.evaluated = TRUE])
    /\ NotifyScoring
    /\ section' = Idle
    /\ UNCHANGED <<ds, todo, scorer, rescore, revision, asked, released, built, faults>>

ReleaseWithoutGates ==
    /\ At("finalize")
    /\ ToEvaluate(View) /\ ~Complete(View)
    /\ todo' = todo \cup Unevaluated(ds, View.evals)
    /\ released' = TRUE
    /\ EndSection
    /\ UNCHANGED <<ds, queued, scorer, rescore, revision, asked, built, faults>>

NothingToFinalize ==
    /\ At("finalize")
    /\ ~ToEvaluate(View)
    /\ EndSection
    /\ UNCHANGED <<ds, todo, queued, scorer, rescore, revision, asked, released,
                   built, faults>>

(* _missing_operations_sync: with gates, the compilations by SQL and every *)
(* result to evaluate through submission_enqueue_operations; without, all  *)
(* the operations by SQL, and the results with every evaluation finalized. *)
SweepByPlainSql ==     \* Mutant: by SQL with gates too.
    /\ At("idle")
    /\ ToCompile(row) \/ ToEvaluate(row)
    /\ todo' = todo \cup PlainOperations(row)
    /\ section' = IF ToEvaluate(row) /\ Complete(row)
                  THEN [pc |-> "finalize"] ELSE section
    /\ UNCHANGED <<ds, row, session, queued, scorer, rescore, revision, asked,
                   released, built, faults>>

SweepForgettingOutcomes ==     \* Mutant: nothing is finalized without gates.
    /\ At("idle")
    /\ IF HasGates /\ ToEvaluate(row)
       THEN section' = [pc |-> "enqueue"] /\ UNCHANGED todo
       ELSE todo' = todo \cup PlainOperations(row) /\ UNCHANGED section
    /\ UNCHANGED <<ds, row, session, queued, scorer, rescore, revision, asked,
                   released, built, faults>>

MissingOperations ==
    /\ At("idle")
    /\ ToCompile(row) \/ ToEvaluate(row)
    /\ IF HasGates
       THEN IF ToCompile(row)
            THEN todo' = todo \cup {Compile} /\ UNCHANGED section
            ELSE section' = [pc |-> "enqueue"] /\ UNCHANGED todo
       ELSE /\ todo' = todo \cup PlainOperations(row)
            /\ section' = IF ToEvaluate(row) /\ Complete(row)
                          THEN [pc |-> "finalize"] ELSE section
    /\ UNCHANGED <<ds, row, session, queued, scorer, rescore, revision, asked,
                   released, built, faults>>

(* invalidate_submission: takes the operations back, and loads the row.    *)
(* T are the testcases whose evaluations go.                               *)
InvalidateLoad(level, T) ==
    /\ At("idle")
    /\ Fault(1)
    /\ todo' = IF level = "compilation" THEN {} ELSE todo \cap {Compile}
    /\ built' = {}
    /\ section' = [pc |-> "loaded", level |-> level, testcases |-> T, seen |-> row.score]
    /\ UNCHANGED <<ds, row, session, queued, scorer, rescore, revision, asked,
                   released>>

(* The flush, which needs the lock of the row, and keeps it.               *)
InvalidateFlush ==
    /\ At("loaded")
    /\ RowIsFree
    /\ session' = IF section.level = "compilation"
                  THEN InvalidateCompilation(row, section.seen)
                  ELSE InvalidateEvaluation(row, section.seen, section.testcases)
    /\ section' = [pc |-> "enqueue"]
    /\ UNCHANGED <<ds, row, todo, queued, scorer, rescore, revision, asked, released,
                   built, faults>>

(* EvaluationService stops and starts again: only commits stay.  Or it     *)
(* loses the database in a section, which ends there; if it does in the    *)
(* last commit, what the section pushed is handed to the loop all the same.*)
StopES ==
    /\ Fault(1)
    /\ session' = NoRow
    /\ section' = Idle
    /\ todo' = {}
    /\ built' = {}
    /\ UNCHANGED <<ds, row, queued, scorer, rescore, revision, asked, released>>

CutSection ==
    /\ ~At("idle")
    /\ Fault(1)
    /\ session' = NoRow
    /\ section' = Idle
    /\ UNCHANGED <<ds, row, todo, queued, scorer, rescore, revision, asked,
                   released, built>>

CutCommit ==
    /\ session # NoRow
    /\ \/ /\ At("enqueue")
          /\ todo' = todo \cup Operations(session)
          /\ UNCHANGED released
       \/ /\ At("finalize") /\ ToEvaluate(session) /\ ~Complete(session)
          /\ todo' = todo \cup Unevaluated(ds, session.evals)
          /\ released' = TRUE
    /\ Fault(1)
    /\ session' = NoRow
    /\ section' = Idle
    /\ UNCHANGED <<ds, row, queued, scorer, rescore, revision, asked, built>>

-----------------------------------------------------------------------------
(* ScoringService *)

(* _score_sync takes the operation and loads the dataset, parameters       *)
(* included.                                                               *)
ScoreBegin ==
    /\ queued /\ scorer = Idle
    /\ queued' = FALSE
    /\ scorer' = [pc |-> "begun", revision |-> revision]
    /\ UNCHANGED <<ds, row, rescore, revision, asked, faults, esVars>>

(* compute_score: a result that did not compile is worth 0.                *)
ComputeScoreOfEvaluated(r) ==     \* Mutant: or is worth nothing at all.
    IF r.evaluated THEN SubtaskScores(ds, r.evals) ELSE <<>>

ComputeScore(r) ==
    IF r.evaluated THEN SubtaskScores(ds, r.evals)
                   ELSE [i \in Subtasks(ds) |-> 0]

(* It reads the row with its lock (FOR NO KEY UPDATE), or waits for it;    *)
(* then it scores the row, if that needs it.                               *)
ReadAnyway(r) == scorer.pc = "begun"     \* Mutant: without the lock.

MayRead(r) == scorer.pc = "begun" /\ session = NoRow

ScoreRead ==
    /\ MayRead(row)
    /\ scorer' = IF NeedsScoring(row)
                 THEN [pc |-> "locked",
                       score |-> <<ComputeScore(row), scorer.revision>>]
                 ELSE Idle
    /\ UNCHANGED <<ds, row, queued, rescore, revision, asked, faults, esVars>>

(* The commit; it writes the columns of the score only.                    *)
ScoreCommit ==
    /\ scorer.pc = "locked" /\ session = NoRow
    /\ row' = [row EXCEPT !.score = scorer.score]
    /\ scorer' = Idle
    /\ UNCHANGED <<ds, queued, rescore, revision, asked, faults, esVars>>

(* _missing_operations of ScoringService.                                  *)
MissingScores ==
    /\ NeedsScoring(row) /\ ~queued
    /\ queued' = TRUE
    /\ UNCHANGED <<ds, row, scorer, rescore, revision, asked, faults, esVars>>

(* An admin changes the parameters, and asks for a rescore: if the row is  *)
(* scored, blank it, commit and enqueue it.                                *)
ChangeParameters ==
    /\ revision < MaxRevisions
    /\ revision' = revision + 1
    /\ UNCHANGED <<ds, row, faults, esVars, ssVars>>

RescoreLoad ==
    /\ rescore = 0 /\ asked < revision
    /\ IF row.score = NoScore
       THEN asked' = revision /\ UNCHANGED rescore
       ELSE rescore' = revision /\ UNCHANGED asked
    /\ UNCHANGED <<ds, row, queued, scorer, revision, faults, esVars>>

RescoreBlank ==
    /\ rescore # 0 /\ RowIsFree
    /\ row' = [row EXCEPT !.score = NoScore]
    /\ queued' = TRUE
    /\ asked' = rescore
    /\ rescore' = 0
    /\ UNCHANGED <<ds, scorer, revision, faults, esVars>>

StopSS ==
    /\ Fault(1)
    /\ queued' = FALSE
    /\ scorer' = Idle
    /\ rescore' = 0
    /\ UNCHANGED <<ds, row, revision, asked, esVars>>

-----------------------------------------------------------------------------
Section ==
    \/ AdvanceTwoPhase \/ AdvanceDependencies \/ SetOutcome
    \/ CompilationEnded \/ EvaluationEnded
    \/ EnqueueOperations \/ EnqueueNothing
    \/ FinalizeCompleteResult \/ ReleaseWithoutGates \/ NothingToFinalize
    \/ InvalidateFlush

Write ==
    \/ \E success \in BOOLEAN : WriteCompilation(success)
    \/ \E batch \in SUBSET (todo \ {Compile}) : \E failed, other \in SUBSET batch :
          WriteEvaluations(batch, failed, other) \/ WriteTombstone(batch, other, failed)

Invalidate ==
    \/ InvalidateLoad("compilation", TestcasesOf(ds))
    \/ InvalidateLoad("evaluation", TestcasesOf(ds))
    \/ \E t \in TestcasesOf(ds) : InvalidateLoad("evaluation", {t})

(* A batch in which every job succeeded, or met the tombstone.             *)
WriteAnswers ==
    \/ WriteCompilation(TRUE)
    \/ \E batch \in SUBSET (todo \ {Compile}) :
          \/ WriteEvaluations(batch, {}, {})
          \/ \E late \in SUBSET batch : WriteTombstone(batch, late, {})

Score == ScoreBegin \/ ScoreRead \/ ScoreCommit

Next ==
    \/ Section \/ Write \/ Invalidate \/ MissingOperations
    \/ \E batch \in SUBSET todo : DropBatch(batch)
    \/ StopES \/ CutSection \/ CutCommit \/ CleanFiles
    \/ Score \/ MissingScores \/ RescoreBlank \/ ChangeParameters \/ RescoreLoad \/ StopSS

Spec == Init /\ [][Next]_vars

(* The sections are finite pieces of synchronous code, workers answer      *)
(* (WorkerPool.tla takes back the operations of those that do not), the    *)
(* sweepers run every 117 s and every 347 s, and post_finish_lock is free  *)
(* between two sections, so that a writer gets it although sweeps come     *)
(* again and again.                                                        *)
Fairness ==
    /\ WF_vars(Section)
    /\ WF_vars(MissingOperations)
    /\ SF_vars(WriteAnswers)
    /\ WF_vars(Score)
    /\ WF_vars(MissingScores) /\ WF_vars(RescoreBlank)

FairSpec == Spec /\ Fairness

-----------------------------------------------------------------------------
(* Properties *)

(* A score is one that compute_score gives of some evaluations.            *)
IsScore(score) ==
    \/ score = NoScore
    \/ score \in ({SubtaskScores(ds, evals) :
                      evals \in [TestcasesOf(ds) -> EvaluationState]}
                  \cup {[i \in Subtasks(ds) |-> 0]}) \X (0 .. MaxRevisions)

IsRow(r) ==
    /\ r \in [compilation : {"none", "ok", "fail"},
              compilationTries : 0 .. MaxFaults,
              evals : [TestcasesOf(ds) -> EvaluationState],
              evaluated : BOOLEAN,
              evaluationTries : 0 .. MaxFaults,
              score : {r.score},
              tombstone : BOOLEAN]
    /\ IsScore(r.score)

(* Types of the row and of what the two services hold of it.               *)
TypeOK ==
    /\ IsRow(row)
    /\ session = NoRow \/ IsRow(session)
    /\ todo \subseteq {Compile} \cup TestcasesOf(ds)
    /\ built \subseteq todo \ {Compile}
    /\ queued \in BOOLEAN /\ released \in BOOLEAN
    /\ rescore \in 0 .. revision
    /\ asked \in 0 .. revision /\ revision \in 0 .. MaxRevisions
    /\ faults \in 0 .. MaxFaults
    /\ section.pc \in {"idle", "screening", "dependencies", "outcome", "finalize",
                       "compilationEnded", "evaluationEnded", "enqueue", "loaded"}
    /\ scorer.pc \in {"idle", "begun", "locked"}

(* An outcome is stored only for a result with an evaluation for every     *)
(* testcase: _score_sync would raise on it otherwise, for ever.            *)
OutcomeIsComplete == row.evaluated => Complete(row)

(* A stored score is that of the evaluations stored beside it: never of    *)
(* evaluations that an invalidation removed while _score_sync computed it. *)
ScoreIsOfTheseEvaluations ==
    row.score # NoScore =>
        /\ row.compilation = "fail" \/ row.evaluated
        /\ row.score[1] = ComputeScore(row)

(* On a dataset that follows the alignment rule, whatever the order of the *)
(* results, the failures, the crashes between commits and the reruns, what *)
(* is skipped does not change the score: it is that of running everything. *)
ScoreIsThatOfFullGrading ==
    row.score # NoScore /\ row.evaluated /\ Aligned(ds) =>
        row.score[1] = ScoresOfFullGrading(ds)

(* A testcase that is not a screening one is with the workers only if all  *)
(* the screening testcases of its group were run there and passed, and one *)
(* that all its subtasks hold back by dependencies, only if those of one   *)
(* of them passed; but for those released without the gates.               *)
GatesHold ==
    /\ ~released /\ ds.twoPhase =>
        \A t \in todo \ ({Compile} \cup ds.screening) :
            \A s \in ScreeningOf(ds, ds.group[t]) : ds.outcome[s] > 0
    /\ ~released =>
        \A t \in todo \ {Compile} :
            SubtasksOf(ds, t) # {} =>
                \E i \in SubtasksOf(ds, t) : \A d \in ds.depends[i] :
                    ScoresOfFullGrading(ds)[d] > 0

(* Even on a dataset that breaks the alignment rule, the screening skips a *)
(* testcase only if a screening testcase of its group fails when run: that *)
(* the dependencies skipped one says nothing of the group.                 *)
ScreeningSkipsHaveACause ==
    \A t \in TestcasesOf(ds) :
        row.evals[t] = "skipped" =>
            \E s \in ScreeningOf(ds, ds.group[t]) : ds.outcome[s] = 0

(* The two gates do not hold each other: with the alignment rule and every *)
(* testcase in a subtask, submission_enqueue_operations never has to       *)
(* release testcases without the gates.                                    *)
GatesNeverHoldEachOther ==
    released =>
        \/ ~Aligned(ds)
        \/ \E t \in TestcasesOf(ds) : SubtasksOf(ds, t) = {}

GivenUp(r) ==
    \/ r.compilation = "none" /\ r.compilationTries >= MaxTries
    \/ r.compilation = "ok" /\ ~r.evaluated /\ r.evaluationTries >= MaxTries

(* A result that failed as often as is allowed is left alone until it is   *)
(* invalidated: neither a sweep nor the end of another of its operations   *)
(* sends anything of it to the workers again, but for its compilation once *)
(* an evaluation of it finds the tombstone in place of its executables.    *)
GivenUpIsLeftAlone ==
    [][GivenUp(View) => \/ todo' \subseteq todo
                        \/ row.tombstone /\ todo' \subseteq todo \cup {Compile}]_vars

(* Whatever was lost, cut or invalidated, the result is scored in the end, *)
(* unless its compilation or its evaluation failed as often as is allowed. *)
EventuallyScored == <>[](row.score # NoScore \/ GivenUp(row))

(* ScoringService.invalidate_submission: once it has answered, no score of *)
(* older parameters is left.                                               *)
RescoreIsDone ==
    row.score # NoScore => row.score[2] >= asked

=============================================================================
