--------------------------- MODULE ProxyService ---------------------------
(***************************************************************************)
(* ProxyService: the scores of the contests, forwarded to one ranking.     *)
(*                                                                         *)
(* One ProxyExecutor with its queue; the threads that fill the queue (the  *)
(* notification of a score, the sweeper, reinitialize, regenerate); the    *)
(* ranking as far as its answers depend on it.  A round takes the whole    *)
(* queue, and other threads read, mark and queue while its requests are    *)
(* made.  A thread reads in one step and hands over what it read in later  *)
(* ones, an operation at a time.                                           *)
(*                                                                         *)
(* A round sends at most one request of each type to a namespace, whatever *)
(* the number of entries: the queue is kept here in that combined form,    *)
(* and queueing an operation combines it with what is queued (Combined).   *)
(*                                                                         *)
(* The entity types are abstracted to two: the contest data (contest,      *)
(* tasks, teams, users) and the score of a submission (the submission and  *)
(* its subchange).  A score is its version, 0 being none yet; visibility   *)
(* settings are versions too.  The time a result is not scored, between    *)
(* its invalidation and its new score, is left out.                        *)
(***************************************************************************)
EXTENDS Naturals, FiniteSets

CONSTANTS
    Groups,          \* the ranking groups, each a namespace of the ranking
    Submissions,
    GroupOf,         \* the group of each submission's contest
    MaxScores,       \* how often each submission is scored
    MaxVisibility,   \* how many settings each group goes through
    MayCall,         \* the calls an admin may cause: reinitialize ("save",
                     \* "lost"), dataset_updated ("dataset"), "regenerate"
    MaxCalls,        \* how many of them
    MaxFaults,       \* failed or refused requests, database errors, ...
    MayLose,         \* the scores whose notification may be lost
    NoOne            \* no submission, no group

ASSUME ProxyAssumption ==
    /\ GroupOf \in [Submissions -> Groups]
    /\ NoOne \notin Submissions \cup Groups
    /\ MaxVisibility \in Nat \ {0}
    /\ {MaxScores, MaxCalls, MaxFaults} \subseteq Nat

VARIABLES
    db,         \* the scores and the settings in the database
    notices,    \* submission_scored calls that have not started
    queue,      \* ProxyExecutor._operation_queue, combined by namespace
    round,      \* what the round in execute has still to send
    running,    \* the namespaces of that round
    stalled,    \* those where something could not be delivered
    refused,    \* _refused_in_round
    waiting,    \* the namespaces of _retry_after that are not due
    rejected,   \* _rejected_visibility
    ranking,    \* what each namespace of the ranking holds
    sent,       \* scores_sent_to_rankings
    repair,     \* _groups_to_repair
    threads,    \* the threads of submission_scored, of the sweeper, and of
                \* _reinitialize_sync
    regen,      \* the thread of _regenerate_ranking_sync, its record
    asked,      \* history: the settings queued last, for each group
    lost,       \* history: the groups with data dropped for good
    overtaken,  \* history: submissions whose older score was queued last
    spent       \* how much of each bound is used

executor == <<queue, round, running, stalled, refused, waiting, rejected>>
vars == <<db, notices, executor, ranking, sent, repair, threads, regen,
          asked, lost, overtaken, spent>>

---------------------------------------------------------------------------
(* Operations. *)

\* The operations of a namespace, combined: whether it is emptied, its last
\* settings, whether its contest data is sent, the scores to send (0 is none).
\* `under' is history: the settings queued last before the data, or the oldest
\* that were queued behind it since.
Nothing == [reset |-> FALSE, settings |-> 0, contest |-> FALSE,
            score |-> [s \in Submissions |-> 0], under |-> 0]

HasData(batch) == batch.contest \/ \E s \in Submissions : batch.score[s] # 0

\* What _send_batch_sync makes of a namespace's entries, those of `older'
\* being ahead: the last reset and the last settings; no data queued before a
\* reset; the last of each entity.
Combined(older, newer) ==
    LET data == IF newer.reset THEN Nothing ELSE older
        under == IF HasData(newer) THEN newer.under ELSE data.under
    IN [reset |-> older.reset \/ newer.reset,
        settings |-> IF newer.settings # 0 THEN newer.settings
                                           ELSE older.settings,
        contest |-> data.contest \/ newer.contest,
        score |-> [s \in Submissions |->
                     IF newer.score[s] # 0 THEN newer.score[s]
                                           ELSE data.score[s]],
        under |-> IF newer.settings # 0 /\ newer.settings < under
                  THEN newer.settings ELSE under]

Reset == [Nothing EXCEPT !.reset = TRUE]
Visibility(v) == [Nothing EXCEPT !.settings = v]
ContestData(u) == [Nothing EXCEPT !.contest = TRUE, !.under = u]
ScoreOf(s, v, u) == [Nothing EXCEPT !.score[s] = v, !.under = u]

\* The queue once `batch' is queued for group g.
Queued(q, g, batch) == [q EXCEPT ![g] = Combined(@, batch)]

\* initialize (group mode): all the settings, then all the contest data.
WithInitialData(q) ==
    [g \in Groups |-> Combined(Combined(q[g], Visibility(db.visibility[g])),
                               ContestData(db.visibility[g]))]

Scored == {s \in Submissions : db.score[s] # 0}

---------------------------------------------------------------------------
(* Initial states: the service has just queued its initial data. *)

Empty == [contest |-> FALSE, visibility |-> 0,
          score |-> [s \in Submissions |-> 0]]

EmptyQueue == [g \in Groups |-> Nothing]

NoRegen == [pc |-> "idle", group |-> NoOne, before |-> {}, noted |-> {},
            read |-> Nothing]

Init ==
    /\ db = [score |-> [s \in Submissions |-> 0],
             visibility |-> [g \in Groups |-> 1]]
    /\ notices = {}
    /\ queue = WithInitialData(EmptyQueue)
    /\ round = EmptyQueue
    /\ running = {} /\ stalled = {} /\ refused = {}
    /\ waiting = {} /\ rejected = {}
    /\ ranking = [g \in Groups |-> Empty]
    /\ sent = {} /\ repair = {}
    /\ threads = {} /\ regen = NoRegen
    /\ asked = db.visibility
    /\ lost = {} /\ overtaken = {}
    /\ spent = [faults |-> 0, calls |-> 0]

Spend(n) == /\ spent.faults + n <= MaxFaults
            /\ spent' = [spent EXCEPT !.faults = @ + n]

Call == /\ spent.calls < MaxCalls
        /\ spent' = [spent EXCEPT !.calls = @ + 1]

---------------------------------------------------------------------------
(* The rest of CMS. *)

\* ScoringService commits a score and calls submission_scored; the call may
\* fail or time out (_notify_proxy).
Score(s) ==
    LET v == db.score[s] + 1
    IN /\ v <= MaxScores
       /\ db' = [db EXCEPT !.score[s] = v]
       /\ \/ notices' = notices \cup {s} /\ UNCHANGED spent
          \/ v \in MayLose /\ Spend(1) /\ UNCHANGED notices
    /\ UNCHANGED <<executor, ranking, sent, repair, threads, regen, asked, lost,
                   overtaken>>

---------------------------------------------------------------------------
(* The round of ProxyExecutor.execute. *)

\* The queue is taken out for a round once some namespace in it is due; what
\* is not due goes back as it was.  (A round that leaves only what is not due
\* sleeps until it is, or until something is queued: _wait_for_retry.)
TakeBatch ==
    LET due == {g \in Groups \ waiting : queue[g] # Nothing}
    IN /\ running = {} /\ due # {}
       /\ running' = due
       /\ round' = [g \in Groups |-> IF g \in due THEN queue[g] ELSE Nothing]
       /\ queue' = [g \in Groups |-> IF g \in due THEN Nothing ELSE queue[g]]
       /\ UNCHANGED <<db, notices, stalled, refused, waiting, rejected,
                      ranking, sent, repair, threads, regen, asked, lost, overtaken,
                      spent>>

\* A time of _retry_after comes.
Due(g) ==
    /\ g \in waiting
    /\ waiting' = waiting \ {g}
    /\ UNCHANGED <<db, notices, queue, round, running, stalled, refused,
                   rejected, ranking, sent, repair, threads, regen, asked, lost,
                   overtaken, spent>>

\* The namespaces of the round that still have something to send: nothing
\* more goes to one where a request failed.
Sending == {g \in running \ stalled :
              [round[g] EXCEPT !.under = 0] # Nothing}

\* Requests are made one at a time.
IsNext(g) == Sending # {} /\ g = CHOOSE h \in Sending : TRUE

Emptied(g) == [ranking EXCEPT ![g] = [Empty EXCEPT
                                        !.visibility = ranking[g].visibility]]

\* _send of a reset: done, refused (which is final), or failed, before or
\* after the ranking did it.
SendReset(g) ==
    /\ IsNext(g) /\ round[g].reset
    /\ \/ /\ ranking' = Emptied(g)
          /\ round' = [round EXCEPT ![g].reset = FALSE]
          /\ UNCHANGED <<stalled, lost, spent>>
       \/ /\ Spend(1)
          /\ round' = [round EXCEPT ![g].reset = FALSE]
          /\ lost' = lost \cup {g}
          /\ UNCHANGED <<stalled, ranking>>
       \/ /\ Spend(1)
          /\ stalled' = stalled \cup {g}
          /\ ranking' \in {ranking, Emptied(g)}
          /\ UNCHANGED <<round, lost>>
    /\ UNCHANGED <<db, notices, queue, running, refused, waiting, rejected,
                   sent, repair, threads, regen, asked, overtaken>>

\* _send of the settings, and _track_visibility.
SendVisibility(g) ==
    LET taken == [ranking EXCEPT ![g].visibility = round[g].settings]
    IN /\ IsNext(g) /\ ~round[g].reset /\ round[g].settings # 0
       /\ \/
             /\ ranking' = taken
             /\ rejected' = rejected \ {g}
             /\ round' = [round EXCEPT ![g].settings = 0]
             /\ UNCHANGED <<stalled, spent>>
          \/ /\ Spend(1)
             /\ rejected' = rejected \cup {g}
             /\ round' = [round EXCEPT ![g].settings = 0]
             /\ UNCHANGED <<stalled, ranking>>
          \/ /\ Spend(1)
             /\ stalled' = stalled \cup {g}
             /\ ranking' \in {ranking, taken}
             /\ UNCHANGED <<round, rejected>>
       /\ UNCHANGED <<db, notices, queue, running, refused, waiting, sent,
                      repair, threads, regen, asked, lost, overtaken>>

\* Mutant: the data does not wait for the settings.
DataIsNextAtOnce(g) == IsNext(g) /\ ~round[g].reset

\* It is the turn of the data of namespace g.
DataIsNext(g) ==
    IsNext(g) /\ ~round[g].reset /\ round[g].settings = 0

\* The data of a namespace whose settings were refused is dropped.
DropData(g) ==
    /\ DataIsNext(g) /\ g \in rejected
    /\ round' = [round EXCEPT ![g] = Nothing]
    /\ lost' = lost \cup {g}
    /\ UNCHANGED <<db, notices, queue, running, stalled, refused, waiting,
                   rejected, ranking, sent, repair, threads, regen, asked, overtaken,
                   spent>>

\* _send_type of the contest data: taken, refused as invalid, refused for
\* another reason, or failed.
SendContest(g) ==
    LET taken == [ranking EXCEPT ![g].contest = TRUE]
        done == [round EXCEPT ![g].contest = FALSE]
    IN /\ DataIsNext(g) /\ g \notin rejected /\ round[g].contest
       /\ \/ /\ ranking' = taken
             /\ round' = done
             /\ UNCHANGED <<stalled, refused, lost, spent>>
          \/ /\ Spend(1)
             /\ refused' = refused \cup {<<g, NoOne>>}
             /\ round' = done
             /\ UNCHANGED <<stalled, ranking, lost>>
          \/ /\ Spend(1)
             /\ lost' = lost \cup {g}
             /\ round' = done
             /\ UNCHANGED <<stalled, refused, ranking>>
          \/ /\ Spend(1)
             /\ stalled' = stalled \cup {g}
             /\ ranking' \in {ranking, taken}
             /\ UNCHANGED <<round, refused, lost>>
       /\ UNCHANGED <<db, notices, queue, running, waiting, rejected, sent,
                      repair, threads, regen, asked, overtaken>>

\* The scores the ranking may find invalid: all, while it lacks the contest
\* data they name.
Invalid(g, K) ==
    IF ranking[g].contest THEN SUBSET K ELSE {K}

\* _send_type of the scores.  If none is invalid the list is taken whole; else
\* it is split, and each score `tried' alone is taken or refused.  A request
\* that fails leaves the others to be put back, and may have been done; one
\* refused for another reason drops the others.
SendScores(g) ==
    LET K == {s \in Submissions : round[g].score[s] # 0}
        Took(S) == [ranking EXCEPT ![g].score =
                      [s \in Submissions |-> IF s \in S THEN round[g].score[s]
                                                       ELSE @[s]]]
        Done(S) == [round EXCEPT ![g].score =
                      [s \in Submissions |-> IF s \in S THEN 0 ELSE @[s]]]
    IN /\ DataIsNext(g) /\ g \notin rejected
       /\ ~round[g].contest /\ K # {}
       /\ \E invalid \in Invalid(g, K) :
          \E tried \in IF invalid = {} \/ Cardinality(K) = 1
                       THEN {{}, K} ELSE SUBSET K :
            /\ refused' = refused \cup {<<g, s>> : s \in tried \cap invalid}
            /\ Spend((IF invalid # {} /\ ranking[g].contest THEN 1 ELSE 0)
                     + (IF tried # K THEN 1 ELSE 0))
            /\ \/ /\ tried = K
                  /\ ranking' = Took(K \ invalid)
                  /\ round' = Done(K)
                  /\ UNCHANGED <<stalled, lost>>
               \/ /\ tried # K
                  /\ \E more \in IF invalid = {} THEN {{}, K}
                                 ELSE {{}} \cup {{s} : s \in K \ (tried \cup invalid)} :
                       ranking' = Took((tried \ invalid) \cup more)
                  /\ round' = Done(tried)
                  /\ stalled' = stalled \cup {g}
                  /\ UNCHANGED lost
               \/ /\ tried # K
                  /\ ranking' = Took(tried \ invalid)
                  /\ round' = Done(K)
                  /\ lost' = lost \cup {g}
                  /\ UNCHANGED stalled
       /\ UNCHANGED <<db, notices, queue, running, waiting, rejected, sent,
                      repair, threads, regen, asked, overtaken>>

\* The end of execute, with _on_refused.  What the round did not send goes back
\* with its old timestamp: ahead of what was queued meanwhile.
EndRound ==
    /\ running # {} /\ Sending = {}
    /\ queue' = [g \in Groups |-> IF g \in stalled THEN Combined(round[g], queue[g])
                                                   ELSE queue[g]]
    /\ waiting' = waiting \cup stalled
    /\ sent' = sent \ {p[2] : p \in refused}
    /\ repair' = repair \cup {p[1] : p \in refused}
    /\ round' = EmptyQueue
    /\ running' = {} /\ stalled' = {} /\ refused' = {}
    /\ UNCHANGED <<db, notices, rejected, ranking, threads, regen, asked, lost,
                   overtaken, spent>>

---------------------------------------------------------------------------
(* The threads.  A thread is of a notification (submission_scored), of the *)
(* sweeper, or of a call of reinitialize or dataset_updated: an admin saved *)
(* a group with new settings; a group lost a contest; the active dataset of *)
(* a task changed.                                                         *)

Calls == {"save", "lost", "dataset"}

NoSettings == [g \in Groups |-> 0]

\* A thread that has done nothing: `contests' and `scores' are the contest data
\* and the scores it has still to queue, `settings' what it read and has still
\* to queue, `sub' and `value' the score it has read.
Thread(kind) ==
    [kind |-> kind, call |-> 0, group |-> NoOne, pc |-> "start",
     settings |-> NoSettings, contests |-> {}, scores |-> {},
     repair |-> {}, sub |-> NoOne, value |-> 0]

IsOver(t) ==
    t.pc = "work" /\ t.settings = NoSettings /\ t.contests = {} /\ t.scores = {}

\* Thread t goes on as u, or ends.
Becomes(t, u) ==
    threads' = (threads \ {t}) \cup (IF IsOver(u) THEN {} ELSE {u})

\* A call of submission_scored starts and reads the submission; others of the
\* same submission may be under way.  Those that say the same are one.
NotifyRead(s) ==
    /\ s \in notices
    /\ notices' = notices \ {s}
    /\ threads' = threads \cup {[Thread("notice") EXCEPT
                                   !.pc = "read", !.sub = s, !.value = db.score[s]]}
    /\ UNCHANGED <<db, executor, ranking, sent, repair, regen,
                   asked, lost, overtaken, spent>>

\* Mutant: the contest data that was refused is not sent again.
SweepBeginWithoutRepair ==
    /\ \A t \in threads : t.kind # "sweep"
    /\ threads' = threads \cup {[Thread("sweep") EXCEPT !.scores = Submissions]}
    /\ repair' = {}
    /\ UNCHANGED <<db, notices, executor, ranking, sent, regen,
                   asked, lost, overtaken, spent>>

\* The sweeper runs again (_missing_operations_sync), and takes the marks of the
\* namespaces to repair.
SweepBegin ==
    /\ \A t \in threads : t.kind # "sweep"
    /\ threads' = threads \cup {[Thread("sweep") EXCEPT
                                   !.repair = repair, !.contests = repair,
                                   !.scores = Submissions]}
    /\ repair' = {}
    /\ UNCHANGED <<db, notices, executor, ranking, sent, regen,
                   asked, lost, overtaken, spent>>

\* An admin does something to g, and a call of reinitialize or dataset_updated
\* starts.
ReinitBegin(g, kind) ==
    /\ kind \in MayCall /\ Call
    /\ IF kind = "save"
       THEN /\ db.visibility[g] < MaxVisibility
            /\ db' = [db EXCEPT !.visibility[g] = @ + 1]
       ELSE UNCHANGED db
    /\ threads' = threads \cup
         {[Thread(kind) EXCEPT
             !.call = spent'.calls, !.group = g,
             !.pc = IF kind = "lost" THEN "reset" ELSE "start",
             !.contests = Groups,
             !.scores = IF kind = "save" THEN {}
                        ELSE {s \in Submissions : GroupOf[s] = g}]}
    /\ UNCHANGED <<notices, executor, ranking, sent, repair, regen, asked,
                   lost, overtaken>>

\* What a group that lost a contest shows is reset.
QueueReset(t) ==
    /\ t.pc = "reset"
    /\ queue' = Queued(queue, t.group, Reset)
    /\ Becomes(t, [t EXCEPT !.pc = "start"])
    /\ UNCHANGED <<db, notices, round, running, stalled, refused, waiting,
                   rejected, ranking, sent, repair, regen, asked, lost,
                   overtaken, spent>>

\* Mutant: the sweeper does not send the settings again.
ReadSettingsOfCalls(t) ==
    /\ t.pc = "start"
    /\ Becomes(t, [t EXCEPT !.pc = "work",
                     !.settings = IF t.kind = "sweep" THEN NoSettings ELSE db.visibility])
    /\ UNCHANGED <<db, notices, executor, ranking, sent, repair, regen, asked,
                   lost, overtaken, spent>>

\* _enqueue_visibility reads the settings of every group...
ReadSettings(t) ==
    /\ t.pc = "start"
    /\ Becomes(t, [t EXCEPT !.pc = "work", !.settings = db.visibility])
    /\ UNCHANGED <<db, notices, executor, ranking, sent, repair, regen, asked,
                   lost, overtaken, spent>>

\* ... and queues them.
QueueSettings(t, g) ==
    /\ t.pc = "work" /\ t.settings[g] # 0
    /\ queue' = Queued(queue, g, Visibility(t.settings[g]))
    /\ asked' = [asked EXCEPT ![g] = t.settings[g]]
    /\ Becomes(t, [t EXCEPT !.settings[g] = 0])
    /\ UNCHANGED <<db, notices, round, running, stalled, refused, waiting,
                   rejected, ranking, sent, repair, regen, lost, overtaken,
                   spent>>

\* _enqueue_contest_data of a group: of all, or of those to repair.
QueueContest(t, g) ==
    /\ t.pc = "work" /\ t.settings = NoSettings /\ g \in t.contests
    /\ queue' = Queued(queue, g, ContestData(asked[g]))
    /\ Becomes(t, [t EXCEPT !.contests = @ \ {g}])
    /\ UNCHANGED <<db, notices, round, running, stalled, refused, waiting,
                   rejected, ranking, sent, repair, regen, asked, lost,
                   overtaken, spent>>

\* _enqueue_submissions, or the loop of dataset_updated, reads a submission; one
\* without a score is left out.
ReadScore(t, s) ==
    /\ t.pc = "work" /\ t.settings = NoSettings
    /\ s \in t.scores /\ GroupOf[s] \notin t.contests
    /\ Becomes(t, IF db.score[s] = 0 THEN [t EXCEPT !.scores = @ \ {s}]
                  ELSE [t EXCEPT !.pc = "read", !.sub = s, !.value = db.score[s]])
    /\ UNCHANGED <<db, notices, executor, ranking, sent, repair, regen, asked,
                   lost, overtaken, spent>>

\* Mutant: what is marked while a regenerate builds is not noted.
MarkOnly(s) == sent' = sent \cup {s} /\ UNCHANGED regen

\* _mark_sent: while a regenerate builds, in another thread, it is noted too.
Mark(s) ==
    /\ sent' = sent \cup {s}
    /\ regen' = IF regen.pc = "idle" THEN regen
                ELSE [regen EXCEPT !.noted = @ \cup {s}]

\* The thread has queued, or leaves out, the score it has read.
ScoreDone(t) ==
    [t EXCEPT !.pc = "work", !.scores = @ \ {t.sub}, !.sub = NoOne, !.value = 0]

\* operations_for_score marks the score before it is queued; the sweeper leaves
\* out one that is marked (only_missing).
MarkScore(t) ==
    /\ t.pc = "read"
    /\ IF t.kind = "sweep" /\ t.sub \in sent
       THEN Becomes(t, ScoreDone(t)) /\ UNCHANGED <<sent, regen>>
       ELSE Becomes(t, [t EXCEPT !.pc = "marked"]) /\ Mark(t.sub)
    /\ UNCHANGED <<db, notices, executor, ranking, repair, asked, lost,
                   overtaken, spent>>

\* The latest score of s is with a thread of T that is sure to queue it, or with
\* one that has not started.
IsComing(s, T) ==
    s \in notices \/ \E t \in T : /\ t.sub = s /\ t.value = db.score[s]
                                  /\ t.kind = "notice" \/ t.pc = "marked"

\* The operations reach the event loop (_threadsafe_enqueue).
QueueScore(t) ==
    LET s == t.sub
        g == GroupOf[s]
    IN /\ t.pc = "marked"
       /\ queue' = Queued(queue, g, ScoreOf(s, t.value, asked[g]))
       /\ Becomes(t, ScoreDone(t))
       /\ overtaken' = IF t.value = db.score[s] THEN overtaken \ {s}
                       ELSE IF IsComing(s, threads') THEN overtaken
                       ELSE overtaken \cup {s}
       /\ UNCHANGED <<db, notices, round, running, stalled, refused, waiting,
                      rejected, ranking, sent, repair, regen, asked, lost,
                      spent>>

\* A database error.  The sweeper puts the marks back; after a reinitialize the
\* group that was being reset may be left empty until the next call.
ThreadFail(t) ==
    /\ t.kind # "notice" /\ t.pc # "marked" /\ Spend(1)
    /\ threads' = threads \ {t}
    /\ repair' = repair \cup t.repair
    /\ lost' = IF t.kind = "lost" THEN lost \cup {t.group} ELSE lost
    /\ UNCHANGED <<db, notices, executor, ranking, sent, regen, asked,
                   overtaken>>

ThreadStep(t) ==
    \/ QueueReset(t)
    \/ ReadSettings(t)
    \/ \E g \in Groups : QueueSettings(t, g) \/ QueueContest(t, g)
    \/ \E s \in Submissions : ReadScore(t, s)
    \/ MarkScore(t)
    \/ QueueScore(t)

---------------------------------------------------------------------------
(* regenerate_ranking. *)

\* It has the lock: it copies what was sent and starts to record.
RegenBegin(g) ==
    /\ regen.pc = "idle"
    /\ "regenerate" \in MayCall /\ Call
    /\ regen' = [NoRegen EXCEPT !.pc = "build", !.group = g, !.before = sent]
    /\ UNCHANGED <<db, notices, executor, ranking, sent, repair, threads,
                   asked, lost, overtaken>>

\* It reads the settings, the contest data and all the scores, and marks them.
RegenRead ==
    LET g == regen.group
        v == db.visibility[g]
        scores == {s \in Scored : GroupOf[s] = g}
    IN /\ regen.pc = "build"
       /\ sent' = sent \cup scores
       /\ regen' = [regen EXCEPT
                      !.pc = "read",
                      !.read = [reset |-> TRUE, settings |-> v,
                                contest |-> TRUE,
                                score |-> [s \in Submissions |->
                                             IF s \in scores THEN db.score[s]
                                                             ELSE 0],
                                under |-> v]]
       /\ UNCHANGED <<db, notices, executor, ranking, repair, threads,
                      asked, lost, overtaken, spent>>

\* _threadsafe_enqueue_all: the reset and the data, in one callback.
RegenQueue ==
    LET g == regen.group
    IN /\ regen.pc = "read"
       /\ queue' = Queued(queue, g, regen.read)
       /\ asked' = [asked EXCEPT ![g] = regen.read.settings]
       /\ lost' = lost \ {g}
       /\ regen' = [regen EXCEPT !.pc = "queued", !.read = Nothing]
       /\ UNCHANGED <<db, notices, round, running, stalled, refused, waiting,
                      rejected, ranking, sent, repair, threads,
                      overtaken, spent>>

\* Mutant: what the other threads noted still counts as sent.
RegenEndKeepingNotes ==
    /\ regen.pc = "queued"
    /\ repair' = repair \cup {regen.group}
    /\ regen' = NoRegen
    /\ UNCHANGED <<db, notices, executor, ranking, sent, threads,
                   asked, lost, overtaken, spent>>

\* What the other threads noted may have been queued ahead of the reset.
RegenEnd ==
    /\ regen.pc = "queued"
    /\ sent' = sent \ regen.noted
    /\ repair' = repair \cup {regen.group}
    /\ regen' = NoRegen
    /\ UNCHANGED <<db, notices, executor, ranking, threads,
                   asked, lost, overtaken, spent>>

\* A database error: nothing was queued (_forget_sent_since).
RegenFail ==
    /\ regen.pc \in {"build", "read"} /\ Spend(1)
    /\ sent' = sent \cap regen.before
    /\ regen' = NoRegen
    /\ UNCHANGED <<db, notices, executor, ranking, repair, threads,
                   asked, lost, overtaken>>

---------------------------------------------------------------------------
\* The service is restarted: only the database and the ranking remain.
Restart ==
    /\ Spend(1)
    /\ notices' = {}
    /\ queue' = WithInitialData(EmptyQueue)
    /\ round' = EmptyQueue
    /\ running' = {} /\ stalled' = {} /\ refused' = {}
    /\ waiting' = {} /\ rejected' = {} /\ sent' = {} /\ repair' = {}
    /\ threads' = {} /\ regen' = NoRegen
    /\ asked' = db.visibility
    /\ lost' = {}
    /\ UNCHANGED <<db, ranking, overtaken>>

Notify ==
    \/ \E s \in Submissions : NotifyRead(s)
    \/ \E t \in threads : t.kind = "notice" /\ ThreadStep(t)

Sweep ==
    \/ SweepBegin
    \/ \E t \in threads : t.kind = "sweep" /\ ThreadStep(t)

Reinit == \E t \in threads : t.kind \in Calls /\ ThreadStep(t)

Regenerate == RegenRead \/ RegenQueue \/ RegenEnd

Execute ==
    \/ TakeBatch
    \/ EndRound
    \/ \E g \in Groups :
         \/ SendReset(g)
         \/ SendVisibility(g)
         \/ DropData(g)
         \/ SendContest(g)
         \/ SendScores(g)

Next ==
    \/ \E s \in Submissions : Score(s)
    \/ Execute
    \/ \E g \in Groups : Due(g)
    \/ Notify
    \/ Sweep
    \/ \E g \in Groups, kind \in Calls : ReinitBegin(g, kind)
    \/ Reinit
    \/ \E t \in threads : ThreadFail(t)
    \/ \E g \in Groups : RegenBegin(g)
    \/ Regenerate
    \/ RegenFail
    \/ Restart

Spec == Init /\ [][Next]_vars

\* The executor and each thread go on, the retry times come, and the sweeper
\* runs again and again.
Fairness ==
    /\ WF_vars(Execute)
    /\ \A g \in Groups : WF_vars(Due(g))
    /\ WF_vars(Notify)
    /\ WF_vars(Sweep)
    /\ WF_vars(Reinit)
    /\ WF_vars(Regenerate)

FairSpec == Spec /\ Fairness

---------------------------------------------------------------------------
(* Properties. *)

\* The ranking shows the settings and the scores of the database, except what
\* the operator was told is not sent again, and a score that was queued after
\* a newer one.
InStep(g) ==
    /\ ranking[g].visibility = db.visibility[g]
    /\ \A s \in {s \in Submissions : GroupOf[s] = g} :
         ranking[g].score[s] = db.score[s] \/ g \in lost \/ s \in overtaken

\* Whatever failed, was refused or was lost on the way, the retries of the
\* executor and the sweeper bring the ranking in step with the database.
RankingCatchesUp == \A g \in Groups : <>[]InStep(g)

\* The score the ranking holds once what is in the round and in the queue has
\* been sent.
LastWord(g, s) ==
    LET way == Combined(round[g], queue[g])
    IN IF way.score[s] # 0 THEN way.score[s]
       ELSE IF way.reset THEN 0 ELSE ranking[g].score[s]

\* A thread or a call is about to send the score of s, or about to take it out
\* of what was sent.
IsExpected(g, s) ==
    \/ s \in notices
    \/ \E t \in threads : t.sub = s /\ (t.kind = "notice" \/ t.pc = "marked")
    \/ \E t \in threads : t.kind = "lost" /\ s \in t.scores
    \/ s \in regen.noted
    \/ regen.read.score[s] # 0
    \/ <<g, s>> \in refused

\* The sweeper may skip what scores_sent_to_rankings holds: the latest score of
\* such a submission is in the ranking or on its way there, whatever resets,
\* refusals and retries are under way.  What is refused is "taken out of the
\* sets of what was sent" (_on_refused), and a "database error undoes what the
\* build did to the sets" (_regenerate_ranking_sync).
SentIsOnItsWay ==
    \A s \in sent :
      LET g == GroupOf[s]
      IN \/ LastWord(g, s) = db.score[s]
         \/ IsExpected(g, s)
         \/ g \in lost \/ s \in overtaken

\* The data of a namespace reaches the ranking after settings that are no older
\* than those queued last before it and those queued behind it since: it never
\* shows under what the ranking had before ("Sent after resets and before any
\* data", ProxyExecutor.VISIBILITY_TYPE), however the settings of several threads
\* fall among the data of others.
VisibilityBeforeData ==
    [][\A g \in Groups :
         \/ /\ ranking'[g].contest => ranking[g].contest
            /\ \A s \in Submissions :
                 ranking'[g].score[s] \in {0, ranking[g].score[s]}
         \/ round[g].under <= ranking[g].visibility]_vars

\* "so a hidden namespace never exposes data, even briefly" (VISIBILITY_TYPE):
\* settings that the ranking applies to data it shows are not replaced by older
\* ones, since those may show what the newer ones hide.
HiddenStaysHidden ==
    [][\A g \in Groups :
         ranking[g].contest /\ ranking'[g].contest
           => ranking[g].visibility <= ranking'[g].visibility]_vars
===========================================================================
