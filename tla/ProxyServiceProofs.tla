------------------------- MODULE ProxyServiceProofs -------------------------
(***************************************************************************)
(* What ProxyService sends reaches a namespace of the ranking under the    *)
(* settings that were queued before it, for any number of groups,          *)
(* submissions, calls and faults.                                          *)
(*                                                                         *)
(* A setting is in one of three places: in the queue, in the round, or in  *)
(* the ranking, the later ones in force once the earlier ones are sent.    *)
(* The invariant says, for data in the queue and in the round, that the    *)
(* settings queued before it are among those that are sent before it.      *)
(*                                                                         *)
(* The second part is about scores: that the sweeper may skip those that   *)
(* are marked as sent, that nothing shown is newer than the database, and  *)
(* that the ranking is in step with it once nothing is left to do.         *)
(***************************************************************************)
EXTENDS ProxyService, TLAPS

Batch == [reset : BOOLEAN, settings : Nat, contest : BOOLEAN,
          score : [Submissions -> Nat], under : Nat]

Held == [contest : BOOLEAN, visibility : Nat, score : [Submissions -> Nat]]

DbOK == db \in [score : [Submissions -> Nat], visibility : [Groups -> Nat \ {0}]]

BatchesOK == queue \in [Groups -> Batch] /\ round \in [Groups -> Batch]

RankingOK == ranking \in [Groups -> Held]

SetsOK ==
    /\ running \subseteq Groups /\ stalled \subseteq Groups /\ waiting \subseteq Groups
    /\ rejected \subseteq Groups /\ repair \subseteq Groups /\ lost \subseteq Groups
    /\ refused \subseteq Groups \X (Submissions \cup {NoOne})
    /\ notices \subseteq Submissions /\ sent \subseteq Submissions
    /\ overtaken \subseteq Submissions

\* The threads, with what each has read and has still to queue.
ThreadRecords ==
    [kind : {"notice", "sweep"} \cup Calls, call : Nat, group : Groups \cup {NoOne},
     pc : {"reset", "start", "work", "read", "marked"}, settings : [Groups -> Nat],
     contests : SUBSET Groups, scores : SUBSET Submissions, repair : SUBSET Groups,
     sub : Submissions \cup {NoOne}, value : Nat]

\* A thread has a score in hand while it marks and queues it; the thread of a
\* notification has nothing else to do; a group that is reset is known.
ThreadOK(t) ==
    /\ t \in ThreadRecords
    /\ t.pc \in {"read", "marked"} <=> t.sub \in Submissions
    /\ t.kind = "notice" =>
         /\ t.pc \in {"read", "marked"}
         /\ t.settings = NoSettings /\ t.contests = {} /\ t.scores = {}
    /\ t.pc = "reset" => t.kind = "lost"
    /\ t.kind = "lost" => t.group \in Groups

ThreadsOK ==
    /\ \A t \in threads : ThreadOK(t)
    /\ regen \in [pc : {"idle", "build", "read", "queued"}, group : Groups \cup {NoOne},
                  before : SUBSET Submissions, noted : SUBSET Submissions, read : Batch]
    /\ regen.pc # "idle" => regen.group \in Groups

AskedOK == asked \in [Groups -> Nat]

SpentOK == spent \in [faults : 0 .. MaxFaults, calls : 0 .. MaxCalls]

TypeOK ==
    DbOK /\ BatchesOK /\ RankingOK /\ SetsOK /\ ThreadsOK /\ AskedOK /\ SpentOK

\* Outside a round, and for the namespaces that are not in it, there is nothing
\* to send.
RoundOK ==
    /\ stalled \subseteq running
    /\ \A g \in Groups \ running : round[g] = Nothing

\* What regenerate has read and not queued: its settings are those its data is
\* queued with, and not newer than those of the database.
RegenOK ==
    regen.pc = "read" =>
        /\ regen.read.reset
        /\ HasData(regen.read)
        /\ regen.read.settings # 0
        /\ regen.read.under = regen.read.settings
        /\ regen.read.settings <= db.visibility[regen.group]

\* The settings that a thread has read are not newer than those of the database.
SeenOK == \A t \in threads, g \in Groups : t.settings[g] <= db.visibility[g]

\* The settings u, or later ones, are in force for g once the round is sent.
InForceAfterRound(g, u) ==
    IF round[g].settings # 0 THEN u <= round[g].settings
    ELSE g \in rejected \/ u <= ranking[g].visibility

\* The same once the queue is sent too.
InForceAfterQueue(g, u) ==
    IF queue[g].settings # 0 THEN u <= queue[g].settings ELSE InForceAfterRound(g, u)

\* No settings are newer than those of the database.
NotAhead(g) ==
    /\ queue[g].settings <= db.visibility[g]
    /\ round[g].settings <= db.visibility[g]
    /\ queue[g].under <= db.visibility[g]
    /\ round[g].under <= db.visibility[g]
    /\ asked[g] <= db.visibility[g]

\* The settings queued before data are sent before it.
Ordered(g) ==
    /\ InForceAfterQueue(g, asked[g])
    /\ HasData(queue[g]) => InForceAfterQueue(g, queue[g].under)
    /\ HasData(round[g]) => InForceAfterRound(g, round[g].under)

IInv ==
    /\ TypeOK
    /\ RoundOK
    /\ RegenOK
    /\ SeenOK
    /\ \A g \in Groups : NotAhead(g) /\ Ordered(g)
-----------------------------------------------------------------------------
(* Batches *)

\* The empty batch.
LEMMA NothingFacts ==
  /\ Nothing \in Batch /\ ~HasData(Nothing)
  /\ Nothing.settings = 0 /\ Nothing.under = 0 /\ Nothing.reset = FALSE
  BY DEF Nothing, Batch, HasData

\* What queueing a batch behind another one comes to.
LEMMA CombinedFacts ==
  ASSUME NEW older \in Batch, NEW newer \in Batch
  PROVE  LET b == Combined(older, newer)
         IN  /\ b \in Batch
             /\ b.reset = (older.reset \/ newer.reset)
             /\ b.settings = IF newer.settings # 0 THEN newer.settings ELSE older.settings
             /\ HasData(b) => HasData(newer) \/ (HasData(older) /\ ~newer.reset)
             /\ HasData(newer) /\ (newer.settings = 0 \/ newer.under <= newer.settings)
                  => b.under = newer.under
             /\ ~HasData(newer) /\ newer.reset => b.under = 0
             /\ ~HasData(newer) /\ ~newer.reset /\ newer.settings = 0
                  => b.under = older.under
             /\ newer.settings # 0 => b.under <= newer.settings
             /\ ~HasData(newer) => b.under <= older.under
<1> DEFINE data == IF newer.reset THEN Nothing ELSE older
           score == [s \in Submissions |->
                       IF newer.score[s] # 0 THEN newer.score[s] ELSE data.score[s]]
           last == IF HasData(newer) THEN newer.under ELSE data.under
           under == IF newer.settings # 0 /\ newer.settings < last
                    THEN newer.settings ELSE last
           settings == IF newer.settings # 0 THEN newer.settings ELSE older.settings
           b == Combined(older, newer)
<1>1. data \in Batch
  BY NothingFacts
<1>2. b = [reset |-> older.reset \/ newer.reset, settings |-> settings,
           contest |-> data.contest \/ newer.contest, score |-> score, under |-> under]
  BY DEF Combined
<1>3. /\ score \in [Submissions -> Nat] /\ under \in Nat /\ settings \in Nat
      /\ last \in Nat /\ newer.settings \in Nat /\ older.under \in Nat
  <2>1. data.score \in [Submissions -> Nat] /\ newer.score \in [Submissions -> Nat]
        /\ data.under \in Nat /\ newer.under \in Nat
        /\ newer.settings \in Nat /\ older.settings \in Nat
    BY <1>1 DEF Batch
  <2>2. older.under \in Nat
    BY DEF Batch
  <2> HIDE DEF data
  <2> QED
    BY <2>1, <2>2
<1>4. /\ b.reset = (older.reset \/ newer.reset) /\ b.settings = settings
      /\ b.contest = (data.contest \/ newer.contest) /\ b.score = score /\ b.under = under
  <2> HIDE DEF score, under, settings, data, b
  <2> QED
    BY <1>2
<1>5. b \in Batch
  <2>1. (older.reset \/ newer.reset) \in BOOLEAN /\ (data.contest \/ newer.contest) \in BOOLEAN
    OBVIOUS
  <2> HIDE DEF score, under, settings, data, b
  <2> QED
    BY <1>2, <1>3, <2>1 DEF Batch
<1>6. HasData(b) => HasData(newer) \/ HasData(data)
  <2> HIDE DEF data, b
  <2> QED
    BY <1>4 DEF HasData
<1>7. HasData(data) => HasData(older) /\ ~newer.reset
  BY NothingFacts
<1>8. ~HasData(newer) => last = IF newer.reset THEN 0 ELSE older.under
  BY NothingFacts
<1>9. HasData(newer) => last = newer.under
  OBVIOUS
<1>10. /\ HasData(newer) /\ (newer.settings = 0 \/ newer.under <= newer.settings)
            => b.under = newer.under
       /\ ~HasData(newer) /\ newer.reset => b.under = 0
       /\ ~HasData(newer) /\ ~newer.reset /\ newer.settings = 0 => b.under = older.under
       /\ newer.settings # 0 => b.under <= newer.settings
       /\ ~HasData(newer) => b.under <= older.under
  <2>1. b.under = under /\ newer.under \in Nat
    BY <1>4 DEF Batch
  <2> HIDE DEF b, last
  <2> QED
    BY <1>3, <1>8, <1>9, <2>1
<1> QED
  BY <1>4, <1>5, <1>6, <1>7, <1>10

\* The batches that are queued.
LEMMA BatchFacts ==
  ASSUME NEW s \in Submissions, NEW v \in Nat, NEW u \in Nat
  PROVE  /\ Reset \in Batch /\ Reset.reset /\ Reset.settings = 0 /\ ~HasData(Reset)
         /\ Visibility(v) \in Batch /\ ~Visibility(v).reset
         /\ Visibility(v).settings = v /\ ~HasData(Visibility(v))
         /\ ContestData(u) \in Batch /\ ~ContestData(u).reset
         /\ ContestData(u).settings = 0 /\ ContestData(u).under = u
         /\ ScoreOf(s, v, u) \in Batch /\ ~ScoreOf(s, v, u).reset
         /\ ScoreOf(s, v, u).settings = 0 /\ ScoreOf(s, v, u).under = u
<1>1. Reset \in Batch /\ Reset.reset /\ Reset.settings = 0 /\ ~HasData(Reset)
  BY DEF Reset, Nothing, Batch, HasData
<1>2. Visibility(v) \in Batch /\ ~Visibility(v).reset
      /\ Visibility(v).settings = v /\ ~HasData(Visibility(v))
  BY DEF Visibility, Nothing, Batch, HasData
<1>3. ContestData(u) \in Batch /\ ~ContestData(u).reset
      /\ ContestData(u).settings = 0 /\ ContestData(u).under = u
  BY DEF ContestData, Nothing, Batch
<1>4. ScoreOf(s, v, u) \in Batch /\ ~ScoreOf(s, v, u).reset
      /\ ScoreOf(s, v, u).settings = 0 /\ ScoreOf(s, v, u).under = u
  BY DEF ScoreOf, Nothing, Batch
<1> QED
  BY <1>1, <1>2, <1>3, <1>4

\* A queue in which settings v are the last of each group, and no data was
\* queued with later ones.
Set(q, G) ==
    /\ q \in [Groups -> Batch]
    /\ \A g \in G : q[g].settings = db.visibility[g] /\ q[g].under <= db.visibility[g]

\* initialize, behind a queue with no data of later settings than the present.
LEMMA SetInitialData ==
  ASSUME DbOK, NEW q \in [Groups -> Batch]
  PROVE  Set(WithInitialData(q), Groups)
<1> SUFFICES ASSUME NEW g \in Groups
             PROVE  LET v == db.visibility[g]
                        b == Combined(Combined(q[g], Visibility(v)), ContestData(v))
                    IN  b \in Batch /\ b.settings = v /\ b.under <= v
  BY DEF Set, WithInitialData
<1> DEFINE v == db.visibility[g]
           n == Visibility(v)
           c == ContestData(v)
           b == Combined(q[g], n)
           d == Combined(b, c)
<1>1. v \in Nat \ {0}
  BY DEF DbOK
<1> HIDE DEF v
<1>2. n \in Batch /\ ~n.reset /\ n.settings = v /\ ~HasData(n)
  BY <1>1 DEF Visibility, Nothing, Batch, HasData
<1>3. c \in Batch /\ ~c.reset /\ c.settings = 0 /\ c.under = v /\ HasData(c)
  BY <1>1 DEF ContestData, Nothing, Batch, HasData
<1> HIDE DEF n, c
<1>4. b \in Batch /\ b.settings = v
  BY <1>1, <1>2, CombinedFacts
<1> HIDE DEF b
<1>5. d \in Batch /\ d.settings = v /\ d.under = v
  BY <1>3, <1>4, CombinedFacts
<1> HIDE DEF d
<1> QED
  BY <1>1, <1>5 DEF v, n, c, b, d

\* The empty queue.
LEMMA EmptyQueueFacts ==
  ASSUME DbOK
  PROVE  /\ EmptyQueue \in [Groups -> Batch]
         /\ \A g \in Groups : EmptyQueue[g] = Nothing /\ EmptyQueue[g].under <= db.visibility[g]
<1>1. \A g \in Groups : db.visibility[g] \in Nat
  BY DEF DbOK
<1> QED
  BY <1>1, NothingFacts DEF EmptyQueue
-----------------------------------------------------------------------------
(* What the steps do to a namespace *)

\* What the threads may do to the queue of g: nothing; queue settings, be they
\* older than the last ones; queue a reset; queue data.
Queues(g) ==
    \/ queue'[g] = queue[g] /\ asked'[g] = asked[g]
    \/ /\ queue'[g].settings # 0 /\ asked'[g] = queue'[g].settings
       /\ queue'[g].settings <= db.visibility[g]
       /\ queue'[g].under <= queue'[g].settings
    \/ /\ asked'[g] = asked[g] /\ queue'[g].settings = queue[g].settings
       /\ queue'[g].reset /\ ~HasData(queue'[g]) /\ queue'[g].under = 0
    \/ /\ asked'[g] = asked[g] /\ queue'[g].settings = queue[g].settings
       /\ queue'[g].reset = queue[g].reset
       /\ \/ queue'[g].under = asked[g]
          \/ /\ queue'[g].under = queue[g].under
             /\ HasData(queue'[g]) => HasData(queue[g])

\* What the requests of a round may do to g: nothing it has to send gets new
\* settings; or its settings are taken, or refused, or perhaps taken.
Sends(g) ==
    /\ HasData(round'[g]) => HasData(round[g]) /\ round'[g].under = round[g].under
    /\ round'[g].under <= round[g].under
    /\ \/ /\ round'[g].settings = round[g].settings
          /\ ranking'[g].visibility = ranking[g].visibility
          /\ g \in rejected => g \in rejected'
       \/ /\ round[g].settings # 0
          /\ round'[g].settings = 0
          /\ \/ ranking'[g].visibility = round[g].settings
             \/ g \in rejected'
       \/ round[g].settings # 0 /\ round'[g].settings = round[g].settings

\* The numbers of g.
LEMMA Numbers ==
  ASSUME TypeOK, NEW g \in Groups
  PROVE  /\ queue[g] \in Batch /\ round[g] \in Batch /\ ranking[g] \in Held
         /\ queue[g].settings \in Nat /\ queue[g].under \in Nat
         /\ round[g].settings \in Nat /\ round[g].under \in Nat
         /\ ranking[g].visibility \in Nat /\ asked[g] \in Nat
         /\ db.visibility[g] \in Nat /\ db.visibility[g] # 0
         /\ queue[g].reset \in BOOLEAN /\ round[g].reset \in BOOLEAN
<1>1. queue[g] \in Batch /\ round[g] \in Batch /\ ranking[g] \in Held
      /\ asked[g] \in Nat /\ db.visibility[g] \in Nat \ {0}
  BY DEF TypeOK, DbOK, BatchesOK, RankingOK, AskedOK
<1> QED
  BY <1>1 DEF Batch, Held

\* The same after a step.
LEMMA NumbersAfter ==
  ASSUME TypeOK', NEW g \in Groups
  PROVE  /\ queue'[g].settings \in Nat /\ queue'[g].under \in Nat
         /\ round'[g].settings \in Nat /\ round'[g].under \in Nat
         /\ ranking'[g].visibility \in Nat /\ asked'[g] \in Nat
         /\ db'.visibility[g] \in Nat /\ queue'[g].reset \in BOOLEAN
<1>1. queue'[g] \in Batch /\ round'[g] \in Batch /\ ranking'[g] \in Held
      /\ asked'[g] \in Nat /\ db'.visibility[g] \in Nat \ {0}
  BY DEF TypeOK, DbOK, BatchesOK, RankingOK, AskedOK
<1> QED
  BY <1>1 DEF Batch, Held

\* A step in which a thread queues something keeps the order.
LEMMA QueueStep ==
  ASSUME IInv, TypeOK', NEW g \in Groups, Queues(g),
         round'[g] = round[g], ranking'[g] = ranking[g], g \in rejected' <=> g \in rejected,
         db.visibility[g] <= db'.visibility[g]
  PROVE  NotAhead(g)' /\ Ordered(g)'
<1>1. NotAhead(g) /\ Ordered(g) /\ TypeOK
  BY DEF IInv
<1>2. /\ queue[g].settings \in Nat /\ queue[g].under \in Nat
      /\ round[g].settings \in Nat /\ round[g].under \in Nat
      /\ asked[g] \in Nat /\ db.visibility[g] \in Nat
      /\ queue[g].reset \in BOOLEAN /\ ranking[g].visibility \in Nat
  BY <1>1, Numbers
<1>3. /\ queue'[g].settings \in Nat /\ queue'[g].under \in Nat
      /\ asked'[g] \in Nat /\ db'.visibility[g] \in Nat /\ queue'[g].reset \in BOOLEAN
  BY NumbersAfter
<1>4. NotAhead(g)'
  BY <1>1, <1>2, <1>3 DEF Queues, NotAhead
<1>5. \A u : InForceAfterRound(g, u)' <=> InForceAfterRound(g, u)
  BY DEF InForceAfterRound
<1>6. CASE queue'[g] = queue[g] /\ asked'[g] = asked[g]
  BY <1>1, <1>4, <1>6 DEF Ordered, InForceAfterQueue, InForceAfterRound
<1>7. CASE /\ queue'[g].settings # 0 /\ asked'[g] = queue'[g].settings
           /\ queue'[g].settings <= db.visibility[g]
           /\ queue'[g].under <= queue'[g].settings
  <2>1. \A u : InForceAfterQueue(g, u)' <=> u <= queue'[g].settings
    BY <1>7 DEF InForceAfterQueue
  <2> QED
    BY <1>1, <1>2, <1>3, <1>4, <1>7 DEF Ordered, InForceAfterQueue, InForceAfterRound, NotAhead
<1>8. CASE /\ asked'[g] = asked[g] /\ queue'[g].settings = queue[g].settings
           /\ queue'[g].reset /\ ~HasData(queue'[g]) /\ queue'[g].under = 0
  BY <1>1, <1>4, <1>8 DEF Ordered, InForceAfterQueue, InForceAfterRound
<1>9. CASE /\ asked'[g] = asked[g] /\ queue'[g].settings = queue[g].settings
           /\ queue'[g].reset = queue[g].reset
           /\ \/ queue'[g].under = asked[g]
              \/ /\ queue'[g].under = queue[g].under
                 /\ HasData(queue'[g]) => HasData(queue[g])
  BY <1>1, <1>4, <1>9 DEF Ordered, InForceAfterQueue, InForceAfterRound
<1> QED
  BY <1>6, <1>7, <1>8, <1>9 DEF Queues

\* A request of a round keeps the order.
LEMMA SendStep ==
  ASSUME IInv, TypeOK', NEW g \in Groups, Sends(g),
         queue'[g] = queue[g], asked'[g] = asked[g], db'.visibility[g] = db.visibility[g]
  PROVE  NotAhead(g)' /\ Ordered(g)'
<1>1. NotAhead(g) /\ Ordered(g) /\ TypeOK
  BY DEF IInv
<1>2. /\ queue[g].settings \in Nat /\ queue[g].under \in Nat
      /\ round[g].settings \in Nat /\ round[g].under \in Nat
      /\ asked[g] \in Nat /\ db.visibility[g] \in Nat /\ ranking[g].visibility \in Nat
  BY <1>1, Numbers
<1>3. round'[g].settings \in Nat /\ round'[g].under \in Nat /\ ranking'[g].visibility \in Nat
  BY NumbersAfter
<1>4. NotAhead(g)'
  BY <1>1, <1>2, <1>3 DEF Sends, NotAhead
<1>5. ASSUME NEW u \in Nat, InForceAfterRound(g, u)
      PROVE  IF round'[g].settings # 0 THEN u <= round'[g].settings
             ELSE g \in rejected' \/ u <= ranking'[g].visibility
  BY <1>2, <1>3, <1>5 DEF Sends, InForceAfterRound
<1>6. ASSUME NEW u \in Nat, InForceAfterQueue(g, u)
      PROVE  IF queue[g].settings # 0 THEN u <= queue[g].settings
             ELSE IF round'[g].settings # 0 THEN u <= round'[g].settings
             ELSE g \in rejected' \/ u <= ranking'[g].visibility
  BY <1>5, <1>6 DEF InForceAfterQueue
<1> QED
  BY <1>1, <1>2, <1>4, <1>5, <1>6
     DEF Ordered, InForceAfterQueue, InForceAfterRound, Sends
-----------------------------------------------------------------------------
(* The requests of a round *)

\* A round is done with the reset of g.
LEMMA ResetDone ==
  ASSUME NEW f \in [Groups -> Batch], NEW g \in Groups
  PROVE  LET r == [f EXCEPT ![g].reset = FALSE]
         IN  /\ r \in [Groups -> Batch] /\ \A h \in Groups \ {g} : r[h] = f[h]
             /\ r[g].settings = f[g].settings /\ r[g].under = f[g].under
             /\ HasData(r[g]) => HasData(f[g])
<1> DEFINE b == f[g]
           c == [b EXCEPT !.reset = FALSE]
           r == [f EXCEPT ![g].reset = FALSE]
<1>1. b \in Batch
  OBVIOUS
<1>2. r = [f EXCEPT ![g] = c]
  OBVIOUS
<1> HIDE DEF b, r
<1>3. /\ c \in Batch
      /\ c.settings = b.settings /\ c.under = b.under
      /\ HasData(c) => HasData(b)
  BY <1>1 DEF Batch, HasData
<1> HIDE DEF c
<1>4. /\ r \in [Groups -> Batch] /\ \A h \in Groups \ {g} : r[h] = f[h]
      /\ r[g] = c
  BY <1>2, <1>3
<1> QED
  BY <1>3, <1>4 DEF b, r

\* With its settings.
LEMMA SettingsDone ==
  ASSUME NEW f \in [Groups -> Batch], NEW g \in Groups
  PROVE  LET r == [f EXCEPT ![g].settings = 0]
         IN  /\ r \in [Groups -> Batch] /\ \A h \in Groups \ {g} : r[h] = f[h]
             /\ r[g].settings = 0 /\ r[g].under = f[g].under
             /\ HasData(r[g]) => HasData(f[g])
<1> DEFINE b == f[g]
           c == [b EXCEPT !.settings = 0]
           r == [f EXCEPT ![g].settings = 0]
<1>1. b \in Batch
  OBVIOUS
<1>2. r = [f EXCEPT ![g] = c]
  OBVIOUS
<1> HIDE DEF b, r
<1>3. /\ c \in Batch
      /\ c.settings = 0 /\ c.under = b.under
      /\ HasData(c) => HasData(b)
  BY <1>1 DEF Batch, HasData
<1> HIDE DEF c
<1>4. /\ r \in [Groups -> Batch] /\ \A h \in Groups \ {g} : r[h] = f[h]
      /\ r[g] = c
  BY <1>2, <1>3
<1> QED
  BY <1>3, <1>4 DEF b, r

\* With its contest data.
LEMMA ContestDone ==
  ASSUME NEW f \in [Groups -> Batch], NEW g \in Groups
  PROVE  LET r == [f EXCEPT ![g].contest = FALSE]
         IN  /\ r \in [Groups -> Batch] /\ \A h \in Groups \ {g} : r[h] = f[h]
             /\ r[g].settings = f[g].settings /\ r[g].under = f[g].under
             /\ HasData(r[g]) => HasData(f[g])
<1> DEFINE b == f[g]
           c == [b EXCEPT !.contest = FALSE]
           r == [f EXCEPT ![g].contest = FALSE]
<1>1. b \in Batch
  OBVIOUS
<1>2. r = [f EXCEPT ![g] = c]
  OBVIOUS
<1> HIDE DEF b, r
<1>3. /\ c \in Batch
      /\ c.settings = b.settings /\ c.under = b.under
      /\ HasData(c) => HasData(b)
  BY <1>1 DEF Batch, HasData
<1> HIDE DEF c
<1>4. /\ r \in [Groups -> Batch] /\ \A h \in Groups \ {g} : r[h] = f[h]
      /\ r[g] = c
  BY <1>2, <1>3
<1> QED
  BY <1>3, <1>4 DEF b, r

\* With some of its scores.
LEMMA ScoresDone ==
  ASSUME NEW f \in [Groups -> Batch], NEW g \in Groups,
         NEW sc \in [Submissions -> Nat], \A s \in Submissions : sc[s] \in {0, f[g].score[s]}
  PROVE  LET r == [f EXCEPT ![g].score = sc]
         IN  /\ r \in [Groups -> Batch] /\ \A h \in Groups \ {g} : r[h] = f[h]
             /\ r[g].settings = f[g].settings /\ r[g].under = f[g].under
             /\ HasData(r[g]) => HasData(f[g])
<1> DEFINE b == f[g]
           c == [b EXCEPT !.score = sc]
           r == [f EXCEPT ![g].score = sc]
<1>0. \A s \in Submissions : sc[s] \in {0, b.score[s]}
  OBVIOUS
<1>1. b \in Batch
  OBVIOUS
<1>2. r = [f EXCEPT ![g] = c]
  OBVIOUS
<1> HIDE DEF b, r
<1>3. /\ c \in Batch
      /\ c.settings = b.settings /\ c.under = b.under
      /\ HasData(c) => HasData(b)
  BY <1>0, <1>1 DEF Batch, HasData
<1> HIDE DEF c
<1>4. /\ r \in [Groups -> Batch] /\ \A h \in Groups \ {g} : r[h] = f[h]
      /\ r[g] = c
  BY <1>2, <1>3
<1> QED
  BY <1>3, <1>4 DEF b, r

\* The ranking takes the settings v for g.
LEMMA VisibilityTaken ==
  ASSUME NEW f \in [Groups -> Held], NEW g \in Groups, NEW v \in Nat
  PROVE  LET r == [f EXCEPT ![g].visibility = v]
         IN  /\ r \in [Groups -> Held] /\ \A h \in Groups \ {g} : r[h] = f[h]
             /\ r[g].visibility = v /\ r[g].contest = f[g].contest
             /\ r[g].score = f[g].score
<1> DEFINE b == f[g]
           c == [b EXCEPT !.visibility = v]
           r == [f EXCEPT ![g].visibility = v]
<1>1. b \in Held
  OBVIOUS
<1>2. r = [f EXCEPT ![g] = c]
  OBVIOUS
<1> HIDE DEF b, r
<1>3. /\ c \in Held
      /\ c.visibility = v /\ c.contest = b.contest
      /\ c.score = b.score
  BY <1>1 DEF Held
<1> HIDE DEF c
<1>4. /\ r \in [Groups -> Held] /\ \A h \in Groups \ {g} : r[h] = f[h]
      /\ r[g] = c
  BY <1>2, <1>3
<1> QED
  BY <1>3, <1>4 DEF b, r

\* It takes the contest data.
LEMMA ContestTaken ==
  ASSUME NEW f \in [Groups -> Held], NEW g \in Groups
  PROVE  LET r == [f EXCEPT ![g].contest = TRUE]
         IN  /\ r \in [Groups -> Held] /\ \A h \in Groups \ {g} : r[h] = f[h]
             /\ r[g].visibility = f[g].visibility /\ r[g].score = f[g].score
<1> DEFINE b == f[g]
           c == [b EXCEPT !.contest = TRUE]
           r == [f EXCEPT ![g].contest = TRUE]
<1>1. b \in Held
  OBVIOUS
<1>2. r = [f EXCEPT ![g] = c]
  OBVIOUS
<1> HIDE DEF b, r
<1>3. /\ c \in Held
      /\ c.visibility = b.visibility /\ c.score = b.score
  BY <1>1 DEF Held
<1> HIDE DEF c
<1>4. /\ r \in [Groups -> Held] /\ \A h \in Groups \ {g} : r[h] = f[h]
      /\ r[g] = c
  BY <1>2, <1>3
<1> QED
  BY <1>3, <1>4 DEF b, r

\* It takes scores.
LEMMA ScoresTaken ==
  ASSUME NEW f \in [Groups -> Held], NEW g \in Groups, NEW sc \in [Submissions -> Nat]
  PROVE  LET r == [f EXCEPT ![g].score = sc]
         IN  /\ r \in [Groups -> Held] /\ \A h \in Groups \ {g} : r[h] = f[h]
             /\ r[g].visibility = f[g].visibility
<1> DEFINE b == f[g]
           c == [b EXCEPT !.score = sc]
           r == [f EXCEPT ![g].score = sc]
<1>1. b \in Held
  OBVIOUS
<1>2. r = [f EXCEPT ![g] = c]
  OBVIOUS
<1> HIDE DEF b, r
<1>3. /\ c \in Held
      /\ c.visibility = b.visibility
  BY <1>1 DEF Held
<1> HIDE DEF c
<1>4. /\ r \in [Groups -> Held] /\ \A h \in Groups \ {g} : r[h] = f[h]
      /\ r[g] = c
  BY <1>2, <1>3
<1> QED
  BY <1>3, <1>4 DEF b, r

\* It empties the namespace, but for its settings.
LEMMA NamespaceEmptied ==
  ASSUME NEW f \in [Groups -> Held], NEW g \in Groups
  PROVE  LET r == [f EXCEPT ![g] = [Empty EXCEPT !.visibility = f[g].visibility]]
         IN  /\ r \in [Groups -> Held] /\ \A h \in Groups \ {g} : r[h] = f[h]
             /\ r[g].visibility = f[g].visibility /\ ~r[g].contest
             /\ \A s \in Submissions : r[g].score[s] = 0
<1> DEFINE b == f[g]
           c == [Empty EXCEPT !.visibility = b.visibility]
           r == [f EXCEPT ![g] = [Empty EXCEPT !.visibility = f[g].visibility]]
<1>1. b \in Held
  OBVIOUS
<1>2. r = [f EXCEPT ![g] = c]
  OBVIOUS
<1> HIDE DEF b, r
<1>3. /\ c \in Held
      /\ c.visibility = b.visibility /\ ~c.contest
      /\ \A s \in Submissions : c.score[s] = 0
  BY <1>1 DEF Held, Empty
<1> HIDE DEF c
<1>4. /\ r \in [Groups -> Held] /\ \A h \in Groups \ {g} : r[h] = f[h]
      /\ r[g] = c
  BY <1>2, <1>3
<1> QED
  BY <1>3, <1>4 DEF b, r

\* Nothing appears in the namespace of g.
ShowsNothing(g) ==
    /\ ranking'[g].contest => ranking[g].contest
    /\ \A s \in Submissions : ranking'[g].score[s] \in {0, ranking[g].score[s]}

\* What a request comes to.
Requests ==
    /\ BatchesOK' /\ RankingOK'
    /\ queue' = queue /\ asked' = asked /\ db' = db /\ regen' = regen /\ threads' = threads
    /\ running' = running /\ stalled' \subseteq stalled \cup running
    /\ \A h \in Groups : Sends(h)
    /\ \A h \in Groups : ShowsNothing(h)
                         \/ (DataIsNext(h) /\ h \notin rejected /\ HasData(round[h]))
    /\ \A h \in Groups \ running : round'[h] = round[h]

\* A request for g, from what it does to g.
LEMMA RequestFor ==
  ASSUME TypeOK, NEW g \in Groups, IsNext(g), Sends(g),
         round' \in [Groups -> Batch], ranking' \in [Groups -> Held],
         \A h \in Groups \ {g} : round'[h] = round[h] /\ ranking'[h] = ranking[h]
                                 /\ (h \in rejected => h \in rejected'),
         UNCHANGED <<queue, asked, db, regen, threads, running>>,
         stalled' \subseteq stalled \cup {g},
         ShowsNothing(g) \/ (DataIsNext(g) /\ g \notin rejected /\ HasData(round[g]))
  PROVE  Requests
<1>1. g \in running
  <2>1. Sending # {} /\ g = CHOOSE h \in Sending : TRUE
    BY DEF IsNext
  <2>2. g \in Sending
    BY <2>1
  <2> QED
    BY <2>2 DEF Sending
<1>2. BatchesOK' /\ RankingOK'
  BY DEF BatchesOK, RankingOK, TypeOK
<1>3. ASSUME NEW h \in Groups \ {g}
      PROVE  Sends(h) /\ ShowsNothing(h)
  <2>1. round'[h] = round[h] /\ ranking'[h] = ranking[h] /\ (h \in rejected => h \in rejected')
    OBVIOUS
  <2>2. round[h].under \in Nat
    BY Numbers
  <2> QED
    BY <2>1, <2>2 DEF Sends, ShowsNothing
<1> QED
  BY <1>1, <1>2, <1>3 DEF Requests

\* One lemma per request: a reset is sent.
LEMMA ResetRequest ==
  ASSUME TypeOK, NEW g \in Groups, SendReset(g)
  PROVE  Requests
<1>1. round \in [Groups -> Batch] /\ ranking \in [Groups -> Held] /\ round[g].under \in Nat
      /\ round[g].score \in [Submissions -> Nat] /\ ranking[g].visibility \in Nat
  BY Numbers DEF TypeOK, BatchesOK, RankingOK, Batch
<1>2. LET r == [round EXCEPT ![g].reset = FALSE]
      IN  /\ r \in [Groups -> Batch] /\ \A h \in Groups \ {g} : r[h] = round[h]
          /\ r[g].settings = round[g].settings /\ r[g].under = round[g].under
          /\ HasData(r[g]) => HasData(round[g])
  BY <1>1, ResetDone
<1>3. LET r == Emptied(g)
      IN  /\ r \in [Groups -> Held] /\ \A h \in Groups \ {g} : r[h] = ranking[h]
          /\ r[g].visibility = ranking[g].visibility /\ ~r[g].contest
          /\ \A s \in Submissions : r[g].score[s] = 0
  BY <1>1, NamespaceEmptied DEF Emptied
<1>4. /\ IsNext(g) /\ round' \in {round, [round EXCEPT ![g].reset = FALSE]}
      /\ ranking' \in {ranking, Emptied(g)} /\ stalled' \subseteq stalled \cup {g}
      /\ UNCHANGED <<queue, asked, db, regen, threads, running, rejected>>
  BY DEF SendReset
<1>5. /\ round' \in [Groups -> Batch] /\ \A h \in Groups \ {g} : round'[h] = round[h]
      /\ round'[g].settings = round[g].settings /\ round'[g].under = round[g].under
      /\ HasData(round'[g]) => HasData(round[g])
  BY <1>1, <1>2, <1>4
<1>6. /\ ranking' \in [Groups -> Held] /\ \A h \in Groups \ {g} : ranking'[h] = ranking[h]
      /\ ranking'[g].visibility = ranking[g].visibility /\ ShowsNothing(g)
  BY <1>1, <1>3, <1>4 DEF ShowsNothing
<1>7. Sends(g)
  BY <1>1, <1>4, <1>5, <1>6 DEF Sends
<1> QED
  BY <1>4, <1>5, <1>6, <1>7, RequestFor

\* The settings are sent.
LEMMA VisibilityRequest ==
  ASSUME TypeOK, NEW g \in Groups, SendVisibility(g)
  PROVE  Requests
<1> DEFINE taken == [ranking EXCEPT ![g].visibility = round[g].settings]
           done == [round EXCEPT ![g].settings = 0]
<1>1. round \in [Groups -> Batch] /\ ranking \in [Groups -> Held] /\ round[g].under \in Nat
      /\ round[g].settings \in Nat /\ round[g].score \in [Submissions -> Nat]
  BY Numbers DEF TypeOK, BatchesOK, RankingOK, Batch
<1>2. /\ done \in [Groups -> Batch] /\ \A h \in Groups \ {g} : done[h] = round[h]
      /\ done[g].settings = 0 /\ done[g].under = round[g].under
      /\ HasData(done[g]) => HasData(round[g])
  BY <1>1, SettingsDone
<1>3. /\ taken \in [Groups -> Held] /\ \A h \in Groups \ {g} : taken[h] = ranking[h]
      /\ taken[g].visibility = round[g].settings /\ taken[g].contest = ranking[g].contest
      /\ taken[g].score = ranking[g].score
  BY <1>1, VisibilityTaken
<1> HIDE DEF taken, done
<1>4. /\ IsNext(g) /\ round[g].settings # 0 /\ stalled' \subseteq stalled \cup {g}
      /\ UNCHANGED <<queue, asked, db, regen, threads, running>>
      /\ \/ ranking' = taken /\ round' = done /\ rejected' = rejected \ {g}
         \/ ranking' = ranking /\ round' = done /\ rejected' = rejected \cup {g}
         \/ ranking' \in {ranking, taken} /\ round' = round /\ rejected' = rejected
  BY DEF SendVisibility, taken, done
<1>5. /\ round' \in [Groups -> Batch] /\ \A h \in Groups \ {g} : round'[h] = round[h]
      /\ round'[g].under = round[g].under /\ HasData(round'[g]) => HasData(round[g])
  BY <1>1, <1>2, <1>4
<1>6. /\ ranking' \in [Groups -> Held] /\ \A h \in Groups \ {g} : ranking'[h] = ranking[h]
      /\ ShowsNothing(g)
  BY <1>1, <1>3, <1>4 DEF ShowsNothing
<1>7. Sends(g)
  BY <1>1, <1>2, <1>3, <1>4, <1>5 DEF Sends
<1>8. \A h \in Groups \ {g} : h \in rejected => h \in rejected'
  BY <1>4
<1> QED
  BY <1>4, <1>5, <1>6, <1>7, <1>8, RequestFor

\* Data is dropped.
LEMMA DropRequest ==
  ASSUME TypeOK, NEW g \in Groups, DropData(g)
  PROVE  Requests
<1>1. round \in [Groups -> Batch] /\ ranking \in [Groups -> Held] /\ round[g].under \in Nat
      /\ ranking[g].visibility \in Nat
  BY Numbers DEF TypeOK, BatchesOK, RankingOK
<1>2. /\ IsNext(g) /\ round[g].settings = 0 /\ round' = [round EXCEPT ![g] = Nothing]
      /\ UNCHANGED <<queue, asked, db, regen, threads, running, rejected, ranking, stalled>>
  BY DEF DropData, DataIsNext
<1>3. /\ round' \in [Groups -> Batch] /\ round'[g] = Nothing
      /\ \A h \in Groups \ {g} : round'[h] = round[h]
  BY <1>1, <1>2, NothingFacts
<1>4. Sends(g)
  BY <1>1, <1>2, <1>3, NothingFacts DEF Sends
<1>5. ShowsNothing(g)
  BY <1>2 DEF ShowsNothing
<1> QED
  BY <1>1, <1>2, <1>3, <1>4, <1>5, RequestFor

\* Contest data is sent.
LEMMA ContestRequest ==
  ASSUME TypeOK, NEW g \in Groups, SendContest(g)
  PROVE  Requests
<1> DEFINE taken == [ranking EXCEPT ![g].contest = TRUE]
           done == [round EXCEPT ![g].contest = FALSE]
<1>1. round \in [Groups -> Batch] /\ ranking \in [Groups -> Held] /\ round[g].under \in Nat
      /\ round[g].score \in [Submissions -> Nat]
  BY Numbers DEF TypeOK, BatchesOK, RankingOK, Batch
<1>2. /\ done \in [Groups -> Batch] /\ \A h \in Groups \ {g} : done[h] = round[h]
      /\ done[g].settings = round[g].settings /\ done[g].under = round[g].under
      /\ HasData(done[g]) => HasData(round[g])
  BY <1>1, ContestDone
<1>3. /\ taken \in [Groups -> Held] /\ \A h \in Groups \ {g} : taken[h] = ranking[h]
      /\ taken[g].visibility = ranking[g].visibility
  BY <1>1, ContestTaken
<1> HIDE DEF taken, done
<1>4. /\ DataIsNext(g) /\ g \notin rejected /\ round[g].contest
      /\ stalled' \subseteq stalled \cup {g}
      /\ UNCHANGED <<queue, asked, db, regen, threads, running, rejected>>
      /\ ranking' \in {ranking, taken} /\ round' \in {round, done}
  BY DEF SendContest, taken, done
<1>5. /\ round' \in [Groups -> Batch] /\ \A h \in Groups \ {g} : round'[h] = round[h]
      /\ round'[g].settings = round[g].settings /\ round'[g].under = round[g].under
      /\ HasData(round'[g]) => HasData(round[g])
  BY <1>1, <1>2, <1>4
<1>6. /\ ranking' \in [Groups -> Held] /\ \A h \in Groups \ {g} : ranking'[h] = ranking[h]
      /\ ranking'[g].visibility = ranking[g].visibility
  BY <1>1, <1>3, <1>4
<1>7. Sends(g)
  BY <1>1, <1>4, <1>5, <1>6 DEF Sends
<1>8. IsNext(g) /\ HasData(round[g])
  BY <1>4 DEF DataIsNext, HasData
<1> QED
  BY <1>4, <1>5, <1>6, <1>7, <1>8, RequestFor

\* Scores are sent.
LEMMA ScoresRequest ==
  ASSUME TypeOK, NEW g \in Groups, SendScores(g)
  PROVE  Requests
<1> DEFINE Took(S) == [s \in Submissions |-> IF s \in S THEN round[g].score[s]
                                                       ELSE ranking[g].score[s]]
           Done(S) == [s \in Submissions |-> IF s \in S THEN 0 ELSE round[g].score[s]]
<1>1. round \in [Groups -> Batch] /\ ranking \in [Groups -> Held] /\ round[g].under \in Nat
      /\ round[g].score \in [Submissions -> Nat] /\ ranking[g].score \in [Submissions -> Nat]
  BY Numbers DEF TypeOK, BatchesOK, RankingOK, Batch, Held
<1>2. \A S : /\ Took(S) \in [Submissions -> Nat] /\ Done(S) \in [Submissions -> Nat]
             /\ \A s \in Submissions : Done(S)[s] \in {0, round[g].score[s]}
  BY <1>1
<1>3. /\ DataIsNext(g) /\ g \notin rejected /\ (\E s \in Submissions : round[g].score[s] # 0)
      /\ stalled' \subseteq stalled \cup {g}
      /\ UNCHANGED <<queue, asked, db, regen, threads, running, rejected>>
      /\ \E S : ranking' = [ranking EXCEPT ![g].score = Took(S)]
      /\ \E S : round' = [round EXCEPT ![g].score = Done(S)]
  BY DEF SendScores
<1> HIDE DEF Took, Done
<1>4. PICK S : ranking' = [ranking EXCEPT ![g].score = Took(S)]
  BY <1>3
<1>5. PICK T : round' = [round EXCEPT ![g].score = Done(T)]
  BY <1>3
<1> DEFINE took == Took(S)
           done == Done(T)
<1>6. took \in [Submissions -> Nat] /\ done \in [Submissions -> Nat]
      /\ \A s \in Submissions : done[s] \in {0, round[g].score[s]}
  BY <1>2
<1>7. ranking' = [ranking EXCEPT ![g].score = took] /\ round' = [round EXCEPT ![g].score = done]
  BY <1>4, <1>5
<1> HIDE DEF took, done
<1>8. /\ round' \in [Groups -> Batch] /\ \A h \in Groups \ {g} : round'[h] = round[h]
      /\ round'[g].settings = round[g].settings /\ round'[g].under = round[g].under
      /\ HasData(round'[g]) => HasData(round[g])
  BY <1>1, <1>6, <1>7, ScoresDone
<1>9. /\ ranking' \in [Groups -> Held] /\ \A h \in Groups \ {g} : ranking'[h] = ranking[h]
      /\ ranking'[g].visibility = ranking[g].visibility
  BY <1>1, <1>6, <1>7, ScoresTaken
<1>10. Sends(g)
  BY <1>1, <1>3, <1>8, <1>9 DEF Sends
<1>11. IsNext(g) /\ HasData(round[g])
  BY <1>3 DEF DataIsNext, HasData
<1> QED
  BY <1>3, <1>8, <1>9, <1>10, <1>11, RequestFor

\* A request keeps the rest of the invariant.
LEMMA RequestKeeps ==
  ASSUME IInv, TypeOK', Requests
  PROVE  RoundOK' /\ RegenOK' /\ \A g \in Groups : NotAhead(g)' /\ Ordered(g)'
<1>1. RoundOK /\ RegenOK
  BY DEF IInv
<1>2. RoundOK'
  BY <1>1 DEF Requests, RoundOK
<1>3. RegenOK'
  BY <1>1 DEF Requests, RegenOK
<1>4. ASSUME NEW g \in Groups
      PROVE  NotAhead(g)' /\ Ordered(g)'
  <2>1. Sends(g) /\ queue'[g] = queue[g] /\ asked'[g] = asked[g]
        /\ db'.visibility[g] = db.visibility[g]
    BY DEF Requests
  <2> QED
    BY <2>1, SendStep
<1> QED
  BY <1>2, <1>3, <1>4
-----------------------------------------------------------------------------
(* The ends of a round *)

\* The queue of the namespaces that are due becomes the round.
LEMMA TakeBatchKeeps ==
  ASSUME IInv, TypeOK', TakeBatch
  PROVE  RoundOK' /\ RegenOK' /\ \A g \in Groups : NotAhead(g)' /\ Ordered(g)'
<1>1. TypeOK /\ RoundOK /\ RegenOK /\ \A g \in Groups : NotAhead(g) /\ Ordered(g)
  BY DEF IInv
<1> DEFINE due == {g \in Groups \ waiting : queue[g] # Nothing}
<1>2. /\ running = {} /\ running' = due
      /\ round' = [g \in Groups |-> IF g \in due THEN queue[g] ELSE Nothing]
      /\ queue' = [g \in Groups |-> IF g \in due THEN Nothing ELSE queue[g]]
      /\ UNCHANGED <<db, stalled, rejected, ranking, regen, asked>>
  BY DEF TakeBatch
<1> HIDE DEF due
<1>3. RoundOK'
  BY <1>1, <1>2 DEF RoundOK
<1>4. RegenOK'
  BY <1>1, <1>2 DEF RegenOK
<1>5. ASSUME NEW g \in Groups
      PROVE  NotAhead(g)' /\ Ordered(g)'
  <2>1. round[g] = Nothing
    BY <1>1, <1>2 DEF RoundOK
  <2>2. /\ queue[g].settings \in Nat /\ queue[g].under \in Nat
        /\ asked[g] \in Nat /\ db.visibility[g] \in Nat /\ ranking[g].visibility \in Nat
    BY <1>1, Numbers
  <2>3. \/ round'[g] = queue[g] /\ queue'[g] = Nothing
        \/ round'[g] = Nothing /\ queue'[g] = queue[g]
    BY <1>2
  <2>4. NotAhead(g) /\ Ordered(g)
    BY <1>1
  <2>5. NotAhead(g)'
    BY <1>2, <2>2, <2>3, <2>4, NothingFacts DEF NotAhead
  <2>6. CASE round'[g] = queue[g] /\ queue'[g] = Nothing
    BY <1>2, <2>1, <2>4, <2>5, <2>6, NothingFacts
       DEF Ordered, InForceAfterQueue, InForceAfterRound
  <2>7. CASE round'[g] = Nothing /\ queue'[g] = queue[g]
    BY <1>2, <2>1, <2>4, <2>5, <2>7, NothingFacts
       DEF Ordered, InForceAfterQueue, InForceAfterRound
  <2> QED
    BY <2>3, <2>6, <2>7
<1> QED
  BY <1>3, <1>4, <1>5

\* What a round did not send goes back, ahead of what was queued meanwhile.
LEMMA EndRoundKeeps ==
  ASSUME IInv, TypeOK', EndRound
  PROVE  RoundOK' /\ RegenOK' /\ \A g \in Groups : NotAhead(g)' /\ Ordered(g)'
<1>1. TypeOK /\ RoundOK /\ RegenOK /\ \A g \in Groups : NotAhead(g) /\ Ordered(g)
  BY DEF IInv
<1>2. /\ Sending = {} /\ running' = {} /\ stalled' = {} /\ round' = EmptyQueue
      /\ queue' = [g \in Groups |-> IF g \in stalled THEN Combined(round[g], queue[g])
                                                     ELSE queue[g]]
      /\ UNCHANGED <<db, rejected, ranking, regen, asked>>
  BY DEF EndRound
<1>3. RoundOK'
  BY <1>2 DEF RoundOK, EmptyQueue
<1>4. RegenOK'
  BY <1>1, <1>2 DEF RegenOK
<1>5. ASSUME NEW g \in Groups
      PROVE  NotAhead(g)' /\ Ordered(g)'
  <2>1. round'[g] = Nothing
    BY <1>2 DEF EmptyQueue
  <2>2. /\ queue[g].settings \in Nat /\ queue[g].under \in Nat
        /\ round[g].settings \in Nat /\ round[g].under \in Nat
        /\ asked[g] \in Nat /\ db.visibility[g] \in Nat /\ ranking[g].visibility \in Nat
        /\ queue[g] \in Batch /\ round[g] \in Batch
    BY <1>1, Numbers
  <2>3. NotAhead(g) /\ Ordered(g)
    BY <1>1
  <2>4. CASE g \in stalled
    <3> DEFINE b == Combined(round[g], queue[g])
    <3>1. /\ b.settings = IF queue[g].settings # 0 THEN queue[g].settings ELSE round[g].settings
          /\ HasData(b) => HasData(queue[g]) \/ (HasData(round[g]) /\ ~queue[g].reset)
          /\ HasData(queue[g]) /\ (queue[g].settings = 0
                                   \/ queue[g].under <= queue[g].settings)
               => b.under = queue[g].under
          /\ ~HasData(queue[g]) /\ ~queue[g].reset /\ queue[g].settings = 0
               => b.under = round[g].under
          /\ queue[g].settings # 0 => b.under <= queue[g].settings
          /\ ~HasData(queue[g]) => b.under <= round[g].under
          /\ b.under \in Nat
      BY <2>2, CombinedFacts DEF Batch
    <3>2. queue'[g] = b
      BY <1>2, <2>4
    <3> HIDE DEF b
    <3>0. HasData(queue[g]) => queue[g].settings = 0 \/ queue[g].under <= queue[g].settings
      BY <2>3 DEF Ordered, InForceAfterQueue
    <3>3. NotAhead(g)'
      BY <1>2, <2>1, <2>2, <2>3, <3>0, <3>1, <3>2, NothingFacts DEF NotAhead
    <3>4. \A u : InForceAfterQueue(g, u) =>
                 IF b.settings # 0 THEN u <= b.settings
                 ELSE g \in rejected \/ u <= ranking[g].visibility
      BY <3>1 DEF InForceAfterQueue, InForceAfterRound
    <3>5. HasData(b) => IF b.settings # 0 THEN b.under <= b.settings
                        ELSE g \in rejected \/ b.under <= ranking[g].visibility
      <4>1. CASE HasData(queue[g])
        BY <2>3, <3>0, <3>1, <3>4, <4>1 DEF Ordered
      <4>2. CASE ~HasData(queue[g]) /\ HasData(round[g]) /\ ~queue[g].reset
        BY <2>3, <3>1, <4>2 DEF Ordered, InForceAfterRound
      <4> QED
        BY <3>1, <4>1, <4>2
    <3>6. IF b.settings # 0 THEN asked[g] <= b.settings
          ELSE g \in rejected \/ asked[g] <= ranking[g].visibility
      BY <2>3, <3>4 DEF Ordered
    <3> QED
      BY <1>2, <2>1, <3>2, <3>3, <3>5, <3>6, NothingFacts
         DEF Ordered, InForceAfterQueue, InForceAfterRound
  <2>5. CASE g \notin stalled
    <3>1. round[g].settings = 0 /\ ~HasData(round[g])
      <4>1. CASE g \in running
        <5>1. [round[g] EXCEPT !.under = 0] = Nothing
          BY <1>2, <2>5, <4>1 DEF Sending
        <5> DEFINE b == [round[g] EXCEPT !.under = 0]
        <5>2. b.settings = round[g].settings /\ (HasData(round[g]) => HasData(b))
          BY <2>2 DEF Batch, HasData
        <5> QED
          BY <5>1, <5>2, NothingFacts
      <4>2. CASE g \notin running
        BY <1>1, <4>2, NothingFacts DEF RoundOK
      <4> QED
        BY <4>1, <4>2
    <3>2. queue'[g] = queue[g]
      BY <1>2, <2>5
    <3>3. NotAhead(g)'
      BY <1>2, <2>1, <2>2, <2>3, <3>2, NothingFacts DEF NotAhead
    <3> QED
      BY <1>2, <2>1, <2>3, <3>1, <3>2, <3>3, NothingFacts
         DEF Ordered, InForceAfterQueue, InForceAfterRound
  <2> QED
    BY <2>4, <2>5
<1> QED
  BY <1>3, <1>4, <1>5
-----------------------------------------------------------------------------
(* The threads *)

\* A step of a thread, from what it queues for each group.
LEMMA QueueKeeps ==
  ASSUME IInv, TypeOK', \A g \in Groups : Queues(g), RegenOK',
         \A g \in Groups : db.visibility[g] <= db'.visibility[g],
         UNCHANGED <<round, running, stalled, rejected, ranking>>
  PROVE  RoundOK' /\ RegenOK' /\ \A g \in Groups : NotAhead(g)' /\ Ordered(g)'
<1>1. RoundOK'
  BY DEF IInv, RoundOK
<1>2. ASSUME NEW g \in Groups
      PROVE  NotAhead(g)' /\ Ordered(g)'
  BY QueueStep
<1> QED
  BY <1>1, <1>2

\* A group that lost a contest is reset, and its data in the queue goes.
LEMMA ResetQueues ==
  ASSUME IInv, NEW t \in threads, QueueReset(t)
  PROVE  /\ queue' \in [Groups -> Batch] /\ asked' \in [Groups -> Nat]
         /\ \A g \in Groups : Queues(g)
<1> DEFINE k == t.group
           b == Combined(queue[k], Reset)
<1>1. queue \in [Groups -> Batch] /\ asked \in [Groups -> Nat] /\ ThreadsOK
  BY DEF IInv, TypeOK, BatchesOK, AskedOK
<1>2. t.pc = "reset" /\ asked' = asked /\ queue' = [queue EXCEPT ![k] = b]
  BY DEF QueueReset, Queued
<1>3. k \in Groups
  BY <1>1, <1>2 DEF ThreadsOK, ThreadOK
<1>4. Reset \in Batch /\ Reset.reset /\ Reset.settings = 0 /\ ~HasData(Reset)
  BY DEF Reset, Nothing, Batch, HasData
<1> HIDE DEF k
<1>5. /\ b \in Batch /\ b.reset /\ b.settings = queue[k].settings
      /\ ~HasData(b) /\ b.under = 0
  BY <1>1, <1>3, <1>4, CombinedFacts
<1> HIDE DEF b
<1> QED
  BY <1>1, <1>2, <1>3, <1>5 DEF Queues

\* The settings that a thread has read are queued.
LEMMA SettingsQueues ==
  ASSUME IInv, NEW t \in threads, NEW k \in Groups, QueueSettings(t, k)
  PROVE  /\ queue' \in [Groups -> Batch] /\ asked' \in [Groups -> Nat]
         /\ \A g \in Groups : Queues(g)
<1> DEFINE v == t.settings[k]
           n == Visibility(v)
           b == Combined(queue[k], n)
<1>1. queue \in [Groups -> Batch] /\ asked \in [Groups -> Nat] /\ ThreadsOK /\ SeenOK
  BY DEF IInv, TypeOK, BatchesOK, AskedOK
<1>2. v # 0 /\ asked' = [asked EXCEPT ![k] = v] /\ queue' = [queue EXCEPT ![k] = b]
  BY DEF QueueSettings, Queued
<1>3. v \in Nat /\ v <= db.visibility[k]
  BY <1>1 DEF ThreadsOK, ThreadOK, ThreadRecords, SeenOK
<1> HIDE DEF v
<1>4. n \in Batch /\ ~n.reset /\ n.settings = v /\ ~HasData(n)
  BY <1>3 DEF Visibility, Nothing, Batch, HasData
<1> HIDE DEF n
<1>5. b \in Batch /\ b.settings = v /\ b.under <= v
  BY <1>1, <1>2, <1>4, CombinedFacts
<1> HIDE DEF b
<1>6. Queues(k)
  BY <1>1, <1>2, <1>3, <1>5 DEF Queues
<1>7. \A g \in Groups \ {k} : Queues(g)
  BY <1>1, <1>2 DEF Queues
<1> QED
  BY <1>1, <1>2, <1>3, <1>5, <1>6, <1>7

\* Data is queued with the settings asked for last.
LEMMA DataQueues ==
  ASSUME IInv, NEW k \in Groups, NEW n \in Batch,
         ~n.reset, n.settings = 0, n.under = asked[k],
         asked' = asked, queue' = Queued(queue, k, n)
  PROVE  /\ queue' \in [Groups -> Batch] /\ asked' \in [Groups -> Nat]
         /\ \A g \in Groups : Queues(g)
<1> DEFINE b == Combined(queue[k], n)
<1>1. queue \in [Groups -> Batch] /\ asked \in [Groups -> Nat]
  BY DEF IInv, TypeOK, BatchesOK, AskedOK
<1>2. queue' = [queue EXCEPT ![k] = b]
  BY DEF Queued
<1>3. asked[k] \in Nat /\ queue[k] \in Batch
  BY <1>1
<1>4. /\ b \in Batch /\ b.reset = (queue[k].reset \/ n.reset)
      /\ b.settings = queue[k].settings
      /\ b.under = asked[k] \/ (b.under = queue[k].under /\ (HasData(b) => HasData(queue[k])))
  BY <1>3, CombinedFacts
<1>5. b.reset = queue[k].reset
  <2>1. queue[k].reset \in BOOLEAN
    BY <1>3 DEF Batch
  <2> QED
    BY <1>4, <2>1
<1> HIDE DEF b
<1> QED
  BY <1>1, <1>2, <1>4, <1>5 DEF Queues

\* Contest data.
LEMMA ContestQueues ==
  ASSUME IInv, NEW t \in threads, NEW k \in Groups, QueueContest(t, k)
  PROVE  /\ queue' \in [Groups -> Batch] /\ asked' \in [Groups -> Nat]
         /\ \A g \in Groups : Queues(g)
<1> DEFINE n == ContestData(asked[k])
<1>1. asked[k] \in Nat
  BY DEF IInv, TypeOK, AskedOK
<1>2. asked' = asked /\ queue' = Queued(queue, k, n)
  BY DEF QueueContest
<1>3. n \in Batch /\ ~n.reset /\ n.settings = 0 /\ n.under = asked[k]
  BY <1>1 DEF ContestData, Nothing, Batch
<1> HIDE DEF n
<1> QED
  BY <1>2, <1>3, DataQueues

\* A score.
LEMMA ScoreQueues ==
  ASSUME IInv, NEW t \in threads, QueueScore(t)
  PROVE  /\ queue' \in [Groups -> Batch] /\ asked' \in [Groups -> Nat]
         /\ \A g \in Groups : Queues(g)
<1> DEFINE s == t.sub
           k == GroupOf[s]
           n == ScoreOf(s, t.value, asked[k])
<1>1. asked \in [Groups -> Nat] /\ ThreadsOK
  BY DEF IInv, TypeOK, AskedOK
<1>2. t.pc = "marked" /\ asked' = asked /\ queue' = Queued(queue, k, n)
  BY DEF QueueScore
<1>3. s \in Submissions /\ t.value \in Nat
  BY <1>1, <1>2 DEF ThreadsOK, ThreadOK, ThreadRecords
<1>4. k \in Groups /\ asked[k] \in Nat
  BY <1>1, <1>3, ProxyAssumption
<1> HIDE DEF s, k
<1>5. n \in Batch /\ ~n.reset /\ n.settings = 0 /\ n.under = asked[k]
  BY <1>3, <1>4, BatchFacts
<1> HIDE DEF n
<1> QED
  BY <1>2, <1>4, <1>5, DataQueues

\* A regenerate queues a reset, then its settings with its data.
LEMMA RegenQueues ==
  ASSUME IInv, RegenQueue
  PROVE  /\ queue' \in [Groups -> Batch] /\ asked' \in [Groups -> Nat]
         /\ \A g \in Groups : Queues(g)
<1> DEFINE k == regen.group
           n == regen.read
           b == Combined(queue[k], n)
<1>1. queue \in [Groups -> Batch] /\ asked \in [Groups -> Nat] /\ ThreadsOK /\ RegenOK
  BY DEF IInv, TypeOK, BatchesOK, AskedOK
<1>2. /\ regen.pc = "read" /\ asked' = [asked EXCEPT ![k] = n.settings]
      /\ queue' = [queue EXCEPT ![k] = b]
  BY DEF RegenQueue, Queued
<1>3. k \in Groups /\ n \in Batch
  BY <1>1, <1>2 DEF ThreadsOK
<1>4. /\ n.reset /\ HasData(n) /\ n.settings # 0 /\ n.under = n.settings
      /\ n.settings <= db.visibility[k] /\ n.settings \in Nat
  BY <1>1, <1>2, <1>3 DEF RegenOK, Batch
<1> HIDE DEF k, n
<1>5. b \in Batch /\ b.reset /\ b.settings = n.settings /\ b.under = n.settings
  <2>1. queue[k] \in Batch /\ n.under <= n.settings
    BY <1>1, <1>3, <1>4
  <2> QED
    BY <1>3, <1>4, <2>1, CombinedFacts
<1> HIDE DEF b
<1>6. Queues(k)
  BY <1>1, <1>2, <1>3, <1>4, <1>5 DEF Queues
<1>7. \A g \in Groups \ {k} : Queues(g)
  BY <1>1, <1>2, <1>3 DEF Queues
<1> QED
  BY <1>1, <1>2, <1>3, <1>4, <1>5, <1>6, <1>7
-----------------------------------------------------------------------------
(* The types *)

\* What a thread becomes: it keeps what it is, has read what is in the database,
\* and leaves out a score only if there is none, or it is marked.
GoesOn(t, u) ==
    /\ Becomes(t, u)
    /\ u \in ThreadRecords /\ (IsOver(u) \/ ThreadOK(u))
    /\ \A g \in Groups : u.settings[g] \in {0, t.settings[g], db.visibility[g]}
    /\ u.kind = t.kind /\ u.group = t.group /\ u.pc # "reset"
    /\ u.scores \subseteq t.scores
    /\ \A s \in t.scores \ u.scores :
         db.score[s] = 0 \/ (s = t.sub /\ (t.kind = "sweep" \/ t.pc = "marked"))
    /\ u.pc \in {"read", "marked"} =>
         \/ t.pc = "read" /\ u.pc = "marked" /\ u.sub = t.sub /\ u.value = t.value
         \/ t.pc = "work" /\ u.value = db.score[u.sub] /\ u.value # 0

LEMMA ResetGoesOn ==
  ASSUME TypeOK, NEW t \in threads, QueueReset(t)
  PROVE  \E u : GoesOn(t, u)
<1> DEFINE u == [t EXCEPT !.pc = "start"]
<1>1. ThreadOK(t) /\ t.pc = "reset" /\ Becomes(t, u)
  BY DEF TypeOK, ThreadsOK, QueueReset
<1>2. u \in ThreadRecords /\ ThreadOK(u) /\ u.settings = t.settings /\ u.pc = "start"
      /\ u.kind = t.kind /\ u.group = t.group /\ u.scores = t.scores
  BY <1>1 DEF ThreadOK, ThreadRecords
<1> HIDE DEF u
<1> QED
  BY <1>1, <1>2 DEF GoesOn

LEMMA ReadSettingsGoesOn ==
  ASSUME TypeOK, NEW t \in threads, ReadSettings(t)
  PROVE  \E u : GoesOn(t, u)
<1> DEFINE u == [t EXCEPT !.pc = "work", !.settings = db.visibility]
<1>1. ThreadOK(t) /\ t.pc = "start" /\ Becomes(t, u)
  BY DEF TypeOK, ThreadsOK, ReadSettings
<1>2. db.visibility \in [Groups -> Nat]
  BY DEF TypeOK, DbOK
<1>3. u \in ThreadRecords /\ ThreadOK(u) /\ u.settings = db.visibility /\ u.pc = "work"
      /\ u.kind = t.kind /\ u.group = t.group /\ u.scores = t.scores
  BY <1>1, <1>2 DEF ThreadOK, ThreadRecords
<1> HIDE DEF u
<1> QED
  BY <1>1, <1>3 DEF GoesOn

LEMMA SettingsGoesOn ==
  ASSUME TypeOK, NEW t \in threads, NEW k \in Groups, QueueSettings(t, k)
  PROVE  \E u : GoesOn(t, u)
<1> DEFINE f == [t.settings EXCEPT ![k] = 0]
           u == [t EXCEPT !.settings = f]
<1>1. ThreadOK(t) /\ t.pc = "work"
  BY DEF TypeOK, ThreadsOK, QueueSettings
<1>2. t \in ThreadRecords /\ t.settings \in [Groups -> Nat]
  BY <1>1 DEF ThreadOK, ThreadRecords
<1>3. [t EXCEPT !.settings[k] = 0] = u
  BY <1>2
<1>4. Becomes(t, u)
  BY <1>3 DEF QueueSettings
<1>5. f \in [Groups -> Nat] /\ \A g \in Groups : f[g] \in {0, t.settings[g]}
  BY <1>2
<1> HIDE DEF f
<1>6. u \in ThreadRecords /\ ThreadOK(u) /\ u.settings = f /\ u.pc = "work"
      /\ u.kind = t.kind /\ u.group = t.group /\ u.scores = t.scores
  BY <1>1, <1>2, <1>5 DEF ThreadOK, ThreadRecords
<1> HIDE DEF u
<1> QED
  BY <1>4, <1>5, <1>6 DEF GoesOn

LEMMA ContestGoesOn ==
  ASSUME TypeOK, NEW t \in threads, NEW k \in Groups, QueueContest(t, k)
  PROVE  \E u : GoesOn(t, u)
<1> DEFINE C == t.contests \ {k}
           u == [t EXCEPT !.contests = C]
<1>1. ThreadOK(t) /\ t.pc = "work" /\ Becomes(t, u)
  BY DEF TypeOK, ThreadsOK, QueueContest
<1>2. C \in SUBSET Groups
  BY <1>1 DEF ThreadOK, ThreadRecords
<1> HIDE DEF C
<1>3. u \in ThreadRecords /\ ThreadOK(u) /\ u.settings = t.settings /\ u.pc = "work"
      /\ u.kind = t.kind /\ u.group = t.group /\ u.scores = t.scores
  BY <1>1, <1>2 DEF ThreadOK, ThreadRecords
<1> HIDE DEF u
<1> QED
  BY <1>1, <1>3 DEF GoesOn

LEMMA ReadScoreGoesOn ==
  ASSUME TypeOK, NEW t \in threads, NEW s \in Submissions, ReadScore(t, s)
  PROVE  \E u : GoesOn(t, u)
<1> DEFINE S == t.scores \ {s}
           v == db.score[s]
           u == [t EXCEPT !.scores = S]
           w == [t EXCEPT !.pc = "read", !.sub = s, !.value = v]
<1>1. /\ ThreadOK(t) /\ t.pc = "work"
      /\ v = 0 => Becomes(t, u)
      /\ v # 0 => Becomes(t, w)
  BY DEF TypeOK, ThreadsOK, ReadScore
<1>2. S \in SUBSET Submissions /\ v \in Nat
  BY <1>1 DEF ThreadOK, ThreadRecords, TypeOK, DbOK
<1>0. S \subseteq t.scores /\ \A x \in t.scores \ S : x = s
  OBVIOUS
<1> HIDE DEF S, v
<1>3. u \in ThreadRecords /\ ThreadOK(u) /\ u.settings = t.settings /\ u.pc = "work"
      /\ u.kind = t.kind /\ u.group = t.group /\ u.scores = S
  BY <1>1, <1>2 DEF ThreadOK, ThreadRecords
<1>4. w \in ThreadRecords /\ ThreadOK(w) /\ w.settings = t.settings /\ w.pc = "read"
      /\ w.kind = t.kind /\ w.group = t.group /\ w.scores = t.scores
      /\ w.sub = s /\ w.value = v
  BY <1>1, <1>2 DEF ThreadOK, ThreadRecords
<1> HIDE DEF u, w
<1>5. CASE v = 0
  <2>1. \A x \in t.scores \ u.scores : db.score[x] = 0
    BY <1>0, <1>3, <1>5 DEF v
  <2> QED
    BY <1>0, <1>1, <1>3, <1>5, <2>1 DEF GoesOn
<1>6. CASE v # 0
  <2>1. w.value = db.score[w.sub] /\ w.value # 0
    BY <1>4, <1>6 DEF v
  <2> QED
    BY <1>1, <1>4, <1>6, <2>1 DEF GoesOn
<1> QED
  BY <1>5, <1>6

\* A thread that is done with a score has no more in hand.
LEMMA ScoreDoneFacts ==
  ASSUME NEW t, ThreadOK(t), t.pc \in {"read", "marked"}
  PROVE  LET u == ScoreDone(t)
         IN  /\ u \in ThreadRecords /\ (IsOver(u) \/ ThreadOK(u))
             /\ u.settings = t.settings /\ u.kind = t.kind /\ u.group = t.group
             /\ u.pc = "work" /\ u.sub = NoOne /\ u.scores = t.scores \ {t.sub}
             /\ t.kind = "notice" => IsOver(u)
<1> DEFINE S == t.scores \ {t.sub}
           u == [t EXCEPT !.pc = "work", !.scores = S, !.sub = NoOne, !.value = 0]
<1>1. ScoreDone(t) = u
  BY DEF ScoreDone
<1>2. S \in SUBSET Submissions
  BY DEF ThreadOK, ThreadRecords
<1>3. t.scores = {} => S = {}
  OBVIOUS
<1> HIDE DEF S
<1>4. /\ u \in ThreadRecords /\ u.settings = t.settings /\ u.kind = t.kind
      /\ u.group = t.group /\ u.pc = "work" /\ u.sub = NoOne /\ u.scores = S
      /\ u.contests = t.contests
  BY <1>2 DEF ThreadOK, ThreadRecords
<1> HIDE DEF u
<1>5. t.kind = "notice" => IsOver(u)
  BY <1>3, <1>4 DEF ThreadOK, IsOver
<1>6. t.kind # "notice" => ThreadOK(u)
  BY <1>4, ProxyAssumption DEF ThreadOK
<1> QED
  BY <1>1, <1>4, <1>5, <1>6 DEF S

LEMMA MarkScoreGoesOn ==
  ASSUME TypeOK, NEW t \in threads, MarkScore(t)
  PROVE  \E u : GoesOn(t, u)
<1> DEFINE u == ScoreDone(t)
           w == [t EXCEPT !.pc = "marked"]
<1>1. /\ ThreadOK(t) /\ t.pc = "read"
      /\ (t.kind = "sweep" /\ Becomes(t, u)) \/ Becomes(t, w)
  BY DEF TypeOK, ThreadsOK, MarkScore
<1>2. /\ u \in ThreadRecords /\ (IsOver(u) \/ ThreadOK(u)) /\ u.pc = "work"
      /\ u.settings = t.settings /\ u.kind = t.kind /\ u.group = t.group
      /\ u.scores = t.scores \ {t.sub}
  BY <1>1, ScoreDoneFacts
<1>3. w \in ThreadRecords /\ ThreadOK(w) /\ w.settings = t.settings /\ w.pc = "marked"
      /\ w.kind = t.kind /\ w.group = t.group /\ w.scores = t.scores
      /\ w.sub = t.sub /\ w.value = t.value
  BY <1>1 DEF ThreadOK, ThreadRecords
<1> HIDE DEF u, w
<1>4. CASE t.kind = "sweep" /\ Becomes(t, u)
  BY <1>1, <1>2, <1>4 DEF GoesOn
<1>5. CASE Becomes(t, w)
  BY <1>1, <1>3, <1>5 DEF GoesOn
<1> QED
  BY <1>1, <1>4, <1>5

LEMMA QueueScoreGoesOn ==
  ASSUME TypeOK, NEW t \in threads, QueueScore(t)
  PROVE  \E u : GoesOn(t, u)
<1> DEFINE u == ScoreDone(t)
<1>1. ThreadOK(t) /\ t.pc = "marked" /\ Becomes(t, u)
  BY DEF TypeOK, ThreadsOK, QueueScore
<1>2. /\ u \in ThreadRecords /\ (IsOver(u) \/ ThreadOK(u)) /\ u.pc = "work"
      /\ u.settings = t.settings /\ u.kind = t.kind /\ u.group = t.group
      /\ u.scores = t.scores \ {t.sub}
  BY <1>1, ScoreDoneFacts
<1> HIDE DEF u
<1> QED
  BY <1>1, <1>2 DEF GoesOn

LEMMA StepGoesOn ==
  ASSUME TypeOK, NEW t \in threads, ThreadStep(t)
  PROVE  \E u : GoesOn(t, u)
  BY ResetGoesOn, ReadSettingsGoesOn, SettingsGoesOn, ContestGoesOn, ReadScoreGoesOn,
     MarkScoreGoesOn, QueueScoreGoesOn DEF ThreadStep

\* A thread that has done nothing.
LEMMA ThreadFacts ==
  ASSUME NEW kind \in {"notice", "sweep"} \cup Calls
  PROVE  /\ Thread(kind) \in ThreadRecords /\ Thread(kind).kind = kind
         /\ Thread(kind).settings = NoSettings /\ Thread(kind).pc = "start"
         /\ Thread(kind).contests = {} /\ Thread(kind).scores = {}
         /\ Thread(kind).sub = NoOne /\ Thread(kind).repair = {}
  BY DEF Thread, ThreadRecords, NoSettings

LEMMA NotifyStarts ==
  ASSUME TypeOK, NEW s \in Submissions, NotifyRead(s)
  PROVE  \E u : /\ threads' = threads \cup {u} /\ ThreadOK(u) /\ u.settings = NoSettings
                /\ u.kind = "notice" /\ u.sub = s /\ u.value = db.score[s] /\ u.pc = "read"
<1> DEFINE k == Thread("notice")
           v == db.score[s]
           u == [k EXCEPT !.pc = "read", !.sub = s, !.value = v]
<1>1. threads' = threads \cup {u} /\ v \in Nat
  BY DEF NotifyRead, TypeOK, DbOK
<1>2. /\ k \in ThreadRecords /\ k.kind = "notice" /\ k.settings = NoSettings
      /\ k.contests = {} /\ k.scores = {}
  BY ThreadFacts
<1> HIDE DEF k, v
<1>3. /\ ThreadOK(u) /\ u.settings = NoSettings /\ u.kind = "notice" /\ u.sub = s
      /\ u.value = v /\ u.pc = "read"
  BY <1>1, <1>2 DEF ThreadOK, ThreadRecords
<1> HIDE DEF u
<1> QED
  BY <1>1, <1>3 DEF v

LEMMA SweepStarts ==
  ASSUME TypeOK, SweepBegin
  PROVE  \E u : /\ threads' = threads \cup {u} /\ ThreadOK(u) /\ u.settings = NoSettings
                /\ u.kind = "sweep" /\ u.sub = NoOne /\ u.pc = "start"
<1> DEFINE k == Thread("sweep")
           u == [k EXCEPT !.repair = repair, !.contests = repair, !.scores = Submissions]
<1>1. threads' = threads \cup {u} /\ repair \in SUBSET Groups
  BY DEF SweepBegin, TypeOK, SetsOK
<1>2. /\ k \in ThreadRecords /\ k.kind = "sweep" /\ k.settings = NoSettings
      /\ k.pc = "start" /\ k.sub = NoOne
  BY ThreadFacts
<1> HIDE DEF k
<1>3. /\ ThreadOK(u) /\ u.settings = NoSettings /\ u.kind = "sweep" /\ u.sub = NoOne
      /\ u.pc = "start"
  BY <1>1, <1>2, ProxyAssumption DEF ThreadOK, ThreadRecords
<1> HIDE DEF u
<1> QED
  BY <1>1, <1>3

LEMMA ReinitStarts ==
  ASSUME TypeOK, SpentOK', NEW g \in Groups, NEW kind \in Calls, ReinitBegin(g, kind)
  PROVE  \E u : /\ threads' = threads \cup {u} /\ ThreadOK(u) /\ u.settings = NoSettings
                /\ u.kind = kind /\ u.group = g /\ u.sub = NoOne
                /\ u.pc \in {"reset", "start"}
                /\ u.scores = IF kind = "save" THEN {}
                              ELSE {s \in Submissions : GroupOf[s] = g}
<1> DEFINE k == Thread(kind)
           c == spent'.calls
           pc == IF kind = "lost" THEN "reset" ELSE "start"
           S == IF kind = "save" THEN {} ELSE {s \in Submissions : GroupOf[s] = g}
           u == [k EXCEPT !.call = c, !.group = g, !.pc = pc, !.contests = Groups,
                          !.scores = S]
<1>0. threads' = threads \cup {u}
  BY Zenon DEF ReinitBegin
<1>1. threads' = threads \cup {u} /\ c \in Nat
  <2> HIDE DEF u
  <2> QED
    BY <1>0 DEF SpentOK
<1>2. S \in SUBSET Submissions /\ pc \in {"reset", "start"} /\ (pc = "reset" => kind = "lost")
  OBVIOUS
<1>3. k \in ThreadRecords /\ k.kind = kind /\ k.settings = NoSettings /\ k.sub = NoOne
  BY ThreadFacts
<1>4. kind # "notice"
  BY DEF Calls
<1> HIDE DEF k, c, pc, S
<1>5. /\ ThreadOK(u) /\ u.settings = NoSettings /\ u.kind = kind /\ u.group = g
      /\ u.sub = NoOne /\ u.scores = S /\ u.pc = pc
  BY <1>1, <1>2, <1>3, <1>4, ProxyAssumption DEF ThreadOK, ThreadRecords
<1> HIDE DEF u
<1> QED
  BY <1>1, <1>2, <1>5 DEF S

\* What the threads put in the sets of what is marked.
LEMMA MarkKeeps ==
  ASSUME NEW s \in Submissions, Mark(s), TypeOK, \A x \in threads' : ThreadOK(x)
  PROVE  sent' \subseteq Submissions /\ ThreadsOK'
<1>1. sent' \subseteq Submissions
  BY DEF Mark, TypeOK, SetsOK
<1> DEFINE T == regen.noted \cup {s}
<1>2. regen' = regen \/ regen' = [regen EXCEPT !.noted = T]
  BY DEF Mark
<1>3. T \in SUBSET Submissions
  BY DEF ThreadsOK, TypeOK
<1> HIDE DEF T
<1> QED
  BY <1>1, <1>2, <1>3 DEF ThreadsOK, TypeOK

\* The threads, once one has gone on.
LEMMA GoesOnKeeps ==
  ASSUME TypeOK, NEW t \in threads, NEW u, GoesOn(t, u)
  PROVE  /\ \A x \in threads' : ThreadOK(x)
         /\ SeenOK /\ db' = db => SeenOK'
<1>1. /\ threads' \subseteq threads \cup {u}
      /\ u \in threads' /\ u \notin threads => ThreadOK(u)
  BY DEF GoesOn, Becomes
<1>2. \A x \in threads' : ThreadOK(x)
  BY <1>1 DEF TypeOK, ThreadsOK
<1>3. ASSUME SeenOK, db' = db
      PROVE  SeenOK'
  <2>1. \A g \in Groups : t.settings[g] <= db.visibility[g] /\ db.visibility[g] \in Nat
    BY <1>3 DEF SeenOK, TypeOK, DbOK
  <2>2. \A g \in Groups : u.settings[g] <= db.visibility[g]
    BY <2>1 DEF GoesOn
  <2> QED
    BY <1>1, <1>3, <2>2 DEF SeenOK
<1> QED
  BY <1>2, <1>3

\* The threads, once one has started or ended.
LEMMA StartKeeps ==
  ASSUME TypeOK, NEW u, threads' \subseteq threads \cup {u},
         u \in threads' => (ThreadOK(u) /\ u.settings = NoSettings) \/ u \in threads
  PROVE  /\ \A x \in threads' : ThreadOK(x)
         /\ SeenOK /\ TypeOK' /\ (\A g \in Groups : db.visibility[g] <= db'.visibility[g])
              => SeenOK'
<1>1. \A x \in threads' : ThreadOK(x)
  BY DEF TypeOK, ThreadsOK
<1>2. ASSUME SeenOK, TypeOK', \A g \in Groups : db.visibility[g] <= db'.visibility[g],
             NEW x \in threads', NEW g \in Groups
      PROVE  x.settings[g] <= db'.visibility[g]
  <2>1. db.visibility[g] \in Nat /\ db'.visibility[g] \in Nat
    BY <1>2, Numbers, NumbersAfter
  <2>2. CASE x \in threads
    <3>1. x.settings[g] <= db.visibility[g] /\ x.settings[g] \in Nat
      BY <1>2, <2>2 DEF SeenOK, TypeOK, ThreadsOK, ThreadOK, ThreadRecords
    <3> QED
      BY <1>2, <2>1, <3>1
  <2>3. CASE x \notin threads
    BY <1>2, <2>1, <2>3 DEF NoSettings
  <2> QED
    BY <2>2, <2>3
<1> QED
  BY <1>1, <1>2 DEF SeenOK

\* A request.
LEMMA RequestTypes ==
  ASSUME TypeOK, Requests, SetsOK', SpentOK', UNCHANGED threads
  PROVE  TypeOK'
  BY DEF Requests, TypeOK, DbOK, ThreadsOK, AskedOK

\* All the requests.
LEMMA SendTypes ==
  ASSUME TypeOK, NEW g \in Groups,
         SendReset(g) \/ SendVisibility(g) \/ DropData(g) \/ SendContest(g) \/ SendScores(g)
  PROVE  TypeOK'
<1>1. SetsOK /\ SpentOK
  BY DEF TypeOK
<1>2. CASE SendReset(g)
  <2>1. SetsOK'
    BY <1>1, <1>2 DEF SetsOK, SendReset
  <2>2. SpentOK' /\ UNCHANGED threads
    BY <1>1, <1>2, ProxyAssumption DEF SpentOK, SendReset, Spend
  <2> QED
    BY <1>2, <2>1, <2>2, ResetRequest, RequestTypes
<1>3. CASE SendVisibility(g)
  <2>1. SetsOK'
    BY <1>1, <1>3 DEF SetsOK, SendVisibility
  <2>2. SpentOK' /\ UNCHANGED threads
    BY <1>1, <1>3, ProxyAssumption DEF SpentOK, SendVisibility, Spend
  <2> QED
    BY <1>3, <2>1, <2>2, VisibilityRequest, RequestTypes
<1>4. CASE DropData(g)
  <2>1. SetsOK'
    BY <1>1, <1>4 DEF SetsOK, DropData
  <2>2. SpentOK' /\ UNCHANGED threads
    BY <1>1, <1>4 DEF SpentOK, DropData
  <2> QED
    BY <1>4, <2>1, <2>2, DropRequest, RequestTypes
<1>5. CASE SendContest(g)
  <2>1. SetsOK'
    BY <1>1, <1>5 DEF SetsOK, SendContest
  <2>2. SpentOK' /\ UNCHANGED threads
    BY <1>1, <1>5, ProxyAssumption DEF SpentOK, SendContest, Spend
  <2> QED
    BY <1>5, <2>1, <2>2, ContestRequest, RequestTypes
<1>6. CASE SendScores(g)
  <2> DEFINE K == {s \in Submissions : round[g].score[s] # 0}
  <2>1. /\ \E invalid, tried : /\ tried \subseteq K
                               /\ refused' = refused \cup {<<g, s>> : s \in tried \cap invalid}
        /\ \E n \in 0 .. 2 : Spend(n)
        /\ stalled' \subseteq stalled \cup {g} /\ lost' \subseteq lost \cup {g}
        /\ UNCHANGED <<running, waiting, rejected, repair, notices, sent, overtaken,
                       threads>>
    <3>1. PICK invalid \in Invalid(g, K) :
          \E tried \in IF invalid = {} \/ Cardinality(K) = 1 THEN {{}, K} ELSE SUBSET K :
            /\ refused' = refused \cup {<<g, s>> : s \in tried \cap invalid}
            /\ Spend((IF invalid # {} /\ ranking[g].contest THEN 1 ELSE 0)
                     + (IF tried # K THEN 1 ELSE 0))
      BY <1>6 DEF SendScores
    <3>2. PICK tried \in IF invalid = {} \/ Cardinality(K) = 1 THEN {{}, K} ELSE SUBSET K :
            /\ refused' = refused \cup {<<g, s>> : s \in tried \cap invalid}
            /\ Spend((IF invalid # {} /\ ranking[g].contest THEN 1 ELSE 0)
                     + (IF tried # K THEN 1 ELSE 0))
      BY <3>1
    <3> HIDE DEF K
    <3>3. tried \subseteq K
      BY <3>2
    <3>4. (IF invalid # {} /\ ranking[g].contest THEN 1 ELSE 0)
          + (IF tried # K THEN 1 ELSE 0) \in 0 .. 2
      OBVIOUS
    <3>5. /\ stalled' \subseteq stalled \cup {g} /\ lost' \subseteq lost \cup {g}
          /\ UNCHANGED <<running, waiting, rejected, repair, notices, sent, overtaken,
                         threads>>
      BY <1>6 DEF SendScores
    <3> QED
      BY <3>2, <3>3, <3>4, <3>5
  <2>2. SetsOK'
    <3>1. \A s \in K : <<g, s>> \in Groups \X (Submissions \cup {NoOne})
      OBVIOUS
    <3> HIDE DEF K
    <3>2. refused' \subseteq Groups \X (Submissions \cup {NoOne})
      BY <1>1, <2>1, <3>1 DEF SetsOK
    <3> QED
      BY <1>1, <2>1, <3>2 DEF SetsOK
  <2>3. SpentOK'
    BY <1>1, <2>1, ProxyAssumption DEF SpentOK, Spend
  <2> QED
    BY <1>6, <2>1, <2>2, <2>3, ScoresRequest, RequestTypes
<1> QED
  BY <1>2, <1>3, <1>4, <1>5, <1>6

\* The other steps that change neither the queue nor the round.
Quiet ==
    \/ \E s \in Submissions : Score(s) \/ NotifyRead(s)
    \/ \E g \in Groups : Due(g) \/ RegenBegin(g)
    \/ \E g \in Groups, kind \in Calls : ReinitBegin(g, kind)
    \/ \E t \in threads : ThreadFail(t)
    \/ SweepBegin \/ RegenRead \/ RegenEnd \/ RegenFail
    \/ UNCHANGED vars

\* They add a thread that has read nothing, or none.
LEMMA QuietThreads ==
  ASSUME TypeOK, SpentOK', Quiet
  PROVE  /\ \A x \in threads' : ThreadOK(x)
         /\ SeenOK /\ TypeOK' /\ (\A g \in Groups : db.visibility[g] <= db'.visibility[g])
              => SeenOK'
<1>1. CASE \E s \in Submissions : NotifyRead(s)
  BY <1>1, NotifyStarts, StartKeeps
<1>2. CASE SweepBegin
  BY <1>2, SweepStarts, StartKeeps
<1>3. CASE \E g \in Groups, kind \in Calls : ReinitBegin(g, kind)
  BY <1>3, ReinitStarts, StartKeeps
<1>4. CASE threads' \subseteq threads
  <2> DEFINE u == CHOOSE x : x \notin threads'
  <2>1. \E x : x \notin threads'
    BY NoSetContainsEverything
  <2>2. u \notin threads'
    BY <2>1
  <2> HIDE DEF u
  <2> QED
    BY <1>4, <2>2, StartKeeps
<1> QED
  BY <1>1, <1>2, <1>3, <1>4
     DEF Quiet, Score, Due, ThreadFail, RegenBegin, RegenRead, RegenEnd, RegenFail, vars

\* A call of reinitialize may follow a change of the settings.
LEMMA ReinitSettings ==
  ASSUME DbOK, NEW k \in Groups, NEW kind \in Calls, ReinitBegin(k, kind)
  PROVE  DbOK' /\ \A g \in Groups : db.visibility[g] <= db'.visibility[g]
<1> DEFINE v == [db.visibility EXCEPT ![k] = @ + 1]
<1>1. db' = db \/ db' = [db EXCEPT !.visibility = v]
  <2>1. [db EXCEPT !.visibility[k] = @ + 1] = [db EXCEPT !.visibility = v]
    BY DEF DbOK
  <2> QED
    BY <2>1 DEF ReinitBegin
<1>2. db.visibility \in [Groups -> Nat \ {0}]
  BY DEF DbOK
<1>3. v \in [Groups -> Nat \ {0}] /\ \A g \in Groups : db.visibility[g] <= v[g]
  BY <1>2
<1> HIDE DEF v
<1>4. CASE db' = db
  BY <1>2, <1>4 DEF DbOK
<1>5. CASE db' = [db EXCEPT !.visibility = v]
  BY <1>3, <1>5 DEF DbOK
<1> QED
  BY <1>1, <1>4, <1>5

LEMMA QuietTypes ==
  ASSUME TypeOK, Quiet
  PROVE  TypeOK' /\ UNCHANGED <<queue, round, running, stalled, rejected, ranking, asked>>
         /\ \A g \in Groups : db.visibility[g] <= db'.visibility[g]
<1>1. DbOK /\ BatchesOK /\ RankingOK /\ SetsOK /\ ThreadsOK /\ AskedOK /\ SpentOK
  BY DEF TypeOK
<1>2. /\ UNCHANGED <<queue, round, running, stalled, rejected, ranking, asked>>
      /\ \/ UNCHANGED db
         \/ \E s \in Submissions : Score(s)
         \/ \E g \in Groups, kind \in Calls : ReinitBegin(g, kind)
  BY DEF Quiet, Score, Due, NotifyRead, SweepBegin, ReinitBegin, ThreadFail, RegenBegin,
         RegenRead, RegenEnd, RegenFail, vars, executor
<1>3. BatchesOK' /\ RankingOK' /\ AskedOK'
  BY <1>1, <1>2 DEF BatchesOK, RankingOK, AskedOK
<1>4. DbOK' /\ \A g \in Groups : db.visibility[g] <= db'.visibility[g]
  <2>1. CASE UNCHANGED db \/ \E s \in Submissions : Score(s)
    <3>1. DbOK' /\ db'.visibility = db.visibility
      BY <1>1, <2>1 DEF DbOK, Score
    <3>2. \A g \in Groups : db.visibility[g] \in Nat
      BY <1>1 DEF DbOK
    <3> QED
      BY <3>1, <3>2
  <2>2. CASE \E g \in Groups, kind \in Calls : ReinitBegin(g, kind)
    BY <1>1, <2>2, ReinitSettings
  <2> QED
    BY <1>2, <2>1, <2>2
<1>5. ASSUME NEW s \in Submissions, Score(s)
      PROVE  TypeOK'
  BY <1>1, <1>2, <1>3, <1>4, <1>5, ProxyAssumption
     DEF Score, SetsOK, ThreadsOK, SpentOK, Spend, TypeOK, executor
<1>6. ASSUME NEW g \in Groups, Due(g)
      PROVE  TypeOK'
  BY <1>1, <1>2, <1>3, <1>4, <1>6 DEF Due, SetsOK, ThreadsOK, SpentOK, TypeOK
<1>7. ASSUME (\E s \in Submissions : NotifyRead(s)) \/ SweepBegin
      PROVE  TypeOK'
  <2>1. SetsOK' /\ SpentOK' /\ regen' = regen
    BY <1>1, <1>7 DEF NotifyRead, SweepBegin, SetsOK, SpentOK, executor
  <2>2. ThreadsOK'
    BY <1>1, <2>1, QuietThreads DEF ThreadsOK
  <2> QED
    BY <1>2, <1>3, <1>4, <2>1, <2>2 DEF TypeOK
<1>8. ASSUME NEW g \in Groups, NEW kind \in Calls, ReinitBegin(g, kind)
      PROVE  TypeOK'
  <2>1. SetsOK' /\ regen' = regen
    BY <1>1, <1>8 DEF ReinitBegin, SetsOK, executor
  <2>2. SpentOK'
    <3>1. Call
      BY <1>8 DEF ReinitBegin
    <3> QED
      BY <1>1, <3>1, ProxyAssumption DEF SpentOK, Call
  <2>3. ThreadsOK'
    BY <1>1, <2>1, <2>2, QuietThreads DEF ThreadsOK
  <2> QED
    BY <1>2, <1>3, <1>4, <2>1, <2>2, <2>3 DEF TypeOK
<1>9. ASSUME NEW t \in threads, ThreadFail(t)
      PROVE  TypeOK'
  <2>1. t.repair \subseteq Groups /\ (t.kind = "lost" => t.group \in Groups)
    BY <1>1 DEF ThreadsOK, ThreadOK, ThreadRecords
  <2>2. SetsOK' /\ regen' = regen
    BY <1>1, <1>9, <2>1 DEF ThreadFail, SetsOK, executor
  <2>3. SpentOK'
    BY <1>1, <1>9, ProxyAssumption DEF ThreadFail, SpentOK, Spend
  <2>4. ThreadsOK'
    BY <1>1, <2>2, <2>3, QuietThreads DEF ThreadsOK
  <2> QED
    BY <1>2, <1>3, <1>4, <2>2, <2>3, <2>4 DEF TypeOK
<1>10. ASSUME NEW g \in Groups, RegenBegin(g)
       PROVE  TypeOK'
  <2>1. SetsOK' /\ SpentOK'
    BY <1>1, <1>10, ProxyAssumption DEF RegenBegin, SetsOK, SpentOK, Call, executor
  <2>2. regen' = [pc |-> "build", group |-> g, before |-> sent, noted |-> {}, read |-> Nothing]
        /\ UNCHANGED threads
    BY <1>10 DEF RegenBegin, NoRegen
  <2>3. ThreadsOK'
    BY <1>1, <2>2, NothingFacts DEF ThreadsOK, SetsOK
  <2> QED
    BY <1>2, <1>3, <1>4, <2>1, <2>3 DEF TypeOK
<1>11. ASSUME RegenRead
       PROVE  TypeOK'
  <2> DEFINE k == regen.group
             S == {x \in Scored : GroupOf[x] = k}
             sc == [x \in Submissions |-> IF x \in S THEN db.score[x] ELSE 0]
             b == [reset |-> TRUE, settings |-> db.visibility[k], contest |-> TRUE,
                   score |-> sc, under |-> db.visibility[k]]
  <2>1. /\ regen.pc = "build" /\ sent' = sent \cup S
        /\ regen' = [regen EXCEPT !.pc = "read", !.read = b]
        /\ UNCHANGED threads
    BY <1>11 DEF RegenRead
  <2>2. k \in Groups
    BY <1>1, <2>1 DEF ThreadsOK
  <2>3. sc \in [Submissions -> Nat] /\ db.visibility[k] \in Nat /\ S \subseteq Submissions
    BY <1>1, <2>2 DEF DbOK, Scored
  <2> HIDE DEF sc, S
  <2>4. b \in Batch
    BY <2>3 DEF Batch
  <2> HIDE DEF b
  <2>5. ThreadsOK'
    BY <1>1, <2>1, <2>2, <2>4 DEF ThreadsOK
  <2>6. SetsOK' /\ SpentOK'
    <3>1. sent' \subseteq Submissions
      BY <1>1, <2>1, <2>3 DEF SetsOK
    <3> QED
      BY <1>1, <1>11, <3>1 DEF RegenRead, SetsOK, SpentOK, executor
  <2> QED
    BY <1>2, <1>3, <1>4, <2>5, <2>6 DEF TypeOK
<1>12. ASSUME RegenEnd \/ RegenFail
       PROVE  TypeOK'
  <2>1. regen.group \in Groups
    BY <1>1, <1>12 DEF ThreadsOK, RegenEnd, RegenFail
  <2>2. SetsOK'
    <3>1. sent' \subseteq sent /\ repair' \subseteq repair \cup {regen.group}
          /\ UNCHANGED <<running, stalled, waiting, rejected, lost, refused, notices, overtaken>>
      BY <1>12 DEF RegenEnd, RegenFail, executor
    <3> QED
      BY <1>1, <2>1, <3>1 DEF SetsOK
  <2>3. SpentOK'
    BY <1>1, <1>12, ProxyAssumption DEF RegenEnd, RegenFail, SpentOK, Spend
  <2>4. ThreadsOK'
    <3>1. /\ NoRegen \in [pc : {"idle", "build", "read", "queued"},
                          group : Groups \cup {NoOne}, before : SUBSET Submissions,
                          noted : SUBSET Submissions, read : Batch]
          /\ NoRegen.pc = "idle"
      BY NothingFacts DEF NoRegen
    <3>2. regen' = NoRegen /\ UNCHANGED threads
      BY <1>12 DEF RegenEnd, RegenFail
    <3> QED
      BY <1>1, <3>1, <3>2 DEF ThreadsOK
  <2> QED
    BY <1>2, <1>3, <1>4, <2>2, <2>3, <2>4 DEF TypeOK
<1>13. ASSUME UNCHANGED vars
       PROVE  TypeOK'
  BY <1>1, <1>2, <1>3, <1>4, <1>13 DEF vars, executor, SetsOK, ThreadsOK, SpentOK, TypeOK
<1> QED
  BY <1>2, <1>4, <1>5, <1>6, <1>7, <1>8, <1>9, <1>10, <1>11, <1>12, <1>13 DEF Quiet

\* The ends of a round.
LEMMA RoundTypes ==
  ASSUME TypeOK, TakeBatch \/ EndRound
  PROVE  TypeOK'
<1>1. DbOK /\ BatchesOK /\ RankingOK /\ SetsOK /\ ThreadsOK /\ AskedOK /\ SpentOK
  BY DEF TypeOK
<1>2. UNCHANGED <<db, ranking, threads, regen, asked, spent>>
  BY DEF TakeBatch, EndRound
<1>3. DbOK' /\ RankingOK' /\ ThreadsOK' /\ AskedOK' /\ SpentOK'
  BY <1>1, <1>2 DEF DbOK, RankingOK, ThreadsOK, AskedOK, SpentOK
<1>4. CASE TakeBatch
  <2>1. BatchesOK'
    BY <1>1, <1>4, NothingFacts DEF TakeBatch, BatchesOK
  <2>2. SetsOK'
    BY <1>1, <1>4 DEF TakeBatch, SetsOK
  <2> QED
    BY <1>3, <2>1, <2>2 DEF TypeOK
<1>5. CASE EndRound
  <2>1. BatchesOK'
    <3>1. \A g \in Groups : Combined(round[g], queue[g]) \in Batch
      BY <1>1, CombinedFacts DEF BatchesOK
    <3>2. /\ queue' = [g \in Groups |-> IF g \in stalled THEN Combined(round[g], queue[g])
                                                         ELSE queue[g]]
          /\ round' = [g \in Groups |-> Nothing]
      BY <1>5 DEF EndRound, EmptyQueue
    <3> QED
      BY <1>1, <3>1, <3>2, NothingFacts DEF BatchesOK
  <2>2. SetsOK'
    BY <1>1, <1>5 DEF EndRound, SetsOK
  <2> QED
    BY <1>3, <2>1, <2>2 DEF TypeOK
<1> QED
  BY <1>4, <1>5

\* The steps of a thread that has started.
LEMMA ThreadStepTypes ==
  ASSUME TypeOK, NEW t \in threads, ThreadStep(t),
         queue' \in [Groups -> Batch], asked' \in [Groups -> Nat]
  PROVE  /\ TypeOK' /\ UNCHANGED <<round, running, stalled, rejected, ranking, db>>
         /\ SeenOK => SeenOK'
<1>1. DbOK /\ BatchesOK /\ RankingOK /\ SetsOK /\ ThreadsOK /\ AskedOK /\ SpentOK
  BY DEF TypeOK
<1>2. UNCHANGED <<round, running, stalled, refused, waiting, rejected, ranking, notices,
                  db, repair, lost, spent>>
  BY DEF ThreadStep, QueueReset, ReadSettings, QueueSettings, QueueContest, ReadScore,
         MarkScore, QueueScore, executor
<1>3. BatchesOK' /\ RankingOK' /\ AskedOK' /\ DbOK' /\ SpentOK'
  BY <1>1, <1>2 DEF BatchesOK, RankingOK, AskedOK, DbOK, SpentOK
<1>4. PICK u : GoesOn(t, u)
  BY StepGoesOn
<1>5. (\A x \in threads' : ThreadOK(x)) /\ (SeenOK => SeenOK')
  BY <1>2, <1>4, GoesOnKeeps
<1>6. \/ sent' = sent /\ regen' = regen
      \/ t.pc = "read" /\ Mark(t.sub)
  BY DEF ThreadStep, QueueReset, ReadSettings, QueueSettings, QueueContest, ReadScore,
         MarkScore, QueueScore
<1>7. t.pc \in {"read", "marked"} => t.sub \in Submissions
  BY <1>1 DEF ThreadsOK, ThreadOK
<1>8. sent' \subseteq Submissions /\ ThreadsOK'
  <2>1. CASE sent' = sent /\ regen' = regen
    BY <1>1, <1>5, <2>1 DEF SetsOK, ThreadsOK
  <2>2. CASE t.pc = "read" /\ Mark(t.sub)
    BY <1>5, <1>7, <2>2, MarkKeeps
  <2> QED
    BY <1>6, <2>1, <2>2
<1>9. overtaken' \subseteq Submissions
  <2>1. overtaken' = overtaken \/ (t.pc = "marked" /\ overtaken' \subseteq overtaken \cup {t.sub})
    BY DEF ThreadStep, QueueReset, ReadSettings, QueueSettings, QueueContest, ReadScore,
           MarkScore, QueueScore
  <2> QED
    BY <1>1, <1>7, <2>1 DEF SetsOK
<1>10. SetsOK'
  BY <1>1, <1>2, <1>8, <1>9 DEF SetsOK
<1> QED
  BY <1>2, <1>3, <1>5, <1>8, <1>10 DEF TypeOK

\* Regenerate queues what it has read.
LEMMA RegenQueueTypes ==
  ASSUME TypeOK, RegenQueue,
         queue' \in [Groups -> Batch], asked' \in [Groups -> Nat]
  PROVE  TypeOK' /\ UNCHANGED <<round, running, stalled, rejected, ranking, db, threads>>
<1>1. DbOK /\ BatchesOK /\ RankingOK /\ SetsOK /\ ThreadsOK /\ AskedOK /\ SpentOK
  BY DEF TypeOK
<1>2. UNCHANGED <<round, running, stalled, rejected, ranking, db, threads, spent>>
  BY DEF RegenQueue
<1>3. BatchesOK' /\ RankingOK' /\ AskedOK' /\ DbOK' /\ SpentOK'
  BY <1>1, <1>2 DEF BatchesOK, RankingOK, AskedOK, DbOK, SpentOK
<1>4. SetsOK'
  BY <1>1 DEF RegenQueue, SetsOK
<1>5. ThreadsOK'
  BY <1>1, <1>2, NothingFacts DEF RegenQueue, ThreadsOK
<1> QED
  BY <1>2, <1>3, <1>4, <1>5 DEF TypeOK
-----------------------------------------------------------------------------
(* The invariant *)

\* A start, of the service or of everything, from what it leaves.
Fresh ==
    /\ TypeOK /\ Set(queue, Groups) /\ asked = db.visibility
    /\ round = EmptyQueue /\ running = {} /\ stalled = {} /\ regen = NoRegen /\ threads = {}

LEMMA FreshStart == Fresh => IInv
<1> SUFFICES ASSUME Fresh
             PROVE  IInv
  OBVIOUS
<1>0. /\ TypeOK /\ Set(queue, Groups) /\ asked = db.visibility
      /\ round = EmptyQueue /\ running = {} /\ stalled = {} /\ regen = NoRegen /\ threads = {}
  BY DEF Fresh
<1>1. RoundOK
  BY <1>0 DEF RoundOK, EmptyQueue
<1>2. RegenOK
  BY <1>0 DEF RegenOK, NoRegen
<1>3. ASSUME NEW g \in Groups
      PROVE  NotAhead(g) /\ Ordered(g)
  <2>1. round[g] = Nothing /\ asked[g] = db.visibility[g]
    BY <1>0 DEF EmptyQueue
  <2>2. queue[g].settings = db.visibility[g] /\ queue[g].under <= db.visibility[g]
    BY <1>0 DEF Set
  <2>3. db.visibility[g] \in Nat /\ db.visibility[g] # 0
    BY <1>0, Numbers
  <2> QED
    BY <2>1, <2>2, <2>3, NothingFacts DEF NotAhead, Ordered, InForceAfterQueue
<1>4. SeenOK
  BY <1>0 DEF SeenOK
<1> QED
  BY <1>0, <1>1, <1>2, <1>3, <1>4 DEF IInv

\* The threads do nothing after a start.
LEMMA FreshThreads ==
  /\ threads = {} /\ regen = NoRegen => ThreadsOK
  /\ threads' = {} /\ regen' = NoRegen => ThreadsOK'
  BY NothingFacts DEF ThreadsOK, NoRegen

\* The invariant holds at first.
LEMMA InitHolds == Init => IInv
<1> SUFFICES ASSUME Init
             PROVE  IInv
  OBVIOUS
<1>1. DbOK
  BY DEF Init, DbOK
<1>2. queue = WithInitialData(EmptyQueue) /\ round = EmptyQueue /\ asked = db.visibility
  BY DEF Init
<1>3. Set(queue, Groups) /\ EmptyQueue \in [Groups -> Batch]
  BY <1>1, <1>2, EmptyQueueFacts, SetInitialData
<1>4. BatchesOK
  BY <1>2, <1>3 DEF BatchesOK, Set
<1>5. RankingOK
  BY DEF Init, RankingOK, Empty, Held
<1>6. SetsOK
  BY DEF Init, SetsOK
<1>7. ThreadsOK
  BY FreshThreads DEF Init
<1>8. AskedOK
  BY <1>1, <1>2 DEF AskedOK, DbOK
<1>9. SpentOK
  BY ProxyAssumption DEF Init, SpentOK
<1>10. TypeOK
  BY <1>1, <1>4, <1>5, <1>6, <1>7, <1>8, <1>9 DEF TypeOK
<1> QED
  BY <1>2, <1>3, <1>10, FreshStart DEF Init, Fresh

\* A restart of the service.
LEMMA RestartHolds ==
  ASSUME IInv, Restart
  PROVE  IInv'
<1>1. DbOK /\ RankingOK /\ SetsOK /\ SpentOK
  BY DEF IInv, TypeOK
<1>2. /\ queue' = WithInitialData(EmptyQueue) /\ round' = EmptyQueue
      /\ asked' = db.visibility /\ db' = db /\ ranking' = ranking
      /\ running' = {} /\ stalled' = {} /\ regen' = NoRegen /\ threads' = {}
  BY DEF Restart
<1>3. Set(WithInitialData(EmptyQueue), Groups) /\ EmptyQueue \in [Groups -> Batch]
  BY <1>1, EmptyQueueFacts, SetInitialData
<1>4. Set(queue, Groups)'
  BY <1>2, <1>3 DEF Set
<1>5. BatchesOK'
  BY <1>2, <1>3 DEF BatchesOK, Set
<1>6. DbOK' /\ RankingOK' /\ AskedOK'
  BY <1>1, <1>2 DEF DbOK, RankingOK, AskedOK
<1>7. SetsOK'
  BY <1>1 DEF Restart, SetsOK
<1>8. ThreadsOK'
  BY FreshThreads DEF Restart
<1>9. SpentOK'
  BY <1>1, ProxyAssumption DEF Restart, SpentOK, Spend
<1>10. TypeOK'
  BY <1>5, <1>6, <1>7, <1>8, <1>9 DEF TypeOK
<1>11. Fresh'
  BY <1>2, <1>4, <1>10 DEF Fresh
<1>12. Fresh' => IInv'
  BY FreshStart, PTL
<1> QED
  BY <1>11, <1>12

\* What regenerate has read is not newer than the database, which only goes
\* forward.
LEMMA RegenKept ==
  ASSUME TypeOK, TypeOK', RegenOK,
         \A g \in Groups : db.visibility[g] <= db'.visibility[g],
         regen'.pc = "read" =>
           regen.pc = "read" /\ regen'.read = regen.read /\ regen'.group = regen.group
  PROVE  RegenOK'
<1>1. SUFFICES ASSUME regen'.pc = "read"
               PROVE  /\ regen'.read.reset /\ HasData(regen'.read)
                      /\ regen'.read.settings # 0
                      /\ regen'.read.under = regen'.read.settings
                      /\ regen'.read.settings <= db'.visibility[regen'.group]
  BY DEF RegenOK
<1>2. regen.pc = "read" /\ regen'.read = regen.read /\ regen'.group = regen.group
  BY <1>1
<1>3. regen.group \in Groups /\ regen.read.settings \in Nat
  BY <1>2 DEF TypeOK, ThreadsOK, Batch
<1>4. db.visibility[regen.group] \in Nat /\ db'.visibility[regen.group] \in Nat
  BY <1>3, Numbers, NumbersAfter
<1>5. regen.read.settings <= db'.visibility[regen.group]
  BY <1>2, <1>3, <1>4 DEF RegenOK
<1> QED
  BY <1>2, <1>5 DEF RegenOK

\* The steps that change neither the queue nor the round.
LEMMA QuietHolds ==
  ASSUME IInv, Quiet
  PROVE  IInv'
<1>1. TypeOK /\ RegenOK /\ SeenOK
  BY DEF IInv
<1>2. TypeOK' /\ UNCHANGED <<queue, round, running, stalled, rejected, ranking, asked>>
      /\ \A g \in Groups : db.visibility[g] <= db'.visibility[g]
  BY <1>1, QuietTypes
<1>3. RegenOK'
  <2>1. CASE RegenRead
    <3> DEFINE k == regen.group
               sc == [x \in Submissions |-> IF x \in {y \in Scored : GroupOf[y] = k}
                                            THEN db.score[x] ELSE 0]
               b == [reset |-> TRUE, settings |-> db.visibility[k], contest |-> TRUE,
                     score |-> sc, under |-> db.visibility[k]]
    <3>1. regen.pc = "build" /\ regen' = [regen EXCEPT !.pc = "read", !.read = b]
      BY <2>1 DEF RegenRead
    <3>2. k \in Groups
      BY <1>1, <3>1 DEF TypeOK, ThreadsOK
    <3>3. db.visibility[k] \in Nat /\ db.visibility[k] # 0
      BY <1>1, <3>2, Numbers
    <3> HIDE DEF sc
    <3>4. /\ b.reset /\ HasData(b) /\ b.settings = db.visibility[k]
          /\ b.under = db.visibility[k]
      BY DEF HasData
    <3> HIDE DEF b
    <3>5. regen'.read = b /\ regen'.group = k
      BY <1>1, <3>1 DEF TypeOK, ThreadsOK
    <3>6. db' = db
      BY <2>1 DEF RegenRead
    <3> QED
      BY <3>3, <3>4, <3>5, <3>6 DEF RegenOK
  <2>2. CASE ~RegenRead
    <3>1. regen' = regen \/ regen'.pc # "read"
      <4>1. CASE \E g \in Groups : RegenBegin(g)
        BY <4>1 DEF RegenBegin, NoRegen
      <4>2. CASE RegenEnd \/ RegenFail
        BY <4>2 DEF RegenEnd, RegenFail, NoRegen
      <4> QED
        BY <2>2, <4>1, <4>2
           DEF Quiet, Score, NotifyRead, Due, SweepBegin, ReinitBegin, ThreadFail, vars
    <3> QED
      BY <1>1, <1>2, <3>1, RegenKept
  <2> QED
    BY <2>1, <2>2
<1>4. \A h \in Groups : Queues(h)
  BY <1>2 DEF Queues
<1>5. RoundOK' /\ RegenOK' /\ \A h \in Groups : NotAhead(h)' /\ Ordered(h)'
  BY <1>2, <1>3, <1>4, QueueKeeps
<1>6. SeenOK'
  BY <1>1, <1>2, QuietThreads DEF TypeOK
<1> QED
  BY <1>2, <1>5, <1>6 DEF IInv

\* The steps of the threads.
LEMMA ThreadStepHolds ==
  ASSUME IInv, NEW t \in threads, ThreadStep(t)
  PROVE  IInv'
<1>1. TypeOK /\ RegenOK /\ SeenOK
  BY DEF IInv
<1>2. /\ queue' \in [Groups -> Batch] /\ asked' \in [Groups -> Nat]
      /\ \A g \in Groups : Queues(g)
  <2>1. CASE ReadSettings(t) \/ MarkScore(t) \/ \E s \in Submissions : ReadScore(t, s)
    <3>1. queue' = queue /\ asked' = asked
      BY <2>1 DEF ReadSettings, MarkScore, ReadScore, executor
    <3> QED
      BY <1>1, <3>1 DEF Queues, TypeOK, BatchesOK, AskedOK
  <2> QED
    BY <2>1, ResetQueues, SettingsQueues, ContestQueues, ScoreQueues DEF ThreadStep
<1>3. /\ TypeOK' /\ UNCHANGED <<round, running, stalled, rejected, ranking, db>> /\ SeenOK'
  BY <1>1, <1>2, ThreadStepTypes
<1>4. \A g \in Groups : db.visibility[g] <= db'.visibility[g]
  BY <1>1, <1>3, Numbers
<1>5. RegenOK'
  <2>1. regen' = regen \/ regen' = [regen EXCEPT !.noted = @ \cup {t.sub}]
    BY DEF ThreadStep, QueueReset, ReadSettings, QueueSettings, QueueContest, ReadScore,
           MarkScore, QueueScore, Mark
  <2>2. regen'.pc = regen.pc /\ regen'.read = regen.read /\ regen'.group = regen.group
    BY <1>1, <2>1 DEF TypeOK, ThreadsOK
  <2> QED
    BY <1>1, <1>3, <1>4, <2>2, RegenKept
<1>6. RoundOK' /\ RegenOK' /\ \A g \in Groups : NotAhead(g)' /\ Ordered(g)'
  BY <1>2, <1>3, <1>4, <1>5, QueueKeeps
<1> QED
  BY <1>3, <1>6 DEF IInv

\* Regenerate queues what it has read.
LEMMA RegenQueueHolds ==
  ASSUME IInv, RegenQueue
  PROVE  IInv'
<1>1. TypeOK /\ RegenOK /\ SeenOK
  BY DEF IInv
<1>2. /\ queue' \in [Groups -> Batch] /\ asked' \in [Groups -> Nat]
      /\ \A g \in Groups : Queues(g)
  BY RegenQueues
<1>3. TypeOK' /\ UNCHANGED <<round, running, stalled, rejected, ranking, db, threads>>
  BY <1>1, <1>2, RegenQueueTypes
<1>4. \A g \in Groups : db.visibility[g] <= db'.visibility[g]
  BY <1>1, <1>3, Numbers
<1>5. RegenOK'
  BY <1>1 DEF RegenQueue, RegenOK, TypeOK, ThreadsOK
<1>6. RoundOK' /\ RegenOK' /\ \A g \in Groups : NotAhead(g)' /\ Ordered(g)'
  BY <1>2, <1>3, <1>4, <1>5, QueueKeeps
<1>7. SeenOK'
  BY <1>1, <1>3 DEF SeenOK
<1> QED
  BY <1>3, <1>6, <1>7 DEF IInv

\* The executor.
LEMMA ExecuteHolds ==
  ASSUME IInv, Execute
  PROVE  /\ IInv'
         /\ \A h \in Groups : ShowsNothing(h)
                              \/ (DataIsNext(h) /\ h \notin rejected /\ HasData(round[h]))
<1>1. TypeOK /\ SeenOK
  BY DEF IInv
<1>2. CASE TakeBatch
  <2>1. TypeOK'
    BY <1>1, <1>2, RoundTypes
  <2>2. \A h \in Groups : ShowsNothing(h)
    BY <1>2 DEF TakeBatch, ShowsNothing
  <2>3. SeenOK'
    BY <1>1, <1>2 DEF TakeBatch, SeenOK
  <2> QED
    BY <1>2, <2>1, <2>2, <2>3, TakeBatchKeeps DEF IInv
<1>3. CASE EndRound
  <2>1. TypeOK'
    BY <1>1, <1>3, RoundTypes
  <2>2. \A h \in Groups : ShowsNothing(h)
    BY <1>3 DEF EndRound, ShowsNothing
  <2>3. SeenOK'
    BY <1>1, <1>3 DEF EndRound, SeenOK
  <2> QED
    BY <1>3, <2>1, <2>2, <2>3, EndRoundKeeps DEF IInv
<1>4. CASE \E g \in Groups : SendReset(g) \/ SendVisibility(g) \/ DropData(g)
                             \/ SendContest(g) \/ SendScores(g)
  <2>1. PICK g \in Groups : SendReset(g) \/ SendVisibility(g) \/ DropData(g)
                            \/ SendContest(g) \/ SendScores(g)
    BY <1>4
  <2>2. TypeOK'
    BY <1>1, <2>1, SendTypes
  <2>3. Requests
    BY <1>1, <2>1, ResetRequest, VisibilityRequest, DropRequest, ContestRequest, ScoresRequest
  <2>4. RoundOK' /\ RegenOK' /\ \A h \in Groups : NotAhead(h)' /\ Ordered(h)'
    BY <2>2, <2>3, RequestKeeps
  <2>5. SeenOK'
    BY <1>1, <2>3 DEF Requests, SeenOK
  <2> QED
    BY <2>2, <2>3, <2>4, <2>5 DEF IInv, Requests
<1> QED
  BY <1>2, <1>3, <1>4 DEF Execute

\* The steps, by what they change.
LEMMA Steps ==
  ASSUME [Next]_vars
  PROVE  \/ Quiet \/ (\E t \in threads : ThreadStep(t)) \/ RegenQueue \/ Execute \/ Restart
  BY DEF Next, Notify, Sweep, Reinit, Regenerate, Quiet

\* Only the executor changes the ranking.
LEMMA OthersShowNothing ==
  ASSUME [Next]_vars, ~Execute
  PROVE  ranking' = ranking
<1>1. CASE \E t \in threads : ThreadStep(t)
  BY <1>1 DEF ThreadStep, QueueReset, ReadSettings, QueueSettings, QueueContest, ReadScore,
              MarkScore, QueueScore
<1>2. CASE Quiet
  BY <1>2 DEF Quiet, Score, Due, NotifyRead, SweepBegin, ReinitBegin, ThreadFail, RegenBegin,
              RegenRead, RegenEnd, RegenFail, vars
<1> QED
  BY <1>1, <1>2, Steps DEF RegenQueue, Restart

\* Every step.
LEMMA StepHolds == IInv /\ [Next]_vars => IInv'
  BY Steps, QuietHolds, ThreadStepHolds, RegenQueueHolds, ExecuteHolds, RestartHolds
-----------------------------------------------------------------------------
(* The theorems *)

(***************************************************************************)
(* The invariant: what the threads and the executor hold is of its type,   *)
(* and the settings that were queued before data, or the oldest queued     *)
(* behind it since, are in the ranking, or ahead of that data in the round *)
(* or in the queue, through retries, refusals, resets and restarts,        *)
(* whatever the threads read and queue in between.                         *)
(***************************************************************************)
THEOREM Invariance == Spec => []IInv
  BY InitHolds, StepHolds, PTL DEF Spec

(***************************************************************************)
(* No request shows contest data or a score in a namespace of the ranking  *)
(* before the ranking has settings no older than those queued before it    *)
(* and those queued behind it since, not even while a round fails, is put  *)
(* back and is sent again.  (A thread that read the settings before a save *)
(* may queue them behind it: HiddenStaysHidden.)                           *)
(***************************************************************************)
THEOREM DataFollowsItsSettings == Spec => VisibilityBeforeData
<1>1. ASSUME IInv, [Next]_vars, NEW g \in Groups
      PROVE  \/ /\ ranking'[g].contest => ranking[g].contest
                /\ \A s \in Submissions :
                     ranking'[g].score[s] \in {0, ranking[g].score[s]}
             \/ round[g].under <= ranking[g].visibility
  <2>1. CASE ShowsNothing(g)
    BY <2>1 DEF ShowsNothing
  <2>2. CASE DataIsNext(g) /\ g \notin rejected /\ HasData(round[g])
    <3>1. Ordered(g) /\ round[g].settings = 0
      BY <1>1, <2>2 DEF IInv, DataIsNext
    <3> QED
      BY <2>2, <3>1 DEF Ordered, InForceAfterRound
  <2>3. CASE ~Execute
    BY <1>1, <2>3, OthersShowNothing
  <2> QED
    BY <1>1, <2>1, <2>2, <2>3, ExecuteHolds
<1>2. IInv /\ [Next]_vars =>
        [\A g \in Groups :
           \/ /\ ranking'[g].contest => ranking[g].contest
              /\ \A s \in Submissions :
                   ranking'[g].score[s] \in {0, ranking[g].score[s]}
           \/ round[g].under <= ranking[g].visibility]_vars
  BY <1>1
<1> QED
  BY <1>2, Invariance, PTL DEF Spec, VisibilityBeforeData
-----------------------------------------------------------------------------
(* The data of a submission that is marked as sent *)

\* The score of s that a namespace holds once `older' and then `newer' is sent
\* to it: it holds `held' now.
Word(older, newer, held, s) ==
    IF newer.score[s] # 0 THEN newer.score[s]
    ELSE IF newer.reset THEN 0
    ELSE IF older.score[s] # 0 THEN older.score[s]
    ELSE IF older.reset THEN 0 ELSE held

\* A thread is sure to queue the score of s that it has read: it is of a
\* notification, or it has marked s.  That of a notification that has yet to do
\* so marks s.
Carries(t, s) == t.sub = s /\ (t.kind = "notice" \/ t.pc = "marked")
Notifying(s) == \E t \in threads : Carries(t, s)
Reading(s) == \E t \in threads : t.sub = s /\ t.kind = "notice" /\ t.pc = "read"

\* The thread that resets the group of s has still to queue s, or to find that
\* it has no score.
Resetting(s) == \E t \in threads : t.kind = "lost" /\ s \in t.scores

\* The latest score of s is in the ranking or on its way, or is known to be
\* missing: a thread is about to queue it, a refusal is about to take s out of
\* what was sent, or the operator was told.
Accounted(s) ==
    LET g == GroupOf[s]
    IN \/ LastWord(g, s) = db.score[s]
       \/ s \in notices \/ Notifying(s)
       \/ <<g, s>> \in refused
       \/ Resetting(s)
       \/ g \in lost \/ s \in overtaken

\* What a regenerate has read of s is its latest score, or a thread marks s
\* again before the regenerate ends.
ReadOrNoted(s) ==
    \/ regen.read.score[s] = db.score[s]
    \/ s \in notices
    \/ Reading(s)
    \/ s \in regen.noted

\* While a regenerate holds what it has read of the group of s, that counts,
\* since the reset that comes with it drops the rest.
Marked(s) ==
    IF regen.pc = "read" /\ regen.group = GroupOf[s]
    THEN ReadOrNoted(s)
    ELSE Accounted(s) \/ (regen.pc = "queued" /\ s \in regen.noted)

\* What a thread has in hand: the score of a submission that has one; and, once
\* it is to reset a group, all the scores of the group and no others.
InHand(t) ==
    /\ t.pc \in {"read", "marked"} => t.value # 0 /\ db.score[t.sub] # 0
    /\ t.kind = "lost" => \A s \in t.scores : GroupOf[s] = t.group
    /\ t.pc = "reset" => \A s \in Submissions : GroupOf[s] = t.group => s \in t.scores

\* What the threads hold: only scored submissions are marked and notified.
Threads ==
    /\ \A s \in sent \cup notices : db.score[s] # 0
    /\ \A t \in threads : InHand(t)

MarkedInv == Threads /\ \A s \in sent : Marked(s)

\* What a regenerate copied still stands, should its build fail.
Copied(s) == s \in sent /\ Accounted(s)

CopyInv == regen.pc \in {"build", "read"} => \A s \in regen.before : Copied(s)

\* A round ends with the refusal of a submission that a regenerate, whose build
\* is under way, has among its copies.
RefusedDuringBuild ==
    /\ EndRound
    /\ regen.pc \in {"build", "read"}
    /\ \E p \in refused : p[2] \in regen.before

\* What a combined batch says of a submission.
LEMMA CombinedScore ==
  ASSUME NEW older \in Batch, NEW newer \in Batch, NEW s \in Submissions
  PROVE  LET b == Combined(older, newer)
         IN  /\ b.score[s] = IF newer.score[s] # 0 THEN newer.score[s]
                             ELSE IF newer.reset THEN 0 ELSE older.score[s]
             /\ b.reset = (older.reset \/ newer.reset)
<1> DEFINE data == IF newer.reset THEN Nothing ELSE older
           b == Combined(older, newer)
<1>1. b.reset = (older.reset \/ newer.reset)
      /\ b.score = [t \in Submissions |-> IF newer.score[t] # 0 THEN newer.score[t]
                                          ELSE data.score[t]]
  BY DEF Combined
<1>2. newer.reset => data.score[s] = 0
  BY DEF Nothing
<1>3. ~newer.reset => data.score[s] = older.score[s]
  OBVIOUS
<1> HIDE DEF data, b
<1> QED
  BY <1>1, <1>2, <1>3 DEF b

\* The last word, in terms of the round, the queue and the ranking.
Words ==
    \A s \in Submissions, g \in Groups :
      LastWord(g, s) = Word(round[g], queue[g], ranking[g].score[s], s)

\* The batches of a group hold the last word on its submissions.
LEMMA LastWordIs == TypeOK => Words
<1> SUFFICES ASSUME TypeOK, NEW s \in Submissions, NEW g \in Groups
             PROVE  LastWord(g, s) = Word(round[g], queue[g], ranking[g].score[s], s)
  BY DEF Words
<1> DEFINE r == round[g]
           q == queue[g]
           b == Combined(r, q)
<1>1. r \in Batch /\ q \in Batch
  BY Numbers
<1>2. /\ b.score[s] = IF q.score[s] # 0 THEN q.score[s]
                      ELSE IF q.reset THEN 0 ELSE r.score[s]
      /\ b.reset = (r.reset \/ q.reset)
  BY <1>1, CombinedScore
<1>3. LastWord(g, s) = IF b.score[s] # 0 THEN b.score[s]
                       ELSE IF b.reset THEN 0 ELSE ranking[g].score[s]
  BY DEF LastWord
<1> HIDE DEF r, q, b
<1>4. LastWord(g, s) = Word(r, q, ranking[g].score[s], s)
  BY <1>2, <1>3 DEF Word
<1> QED
  BY <1>4 DEF r, q

\* The same after a step.
LEMMA LastWordAfter ==
  ASSUME TypeOK', NEW s \in Submissions, NEW g \in Groups
  PROVE  LastWord(g, s)' = Word(round'[g], queue'[g], ranking'[g].score[s], s)
<1>1. TypeOK' => Words'
  BY LastWordIs, PTL
<1> QED
  BY <1>1 DEF Words, Word

\* A step may change the last word on s only where it is reported.
KeepsWord(s) ==
    \/ LastWord(GroupOf[s], s)' = LastWord(GroupOf[s], s)
    \/ GroupOf[s] \in lost'
    \/ <<GroupOf[s], s>> \in refused'

\* A request moves scores from the round to the ranking, or drops them.
Moves(s) ==
    /\ round'[GroupOf[s]].score[s] \in {0, round[GroupOf[s]].score[s]}
    /\ ranking'[GroupOf[s]].score[s] \in
         {0, ranking[GroupOf[s]].score[s], round[GroupOf[s]].score[s]}

\* It does so if the word that follows from the round and the ranking is the same.
LEMMA SameWord ==
  ASSUME TypeOK, TypeOK', NEW s \in Submissions,
         Word(round'[GroupOf[s]], queue'[GroupOf[s]], ranking'[GroupOf[s]].score[s], s) =
         Word(round[GroupOf[s]], queue[GroupOf[s]], ranking[GroupOf[s]].score[s], s)
  PROVE  LastWord(GroupOf[s], s)' = LastWord(GroupOf[s], s)
<1>1. GroupOf[s] \in Groups
  BY ProxyAssumption
<1>2. LastWord(GroupOf[s], s) =
        Word(round[GroupOf[s]], queue[GroupOf[s]], ranking[GroupOf[s]].score[s], s)
  BY <1>1, LastWordIs DEF Words
<1>3. LastWord(GroupOf[s], s)' =
        Word(round'[GroupOf[s]], queue'[GroupOf[s]], ranking'[GroupOf[s]].score[s], s)
  BY <1>1, LastWordAfter
<1> QED
  BY <1>2, <1>3

\* A request for another group does.
LEMMA OtherGroupsWord ==
  ASSUME TypeOK, TypeOK', NEW h \in Groups, NEW s \in Submissions, GroupOf[s] # h,
         queue' = queue,
         \A g \in Groups \ {h} : round'[g] = round[g] /\ ranking'[g].score = ranking[g].score
  PROVE  LastWord(GroupOf[s], s)' = LastWord(GroupOf[s], s) /\ Moves(s)
<1>1. GroupOf[s] \in Groups \ {h}
  BY ProxyAssumption
<1>2. round'[GroupOf[s]] = round[GroupOf[s]]
      /\ ranking'[GroupOf[s]].score = ranking[GroupOf[s]].score
  BY <1>1
<1> QED
  BY <1>2, SameWord DEF Moves

\* What the requests leave of the resets and the scores of a round.
LEMMA RoundScores ==
  ASSUME NEW f \in [Groups -> Batch], NEW g \in Groups, NEW sc
  PROVE  /\ LET r == [f EXCEPT ![g].reset = FALSE]
            IN  /\ \A h \in Groups \ {g} : r[h] = f[h]
                /\ r[g].reset = FALSE /\ r[g].score = f[g].score
         /\ LET r == [f EXCEPT ![g].settings = 0]
            IN  /\ \A h \in Groups \ {g} : r[h] = f[h]
                /\ r[g].reset = f[g].reset /\ r[g].score = f[g].score
         /\ LET r == [f EXCEPT ![g].contest = FALSE]
            IN  /\ \A h \in Groups \ {g} : r[h] = f[h]
                /\ r[g].reset = f[g].reset /\ r[g].score = f[g].score
         /\ LET r == [f EXCEPT ![g].score = sc]
            IN  /\ \A h \in Groups \ {g} : r[h] = f[h]
                /\ r[g].reset = f[g].reset /\ r[g].score = sc
<1>1. f[g] \in Batch
  OBVIOUS
<1> QED
  BY <1>1 DEF Batch

\* What they make of the scores of the ranking.
LEMMA RankingScores ==
  ASSUME NEW f \in [Groups -> Held], NEW g \in Groups, NEW sc, NEW v
  PROVE  /\ LET r == [f EXCEPT ![g].visibility = v]
            IN  /\ \A h \in Groups \ {g} : r[h] = f[h]
                /\ r[g].score = f[g].score
         /\ LET r == [f EXCEPT ![g].contest = TRUE]
            IN  /\ \A h \in Groups \ {g} : r[h] = f[h]
                /\ r[g].score = f[g].score
         /\ LET r == [f EXCEPT ![g].score = sc]
            IN  /\ \A h \in Groups \ {g} : r[h] = f[h]
                /\ r[g].score = sc
<1>1. f[g] \in Held
  OBVIOUS
<1> QED
  BY <1>1 DEF Held

\* One lemma per request: a reset.
LEMMA ResetWord ==
  ASSUME TypeOK, TypeOK', NEW g \in Groups, SendReset(g), NEW s \in Submissions
  PROVE  KeepsWord(s) /\ Moves(s)
<1> DEFINE done == [round EXCEPT ![g].reset = FALSE]
           emptied == Emptied(g)
<1>1. round \in [Groups -> Batch] /\ ranking \in [Groups -> Held]
  BY DEF TypeOK, BatchesOK, RankingOK
<1>2. /\ \A h \in Groups \ {g} : done[h] = round[h]
      /\ done[g].reset = FALSE /\ done[g].score = round[g].score
  BY <1>1, RoundScores
<1>3. /\ \A h \in Groups \ {g} : emptied[h] = ranking[h]
      /\ \A t \in Submissions : emptied[g].score[t] = 0
  BY <1>1, NamespaceEmptied DEF Emptied
<1>4. /\ round[g].reset /\ queue' = queue
      /\ \/ ranking' = emptied /\ round' = done
         \/ ranking' = ranking /\ round' = done /\ g \in lost'
         \/ ranking' \in {ranking, emptied} /\ round' = round
  BY DEF SendReset
<1> HIDE DEF done, emptied
<1>5. CASE GroupOf[s] # g
  <2>1. \A h \in Groups \ {g} : round'[h] = round[h] /\ ranking'[h].score = ranking[h].score
    BY <1>2, <1>3, <1>4
  <2> QED
    BY <1>4, <1>5, <2>1, OtherGroupsWord DEF KeepsWord
<1>6. CASE GroupOf[s] = g
  <2>1. g \in lost' \/ Word(round'[g], queue'[g], ranking'[g].score[s], s) =
                       Word(round[g], queue[g], ranking[g].score[s], s)
    BY <1>2, <1>3, <1>4 DEF Word
  <2>2. Moves(s)
    BY <1>6, <1>2, <1>3, <1>4 DEF Moves
  <2> QED
    BY <1>6, <2>1, <2>2, SameWord DEF KeepsWord
<1> QED
  BY <1>5, <1>6

\* The settings, or contest data.
LEMMA OtherRequestsWord ==
  ASSUME TypeOK, TypeOK', NEW g \in Groups, SendVisibility(g) \/ SendContest(g),
         NEW s \in Submissions
  PROVE  KeepsWord(s) /\ Moves(s)
<1> DEFINE v == round[g].settings
           r1 == [round EXCEPT ![g].settings = 0]
           r2 == [round EXCEPT ![g].contest = FALSE]
           k1 == [ranking EXCEPT ![g].visibility = v]
           k2 == [ranking EXCEPT ![g].contest = TRUE]
<1>1. round \in [Groups -> Batch] /\ ranking \in [Groups -> Held]
  BY DEF TypeOK, BatchesOK, RankingOK
<1>2. /\ queue' = queue
      /\ round' \in {round, r1, r2} /\ ranking' \in {ranking, k1, k2}
  BY DEF SendVisibility, SendContest
<1> HIDE DEF v
<1>3. /\ \A h \in Groups \ {g} : r1[h] = round[h] /\ r2[h] = round[h]
      /\ r1[g].reset = round[g].reset /\ r1[g].score = round[g].score
      /\ r2[g].reset = round[g].reset /\ r2[g].score = round[g].score
  BY <1>1, RoundScores
<1>4. /\ \A h \in Groups \ {g} : k1[h] = ranking[h] /\ k2[h] = ranking[h]
      /\ k1[g].score = ranking[g].score /\ k2[g].score = ranking[g].score
  BY <1>1, RankingScores
<1> HIDE DEF r1, r2, k1, k2
<1>5. /\ \A h \in Groups \ {g} : round'[h] = round[h]
      /\ round'[g].reset = round[g].reset /\ round'[g].score = round[g].score
  BY <1>2, <1>3
<1>6. /\ \A h \in Groups \ {g} : ranking'[h] = ranking[h]
      /\ ranking'[g].score = ranking[g].score
  BY <1>2, <1>4
<1>7. CASE GroupOf[s] # g
  BY <1>2, <1>5, <1>6, <1>7, OtherGroupsWord DEF KeepsWord
<1>8. CASE GroupOf[s] = g
  <2>1. Word(round'[g], queue'[g], ranking'[g].score[s], s) =
        Word(round[g], queue[g], ranking[g].score[s], s)
    BY <1>2, <1>5, <1>6 DEF Word
  <2>2. Moves(s)
    BY <1>8, <1>2, <1>5, <1>6 DEF Moves
  <2> QED
    BY <1>8, <2>1, <2>2, SameWord DEF KeepsWord
<1> QED
  BY <1>7, <1>8

\* Data that is dropped.
LEMMA DropWord ==
  ASSUME TypeOK, TypeOK', NEW g \in Groups, DropData(g), NEW s \in Submissions
  PROVE  KeepsWord(s) /\ Moves(s)
<1>1. round \in [Groups -> Batch]
  BY DEF TypeOK, BatchesOK
<1>2. /\ queue' = queue /\ ranking' = ranking /\ round' = [round EXCEPT ![g] = Nothing]
      /\ g \in lost'
  BY DEF DropData
<1>3. \A h \in Groups \ {g} : round'[h] = round[h]
  BY <1>1, <1>2
<1>4. CASE GroupOf[s] # g
  BY <1>2, <1>3, <1>4, OtherGroupsWord DEF KeepsWord
<1>5. CASE GroupOf[s] = g
  <2>1. round'[g] = Nothing /\ Nothing.score[s] = 0
    BY <1>1, <1>2 DEF Nothing
  <2> QED
    BY <1>2, <1>5, <2>1 DEF KeepsWord, Moves
<1> QED
  BY <1>4, <1>5

\* The scores: what is no longer in the round was taken, or refused, or dropped.
LEMMA ScoresWord ==
  ASSUME TypeOK, TypeOK', NEW g \in Groups, SendScores(g), NEW s \in Submissions
  PROVE  KeepsWord(s) /\ Moves(s)
<1> DEFINE K == {t \in Submissions : round[g].score[t] # 0}
           Took(S) == [t \in Submissions |-> IF t \in S THEN round[g].score[t]
                                                       ELSE ranking[g].score[t]]
           Done(S) == [t \in Submissions |-> IF t \in S THEN 0 ELSE round[g].score[t]]
<1>1. round \in [Groups -> Batch] /\ ranking \in [Groups -> Held]
  BY DEF TypeOK, BatchesOK, RankingOK
<1>2. queue' = queue /\ ~round[g].reset
  BY DEF SendScores, DataIsNext
<1>3. \E invalid, tried, T, U :
        /\ invalid \subseteq K /\ tried \subseteq K /\ T \subseteq K
        /\ refused' = refused \cup {<<g, t>> : t \in tried \cap invalid}
        /\ ranking' = [ranking EXCEPT ![g].score = Took(T)]
        /\ round' = [round EXCEPT ![g].score = Done(U)]
        /\ g \in lost' \/ (U = tried /\ tried \ invalid \subseteq T)
  <2> DEFINE Tries(invalid) ==
                 IF invalid = {} \/ Cardinality(K) = 1 THEN {{}, K} ELSE SUBSET K
             More(invalid, tried) ==
                 IF invalid = {} THEN {{}, K}
                 ELSE {{}} \cup {{t} : t \in K \ (tried \cup invalid)}
             Outcome(invalid, tried) ==
                 /\ refused' = refused \cup {<<g, t>> : t \in tried \cap invalid}
                 /\ \/ /\ tried = K
                       /\ ranking' = [ranking EXCEPT ![g].score = Took(K \ invalid)]
                       /\ round' = [round EXCEPT ![g].score = Done(K)]
                    \/ /\ \E more \in More(invalid, tried) :
                            ranking' = [ranking EXCEPT
                                          ![g].score = Took((tried \ invalid) \cup more)]
                       /\ round' = [round EXCEPT ![g].score = Done(tried)]
                    \/ /\ ranking' = [ranking EXCEPT ![g].score = Took(tried \ invalid)]
                       /\ round' = [round EXCEPT ![g].score = Done(K)]
                       /\ lost' = lost \cup {g}
  <2>1. \E invalid \in Invalid(g, K) : \E tried \in Tries(invalid) : Outcome(invalid, tried)
    BY DEF SendScores
  <2> HIDE DEF Took, Done, K
  <2>2. PICK invalid \in Invalid(g, K) : \E tried \in Tries(invalid) : Outcome(invalid, tried)
    BY <2>1
  <2>3. PICK tried \in Tries(invalid) : Outcome(invalid, tried)
    BY <2>2
  <2>4. invalid \subseteq K /\ tried \subseteq K
    BY DEF Invalid
  <2>5. refused' = refused \cup {<<g, t>> : t \in tried \cap invalid}
    BY <2>3
  <2>6. CASE /\ tried = K
             /\ ranking' = [ranking EXCEPT ![g].score = Took(K \ invalid)]
             /\ round' = [round EXCEPT ![g].score = Done(K)]
    <3> DEFINE T == K \ invalid
    <3>1. T \subseteq K /\ tried \ invalid \subseteq T
          /\ ranking' = [ranking EXCEPT ![g].score = Took(T)]
      BY <2>6
    <3> HIDE DEF T, Outcome
    <3> QED
      BY <2>4, <2>5, <2>6, <3>1
  <2>7. CASE /\ \E more \in More(invalid, tried) :
                  ranking' = [ranking EXCEPT ![g].score = Took((tried \ invalid) \cup more)]
             /\ round' = [round EXCEPT ![g].score = Done(tried)]
    <3>1. PICK more \in More(invalid, tried) :
                  ranking' = [ranking EXCEPT ![g].score = Took((tried \ invalid) \cup more)]
      BY <2>7
    <3>2. more \subseteq K
      OBVIOUS
    <3> DEFINE T == (tried \ invalid) \cup more
    <3>3. T \subseteq K /\ tried \ invalid \subseteq T
      BY <2>4, <3>2
    <3>4. ranking' = [ranking EXCEPT ![g].score = Took(T)]
      BY <3>1
    <3> HIDE DEF T, Outcome, More
    <3> QED
      BY <2>4, <2>5, <2>7, <3>3, <3>4
  <2>8. CASE /\ ranking' = [ranking EXCEPT ![g].score = Took(tried \ invalid)]
             /\ round' = [round EXCEPT ![g].score = Done(K)]
             /\ lost' = lost \cup {g}
    <3> DEFINE T == tried \ invalid
    <3>1. g \in lost' /\ T \subseteq K /\ ranking' = [ranking EXCEPT ![g].score = Took(T)]
      BY <2>4, <2>8
    <3> HIDE DEF T, Outcome, More
    <3> QED
      BY <2>4, <2>5, <2>8, <3>1
  <2> QED
    BY <2>3, <2>6, <2>7, <2>8
<1>4. PICK invalid, tried, T, U :
        /\ invalid \subseteq K /\ tried \subseteq K /\ T \subseteq K
        /\ refused' = refused \cup {<<g, t>> : t \in tried \cap invalid}
        /\ ranking' = [ranking EXCEPT ![g].score = Took(T)]
        /\ round' = [round EXCEPT ![g].score = Done(U)]
        /\ g \in lost' \/ (U = tried /\ tried \ invalid \subseteq T)
  BY <1>3
<1> DEFINE took == Took(T)
           done == Done(U)
<1>5. /\ took[s] = IF s \in T THEN round[g].score[s] ELSE ranking[g].score[s]
      /\ done[s] = IF s \in U THEN 0 ELSE round[g].score[s]
      /\ s \in T => round[g].score[s] # 0
  BY <1>4
<1>6. ranking' = [ranking EXCEPT ![g].score = took] /\ round' = [round EXCEPT ![g].score = done]
  BY <1>4
<1>7. s \in tried \cap invalid => <<g, s>> \in refused'
  BY <1>4
<1>8. g \in lost' \/ s \notin U \/ s \in T \/ <<g, s>> \in refused'
  BY <1>4, <1>7
<1> HIDE DEF K, Took, Done, took, done
<1>9. /\ \A h \in Groups \ {g} : round'[h] = round[h] /\ ranking'[h] = ranking[h]
      /\ round'[g].reset = round[g].reset /\ round'[g].score = done
      /\ ranking'[g].score = took
  BY <1>1, <1>6, RoundScores, RankingScores
<1>10. CASE GroupOf[s] # g
  BY <1>2, <1>9, <1>10, OtherGroupsWord DEF KeepsWord
<1>11. CASE GroupOf[s] = g
  <2>1. \/ g \in lost' \/ <<g, s>> \in refused'
        \/ Word(round'[g], queue'[g], ranking'[g].score[s], s) =
           Word(round[g], queue[g], ranking[g].score[s], s)
    BY <1>2, <1>5, <1>8, <1>9 DEF Word
  <2>2. Moves(s)
    BY <1>11, <1>2, <1>5, <1>8, <1>9 DEF Moves
  <2> QED
    BY <1>11, <2>1, <2>2, SameWord DEF KeepsWord
<1> QED
  BY <1>10, <1>11

\* All the requests.
LEMMA RequestsWord ==
  ASSUME TypeOK, TypeOK', NEW g \in Groups, NEW s \in Submissions,
         SendReset(g) \/ SendVisibility(g) \/ DropData(g) \/ SendContest(g) \/ SendScores(g)
  PROVE  KeepsWord(s) /\ Moves(s)
  BY ResetWord, OtherRequestsWord, DropWord, ScoresWord

\* A round takes its batches out of the queue.
LEMMA TakeBatchWord ==
  ASSUME IInv, TypeOK', TakeBatch, NEW s \in Submissions
  PROVE  LastWord(GroupOf[s], s)' = LastWord(GroupOf[s], s)
<1> DEFINE g == GroupOf[s]
           due == {h \in Groups \ waiting : queue[h] # Nothing}
<1>1. /\ running = {} /\ ranking' = ranking
      /\ round' = [h \in Groups |-> IF h \in due THEN queue[h] ELSE Nothing]
      /\ queue' = [h \in Groups |-> IF h \in due THEN Nothing ELSE queue[h]]
  BY DEF TakeBatch
<1> HIDE DEF due
<1>2. g \in Groups /\ TypeOK
  BY ProxyAssumption DEF IInv
<1>3. round[g] = Nothing
  BY <1>1, <1>2 DEF IInv, RoundOK
<1>4. \/ round'[g] = queue[g] /\ queue'[g] = Nothing
      \/ round'[g] = Nothing /\ queue'[g] = queue[g]
  BY <1>1, <1>2
<1>5. Nothing.score[s] = 0 /\ ~Nothing.reset
  BY DEF Nothing
<1>6. Word(round'[g], queue'[g], ranking'[g].score[s], s) =
      Word(round[g], queue[g], ranking[g].score[s], s)
  BY <1>1, <1>3, <1>4, <1>5 DEF Word
<1> QED
  BY <1>2, <1>6, SameWord

\* What it did not send goes back ahead of what was queued meanwhile.
LEMMA EndRoundWord ==
  ASSUME IInv, TypeOK', EndRound, NEW s \in Submissions
  PROVE  LastWord(GroupOf[s], s)' = LastWord(GroupOf[s], s)
<1> DEFINE g == GroupOf[s]
           b == Combined(round[g], queue[g])
<1>1. /\ Sending = {} /\ round' = EmptyQueue /\ ranking' = ranking
      /\ queue' = [h \in Groups |-> IF h \in stalled THEN Combined(round[h], queue[h])
                                                     ELSE queue[h]]
  BY DEF EndRound
<1>2. g \in Groups /\ TypeOK
  BY ProxyAssumption DEF IInv
<1>3. round[g] \in Batch /\ queue[g] \in Batch
  BY <1>2, Numbers
<1>4. round'[g] = Nothing
  BY <1>1, <1>2 DEF EmptyQueue
<1>5. Nothing.score[s] = 0 /\ ~Nothing.reset
  BY DEF Nothing
<1>6. CASE g \in stalled
  <2>1. queue'[g] = b
    BY <1>1, <1>2, <1>6
  <2>2. /\ b.score[s] = IF queue[g].score[s] # 0 THEN queue[g].score[s]
                        ELSE IF queue[g].reset THEN 0 ELSE round[g].score[s]
        /\ b.reset = (round[g].reset \/ queue[g].reset)
    BY <1>3, CombinedScore
  <2> HIDE DEF b, g
  <2>3. Word(round'[g], queue'[g], ranking'[g].score[s], s) =
        Word(round[g], queue[g], ranking[g].score[s], s)
    BY <1>1, <1>4, <1>5, <2>1, <2>2 DEF Word
  <2> QED
    BY <1>2, <2>3, SameWord DEF g
<1>7. CASE g \notin stalled
  <2>1. round[g].score[s] = 0 /\ ~round[g].reset
    <3>1. CASE g \in running
      <4> DEFINE c == [round[g] EXCEPT !.under = 0]
      <4>1. c = Nothing
        BY <1>1, <1>7, <3>1 DEF Sending
      <4>2. c.score = round[g].score /\ c.reset = round[g].reset
        BY <1>3 DEF Batch
      <4> QED
        BY <1>5, <4>1, <4>2
    <3>2. CASE g \notin running
      BY <1>2, <1>5, <3>2 DEF IInv, RoundOK
    <3> QED
      BY <3>1, <3>2
  <2>2. queue'[g] = queue[g]
    BY <1>1, <1>2, <1>7
  <2> HIDE DEF g
  <2>3. Word(round'[g], queue'[g], ranking'[g].score[s], s) =
        Word(round[g], queue[g], ranking[g].score[s], s)
    BY <1>1, <1>4, <1>5, <2>1, <2>2 DEF Word
  <2> QED
    BY <1>2, <2>3, SameWord DEF g
<1> QED
  BY <1>6, <1>7

\* Operations without a reset are queued behind others.
LEMMA BehindScore ==
  ASSUME NEW older \in Batch, NEW newer \in Batch, ~newer.reset, NEW s \in Submissions
  PROVE  LET b == Combined(older, newer)
         IN  /\ b \in Batch /\ b.reset = older.reset
             /\ newer.score[s] = 0 => b.score[s] = older.score[s]
             /\ newer.score[s] # 0 => b.score[s] = newer.score[s]
<1> DEFINE b == Combined(older, newer)
<1>1. b \in Batch
  BY CombinedFacts
<1>2. /\ b.score[s] = IF newer.score[s] # 0 THEN newer.score[s]
                      ELSE IF newer.reset THEN 0 ELSE older.score[s]
      /\ b.reset = (older.reset \/ newer.reset)
  BY CombinedScore
<1>3. older.reset \in BOOLEAN /\ newer.reset \in BOOLEAN
  BY DEF Batch
<1> HIDE DEF b
<1> QED
  BY <1>1, <1>2, <1>3 DEF b

\* A batch without a reset is queued for group k.
LEMMA QueuedScore ==
  ASSUME TypeOK, NEW k \in Groups, NEW n \in Batch, ~n.reset, queue' = Queued(queue, k, n),
         NEW s \in Submissions, GroupOf[s] # k => n.score[s] = 0
  PROVE  /\ queue'[GroupOf[s]].reset = queue[GroupOf[s]].reset
         /\ queue'[GroupOf[s]].score[s] = IF n.score[s] # 0 THEN n.score[s]
                                          ELSE queue[GroupOf[s]].score[s]
<1> DEFINE g == GroupOf[s]
           b == Combined(queue[k], n)
<1>1. g \in Groups /\ queue \in [Groups -> Batch] /\ queue[k] \in Batch
  BY ProxyAssumption DEF TypeOK, BatchesOK
<1>2. queue' = [queue EXCEPT ![k] = b]
  BY DEF Queued
<1>3. /\ b.reset = queue[k].reset
      /\ n.score[s] = 0 => b.score[s] = queue[k].score[s]
      /\ n.score[s] # 0 => b.score[s] = n.score[s]
  BY <1>1, BehindScore
<1> HIDE DEF b
<1>4. CASE g = k
  BY <1>1, <1>2, <1>3, <1>4
<1>5. CASE g # k
  BY <1>1, <1>2, <1>5
<1> QED
  BY <1>4, <1>5

\* What is queued leaves the last word on s, or is the last word.
LEMMA QueuedWord ==
  ASSUME TypeOK, TypeOK', NEW s \in Submissions, UNCHANGED <<round, ranking>>
  PROVE  /\ queue'[GroupOf[s]].reset = queue[GroupOf[s]].reset
            /\ queue'[GroupOf[s]].score[s] = queue[GroupOf[s]].score[s]
              => LastWord(GroupOf[s], s)' = LastWord(GroupOf[s], s)
         /\ queue'[GroupOf[s]].score[s] # 0
              => LastWord(GroupOf[s], s)' = queue'[GroupOf[s]].score[s]
<1> DEFINE g == GroupOf[s]
<1>1. g \in Groups
  BY ProxyAssumption
<1>2. LastWord(g, s) = Word(round[g], queue[g], ranking[g].score[s], s)
  BY <1>1, LastWordIs DEF Words
<1>3. LastWord(g, s)' = Word(round'[g], queue'[g], ranking'[g].score[s], s)
  BY <1>1, LastWordAfter
<1>4. /\ queue'[g].reset = queue[g].reset /\ queue'[g].score[s] = queue[g].score[s]
           => LastWord(g, s)' = LastWord(g, s)
      /\ queue'[g].score[s] # 0 => LastWord(g, s)' = queue'[g].score[s]
  <2> HIDE DEF g
  <2> QED
    BY <1>2, <1>3 DEF Word
<1> QED
  BY <1>4

\* Settings and contest data say nothing of scores.
LEMMA SettingsScore ==
  ASSUME TypeOK, NEW t \in threads, NEW k \in Groups,
         QueueSettings(t, k) \/ QueueContest(t, k), NEW s \in Submissions
  PROVE  /\ queue'[GroupOf[s]].reset = queue[GroupOf[s]].reset
         /\ queue'[GroupOf[s]].score[s] = queue[GroupOf[s]].score[s]
<1>1. t.settings[k] \in Nat /\ asked[k] \in Nat
  BY DEF TypeOK, ThreadsOK, ThreadOK, ThreadRecords, AskedOK
<1>2. CASE QueueSettings(t, k)
  <2> DEFINE n == Visibility(t.settings[k])
  <2>1. n \in Batch /\ ~n.reset /\ n.score[s] = 0
    BY <1>1 DEF Visibility, Nothing, Batch
  <2>2. queue' = Queued(queue, k, n)
    BY <1>2 DEF QueueSettings
  <2> HIDE DEF n
  <2> QED
    BY <2>1, <2>2, QueuedScore
<1>3. CASE QueueContest(t, k)
  <2> DEFINE n == ContestData(asked[k])
  <2>1. n \in Batch /\ ~n.reset /\ n.score[s] = 0
    BY <1>1 DEF ContestData, Nothing, Batch
  <2>2. queue' = Queued(queue, k, n)
    BY <1>3 DEF QueueContest
  <2> HIDE DEF n
  <2> QED
    BY <2>1, <2>2, QueuedScore
<1> QED
  BY <1>2, <1>3

\* A score is queued by the thread that has read it.
LEMMA ScoreScore ==
  ASSUME TypeOK, NEW t \in threads, QueueScore(t), NEW s \in Submissions
  PROVE  /\ queue'[GroupOf[s]].reset = queue[GroupOf[s]].reset
         /\ queue'[GroupOf[s]].score[s] =
              IF s = t.sub /\ t.value # 0 THEN t.value
              ELSE queue[GroupOf[s]].score[s]
<1> DEFINE x == t.sub
           v == t.value
           h == GroupOf[x]
           n == ScoreOf(x, v, asked[h])
<1>1. queue' = Queued(queue, h, n) /\ t.pc = "marked"
  BY DEF QueueScore
<1>2. x \in Submissions /\ v \in Nat
  BY <1>1 DEF TypeOK, ThreadsOK, ThreadOK, ThreadRecords
<1>3. h \in Groups /\ asked[h] \in Nat
  BY <1>2, ProxyAssumption DEF TypeOK, AskedOK
<1> HIDE DEF x, v, h
<1>4. n \in Batch /\ ~n.reset
  BY <1>2, <1>3, BatchFacts
<1>5. n.score = [Nothing.score EXCEPT ![x] = v] /\ Nothing.score = [y \in Submissions |-> 0]
  BY DEF ScoreOf, Nothing
<1>6. n.score[s] = IF s = x THEN v ELSE 0
  BY <1>2, <1>5
<1>7. GroupOf[s] # h => n.score[s] = 0
  BY <1>6 DEF h
<1> HIDE DEF n
<1>8. /\ queue'[GroupOf[s]].reset = queue[GroupOf[s]].reset
      /\ queue'[GroupOf[s]].score[s] = IF n.score[s] # 0 THEN n.score[s]
                                       ELSE queue[GroupOf[s]].score[s]
  BY <1>1, <1>3, <1>4, <1>7, QueuedScore
<1> QED
  BY <1>6, <1>8 DEF x, v

\* So it is the last word on its submission, and leaves that on the others.
LEMMA ScoreWord ==
  ASSUME TypeOK, TypeOK', NEW t \in threads, QueueScore(t), t.value # 0,
         NEW s \in Submissions
  PROVE  LastWord(GroupOf[s], s)' = IF s = t.sub THEN t.value
                                    ELSE LastWord(GroupOf[s], s)
<1> DEFINE g == GroupOf[s]
<1>1. /\ queue'[g].reset = queue[g].reset
      /\ queue'[g].score[s] = IF s = t.sub THEN t.value ELSE queue[g].score[s]
  BY ScoreScore
<1>2. UNCHANGED <<round, ranking>>
  BY DEF QueueScore
<1>3. /\ queue'[g].reset = queue[g].reset /\ queue'[g].score[s] = queue[g].score[s]
           => LastWord(g, s)' = LastWord(g, s)
      /\ queue'[g].score[s] # 0 => LastWord(g, s)' = queue'[g].score[s]
  BY <1>2, QueuedWord
<1> HIDE DEF g
<1>4. LastWord(g, s)' = IF s = t.sub THEN t.value ELSE LastWord(g, s)
  BY <1>1, <1>3
<1> QED
  BY <1>4 DEF g

\* A reset leaves no score of its group in the queue, and the other groups alone.
LEMMA ResetScore ==
  ASSUME TypeOK, NEW t \in threads, QueueReset(t), NEW s \in Submissions
  PROVE  /\ GroupOf[s] = t.group => queue'[GroupOf[s]].score[s] = 0
         /\ GroupOf[s] # t.group => queue'[GroupOf[s]] = queue[GroupOf[s]]
<1> DEFINE g == GroupOf[s]
           k == t.group
           b == Combined(queue[k], Reset)
<1>1. queue' = [queue EXCEPT ![k] = b] /\ t.pc = "reset"
  BY DEF QueueReset, Queued
<1>2. /\ g \in Groups /\ k \in Groups /\ queue \in [Groups -> Batch] /\ queue[k] \in Batch
  BY <1>1, ProxyAssumption DEF TypeOK, BatchesOK, ThreadsOK, ThreadOK
<1>3. Reset \in Batch /\ Reset.reset /\ Reset.score[s] = 0
  BY DEF Reset, Nothing, Batch
<1>4. b.score[s] = 0
  BY <1>2, <1>3, CombinedScore
<1> HIDE DEF b, k, g
<1>5. (g = k => queue'[g].score[s] = 0) /\ (g # k => queue'[g] = queue[g])
  BY <1>1, <1>2, <1>4
<1> QED
  BY <1>5 DEF g, k

\* A regenerate queues a reset and what it read.
LEMMA RegenScore ==
  ASSUME IInv, RegenQueue, NEW s \in Submissions
  PROVE  /\ GroupOf[s] = regen.group =>
              queue'[GroupOf[s]].reset /\ queue'[GroupOf[s]].score[s] = regen.read.score[s]
         /\ GroupOf[s] # regen.group => queue'[GroupOf[s]] = queue[GroupOf[s]]
<1> DEFINE h == regen.group
           n == regen.read
           g == GroupOf[s]
           b == Combined(queue[h], n)
<1>1. TypeOK /\ RegenOK
  BY DEF IInv
<1>2. regen.pc = "read" /\ queue' = [queue EXCEPT ![h] = b]
  BY DEF RegenQueue, Queued
<1>3. /\ h \in Groups /\ g \in Groups /\ queue \in [Groups -> Batch] /\ queue[h] \in Batch
      /\ n \in Batch /\ n.reset
  BY <1>1, <1>2, ProxyAssumption DEF TypeOK, ThreadsOK, BatchesOK, RegenOK
<1> HIDE DEF h, n
<1>4. /\ b.score[s] = IF n.score[s] # 0 THEN n.score[s] ELSE 0
      /\ b.reset = (queue[h].reset \/ n.reset)
  BY <1>3, CombinedScore
<1> HIDE DEF b
<1>5. g = h => queue'[g] = b
  BY <1>2, <1>3
<1>6. g # h => queue'[g] = queue[g]
  BY <1>2, <1>3
<1> HIDE DEF g
<1>7. /\ g = h => queue'[g].reset /\ queue'[g].score[s] = n.score[s]
      /\ g # h => queue'[g] = queue[g]
  BY <1>3, <1>4, <1>5, <1>6
<1> QED
  BY <1>7 DEF g, h, n

\* So the last word on the submissions of its group is what it read.
LEMMA RegenWord ==
  ASSUME IInv, TypeOK', RegenQueue, NEW s \in Submissions
  PROVE  LastWord(GroupOf[s], s)' = IF GroupOf[s] = regen.group THEN regen.read.score[s]
                                    ELSE LastWord(GroupOf[s], s)
<1> DEFINE g == GroupOf[s]
<1>1. TypeOK /\ UNCHANGED <<round, ranking>> /\ g \in Groups
  BY ProxyAssumption DEF IInv, RegenQueue
<1>2. /\ g = regen.group => queue'[g].reset /\ queue'[g].score[s] = regen.read.score[s]
      /\ g # regen.group => queue'[g] = queue[g]
  BY RegenScore
<1>3. LastWord(g, s)' = Word(round'[g], queue'[g], ranking'[g].score[s], s)
  BY <1>1, LastWordAfter
<1>4. LastWord(g, s) = Word(round[g], queue[g], ranking[g].score[s], s)
  BY <1>1, LastWordIs DEF Words
<1> HIDE DEF g
<1>5. LastWord(g, s)' = IF g = regen.group THEN regen.read.score[s] ELSE LastWord(g, s)
  BY <1>1, <1>2, <1>3, <1>4 DEF Word
<1> QED
  BY <1>5 DEF g
-----------------------------------------------------------------------------
(* The steps keep what is said of the marked submissions *)

\* A step that leaves the threads alone, and keeps account of s.
LEMMA AccountedKeeps ==
  ASSUME NEW s \in Submissions, Accounted(s), KeepsWord(s), db'.score[s] = db.score[s],
         UNCHANGED <<notices, threads, overtaken>>, refused \subseteq refused',
         lost \subseteq lost'
  PROVE  Accounted(s)'
  BY DEF Accounted, Notifying, Resetting, KeepsWord

\* A step that marks nothing, and takes no mark off.
LEMMA EvenMarked ==
  ASSUME TypeOK, MarkedInv, Threads', db'.score = db.score, UNCHANGED <<sent, regen>>,
         \A s \in sent : Accounted(s) => Accounted(s)',
         \A s \in sent : s \in notices \/ Reading(s) => s \in notices' \/ Reading(s)'
  PROVE  MarkedInv' /\ (CopyInv => CopyInv')
<1>1. ASSUME NEW s \in sent
      PROVE  Marked(s)'
  <2>1. /\ Marked(s) /\ (Accounted(s) => Accounted(s)')
        /\ s \in notices \/ Reading(s) => s \in notices' \/ Reading(s)'
    BY DEF MarkedInv
  <2> QED
    BY <2>1 DEF Marked, ReadOrNoted
<1>2. CopyInv => CopyInv'
  BY DEF CopyInv, Copied
<1> QED
  BY <1>1, <1>2 DEF MarkedInv

\* A step that leaves the threads alone too.
LEMMA ExecutorMarked ==
  ASSUME TypeOK, MarkedInv, db'.score = db.score,
         UNCHANGED <<sent, notices, threads, regen>>,
         \A s \in Submissions : Accounted(s) => Accounted(s)'
  PROVE  MarkedInv' /\ (CopyInv => CopyInv')
<1>1. Threads'
  BY DEF MarkedInv, Threads, InHand
<1>2. sent \subseteq Submissions
  BY DEF TypeOK, SetsOK
<1>3. \A s \in sent : s \in notices \/ Reading(s) => s \in notices' \/ Reading(s)'
  BY DEF Reading
<1> QED
  BY <1>1, <1>2, <1>3, EvenMarked

\* A request.
LEMMA RequestMarked ==
  ASSUME TypeOK, TypeOK', MarkedInv, NEW g \in Groups,
         SendReset(g) \/ SendVisibility(g) \/ DropData(g) \/ SendContest(g) \/ SendScores(g)
  PROVE  MarkedInv' /\ (CopyInv => CopyInv')
<1>1. /\ UNCHANGED <<db, sent, notices, threads, regen, overtaken>>
      /\ refused \subseteq refused' /\ lost \subseteq lost'
  <2>1. CASE SendReset(g)
    BY <2>1 DEF SendReset
  <2>2. CASE SendVisibility(g)
    BY <2>2 DEF SendVisibility
  <2>3. CASE DropData(g)
    BY <2>3 DEF DropData
  <2>4. CASE SendContest(g)
    BY <2>4 DEF SendContest
  <2>5. CASE SendScores(g)
    BY <2>5 DEF SendScores
  <2> QED
    BY <2>1, <2>2, <2>3, <2>4, <2>5
<1>2. ASSUME NEW s \in Submissions, Accounted(s)
      PROVE  Accounted(s)'
  <2>1. KeepsWord(s)
    BY RequestsWord
  <2> QED
    BY <1>1, <1>2, <2>1, AccountedKeeps
<1> QED
  BY <1>1, <1>2, ExecutorMarked

\* The start of a round; a time that comes; nothing.
LEMMA StartMarked ==
  ASSUME IInv, TypeOK', MarkedInv, TakeBatch \/ (\E g \in Groups : Due(g)) \/ UNCHANGED vars
  PROVE  MarkedInv' /\ (CopyInv => CopyInv')
<1>1. TypeOK
  BY DEF IInv
<1>2. UNCHANGED <<db, sent, notices, threads, regen, refused, lost, overtaken>>
  BY DEF TakeBatch, Due, vars, executor
<1>3. ASSUME NEW s \in Submissions, Accounted(s)
      PROVE  Accounted(s)'
  <2>1. LastWord(GroupOf[s], s)' = LastWord(GroupOf[s], s)
    <3>1. CASE TakeBatch
      BY <3>1, TakeBatchWord
    <3>2. CASE ~TakeBatch
      <4>1. UNCHANGED <<queue, round, ranking>>
        BY <3>2 DEF Due, vars, executor
      <4> QED
        BY <1>1, <4>1, QueuedWord
    <3> QED
      BY <3>1, <3>2
  <2>2. KeepsWord(s)
    BY <2>1 DEF KeepsWord
  <2> QED
    BY <1>2, <1>3, <2>2, AccountedKeeps
<1> QED
  BY <1>1, <1>2, <1>3, ExecutorMarked

\* The end of a round, with its refusals.
LEMMA EndMarked ==
  ASSUME IInv, TypeOK', MarkedInv, EndRound
  PROVE  MarkedInv' /\ (CopyInv /\ ~RefusedDuringBuild => CopyInv')
<1>1. /\ UNCHANGED <<db, notices, threads, regen, lost, overtaken>>
      /\ sent' = sent \ {p[2] : p \in refused}
  BY DEF EndRound
<1>2. sent \subseteq Submissions /\ regen.before \subseteq Submissions
  BY DEF IInv, TypeOK, SetsOK, ThreadsOK
<1>3. Threads'
  BY <1>1 DEF MarkedInv, Threads, InHand
<1>4. ASSUME NEW s \in Submissions, Accounted(s), \A p \in refused : p[2] # s
      PROVE  Accounted(s)'
  <2>1. LastWord(GroupOf[s], s)' = LastWord(GroupOf[s], s)
    BY EndRoundWord
  <2>2. <<GroupOf[s], s>> \notin refused
    BY <1>4
  <2> QED
    BY <1>1, <1>4, <2>1, <2>2 DEF Accounted, Notifying, Resetting
<1>5. ASSUME NEW s \in sent'
      PROVE  Marked(s)'
  <2>1. /\ s \in Submissions /\ Marked(s) /\ \A p \in refused : p[2] # s
    BY <1>1, <1>2 DEF MarkedInv
  <2> QED
    BY <1>1, <1>4, <2>1 DEF Marked, ReadOrNoted, Reading
<1>6. ASSUME CopyInv, ~RefusedDuringBuild
      PROVE  CopyInv'
  <2> SUFFICES ASSUME regen.pc \in {"build", "read"}, NEW s \in regen.before
               PROVE  Copied(s)'
    BY <1>1 DEF CopyInv
  <2>1. s \in Submissions /\ s \in sent /\ Accounted(s)
    BY <1>2, <1>6 DEF CopyInv, Copied
  <2>2. \A p \in refused : p[2] # s
    BY <1>6 DEF RefusedDuringBuild
  <2>3. s \in sent'
    BY <1>1, <2>1, <2>2
  <2> QED
    BY <1>4, <2>1, <2>2, <2>3 DEF Copied
<1> QED
  BY <1>3, <1>5, <1>6 DEF MarkedInv

\* A score is committed: it is notified, or is the first one of its submission.
LEMMA ScoreMarked ==
  ASSUME IInv, TypeOK', MarkedInv, MayLose \subseteq {1}, NEW t \in Submissions, Score(t)
  PROVE  MarkedInv' /\ (CopyInv => CopyInv')
<1>1. TypeOK
  BY DEF IInv
<1>2. /\ UNCHANGED <<queue, round, ranking, refused, sent, threads,
                     regen, lost, overtaken>>
      /\ db' = [db EXCEPT !.score[t] = db.score[t] + 1]
      /\ \/ notices' = notices \cup {t}
         \/ notices' = notices /\ db.score[t] + 1 \in MayLose
  BY DEF Score, executor
<1>3. /\ sent \subseteq Submissions /\ regen.before \subseteq Submissions
      /\ notices \subseteq Submissions /\ notices \subseteq notices'
      /\ \A x \in threads : x.pc \in {"read", "marked"} => x.sub \in Submissions
  BY <1>1, <1>2 DEF TypeOK, SetsOK, ThreadsOK, ThreadOK
<1>4. \A s \in Submissions : db.score[s] \in Nat
  BY <1>1 DEF TypeOK, DbOK
<1>5. /\ \A s \in Submissions \ {t} : db'.score[s] = db.score[s]
      /\ db'.score[t] = db.score[t] + 1 /\ db'.score[t] # 0
  <2>1. db.score \in [Submissions -> Nat] /\ db'.score = [db.score EXCEPT ![t] = @ + 1]
    BY <1>1, <1>2 DEF TypeOK, DbOK
  <2>2. db'.score[t] = db.score[t] + 1 /\ \A s \in Submissions \ {t} : db'.score[s] = db.score[s]
    BY <2>1
  <2>3. db.score[t] \in Nat
    BY <1>4
  <2> QED
    BY <2>2, <2>3
<1>6. t \notin notices' => db.score[t] = 0 /\ notices' = notices
  <2> SUFFICES ASSUME t \notin notices'
               PROVE  db.score[t] = 0 /\ notices' = notices
    OBVIOUS
  <2>1. notices' = notices /\ db.score[t] + 1 = 1
    BY <1>2
  <2>2. db.score[t] \in Nat
    BY <1>4
  <2> QED
    BY <2>1, <2>2
<1>7. t \in sent => t \in notices'
  BY <1>2, <1>6 DEF MarkedInv, Threads
<1>8. Threads'
  <2>1. \A s \in sent' \cup notices' : db'.score[s] # 0
    BY <1>2, <1>3, <1>5 DEF MarkedInv, Threads
  <2>2. \A x \in threads' : InHand(x)'
    BY <1>2, <1>3, <1>5 DEF MarkedInv, Threads, InHand
  <2> QED
    BY <1>2, <2>1, <2>2 DEF MarkedInv, Threads
<1>9. ASSUME NEW s \in Submissions, s # t, Accounted(s)
      PROVE  Accounted(s)'
  <2>1. LastWord(GroupOf[s], s)' = LastWord(GroupOf[s], s)
    BY <1>1, <1>2, QueuedWord
  <2>2. db'.score[s] = db.score[s]
    BY <1>5, <1>9
  <2> QED
    BY <1>2, <1>3, <1>9, <2>1, <2>2 DEF Accounted, Notifying, Resetting
<1>10. ASSUME NEW s \in sent
       PROVE  Marked(s)'
  <2>1. s \in Submissions /\ Marked(s)
    BY <1>3 DEF MarkedInv
  <2>2. CASE s = t
    <3>1. s \in notices'
      BY <1>7, <2>2
    <3> QED
      BY <3>1 DEF Marked, Accounted, ReadOrNoted
  <2>3. CASE s # t
    <3>1. db'.score[s] = db.score[s] /\ (Accounted(s) => Accounted(s)')
      BY <1>5, <1>9, <2>1, <2>3
    <3> QED
      BY <1>2, <1>3, <2>1, <3>1 DEF Marked, ReadOrNoted, Reading
  <2> QED
    BY <2>2, <2>3
<1>11. ASSUME CopyInv
       PROVE  CopyInv'
  <2> SUFFICES ASSUME regen.pc \in {"build", "read"}, NEW s \in regen.before
               PROVE  Copied(s)'
    BY <1>2 DEF CopyInv
  <2>1. s \in Submissions /\ s \in sent /\ Accounted(s)
    BY <1>3, <1>11 DEF CopyInv, Copied
  <2>2. CASE s = t
    <3>1. s \in notices' /\ s \in sent'
      BY <1>2, <1>7, <2>1, <2>2
    <3> QED
      BY <3>1 DEF Copied, Accounted
  <2>3. CASE s # t
    BY <1>2, <1>9, <2>1, <2>3 DEF Copied
  <2> QED
    BY <2>2, <2>3
<1> QED
  BY <1>2, <1>8, <1>10, <1>11 DEF MarkedInv

\* A thread starts.
LEMMA StartsMarked ==
  ASSUME IInv, TypeOK', MarkedInv, db'.score = db.score, NEW u, InHand(u)',
         threads' = threads \cup {u},
         UNCHANGED <<queue, round, ranking, refused, sent, regen, lost, overtaken>>,
         notices' \subseteq notices,
         \A s \in notices \ notices' : u.sub = s /\ u.kind = "notice" /\ u.pc = "read"
  PROVE  MarkedInv' /\ (CopyInv => CopyInv')
<1>1. TypeOK
  BY DEF IInv
<1>2. sent \subseteq Submissions
  BY <1>1 DEF TypeOK, SetsOK
<1>3. Threads'
  BY DEF MarkedInv, Threads, InHand
<1>4. ASSUME NEW s \in sent, Accounted(s)
      PROVE  Accounted(s)'
  <2>1. LastWord(GroupOf[s], s)' = LastWord(GroupOf[s], s)
    BY <1>1, <1>2, QueuedWord
  <2>2. /\ s \in notices => s \in notices' \/ Notifying(s)'
        /\ Notifying(s) => Notifying(s)'
        /\ Resetting(s) => Resetting(s)'
    BY DEF Notifying, Carries, Resetting
  <2> QED
    BY <1>4, <2>1, <2>2 DEF Accounted
<1>5. \A s \in sent : s \in notices \/ Reading(s) => s \in notices' \/ Reading(s)'
  BY DEF Reading
<1> QED
  BY <1>1, <1>3, <1>4, <1>5, EvenMarked

\* The thread of a notification, which has read the score.
LEMMA ReadMarked ==
  ASSUME IInv, TypeOK', MarkedInv, NEW t \in Submissions, NotifyRead(t)
  PROVE  MarkedInv' /\ (CopyInv => CopyInv')
<1>1. TypeOK
  BY DEF IInv
<1>2. /\ UNCHANGED <<db, queue, round, ranking, refused, sent, regen, lost, overtaken>>
      /\ t \in notices /\ notices' = notices \ {t}
  BY DEF NotifyRead, executor
<1>3. PICK u : /\ threads' = threads \cup {u} /\ u.kind = "notice" /\ u.sub = t
               /\ u.value = db.score[t] /\ u.pc = "read"
  BY <1>1, NotifyStarts
<1>4. db.score[t] # 0
  BY <1>2 DEF MarkedInv, Threads
<1>5. InHand(u)'
  BY <1>2, <1>3, <1>4 DEF InHand
<1> QED
  BY <1>2, <1>3, <1>5, StartsMarked

\* The sweeper's.
LEMMA SweepMarked ==
  ASSUME IInv, TypeOK', MarkedInv, SweepBegin
  PROVE  MarkedInv' /\ (CopyInv => CopyInv')
<1>1. TypeOK
  BY DEF IInv
<1>2. UNCHANGED <<db, notices, queue, round, ranking, refused, sent, regen, lost, overtaken>>
  BY DEF SweepBegin, executor
<1>3. PICK u : threads' = threads \cup {u} /\ u.kind = "sweep" /\ u.pc = "start"
  BY <1>1, SweepStarts
<1>4. InHand(u)'
  BY <1>3 DEF InHand
<1> QED
  BY <1>2, <1>3, <1>4, StartsMarked

\* That of a call, which may be about to reset a group.
LEMMA ReinitMarked ==
  ASSUME IInv, TypeOK', MarkedInv, NEW g \in Groups, NEW kind \in Calls, ReinitBegin(g, kind)
  PROVE  MarkedInv' /\ (CopyInv => CopyInv')
<1>1. TypeOK /\ SpentOK'
  BY DEF IInv, TypeOK
<1>2. UNCHANGED <<notices, queue, round, ranking, refused, sent, regen, lost, overtaken>>
  BY DEF ReinitBegin, executor
<1>3. db'.score = db.score
  BY <1>1 DEF ReinitBegin, TypeOK, DbOK
<1>4. PICK u : /\ threads' = threads \cup {u} /\ ThreadOK(u)
               /\ u.kind = kind /\ u.group = g /\ u.pc \in {"reset", "start"}
               /\ u.scores = IF kind = "save" THEN {}
                             ELSE {s \in Submissions : GroupOf[s] = g}
  BY <1>1, ReinitStarts
<1>5. InHand(u)'
  BY <1>4 DEF InHand, ThreadOK
<1> QED
  BY <1>2, <1>3, <1>4, <1>5, StartsMarked

\* A thread fails, and a group that was being reset is reported.
LEMMA FailMarked ==
  ASSUME IInv, TypeOK', MarkedInv, NEW t \in threads, ThreadFail(t)
  PROVE  MarkedInv' /\ (CopyInv => CopyInv')
<1>1. TypeOK
  BY DEF IInv
<1>2. /\ UNCHANGED <<db, notices, queue, round, ranking, refused, sent, regen, overtaken>>
      /\ threads' = threads \ {t} /\ t.kind # "notice" /\ t.pc # "marked"
      /\ lost' = IF t.kind = "lost" THEN lost \cup {t.group} ELSE lost
  BY DEF ThreadFail, executor
<1>3. sent \subseteq Submissions
  BY <1>1 DEF TypeOK, SetsOK
<1>4. Threads'
  BY <1>2 DEF MarkedInv, Threads, InHand
<1>5. ASSUME NEW s \in sent, Accounted(s)
      PROVE  Accounted(s)'
  <2>1. LastWord(GroupOf[s], s)' = LastWord(GroupOf[s], s)
    BY <1>1, <1>2, <1>3, QueuedWord
  <2>2. Notifying(s) => Notifying(s)'
    BY <1>2 DEF Notifying, Carries
  <2>3. Resetting(s) => Resetting(s)' \/ GroupOf[s] \in lost'
    BY <1>2 DEF Resetting, MarkedInv, Threads, InHand
  <2> QED
    BY <1>2, <1>5, <2>1, <2>2, <2>3 DEF Accounted
<1>6. \A s \in sent : s \in notices \/ Reading(s) => s \in notices' \/ Reading(s)'
  BY <1>2 DEF Reading
<1> QED
  BY <1>1, <1>2, <1>4, <1>5, <1>6, EvenMarked

\* What the threads hold once one has gone on.
LEMMA ThreadsGoOn ==
  ASSUME TypeOK, MarkedInv, NEW t \in threads, NEW u, GoesOn(t, u),
         db' = db, notices' = notices, sent' \subseteq sent \cup {t.sub},
         sent' # sent => t.pc = "read"
  PROVE  Threads'
<1>1. ThreadOK(t) /\ InHand(t)
  BY DEF TypeOK, ThreadsOK, MarkedInv, Threads
<1>2. threads' \subseteq threads \cup {u}
  BY DEF GoesOn, Becomes
<1>3. InHand(u)
  <2>1. u.kind = t.kind /\ u.group = t.group /\ u.pc # "reset" /\ u.scores \subseteq t.scores
    BY DEF GoesOn
  <2>2. u.pc \in {"read", "marked"} =>
          \/ t.pc = "read" /\ u.sub = t.sub /\ u.value = t.value
          \/ u.value = db.score[u.sub] /\ u.value # 0
    BY DEF GoesOn
  <2> QED
    BY <1>1, <2>1, <2>2 DEF InHand
<1>4. \A x \in threads' : InHand(x)'
  <2>1. \A x \in threads' : InHand(x)
    BY <1>2, <1>3 DEF MarkedInv, Threads
  <2> QED
    BY <2>1 DEF InHand
<1>5. \A s \in sent' \cup notices' : db'.score[s] # 0
  BY <1>1 DEF MarkedInv, Threads, InHand
<1> QED
  BY <1>4, <1>5 DEF Threads

\* A thread that goes on keeps what it carries, until it queues it.
LEMMA GoesOnCarries ==
  ASSUME TypeOK, NEW t \in threads, NEW u, GoesOn(t, u), NEW s \in Submissions,
         db.score[s] # 0
  PROVE  /\ Notifying(s) => Notifying(s)' \/ Carries(t, s)
         /\ Carries(t, s) /\ u.pc = "marked" => Notifying(s)'
         /\ Resetting(s) => Resetting(s)' \/ (s = t.sub /\ t.pc = "marked")
         /\ Reading(s) => Reading(s)' \/ (s = t.sub /\ t.kind = "notice" /\ t.pc = "read")
<1>1. threads' = (threads \ {t}) \cup (IF IsOver(u) THEN {} ELSE {u})
  BY DEF GoesOn, Becomes
<1>2. u.kind = t.kind
  BY DEF GoesOn
<1>3. Notifying(s) => Notifying(s)' \/ Carries(t, s)
  BY <1>1 DEF Notifying
<1>4. ASSUME Carries(t, s), u.pc = "marked"
      PROVE  Notifying(s)'
  <2>1. u.sub = t.sub
    <3>1. t.pc \in {"read", "marked"}
      BY <1>4 DEF Carries, TypeOK, ThreadsOK, ThreadOK
    <3> QED
      BY <1>4, <3>1 DEF GoesOn
  <2>2. u \in threads'
    BY <1>1, <1>4 DEF IsOver
  <2>3. Carries(u, s)
    BY <1>4, <2>1 DEF Carries
  <2> QED
    BY <2>2, <2>3 DEF Notifying, Carries
<1>5. ASSUME NEW x \in threads, x.kind = "lost", s \in x.scores
      PROVE  Resetting(s)' \/ (s = t.sub /\ t.pc = "marked")
  <2>1. CASE x # t
    BY <1>1, <1>5, <2>1 DEF Resetting
  <2>2. CASE x = t /\ s \in u.scores
    <3>1. u \in threads'
      BY <1>1, <2>2 DEF IsOver
    <3> QED
      BY <1>2, <1>5, <2>2, <3>1 DEF Resetting
  <2>3. CASE x = t /\ s \notin u.scores
    BY <1>5, <2>3 DEF GoesOn
  <2> QED
    BY <2>1, <2>2, <2>3
<1>6. Reading(s) => Reading(s)' \/ (s = t.sub /\ t.kind = "notice" /\ t.pc = "read")
  BY <1>1 DEF Reading
<1> QED
  BY <1>3, <1>4, <1>5, <1>6 DEF Resetting

\* A thread that reads, or queues settings or contest data.
LEMMA WorkMarked ==
  ASSUME IInv, TypeOK', MarkedInv, NEW t \in threads,
         \/ ReadSettings(t)
         \/ \E g \in Groups : QueueSettings(t, g) \/ QueueContest(t, g)
         \/ \E s \in Submissions : ReadScore(t, s)
  PROVE  MarkedInv' /\ (CopyInv => CopyInv')
<1>1. TypeOK /\ ThreadStep(t)
  BY DEF IInv, ThreadStep
<1>2. PICK u : GoesOn(t, u)
  BY <1>1, StepGoesOn
<1>3. /\ UNCHANGED <<db, notices, round, ranking, refused, sent, regen, lost, overtaken>>
      /\ t.pc \in {"start", "work"}
  BY DEF ReadSettings, QueueSettings, QueueContest, ReadScore, executor
<1>4. sent \subseteq Submissions /\ t.kind # "notice"
  BY <1>1, <1>3 DEF TypeOK, SetsOK, ThreadsOK, ThreadOK
<1>5. Threads'
  BY <1>1, <1>2, <1>3, ThreadsGoOn
<1>6. ASSUME NEW s \in Submissions
      PROVE  LastWord(GroupOf[s], s)' = LastWord(GroupOf[s], s)
  <2>1. /\ queue'[GroupOf[s]].reset = queue[GroupOf[s]].reset
        /\ queue'[GroupOf[s]].score[s] = queue[GroupOf[s]].score[s]
    <3>1. CASE \E g \in Groups : QueueSettings(t, g) \/ QueueContest(t, g)
      BY <1>1, <3>1, SettingsScore
    <3>2. CASE ReadSettings(t) \/ \E x \in Submissions : ReadScore(t, x)
      BY <3>2 DEF ReadSettings, ReadScore, executor
    <3> QED
      BY <3>1, <3>2
  <2> QED
    BY <1>1, <1>3, <2>1, QueuedWord
<1>7. ASSUME NEW s \in sent
      PROVE  /\ Notifying(s) => Notifying(s)'
             /\ Resetting(s) => Resetting(s)'
             /\ Reading(s) => Reading(s)'
  <2>1. s \in Submissions /\ db.score[s] # 0
    BY <1>4 DEF MarkedInv, Threads
  <2> QED
    BY <1>1, <1>2, <1>3, <1>4, <2>1, GoesOnCarries DEF Carries
<1>8. \A s \in sent : Accounted(s) => Accounted(s)'
  BY <1>3, <1>4, <1>6, <1>7 DEF Accounted
<1> QED
  BY <1>1, <1>3, <1>5, <1>7, <1>8, EvenMarked

\* A group is reset: the scores that go are those its thread is to queue.
LEMMA ResetMarked ==
  ASSUME IInv, TypeOK', MarkedInv, NEW t \in threads, QueueReset(t)
  PROVE  MarkedInv' /\ (CopyInv => CopyInv')
<1>1. TypeOK /\ ThreadStep(t)
  BY DEF IInv, ThreadStep
<1>2. PICK u : GoesOn(t, u)
  BY <1>1, StepGoesOn
<1>3. /\ UNCHANGED <<db, notices, round, ranking, refused, sent, regen, lost, overtaken>>
      /\ t.pc = "reset"
  BY DEF QueueReset
<1>4. sent \subseteq Submissions /\ t.kind = "lost"
  BY <1>1, <1>3 DEF TypeOK, SetsOK, ThreadsOK, ThreadOK
<1>5. Threads'
  BY <1>1, <1>2, <1>3, ThreadsGoOn
<1>6. ASSUME NEW s \in sent
      PROVE  /\ Notifying(s) => Notifying(s)'
             /\ Resetting(s) => Resetting(s)'
             /\ Reading(s) => Reading(s)'
  <2>1. s \in Submissions /\ db.score[s] # 0
    BY <1>4 DEF MarkedInv, Threads
  <2> QED
    BY <1>1, <1>2, <1>3, <1>4, <2>1, GoesOnCarries DEF Carries
<1>7. ASSUME NEW s \in sent, Accounted(s)
      PROVE  Accounted(s)'
  <2>1. CASE GroupOf[s] = t.group
    <3>1. s \in t.scores
      BY <1>3, <1>4, <2>1 DEF MarkedInv, Threads, InHand
    <3>2. Resetting(s)
      BY <1>4, <3>1 DEF Resetting
    <3> QED
      BY <1>6, <3>2 DEF Accounted
  <2>2. CASE GroupOf[s] # t.group
    <3>1. queue'[GroupOf[s]] = queue[GroupOf[s]]
      BY <1>1, <1>4, <2>2, ResetScore
    <3>2. LastWord(GroupOf[s], s)' = LastWord(GroupOf[s], s)
      BY <1>1, <1>3, <1>4, <3>1, QueuedWord
    <3> QED
      BY <1>3, <1>6, <1>7, <3>2 DEF Accounted
  <2> QED
    BY <2>1, <2>2
<1> QED
  BY <1>1, <1>3, <1>5, <1>6, <1>7, EvenMarked

\* What a mark does: the regenerate notes it, if there is one.
LEMMA MarkNotes ==
  ASSUME TypeOK, NEW t, Mark(t)
  PROVE  /\ sent' = sent \cup {t}
         /\ regen'.pc = regen.pc /\ regen'.group = regen.group
         /\ regen'.before = regen.before /\ regen'.read = regen.read
         /\ regen'.noted = IF regen.pc = "idle" THEN regen.noted ELSE regen.noted \cup {t}
  BY DEF Mark, TypeOK, ThreadsOK

\* A score is marked, or left out by the sweeper as it is marked.
LEMMA MarkMarked ==
  ASSUME IInv, TypeOK', MarkedInv, NEW t \in threads, MarkScore(t)
  PROVE  MarkedInv' /\ (CopyInv => CopyInv')
<1>1. TypeOK /\ ThreadStep(t)
  BY DEF IInv, ThreadStep
<1>2. /\ UNCHANGED <<db, notices, queue, round, ranking, refused, lost, overtaken>>
      /\ t.pc = "read"
  BY DEF MarkScore, executor
<1>3. /\ sent \subseteq Submissions /\ regen.before \subseteq Submissions
      /\ t.sub \in Submissions
  BY <1>1, <1>2 DEF TypeOK, SetsOK, ThreadsOK, ThreadOK
<1>4. \A s \in Submissions : LastWord(GroupOf[s], s)' = LastWord(GroupOf[s], s)
  BY <1>1, <1>2, QueuedWord
<1>5. CASE t.kind = "sweep" /\ t.sub \in sent
  <2>1. PICK u : GoesOn(t, u)
    BY <1>1, StepGoesOn
  <2>2. UNCHANGED <<sent, regen>>
    BY <1>5 DEF MarkScore
  <2>3. Threads'
    BY <1>1, <1>2, <2>1, <2>2, ThreadsGoOn
  <2>4. ASSUME NEW s \in sent
        PROVE  /\ Notifying(s) => Notifying(s)'
               /\ Resetting(s) => Resetting(s)'
               /\ Reading(s) => Reading(s)'
    <3>1. s \in Submissions /\ db.score[s] # 0
      BY <1>3 DEF MarkedInv, Threads
    <3> QED
      BY <1>1, <1>2, <1>5, <2>1, <3>1, GoesOnCarries DEF Carries
  <2>5. \A s \in sent : Accounted(s) => Accounted(s)'
    BY <1>2, <1>3, <1>4, <2>4 DEF Accounted
  <2> QED
    BY <1>1, <1>2, <2>2, <2>3, <2>4, <2>5, EvenMarked
<1>6. CASE ~(t.kind = "sweep" /\ t.sub \in sent)
  <2> DEFINE u == [t EXCEPT !.pc = "marked"]
  <2>1. Becomes(t, u) /\ Mark(t.sub)
    BY <1>6 DEF MarkScore
  <2>2. /\ sent' = sent \cup {t.sub}
        /\ regen'.pc = regen.pc /\ regen'.group = regen.group
        /\ regen'.before = regen.before /\ regen'.read = regen.read
        /\ regen'.noted = IF regen.pc = "idle" THEN regen.noted
                          ELSE regen.noted \cup {t.sub}
    BY <1>1, <2>1, MarkNotes
  <2>3. ThreadOK(u) /\ u.pc = "marked" /\ u.sub = t.sub /\ u.value = t.value
        /\ u.kind = t.kind /\ u.group = t.group /\ u.scores = t.scores
        /\ u.settings = t.settings
    BY <1>1, <1>2 DEF TypeOK, ThreadsOK, ThreadOK, ThreadRecords
  <2> HIDE DEF u
  <2>4. GoesOn(t, u) /\ u \in threads'
    BY <1>2, <2>1, <2>3 DEF GoesOn, Becomes, IsOver, ThreadOK
  <2>5. Threads'
    BY <1>1, <1>2, <2>2, <2>4, ThreadsGoOn
  <2>6. ASSUME NEW s \in sent
        PROVE  /\ Notifying(s) => Notifying(s)'
               /\ Resetting(s) => Resetting(s)'
               /\ s # t.sub /\ Reading(s) => Reading(s)'
    <3>1. s \in Submissions /\ db.score[s] # 0
      BY <1>3 DEF MarkedInv, Threads
    <3> QED
      BY <1>1, <1>2, <2>3, <2>4, <3>1, GoesOnCarries
  <2>7. \A s \in sent : Accounted(s) => Accounted(s)'
    BY <1>2, <1>3, <1>4, <2>6 DEF Accounted
  <2>8. Accounted(t.sub)'
    BY <2>3, <2>4 DEF Accounted, Notifying, Carries
  <2>9. ASSUME NEW s \in sent'
        PROVE  Marked(s)'
    <3>1. CASE s = t.sub
      <4>1. Accounted(s)' /\ (regen.pc # "idle" => s \in regen'.noted)
        BY <2>2, <2>8, <3>1
      <4> QED
        BY <2>2, <4>1 DEF Marked, ReadOrNoted
    <3>2. CASE s # t.sub
      <4>1. s \in sent /\ Marked(s) /\ (Accounted(s) => Accounted(s)')
        BY <2>2, <2>7, <2>9, <3>2 DEF MarkedInv
      <4>2. s \in regen.noted => s \in regen'.noted
        BY <2>2
      <4>3. Reading(s) => Reading(s)'
        BY <2>6, <3>2, <4>1
      <4> QED
        BY <1>2, <2>2, <4>1, <4>2, <4>3 DEF Marked, ReadOrNoted
    <3> QED
      BY <3>1, <3>2
  <2>10. CopyInv => CopyInv'
    BY <2>2, <2>7 DEF CopyInv, Copied
  <2> QED
    BY <2>5, <2>9, <2>10 DEF MarkedInv
<1> QED
  BY <1>5, <1>6

\* It is queued: it is the latest, or the latest is with another thread, or the
\* score is overtaken.
LEMMA ScoreQueuedMarked ==
  ASSUME IInv, TypeOK', MarkedInv, NEW t \in threads, QueueScore(t)
  PROVE  MarkedInv' /\ (CopyInv => CopyInv')
<1>1. TypeOK /\ ThreadStep(t)
  BY DEF IInv, ThreadStep
<1>2. /\ UNCHANGED <<db, notices, round, ranking, refused, sent, regen, lost>>
      /\ t.pc = "marked"
      /\ overtaken' = IF t.value = db.score[t.sub] THEN overtaken \ {t.sub}
                      ELSE IF IsComing(t.sub, threads') THEN overtaken
                      ELSE overtaken \cup {t.sub}
  BY DEF QueueScore
<1>3. PICK u : GoesOn(t, u)
  BY <1>1, StepGoesOn
<1>4. sent \subseteq Submissions /\ t.value # 0
  BY <1>1, <1>2 DEF TypeOK, SetsOK, MarkedInv, Threads, InHand
<1>5. Threads'
  BY <1>1, <1>2, <1>3, ThreadsGoOn
<1>6. ASSUME NEW s \in sent
      PROVE  /\ s # t.sub => (Notifying(s) => Notifying(s)') /\ (Resetting(s) => Resetting(s)')
             /\ Reading(s) => Reading(s)'
  <2>1. s \in Submissions /\ db.score[s] # 0
    BY <1>4 DEF MarkedInv, Threads
  <2> QED
    BY <1>1, <1>2, <1>3, <2>1, GoesOnCarries DEF Carries
<1>7. ASSUME NEW s \in sent, Accounted(s)
      PROVE  Accounted(s)'
  <2>1. LastWord(GroupOf[s], s)' = IF s = t.sub THEN t.value ELSE LastWord(GroupOf[s], s)
    BY <1>1, <1>4, ScoreWord
  <2>2. CASE s = t.sub
    <3>1. CASE t.value = db.score[s]
      BY <1>2, <2>1, <2>2, <3>1 DEF Accounted
    <3>2. CASE t.value # db.score[s]
      <4>1. s \in notices' \/ Notifying(s)' \/ s \in overtaken'
        BY <1>2, <2>2, <3>2 DEF IsComing, Notifying, Carries
      <4> QED
        BY <4>1 DEF Accounted
    <3> QED
      BY <3>1, <3>2
  <2>3. CASE s # t.sub
    <3>1. s \in overtaken => s \in overtaken'
      BY <1>2, <2>3
    <3> QED
      BY <1>2, <1>6, <1>7, <2>1, <2>3, <3>1 DEF Accounted
  <2> QED
    BY <2>2, <2>3
<1> QED
  BY <1>1, <1>2, <1>5, <1>6, <1>7, EvenMarked

\* Every step of a thread.
LEMMA ThreadStepMarked ==
  ASSUME IInv, TypeOK', MarkedInv, NEW t \in threads, ThreadStep(t)
  PROVE  MarkedInv' /\ (CopyInv => CopyInv')
  BY WorkMarked, ResetMarked, MarkMarked, ScoreQueuedMarked DEF ThreadStep

\* A regenerate copies what was sent, and starts to record.
LEMMA RegenBeginMarked ==
  ASSUME IInv, TypeOK', MarkedInv, NEW h \in Groups, RegenBegin(h)
  PROVE  MarkedInv' /\ CopyInv'
<1>1. TypeOK
  BY DEF IInv
<1>2. /\ UNCHANGED <<db, notices, queue, round, ranking, refused, sent, threads,
                     lost, overtaken>>
      /\ regen.pc = "idle"
      /\ regen' = [NoRegen EXCEPT !.pc = "build", !.group = h, !.before = sent]
  BY DEF RegenBegin, executor
<1>3. sent \subseteq Submissions
  BY <1>1 DEF TypeOK, SetsOK
<1>4. regen'.pc = "build" /\ regen'.before = sent
  BY <1>2 DEF NoRegen
<1>5. Threads'
  BY <1>2 DEF MarkedInv, Threads, InHand
<1>6. ASSUME NEW s \in sent
      PROVE  Accounted(s)'
  <2>1. s \in Submissions /\ Accounted(s)
    BY <1>2, <1>3 DEF MarkedInv, Marked
  <2>2. LastWord(GroupOf[s], s)' = LastWord(GroupOf[s], s)
    BY <1>1, <1>2, <2>1, QueuedWord
  <2> QED
    BY <1>2, <2>1, <2>2 DEF Accounted, Notifying, Resetting
<1>7. \A s \in sent : Marked(s)'
  BY <1>4, <1>6 DEF Marked
<1>8. CopyInv'
  BY <1>2, <1>4, <1>6 DEF CopyInv, Copied
<1> QED
  BY <1>2, <1>5, <1>7, <1>8 DEF MarkedInv

\* It reads the scores of its group, and marks them.
LEMMA RegenReadMarked ==
  ASSUME IInv, TypeOK', MarkedInv, RegenRead
  PROVE  MarkedInv' /\ (CopyInv => CopyInv')
<1> DEFINE h == regen.group
           S == {s \in Scored : GroupOf[s] = h}
           sc == [s \in Submissions |-> IF s \in S THEN db.score[s] ELSE 0]
           b == [reset |-> TRUE, settings |-> db.visibility[h], contest |-> TRUE,
                 score |-> sc, under |-> db.visibility[h]]
<1>1. TypeOK
  BY DEF IInv
<1>2. /\ UNCHANGED <<db, notices, queue, round, ranking, refused, threads,
                     lost, overtaken>>
      /\ regen.pc = "build" /\ sent' = sent \cup S
      /\ regen' = [regen EXCEPT !.pc = "read", !.read = b]
  BY DEF RegenRead, executor
<1>3. sent \subseteq Submissions /\ regen.before \subseteq Submissions
      /\ S \subseteq Submissions /\ \A s \in S : db.score[s] # 0 /\ GroupOf[s] = h
  BY <1>1 DEF TypeOK, SetsOK, ThreadsOK, Scored
<1>4. /\ regen'.pc = "read" /\ regen'.group = h /\ regen'.before = regen.before
      /\ regen'.read = b
  <2> HIDE DEF b
  <2> QED
    BY <1>1, <1>2 DEF TypeOK, ThreadsOK
<1>5. \A s \in S : regen'.read.score[s] = db.score[s]
  BY <1>3, <1>4
<1>6. \A s \in sent : GroupOf[s] = h => s \in S
  BY <1>3 DEF MarkedInv, Threads, Scored
<1> HIDE DEF S, sc, b, h
<1>7. Threads'
  BY <1>2, <1>3 DEF MarkedInv, Threads, InHand
<1>8. ASSUME NEW s \in Submissions, Accounted(s)
      PROVE  Accounted(s)'
  <2>1. LastWord(GroupOf[s], s)' = LastWord(GroupOf[s], s)
    BY <1>1, <1>2, QueuedWord
  <2> QED
    BY <1>2, <1>8, <2>1 DEF Accounted, Notifying, Resetting
<1>9. ASSUME NEW s \in sent'
      PROVE  Marked(s)'
  <2>1. CASE s \in S
    BY <1>2, <1>3, <1>4, <1>5, <2>1 DEF Marked, ReadOrNoted
  <2>2. CASE s \notin S
    <3>1. s \in sent /\ s \in Submissions /\ GroupOf[s] # h
      BY <1>2, <1>3, <1>6, <2>2
    <3>2. Accounted(s)
      BY <1>2, <3>1 DEF MarkedInv, Marked
    <3> QED
      BY <1>4, <1>8, <3>1, <3>2 DEF Marked
  <2> QED
    BY <2>1, <2>2
<1>10. CopyInv => CopyInv'
  BY <1>2, <1>3, <1>4, <1>8 DEF CopyInv, Copied
<1> QED
  BY <1>7, <1>9, <1>10 DEF MarkedInv

\* It queues what it read.
LEMMA RegenQueueMarked ==
  ASSUME IInv, TypeOK', MarkedInv, RegenQueue
  PROVE  MarkedInv' /\ CopyInv'
<1>1. TypeOK
  BY DEF IInv
<1>2. /\ UNCHANGED <<db, notices, round, ranking, refused, sent, threads, overtaken>>
      /\ regen.pc = "read" /\ lost' = lost \ {regen.group}
      /\ regen' = [regen EXCEPT !.pc = "queued", !.read = Nothing]
  BY DEF RegenQueue
<1>3. /\ sent \subseteq Submissions
      /\ regen'.pc = "queued" /\ regen'.noted = regen.noted
  BY <1>1, <1>2 DEF TypeOK, SetsOK, ThreadsOK
<1>4. Threads'
  BY <1>2 DEF MarkedInv, Threads, InHand
<1>5. ASSUME NEW s \in sent
      PROVE  Marked(s)'
  <2>1. s \in Submissions /\ Marked(s)
    BY <1>3 DEF MarkedInv
  <2>2. LastWord(GroupOf[s], s)' = IF GroupOf[s] = regen.group THEN regen.read.score[s]
                                   ELSE LastWord(GroupOf[s], s)
    BY <2>1, RegenWord
  <2>3. CASE GroupOf[s] = regen.group
    <3>1. ReadOrNoted(s)
      BY <1>2, <2>1, <2>3 DEF Marked
    <3> QED
      BY <1>2, <1>3, <2>2, <2>3, <3>1 DEF Marked, Accounted, Notifying, Carries, Resetting, ReadOrNoted, Reading
  <2>4. CASE GroupOf[s] # regen.group
    <3>1. Accounted(s)
      BY <1>2, <2>1, <2>4 DEF Marked
    <3>2. GroupOf[s] \in lost => GroupOf[s] \in lost'
      BY <1>2, <2>4
    <3> QED
      BY <1>2, <1>3, <2>2, <2>4, <3>1, <3>2 DEF Marked, Accounted, Notifying, Resetting
  <2> QED
    BY <2>3, <2>4
<1>6. CopyInv'
  BY <1>3 DEF CopyInv
<1> QED
  BY <1>2, <1>4, <1>5, <1>6 DEF MarkedInv

\* It ends: what others marked meanwhile no longer counts as sent.
LEMMA RegenEndMarked ==
  ASSUME IInv, TypeOK', MarkedInv, RegenEnd \/ (RegenFail /\ CopyInv)
  PROVE  MarkedInv' /\ CopyInv'
<1>1. TypeOK
  BY DEF IInv
<1>2. /\ UNCHANGED <<db, notices, queue, round, ranking, refused, threads,
                     lost, overtaken>>
      /\ regen' = NoRegen /\ sent' \subseteq sent
      /\ \/ regen.pc = "queued" /\ sent' = sent \ regen.noted
         \/ regen.pc \in {"build", "read"} /\ sent' = sent \cap regen.before /\ CopyInv
  BY DEF RegenEnd, RegenFail, executor
<1>3. sent \subseteq Submissions /\ regen'.pc = "idle"
  BY <1>1, <1>2 DEF TypeOK, SetsOK, NoRegen
<1>4. Threads'
  BY <1>2 DEF MarkedInv, Threads, InHand
<1>5. ASSUME NEW s \in sent'
      PROVE  Marked(s)'
  <2>1. s \in Submissions /\ s \in sent /\ Marked(s)
    BY <1>2, <1>3 DEF MarkedInv
  <2>2. Accounted(s)
    BY <1>2, <2>1 DEF Marked, CopyInv, Copied
  <2>3. LastWord(GroupOf[s], s)' = LastWord(GroupOf[s], s)
    BY <1>1, <1>2, <2>1, QueuedWord
  <2>4. Accounted(s)'
    BY <1>2, <2>2, <2>3 DEF Accounted, Notifying, Resetting
  <2> QED
    BY <1>3, <2>4 DEF Marked
<1>6. CopyInv'
  BY <1>3 DEF CopyInv
<1> QED
  BY <1>4, <1>5, <1>6 DEF MarkedInv

\* The service starts, with nothing marked.
LEMMA FreshMarked ==
  /\ sent = {} /\ notices = {} /\ threads = {} /\ regen = NoRegen => MarkedInv /\ CopyInv
  /\ sent' = {} /\ notices' = {} /\ threads' = {} /\ regen' = NoRegen => MarkedInv' /\ CopyInv'
  BY DEF MarkedInv, CopyInv, Threads, NoRegen

\* Every step but a regenerate that fails.
LEMMA StepMarked ==
  MayLose \subseteq {1} /\ IInv /\ IInv' /\ MarkedInv /\ [Next]_vars
    => /\ ~RegenFail => MarkedInv'
       /\ CopyInv /\ ~RefusedDuringBuild => MarkedInv' /\ CopyInv'
<1> SUFFICES ASSUME MayLose \subseteq {1}, IInv, IInv', MarkedInv, [Next]_vars
             PROVE  /\ ~RegenFail => MarkedInv'
                    /\ CopyInv /\ ~RefusedDuringBuild => MarkedInv' /\ CopyInv'
  OBVIOUS
<1>1. TypeOK /\ TypeOK'
  BY DEF IInv
<1>2. CASE RegenFail
  BY <1>1, <1>2, RegenEndMarked
<1>3. CASE EndRound
  BY <1>1, <1>3, EndMarked
<1>4. CASE TakeBatch \/ (\E g \in Groups : Due(g)) \/ UNCHANGED vars
  BY <1>1, <1>4, StartMarked
<1>5. CASE \E g \in Groups : SendReset(g) \/ SendVisibility(g) \/ DropData(g)
                             \/ SendContest(g) \/ SendScores(g)
  BY <1>1, <1>5, RequestMarked
<1>6. CASE \E s \in Submissions : Score(s)
  BY <1>1, <1>6, ScoreMarked
<1>7. CASE \E t \in threads : ThreadStep(t) \/ ThreadFail(t)
  BY <1>1, <1>7, ThreadStepMarked, FailMarked
<1>8. CASE \/ SweepBegin \/ \E s \in Submissions : NotifyRead(s)
           \/ \E g \in Groups, kind \in Calls : ReinitBegin(g, kind)
  BY <1>1, <1>8, ReadMarked, SweepMarked, ReinitMarked
<1>9. CASE (\E g \in Groups : RegenBegin(g)) \/ RegenRead \/ RegenQueue \/ RegenEnd
  BY <1>1, <1>9, RegenBeginMarked, RegenReadMarked, RegenQueueMarked, RegenEndMarked
<1>10. CASE Restart
  <2>1. sent' = {} /\ notices' = {} /\ threads' = {} /\ regen' = NoRegen
    BY <1>10 DEF Restart
  <2> QED
    BY <2>1, FreshMarked
<1> QED
  BY <1>2, <1>3, <1>4, <1>5, <1>6, <1>7, <1>8, <1>9, <1>10
     DEF Next, Notify, Sweep, Reinit, Regenerate, Execute

\* It holds at first.
LEMMA InitMarked == Init => MarkedInv /\ CopyInv
  BY FreshMarked DEF Init

\* The sweeper may skip what is marked.
LEMMA MarkedIsOnItsWay == IInv /\ MarkedInv => SentIsOnItsWay
<1> SUFFICES ASSUME IInv, MarkedInv, NEW s \in sent
             PROVE  \/ LastWord(GroupOf[s], s) = db.score[s]
                    \/ IsExpected(GroupOf[s], s)
                    \/ GroupOf[s] \in lost \/ s \in overtaken
  BY DEF SentIsOnItsWay
<1>1. Marked(s) /\ db.score[s] # 0
  BY DEF MarkedInv, Threads
<1> QED
  BY <1>1 DEF Marked, Accounted, ReadOrNoted, Notifying, Carries, Reading, Resetting, IsExpected

\* What is marked stays accounted for, unless a submission is refused during the
\* build of a regenerate and a regenerate fails.
LEMMA MarkedAlways ==
  ASSUME MayLose \subseteq {1}
  PROVE  Spec /\ ([][~RegenFail]_vars \/ [][~RefusedDuringBuild]_vars) => []MarkedInv
<1>1. MarkedInv /\ IInv /\ IInv' /\ [Next]_vars /\ [~RegenFail]_vars => MarkedInv'
  BY StepMarked, StartMarked DEF IInv
<1>2. MarkedInv /\ CopyInv /\ IInv /\ IInv' /\ [Next]_vars /\ [~RefusedDuringBuild]_vars
        => MarkedInv' /\ CopyInv'
  BY StepMarked, StartMarked DEF IInv
<1>3. Spec /\ [][~RegenFail]_vars => []MarkedInv
  BY <1>1, InitMarked, Invariance, PTL DEF Spec
<1>4. Spec /\ [][~RefusedDuringBuild]_vars => [](MarkedInv /\ CopyInv)
  BY <1>2, InitMarked, Invariance, PTL DEF Spec
<1> QED
  BY <1>3, <1>4, PTL

(***************************************************************************)
(* The latest score of a submission that is marked as sent is in the       *)
(* ranking or on its way there, or a thread is about to send it or to take *)
(* the mark off, so that the sweeper may skip it: whatever the number of   *)
(* groups, submissions, calls, faults and restarts.  Two things must not   *)
(* happen.  The notification of a score that is not the first of its       *)
(* submission is lost: MayLose.  And a submission is refused while the     *)
(* build of a regenerate is under way that fails later: either of the two  *)
(* alone does no harm.                                                     *)
(***************************************************************************)
THEOREM SentStaysOnItsWay ==
  ASSUME MayLose \subseteq {1}
  PROVE  Spec /\ ([][~RegenFail]_vars \/ [][~RefusedDuringBuild]_vars)
           => []SentIsOnItsWay
<1>1. Spec /\ ([][~RegenFail]_vars \/ [][~RefusedDuringBuild]_vars) => []MarkedInv
  BY MarkedAlways
<1> QED
  BY <1>1, MarkedIsOnItsWay, Invariance, PTL
-----------------------------------------------------------------------------
(* Nothing is ahead of the database *)

\* No score of s is newer than the one of the database, nor are the settings of g.
ScoresBehind(s) ==
    LET g == GroupOf[s]
    IN /\ queue[g].score[s] <= db.score[s]
       /\ round[g].score[s] <= db.score[s]
       /\ ranking[g].score[s] <= db.score[s]
       /\ regen.read.score[s] <= db.score[s]
       /\ \A t \in threads : t.sub = s => t.value <= db.score[s]

SettingsBehind(g) == ranking[g].visibility <= db.visibility[g]

BehindInv ==
    /\ \A s \in Submissions : ScoresBehind(s)
    /\ \A g \in Groups : SettingsBehind(g)

\* Where a step takes a score of s from.
Sources(s) ==
    LET g == GroupOf[s]
    IN {0, db.score[s], queue[g].score[s], round[g].score[s], ranking[g].score[s],
        regen.read.score[s]}
       \cup {t.value : t \in {x \in threads : x.sub = s}}

FromSources(s) ==
    LET g == GroupOf[s]
    IN /\ queue'[g].score[s] \in Sources(s)
       /\ round'[g].score[s] \in Sources(s)
       /\ ranking'[g].score[s] \in Sources(s)
       /\ regen'.read.score[s] \in Sources(s)
       /\ \A t \in threads' : t.sub = s => t.value \in Sources(s)

\* A step that only moves data along leaves it behind the database.
LEMMA SourcesBehind ==
  ASSUME TypeOK, NEW s \in Submissions, ScoresBehind(s), FromSources(s),
         db'.score[s] \in Nat, db.score[s] <= db'.score[s]
  PROVE  ScoresBehind(s)'
<1> DEFINE d == db.score[s]
<1>1. d \in Nat
  BY DEF TypeOK, DbOK
<1>2. \A x \in Sources(s) : x \in Nat /\ x <= d
  <2> DEFINE g == GroupOf[s]
  <2>1. g \in Groups
    BY ProxyAssumption
  <2>2. queue[g] \in Batch /\ round[g] \in Batch /\ ranking[g] \in Held
    BY <2>1, Numbers
  <2>3. regen.read \in Batch /\ \A t \in threads : t.value \in Nat
    BY DEF TypeOK, ThreadsOK, ThreadOK, ThreadRecords
  <2>4. /\ queue[g].score[s] \in Nat /\ round[g].score[s] \in Nat
        /\ ranking[g].score[s] \in Nat /\ regen.read.score[s] \in Nat
    BY <2>2, <2>3 DEF Batch, Held
  <2> QED
    BY <1>1, <2>3, <2>4 DEF Sources, ScoresBehind
<1>3. \A x \in Sources(s) : x <= db'.score[s]
  BY <1>1, <1>2
<1> QED
  BY <1>3 DEF FromSources, ScoresBehind

\* A request takes from the round.
LEMMA RequestSources ==
  ASSUME TypeOK, TypeOK', NEW g \in Groups, NEW s \in Submissions,
         SendReset(g) \/ SendVisibility(g) \/ DropData(g) \/ SendContest(g) \/ SendScores(g)
  PROVE  FromSources(s) /\ db' = db
<1>1. UNCHANGED <<db, queue, threads, regen>>
  <2>1. CASE SendReset(g)
    BY <2>1 DEF SendReset
  <2>2. CASE SendVisibility(g)
    BY <2>2 DEF SendVisibility
  <2>3. CASE DropData(g)
    BY <2>3 DEF DropData
  <2>4. CASE SendContest(g)
    BY <2>4 DEF SendContest
  <2>5. CASE SendScores(g)
    BY <2>5 DEF SendScores
  <2> QED
    BY <2>1, <2>2, <2>3, <2>4, <2>5
<1>2. Moves(s)
  BY RequestsWord
<1> QED
  BY <1>1, <1>2 DEF Moves, FromSources, Sources

\* The ends of a round move the queue to the round, and what is left back.
LEMMA RoundSources ==
  ASSUME IInv, NEW s \in Submissions, TakeBatch \/ EndRound
  PROVE  FromSources(s) /\ db' = db
<1> DEFINE g == GroupOf[s]
<1>1. g \in Groups /\ TypeOK
  BY ProxyAssumption DEF IInv
<1>2. Nothing.score[s] = 0
  BY DEF Nothing
<1>3. UNCHANGED <<db, ranking, threads, regen>>
  BY DEF TakeBatch, EndRound
<1>4. CASE TakeBatch
  <2>1. \/ round'[g] = queue[g] /\ queue'[g] = Nothing
        \/ round'[g] = Nothing /\ queue'[g] = queue[g]
    BY <1>1, <1>4 DEF TakeBatch
  <2> QED
    BY <1>2, <1>3, <2>1 DEF FromSources, Sources
<1>5. CASE EndRound
  <2> DEFINE b == Combined(round[g], queue[g])
  <2>1. round'[g] = Nothing /\ queue'[g] \in {b, queue[g]}
    BY <1>1, <1>5 DEF EndRound, EmptyQueue
  <2>2. b.score[s] = IF queue[g].score[s] # 0 THEN queue[g].score[s]
                     ELSE IF queue[g].reset THEN 0 ELSE round[g].score[s]
    BY <1>1, Numbers, CombinedScore
  <2> HIDE DEF b
  <2> QED
    BY <1>2, <1>3, <2>1, <2>2 DEF FromSources, Sources
<1> QED
  BY <1>4, <1>5

\* The steps that change neither the queue nor the round read the database.
LEMMA QuietSources ==
  ASSUME IInv, Quiet, NEW s \in Submissions
  PROVE  FromSources(s) /\ db.score[s] <= db'.score[s]
<1>1. TypeOK /\ TypeOK'
  BY QuietTypes DEF IInv
<1>2. UNCHANGED <<queue, round, ranking>> /\ s # NoOne
  BY <1>1, QuietTypes, ProxyAssumption
<1>3. db.score[s] \in Nat /\ db.score \in [Submissions -> Nat]
  BY <1>1 DEF TypeOK, DbOK
<1>4. db.score[s] <= db'.score[s]
  <2>1. CASE \E x \in Submissions : Score(x)
    <3>1. PICK x \in Submissions : db' = [db EXCEPT !.score[x] = db.score[x] + 1]
      BY <2>1 DEF Score
    <3>2. db'.score = [db.score EXCEPT ![x] = db.score[x] + 1]
      BY <1>1, <3>1 DEF TypeOK, DbOK
    <3>3. db.score[x] \in Nat
      BY <1>3
    <3> QED
      BY <1>3, <3>2, <3>3
  <2>2. CASE \E g \in Groups, kind \in Calls : ReinitBegin(g, kind)
    <3>1. PICK g \in Groups : db' = db \/ db' = [db EXCEPT !.visibility[g] = @ + 1]
      BY <2>2 DEF ReinitBegin
    <3>2. db'.score = db.score
      BY <1>1, <3>1 DEF TypeOK, DbOK
    <3> QED
      BY <1>3, <3>2
  <2>3. CASE db' = db
    BY <1>3, <2>3
  <2> QED
    BY <2>1, <2>2, <2>3 DEF Quiet, NotifyRead, Due, RegenBegin, ThreadFail, SweepBegin,
                            RegenRead, RegenEnd, RegenFail, vars
<1>5. \A t \in threads' : t.sub = s => t.value \in Sources(s)
  <2>1. CASE \E x \in Submissions : NotifyRead(x)
    <3>1. PICK x \in Submissions : NotifyRead(x)
      BY <2>1
    <3>2. PICK u : threads' = threads \cup {u} /\ u.sub = x /\ u.value = db.score[x]
      BY <1>1, <3>1, NotifyStarts
    <3> QED
      BY <3>2 DEF Sources
  <2>2. CASE SweepBegin
    <3>1. PICK u : threads' = threads \cup {u} /\ u.sub = NoOne
      BY <1>1, <2>2, SweepStarts
    <3> QED
      BY <1>2, <3>1 DEF Sources
  <2>3. CASE \E g \in Groups, kind \in Calls : ReinitBegin(g, kind)
    <3>1. PICK g \in Groups, kind \in Calls : ReinitBegin(g, kind)
      BY <2>3
    <3>2. PICK u : threads' = threads \cup {u} /\ u.sub = NoOne
      BY <1>1, <3>1, ReinitStarts DEF TypeOK
    <3> QED
      BY <1>2, <3>2 DEF Sources
  <2>4. CASE threads' \subseteq threads
    BY <2>4 DEF Sources
  <2> QED
    BY <2>1, <2>2, <2>3, <2>4
       DEF Quiet, Score, Due, ThreadFail, RegenBegin, RegenRead, RegenEnd, RegenFail, vars
<1>6. regen'.read.score[s] \in Sources(s)
  <2>1. CASE RegenRead
    <3> DEFINE sc == [x \in Submissions |-> IF x \in {y \in Scored : GroupOf[y] = regen.group}
                                            THEN db.score[x] ELSE 0]
               b == [reset |-> TRUE, settings |-> db.visibility[regen.group],
                     contest |-> TRUE, score |-> sc, under |-> db.visibility[regen.group]]
    <3>1. regen' = [regen EXCEPT !.pc = "read", !.read = b]
      BY <2>1 DEF RegenRead
    <3>2. b.score[s] \in {0, db.score[s]}
      OBVIOUS
    <3> HIDE DEF b
    <3>3. regen'.read = b
      BY <1>1, <3>1 DEF TypeOK, ThreadsOK
    <3> QED
      BY <3>2, <3>3 DEF Sources
  <2>2. CASE ~RegenRead
    <3>1. regen' = regen \/ regen'.read = Nothing
      <4>1. CASE \E g \in Groups : RegenBegin(g)
        BY <4>1 DEF RegenBegin, NoRegen
      <4>2. CASE RegenEnd \/ RegenFail
        BY <4>2 DEF RegenEnd, RegenFail, NoRegen
      <4>3. CASE SweepBegin \/ UNCHANGED vars
        BY <4>3 DEF SweepBegin, vars
      <4>4. CASE \E x \in Submissions : Score(x) \/ NotifyRead(x)
        BY <4>4 DEF Score, NotifyRead
      <4>5. CASE \E g \in Groups : Due(g)
        BY <4>5 DEF Due
      <4>6. CASE \E g \in Groups, kind \in Calls : ReinitBegin(g, kind)
        BY <4>6 DEF ReinitBegin
      <4>7. CASE \E t \in threads : ThreadFail(t)
        BY <4>7 DEF ThreadFail
      <4> QED
        BY <2>2, <4>1, <4>2, <4>3, <4>4, <4>5, <4>6, <4>7 DEF Quiet
    <3>2. Nothing.score[s] = 0
      BY DEF Nothing
    <3> QED
      BY <3>1, <3>2 DEF Sources
  <2> QED
    BY <2>1, <2>2
<1> QED
  BY <1>2, <1>4, <1>5, <1>6 DEF FromSources, Sources

\* A thread has what it or another had, or what is in the database.
LEMMA StepReads ==
  ASSUME TypeOK, NEW t \in threads, ThreadStep(t), NEW s \in Submissions
  PROVE  \A x \in threads' : x.sub = s => x.value \in Sources(s)
<1>1. PICK u : GoesOn(t, u)
  BY StepGoesOn
<1>2. threads' = (threads \ {t}) \cup (IF IsOver(u) THEN {} ELSE {u})
  BY <1>1 DEF GoesOn, Becomes
<1>3. ASSUME ~IsOver(u), u.sub = s
      PROVE  u.value \in Sources(s)
  <2>1. u.pc \in {"read", "marked"}
    BY <1>1, <1>3 DEF GoesOn, ThreadOK
  <2>2. (u.sub = t.sub /\ u.value = t.value) \/ u.value = db.score[u.sub]
    BY <1>1, <2>1 DEF GoesOn
  <2> QED
    BY <1>3, <2>2 DEF Sources
<1>4. \A x \in threads : x.sub = s => x.value \in Sources(s)
  BY DEF Sources
<1> QED
  BY <1>2, <1>3, <1>4

\* A thread queues what it read.
LEMMA ThreadSources ==
  ASSUME IInv, NEW t \in threads, ThreadStep(t), NEW s \in Submissions
  PROVE  FromSources(s) /\ db' = db
<1> DEFINE g == GroupOf[s]
<1>1. TypeOK
  BY DEF IInv
<1>2. UNCHANGED <<round, ranking, db>>
  BY DEF ThreadStep, QueueReset, ReadSettings, QueueSettings, QueueContest, ReadScore,
         MarkScore, QueueScore, executor
<1>3. \A x \in threads' : x.sub = s => x.value \in Sources(s)
  BY <1>1, StepReads
<1>4. regen'.read.score[s] \in Sources(s)
  <2>1. regen'.read = regen.read
    BY <1>1 DEF ThreadStep, QueueReset, ReadSettings, QueueSettings, QueueContest, ReadScore,
                MarkScore, QueueScore, Mark, TypeOK, ThreadsOK
  <2> QED
    BY <2>1 DEF Sources
<1>5. queue'[g].score[s] \in Sources(s)
  <2>1. CASE QueueReset(t)
    <3>1. queue'[g].score[s] \in {0, queue[g].score[s]}
      BY <1>1, <2>1, ResetScore
    <3> QED
      BY <3>1 DEF Sources
  <2>2. CASE \E k \in Groups : QueueSettings(t, k) \/ QueueContest(t, k)
    <3>1. queue'[g].score[s] = queue[g].score[s]
      BY <1>1, <2>2, SettingsScore
    <3> QED
      BY <3>1 DEF Sources
  <2>3. CASE QueueScore(t)
    <3>1. queue'[g].score[s] = IF s = t.sub /\ t.value # 0 THEN t.value
                               ELSE queue[g].score[s]
      BY <1>1, <2>3, ScoreScore
    <3> QED
      BY <3>1 DEF Sources
  <2>4. CASE queue' = queue
    BY <2>4 DEF Sources
  <2> QED
    BY <2>1, <2>2, <2>3, <2>4 DEF ThreadStep, ReadSettings, ReadScore, MarkScore, executor
<1> QED
  BY <1>2, <1>3, <1>4, <1>5 DEF FromSources, Sources

\* Regenerate queues what it read.
LEMMA RegenSources ==
  ASSUME IInv, RegenQueue, NEW s \in Submissions
  PROVE  FromSources(s) /\ db' = db
<1> DEFINE g == GroupOf[s]
<1>1. UNCHANGED <<round, ranking, db, threads>>
  BY DEF RegenQueue
<1>2. regen'.read = Nothing /\ Nothing.score[s] = 0
  BY DEF RegenQueue, Nothing, IInv, TypeOK, ThreadsOK
<1>3. queue'[g].score[s] \in {regen.read.score[s], queue[g].score[s]}
  BY RegenScore
<1> QED
  BY <1>1, <1>2, <1>3 DEF FromSources, Sources

\* The initial data has no scores.
LEMMA InitialScores ==
  ASSUME DbOK, NEW s \in Submissions, NEW g \in Groups
  PROVE  WithInitialData(EmptyQueue)[g].score[s] = 0 /\ EmptyQueue[g].score[s] = 0
<1> DEFINE v == db.visibility[g]
           b == Combined(Nothing, Visibility(v))
<1>1. EmptyQueue[g] = Nothing /\ Nothing \in Batch /\ Nothing.score[s] = 0 /\ v \in Nat
  BY EmptyQueueFacts, NothingFacts DEF EmptyQueue, Nothing, DbOK
<1>2. WithInitialData(EmptyQueue)[g] = Combined(b, ContestData(v))
  BY <1>1 DEF WithInitialData
<1> HIDE DEF v
<1>3. /\ Visibility(v) \in Batch /\ ~Visibility(v).reset /\ Visibility(v).score[s] = 0
      /\ ContestData(v) \in Batch /\ ~ContestData(v).reset /\ ContestData(v).score[s] = 0
  BY <1>1 DEF Visibility, ContestData, Nothing, Batch
<1>4. b \in Batch /\ b.score[s] = 0
  BY <1>1, <1>3, BehindScore
<1> HIDE DEF b
<1>5. Combined(b, ContestData(v)).score[s] = 0
  BY <1>3, <1>4, BehindScore
<1> QED
  BY <1>1, <1>2, <1>5

\* A restart queues the initial data.
LEMMA RestartSources ==
  ASSUME IInv, Restart, NEW s \in Submissions
  PROVE  FromSources(s) /\ db' = db
<1>1. DbOK /\ GroupOf[s] \in Groups
  BY ProxyAssumption DEF IInv, TypeOK
<1>2. /\ queue' = WithInitialData(EmptyQueue) /\ round' = EmptyQueue
      /\ ranking' = ranking /\ db' = db /\ threads' = {} /\ regen' = NoRegen
  BY DEF Restart
<1>3. regen'.read = Nothing /\ Nothing.score[s] = 0
  BY <1>2 DEF NoRegen, Nothing
<1>4. queue'[GroupOf[s]].score[s] = 0 /\ round'[GroupOf[s]].score[s] = 0
  BY <1>1, <1>2, InitialScores
<1> QED
  BY <1>2, <1>3, <1>4 DEF FromSources, Sources

\* The ranking takes settings from the round only.
LEMMA RequestSettings ==
  ASSUME TypeOK, NEW h \in Groups, NEW g \in Groups,
         SendReset(h) \/ SendVisibility(h) \/ DropData(h) \/ SendContest(h) \/ SendScores(h)
  PROVE  ranking'[g].visibility \in {ranking[g].visibility, round[g].settings}
<1>1. ranking \in [Groups -> Held] /\ round[h].settings \in Nat
  BY Numbers DEF TypeOK, RankingOK
<1>2. CASE SendVisibility(h)
  <2> DEFINE taken == [ranking EXCEPT ![h].visibility = round[h].settings]
  <2>1. taken[h].visibility = round[h].settings /\ \A k \in Groups \ {h} : taken[k] = ranking[k]
    BY <1>1, VisibilityTaken
  <2>2. ranking' \in {ranking, taken}
    BY <1>2 DEF SendVisibility
  <2> HIDE DEF taken
  <2> QED
    BY <2>1, <2>2
<1>3. CASE SendReset(h)
  <2> DEFINE emptied == Emptied(h)
  <2>1. emptied[h].visibility = ranking[h].visibility
        /\ \A k \in Groups \ {h} : emptied[k] = ranking[k]
    BY <1>1, NamespaceEmptied DEF Emptied
  <2>2. ranking' \in {ranking, emptied}
    BY <1>3 DEF SendReset
  <2> HIDE DEF emptied
  <2> QED
    BY <2>1, <2>2
<1>4. CASE DropData(h)
  BY <1>4 DEF DropData
<1>5. CASE SendContest(h)
  <2> DEFINE taken == [ranking EXCEPT ![h].contest = TRUE]
  <2>1. taken[h].visibility = ranking[h].visibility
        /\ \A k \in Groups \ {h} : taken[k] = ranking[k]
    BY <1>1, ContestTaken
  <2>2. ranking' \in {ranking, taken}
    BY <1>5 DEF SendContest
  <2> HIDE DEF taken
  <2> QED
    BY <2>1, <2>2
<1>6. CASE SendScores(h)
  <2>1. \E S : ranking' = [ranking EXCEPT ![h].score =
                             [s \in Submissions |-> IF s \in S THEN round[h].score[s]
                                                    ELSE ranking[h].score[s]]]
    BY <1>6 DEF SendScores
  <2>2. PICK sc : ranking' = [ranking EXCEPT ![h].score = sc]
    BY <2>1
  <2>3. ranking'[g].visibility = ranking[g].visibility
    BY <1>1, <2>2 DEF Held
  <2> QED
    BY <2>3
<1> QED
  BY <1>2, <1>3, <1>4, <1>5, <1>6

\* Every step.
LEMMA StepBehind == IInv /\ IInv' /\ BehindInv /\ [Next]_vars => BehindInv'
<1> SUFFICES ASSUME IInv, IInv', BehindInv, [Next]_vars
             PROVE  BehindInv'
  OBVIOUS
<1>1. TypeOK /\ TypeOK'
  BY DEF IInv
<1> DEFINE Request(h) == SendReset(h) \/ SendVisibility(h) \/ DropData(h)
                         \/ SendContest(h) \/ SendScores(h)
<1>2. \/ Quiet \/ (\E t \in threads : ThreadStep(t)) \/ RegenQueue \/ TakeBatch \/ EndRound
      \/ Restart \/ \E h \in Groups : Request(h)
  BY Steps DEF Execute
<1>3. ASSUME NEW s \in Submissions
      PROVE  ScoresBehind(s)'
  <2>1. db.score[s] \in Nat /\ db'.score[s] \in Nat /\ ScoresBehind(s)
    BY <1>1 DEF TypeOK, DbOK, BehindInv
  <2>2. FromSources(s) /\ db.score[s] <= db'.score[s]
    <3>1. CASE Quiet
      BY <3>1, QuietSources
    <3>2. CASE (\E t \in threads : ThreadStep(t)) \/ RegenQueue
      BY <2>1, <3>2, ThreadSources, RegenSources
    <3>3. CASE TakeBatch \/ EndRound
      BY <2>1, <3>3, RoundSources
    <3>4. CASE Restart
      BY <2>1, <3>4, RestartSources
    <3>5. CASE \E h \in Groups : Request(h)
      BY <1>1, <2>1, <3>5, RequestSources
    <3> HIDE DEF Request
    <3> QED
      BY <1>2, <3>1, <3>2, <3>3, <3>4, <3>5
  <2> QED
    BY <1>1, <2>1, <2>2, SourcesBehind
<1>4. ASSUME NEW g \in Groups
      PROVE  SettingsBehind(g)'
  <2>1. /\ db.visibility[g] \in Nat /\ db'.visibility[g] \in Nat
        /\ ranking[g].visibility \in Nat /\ round[g].settings \in Nat
    BY <1>1, Numbers, NumbersAfter
  <2>2. ranking[g].visibility <= db.visibility[g] /\ round[g].settings <= db.visibility[g]
    BY DEF BehindInv, SettingsBehind, IInv, NotAhead
  <2>3. /\ db.visibility[g] <= db'.visibility[g]
        /\ ranking'[g].visibility \in {ranking[g].visibility, round[g].settings}
    <3>1. CASE Quiet
      BY <1>1, <2>1, <3>1, QuietTypes
    <3>2. CASE (\E t \in threads : ThreadStep(t)) \/ RegenQueue
      <4>1. queue' \in [Groups -> Batch] /\ asked' \in [Groups -> Nat]
        BY <1>1 DEF TypeOK, BatchesOK, AskedOK
      <4> QED
        BY <1>1, <2>1, <3>2, <4>1, ThreadStepTypes, RegenQueueTypes
    <3>3. CASE TakeBatch \/ EndRound \/ Restart
      BY <2>1, <3>3 DEF TakeBatch, EndRound, Restart
    <3>4. CASE \E h \in Groups : Request(h)
      <4>1. db' = db
        BY <3>4 DEF SendReset, SendVisibility, DropData, SendContest, SendScores
      <4>2. ranking'[g].visibility \in {ranking[g].visibility, round[g].settings}
        BY <1>1, <3>4, RequestSettings
      <4> QED
        BY <2>1, <4>1, <4>2
    <3> HIDE DEF Request
    <3> QED
      BY <1>2, <3>1, <3>2, <3>3, <3>4
  <2> QED
    BY <2>1, <2>2, <2>3 DEF SettingsBehind
<1> QED
  BY <1>3, <1>4 DEF BehindInv

\* It holds at first.
LEMMA InitBehind == Init => BehindInv
<1> SUFFICES ASSUME Init
             PROVE  BehindInv
  OBVIOUS
<1>1. DbOK
  BY InitHolds DEF IInv, TypeOK
<1>2. /\ queue = WithInitialData(EmptyQueue) /\ round = EmptyQueue
      /\ ranking = [g \in Groups |-> Empty] /\ threads = {} /\ regen = NoRegen
      /\ \A s \in Submissions : db.score[s] = 0
      /\ \A g \in Groups : db.visibility[g] = 1
  BY DEF Init
<1>3. ASSUME NEW s \in Submissions
      PROVE  ScoresBehind(s)
  <2>1. GroupOf[s] \in Groups
    BY ProxyAssumption
  <2>2. queue[GroupOf[s]].score[s] = 0 /\ round[GroupOf[s]].score[s] = 0
    BY <1>1, <1>2, <2>1, InitialScores
  <2>3. ranking[GroupOf[s]].score[s] = 0 /\ regen.read.score[s] = 0
    BY <1>2, <2>1 DEF Empty, NoRegen, Nothing
  <2> QED
    BY <1>2, <2>2, <2>3 DEF ScoresBehind
<1>4. ASSUME NEW g \in Groups
      PROVE  SettingsBehind(g)
  <2>1. ranking[g].visibility = 0
    BY <1>2 DEF Empty
  <2> QED
    BY <1>2, <2>1 DEF SettingsBehind
<1> QED
  BY <1>3, <1>4 DEF BehindInv
-----------------------------------------------------------------------------
(* At rest *)

\* Nothing is left to do for g: nothing is queued or in the round, no thread is
\* at work and none is called, no refusal is pending, and the sweeper would find
\* neither a missing score nor new settings.
AtRest(g) ==
    /\ ~queue[g].reset /\ queue[g].settings = 0 /\ ~HasData(queue[g])
    /\ ~round[g].reset /\ round[g].settings = 0 /\ ~HasData(round[g])
    /\ threads = {} /\ regen.pc = "idle"
    /\ notices = {} /\ refused = {}
    /\ Scored \subseteq sent /\ asked[g] = db.visibility[g]
    /\ g \notin rejected

RestsInStep == \A g \in Groups : AtRest(g) => InStep(g)

\* What was sent has arrived once nothing is left to do.
LEMMA MarkedRestsInStep == IInv /\ MarkedInv /\ BehindInv => RestsInStep
<1> SUFFICES ASSUME IInv, MarkedInv, BehindInv, NEW g \in Groups, AtRest(g)
             PROVE  InStep(g)
  BY DEF RestsInStep
<1>1. TypeOK /\ NoOne \notin Submissions
  BY ProxyAssumption DEF IInv
<1>2. ranking[g].visibility = db.visibility[g]
  <2>1. ranking[g].visibility \in Nat /\ db.visibility[g] \in Nat
    BY <1>1, Numbers
  <2>2. ranking[g].visibility <= db.visibility[g]
    BY DEF BehindInv, SettingsBehind
  <2>3. InForceAfterQueue(g, asked[g])
    BY DEF IInv, Ordered
  <2>4. db.visibility[g] <= ranking[g].visibility
    BY <2>3 DEF AtRest, InForceAfterQueue, InForceAfterRound
  <2> QED
    BY <2>1, <2>2, <2>4
<1>3. ASSUME NEW s \in Submissions, GroupOf[s] = g
      PROVE  ranking[g].score[s] = db.score[s] \/ g \in lost \/ s \in overtaken
  <2>1. ranking[g].score[s] \in Nat /\ db.score[s] \in Nat
    <3>1. ranking[g] \in Held
      BY <1>1, Numbers
    <3> QED
      BY <1>1, <3>1 DEF Held, TypeOK, DbOK
  <2>2. CASE db.score[s] = 0
    <3>1. ranking[g].score[s] <= db.score[s]
      BY <1>3 DEF BehindInv, ScoresBehind
    <3> QED
      BY <2>1, <2>2, <3>1
  <2>3. CASE db.score[s] # 0
    <3>1. s \in sent
      BY <2>3 DEF AtRest, Scored
    <3>2. Accounted(s)
      BY <3>1 DEF MarkedInv, Marked, AtRest
    <3>3. ~Notifying(s) /\ ~Resetting(s) /\ s \notin notices /\ <<g, s>> \notin refused
      BY DEF Notifying, Resetting, AtRest
    <3>4. LastWord(g, s) = db.score[s] \/ g \in lost \/ s \in overtaken
      BY <1>3, <3>2, <3>3 DEF Accounted
    <3>5. LastWord(g, s) = Word(round[g], queue[g], ranking[g].score[s], s)
      BY <1>1, LastWordIs DEF Words
    <3>6. /\ queue[g].score[s] = 0 /\ ~queue[g].reset
          /\ round[g].score[s] = 0 /\ ~round[g].reset
      BY DEF AtRest, HasData
    <3> QED
      BY <3>4, <3>5, <3>6 DEF Word
  <2> QED
    BY <2>2, <2>3
<1> QED
  BY <1>2, <1>3 DEF InStep

(***************************************************************************)
(* Neither the ranking nor anything on its way there, in the queue, in the *)
(* round or in the hands of a thread, is ahead of the database: no score   *)
(* and no settings of it are newer than the last ones committed, whatever  *)
(* is lost, refused, regenerated or restarted.  (Each of the two numbers   *)
(* its versions in the order of the commits.)                              *)
(***************************************************************************)
THEOREM NothingAheadOfDatabase == Spec => []BehindInv
  BY InitBehind, StepBehind, Invariance, PTL DEF Spec

(***************************************************************************)
(* The ranking is in step with the database whenever nothing is left to    *)
(* do: its settings are those of the database, and so are its scores, but  *)
(* for a group whose data was dropped and reported.  There is no state out *)
(* of step from which the retries of the executor, the threads and the     *)
(* sweeper have nothing to send: what RankingCatchesUp needs besides the   *)
(* fairness of the threads.  The hypotheses are those of                   *)
(* SentStaysOnItsWay.                                                      *)
(***************************************************************************)
THEOREM RankingRestsInStep ==
  ASSUME MayLose \subseteq {1}
  PROVE  Spec /\ ([][~RegenFail]_vars \/ [][~RefusedDuringBuild]_vars)
           => []RestsInStep
<1>1. Spec /\ ([][~RegenFail]_vars \/ [][~RefusedDuringBuild]_vars) => []MarkedInv
  BY MarkedAlways
<1> QED
  BY <1>1, MarkedRestsInStep, Invariance, NothingAheadOfDatabase, PTL
=============================================================================
