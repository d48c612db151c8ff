--------------------------- MODULE WatchdogProofs ---------------------------
(***************************************************************************)
(* What the watchdog may never do, proved for every number of programs,    *)
(* every budget, window and grace: the budgets hold of what really         *)
(* happened, there is one action in flight, no restart is decided too soon *)
(* after an outage, nothing is started that is not FATAL, and no process   *)
(* is terminated on the evidence against another.                          *)
(***************************************************************************)
EXTENDS Watchdog, FiniteSetTheorems, SequenceTheorems, TLAPS

(***************************************************************************)
(* Counting bookings.                                                      *)
(***************************************************************************)

\* There are finitely many bookings: a program, an action and an age each.
LEMMA BookingsFinite == IsFiniteSet(Bookings)
<1> DEFINE P == (Programs \X {"restart", "start"}) \X (0..(BudgetWindow - 1))
           f == [b \in Bookings |-> <<<<b.program, b.action>>, b.age>>]
<1>1. IsFiniteSet({"restart", "start"})
  <2>1. {"restart", "start"} = {"restart"} \cup {"start"}
    OBVIOUS
  <2>2. IsFiniteSet({"restart"}) /\ IsFiniteSet({"start"})
    BY FS_Singleton, Zenon
  <2>3. IsFiniteSet({"restart"} \cup {"start"})
    BY <2>2, FS_Union, Zenon
  <2> QED
    BY <2>1, <2>3
<1>2. IsFiniteSet(0..(BudgetWindow - 1))
  BY FS_Interval, LedgerAssumption, SMT
<1>3. IsFiniteSet(P)
  BY <1>1, <1>2, FS_Product, LedgerAssumption, Zenon
<1>4. f \in [Bookings -> P]
  BY DEF Bookings
<1>5. \A a, b \in Bookings : f[a] = f[b] => a = b
  BY DEF Bookings
<1>6. f \in Injection(Bookings, P)
  BY <1>4, <1>5 DEF Injection, IsInjective
<1> QED
  BY <1>3, <1>6, FS_Injection, Zenon

\* What Count counts is finite.
LEMMA CountedFinite ==
  ASSUME NEW S \in SUBSET Bookings, NEW ps, NEW a
  PROVE  /\ IsFiniteSet({b \in S : b.program \in ps /\ b.action = a})
         /\ Count(S, ps, a) \in Nat
<1>1. {b \in S : b.program \in ps /\ b.action = a} \subseteq Bookings
  OBVIOUS
<1>2. IsFiniteSet({b \in S : b.program \in ps /\ b.action = a})
  BY <1>1, BookingsFinite, FS_Subset, Zenon
<1> QED
  BY <1>2, FS_CardinalityType, Zenon DEF Count

\* Ledger.book: what adds at most one booking to those counted adds at most
\* one to the count.
LEMMA CountOneMore ==
  ASSUME NEW S \in SUBSET Bookings, NEW T \in SUBSET Bookings, NEW x, NEW ps, NEW a,
         \A b \in T : b.program \in ps /\ b.action = a => b \in S \/ b = x
  PROVE  Count(T, ps, a) <= Count(S, ps, a) + 1
<1> DEFINE C(U) == {b \in U : b.program \in ps /\ b.action = a}
<1>1. C(T) \subseteq C(S) \cup {x}
  OBVIOUS
<1>2. IsFiniteSet(C(S)) /\ IsFiniteSet(C(T))
  BY CountedFinite
<1>3. /\ IsFiniteSet(C(S) \cup {x})
      /\ \/ Cardinality(C(S) \cup {x}) = Cardinality(C(S))
         \/ Cardinality(C(S) \cup {x}) = Cardinality(C(S)) + 1
  <2>1. CASE x \in C(S)
    <3>1. C(S) \cup {x} = C(S)
      BY <2>1
    <3> QED
      BY <3>1, <1>2
  <2>2. CASE x \notin C(S)
    BY <2>2, <1>2, FS_AddElement, Zenon
  <2> QED
    BY <2>1, <2>2
<1>4. Cardinality(C(T)) <= Cardinality(C(S) \cup {x})
  BY <1>1, <1>3, FS_Subset, Zenon
<1>5. Cardinality(C(T)) \in Nat /\ Cardinality(C(S)) \in Nat
  BY <1>2, FS_CardinalityType, Zenon
<1>6. Cardinality(C(T)) <= Cardinality(C(S)) + 1
  <2> HIDE DEF C
  <2> QED BY <1>3, <1>4, <1>5, SMT
<1> QED
  BY <1>6, Zenon DEF Count

\* What adds no booking to those counted leaves the count.
LEMMA CountNoMore ==
  ASSUME NEW S \in SUBSET Bookings, NEW T \in SUBSET Bookings, NEW ps, NEW a,
         \A b \in T : b.program \in ps /\ b.action = a => b \in S
  PROVE  Count(T, ps, a) <= Count(S, ps, a)
<1> DEFINE C(U) == {b \in U : b.program \in ps /\ b.action = a}
<1>1. C(T) \in SUBSET C(S)
  OBVIOUS
<1>2. IsFiniteSet(C(S))
  BY CountedFinite
<1>3. Cardinality(C(T)) <= Cardinality(C(S))
  BY <1>1, <1>2, FS_Subset, Zenon
<1> QED
  BY <1>3 DEF Count

\* What a cycle's time makes of a booking.
LEMMA OlderBookingsType ==
  ASSUME NEW S \in SUBSET Bookings
  PROVE  /\ OlderBookings(S) \in SUBSET Bookings
         /\ \A b \in S : b.age + 1 < BudgetWindow =>
                [b EXCEPT !.age = @ + 1] \in OlderBookings(S)
         /\ \A c \in OlderBookings(S) : \E b \in S :
                /\ b.age + 1 < BudgetWindow
                /\ c = [b EXCEPT !.age = @ + 1]
BY LedgerAssumption DEF OlderBookings, Bookings

\* prune() and time never raise a count: each booking is what one was.
LEMMA CountOlder ==
  ASSUME NEW S \in SUBSET Bookings, NEW ps, NEW a
  PROVE  Count(OlderBookings(S), ps, a) <= Count(S, ps, a)
<1> DEFINE C(U) == {b \in U : b.program \in ps /\ b.action = a}
           younger(c) == [program |-> c.program, action |-> c.action, age |-> c.age - 1]
           f == [c \in C(OlderBookings(S)) |-> younger(c)]
<1>1. OlderBookings(S) \in SUBSET Bookings
  BY OlderBookingsType
<1>2. \A c \in C(OlderBookings(S)) : f[c] \in C(S)
  <2> SUFFICES ASSUME NEW c \in C(OlderBookings(S))
               PROVE  younger(c) \in C(S)
    OBVIOUS
  <2>0. c \in OlderBookings(S) /\ c.program \in ps /\ c.action = a
    OBVIOUS
  <2>1. PICK b \in S : c = [b EXCEPT !.age = @ + 1]
    BY <2>0, OlderBookingsType, Zenon
  <2>2. b \in Bookings
    OBVIOUS
  <2>4. b.program = c.program /\ b.action = c.action /\ c.age - 1 = b.age
    BY <2>1, <2>2, LedgerAssumption DEF Bookings
  <2>3. younger(c) = b
    BY <2>2, <2>4 DEF Bookings
  <2> QED
    BY <2>0, <2>3, <2>4
<1>3. \A c, d \in C(OlderBookings(S)) : f[c] = f[d] => c = d
  <2> SUFFICES ASSUME NEW c \in Bookings, NEW d \in Bookings, younger(c) = younger(d)
               PROVE  c = d
    BY <1>1
  <2>1. c.program = d.program /\ c.action = d.action /\ c.age - 1 = d.age - 1
    OBVIOUS
  <2>2. c.age \in Int /\ d.age \in Int
    BY LedgerAssumption DEF Bookings
  <2> QED
    BY <2>1, <2>2 DEF Bookings
<1>4. f \in Injection(C(OlderBookings(S)), C(S))
  BY <1>2, <1>3 DEF Injection, IsInjective
<1>5. IsFiniteSet(C(S))
  BY CountedFinite
<1> QED
  BY <1>4, <1>5, FS_Injection, Zenon DEF Count

(***************************************************************************)
(* The window of a program.                                                *)
(***************************************************************************)

\* A window is a short sequence of Booleans.
LEMMA WindowType ==
  ASSUME NEW w
  PROVE  w \in UNION {[1..n -> BOOLEAN] : n \in 0..WindowSize}
            <=> w \in Seq(BOOLEAN) /\ Len(w) <= WindowSize
<1>1. WindowSize \in Nat
  BY WatchdogAssumption
<1>2. ASSUME NEW n \in 0..WindowSize, w \in [1..n -> BOOLEAN]
      PROVE  w \in Seq(BOOLEAN) /\ Len(w) <= WindowSize
  BY <1>1, <1>2
<1>3. ASSUME w \in Seq(BOOLEAN), Len(w) <= WindowSize
      PROVE  Len(w) \in 0..WindowSize /\ w \in [1..Len(w) -> BOOLEAN]
  BY <1>1, <1>3
<1> QED
  BY <1>2, <1>3

\* The misses of a window are a number.
LEMMA MissesType ==
  ASSUME NEW w \in Seq(BOOLEAN)
  PROVE  /\ IsFiniteSet({i \in DOMAIN w : w[i]})
         /\ Misses(w) \in Nat
<1>1. DOMAIN w = 1..Len(w) /\ Len(w) \in Nat
  OBVIOUS
<1>2. IsFiniteSet(DOMAIN w)
  BY <1>1, FS_Interval, SMT
<1>3. {i \in DOMAIN w : w[i]} \in SUBSET DOMAIN w
  OBVIOUS
<1>4. IsFiniteSet({i \in DOMAIN w : w[i]})
  BY <1>2, <1>3, FS_Subset, Zenon
<1> QED
  BY <1>4, FS_CardinalityType, Zenon DEF Misses

\* A window that has been cleared has no misses.
LEMMA MissesEmpty == Misses(<<>>) = 0
<1>1. {i \in DOMAIN <<>> : <<>>[i]} = {}
  OBVIOUS
<1> QED
  BY <1>1, FS_EmptySet DEF Misses

\* A probe adds its own miss, and no other.
LEMMA MissesAppend ==
  ASSUME NEW w \in Seq(BOOLEAN), NEW b \in BOOLEAN
  PROVE  /\ Misses(Append(w, b)) <= Misses(w) + 1
         /\ ~b => Misses(Append(w, b)) <= Misses(w)
<1> DEFINE M(v) == {i \in DOMAIN v : v[i]}
           v == Append(w, b)
<1>1. v \in Seq(BOOLEAN) /\ Len(v) = Len(w) + 1
  OBVIOUS
<1>2. \A i \in 1..Len(w) : v[i] = w[i]
  OBVIOUS
<1>3. v[Len(w) + 1] = b
  OBVIOUS
<1>4. IsFiniteSet(M(w)) /\ IsFiniteSet(M(v)) /\ Misses(w) \in Nat /\ Misses(v) \in Nat
  BY <1>1, MissesType
<1>5. M(v) \in SUBSET (M(w) \cup {Len(w) + 1})
  BY <1>1, <1>2
<1>6. ~b => M(v) \in SUBSET M(w)
  BY <1>1, <1>2, <1>3
<1>7. /\ IsFiniteSet(M(w) \cup {Len(w) + 1})
      /\ \/ Cardinality(M(w) \cup {Len(w) + 1}) = Cardinality(M(w))
         \/ Cardinality(M(w) \cup {Len(w) + 1}) = Cardinality(M(w)) + 1
  <2>1. Len(w) + 1 \notin M(w)
    OBVIOUS
  <2> QED
    BY <2>1, <1>4, FS_AddElement, Zenon
<1>8. Cardinality(M(v)) <= Cardinality(M(w) \cup {Len(w) + 1})
  BY <1>5, <1>7, FS_Subset, Zenon
<1>9. ~b => Cardinality(M(v)) <= Cardinality(M(w))
  BY <1>6, <1>4, FS_Subset, Zenon
<1>10. Misses(w) = Cardinality(M(w)) /\ Misses(v) = Cardinality(M(v))
  BY DEF Misses
<1> HIDE DEF M, v
<1>11. Misses(v) <= Misses(w) + 1 /\ (~b => Misses(v) <= Misses(w))
  BY <1>4, <1>7, <1>8, <1>9, <1>10, SMT
<1> QED
  BY <1>11 DEF v

\* A window that is full drops its oldest probe.
LEMMA MissesShift ==
  ASSUME NEW w \in Seq(BOOLEAN), Len(w) > 0
  PROVE  /\ SubSeq(w, 2, Len(w)) \in Seq(BOOLEAN)
         /\ Len(SubSeq(w, 2, Len(w))) = Len(w) - 1
         /\ Misses(SubSeq(w, 2, Len(w))) <= Misses(w)
<1> DEFINE M(x) == {i \in DOMAIN x : x[i]}
           v == SubSeq(w, 2, Len(w))
           f == [i \in M(v) |-> i + 1]
<1>1. SubSeq(w, 2, Len(w)) = Tail(w)
  <2> HIDE DEF f, M, v
  <2> QED OBVIOUS
<1>2. /\ v \in Seq(BOOLEAN)
      /\ Len(v) = Len(w) - 1
      /\ \A i \in 1..(Len(w) - 1) : v[i] = w[i + 1]
  <2>1. /\ Tail(w) \in Seq(BOOLEAN)
        /\ Len(Tail(w)) = Len(w) - 1
        /\ \A i \in 1..(Len(w) - 1) : Tail(w)[i] = w[i + 1]
    <3> HIDE DEF f, M, v
    <3> QED OBVIOUS
  <2> QED
    BY <1>1, <2>1, Zenon
<1>3. \A i \in M(v) : i \in 1..Len(v) /\ i + 1 \in M(w)
  <2> HIDE DEF v
  <2> QED
    BY <1>2
<1>4. f \in Injection(M(v), M(w))
  <2>1. f \in [M(v) -> M(w)]
    BY <1>3
  <2>2. \A i, j \in M(v) : f[i] = f[j] => i = j
    BY <1>3
  <2> QED
    BY <2>1, <2>2 DEF Injection, IsInjective
<1>5. IsFiniteSet(M(w))
  BY MissesType
<1>6. Cardinality(M(v)) <= Cardinality(M(w))
  BY <1>4, <1>5, FS_Injection, Zenon
<1> QED
  BY <1>2, <1>6 DEF Misses

\* A window that is not full is kept whole.
LEMMA WholeWindow ==
  ASSUME NEW w \in Seq(BOOLEAN)
  PROVE  SubSeq(w, 1, Len(w)) = w
<1>0. Len(w) \in Nat /\ \A i \in 1..Len(w) : w[i] \in BOOLEAN
  OBVIOUS
<1>1. /\ SubSeq(w, 1, Len(w)) \in Seq(BOOLEAN)
      /\ Len(SubSeq(w, 1, Len(w))) = IF 1 <= Len(w) THEN Len(w) - 1 + 1 ELSE 0
      /\ \A i \in 1..(Len(w) - 1 + 1) : SubSeq(w, 1, Len(w))[i] = w[1 + i - 1]
  BY <1>0, SubSeqProperties
<1> QED
  BY <1>0, <1>1, SeqEqual

\* _track_programs: a program that is cleared or has a new process starts
\* from nothing, and a cycle adds its own miss at most.
LEMMA TrackedWindow ==
  ASSUME TypeOK, NEW p \in Programs, NEW cleared \in BOOLEAN, NEW starved \in BOOLEAN
  PROVE  LET anew == cleared \/ (p \in Running /\ noted[p] \notin {0, listed[p].pid})
             before == IF anew THEN 0 ELSE Misses(window[p])
             w == Tracked(p, cleared, starved)
         IN  /\ w \in Seq(BOOLEAN) /\ Len(w) <= WindowSize
             /\ before \in Nat /\ Misses(w) \in Nat
             /\ Misses(w) <= before + 1
             /\ starved \/ p \notin Missed => Misses(w) <= before
             /\ p \notin Running => w = IF cleared THEN <<>> ELSE window[p]
<1> DEFINE anew == cleared \/ (p \in Running /\ noted[p] \notin {0, listed[p].pid})
           before == IF anew THEN 0 ELSE Misses(window[p])
           kept == IF anew THEN <<>> ELSE window[p]
           b == p \in Missed
           all == IF starved \/ p \in Workers THEN kept ELSE Append(kept, b)
           w == Tracked(p, cleared, starved)
<1>1. /\ window[p] \in Seq(BOOLEAN) /\ Len(window[p]) <= WindowSize
      /\ Misses(window[p]) \in Nat /\ WindowSize \in Nat
  <2>1. window[p] \in UNION {[1..n -> BOOLEAN] : n \in 0..WindowSize}
    BY DEF TypeOK
  <2> QED
    BY <2>1, WindowType, MissesType, WatchdogAssumption
<1>2. kept \in Seq(BOOLEAN) /\ Len(kept) <= WindowSize /\ Misses(kept) = before
  <2>1. CASE anew
    <3>1. kept = <<>> /\ before = 0
      BY <2>1
    <3>2. <<>> \in Seq(BOOLEAN) /\ Len(<<>>) = 0
      OBVIOUS
    <3> HIDE DEF kept, before
    <3> QED
      BY <3>1, <3>2, <1>1, MissesEmpty
  <2>2. CASE ~anew
    BY <2>2, <1>1
  <2> QED
    BY <2>1, <2>2
<1>3. before \in Nat
  BY <1>1
<1>4. /\ all \in Seq(BOOLEAN) /\ Len(all) <= WindowSize + 1
      /\ Misses(all) \in Nat /\ Misses(all) <= before + 1
      /\ starved \/ ~b => Misses(all) <= before
  <2>0. b \in BOOLEAN
    OBVIOUS
  <2> HIDE DEF kept, before, b
  <2>1. CASE starved \/ p \in Workers
    BY <1>1, <1>2, <1>3, <2>1
  <2>2. CASE ~(starved \/ p \in Workers)
    <3>1. all = Append(kept, b)
      BY <2>2
    <3>2. Append(kept, b) \in Seq(BOOLEAN) /\ Len(Append(kept, b)) = Len(kept) + 1
      BY <2>0, <1>2
    <3>3. /\ Misses(Append(kept, b)) <= Misses(kept) + 1
          /\ ~b => Misses(Append(kept, b)) <= Misses(kept)
      BY <2>0, <1>2, MissesAppend
    <3>4. Misses(Append(kept, b)) \in Nat
      BY <3>2, MissesType
    <3> QED
      BY <3>1, <3>2, <3>3, <3>4, <1>1, <1>2, <1>3, <2>2
  <2> QED
    BY <2>1, <2>2
<1>5. w = IF p \in Running
          THEN SubSeq(all, IF Len(all) > WindowSize THEN 2 ELSE 1, Len(all))
          ELSE kept
  BY DEF Tracked
<1>6. CASE p \notin Running
  <2>1. p \notin Missed
    BY <1>6 DEF Missed
  <2> QED
    BY <1>1, <1>2, <1>3, <1>5, <1>6, <2>1, MissesType
<1>7. CASE p \in Running /\ Len(all) > WindowSize
  <2>1. w = SubSeq(all, 2, Len(all))
    BY <1>5, <1>7
  <2> HIDE DEF all, w, before
  <2>2. w \in Seq(BOOLEAN) /\ Len(w) = Len(all) - 1 /\ Misses(w) <= Misses(all)
    BY <2>1, <1>1, <1>4, <1>7, MissesShift
  <2>3. Misses(w) \in Nat
    BY <2>2, MissesType
  <2> QED
    BY <1>1, <1>3, <1>4, <1>7, <2>2, <2>3 DEF w, before
<1>8. CASE p \in Running /\ ~(Len(all) > WindowSize)
  <2>1. w = SubSeq(all, 1, Len(all))
    BY <1>5, <1>8
  <2> HIDE DEF all, w, before
  <2>2. w = all
    BY <2>1, <1>4, WholeWindow
  <2> QED
    BY <1>1, <1>3, <1>4, <1>8, <2>2 DEF w, before
<1> QED
  BY <1>6, <1>7, <1>8

(***************************************************************************)
(* The inductive invariant.                                                *)
(***************************************************************************)

\* Of the actions in flight: one at most, and none while a cycle that found
\* none is in progress.
OneAction ==
    /\ \A t, u \in tasks : t = u
    /\ cycle.on /\ ~cycle.inFlight => tasks = {}

\* A decision's booking is in the ledger l, unless it counts no more.
BookedIn(l, d, p) ==
    \/ d.age = BudgetWindow
    \/ [program |-> p, action |-> d.kind, age |-> d.age] \in l.real

\* A restart is of one program, whose present process, if it is the one the
\* decision was about, has failed by itself; an action that will be carried
\* out is booked in memory.
DecisionOK(d) ==
    /\ d.kind = "restart" =>
        \E p \in Programs : /\ d.programs = {p}
                            /\ d.pid <= prog[p].pid
                            /\ d.pid = prog[p].pid => evidence[p] = MissesToTrip
    /\ ~d.would => \A p \in d.programs : BookedIn(ledger, d, p)

\* How far an action is, and that it went past _book with a booking on disk.
TaskOK(t) ==
    /\ Len(t.todo) > 0
    /\ \A i \in 1..Len(t.todo) : DecisionOK(t.todo[i])
    /\ t.step \in {"verify", "term", "kill", "confirm"} => t.todo[1].kind = "restart"
    /\ t.step = "start" => t.todo[1].kind = "start"
    /\ t.step \in {"term", "kill", "confirm", "start"} => ~t.todo[1].would
    /\ t.step # "book" =>
        /\ disk # Unreadable
        /\ ~t.todo[1].would =>
              \A p \in t.todo[1].programs : BookedIn(disk, t.todo[1], p)

TasksOK == \A t \in tasks : TaskOK(t)

\* Whatever reached a program is booked in l, or l keeps the budgets
\* exhausted until it counts no more.
Remembers(l) ==
    \A b \in signalled : b \in l.real \/ b.age + l.exhausted >= BudgetWindow

\* The budgets hold of the bookings bs.
Within(bs) ==
    \A p \in Programs :
        /\ Count(bs, {p}, "restart") <= ProgramBudget
        /\ Count(bs, PoolOf(p), "restart") <= PoolBudget
        /\ Count(bs, {p}, "start") <= FatalBudget

\* The ledger in memory and its file: both remember what was done, and the
\* file knows of no booking that memory does not.
LedgerOK ==
    /\ tasks # {} => ledger.exhausted = 0
    /\ Remembers(ledger)
    /\ Within(ledger.real)
    /\ disk # Unreadable => /\ Remembers(disk)
                            /\ disk.real \subseteq ledger.real
                            /\ disk.shadow \subseteq ledger.shadow

\* An outage that ended less than GREEN_BEFORE_RESTART_S ago is open in the
\* ledger, or the green streak is not older than it, or the watchdog is not.
OutageOK ==
    \/ sinceRed >= GreenBefore \/ sinceRed >= uptime
    \/ ledger.red
    \/ green.known /\ green.since <= sinceRed

\* What a cycle that may act has read as FATAL is still so.
FatalOK ==
    cycle.on /\ cycle.ok /\ ~cycle.inFlight =>
        \A p \in Programs : listed[p].st = "FATAL" => prog[p].st = "FATAL"

\* Pids only grow, and the misses kept of a program are its process's own.
OwnEvidence(p) ==
    /\ prog[p].pid > 0
    /\ listed[p].st # "UNKNOWN" => listed[p].pid > 0
    /\ listed[p].pid <= prog[p].pid /\ noted[p] <= prog[p].pid
    /\ noted[p] = 0 => window[p] = <<>>
    /\ noted[p] = prog[p].pid =>
          \/ evidence[p] = MissesToTrip
          \/ Misses(window[p]) <= evidence[p]

EvidenceOK == \A p \in Programs : OwnEvidence(p)

IInv ==
    /\ TypeOK
    /\ OneAction
    /\ TasksOK
    /\ LedgerOK
    /\ BudgetKept
    /\ OutageOK
    /\ FatalOK
    /\ EvidenceOK

-----------------------------------------------------------------------------
(***************************************************************************)
(* The numbers among the constants, and ages.                              *)
(***************************************************************************)
LEMMA Numbers ==
  /\ BudgetWindow \in Nat \ {0} /\ ProgramBudget \in Nat /\ PoolBudget \in Nat
  /\ FatalBudget \in Nat /\ Others \in Nat /\ WindowSize \in Nat
  /\ MissesToTrip \in Nat \ {0} /\ GreenBefore \in Nat /\ Grace \in Nat
  /\ PauseGap \in Nat /\ FatalGreen \in Nat /\ RedLookback \in Nat
  /\ MaxPid \in Nat \ {0} /\ MaxFaults \in Nat /\ GreenBefore <= Grace
  /\ MissesToWarn \in Nat
BY LedgerAssumption, WatchdogAssumption

\* An age grows by one up to its cap.
LEMMA OlderAge ==
  ASSUME NEW cap \in Nat, NEW age \in 0..cap
  PROVE  /\ Older(age, cap) \in 0..cap
         /\ Older(age, cap) = age + 1 \/ (Older(age, cap) = cap /\ age = cap)
BY DEF Older

\* A ledger grows old to a ledger.
LEMMA OlderLedgerType ==
  ASSUME NEW l \in Ledgers
  PROVE  OlderLedger(l) \in Ledgers
<1>1. /\ OlderBookings(l.real) \in SUBSET Bookings
      /\ OlderBookings(l.shadow) \in SUBSET Bookings
  BY OlderBookingsType DEF Ledgers
<1>2. Older(l.ended, BudgetWindow) \in 0..BudgetWindow
  BY Numbers, OlderAge DEF Ledgers, Ages
<1>3. (IF l.exhausted > 0 THEN l.exhausted - 1 ELSE 0) \in 0..BudgetWindow
  BY Numbers DEF Ledgers, Ages
<1> QED
  BY <1>1, <1>2, <1>3 DEF OlderLedger, Ledgers, Ages

\* What an action in flight can turn into.
Tasks == [todo : Seq(Decisions), step : Steps]

LEMMA StepTask ==
  ASSUME NEW t \in Tasks, NEW s \in Steps
  PROVE  LET u == [t EXCEPT !.step = s]
         IN  u \in Tasks /\ u.todo = t.todo /\ u.step = s
BY DEF Tasks

LEMMA TailTask ==
  ASSUME NEW t \in Tasks, Len(t.todo) > 0, Len(t.todo) # 1
  PROVE  LET u == [todo |-> Tail(t.todo), step |-> "book"]
         IN  /\ u \in Tasks /\ Len(u.todo) > 0 /\ u.step = "book"
             /\ \A i \in 1..Len(u.todo) : /\ i + 1 \in 1..Len(t.todo)
                                          /\ u.todo[i] = t.todo[i + 1]
<1>1. t.todo \in Seq(Decisions)
  BY DEF Tasks
<1>2. /\ Tail(t.todo) \in Seq(Decisions) /\ Len(Tail(t.todo)) = Len(t.todo) - 1
      /\ Len(t.todo) \in Nat
      /\ \A i \in 1..(Len(t.todo) - 1) : Tail(t.todo)[i] = t.todo[i + 1]
  BY <1>1
<1> DEFINE u == [todo |-> Tail(t.todo), step |-> "book"]
<1>3. u.todo = Tail(t.todo) /\ u.step = "book" /\ u \in Tasks
  BY <1>2 DEF Tasks, Steps
<1> HIDE DEF u
<1>4. Len(u.todo) = Len(t.todo) - 1
  BY <1>2, <1>3, Zenon
<1>5. ASSUME NEW i \in 1..Len(u.todo)
      PROVE  i + 1 \in 1..Len(t.todo) /\ u.todo[i] = t.todo[i + 1]
  <2>1. i \in 1..(Len(t.todo) - 1) /\ i + 1 \in 1..Len(t.todo)
    BY <1>2, <1>4
  <2> QED
    BY <2>1, <1>2, <1>3, Zenon
<1>6. Len(u.todo) > 0
  <2>1. Len(t.todo) \in Nat
    BY <1>2
  <2>2. \A n \in Nat : n > 0 /\ n # 1 => n - 1 > 0
    OBVIOUS
  <2> QED
    BY <2>1, <2>2, <1>4, Zenon
<1> QED
  BY <1>3, <1>5, <1>6 DEF u

LEMMA StartTask ==
  ASSUME NEW t \in Tasks, Len(t.todo) > 0, NEW p
  PROVE  LET u == [t EXCEPT !.todo[1].programs = @ \ {p}]
         IN  /\ u \in Tasks /\ Len(u.todo) = Len(t.todo) /\ u.step = t.step
             /\ u.todo[1] = [t.todo[1] EXCEPT !.programs = @ \ {p}]
             /\ u.todo[1] \in Decisions
             /\ \A i \in 2..Len(t.todo) : u.todo[i] = t.todo[i]
<1> DEFINE d == [t.todo[1] EXCEPT !.programs = @ \ {p}]
           s == [t.todo EXCEPT ![1] = d]
<1>1. t.todo \in Seq(Decisions) /\ t.step \in Steps /\ Len(t.todo) \in Nat
  BY DEF Tasks
<1>2. t.todo[1] \in Decisions
  BY <1>1
<1>3. d \in Decisions
  BY <1>2 DEF Decisions
<1>4. /\ s \in Seq(Decisions) /\ Len(s) = Len(t.todo) /\ s[1] = d
      /\ \A i \in 2..Len(t.todo) : s[i] = t.todo[i]
  <2> HIDE DEF d
  <2> QED
    BY <1>1, <1>3
<1> DEFINE u == [t EXCEPT !.todo[1].programs = @ \ {p}]
<1>5. u \in Tasks /\ u.todo = s /\ u.step = t.step
  <2>1. u = [t EXCEPT !.todo = s]
    OBVIOUS
  <2> HIDE DEF s, u
  <2> QED
    BY <1>1, <1>4, <2>1 DEF Tasks
<1> HIDE DEF s, u
<1> QED
  BY <1>3, <1>4, <1>5 DEF u

\* Time, for an action in flight.
OlderTask(t) ==
    [t EXCEPT !.todo = [i \in DOMAIN t.todo |->
        [t.todo[i] EXCEPT !.age = Older(@, BudgetWindow)]]]

LEMMA OldTask ==
  ASSUME NEW t \in Tasks
  PROVE  LET u == OlderTask(t)
         IN  /\ u \in Tasks /\ Len(u.todo) = Len(t.todo) /\ u.step = t.step
             /\ \A i \in 1..Len(t.todo) :
                  /\ t.todo[i] \in Decisions /\ u.todo[i] \in Decisions
                  /\ u.todo[i] = [t.todo[i] EXCEPT !.age = Older(@, BudgetWindow)]
<1> DEFINE o(d) == [d EXCEPT !.age = Older(@, BudgetWindow)]
           s == [i \in DOMAIN t.todo |-> o(t.todo[i])]
<1>1. t.todo \in Seq(Decisions) /\ t.step \in Steps /\ Len(t.todo) \in Nat
  BY DEF Tasks
<1>2. \A i \in 1..Len(t.todo) : t.todo[i] \in Decisions
  BY <1>1
<1>3. \A d \in Decisions : o(d) \in Decisions
  BY Numbers, OlderAge DEF Decisions, Ages
<1>4. /\ s \in Seq(Decisions) /\ Len(s) = Len(t.todo)
      /\ \A i \in 1..Len(t.todo) : s[i] = o(t.todo[i])
  <2> HIDE DEF o
  <2> QED
    BY <1>1, <1>2, <1>3
<1>5. OlderTask(t) \in Tasks /\ OlderTask(t).todo = s /\ OlderTask(t).step = t.step
  <2>1. OlderTask(t) = [t EXCEPT !.todo = s]
    BY DEF OlderTask
  <2> HIDE DEF s
  <2> QED
    BY <1>1, <1>4, <2>1 DEF Tasks
<1> HIDE DEF s
<1>6. ASSUME NEW i \in 1..Len(t.todo)
      PROVE  /\ t.todo[i] \in Decisions /\ OlderTask(t).todo[i] \in Decisions
             /\ OlderTask(t).todo[i] = o(t.todo[i])
  <2> HIDE DEF o
  <2> QED
    BY <1>2, <1>3, <1>4, <1>5
<1> QED
  BY <1>4, <1>5, <1>6

-----------------------------------------------------------------------------
(***************************************************************************)
(* The parts of EndCycle, named.                                           *)
(***************************************************************************)
StarvedIn(trouble) == trouble \in {"starved", "unanswered"}
TrackedIn(trouble) == ~(StarvedIn(trouble) /\ (db \/ trouble = "unanswered"))
ClearedIn(trouble) == (TrackedIn(trouble) /\ Closes) \/ cycle.late
LedgerIn(trouble)  == IF TrackedIn(trouble) THEN TrackedLedger ELSE ledger
GreenIn(trouble)   == IF TrackedIn(trouble) THEN TrackedGreen ELSE green
WindowIn(trouble)  ==
    [p \in Programs |-> Tracked(p, ClearedIn(trouble), StarvedIn(trouble))]
StartsIn(trouble)  ==
    IF StarvedIn(trouble) THEN {} ELSE Starts(LedgerIn(trouble), GreenIn(trouble))
RealStarts(trouble)   == Bookings0({p \in StartsIn(trouble) : ~ShadowFor(p)}, "start")
ShadowStarts(trouble) == Bookings0({p \in StartsIn(trouble) : ShadowFor(p)}, "start")
BookedStarts(trouble) ==
    Book(Book(LedgerIn(trouble), RealStarts(trouble), FALSE), ShadowStarts(trouble), TRUE)
FreeIn(trouble) ==
    IF StarvedIn(trouble) THEN {}
    ELSE {p \in Trips(WindowIn(trouble)) :
            ~Held(BookedStarts(trouble), WindowIn(trouble), GreenIn(trouble),
                  trouble = "lock", StartsIn(trouble) # {}, p)}

\* EndCycle books starts, ...
EndsWithStarts(trouble) ==
    /\ FreeIn(trouble) = {}
    /\ Conclude(BookedStarts(trouble), StartDecisions(StartsIn(trouble)))
    /\ UNCHANGED lastAct

\* ... or a restart of p.
EndsWithRestart(trouble, p) ==
    /\ p \in First(WindowIn(trouble), FreeIn(trouble))
    /\ Conclude(Book(BookedStarts(trouble), {Booking(p, "restart")}, ShadowFor(p)),
                <<Decision("restart", {p}, listed[p].pid, ShadowFor(p))>>)
    /\ lastAct' = [lastAct EXCEPT ![p] = 0]

LEMMA EndCycleParts ==
  ASSUME NEW trouble, EndCycle(trouble)
  PROVE  /\ cycle.on /\ cycle' = Idle
         /\ window' = WindowIn(trouble)
         /\ noted' = [p \in Programs |-> IF p \in Running THEN listed[p].pid ELSE noted[p]]
         /\ green' = GreenIn(trouble)
         /\ \/ EndsWithStarts(trouble)
            \/ \E p \in First(WindowIn(trouble), FreeIn(trouble)) : EndsWithRestart(trouble, p)
         /\ Fault(IF trouble = "none" THEN 0 ELSE 1)
         /\ evidence' = [p \in Programs |->
                IF StarvedIn(trouble) THEN evidence[p]
                ELSE IF p \in Stuck THEN MissesToTrip
                ELSE IF p \in Missed THEN Older(evidence[p], MissesToTrip)
                ELSE evidence[p]]
         /\ sinceRed' = IF TrackedIn(trouble) /\ ~db THEN 0 ELSE sinceRed
         /\ UNCHANGED <<world, uptime, gap, listed, signalled>>
BY Zenon DEF EndCycle, EndsWithStarts, EndsWithRestart, FreeIn, BookedStarts, RealStarts,
   ShadowStarts, StartsIn, WindowIn, GreenIn, LedgerIn, ClearedIn, TrackedIn, StarvedIn

\* _track_gate touches no booking.
LEMMA TrackGate ==
  ASSUME TypeOK, NEW trouble
  PROVE  /\ LedgerIn(trouble) \in Ledgers
         /\ LedgerIn(trouble).real = ledger.real
         /\ LedgerIn(trouble).shadow = ledger.shadow
         /\ LedgerIn(trouble).exhausted = ledger.exhausted
         /\ GreenIn(trouble) \in [known : BOOLEAN, since : 0..GreenBefore, cycles : 0..FatalGreen]
<1>1. ledger \in Ledgers
  BY DEF TypeOK
<1>2. /\ TrackedLedger \in Ledgers
      /\ TrackedLedger.real = ledger.real /\ TrackedLedger.shadow = ledger.shadow
      /\ TrackedLedger.exhausted = ledger.exhausted
  <2>1. CASE ~db
    BY <1>1, <2>1 DEF TrackedLedger, Ledgers
  <2>2. CASE db /\ ledger.red
    <3>1. TrackedLedger = [ledger EXCEPT !.red = FALSE, !.ended = 0]
      BY <2>2 DEF TrackedLedger
    <3>2. 0 \in Ages
      BY Numbers DEF Ages
    <3> QED
      BY <1>1, <3>1, <3>2, Zenon DEF Ledgers
  <2>3. CASE db /\ ~ledger.red
    BY <1>1, <2>3 DEF TrackedLedger
  <2> QED
    BY <2>1, <2>2, <2>3
<1>3. green \in [known : BOOLEAN, since : 0..GreenBefore, cycles : 0..FatalGreen]
  BY DEF TypeOK
<1>4. /\ Older(0, FatalGreen) \in 0..FatalGreen
      /\ Older(green.cycles, FatalGreen) \in 0..FatalGreen
  BY <1>3, Numbers, OlderAge
<1>5. TrackedGreen \in [known : BOOLEAN, since : 0..GreenBefore, cycles : 0..FatalGreen]
  BY <1>3, <1>4, Numbers DEF TrackedGreen, NotGreen
<1>6. CASE TrackedIn(trouble)
  <2>1. LedgerIn(trouble) = TrackedLedger /\ GreenIn(trouble) = TrackedGreen
    BY <1>6 DEF LedgerIn, GreenIn
  <2> QED
    BY <2>1, <1>2, <1>5, Zenon
<1>7. CASE ~TrackedIn(trouble)
  <2>1. LedgerIn(trouble) = ledger /\ GreenIn(trouble) = green
    BY <1>7 DEF LedgerIn, GreenIn
  <2> QED
    BY <2>1, <1>1, <1>3, Zenon
<1> QED
  BY <1>6, <1>7

\* Ledger.book.
LEMMA BookType ==
  ASSUME NEW l \in Ledgers, NEW bs \in SUBSET Bookings, NEW shadow \in BOOLEAN
  PROVE  /\ Book(l, bs, shadow) \in Ledgers
         /\ Book(l, bs, shadow).real = IF shadow THEN l.real ELSE l.real \cup bs
         /\ Book(l, bs, shadow).shadow = IF shadow THEN l.shadow \cup bs ELSE l.shadow
         /\ Book(l, bs, shadow).exhausted = l.exhausted
         /\ Book(l, bs, shadow).red = l.red
BY DEF Book, Ledgers

\* R5 starts what is FATAL for supervisord, if nothing is in flight and the
\* budget allows it.
LEMMA StartsFree ==
  ASSUME NEW trouble, NEW p \in StartsIn(trouble)
  PROVE  /\ p \in Programs /\ listed[p].st = "FATAL"
         /\ cycle.ok /\ ~cycle.inFlight
         /\ FreeNow(LedgerIn(trouble), p, "start", ShadowFor(p))
BY DEF StartsIn, Starts, Eligible, OtherAction

\* What the bookings of R5 make of the ledger.
LEMMA StartsBooked ==
  ASSUME TypeOK, NEW trouble
  PROVE  /\ RealStarts(trouble) \in SUBSET Bookings
         /\ ShadowStarts(trouble) \in SUBSET Bookings
         /\ BookedStarts(trouble) \in Ledgers
         /\ BookedStarts(trouble).real = ledger.real \cup RealStarts(trouble)
         /\ BookedStarts(trouble).shadow = ledger.shadow \cup ShadowStarts(trouble)
         /\ BookedStarts(trouble).exhausted = ledger.exhausted
         /\ BookedStarts(trouble).red = LedgerIn(trouble).red
<1>1. \A p \in StartsIn(trouble) : p \in Programs
  BY StartsFree
<1>2. /\ RealStarts(trouble) \in SUBSET Bookings
      /\ ShadowStarts(trouble) \in SUBSET Bookings
  BY <1>1, Numbers DEF RealStarts, ShadowStarts, Bookings0, Booking, Bookings
<1> DEFINE b == Book(LedgerIn(trouble), RealStarts(trouble), FALSE)
<1>3. /\ b \in Ledgers /\ b.real = ledger.real \cup RealStarts(trouble)
      /\ b.shadow = ledger.shadow /\ b.exhausted = ledger.exhausted
      /\ b.red = LedgerIn(trouble).red
  <2>1. LedgerIn(trouble) \in Ledgers
    BY TrackGate
  <2>2. /\ b \in Ledgers /\ b.real = LedgerIn(trouble).real \cup RealStarts(trouble)
        /\ b.shadow = LedgerIn(trouble).shadow
        /\ b.exhausted = LedgerIn(trouble).exhausted /\ b.red = LedgerIn(trouble).red
    BY <1>2, <2>1 DEF Book, Ledgers
  <2> QED
    BY <2>2, TrackGate, Zenon
<1>4. BookedStarts(trouble) = Book(b, ShadowStarts(trouble), TRUE)
  BY DEF BookedStarts
<1> HIDE DEF b
<1>5. /\ BookedStarts(trouble) \in Ledgers
      /\ BookedStarts(trouble).real = b.real
      /\ BookedStarts(trouble).shadow = b.shadow \cup ShadowStarts(trouble)
      /\ BookedStarts(trouble).exhausted = b.exhausted /\ BookedStarts(trouble).red = b.red
  BY <1>2, <1>3, <1>4 DEF Book, Ledgers
<1> QED
  BY <1>2, <1>3, <1>5, Zenon

\* A restart is of a program that trips in this cycle and that no hold
\* applies to.
LEMMA RestartFree ==
  ASSUME NEW trouble, NEW p \in First(WindowIn(trouble), FreeIn(trouble))
  PROVE  /\ p \in Programs /\ p \in Running /\ p \in Trips(WindowIn(trouble))
         /\ ~StarvedIn(trouble) /\ StartsIn(trouble) = {}
         /\ ~cycle.inFlight /\ cycle.ok /\ db
         /\ ~(GreenIn(trouble).since < GreenBefore)
         /\ ~InGrace(p)
         /\ FreeNow(BookedStarts(trouble), p, "restart", ShadowFor(p))
<1>1. p \in FreeIn(trouble)
  BY DEF First
<1>2. /\ ~StarvedIn(trouble) /\ p \in Trips(WindowIn(trouble))
      /\ ~Held(BookedStarts(trouble), WindowIn(trouble), GreenIn(trouble),
                trouble = "lock", StartsIn(trouble) # {}, p)
  BY <1>1 DEF FreeIn
<1>3. p \in Running /\ p \in Programs
  BY <1>2 DEF Trips, Failing, Section, Judged, Stuck, Missed, Running
<1> QED
  BY <1>2, <1>3 DEF Held, OtherAction

\* Sequences of one element or none, put together.
LEMMA Batches ==
  ASSUME NEW S, NEW x \in S, NEW y \in S
  PROVE  /\ <<>> \o <<>> = <<>>
         /\ <<x>> \o <<>> = <<x>> /\ <<>> \o <<y>> = <<y>>
         /\ <<x>> \o <<y>> = <<x, y>>
         /\ <<x>> \in Seq(S) /\ Len(<<x>>) = 1 /\ \A i \in 1..1 : <<x>>[i] = x
         /\ <<x, y>> \in Seq(S) /\ Len(<<x, y>>) = 2
         /\ \A i \in 1..2 : <<x, y>>[i] \in {x, y}
<1>1. <<>> \o <<>> = <<>>
  OBVIOUS
<1>2. <<x>> \o <<>> = <<x>> /\ <<>> \o <<y>> = <<y>>
  BY ConcatEmptySeq
<1>3. <<x>> \o <<y>> = <<x, y>>
  <2> DEFINE s == <<x>> \o <<y>>
  <2>1. <<x>> \in Seq(S) /\ <<y>> \in Seq(S) /\ Len(<<x>>) = 1 /\ Len(<<y>>) = 1
    OBVIOUS
  <2>2. s \in Seq(S) /\ Len(s) = 2 /\ s[1] = x /\ s[2] = y
    BY <2>1
  <2>3. <<x, y>> \in Seq(S) /\ Len(<<x, y>>) = 2 /\ <<x, y>>[1] = x /\ <<x, y>>[2] = y
    OBVIOUS
  <2>4. \A i \in 1..2 : i = 1 \/ i = 2
    OBVIOUS
  <2> HIDE DEF s
  <2>5. \A i \in 1..Len(s) : s[i] = <<x, y>>[i]
    BY <2>2, <2>3, <2>4
  <2> QED
    BY <2>2, <2>3, <2>5, SeqEqual DEF s
<1>4. <<x>> \in Seq(S) /\ Len(<<x>>) = 1 /\ \A i \in 1..1 : <<x>>[i] = x
  OBVIOUS
<1>5. <<x, y>> \in Seq(S) /\ Len(<<x, y>>) = 2
  OBVIOUS
<1>6. \A i \in 1..2 : <<x, y>>[i] \in {x, y}
  OBVIOUS
<1> QED
  BY <1>1, <1>2, <1>3, <1>4, <1>5, <1>6

\* The decisions of R5: one batch, or two.
LEMMA StartsDecided ==
  ASSUME NEW ps \in SUBSET Programs
  PROVE  /\ StartDecisions(ps) \in Seq(Decisions)
         /\ \A i \in 1..Len(StartDecisions(ps)) :
              LET d == StartDecisions(ps)[i]
              IN  /\ d.kind = "start" /\ d.age = 0
                  /\ d.programs \subseteq ps
                  /\ ~d.would => \A p \in d.programs : ~ShadowFor(p)
         /\ StartDecisions(ps) # <<>> => ps # {}
<1> DEFINE batch(shadow) == {p \in ps : ShadowFor(p) = shadow}
           dec(shadow) == Decision("start", batch(shadow), 0, shadow)
           one(shadow) == IF batch(shadow) = {} THEN <<>> ELSE <<dec(shadow)>>
           OK(d) == /\ d \in Decisions /\ d.kind = "start" /\ d.age = 0
                    /\ d.programs \subseteq ps
                    /\ ~d.would => \A p \in d.programs : ~ShadowFor(p)
<1>1. \A shadow \in BOOLEAN : OK(dec(shadow))
  BY Numbers, WatchdogAssumption DEF Decision, Decisions, Would, Ages, ShadowFor
<1>2. StartDecisions(ps) = one(FALSE) \o one(TRUE)
  BY DEF StartDecisions
<1>3. \A shadow \in BOOLEAN : batch(shadow) \subseteq ps
  OBVIOUS
<1> HIDE DEF OK, dec, batch
<1>4. \A s \in BOOLEAN : dec(s) \in Decisions
  BY <1>1 DEF OK
<1>5. CASE batch(FALSE) = {} /\ batch(TRUE) = {}
  <2>1. StartDecisions(ps) = <<>>
    BY <1>2, <1>5
  <2> QED
    BY <2>1
<1>6. CASE batch(FALSE) = {} /\ batch(TRUE) # {}
  <2> DEFINE y == dec(TRUE)
  <2>1. y \in Decisions /\ OK(y) /\ ps # {}
    BY <1>1, <1>3, <1>4, <1>6
  <2> HIDE DEF y
  <2>2. StartDecisions(ps) = <<y>>
    <3>1. StartDecisions(ps) = <<>> \o <<y>>
      BY <1>2, <1>6 DEF y
    <3> QED
      BY <2>1, <3>1, Batches
  <2>3. /\ <<y>> \in Seq(Decisions)
        /\ \A i \in 1..Len(<<y>>) : OK(<<y>>[i])
    BY <2>1, Batches
  <2> QED
    BY <2>1, <2>2, <2>3 DEF OK
<1>7. CASE batch(FALSE) # {} /\ batch(TRUE) = {}
  <2> DEFINE x == dec(FALSE)
  <2>1. x \in Decisions /\ OK(x) /\ ps # {}
    BY <1>1, <1>3, <1>4, <1>7
  <2> HIDE DEF x
  <2>2. StartDecisions(ps) = <<x>>
    <3>1. StartDecisions(ps) = <<x>> \o <<>>
      BY <1>2, <1>7 DEF x
    <3> QED
      BY <2>1, <3>1, Batches
  <2>3. /\ <<x>> \in Seq(Decisions)
        /\ \A i \in 1..Len(<<x>>) : OK(<<x>>[i])
    BY <2>1, Batches
  <2> QED
    BY <2>1, <2>2, <2>3 DEF OK
<1>8. CASE batch(FALSE) # {} /\ batch(TRUE) # {}
  <2> DEFINE x == dec(FALSE)
             y == dec(TRUE)
  <2>1. x \in Decisions /\ OK(x) /\ y \in Decisions /\ OK(y) /\ ps # {}
    BY <1>1, <1>3, <1>4, <1>8
  <2> HIDE DEF x, y
  <2>2. StartDecisions(ps) = <<x, y>>
    <3>1. StartDecisions(ps) = <<x>> \o <<y>>
      BY <1>2, <1>8 DEF x, y
    <3> QED
      BY <2>1, <3>1, Batches
  <2>3. /\ <<x, y>> \in Seq(Decisions)
        /\ \A i \in 1..Len(<<x, y>>) : OK(<<x, y>>[i])
    BY <2>1, Batches
  <2> QED
    BY <2>1, <2>2, <2>3 DEF OK
<1> QED
  BY <1>5, <1>6, <1>7, <1>8

-----------------------------------------------------------------------------
(***************************************************************************)
(* Types.                                                                  *)
(***************************************************************************)

\* The ledgers a watchdog begins with.
LEMMA FirstLedgers ==
  /\ EmptyLedger \in Ledgers /\ EmptyLedger.real = {} /\ EmptyLedger.shadow = {}
  /\ EmptyLedger.exhausted = 0
  /\ ExhaustedLedger \in Ledgers /\ ExhaustedLedger.real = {}
  /\ ExhaustedLedger.shadow = {} /\ ExhaustedLedger.exhausted = BudgetWindow
<1>1. 0 \in Ages /\ BudgetWindow \in Ages
  BY Numbers DEF Ages
<1>2. EmptyLedger \in Ledgers
  BY <1>1 DEF EmptyLedger, Ledgers
<1>3. /\ EmptyLedger.real = {} /\ EmptyLedger.shadow = {} /\ EmptyLedger.exhausted = 0
  BY DEF EmptyLedger
<1> HIDE DEF EmptyLedger
<1>4. /\ ExhaustedLedger \in Ledgers /\ ExhaustedLedger.real = EmptyLedger.real
      /\ ExhaustedLedger.shadow = EmptyLedger.shadow
      /\ ExhaustedLedger.exhausted = BudgetWindow
  BY <1>1, <1>2 DEF ExhaustedLedger, Ledgers
<1> QED
  BY <1>2, <1>3, <1>4

LEMMA InitType == Init => TypeOK
<1> SUFFICES ASSUME Init PROVE TypeOK
  OBVIOUS
<1>1. /\ prog \in [Programs -> Facts]
      /\ listed \in [Programs -> Facts]
  BY Numbers DEF Init, NothingListed, Facts, States, Ages
<1>2. window \in [Programs -> UNION {[1..n -> BOOLEAN] : n \in 0..WindowSize}]
  <2>1. <<>> \in UNION {[1..n -> BOOLEAN] : n \in 0..WindowSize}
    <3>1. <<>> \in Seq(BOOLEAN) /\ Len(<<>>) <= WindowSize
      BY Numbers
    <3> QED
      BY <3>1, WindowType
  <2> QED
    BY <2>1 DEF Init
<1>3. /\ uptime \in 0..Grace /\ gap \in 0..(PauseGap + 1)
      /\ noted \in [Programs -> 0..MaxPid] /\ lastAct \in [Programs -> 0..Grace]
      /\ faults \in 0..MaxFaults /\ sinceRed \in 0..GreenBefore
      /\ evidence \in [Programs -> 0..MissesToTrip]
      /\ green \in [known : BOOLEAN, since : 0..GreenBefore, cycles : 0..FatalGreen]
  BY Numbers DEF Init, NotGreen
<1> QED
  BY <1>1, <1>2, <1>3, FirstLedgers DEF Init, TypeOK, Idle

\* What the programs, supervisord, PostgreSQL and the disk do.
WorldStep ==
    \/ \E p \in Programs : ProgramStep(p)
    \/ DatabaseTurns \/ DiskTurns

\* It is about the world alone, but for the evidence against a process that
\* is replaced; a program that is FATAL stays so.
OnlyTheWorld ==
    /\ UNCHANGED <<memory, disk, tasks, signalled, sinceRed>>
    /\ faults' \in 0..MaxFaults
    /\ db' \in BOOLEAN /\ writable' \in BOOLEAN
    /\ prog' \in [Programs -> Facts]
    /\ mood' \in [Programs -> {"ok", "deaf", "stuck"}]
    /\ evidence' \in [Programs -> 0..MissesToTrip]
    /\ \A q \in Programs :
         /\ prog[q].st = "FATAL" => prog'[q].st = "FATAL"
         /\ \/ prog'[q].pid = prog[q].pid /\ evidence'[q] = evidence[q]
            \/ prog'[q].pid = prog[q].pid + 1

LEMMA WorldOnly == ASSUME TypeOK, WorldStep PROVE OnlyTheWorld
<1>0. /\ faults \in 0..MaxFaults /\ prog \in [Programs -> Facts]
      /\ mood \in [Programs -> {"ok", "deaf", "stuck"}]
      /\ evidence \in [Programs -> 0..MissesToTrip]
      /\ db \in BOOLEAN /\ writable \in BOOLEAN
  BY DEF TypeOK
<1> USE DEF OnlyTheWorld, Fault, ghosts
<1>1. ASSUME NEW p \in Programs, NEW how \in {"deaf", "stuck"}, Fail(p, how)
      PROVE  OnlyTheWorld
  BY <1>0, <1>1, Numbers DEF Fail
<1>2. ASSUME NEW p \in Programs, Recover(p) PROVE OnlyTheWorld
  BY <1>0, <1>2, Numbers DEF Recover
<1>3. ASSUME NEW p \in Programs, Exit(p) PROVE OnlyTheWorld
  BY <1>0, <1>3, Numbers DEF Exit, Facts, States
<1>4. ASSUME NEW p \in Programs, Respawn(p) PROVE OnlyTheWorld
  BY <1>0, <1>4, Numbers DEF Respawn, Facts, States, Ages
<1>5. ASSUME NEW p \in Programs, GiveUp(p) PROVE OnlyTheWorld
  <2> DEFINE f == [prog EXCEPT ![p].st = "FATAL"]
  <2>1. /\ f \in [Programs -> Facts] /\ f[p].pid = prog[p].pid /\ f[p].st = "FATAL"
        /\ \A q \in Programs : q # p => f[q] = prog[q]
    BY <1>0 DEF Facts, States
  <2>2. prog' = [f EXCEPT ![p].up = 0]
    BY <1>0, <1>5 DEF GiveUp
  <2> HIDE DEF f
  <2>4. /\ prog' \in [Programs -> Facts] /\ prog'[p].pid = prog[p].pid
        /\ prog'[p].st = "FATAL" /\ \A q \in Programs : q # p => prog'[q] = prog[q]
    BY <2>1, <2>2, Numbers DEF Facts, Ages
  <2>3. /\ UNCHANGED <<memory, disk, tasks, ghosts, db, writable, mood>>
        /\ faults' \in 0..MaxFaults
    BY <1>0, <1>5, Numbers DEF GiveUp
  <2> QED
    BY <1>0, <2>3, <2>4
<1>6. ASSUME DatabaseTurns PROVE OnlyTheWorld
  BY <1>0, <1>6, Numbers DEF DatabaseTurns
<1>7. ASSUME DiskTurns PROVE OnlyTheWorld
  BY <1>0, <1>7, Numbers DEF DiskTurns
<1> QED
  BY <1>1, <1>2, <1>3, <1>4, <1>5, <1>6, <1>7 DEF WorldStep, ProgramStep

\* An action in flight has a current decision.
LEMMA CurrentDecision ==
  ASSUME TypeOK, TasksOK, NEW t \in tasks
  PROVE  /\ t \in Tasks /\ Len(t.todo) > 0 /\ Current(t) = t.todo[1]
         /\ Len(t.todo) \in Nat /\ t.todo[1] \in Decisions
<1>1. t \in Tasks /\ Len(t.todo) > 0
  BY DEF TypeOK, TasksOK, TaskOK, Tasks
<1>2. t.todo \in Seq(Decisions)
  BY <1>1 DEF Tasks
<1> QED
  BY <1>1, <1>2 DEF Current

\* How an action in flight may go on, for its place among them.
GoesOn(t) ==
    \/ tasks' = tasks \ {t}
    \/ /\ Len(t.todo) # 1
       /\ tasks' = (tasks \ {t}) \cup {[todo |-> Tail(t.todo), step |-> "book"]}
    \/ \E s \in Steps : tasks' = (tasks \ {t}) \cup {[t EXCEPT !.step = s]}
    \/ \E p \in Programs :
         tasks' = (tasks \ {t}) \cup {[t EXCEPT !.todo[1].programs = @ \ {p}]}

LEMMA FinishGoesOn == ASSUME NEW t, Finish(t) PROVE GoesOn(t)
BY DEF Finish, Becomes, GoesOn

LEMMA ActionGoesOn ==
  ASSUME NEW t, ActionStep(t)
  PROVE  GoesOn(t)
<1>1. ASSUME NEW s \in Steps, Proceed(t, s) PROVE GoesOn(t)
  BY <1>1 DEF Proceed, Becomes, GoesOn
<1>2. CASE BookAction(t)
  BY <1>1, <1>2, FinishGoesOn DEF BookAction, Steps
<1>3. ASSUME NEW ok \in BOOLEAN, Verify(t, ok) PROVE GoesOn(t)
  BY <1>1, <1>3, FinishGoesOn DEF Verify, Steps
<1>4. ASSUME NEW ok \in BOOLEAN, Term(t, ok) PROVE GoesOn(t)
  BY <1>1, <1>4, FinishGoesOn DEF Term, Steps
<1>5. CASE Kill(t)
  BY <1>1, <1>5 DEF Kill, Steps
<1>6. CASE Confirm(t)
  BY <1>6, FinishGoesOn DEF Confirm
<1>7. ASSUME NEW p \in Programs, NEW ok \in BOOLEAN, StartOne(t, p, ok) PROVE GoesOn(t)
  <2>1. Finish(t) \/ Becomes(t, {[t EXCEPT !.todo[1].programs = @ \ {p}]})
    BY <1>7 DEF StartOne
  <2> QED
    BY <2>1, FinishGoesOn DEF GoesOn, Becomes
<1> QED
  BY <1>2, <1>3, <1>4, <1>5, <1>6, <1>7 DEF ActionStep

LEMMA GoesOnType ==
  ASSUME TypeOK, TasksOK, NEW t \in tasks, GoesOn(t)
  PROVE  \A u \in tasks' : u \in Tasks
<1>1. \A u \in tasks : u \in Tasks
  BY DEF TypeOK, Tasks
<1>2. t \in Tasks /\ Len(t.todo) > 0
  BY CurrentDecision
<1>3. CASE tasks' = tasks \ {t}
  BY <1>1, <1>3
<1>4. CASE /\ Len(t.todo) # 1
           /\ tasks' = (tasks \ {t}) \cup {[todo |-> Tail(t.todo), step |-> "book"]}
  <2>1. [todo |-> Tail(t.todo), step |-> "book"] \in Tasks
    BY <1>2, <1>4, TailTask
  <2> QED
    BY <1>1, <1>4, <2>1
<1>5. ASSUME NEW s \in Steps, tasks' = (tasks \ {t}) \cup {[t EXCEPT !.step = s]}
      PROVE  \A u \in tasks' : u \in Tasks
  <2>1. [t EXCEPT !.step = s] \in Tasks
    BY <1>2, StepTask
  <2> QED
    BY <1>1, <1>5, <2>1
<1>6. ASSUME NEW p \in Programs,
             tasks' = (tasks \ {t}) \cup {[t EXCEPT !.todo[1].programs = @ \ {p}]}
      PROVE  \A u \in tasks' : u \in Tasks
  <2>1. [t EXCEPT !.todo[1].programs = @ \ {p}] \in Tasks
    BY <1>2, StartTask
  <2> QED
    BY <1>1, <1>6, <2>1
<1> QED
  BY <1>3, <1>4, <1>5, <1>6 DEF GoesOn

\* What an action leaves alone, and what it makes of the world: it may make
\* a program that it signals or starts STARTING, with the pid it had.
OnlyTheAction ==
    /\ UNCHANGED <<mood, db, writable, memory, evidence, sinceRed>>
    /\ disk' \in {disk, ledger}
    /\ faults' \in 0..MaxFaults
    /\ prog' \in [Programs -> Facts]
    /\ \A q \in Programs : prog'[q].pid = prog[q].pid
    /\ signalled' \subseteq Bookings

LEMMA SignalType ==
  ASSUME TypeOK, NEW d \in Decisions, NEW p \in d.programs, Signal(d, p)
  PROVE  signalled' \subseteq Bookings
<1>1. signalled \subseteq Bookings
  BY DEF TypeOK
<1>2. p \in Programs /\ d.kind \in {"restart", "start"} /\ d.age \in 0..BudgetWindow
  BY DEF Decisions, Ages
<1>3. d.age # BudgetWindow =>
        [program |-> p, action |-> d.kind, age |-> d.age] \in Bookings
  BY <1>2, Numbers DEF Bookings
<1> QED
  BY <1>1, <1>3 DEF Signal

LEMMA ActionOnly ==
  ASSUME TypeOK, TasksOK, NEW t \in tasks, ActionStep(t)
  PROVE  OnlyTheAction
<1>0. /\ faults \in 0..MaxFaults /\ prog \in [Programs -> Facts]
      /\ signalled \subseteq Bookings
  BY DEF TypeOK
<1>1. Current(t) \in Decisions /\ Current(t).programs \subseteq Programs
  BY CurrentDecision DEF Decisions
<1>2. \A p \in Programs : LET f == [prog EXCEPT ![p].st = "STARTING"]
                         IN  /\ f \in [Programs -> Facts]
                             /\ \A q \in Programs : f[q].pid = prog[q].pid
  BY <1>0 DEF Facts, States
<1> USE DEF OnlyTheAction, Fault, ghosts
<1>3. CASE BookAction(t)
  BY <1>0, <1>3 DEF BookAction, world
<1>4. ASSUME NEW ok \in BOOLEAN, Verify(t, ok) PROVE OnlyTheAction
  BY <1>0, <1>4, Numbers DEF Verify, world
<1>5. ASSUME NEW ok \in BOOLEAN, Term(t, ok) PROVE OnlyTheAction
  <2>1. /\ UNCHANGED <<mood, db, writable, memory, disk, faults, evidence, sinceRed>>
        /\ \/ \E p \in Current(t).programs :
                 /\ prog' = IF ok THEN [prog EXCEPT ![p].st = "STARTING"] ELSE prog
                 /\ Signal(Current(t), p)
           \/ UNCHANGED <<prog, signalled>>
    BY <1>5 DEF Term
  <2> QED
    BY <1>0, <1>1, <1>2, <2>1, SignalType
<1>6. CASE Kill(t)
  BY <1>0, <1>1, <1>2, <1>6 DEF Kill
<1>7. CASE Confirm(t)
  BY <1>0, <1>7 DEF Confirm, world
<1>8. ASSUME NEW p \in Programs, NEW ok \in BOOLEAN, StartOne(t, p, ok) PROVE OnlyTheAction
  <2>1. /\ UNCHANGED <<mood, db, writable, memory, disk, evidence, sinceRed>>
        /\ prog' \in {prog, [prog EXCEPT ![p].st = "STARTING"]}
        /\ p \in Current(t).programs
        /\ Signal(Current(t), p) \/ UNCHANGED signalled
        /\ faults' \in 0..MaxFaults
    BY <1>0, <1>8, Numbers DEF StartOne
  <2> QED
    BY <1>0, <1>1, <1>2, <2>1, SignalType
<1> QED
  BY <1>3, <1>4, <1>5, <1>6, <1>7, <1>8 DEF ActionStep

\* The count of faults keeps its bound.
LEMMA FaultType == ASSUME TypeOK, NEW n \in Nat, Fault(n) PROVE faults' \in 0..MaxFaults
BY Numbers DEF TypeOK, Fault

\* Tick, part by part.
LEMMA TickType == ASSUME TypeOK, Tick PROVE TypeOK'
<1>1. /\ faults' \in 0..MaxFaults
      /\ mood' \in [Programs -> {"ok", "deaf", "stuck"}]
      /\ db' \in BOOLEAN /\ writable' \in BOOLEAN
      /\ cycle' \in [on : BOOLEAN, late : BOOLEAN, inFlight : BOOLEAN, ok : BOOLEAN]
      /\ window' \in [Programs -> UNION {[1..n -> BOOLEAN] : n \in 0..WindowSize}]
      /\ noted' \in [Programs -> 0..MaxPid]
      /\ evidence' \in [Programs -> 0..MissesToTrip]
  <2>1. faults' \in 0..MaxFaults
    BY FaultType DEF Tick
  <2> QED
    BY <2>1 DEF Tick, TypeOK
<1>2. \A f \in Facts : [f EXCEPT !.up = Older(@, BudgetWindow)] \in Facts
  BY Numbers, OlderAge DEF Facts, Ages
<1>3. /\ prog' \in [Programs -> Facts] /\ listed' \in [Programs -> Facts]
  BY <1>2 DEF Tick, TypeOK
<1>4. /\ uptime' \in 0..Grace /\ gap' \in 0..(PauseGap + 1)
      /\ lastAct' \in [Programs -> 0..Grace] /\ sinceRed' \in 0..GreenBefore
  <2>1. /\ uptime \in 0..Grace /\ gap \in 0..(PauseGap + 1)
        /\ lastAct \in [Programs -> 0..Grace] /\ sinceRed \in 0..GreenBefore
    BY DEF TypeOK
  <2>2. Older(uptime, Grace) \in 0..Grace /\ Older(sinceRed, GreenBefore) \in 0..GreenBefore
    BY <2>1, Numbers, OlderAge
  <2>3. Older(gap, PauseGap + 1) \in 0..(PauseGap + 1)
    BY <2>1, Numbers, OlderAge
  <2>4. \A p \in Programs : Older(lastAct[p], Grace) \in 0..Grace
    BY <2>1, Numbers, OlderAge
  <2> QED
    BY <2>2, <2>3, <2>4, Zenon DEF Tick
<1>5. green' \in [known : BOOLEAN, since : 0..GreenBefore, cycles : 0..FatalGreen]
  <2>1. green \in [known : BOOLEAN, since : 0..GreenBefore, cycles : 0..FatalGreen]
    BY DEF TypeOK
  <2>2. Older(green.since, GreenBefore) \in 0..GreenBefore
    BY <2>1, Numbers, OlderAge
  <2> QED
    BY <2>1, <2>2 DEF Tick
<1>6. ledger' \in Ledgers /\ disk' \in Ledgers \cup {Unreadable}
  BY OlderLedgerType DEF Tick, TypeOK
<1>7. \A t \in tasks' : t \in Tasks
  <2>1. tasks' = {OlderTask(t) : t \in tasks}
    BY DEF Tick, OlderTask
  <2>2. \A t \in tasks : OlderTask(t) \in Tasks
    BY OldTask DEF TypeOK, Tasks
  <2> QED
    BY <2>1, <2>2
<1>8. signalled' \subseteq Bookings
  BY OlderBookingsType DEF Tick, TypeOK
<1> QED
  BY <1>1, <1>3, <1>4, <1>5, <1>6, <1>7, <1>8 DEF TypeOK, Tasks

\* EndCycle, part by part.
LEMMA EndCycleType ==
  ASSUME TypeOK, NEW trouble \in Troubles, EndCycle(trouble)
  PROVE  TypeOK'
<1>1. /\ prog' \in [Programs -> Facts] /\ listed' \in [Programs -> Facts]
      /\ mood' \in [Programs -> {"ok", "deaf", "stuck"}]
      /\ db' \in BOOLEAN /\ writable' \in BOOLEAN
      /\ uptime' \in 0..Grace /\ signalled' \subseteq Bookings
  BY EndCycleParts DEF TypeOK, world
<1>2. /\ gap' \in 0..(PauseGap + 1)
      /\ cycle' \in [on : BOOLEAN, late : BOOLEAN, inFlight : BOOLEAN, ok : BOOLEAN]
      /\ faults' \in 0..MaxFaults /\ sinceRed' \in 0..GreenBefore
  <2>1. faults' \in 0..MaxFaults
    BY EndCycleParts, FaultType
  <2>2. /\ sinceRed' = IF TrackedIn(trouble) /\ ~db THEN 0 ELSE sinceRed
        /\ cycle' = Idle /\ gap' = gap
    BY EndCycleParts, Zenon
  <2>3. sinceRed \in 0..GreenBefore /\ gap \in 0..(PauseGap + 1)
    BY DEF TypeOK
  <2> QED
    BY <2>1, <2>2, <2>3, Numbers DEF Idle
<1>3. window' \in [Programs -> UNION {[1..n -> BOOLEAN] : n \in 0..WindowSize}]
  <2>1. StarvedIn(trouble) \in BOOLEAN /\ ClearedIn(trouble) \in BOOLEAN
    BY DEF StarvedIn, ClearedIn
  <2>2. \A p \in Programs : Tracked(p, ClearedIn(trouble), StarvedIn(trouble))
            \in UNION {[1..n -> BOOLEAN] : n \in 0..WindowSize}
    BY <2>1, TrackedWindow, WindowType
  <2> QED
    BY <2>2, EndCycleParts DEF WindowIn
<1>4. noted' \in [Programs -> 0..MaxPid]
  BY EndCycleParts DEF TypeOK, Facts
<1>5. evidence' \in [Programs -> 0..MissesToTrip]
  <2>1. evidence \in [Programs -> 0..MissesToTrip]
    BY DEF TypeOK
  <2>2. \A p \in Programs : /\ Older(evidence[p], MissesToTrip) \in 0..MissesToTrip
                            /\ evidence[p] \in 0..MissesToTrip
    BY <2>1, Numbers, OlderAge
  <2>3. MissesToTrip \in 0..MissesToTrip
    BY Numbers
  <2> QED
    BY <2>2, <2>3, EndCycleParts
<1>6. green' \in [known : BOOLEAN, since : 0..GreenBefore, cycles : 0..FatalGreen]
  BY EndCycleParts, TrackGate
<1>7. /\ lastAct' \in [Programs -> 0..Grace]
      /\ ledger' \in Ledgers /\ disk' \in Ledgers \cup {Unreadable}
      /\ \A t \in tasks' : t \in Tasks
  <2>0. /\ \A t \in tasks : t \in Tasks
        /\ lastAct \in [Programs -> 0..Grace]
        /\ disk \in Ledgers \cup {Unreadable}
    BY DEF TypeOK, Tasks
  <2>1. CASE EndsWithStarts(trouble)
    <3>1. StartDecisions(StartsIn(trouble)) \in Seq(Decisions)
      BY StartsFree, StartsDecided
    <3>2. \A t \in tasks' : t \in Tasks
      BY <2>0, <2>1, <3>1 DEF EndsWithStarts, Conclude, Tasks, Steps
    <3> QED
      BY <2>0, <2>1, <3>2, StartsBooked DEF EndsWithStarts, Conclude
  <2>2. ASSUME NEW p \in First(WindowIn(trouble), FreeIn(trouble)),
               EndsWithRestart(trouble, p)
        PROVE  /\ lastAct' \in [Programs -> 0..Grace]
               /\ ledger' \in Ledgers /\ disk' \in Ledgers \cup {Unreadable}
               /\ \A t \in tasks' : t \in Tasks
    <3> DEFINE d == Decision("restart", {p}, listed[p].pid, ShadowFor(p))
               l == Book(BookedStarts(trouble), {Booking(p, "restart")}, ShadowFor(p))
    <3>1. p \in Programs
      BY RestartFree
    <3>2. d \in Decisions
      BY <3>1, Numbers, WatchdogAssumption
      DEF Decision, Decisions, Would, ShadowFor, TypeOK, Facts, Ages
    <3>3. l \in Ledgers
      <4>1. Booking(p, "restart") \in Bookings /\ ShadowFor(p) \in BOOLEAN
        BY <3>1, Numbers, WatchdogAssumption DEF Booking, Bookings, ShadowFor
      <4> QED
        BY <4>1, StartsBooked, BookType
    <3>4. Conclude(l, <<d>>) /\ lastAct' = [lastAct EXCEPT ![p] = 0]
      BY <2>2 DEF EndsWithRestart
    <3> HIDE DEF d, l
    <3>5. \A t \in tasks' : t \in Tasks
      <4>1. [todo |-> <<d>>, step |-> "book"] \in Tasks /\ <<d>> # <<>>
        BY <3>2 DEF Tasks, Steps
      <4>2. tasks' = tasks \cup {[todo |-> <<d>>, step |-> "book"]}
        BY <3>4, <4>1 DEF Conclude
      <4> QED
        BY <2>0, <4>1, <4>2
    <3>6. ledger' = l /\ disk' \in {l, disk}
      BY <3>4 DEF Conclude
    <3>7. lastAct' \in [Programs -> 0..Grace]
      <4>1. 0 \in 0..Grace
        BY Numbers
      <4> QED
        BY <2>0, <3>4, <4>1, Zenon
    <3> QED
      BY <2>0, <3>3, <3>5, <3>6, <3>7
  <2> QED
    BY <2>1, <2>2, EndCycleParts
<1> QED
  BY <1>1, <1>2, <1>3, <1>4, <1>5, <1>6, <1>7 DEF TypeOK, Tasks

\* The watchdog's crash and the beginning of a cycle.
LEMMA CrashType ==
  ASSUME TypeOK, NEW file \in {disk, Unreadable}, Crash(file)
  PROVE  TypeOK'
<1>1. disk' \in Ledgers \cup {Unreadable} /\ ledger' \in Ledgers
  BY FirstLedgers DEF Crash, Load, TypeOK
<1>2. window' \in [Programs -> UNION {[1..n -> BOOLEAN] : n \in 0..WindowSize}]
  <2>1. <<>> \in Seq(BOOLEAN) /\ Len(<<>>) <= WindowSize
    BY Numbers
  <2>2. <<>> \in UNION {[1..n -> BOOLEAN] : n \in 0..WindowSize}
    BY <2>1, WindowType
  <2> QED
    BY <2>2 DEF Crash
<1>3. /\ uptime' \in 0..Grace /\ gap' \in 0..(PauseGap + 1)
      /\ listed' \in [Programs -> Facts]
      /\ noted' \in [Programs -> 0..MaxPid] /\ lastAct' \in [Programs -> 0..Grace]
      /\ faults' \in 0..MaxFaults
      /\ cycle' \in [on : BOOLEAN, late : BOOLEAN, inFlight : BOOLEAN, ok : BOOLEAN]
      /\ green' \in [known : BOOLEAN, since : 0..GreenBefore, cycles : 0..FatalGreen]
  BY Numbers DEF Crash, TypeOK, Fault, NothingListed, NotGreen, Idle, Facts, Ages
<1> QED
  BY <1>1, <1>2, <1>3 DEF Crash, TypeOK, world, ghosts

LEMMA BeginCycleType ==
  ASSUME TypeOK, NEW ok \in BOOLEAN, BeginCycle(ok)
  PROVE  TypeOK'
<1>1. faults' \in 0..MaxFaults
  BY Numbers DEF BeginCycle, TypeOK, Fault
<1>2. cycle' \in [on : BOOLEAN, late : BOOLEAN, inFlight : BOOLEAN, ok : BOOLEAN]
  BY DEF BeginCycle
<1>3. listed' \in [Programs -> Facts] /\ gap' \in 0..(PauseGap + 1)
  BY Numbers DEF BeginCycle, TypeOK
<1> QED
  BY <1>1, <1>2, <1>3 DEF BeginCycle, TypeOK, world, ghosts

\* Every step keeps the types.
LEMMA TypeStep == ASSUME TypeOK, TasksOK, [Next]_vars PROVE TypeOK'
<1>1. CASE WorldStep
  BY <1>1, WorldOnly DEF OnlyTheWorld, TypeOK, memory
<1>2. CASE Tick
  BY <1>2, TickType
<1>3. ASSUME NEW file \in {disk, Unreadable}, Crash(file) PROVE TypeOK'
  BY <1>3, CrashType
<1>4. ASSUME NEW ok \in BOOLEAN, BeginCycle(ok) PROVE TypeOK'
  BY <1>4, BeginCycleType
<1>5. ASSUME NEW trouble \in Troubles, EndCycle(trouble) PROVE TypeOK'
  BY <1>5, EndCycleType
<1>6. ASSUME NEW t \in tasks, ActionStep(t) PROVE TypeOK'
  <2>1. \A u \in tasks' : u \in Tasks
    BY <1>6, ActionGoesOn, GoesOnType
  <2> QED
    BY <1>6, <2>1, ActionOnly DEF OnlyTheAction, TypeOK, memory, Tasks
<1>7. CASE UNCHANGED vars
  BY <1>7 DEF vars, world, memory, ghosts, TypeOK
<1> QED
  BY <1>1, <1>2, <1>3, <1>4, <1>5, <1>6, <1>7 DEF Next, WorldStep

-----------------------------------------------------------------------------
(***************************************************************************)
(* What a cycle decides.                                                   *)
(***************************************************************************)

\* The decision d of this cycle: it is booked, and a restart is of a
\* program that trips.
Decided(trouble, d) ==
    /\ d.age = 0
    /\ ~d.would => \A p \in d.programs : BookedIn(ledger', d, p)
    /\ d.kind = "restart" =>
        \E p \in Programs : /\ d.programs = {p} /\ d.pid = listed[p].pid
                            /\ p \in Running /\ p \in Trips(WindowIn(trouble))
                            /\ ~StarvedIn(trouble)

NewAction(trouble, u) ==
    /\ tasks = {} /\ ledger.exhausted = 0
    /\ tasks' = {u} /\ u.step = "book" /\ Len(u.todo) > 0
    /\ \A i \in 1..Len(u.todo) : Decided(trouble, u.todo[i])

Outcome(trouble) ==
    /\ ledger.real \subseteq ledger'.real /\ ledger.shadow \subseteq ledger'.shadow
    /\ ledger'.exhausted = ledger.exhausted
    /\ ledger'.red = LedgerIn(trouble).red
    /\ disk' \in {ledger', disk}
    /\ Within(ledger.real) => Within(ledger'.real)
    /\ tasks' = tasks \/ \E u \in Tasks : NewAction(trouble, u)

\* A start's booking is a FATAL program's first within its budget, and no
\* restart; a restart's, its own and its pool's.
LEMMA StartsWithin ==
  ASSUME TypeOK, Within(ledger.real), NEW trouble
  PROVE  Within(ledger.real \cup RealStarts(trouble))
<1> DEFINE S == ledger.real
           T == ledger.real \cup RealStarts(trouble)
<1>0. S \in SUBSET Bookings /\ T \in SUBSET Bookings
  BY StartsBooked DEF TypeOK, Ledgers
<1>1. \A b \in RealStarts(trouble) :
        /\ b.action = "start" /\ b = Booking(b.program, "start")
        /\ b.program \in StartsIn(trouble) /\ ~ShadowFor(b.program)
  BY DEF RealStarts, Bookings0, Booking
<1>2. \A ps : Count(T, ps, "restart") <= Count(S, ps, "restart")
  <2>1. \A ps : \A b \in T : b.program \in ps /\ b.action = "restart" => b \in S
    BY <1>1
  <2> QED
    BY <1>0, <2>1, CountNoMore
<1>3. \A ps, a : Count(S, ps, a) \in Nat /\ Count(T, ps, a) \in Nat
  BY <1>0, CountedFinite
<1>4. ASSUME NEW p \in Programs
      PROVE  Count(T, {p}, "start") <= FatalBudget
  <2>1. CASE p \in StartsIn(trouble) /\ ~ShadowFor(p)
    <3>1. FreeNow(LedgerIn(trouble), p, "start", FALSE)
      BY <2>1, StartsFree, WatchdogAssumption DEF ShadowFor
    <3>2. Count(S, {p}, "start") < FatalBudget
      BY <3>1, TrackGate DEF FreeNow
    <3>3. Count(T, {p}, "start") <= Count(S, {p}, "start") + 1
      <4>1. \A b \in T : b.program \in {p} /\ b.action = "start" =>
                b \in S \/ b = Booking(p, "start")
        BY <1>1
      <4> QED
        BY <1>0, <4>1, CountOneMore
    <3> HIDE DEF S, T
    <3> QED
      BY <1>3, <3>2, <3>3, Numbers
  <2>2. CASE ~(p \in StartsIn(trouble) /\ ~ShadowFor(p))
    <3>1. Count(T, {p}, "start") <= Count(S, {p}, "start")
      <4>1. \A b \in T : b.program \in {p} /\ b.action = "start" => b \in S
        BY <1>1, <2>2
      <4> QED
        BY <1>0, <4>1, CountNoMore
    <3>2. Count(S, {p}, "start") <= FatalBudget
      BY DEF Within
    <3> HIDE DEF S, T
    <3> QED
      BY <1>3, <3>1, <3>2, Numbers
  <2> QED
    BY <2>1, <2>2
<1>5. ASSUME NEW p \in Programs
      PROVE  /\ Count(T, {p}, "restart") <= ProgramBudget
             /\ Count(T, PoolOf(p), "restart") <= PoolBudget
  <2>1. /\ Count(S, {p}, "restart") <= ProgramBudget
        /\ Count(S, PoolOf(p), "restart") <= PoolBudget
    BY DEF Within
  <2> HIDE DEF S, T
  <2> QED
    BY <1>2, <1>3, <2>1, Numbers
<1> QED
  BY <1>4, <1>5 DEF Within

LEMMA RestartWithin ==
  ASSUME NEW S \in SUBSET Bookings, Within(S), NEW p \in Programs,
         Count(S, {p}, "restart") < ProgramBudget,
         Count(S, PoolOf(p), "restart") < PoolBudget
  PROVE  Within(S \cup {Booking(p, "restart")})
<1> DEFINE x == Booking(p, "restart")
           T == S \cup {x}
<1>0. x \in Bookings /\ x.program = p /\ x.action = "restart" /\ T \in SUBSET Bookings
  BY Numbers DEF Booking, Bookings
<1> HIDE DEF x
<1>1. \A ps, a : Count(S, ps, a) \in Nat /\ Count(T, ps, a) \in Nat
  BY <1>0, CountedFinite
<1>2. \A ps, a : Count(T, ps, a) <= Count(S, ps, a) + 1
  <2>1. \A ps, a : \A b \in T : b.program \in ps /\ b.action = a => b \in S \/ b = x
    OBVIOUS
  <2> QED
    BY <1>0, <2>1, CountOneMore
<1>3. \A ps, a : p \notin ps \/ a # "restart" => Count(T, ps, a) <= Count(S, ps, a)
  <2> SUFFICES ASSUME NEW ps, NEW a, p \notin ps \/ a # "restart"
               PROVE  Count(T, ps, a) <= Count(S, ps, a)
    OBVIOUS
  <2>1. \A b \in T : b.program \in ps /\ b.action = a => b \in S
    BY <1>0
  <2> QED
    BY <1>0, <2>1, CountNoMore
<1> HIDE DEF T
<1>4. ASSUME NEW q \in Programs
      PROVE  /\ Count(T, {q}, "restart") <= ProgramBudget
             /\ Count(T, PoolOf(q), "restart") <= PoolBudget
             /\ Count(T, {q}, "start") <= FatalBudget
  <2>1. /\ Count(S, {q}, "restart") <= ProgramBudget
        /\ Count(S, PoolOf(q), "restart") <= PoolBudget
        /\ Count(S, {q}, "start") <= FatalBudget
    BY DEF Within
  <2>2. Count(T, {q}, "start") <= FatalBudget
    BY <1>1, <1>3, <2>1, Numbers
  <2>3. Count(T, {q}, "restart") <= ProgramBudget
    <3>1. CASE q = p
      BY <3>1, <1>1, <1>2, Numbers
    <3>2. CASE q # p
      BY <3>2, <1>1, <1>3, <2>1, Numbers
    <3> QED
      BY <3>1, <3>2
  <2>4. Count(T, PoolOf(q), "restart") <= PoolBudget
    <3>1. CASE p \in PoolOf(q)
      <4>1. PoolOf(q) = PoolOf(p)
        BY <3>1 DEF PoolOf
      <4> QED
        BY <4>1, <1>1, <1>2, Numbers
    <3>2. CASE p \notin PoolOf(q)
      BY <3>2, <1>1, <1>3, <2>1, Numbers
    <3> QED
      BY <3>1, <3>2
  <2> QED
    BY <2>2, <2>3, <2>4
<1> QED
  BY <1>4 DEF Within, T, x

LEMMA EndCycleOutcome ==
  ASSUME TypeOK, OneAction, NEW trouble \in Troubles, EndCycle(trouble)
  PROVE  Outcome(trouble)
<1>0. cycle.on /\ ledger \in Ledgers
  BY EndCycleParts DEF TypeOK
<1>1. CASE EndsWithStarts(trouble)
  <2> DEFINE todo == StartDecisions(StartsIn(trouble))
             u == [todo |-> todo, step |-> "book"]
             l == BookedStarts(trouble)
  <2>1. /\ ledger' = l /\ disk' \in {l, disk}
        /\ tasks' = tasks \cup (IF todo = <<>> THEN {} ELSE {u})
    BY <1>1 DEF EndsWithStarts, Conclude
  <2>2. /\ l.real = ledger.real \cup RealStarts(trouble)
        /\ l.shadow = ledger.shadow \cup ShadowStarts(trouble)
        /\ l.exhausted = ledger.exhausted /\ l.red = LedgerIn(trouble).red
    BY StartsBooked
  <2>3. Within(ledger.real) => Within(l.real)
    BY <2>2, StartsWithin
  <2>4. CASE todo = <<>>
    BY <2>1, <2>2, <2>3, <2>4 DEF Outcome
  <2>5. CASE todo # <<>>
    <3>1. StartsIn(trouble) \in SUBSET Programs
      BY StartsFree
    <3>2. /\ todo \in Seq(Decisions) /\ StartsIn(trouble) # {}
          /\ \A i \in 1..Len(todo) :
                /\ todo[i].kind = "start" /\ todo[i].age = 0
                /\ todo[i].programs \subseteq StartsIn(trouble)
                /\ ~todo[i].would => \A p \in todo[i].programs : ~ShadowFor(p)
      BY <2>5, <3>1, StartsDecided
    <3>3. tasks = {} /\ ledger.exhausted = 0
      <4>1. PICK p \in StartsIn(trouble) : TRUE
        BY <3>2
      <4>2. ~cycle.inFlight /\ LedgerIn(trouble).exhausted = 0
        BY StartsFree DEF FreeNow
      <4> QED
        BY <1>0, <4>2, TrackGate DEF OneAction
    <3> HIDE DEF todo, l
    <3>4. u \in Tasks /\ u.todo = todo /\ u.step = "book" /\ Len(todo) > 0
      BY <2>5, <3>2 DEF Tasks, Steps
    <3>5. ASSUME NEW i \in 1..Len(todo)
          PROVE  Decided(trouble, todo[i])
      <4>1. ASSUME ~todo[i].would, NEW p \in todo[i].programs
            PROVE  BookedIn(ledger', todo[i], p)
        <5>1. [program |-> p, action |-> "start", age |-> 0] \in RealStarts(trouble)
          BY <3>2, <4>1 DEF RealStarts, Bookings0, Booking
        <5> QED
          BY <5>1, <2>1, <2>2, <3>2 DEF BookedIn
      <4> QED
        BY <3>2, <4>1 DEF Decided
    <3>6. NewAction(trouble, u)
      <4>1. tasks' = {u}
        BY <2>1, <2>5, <3>3
      <4> HIDE DEF u
      <4> QED
        BY <3>3, <3>4, <3>5, <4>1 DEF NewAction
    <3> QED
      BY <2>1, <2>2, <2>3, <3>4, <3>6 DEF Outcome
  <2> QED
    BY <2>4, <2>5
<1>2. ASSUME NEW p \in First(WindowIn(trouble), FreeIn(trouble)), EndsWithRestart(trouble, p)
      PROVE  Outcome(trouble)
  <2> DEFINE d == Decision("restart", {p}, listed[p].pid, ShadowFor(p))
             u == [todo |-> <<d>>, step |-> "book"]
             b == Booking(p, "restart")
             s == BookedStarts(trouble)
             l == Book(s, {b}, ShadowFor(p))
  <2>1. /\ p \in Programs /\ p \in Running /\ p \in Trips(WindowIn(trouble))
        /\ ~StarvedIn(trouble) /\ ~cycle.inFlight
        /\ FreeNow(s, p, "restart", ShadowFor(p))
    BY RestartFree
  <2>2. d \in Decisions
    BY <2>1, Numbers, WatchdogAssumption
    DEF Decision, Decisions, Would, ShadowFor, TypeOK, Facts, Ages
  <2>3. /\ d.kind = "restart" /\ d.programs = {p} /\ d.pid = listed[p].pid
        /\ d.age = 0
        /\ ~d.would => ~ShadowFor(p)
    BY DEF Decision, Would
  <2>4. /\ s \in Ledgers /\ s.exhausted = ledger.exhausted
        /\ ledger.real \subseteq s.real /\ ledger.shadow \subseteq s.shadow
        /\ Within(ledger.real) => Within(s.real)
        /\ s.red = LedgerIn(trouble).red
    BY StartsBooked, StartsWithin
  <2>5. b \in Bookings /\ ShadowFor(p) \in BOOLEAN
    BY <2>1, Numbers, WatchdogAssumption DEF Booking, Bookings, ShadowFor
  <2>6. /\ l.exhausted = s.exhausted /\ l.red = s.red
        /\ l.real = IF ShadowFor(p) THEN s.real ELSE s.real \cup {b}
        /\ s.shadow \subseteq l.shadow
    <3>1. {b} \in SUBSET Bookings
      BY <2>5
    <3>2. /\ l.exhausted = s.exhausted /\ l.red = s.red
          /\ l.real = IF ShadowFor(p) THEN s.real ELSE s.real \cup {b}
          /\ l.shadow = IF ShadowFor(p) THEN s.shadow \cup {b} ELSE s.shadow
      <4> HIDE DEF s, b
      <4>1. CASE ShadowFor(p)
        BY <2>4, <4>1 DEF Book, Ledgers
      <4>2. CASE ~ShadowFor(p)
        BY <2>4, <4>2 DEF Book, Ledgers
      <4> QED
        BY <4>1, <4>2
    <3> QED
      BY <3>2
  <2>7. Conclude(l, <<d>>)
    BY <1>2 DEF EndsWithRestart
  <2>8. tasks = {} /\ s.exhausted = 0
    BY <1>0, <2>1 DEF OneAction, FreeNow
  <2>9. Within(s.real) => Within(l.real)
    <3>1. CASE ShadowFor(p)
      BY <2>6, <3>1
    <3>2. CASE ~ShadowFor(p)
      <4>1. /\ Count(s.real, {p}, "restart") < ProgramBudget
            /\ Count(s.real, PoolOf(p), "restart") < PoolBudget
        BY <2>1, <3>2 DEF FreeNow
      <4>2. s.real \in SUBSET Bookings
        BY <2>4 DEF Ledgers
      <4>3. l.real = s.real \cup {b}
        BY <2>6, <3>2
      <4> QED
        BY <2>1, <4>1, <4>2, <4>3, RestartWithin
    <3> QED
      BY <3>1, <3>2
  <2>10. ~d.would => BookedIn(l, d, p)
    <3> HIDE DEF d, l, s
    <3> QED
      BY <2>3, <2>6 DEF BookedIn, Booking
  <2> HIDE DEF d, l, s, b
  <2>11. u \in Tasks /\ u.step = "book" /\ Len(u.todo) = 1 /\ u.todo[1] = d /\ <<d>> # <<>>
    BY <2>2 DEF Tasks, Steps
  <2>12. tasks' = {u} /\ ledger' = l /\ disk' \in {l, disk}
    BY <2>7, <2>8, <2>11 DEF Conclude
  <2> HIDE DEF u
  <2>13. Decided(trouble, d)
    BY <2>1, <2>3, <2>10, <2>12 DEF Decided
  <2>14. NewAction(trouble, u)
    BY <2>4, <2>8, <2>11, <2>12, <2>13 DEF NewAction
  <2> QED
    BY <2>4, <2>6, <2>9, <2>11, <2>12, <2>14 DEF Outcome
<1> QED
  BY <1>1, <1>2, EndCycleParts

\* H8: the action in flight is alone.
LEMMA OneActionStep == ASSUME TypeOK, OneAction, TasksOK, [Next]_vars PROVE OneAction'
<1>1. CASE WorldStep
  BY <1>1, WorldOnly DEF OnlyTheWorld, OneAction, memory
<1>2. CASE Tick
  BY <1>2 DEF Tick, OneAction
<1>3. ASSUME NEW file \in {disk, Unreadable}, Crash(file) PROVE OneAction'
  BY <1>3 DEF Crash, OneAction, Idle
<1>4. ASSUME NEW ok \in BOOLEAN, BeginCycle(ok) PROVE OneAction'
  BY <1>4 DEF BeginCycle, OneAction
<1>5. ASSUME NEW trouble \in Troubles, EndCycle(trouble) PROVE OneAction'
  <2>1. cycle' = Idle
    BY <1>5, EndCycleParts
  <2>2. tasks' = tasks \/ \E u : tasks' = {u}
    BY <1>5, EndCycleOutcome DEF Outcome, NewAction
  <2> QED
    BY <2>1, <2>2 DEF OneAction, Idle
<1>6. ASSUME NEW t \in tasks, ActionStep(t) PROVE OneAction'
  <2>1. tasks = {t} /\ cycle' = cycle /\ ~(cycle.on /\ ~cycle.inFlight)
    BY <1>6, ActionOnly DEF OneAction, OnlyTheAction, memory
  <2>2. tasks' = {} \/ \E u : tasks' = {u}
    <3>1. tasks' = tasks \ {t} \/ \E u : tasks' = (tasks \ {t}) \cup {u}
      BY <1>6, ActionGoesOn, Zenon DEF GoesOn
    <3> QED
      BY <2>1, <3>1
  <2> QED
    BY <2>1, <2>2 DEF OneAction
<1>7. CASE UNCHANGED vars
  BY <1>7 DEF vars, memory, OneAction
<1> QED
  BY <1>1, <1>2, <1>3, <1>4, <1>5, <1>6, <1>7 DEF Next, WorldStep

-----------------------------------------------------------------------------
(***************************************************************************)
(* The actions in flight stay booked, and about the processes they were    *)
(* decided for.                                                            *)
(***************************************************************************)

\* What no step undoes: the bookings in memory, the evidence against a
\* process, and the order of pids.
Grows ==
    /\ ledger.real \subseteq ledger'.real
    /\ \A p \in Programs :
         \/ /\ prog'[p].pid = prog[p].pid
            /\ evidence[p] = MissesToTrip => evidence'[p] = MissesToTrip
         \/ prog'[p].pid = prog[p].pid + 1

LEMMA DecisionKept ==
  ASSUME TypeOK, NEW d \in Decisions, DecisionOK(d), Grows
  PROVE  DecisionOK(d)'
<1>1. ASSUME d.kind = "restart"
      PROVE  \E p \in Programs : /\ d.programs = {p}
                                 /\ d.pid <= prog'[p].pid
                                 /\ d.pid = prog'[p].pid => evidence'[p] = MissesToTrip
  <2>1. PICK p \in Programs : /\ d.programs = {p} /\ d.pid <= prog[p].pid
                              /\ d.pid = prog[p].pid => evidence[p] = MissesToTrip
    BY <1>1 DEF DecisionOK
  <2>2. d.pid \in Nat /\ prog[p].pid \in Nat
    BY Numbers DEF Decisions, TypeOK, Facts
  <2>3. \/ /\ prog'[p].pid = prog[p].pid
           /\ evidence[p] = MissesToTrip => evidence'[p] = MissesToTrip
        \/ prog'[p].pid = prog[p].pid + 1
    BY DEF Grows
  <2>4. /\ d.pid <= prog'[p].pid
        /\ d.pid = prog'[p].pid => evidence'[p] = MissesToTrip
    <3>1. CASE prog'[p].pid = prog[p].pid + 1
      BY <2>1, <2>2, <3>1
    <3>2. CASE /\ prog'[p].pid = prog[p].pid
               /\ evidence[p] = MissesToTrip => evidence'[p] = MissesToTrip
      BY <2>1, <3>2
    <3> QED
      BY <2>3, <3>1, <3>2
  <2> QED
    BY <2>1, <2>4, Zenon
<1>2. ~d.would => \A p \in d.programs : BookedIn(ledger', d, p)
  BY DEF DecisionOK, BookedIn, Grows
<1> QED
  BY <1>1, <1>2 DEF DecisionOK

\* An action in flight that does not move.
LEMMA TaskKept ==
  ASSUME TypeOK, TypeOK', NEW t \in Tasks, TaskOK(t), Grows, disk' \in {disk, ledger'}
  PROVE  TaskOK(t)'
<1>1. \A i \in 1..Len(t.todo) : t.todo[i] \in Decisions
  BY DEF Tasks
<1>2. \A i \in 1..Len(t.todo) : DecisionOK(t.todo[i])'
  BY <1>1, DecisionKept DEF TaskOK
<1>3. 1 \in 1..Len(t.todo) /\ Len(t.todo) > 0
  BY DEF TaskOK, Tasks
<1>4. ASSUME t.step # "book"
      PROVE  /\ disk' # Unreadable
             /\ ~t.todo[1].would =>
                  \A p \in t.todo[1].programs : BookedIn(disk', t.todo[1], p)
  <2>1. CASE disk' = disk
    BY <1>4, <2>1 DEF TaskOK
  <2>2. CASE disk' = ledger'
    <3>1. disk' # Unreadable
      BY <2>2, WatchdogAssumption DEF TypeOK
    <3>2. ~t.todo[1].would => \A p \in t.todo[1].programs : BookedIn(ledger', t.todo[1], p)
      BY <1>2, <1>3 DEF DecisionOK
    <3> QED
      BY <2>2, <3>1, <3>2
  <2> QED
    BY <2>1, <2>2
<1> QED
  BY <1>2, <1>3, <1>4 DEF TaskOK

\* An action that goes on to its next decision.
LEMMA TaskNext ==
  ASSUME NEW t \in Tasks, TaskOK(t)', Len(t.todo) # 1
  PROVE  TaskOK([todo |-> Tail(t.todo), step |-> "book"])'
<1> DEFINE u == [todo |-> Tail(t.todo), step |-> "book"]
<1>1. Len(t.todo) > 0 /\ \A i \in 1..Len(t.todo) : DecisionOK(t.todo[i])'
  BY DEF TaskOK
<1>2. /\ Len(u.todo) > 0 /\ u.step = "book"
      /\ \A i \in 1..Len(u.todo) : /\ i + 1 \in 1..Len(t.todo)
                                   /\ u.todo[i] = t.todo[i + 1]
  BY <1>1, TailTask
<1> HIDE DEF u
<1>3. \A i \in 1..Len(u.todo) : DecisionOK(u.todo[i])'
  BY <1>1, <1>2
<1>4. TaskOK(u)'
  BY <1>2, <1>3 DEF TaskOK
<1> QED
  BY <1>4 DEF u

\* An action that goes on to the step s with the same decision.
LEMMA TaskProceeds ==
  ASSUME NEW t \in Tasks, TaskOK(t)', NEW s \in Steps,
         s \in {"verify", "term", "kill", "confirm"} => t.todo[1].kind = "restart",
         s = "start" => t.todo[1].kind = "start",
         s \in {"term", "kill", "confirm", "start"} => ~t.todo[1].would,
         disk' # Unreadable,
         ~t.todo[1].would => \A p \in t.todo[1].programs : BookedIn(disk', t.todo[1], p)
  PROVE  TaskOK([t EXCEPT !.step = s])'
<1> DEFINE u == [t EXCEPT !.step = s]
<1>1. u.todo = t.todo /\ u.step = s
  BY StepTask
<1> HIDE DEF u
<1>2. TaskOK(u)'
  BY <1>1 DEF TaskOK
<1> QED
  BY <1>2 DEF u

\* A batch with a program less.
LEMMA TaskStarts ==
  ASSUME NEW t \in Tasks, TaskOK(t)', t.step = "start", NEW p
  PROVE  TaskOK([t EXCEPT !.todo[1].programs = @ \ {p}])'
<1> DEFINE u == [t EXCEPT !.todo[1].programs = @ \ {p}]
           d == t.todo[1]
           e == [d EXCEPT !.programs = @ \ {p}]
<1>1. /\ Len(t.todo) > 0 /\ d.kind = "start" /\ ~d.would
      /\ \A i \in 1..Len(t.todo) : DecisionOK(t.todo[i])'
      /\ disk' # Unreadable /\ \A q \in d.programs : BookedIn(disk', d, q)
  BY DEF TaskOK
<1>2. /\ Len(u.todo) = Len(t.todo) /\ u.step = t.step
      /\ u.todo[1] = e
      /\ \A i \in 2..Len(t.todo) : u.todo[i] = t.todo[i]
  BY <1>1, StartTask
<1>3. d \in Decisions /\ Len(t.todo) \in Nat
  BY <1>1 DEF Tasks
<1>4. /\ e.kind = d.kind /\ e.age = d.age /\ e.would = d.would
      /\ e.programs \subseteq d.programs
  BY <1>3 DEF Decisions
<1>5. DecisionOK(d)'
  BY <1>1, <1>3
<1> HIDE DEF u, d, e
<1>6. DecisionOK(e)' /\ \A q \in e.programs : BookedIn(disk', e, q)
  BY <1>1, <1>4, <1>5 DEF DecisionOK, BookedIn
<1>7. \A i \in 1..Len(u.todo) : DecisionOK(u.todo[i])'
  <2>1. \A i \in 1..Len(t.todo) : i = 1 \/ i \in 2..Len(t.todo)
    BY <1>3
  <2> QED
    BY <1>1, <1>2, <1>6, <2>1
<1>8. TaskOK(u)'
  BY <1>1, <1>2, <1>4, <1>6, <1>7 DEF TaskOK
<1> QED
  BY <1>8 DEF u

-----------------------------------------------------------------------------
(***************************************************************************)
(* Evidence.                                                               *)
(***************************************************************************)

\* A cycle that counts a miss has seen it of the process that runs now, if
\* that is the process supervisord named; a program trips on that alone.
LEMMA CycleEvidence ==
  ASSUME TypeOK, EvidenceOK, NEW trouble \in Troubles, EndCycle(trouble), NEW p \in Programs
  PROVE  /\ evidence[p] = MissesToTrip => evidence'[p] = MissesToTrip
         /\ evidence'[p] \in 0..MissesToTrip
         /\ Misses(window'[p]) \in Nat
         /\ p \in Running /\ listed[p].pid = prog[p].pid =>
              \/ evidence'[p] = MissesToTrip
              \/ Misses(window'[p]) <= evidence'[p]
         /\ /\ p \in Running /\ listed[p].pid = prog[p].pid
            /\ p \in Trips(WindowIn(trouble)) /\ ~StarvedIn(trouble)
            => evidence'[p] = MissesToTrip
         /\ p \notin Running => /\ evidence'[p] = evidence[p]
                               /\ \/ window'[p] = <<>>
                                  \/ window'[p] = window[p]
<1> DEFINE starved == StarvedIn(trouble)
           cleared == ClearedIn(trouble)
           anew == cleared \/ (p \in Running /\ noted[p] \notin {0, listed[p].pid})
           before == IF anew THEN 0 ELSE Misses(window[p])
           w == Tracked(p, cleared, starved)
           e == evidence[p]
           f == evidence'[p]
<1>1. starved \in BOOLEAN /\ cleared \in BOOLEAN
  BY DEF StarvedIn, ClearedIn
<1>2. /\ w \in Seq(BOOLEAN) /\ before \in Nat /\ Misses(w) \in Nat
      /\ Misses(w) <= before + 1
      /\ starved \/ p \notin Missed => Misses(w) <= before
      /\ p \notin Running => w = IF cleared THEN <<>> ELSE window[p]
  BY <1>1, TrackedWindow
<1>3. window'[p] = w
  BY EndCycleParts DEF WindowIn
<1>4. f = IF starved THEN e
          ELSE IF p \in Stuck THEN MissesToTrip
          ELSE IF p \in Missed THEN Older(e, MissesToTrip) ELSE e
  BY EndCycleParts
<1>5. e \in 0..MissesToTrip /\ MissesToTrip \in Nat
  BY Numbers DEF TypeOK
<1>6. p \in Running /\ listed[p].pid = prog[p].pid => e = MissesToTrip \/ before <= e
  <2> SUFFICES ASSUME p \in Running, listed[p].pid = prog[p].pid
               PROVE  e = MissesToTrip \/ before <= e
    OBVIOUS
  <2>1. CASE anew
    BY <2>1, <1>5
  <2>2. CASE ~anew /\ noted[p] = 0
    <3>1. window[p] = <<>>
      BY <2>2 DEF EvidenceOK, OwnEvidence
    <3>2. before = 0
      BY <2>2, <3>1, MissesEmpty
    <3> QED
      BY <3>2, <1>5
  <2>3. CASE ~anew /\ noted[p] # 0
    <3>1. noted[p] = prog[p].pid /\ before = Misses(window[p])
      BY <2>3
    <3> QED
      BY <3>1 DEF EvidenceOK, OwnEvidence
  <2> QED
    BY <2>1, <2>2, <2>3
<1>7. p \in Stuck => p \notin Missed
  BY DEF Stuck, Missed
<1>8. p \notin Running => p \notin Stuck /\ p \notin Missed
  BY DEF Stuck, Missed
<1>9. p \in Trips(WindowIn(trouble)) =>
        p \in Stuck \/ (p \in Missed /\ Misses(w) >= MissesToTrip)
  BY DEF Trips, Failing, Section, Judged, WindowIn
<1> HIDE DEF starved, cleared, before, w, e, f
<1>10. f \in 0..MissesToTrip /\ (e = MissesToTrip => f = MissesToTrip)
  BY <1>4, <1>5 DEF Older
<1>11. p \in Running /\ listed[p].pid = prog[p].pid =>
         f = MissesToTrip \/ Misses(w) <= f
  <2> SUFFICES ASSUME e # MissesToTrip, before <= e
               PROVE  f = MissesToTrip \/ Misses(w) <= f
    BY <1>6, <1>10
  <2>1. CASE starved \/ p \notin Missed
    <3>1. f = e \/ f = MissesToTrip
      BY <2>1, <1>4
    <3>2. Misses(w) <= before
      BY <2>1, <1>2
    <3> QED
      BY <3>1, <3>2, <1>2, <1>5
  <2>2. CASE ~starved /\ p \in Missed
    <3>1. f = e + 1
      BY <2>2, <1>4, <1>5, <1>7 DEF Older
    <3> QED
      BY <3>1, <1>2, <1>5
  <2> QED
    BY <2>1, <2>2
<1>12. /\ p \in Running /\ listed[p].pid = prog[p].pid
       /\ p \in Trips(WindowIn(trouble)) /\ ~starved
       => f = MissesToTrip
  <2> SUFFICES ASSUME p \in Running, listed[p].pid = prog[p].pid,
                      p \in Trips(WindowIn(trouble)), ~starved
               PROVE  f = MissesToTrip
    OBVIOUS
  <2>1. CASE p \in Stuck
    BY <2>1, <1>4
  <2>2. CASE Misses(w) >= MissesToTrip
    BY <2>2, <1>2, <1>5, <1>10, <1>11
  <2> QED
    BY <2>1, <2>2, <1>9
<1>13. p \notin Running => f = e /\ (w = <<>> \/ w = window[p])
  BY <1>2, <1>4, <1>8
<1> QED
  BY <1>2, <1>3, <1>10, <1>11, <1>12, <1>13 DEF e, f, w, starved

LEMMA EvidenceStep ==
  ASSUME TypeOK, TasksOK, EvidenceOK, [Next]_vars
  PROVE  EvidenceOK'
<1> SUFFICES ASSUME NEW p \in Programs PROVE OwnEvidence(p)'
  BY DEF EvidenceOK
<1>0. /\ prog[p].pid \in Nat /\ listed[p].pid \in Nat /\ noted[p] \in Nat
      /\ OwnEvidence(p) /\ listed[p].st \in States \cup {"UNKNOWN"}
      /\ prog[p].st \in States \cup {"UNKNOWN"}
  BY Numbers DEF TypeOK, Facts, EvidenceOK
<1>1. CASE WorldStep
  <2>1. /\ listed' = listed /\ noted' = noted /\ window' = window
        /\ \/ prog'[p].pid = prog[p].pid /\ evidence'[p] = evidence[p]
           \/ prog'[p].pid = prog[p].pid + 1
    BY <1>1, WorldOnly DEF OnlyTheWorld, memory
  <2> QED
    BY <1>0, <2>1 DEF OwnEvidence
<1>2. CASE Tick
  <2>1. /\ prog'[p].pid = prog[p].pid /\ listed'[p].pid = listed[p].pid
        /\ listed'[p].st = listed[p].st
    BY <1>2 DEF Tick, TypeOK, Facts
  <2>2. noted' = noted /\ window' = window /\ evidence' = evidence
    BY <1>2 DEF Tick
  <2> QED
    BY <1>0, <2>1, <2>2 DEF OwnEvidence
<1>3. ASSUME NEW file \in {disk, Unreadable}, Crash(file) PROVE OwnEvidence(p)'
  <2>1. /\ prog'[p] = prog[p] /\ listed'[p].pid = 0 /\ listed'[p].st = "UNKNOWN"
        /\ noted'[p] = 0 /\ window'[p] = <<>>
    BY <1>3 DEF Crash, world, NothingListed
  <2> QED
    BY <1>0, <2>1 DEF OwnEvidence
<1>4. ASSUME NEW ok \in BOOLEAN, BeginCycle(ok) PROVE OwnEvidence(p)'
  <2>1. /\ prog' = prog /\ listed'[p] \in {prog[p], listed[p]}
        /\ noted' = noted /\ window' = window /\ evidence' = evidence
    BY <1>4 DEF BeginCycle, world, ghosts
  <2> QED
    BY <1>0, <2>1 DEF OwnEvidence
<1>5. ASSUME NEW trouble \in Troubles, EndCycle(trouble) PROVE OwnEvidence(p)'
  <2>1. /\ prog' = prog /\ listed' = listed
        /\ noted'[p] = IF p \in Running THEN listed[p].pid ELSE noted[p]
    BY <1>5, EndCycleParts DEF world
  <2>2. CASE p \in Running
    <3>1. listed[p].pid > 0 /\ noted'[p] = listed[p].pid
      BY <1>0, <2>1, <2>2 DEF OwnEvidence, Running
    <3>2. listed[p].pid = prog[p].pid =>
            evidence'[p] = MissesToTrip \/ Misses(window'[p]) <= evidence'[p]
      BY <1>5, <2>2, CycleEvidence
    <3> QED
      BY <1>0, <2>1, <3>1, <3>2 DEF OwnEvidence
  <2>3. CASE p \notin Running
    <3>1. /\ evidence'[p] = evidence[p] /\ noted'[p] = noted[p]
          /\ window'[p] = <<>> \/ window'[p] = window[p]
          /\ evidence'[p] \in 0..MissesToTrip
      BY <1>5, <2>1, <2>3, CycleEvidence
    <3> QED
      BY <1>0, <2>1, <3>1, MissesEmpty, Numbers DEF OwnEvidence
  <2> QED
    BY <2>2, <2>3
<1>6. ASSUME NEW t \in tasks, ActionStep(t) PROVE OwnEvidence(p)'
  <2>1. /\ listed' = listed /\ noted' = noted /\ window' = window
        /\ evidence' = evidence /\ prog'[p].pid = prog[p].pid
    BY <1>6, ActionOnly DEF OnlyTheAction, memory
  <2> QED
    BY <1>0, <2>1 DEF OwnEvidence
<1>7. CASE UNCHANGED vars
  BY <1>0, <1>7 DEF vars, world, memory, ghosts, OwnEvidence
<1> QED
  BY <1>1, <1>2, <1>3, <1>4, <1>5, <1>6, <1>7 DEF Next, WorldStep

-----------------------------------------------------------------------------
(***************************************************************************)
(* The actions in flight, step by step.                                    *)
(***************************************************************************)

\* A booking and its decision grow old together.
LEMMA OlderBooked ==
  ASSUME NEW l \in Ledgers, NEW d \in Decisions, NEW p \in d.programs, BookedIn(l, d, p)
  PROVE  BookedIn(OlderLedger(l), [d EXCEPT !.age = Older(@, BudgetWindow)], p)
<1> DEFINE e == [d EXCEPT !.age = Older(@, BudgetWindow)]
           b == [program |-> p, action |-> d.kind, age |-> d.age]
           c == [program |-> p, action |-> d.kind, age |-> d.age + 1]
<1>1. /\ d.age \in 0..BudgetWindow /\ e.kind = d.kind
      /\ e.age = Older(d.age, BudgetWindow)
  BY DEF Decisions, Ages
<1>2. OlderLedger(l).real = OlderBookings(l.real) /\ l.real \in SUBSET Bookings
  BY DEF OlderLedger, Ledgers
<1>3. CASE e.age = BudgetWindow
  BY <1>3 DEF BookedIn
<1>4. CASE e.age # BudgetWindow
  <2>1. d.age + 1 < BudgetWindow /\ e.age = d.age + 1
    BY <1>1, <1>4, Numbers DEF Older
  <2>2. b \in l.real
    BY <2>1, <1>1, Numbers DEF BookedIn
  <2>3. [b EXCEPT !.age = @ + 1] \in OlderBookings(l.real)
    BY <1>2, <2>1, <2>2, OlderBookingsType
  <2>4. [b EXCEPT !.age = @ + 1] = c
    OBVIOUS
  <2> HIDE DEF e
  <2> QED
    BY <1>1, <1>2, <2>1, <2>3, <2>4 DEF BookedIn
<1> QED
  BY <1>3, <1>4

LEMMA TickTasks == ASSUME TypeOK, TasksOK, Tick PROVE TasksOK'
<1>1. tasks' = {OlderTask(t) : t \in tasks}
  BY DEF Tick, OlderTask
<1> SUFFICES ASSUME NEW t \in tasks PROVE TaskOK(OlderTask(t))'
  BY <1>1 DEF TasksOK
<1>2. t \in Tasks /\ TaskOK(t) /\ Len(t.todo) > 0 /\ Len(t.todo) \in Nat
  BY CurrentDecision DEF TasksOK
<1> DEFINE u == OlderTask(t)
           o(d) == [d EXCEPT !.age = Older(@, BudgetWindow)]
<1>3. /\ u \in Tasks /\ Len(u.todo) = Len(t.todo) /\ u.step = t.step
      /\ \A i \in 1..Len(t.todo) : t.todo[i] \in Decisions /\ u.todo[i] = o(t.todo[i])
  BY <1>2, OldTask
<1>4. \A d \in Decisions : /\ o(d).kind = d.kind /\ o(d).programs = d.programs
                           /\ o(d).pid = d.pid /\ o(d).would = d.would
  BY DEF Decisions
<1>5. \A l \in Ledgers, d \in Decisions : \A p \in d.programs :
        BookedIn(l, d, p) => BookedIn(OlderLedger(l), o(d), p)
  BY OlderBooked
<1> HIDE DEF u, o
<1>6. /\ ledger \in Ledgers /\ ledger' = OlderLedger(ledger) /\ evidence' = evidence
      /\ \A p \in Programs : prog'[p].pid = prog[p].pid
  BY DEF Tick, TypeOK, Facts
<1>7. ASSUME NEW i \in 1..Len(u.todo) PROVE DecisionOK(u.todo[i])'
  <2> DEFINE d == t.todo[i]
  <2>1. d \in Decisions /\ u.todo[i] = o(d) /\ DecisionOK(d)
    BY <1>2, <1>3 DEF TaskOK
  <2> HIDE DEF d
  <2>2. DecisionOK(o(d))'
    BY <1>4, <1>5, <1>6, <2>1 DEF DecisionOK
  <2> QED
    BY <2>1, <2>2
<1>8. ASSUME t.step # "book"
      PROVE  /\ disk' # Unreadable
             /\ ~u.todo[1].would =>
                  \A p \in u.todo[1].programs : BookedIn(disk', u.todo[1], p)
  <2> DEFINE d == t.todo[1]
  <2>1. /\ d \in Decisions /\ u.todo[1] = o(d)
        /\ disk # Unreadable
        /\ ~d.would => \A p \in d.programs : BookedIn(disk, d, p)
    BY <1>2, <1>3, <1>8 DEF TaskOK
  <2>2. disk \in Ledgers /\ disk' = OlderLedger(disk)
    BY <2>1 DEF Tick, TypeOK
  <2>3. disk' # Unreadable
    BY <2>2, OlderLedgerType, WatchdogAssumption
  <2> HIDE DEF d
  <2> QED
    BY <1>4, <1>5, <2>1, <2>2, <2>3
<1>9. u.todo[1].kind = t.todo[1].kind /\ u.todo[1].would = t.todo[1].would
  BY <1>2, <1>3, <1>4
<1>10. TaskOK(u)'
  BY <1>2, <1>3, <1>7, <1>8, <1>9 DEF TaskOK
<1> QED
  BY <1>10 DEF u

LEMMA EndCycleTasks ==
  ASSUME TypeOK, TypeOK', OneAction, TasksOK, EvidenceOK,
         NEW trouble \in Troubles, EndCycle(trouble)
  PROVE  TasksOK'
<1>1. Outcome(trouble)
  BY EndCycleOutcome
<1>2. prog' = prog
  BY EndCycleParts DEF world
<1>3. CASE tasks' = tasks
  <2>1. Grows
    BY <1>1, <1>2, CycleEvidence DEF Grows, Outcome
  <2>2. disk' \in {disk, ledger'}
    BY <1>1 DEF Outcome
  <2>3. \A t \in tasks : TaskOK(t)'
    BY <2>1, <2>2, TaskKept, CurrentDecision DEF TasksOK
  <2> QED
    BY <1>3, <2>3 DEF TasksOK
<1>4. ASSUME NEW u \in Tasks, NewAction(trouble, u) PROVE TasksOK'
  <2>1. /\ tasks' = {u} /\ u.step = "book" /\ Len(u.todo) > 0
        /\ \A i \in 1..Len(u.todo) : Decided(trouble, u.todo[i])
    BY <1>4 DEF NewAction
  <2>2. ASSUME NEW d, Decided(trouble, d) PROVE DecisionOK(d)'
    <3>1. ASSUME d.kind = "restart"
          PROVE  \E p \in Programs : /\ d.programs = {p}
                                     /\ d.pid <= prog'[p].pid
                                     /\ d.pid = prog'[p].pid => evidence'[p] = MissesToTrip
      <4>1. PICK p \in Programs : /\ d.programs = {p} /\ d.pid = listed[p].pid
                                  /\ p \in Running /\ p \in Trips(WindowIn(trouble))
                                  /\ ~StarvedIn(trouble)
        BY <2>2, <3>1 DEF Decided
      <4>2. d.pid <= prog'[p].pid
        BY <1>2, <4>1 DEF EvidenceOK, OwnEvidence
      <4>3. d.pid = prog'[p].pid => evidence'[p] = MissesToTrip
        BY <1>2, <4>1, CycleEvidence
      <4> QED
        BY <4>1, <4>2, <4>3
    <3>2. ~d.would => \A p \in d.programs : BookedIn(ledger', d, p)
      BY <2>2 DEF Decided
    <3> QED
      BY <3>1, <3>2 DEF DecisionOK
  <2>3. \A i \in 1..Len(u.todo) : DecisionOK(u.todo[i])'
    BY <2>1, <2>2
  <2>4. TaskOK(u)'
    BY <2>1, <2>3 DEF TaskOK
  <2> QED
    BY <2>1, <2>4 DEF TasksOK
<1> QED
  BY <1>1, <1>3, <1>4 DEF Outcome

\* The action's own steps: it passes _book only with its booking on disk,
\* and only what is no would-action goes on to signal or start.
LEMMA ActionTasks ==
  ASSUME TypeOK, TypeOK', OneAction, TasksOK, NEW t \in tasks, ActionStep(t)
  PROVE  TasksOK'
<1> DEFINE d == t.todo[1]
<1>1. /\ t \in Tasks /\ Len(t.todo) > 0 /\ Current(t) = d /\ TaskOK(t)
      /\ tasks \ {t} = {}
  BY CurrentDecision DEF TasksOK, OneAction
<1>2. OnlyTheAction
  BY ActionOnly
<1>3. Grows /\ disk' \in {disk, ledger'} /\ ledger' = ledger
  BY <1>2 DEF OnlyTheAction, Grows, memory
<1>4. TaskOK(t)'
  BY <1>1, <1>3, TaskKept
<1>5. 1 \in 1..Len(t.todo)
  BY <1>1 DEF Tasks
<1>6. ~d.would => \A p \in d.programs : BookedIn(ledger, d, p)
  BY <1>1, <1>5 DEF TaskOK, DecisionOK
<1>7. ASSUME Finish(t) PROVE TasksOK'
  <2>1. CASE Len(t.todo) = 1
    BY <1>1, <1>7, <2>1 DEF Finish, Becomes, TasksOK
  <2>2. CASE Len(t.todo) # 1
    <3>1. tasks' = {[todo |-> Tail(t.todo), step |-> "book"]}
      BY <1>1, <1>7, <2>2 DEF Finish, Becomes
    <3>2. TaskOK([todo |-> Tail(t.todo), step |-> "book"])'
      BY <1>1, <1>4, <2>2, TaskNext
    <3> QED
      BY <3>1, <3>2 DEF TasksOK
  <2> QED
    BY <2>1, <2>2
<1>8. ASSUME NEW s \in Steps, Proceed(t, s), TaskOK([t EXCEPT !.step = s])'
      PROVE  TasksOK'
  <2>1. tasks' = {[t EXCEPT !.step = s]}
    BY <1>1, <1>8 DEF Proceed, Becomes
  <2> QED
    BY <1>8, <2>1 DEF TasksOK
<1>9. t.step # "book" =>
        /\ disk' # Unreadable
        /\ ~d.would => \A p \in d.programs : BookedIn(disk', d, p)
  BY <1>4 DEF TaskOK
<1> USE DEF Steps
<1>10. CASE BookAction(t)
  <2>1. CASE ~writable \/ (d.kind # "restart" /\ d.would)
    BY <1>1, <1>7, <1>10, <2>1 DEF BookAction
  <2>2. CASE writable /\ ~(d.kind # "restart" /\ d.would)
    <3> DEFINE s == IF d.kind = "restart" THEN "verify" ELSE "start"
    <3>1. Proceed(t, s) /\ disk' = ledger
      BY <1>1, <1>10, <2>2 DEF BookAction
    <3>2. ledger # Unreadable
      BY WatchdogAssumption DEF TypeOK
    <3>3. d.kind \in {"restart", "start"}
      BY <1>1, CurrentDecision DEF Decisions
    <3>4. TaskOK([t EXCEPT !.step = s])'
      <4>1. s \in Steps
        OBVIOUS
      <4>2. /\ s \in {"verify", "term", "kill", "confirm"} => d.kind = "restart"
            /\ s = "start" => d.kind = "start"
            /\ s \in {"term", "kill", "confirm", "start"} => ~d.would
        BY <2>2, <3>3
      <4>3. /\ disk' # Unreadable
            /\ ~d.would => \A p \in d.programs : BookedIn(disk', d, p)
        BY <1>6, <3>1, <3>2
      <4> HIDE DEF s
      <4> QED
        BY <1>1, <1>4, <4>1, <4>2, <4>3, TaskProceeds
    <3> QED
      BY <1>8, <3>1, <3>4
  <2> QED
    BY <2>1, <2>2
<1>11. ASSUME NEW ok \in BOOLEAN, Verify(t, ok) PROVE TasksOK'
  <2>1. CASE ok /\ SameProcess(d) /\ ~d.would
    <3>1. Proceed(t, "term") /\ t.step = "verify"
      BY <1>1, <1>11, <2>1 DEF Verify
    <3>2. TaskOK([t EXCEPT !.step = "term"])'
      BY <1>1, <1>4, <1>9, <2>1, <3>1, TaskProceeds DEF TaskOK
    <3> QED
      BY <1>8, <3>1, <3>2
  <2>2. CASE ~(ok /\ SameProcess(d) /\ ~d.would)
    BY <1>1, <1>7, <1>11, <2>2 DEF Verify
  <2> QED
    BY <2>1, <2>2
<1>12. ASSUME NEW ok \in BOOLEAN, Term(t, ok) PROVE TasksOK'
  <2>1. CASE SameProcess(d)
    <3>1. Proceed(t, "kill") /\ t.step = "term"
      BY <1>1, <1>12, <2>1 DEF Term
    <3>2. TaskOK([t EXCEPT !.step = "kill"])'
      BY <1>1, <1>4, <1>9, <3>1, TaskProceeds DEF TaskOK
    <3> QED
      BY <1>8, <3>1, <3>2
  <2>2. CASE ~SameProcess(d)
    BY <1>1, <1>7, <1>12, <2>2 DEF Term
  <2> QED
    BY <2>1, <2>2
<1>13. CASE Kill(t)
  <2>1. Proceed(t, "confirm") /\ t.step = "kill"
    BY <1>13 DEF Kill
  <2>2. TaskOK([t EXCEPT !.step = "confirm"])'
    BY <1>1, <1>4, <1>9, <2>1, TaskProceeds DEF TaskOK
  <2> QED
    BY <1>8, <2>1, <2>2
<1>14. CASE Confirm(t)
  BY <1>7, <1>14 DEF Confirm
<1>15. ASSUME NEW p \in Programs, NEW ok \in BOOLEAN, StartOne(t, p, ok) PROVE TasksOK'
  <2>1. CASE d.programs = {p}
    BY <1>1, <1>7, <1>15, <2>1 DEF StartOne
  <2>2. CASE d.programs # {p}
    <3>1. /\ t.step = "start"
          /\ Becomes(t, {[t EXCEPT !.todo[1].programs = @ \ {p}]})
      BY <1>1, <1>15, <2>2 DEF StartOne
    <3>2. tasks' = {[t EXCEPT !.todo[1].programs = @ \ {p}]}
      BY <1>1, <3>1, Zenon DEF Becomes
    <3>3. TaskOK([t EXCEPT !.todo[1].programs = @ \ {p}])'
      BY <1>1, <1>4, <3>1, TaskStarts
    <3> QED
      BY <3>2, <3>3 DEF TasksOK
  <2> QED
    BY <2>1, <2>2
<1> QED
  BY <1>10, <1>11, <1>12, <1>13, <1>14, <1>15 DEF ActionStep

LEMMA TasksStep ==
  ASSUME TypeOK, TypeOK', OneAction, TasksOK, EvidenceOK, [Next]_vars
  PROVE  TasksOK'
<1>0. \A t \in tasks : t \in Tasks
  BY DEF TypeOK, Tasks
<1>1. CASE WorldStep
  <2>1. Grows /\ disk' = disk /\ tasks' = tasks
    BY <1>1, WorldOnly DEF OnlyTheWorld, Grows, memory
  <2> QED
    BY <1>0, <2>1, TaskKept DEF TasksOK
<1>2. CASE Tick
  BY <1>2, TickTasks
<1>3. ASSUME NEW file \in {disk, Unreadable}, Crash(file) PROVE TasksOK'
  BY <1>3 DEF Crash, TasksOK
<1>4. ASSUME NEW ok \in BOOLEAN, BeginCycle(ok) PROVE TasksOK'
  <2>1. Grows /\ disk' = disk /\ tasks' = tasks
    BY <1>4 DEF BeginCycle, Grows, world, ghosts
  <2> QED
    BY <1>0, <2>1, TaskKept DEF TasksOK
<1>5. ASSUME NEW trouble \in Troubles, EndCycle(trouble) PROVE TasksOK'
  BY <1>5, EndCycleTasks
<1>6. ASSUME NEW t \in tasks, ActionStep(t) PROVE TasksOK'
  BY <1>6, ActionTasks
<1>7. CASE UNCHANGED vars
  <2>1. Grows /\ disk' = disk /\ tasks' = tasks
    BY <1>7 DEF vars, world, memory, ghosts, Grows
  <2> QED
    BY <1>0, <2>1, TaskKept DEF TasksOK
<1> QED
  BY <1>1, <1>2, <1>3, <1>4, <1>5, <1>6, <1>7 DEF Next, WorldStep

-----------------------------------------------------------------------------
(***************************************************************************)
(* The ledger, and what it is about.                                       *)
(***************************************************************************)

\* An action reaches one program at a time, and what reaches it is booked
\* in memory and on disk; a restart, with evidence of its own.
Signals ==
    \/ signalled' = signalled
    \/ /\ disk' = disk /\ disk # Unreadable
       /\ \E b \in ledger.real \cap disk.real :
            /\ signalled' = signalled \cup {b}
            /\ b.action = "restart" =>
                  b.program \in Programs /\ evidence[b.program] = MissesToTrip

LEMMA ActionSignals ==
  ASSUME TypeOK, TasksOK, NEW t \in tasks, ActionStep(t)
  PROVE  Signals
<1> DEFINE d == t.todo[1]
<1>1. /\ t \in Tasks /\ Current(t) = d /\ TaskOK(t) /\ 1 \in 1..Len(t.todo)
      /\ d \in Decisions
  BY CurrentDecision DEF TasksOK, Tasks
<1>2. DecisionOK(d)
  BY <1>1 DEF TaskOK
<1>3. ASSUME NEW p \in d.programs, Signal(d, p), disk' = disk,
             t.step \in {"term", "start"},
             d.kind = "restart" => evidence[p] = MissesToTrip
      PROVE  Signals
  <2> DEFINE b == [program |-> p, action |-> d.kind, age |-> d.age]
  <2>1. ~d.would /\ disk # Unreadable /\ BookedIn(ledger, d, p) /\ BookedIn(disk, d, p)
    BY <1>1, <1>2, <1>3 DEF TaskOK, DecisionOK
  <2>2. CASE d.age = BudgetWindow
    BY <1>3, <2>2 DEF Signal, Signals
  <2>3. CASE d.age # BudgetWindow
    <3>1. b \in ledger.real /\ b \in disk.real
      BY <2>1, <2>3 DEF BookedIn
    <3>2. signalled' = signalled \cup {b}
      BY <1>3, <2>3 DEF Signal
    <3>3. b.action = d.kind /\ b.program = p /\ p \in Programs
      BY <1>1 DEF Decisions
    <3> HIDE DEF b
    <3> QED
      BY <1>3, <2>1, <3>1, <3>2, <3>3 DEF Signals
  <2> QED
    BY <2>2, <2>3
<1>4. CASE BookAction(t)
  BY <1>4 DEF BookAction, ghosts, Signals
<1>5. ASSUME NEW ok \in BOOLEAN, Verify(t, ok) PROVE Signals
  BY <1>5 DEF Verify, ghosts, Signals
<1>6. ASSUME NEW ok \in BOOLEAN, Term(t, ok) PROVE Signals
  <2>1. CASE SameProcess(d)
    <3>1. PICK p \in d.programs : Signal(d, p)
      BY <1>1, <1>6, <2>1 DEF Term
    <3>2. evidence[p] = MissesToTrip
      <4>1. d.kind = "restart"
        BY <1>1, <1>6 DEF Term, TaskOK
      <4>2. PICK q \in Programs : /\ d.programs = {q}
                                  /\ d.pid = prog[q].pid => evidence[q] = MissesToTrip
        BY <1>2, <4>1 DEF DecisionOK
      <4> QED
        BY <2>1, <4>2 DEF SameProcess
    <3> QED
      BY <1>3, <1>6, <3>1, <3>2 DEF Term
  <2>2. CASE ~SameProcess(d)
    BY <1>1, <1>6, <2>2 DEF Term, Signals
  <2> QED
    BY <2>1, <2>2
<1>7. CASE Kill(t)
  BY <1>7 DEF Kill, ghosts, Signals
<1>8. CASE Confirm(t)
  BY <1>8 DEF Confirm, ghosts, Signals
<1>9. ASSUME NEW p \in Programs, NEW ok \in BOOLEAN, StartOne(t, p, ok) PROVE Signals
  <2>1. /\ t.step = "start" /\ p \in d.programs /\ disk' = disk
        /\ Signal(d, p) \/ signalled' = signalled
    BY <1>1, <1>9 DEF StartOne
  <2>2. d.kind = "start"
    BY <1>1, <2>1 DEF TaskOK
  <2> QED
    BY <1>3, <2>1, <2>2 DEF Signals
<1> QED
  BY <1>4, <1>5, <1>6, <1>7, <1>8, <1>9 DEF ActionStep

\* With budgets that are not exhausted, memory knows all that was done.
LEMMA AllBooked ==
  ASSUME TypeOK, Remembers(ledger), ledger.exhausted = 0
  PROVE  signalled \subseteq ledger.real
<1>1. \A b \in signalled : b.age \in 0..(BudgetWindow - 1)
  BY DEF TypeOK, Bookings
<1>2. ASSUME NEW b \in signalled PROVE b \in ledger.real
  <2>1. ~(b.age + ledger.exhausted >= BudgetWindow)
    BY <1>1, Numbers
  <2> QED
    BY <2>1 DEF Remembers
<1> QED
  BY <1>2

\* The budgets hold of fewer bookings, and of older ones.
LEMMA WithinFewer ==
  ASSUME NEW S \in SUBSET Bookings, NEW T \in SUBSET S, Within(S)
  PROVE  Within(T)
<1>1. \A ps, a : Count(S, ps, a) \in Nat /\ Count(T, ps, a) \in Nat
  BY CountedFinite
<1>2. \A ps, a : Count(T, ps, a) <= Count(S, ps, a)
  BY CountNoMore
<1> QED
  BY <1>1, <1>2, Numbers DEF Within

LEMMA WithinOlder ==
  ASSUME NEW S \in SUBSET Bookings, Within(S)
  PROVE  Within(OlderBookings(S))
<1>1. \A ps, a : Count(S, ps, a) \in Nat /\ Count(OlderBookings(S), ps, a) \in Nat
  BY CountedFinite, OlderBookingsType
<1>2. \A ps, a : Count(OlderBookings(S), ps, a) <= Count(S, ps, a)
  BY CountOlder
<1> QED
  BY <1>1, <1>2, Numbers DEF Within

\* A ledger and what it remembers grow old together.
LEMMA OlderRemembers ==
  ASSUME NEW l \in Ledgers, signalled \in SUBSET Bookings, Remembers(l),
         signalled' = OlderBookings(signalled)
  PROVE  \A b \in signalled' : \/ b \in OlderLedger(l).real
                                \/ b.age + OlderLedger(l).exhausted >= BudgetWindow
<1> SUFFICES ASSUME NEW c \in OlderBookings(signalled)
             PROVE  \/ c \in OlderLedger(l).real
                    \/ c.age + OlderLedger(l).exhausted >= BudgetWindow
  OBVIOUS
<1>1. PICK b \in signalled : b.age + 1 < BudgetWindow /\ c = [b EXCEPT !.age = @ + 1]
  BY OlderBookingsType
<1>2. /\ OlderLedger(l).real = OlderBookings(l.real)
      /\ OlderLedger(l).exhausted = IF l.exhausted > 0 THEN l.exhausted - 1 ELSE 0
      /\ l.real \in SUBSET Bookings /\ l.exhausted \in 0..BudgetWindow
  BY DEF OlderLedger, Ledgers, Ages
<1>3. CASE b \in l.real
  BY <1>1, <1>2, <1>3, OlderBookingsType
<1>4. CASE b.age + l.exhausted >= BudgetWindow
  <2>1. b.age \in Nat /\ c.age = b.age + 1
    BY <1>1 DEF Bookings
  <2> QED
    BY <1>1, <1>2, <1>4, <2>1, Numbers
<1> QED
  BY <1>3, <1>4 DEF Remembers

LEMMA LedgerStep ==
  ASSUME TypeOK, TypeOK', OneAction, TasksOK, LedgerOK, [Next]_vars
  PROVE  LedgerOK'
<1>0. /\ ledger \in Ledgers /\ signalled \in SUBSET Bookings
      /\ disk \in Ledgers \cup {Unreadable} /\ Unreadable \notin Ledgers
      /\ ledger.real \in SUBSET Bookings
  BY WatchdogAssumption DEF TypeOK, Ledgers
<1>1. ASSUME UNCHANGED <<ledger, disk, tasks, signalled>> PROVE LedgerOK'
  BY <1>1 DEF LedgerOK, Remembers
<1>2. CASE WorldStep
  BY <1>1, <1>2, WorldOnly DEF OnlyTheWorld, memory
<1>3. CASE Tick
  <2>1. /\ ledger' = OlderLedger(ledger) /\ signalled' = OlderBookings(signalled)
        /\ disk' = IF disk = Unreadable THEN disk ELSE OlderLedger(disk)
        /\ tasks' # {} => tasks # {}
    BY <1>3 DEF Tick
  <2>2. \A l : /\ OlderLedger(l).real = OlderBookings(l.real)
               /\ OlderLedger(l).shadow = OlderBookings(l.shadow)
               /\ l.exhausted = 0 => OlderLedger(l).exhausted = 0
    BY DEF OlderLedger
  <2>3. Remembers(ledger)'
    BY <1>0, <2>1, OlderRemembers DEF LedgerOK, Remembers
  <2>4. Within(ledger'.real)
    BY <1>0, <2>1, <2>2, WithinOlder DEF LedgerOK
  <2>5. ASSUME disk # Unreadable
        PROVE  /\ Remembers(disk)'
               /\ disk'.real \subseteq ledger'.real
               /\ disk'.shadow \subseteq ledger'.shadow
    <3>1. disk \in Ledgers /\ disk' = OlderLedger(disk)
      BY <1>0, <2>1, <2>5
    <3>2. Remembers(disk)'
      BY <1>0, <2>1, <2>5, <3>1, OlderRemembers DEF LedgerOK, Remembers
    <3>3. disk.real \subseteq ledger.real /\ disk.shadow \subseteq ledger.shadow
      BY <2>5 DEF LedgerOK
    <3>4. \A S, T : S \subseteq T => OlderBookings(S) \subseteq OlderBookings(T)
      BY DEF OlderBookings
    <3> QED
      BY <2>1, <2>2, <3>1, <3>2, <3>3, <3>4
  <2>6. tasks' # {} => ledger'.exhausted = 0
    BY <2>1, <2>2 DEF LedgerOK
  <2> QED
    BY <2>1, <2>3, <2>4, <2>5, <2>6 DEF LedgerOK, Within
<1>4. ASSUME NEW file \in {disk, Unreadable}, Crash(file) PROVE LedgerOK'
  <2>1. /\ disk' = file /\ ledger' = Load(file) /\ tasks' = {}
        /\ signalled' = signalled
    BY <1>4 DEF Crash, ghosts
  <2>2. CASE file = Unreadable
    <3>1. /\ disk' = Unreadable /\ ledger'.exhausted = BudgetWindow /\ ledger'.real = {}
      BY <2>1, <2>2, FirstLedgers DEF Load
    <3>2. Remembers(ledger)'
      <4>1. \A b \in signalled : b.age \in Nat
        BY <1>0 DEF Bookings
      <4> QED
        BY <2>1, <3>1, <4>1, Numbers DEF Remembers
    <3>3. Within(ledger'.real)
      BY <1>0, <3>1, WithinFewer DEF LedgerOK
    <3> QED
      BY <2>1, <3>1, <3>2, <3>3 DEF LedgerOK, Within
  <2>3. CASE file # Unreadable
    <3>1. disk' = disk /\ ledger' = disk /\ disk # Unreadable
      BY <2>1, <2>3 DEF Load
    <3>2. Within(disk.real)
      BY <1>0, <3>1, WithinFewer DEF LedgerOK
    <3> QED
      BY <2>1, <3>1, <3>2 DEF LedgerOK, Within, Remembers
  <2> QED
    BY <2>2, <2>3
<1>5. ASSUME NEW ok \in BOOLEAN, BeginCycle(ok) PROVE LedgerOK'
  BY <1>1, <1>5 DEF BeginCycle, ghosts
<1>6. ASSUME NEW trouble \in Troubles, EndCycle(trouble) PROVE LedgerOK'
  <2>1. Outcome(trouble) /\ signalled' = signalled
    BY <1>6, EndCycleOutcome, EndCycleParts
  <2>2. Remembers(ledger)'
    BY <2>1 DEF Outcome, LedgerOK, Remembers
  <2>3. tasks' # {} => ledger'.exhausted = 0
    BY <2>1 DEF Outcome, NewAction, LedgerOK
  <2>4. Within(ledger'.real)
    BY <2>1 DEF Outcome, LedgerOK
  <2>5. CASE disk' = ledger'
    BY <2>2, <2>3, <2>4, <2>5 DEF LedgerOK, Remembers, Within
  <2>6. CASE disk' = disk
    <3>1. disk # Unreadable => /\ Remembers(disk)'
                               /\ disk.real \subseteq ledger'.real
                               /\ disk.shadow \subseteq ledger'.shadow
      BY <2>1, <2>6 DEF Outcome, LedgerOK, Remembers
    <3> QED
      BY <2>2, <2>3, <2>4, <2>6, <3>1 DEF LedgerOK, Within
  <2> QED
    BY <2>1, <2>5, <2>6 DEF Outcome
<1>7. ASSUME NEW t \in tasks, ActionStep(t) PROVE LedgerOK'
  <2>1. ledger' = ledger /\ disk' \in {disk, ledger} /\ ledger.exhausted = 0
    BY <1>7, ActionOnly DEF OnlyTheAction, memory, LedgerOK
  <2>2. CASE signalled' = signalled
    BY <2>1, <2>2 DEF LedgerOK, Remembers, Within
  <2>3. CASE /\ disk' = disk /\ disk # Unreadable
             /\ \E b \in ledger.real \cap disk.real : signalled' = signalled \cup {b}
    BY <2>1, <2>3 DEF LedgerOK, Remembers, Within
  <2> QED
    BY <1>7, <2>2, <2>3, ActionSignals DEF Signals
<1>8. CASE UNCHANGED vars
  BY <1>1, <1>8 DEF vars, memory, ghosts
<1> QED
  BY <1>2, <1>3, <1>4, <1>5, <1>6, <1>7, <1>8 DEF Next, WorldStep

\* The budgets hold of what reached the programs: it is booked when it does.
LEMMA BudgetStep ==
  ASSUME TypeOK, OneAction, TasksOK, LedgerOK, BudgetKept, [Next]_vars
  PROVE  BudgetKept'
<1>0. Within(signalled) /\ signalled \in SUBSET Bookings /\ ledger.real \in SUBSET Bookings
  BY DEF BudgetKept, Within, TypeOK, Ledgers
<1> SUFFICES Within(signalled')
  BY DEF BudgetKept, Within
<1>1. CASE WorldStep
  BY <1>0, <1>1, WorldOnly DEF OnlyTheWorld
<1>2. CASE Tick
  BY <1>0, <1>2, WithinOlder DEF Tick
<1>3. ASSUME NEW file \in {disk, Unreadable}, Crash(file) PROVE Within(signalled')
  BY <1>0, <1>3 DEF Crash, ghosts
<1>4. ASSUME NEW ok \in BOOLEAN, BeginCycle(ok) PROVE Within(signalled')
  BY <1>0, <1>4 DEF BeginCycle, ghosts
<1>5. ASSUME NEW trouble \in Troubles, EndCycle(trouble) PROVE Within(signalled')
  BY <1>0, <1>5, EndCycleParts
<1>6. ASSUME NEW t \in tasks, ActionStep(t) PROVE Within(signalled')
  <2>1. signalled \subseteq ledger.real
    BY AllBooked DEF LedgerOK
  <2>2. signalled' \subseteq ledger.real
    BY <1>6, <2>1, ActionSignals DEF Signals
  <2> QED
    BY <1>0, <2>2, WithinFewer DEF LedgerOK
<1>7. CASE UNCHANGED vars
  BY <1>0, <1>7 DEF vars, ghosts
<1> QED
  BY <1>1, <1>2, <1>3, <1>4, <1>5, <1>6, <1>7 DEF Next, WorldStep

LEMMA OutageStep == ASSUME TypeOK, TypeOK', OneAction, TasksOK, OutageOK, [Next]_vars PROVE OutageOK'
<1>0. /\ sinceRed \in 0..GreenBefore /\ uptime \in 0..Grace /\ green.since \in 0..GreenBefore
  BY DEF TypeOK
<1>1. ASSUME UNCHANGED <<sinceRed, uptime, ledger, green>> PROVE OutageOK'
  BY <1>1 DEF OutageOK
<1>2. CASE WorldStep
  BY <1>1, <1>2, WorldOnly DEF OnlyTheWorld, memory
<1>3. CASE Tick
  <2>1. /\ sinceRed' = Older(sinceRed, GreenBefore) /\ uptime' = Older(uptime, Grace)
        /\ ledger'.red = ledger.red
        /\ green' = [green EXCEPT !.since = Older(@, GreenBefore)]
    BY <1>3 DEF Tick, OlderLedger
  <2>2. green'.known = green.known /\ green'.since = Older(green.since, GreenBefore)
    BY <2>1 DEF TypeOK
  <2> QED
    BY <1>0, <2>1, <2>2, Numbers DEF OutageOK, Older
<1>4. ASSUME NEW file \in {disk, Unreadable}, Crash(file) PROVE OutageOK'
  BY <1>0, <1>4, Numbers DEF Crash, OutageOK, ghosts
<1>5. ASSUME NEW ok \in BOOLEAN, BeginCycle(ok) PROVE OutageOK'
  BY <1>1, <1>5 DEF BeginCycle, ghosts
<1>6. ASSUME NEW trouble \in Troubles, EndCycle(trouble) PROVE OutageOK'
  <2>1. /\ sinceRed' = IF TrackedIn(trouble) /\ ~db THEN 0 ELSE sinceRed
        /\ uptime' = uptime /\ green' = GreenIn(trouble)
        /\ ledger'.red = LedgerIn(trouble).red
    BY <1>6, EndCycleParts, EndCycleOutcome DEF Outcome
  <2>2. CASE ~TrackedIn(trouble)
    BY <2>1, <2>2 DEF OutageOK, LedgerIn, GreenIn
  <2>3. CASE TrackedIn(trouble) /\ ~db
    BY <2>1, <2>3 DEF OutageOK, LedgerIn, TrackedLedger, TypeOK, Ledgers
  <2>4. CASE TrackedIn(trouble) /\ db /\ ledger.red
    <3>1. green'.known = TRUE /\ green'.since = 0 /\ sinceRed' = sinceRed
      BY <2>1, <2>4 DEF GreenIn, TrackedGreen
    <3> QED
      BY <1>0, <3>1 DEF OutageOK
  <2>5. CASE TrackedIn(trouble) /\ db /\ ~ledger.red
    <3>1. /\ sinceRed' = sinceRed
          /\ green.known => green'.known /\ green'.since = green.since
      BY <2>1, <2>5 DEF GreenIn, TrackedGreen, TypeOK
    <3> QED
      BY <2>1, <2>5, <3>1 DEF OutageOK
  <2> QED
    BY <2>2, <2>3, <2>4, <2>5
<1>7. ASSUME NEW t \in tasks, ActionStep(t) PROVE OutageOK'
  BY <1>1, <1>7, ActionOnly DEF OnlyTheAction, memory
<1>8. CASE UNCHANGED vars
  BY <1>1, <1>8 DEF vars, memory, ghosts
<1> QED
  BY <1>2, <1>3, <1>4, <1>5, <1>6, <1>7, <1>8 DEF Next, WorldStep

LEMMA FatalStep == ASSUME TypeOK, OneAction, TasksOK, FatalOK, [Next]_vars PROVE FatalOK'
<1>1. CASE WorldStep
  BY <1>1, WorldOnly DEF OnlyTheWorld, FatalOK, memory
<1>2. CASE Tick
  <2>1. /\ cycle' = cycle
        /\ \A p \in Programs : prog'[p].st = prog[p].st /\ listed'[p].st = listed[p].st
    BY <1>2 DEF Tick, TypeOK, Facts
  <2> QED
    BY <2>1 DEF FatalOK
<1>3. ASSUME NEW file \in {disk, Unreadable}, Crash(file) PROVE FatalOK'
  BY <1>3 DEF Crash, FatalOK, Idle
<1>4. ASSUME NEW ok \in BOOLEAN, BeginCycle(ok) PROVE FatalOK'
  BY <1>4 DEF BeginCycle, FatalOK, world
<1>5. ASSUME NEW trouble \in Troubles, EndCycle(trouble) PROVE FatalOK'
  <2>1. cycle' = Idle
    BY <1>5, EndCycleParts
  <2> QED
    BY <2>1 DEF FatalOK, Idle
<1>6. ASSUME NEW t \in tasks, ActionStep(t) PROVE FatalOK'
  <2>1. ~(cycle.on /\ ~cycle.inFlight) /\ cycle' = cycle
    BY <1>6, ActionOnly DEF OnlyTheAction, OneAction, memory
  <2> QED
    BY <2>1 DEF FatalOK
<1>7. CASE UNCHANGED vars
  BY <1>7 DEF vars, world, memory, FatalOK
<1> QED
  BY <1>1, <1>2, <1>3, <1>4, <1>5, <1>6, <1>7 DEF Next, WorldStep

-----------------------------------------------------------------------------
(***************************************************************************)
(* The invariant holds, and what follows.                                  *)
(***************************************************************************)
LEMMA InitInv == Init => IInv
<1> SUFFICES ASSUME Init PROVE IInv
  OBVIOUS
<1>1. TypeOK
  BY InitType
<1>2. OneAction /\ TasksOK /\ FatalOK
  BY DEF Init, Idle, OneAction, TasksOK, FatalOK
<1>3. /\ ledger.real = {} /\ ledger.exhausted = 0 /\ disk = ledger
      /\ tasks = {} /\ signalled = {}
  BY FirstLedgers DEF Init
<1>4. Within({})
  <2>1. \A ps, a : Count({}, ps, a) = 0
    <3>1. \A ps, a : {b \in {} : b.program \in ps /\ b.action = a} = {}
      OBVIOUS
    <3> QED
      BY <3>1, FS_EmptySet DEF Count
  <2> QED
    BY <2>1, Numbers DEF Within
<1>5. LedgerOK /\ BudgetKept
  BY <1>3, <1>4 DEF LedgerOK, Remembers, BudgetKept, Within
<1>6. OutageOK
  BY Numbers DEF Init, OutageOK
<1>7. EvidenceOK
  <2>1. \A p \in Programs : /\ prog[p].pid = 1 /\ listed[p].pid = 0
                            /\ listed[p].st = "UNKNOWN" /\ noted[p] = 0
                            /\ window[p] = <<>>
    BY DEF Init, NothingListed
  <2> QED
    BY <2>1 DEF EvidenceOK, OwnEvidence
<1> QED
  BY <1>1, <1>2, <1>5, <1>6, <1>7 DEF IInv

LEMMA StepInv == IInv /\ [Next]_vars => IInv'
<1> SUFFICES ASSUME IInv, [Next]_vars PROVE IInv'
  OBVIOUS
<1>0. /\ TypeOK /\ OneAction /\ TasksOK /\ LedgerOK /\ BudgetKept /\ OutageOK
      /\ FatalOK /\ EvidenceOK
  BY DEF IInv
<1>1. TypeOK'
  BY <1>0, TypeStep
<1>2. OneAction'
  BY <1>0, OneActionStep
<1>3. TasksOK'
  BY <1>0, <1>1, TasksStep
<1>4. LedgerOK'
  BY <1>0, <1>1, LedgerStep
<1>5. BudgetKept'
  BY <1>0, BudgetStep
<1>6. OutageOK' /\ FatalOK' /\ EvidenceOK'
  BY <1>0, <1>1, OutageStep, FatalStep, EvidenceStep
<1> QED
  BY <1>1, <1>2, <1>3, <1>4, <1>5, <1>6 DEF IInv

\* The inductive invariant, of every behaviour of the watchdog.
THEOREM Invariance == Spec => []IInv
BY InitInv, StepInv, PTL DEF Spec

(***************************************************************************)
(* The state has its types, the bounded ages and the pids included.        *)
(***************************************************************************)
THEOREM TypeCorrect == Spec => []TypeOK
<1>1. IInv => TypeOK
  BY DEF IInv
<1> QED
  BY Invariance, <1>1, PTL

(***************************************************************************)
(* The budgets hold of what really happened, across crashes at any point,  *)
(* writes that fail and a ledger file that does not parse, for all budgets *)
(* and any number of programs.                                             *)
(***************************************************************************)
THEOREM BudgetsAreKept == Spec => []BudgetKept
<1>1. IInv => BudgetKept
  BY DEF IInv
<1> QED
  BY Invariance, <1>1, PTL

\* H8 of policy.py: one action in flight.
THEOREM ActionIsAlone == Spec => []OneActionInFlight
<1>1. IInv => OneActionInFlight
  <2> SUFFICES ASSUME IInv PROVE Cardinality(tasks) <= 1
    BY DEF OneActionInFlight
  <2>1. CASE tasks = {}
    <3>1. Cardinality(tasks) = 0
      BY <2>1, FS_EmptySet
    <3> QED
      BY <3>1
  <2>2. CASE tasks # {}
    <3>1. PICK t : tasks = {t}
      BY <2>2 DEF IInv, OneAction
    <3>2. Cardinality({t}) = 1
      BY FS_Singleton
    <3> QED
      BY <3>1, <3>2
  <2> QED
    BY <2>1, <2>2
<1> QED
  BY Invariance, <1>1, PTL

(***************************************************************************)
(* _open_verified and the windows of _track_programs together: the process *)
(* that gets the TERM has itself missed as many probes as trip, or was     *)
(* itself found stuck.                                                     *)
(***************************************************************************)
THEOREM TermsAreDeserved == Spec => TermedOnItsOwnEvidence
<1>1. IInv /\ [Next]_vars =>
        [\A p \in Programs : Restarted(p) => evidence[p] = MissesToTrip]_vars
  <2> SUFFICES ASSUME IInv, [Next]_vars, NEW p \in Programs, Restarted(p)
               PROVE  evidence[p] = MissesToTrip
    OBVIOUS
  <2>0. TypeOK /\ TasksOK /\ signalled \in SUBSET Bookings
    BY DEF IInv, TypeOK
  <2>1. /\ Count(signalled, {p}, "restart") \in Nat
        /\ ~(Count(signalled', {p}, "restart") <= Count(signalled, {p}, "restart"))
    <3>1. TypeOK'
      BY <2>0, TypeStep
    <3>2. Count(signalled', {p}, "restart") \in Nat /\ Count(signalled, {p}, "restart") \in Nat
      BY <2>0, <3>1, CountedFinite DEF TypeOK
    <3> QED
      BY <3>2 DEF Restarted
  <2>2. signalled' # signalled
    BY <2>1
  <2>3. ~Tick
    BY <2>0, <2>1, CountOlder DEF Tick
  <2>4. PICK t \in tasks : ActionStep(t)
    <3>1. ~WorldStep
      BY <2>0, <2>2, WorldOnly DEF OnlyTheWorld
    <3>2. \A file \in {disk, Unreadable} : ~Crash(file)
      BY <2>2 DEF Crash, ghosts
    <3>3. \A ok \in BOOLEAN : ~BeginCycle(ok)
      BY <2>2 DEF BeginCycle, ghosts
    <3>4. \A trouble \in Troubles : ~EndCycle(trouble)
      BY <2>2, EndCycleParts
    <3>5. ~UNCHANGED vars
      BY <2>2 DEF vars, ghosts
    <3> QED
      BY <2>3, <3>1, <3>2, <3>3, <3>4, <3>5 DEF Next, WorldStep
  <2>5. PICK b \in ledger.real :
          /\ signalled' = signalled \cup {b}
          /\ b.action = "restart" => evidence[b.program] = MissesToTrip
    BY <2>0, <2>2, <2>4, ActionSignals DEF Signals
  <2>6. CASE b.program = p /\ b.action = "restart"
    BY <2>5, <2>6
  <2>7. CASE ~(b.program = p /\ b.action = "restart")
    <3>1. signalled' \in SUBSET Bookings
      BY <2>0, <2>5 DEF TypeOK, Ledgers
    <3>2. \A c \in signalled' : c.program \in {p} /\ c.action = "restart" => c \in signalled
      BY <2>5, <2>7
    <3> QED
      BY <2>0, <2>1, <3>1, <3>2, CountNoMore
  <2> QED
    BY <2>6, <2>7
<1> QED
  BY Invariance, <1>1, PTL DEF Spec, TermedOnItsOwnEvidence

\* The bookings a step adds to the ledger in memory.
Fresh(b) ==
    /\ b \in ledger'.real \cup ledger'.shadow
    /\ b \notin ledger.real \cup ledger.shadow

\* Only the end of a cycle adds one: a start that R5 decided, or the restart
\* of a trip that nothing holds.
LEMMA FreshBookings ==
  ASSUME IInv, [Next]_vars, cycle.on, ~cycle'.on, NEW b, Fresh(b)
  PROVE  \E trouble \in Troubles :
           \/ b.action = "start" /\ b.program \in StartsIn(trouble)
           \/ /\ b.action = "restart"
              /\ b.program \in First(WindowIn(trouble), FreeIn(trouble))
<1>0. TypeOK /\ TasksOK /\ LedgerOK
  BY DEF IInv
<1>1. PICK trouble \in Troubles : EndCycle(trouble)
  <2>1. ASSUME cycle' = cycle PROVE FALSE
    BY <2>1
  <2>2. ~WorldStep
    BY <1>0, <2>1, WorldOnly DEF OnlyTheWorld, memory
  <2>3. ~Tick
    BY <2>1 DEF Tick
  <2>4. ASSUME NEW file \in {disk, Unreadable}, Crash(file) PROVE FALSE
    <3>1. CASE file = Unreadable
      BY <2>4, <3>1, FirstLedgers DEF Crash, Load, Fresh
    <3>2. CASE file # Unreadable
      BY <1>0, <2>4, <3>2 DEF Crash, Load, Fresh, LedgerOK
    <3> QED
      BY <3>1, <3>2
  <2>5. \A ok \in BOOLEAN : ~BeginCycle(ok)
    BY DEF BeginCycle
  <2>6. \A t \in tasks : ~ActionStep(t)
    BY <1>0, <2>1, ActionOnly DEF OnlyTheAction, memory
  <2>7. ~UNCHANGED vars
    BY <2>1 DEF vars, memory
  <2> QED
    BY <2>2, <2>3, <2>4, <2>5, <2>6, <2>7 DEF Next, WorldStep
<1>2. /\ BookedStarts(trouble) \in Ledgers
      /\ BookedStarts(trouble).real = ledger.real \cup RealStarts(trouble)
      /\ BookedStarts(trouble).shadow = ledger.shadow \cup ShadowStarts(trouble)
  BY <1>0, StartsBooked
<1>3. \A c \in RealStarts(trouble) \cup ShadowStarts(trouble) :
        c.action = "start" /\ c.program \in StartsIn(trouble)
  BY DEF RealStarts, ShadowStarts, Bookings0, Booking
<1>4. CASE EndsWithStarts(trouble)
  <2>1. ledger' = BookedStarts(trouble)
    BY <1>4 DEF EndsWithStarts, Conclude
  <2> QED
    BY <1>2, <1>3, <2>1 DEF Fresh
<1>5. ASSUME NEW p \in First(WindowIn(trouble), FreeIn(trouble)), EndsWithRestart(trouble, p)
      PROVE  \/ b.action = "start" /\ b.program \in StartsIn(trouble)
             \/ /\ b.action = "restart"
                /\ b.program \in First(WindowIn(trouble), FreeIn(trouble))
  <2> DEFINE c == Booking(p, "restart")
             s == BookedStarts(trouble)
  <2>1. ledger' = Book(s, {c}, ShadowFor(p))
    BY <1>5 DEF EndsWithRestart, Conclude
  <2>2. c.action = "restart" /\ c.program = p
    BY DEF Booking
  <2> HIDE DEF c, s
  <2>3. s \in Ledgers
    BY <1>2 DEF s
  <2>4. b = c \/ b \in s.real \/ b \in s.shadow
    <3>1. CASE ShadowFor(p)
      BY <2>1, <2>3, <3>1 DEF Book, Ledgers, Fresh
    <3>2. CASE ~ShadowFor(p)
      BY <2>1, <2>3, <3>2 DEF Book, Ledgers, Fresh
    <3> QED
      BY <3>1, <3>2
  <2> QED
    BY <1>2, <1>3, <1>5, <2>2, <2>4 DEF s, Fresh
<1>6. EndsWithStarts(trouble) \/
        \E p \in First(WindowIn(trouble), FreeIn(trouble)) : EndsWithRestart(trouble, p)
  BY <1>1, EndCycleParts, Zenon
<1> QED
  BY <1>4, <1>5, <1>6

(***************************************************************************)
(* The gate (H2): whatever the crashes, the pauses and the outages before, *)
(* no restart is decided less than GREEN_BEFORE_RESTART_S after a red gate *)
(* that a cycle took note of.                                              *)
(***************************************************************************)
THEOREM RestartsWaitForGreen == Spec => RestartsLongAfterOutage
<1>1. IInv /\ [Next]_vars => [Booked("restart") # {} => sinceRed >= GreenBefore]_vars
  <2> SUFFICES ASSUME IInv, [Next]_vars, NEW p \in Booked("restart")
               PROVE  sinceRed >= GreenBefore
    OBVIOUS
  <2>1. PICK b \in ledger'.real \cup ledger'.shadow :
          /\ b.action = "restart" /\ cycle.on /\ ~cycle'.on /\ Fresh(b)
    BY DEF Booked, Fresh
  <2>2. PICK trouble \in Troubles : b.program \in First(WindowIn(trouble), FreeIn(trouble))
    BY <2>1, FreshBookings
  <2>3. /\ ~StarvedIn(trouble) /\ db
        /\ ~(GreenIn(trouble).since < GreenBefore) /\ ~InGrace(b.program)
    BY <2>2, RestartFree
  <2>4. GreenIn(trouble) = TrackedGreen
    BY <2>3 DEF GreenIn, TrackedIn
  <2>5. /\ uptime \in 0..Grace /\ ~(uptime < Grace)
        /\ sinceRed \in 0..GreenBefore /\ green.since \in 0..GreenBefore
    BY <2>3 DEF IInv, TypeOK, InGrace
  <2>6. OutageOK
    BY DEF IInv
  <2>7. CASE ledger.red
    <3>1. TrackedGreen.since = 0
      BY <2>3, <2>7 DEF TrackedGreen
    <3> QED
      BY <2>3, <2>4, <2>5, <3>1, Numbers
  <2>8. CASE ~ledger.red /\ green.known
    <3>1. TrackedGreen.since = green.since
      BY <2>3, <2>8 DEF TrackedGreen, IInv, TypeOK
    <3> QED
      BY <2>3, <2>4, <2>5, <2>6, <2>8, <3>1, Numbers DEF OutageOK
  <2>9. CASE ~ledger.red /\ ~green.known
    BY <2>5, <2>6, <2>9, Numbers DEF OutageOK
  <2> QED
    BY <2>7, <2>8, <2>9
<1> QED
  BY Invariance, <1>1, PTL DEF Spec, RestartsLongAfterOutage

(***************************************************************************)
(* R5 never books the start of a program that is not FATAL at that moment, *)
(* though it decides on an answer of supervisord that may be old.          *)
(***************************************************************************)
THEOREM StartsAreOfTheFatal == Spec => StartsAreNeeded
<1>1. IInv /\ [Next]_vars => [\A p \in Booked("start") : prog[p].st = "FATAL"]_vars
  <2> SUFFICES ASSUME IInv, [Next]_vars, NEW p \in Booked("start")
               PROVE  prog[p].st = "FATAL"
    OBVIOUS
  <2>1. PICK b \in ledger'.real \cup ledger'.shadow :
          /\ b.action = "start" /\ b.program = p /\ cycle.on /\ ~cycle'.on /\ Fresh(b)
    BY DEF Booked, Fresh
  <2>2. PICK trouble \in Troubles : p \in StartsIn(trouble)
    BY <2>1, FreshBookings
  <2>3. /\ p \in Programs /\ listed[p].st = "FATAL"
        /\ cycle.ok /\ ~cycle.inFlight
    BY <2>2, StartsFree
  <2> QED
    BY <2>1, <2>3 DEF IInv, FatalOK
<1> QED
  BY Invariance, <1>1, PTL DEF Spec, StartsAreNeeded
=============================================================================
