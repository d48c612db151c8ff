------------------------------ MODULE Watchdog ------------------------------
(***************************************************************************)
(* The watchdog: a process that probes the programs of a CMS instance      *)
(* every 15 s and, when one fails for long enough and nothing else         *)
(* explains it, restarts it, within a budget.                              *)
(*                                                                         *)
(* The actors: the programs and the supervisord that starts them again;    *)
(* the cycle, which reads supervisord, probes, and then decides and saves  *)
(* in one step; the action, a task beside later cycles; time; and faults,  *)
(* among them a crash of the watchdog, which keeps its ledger file only.   *)
(*                                                                         *)
(* Left out: alerts and what only words them (early warnings, incidents,   *)
(* "did it help", near misses), the evidence, jumps of the wall clock, and *)
(* how long a section or a Worker is stuck before R3 or R4 trips ("stuck"  *)
(* is past that).                                                          *)
(***************************************************************************)
EXTENDS WatchdogLedger, Sequences

CONSTANTS
    ClassOf,       \* ClassOf[p]: the class of p's kind
    Evaluation,    \* the EvaluationService, whose view R4 judges Workers by
    Others,        \* how many programs more are probed, and answer
    Enforce,       \* the mode: enforce, or else observe
    Shadowed,      \* the programs of no restart class
    Unreadable,    \* a ledger file that does not parse
    WindowSize, MissesToTrip, MissesToWarn,
    GreenBefore,   \* GREEN_BEFORE_RESTART_S, in cycles
    Grace,         \* GRACE_S, in cycles
    PauseGap,      \* the longest gap that is no pause, in cycles
    FatalGreen,    \* FATAL_GREEN_CYCLES
    RedLookback,   \* FATAL_RED_LOOKBACK_S, in cycles
    MaxPid,        \* bound on the processes of a program
    MaxFaults      \* bound on the faults (and on recoveries from them)

ASSUME WatchdogAssumption ==
    /\ Shadowed \subseteq Programs
    /\ {Enforce} \subseteq BOOLEAN
    /\ {Others, WindowSize, MissesToTrip, MissesToWarn, GreenBefore, Grace,
        PauseGap, FatalGreen, RedLookback, MaxPid, MaxFaults} \subseteq Nat
    /\ MaxPid > 0
    /\ 0 < MissesToWarn /\ MissesToWarn <= MissesToTrip
    /\ MissesToTrip <= WindowSize
    /\ GreenBefore <= Grace /\ Grace <= BudgetWindow
    /\ Unreadable \notin Ledgers

VARIABLES
    prog,      \* prog[p]: its state for supervisord, its pid, its age
    mood,      \* mood[p]: how its process does: "ok", "deaf" (fails its
               \* probe) or "stuck" (trips R3 or R4)
    db,        \* is PostgreSQL up
    writable,  \* can the watchdog write its files
    uptime,    \* the age of the watchdog
    gap,       \* how long ago its last cycle began
    cycle,     \* what the cycle in progress began with, or Idle
    listed,    \* the last answer of supervisord
    window,    \* window[p]: ProgramState.window, TRUE for a miss
    noted,     \* noted[p]: ProgramState.pid
    lastAct,   \* lastAct[p]: the age of the last restart decided
    green,     \* green_since_mono (if known, as an age) and green_cycles
    ledger,    \* the ledger in memory
    disk,      \* the ledger file
    tasks,     \* the actions in flight
    faults,    \* how many faults there have been
    \* what really happened, for the properties:
    signalled, \* the bookings that reached a process or supervisord
    evidence,  \* evidence[p]: what the process of p itself was seen to miss
    sinceRed   \* the age of the last red gate a cycle took note of

world  == <<prog, mood, db, writable>>
memory == <<uptime, gap, cycle, listed, window, noted, lastAct, green, ledger>>
ghosts == <<signalled, evidence, sinceRed>>
vars == <<world, memory, disk, tasks, faults, ghosts>>

States == {"RUNNING", "STARTING", "FATAL"}
Facts  == [st : States \cup {"UNKNOWN"}, pid : 0..MaxPid, up : Ages]
Idle   == [on |-> FALSE, late |-> FALSE, inFlight |-> FALSE, ok |-> FALSE]
Decisions == [kind : {"restart", "start"}, programs : SUBSET Programs,
              pid : 0..MaxPid, would : BOOLEAN, age : Ages]
Steps  == {"book", "verify", "term", "kill", "confirm", "start"}

TypeOK ==
    /\ prog \in [Programs -> Facts]
    /\ mood \in [Programs -> {"ok", "deaf", "stuck"}]
    /\ db \in BOOLEAN /\ writable \in BOOLEAN
    /\ uptime \in 0..Grace /\ gap \in 0..(PauseGap + 1)
    /\ cycle \in [on : BOOLEAN, late : BOOLEAN, inFlight : BOOLEAN, ok : BOOLEAN]
    /\ listed \in [Programs -> Facts]
    /\ window \in [Programs -> UNION {[1..n -> BOOLEAN] : n \in 0..WindowSize}]
    /\ noted \in [Programs -> 0..MaxPid]
    /\ lastAct \in [Programs -> 0..Grace]
    /\ green \in [known : BOOLEAN, since : 0..GreenBefore, cycles : 0..FatalGreen]
    /\ ledger \in Ledgers
    /\ disk \in Ledgers \cup {Unreadable}
    /\ \A t \in tasks : t \in [todo : Seq(Decisions), step : Steps]
    /\ faults \in 0..MaxFaults
    /\ signalled \subseteq Bookings
    /\ evidence \in [Programs -> 0..MissesToTrip]
    /\ sinceRed \in 0..GreenBefore

NothingListed == [p \in Programs |-> [st |-> "UNKNOWN", pid |-> 0, up |-> 0]]
NotGreen == [known |-> FALSE, since |-> 0, cycles |-> 0]

Init ==
    /\ prog = [p \in Programs |-> [st |-> "RUNNING", pid |-> 1, up |-> BudgetWindow]]
    /\ mood = [p \in Programs |-> "ok"]
    /\ db = TRUE /\ writable = TRUE
    /\ uptime  = 0
    /\ gap     = 1
    /\ cycle   = Idle
    /\ listed  = NothingListed
    /\ window  = [p \in Programs |-> <<>>]
    /\ noted   = [p \in Programs |-> 0]
    /\ lastAct = [p \in Programs |-> Grace]
    /\ green   = NotGreen
    /\ ledger  = EmptyLedger
    /\ disk    = EmptyLedger
    /\ tasks   = {}
    /\ faults  = 0
    /\ signalled = {}
    /\ evidence  = [p \in Programs |-> 0]
    /\ sinceRed  = GreenBefore

\* n faults happen in this step.
Fault(n) == faults + n <= MaxFaults /\ faults' = faults + n
-----------------------------------------------------------------------------
(***************************************************************************)
(* The programs and the database.                                          *)
(***************************************************************************)
Fail(p, how) ==
    /\ prog[p].st = "RUNNING" /\ mood[p] = "ok"
    /\ how = "deaf" => p \notin Workers
    /\ mood' = [mood EXCEPT ![p] = how]
    /\ Fault(1)
    /\ UNCHANGED <<prog, db, writable, memory, disk, tasks, ghosts>>

Recover(p) ==
    /\ prog[p].st = "RUNNING" /\ mood[p] # "ok"
    /\ mood' = [mood EXCEPT ![p] = "ok"]
    /\ Fault(1)
    /\ UNCHANGED <<prog, db, writable, memory, disk, tasks, ghosts>>

Exit(p) ==
    /\ prog[p].st = "RUNNING"
    /\ prog' = [prog EXCEPT ![p].st = "STARTING"]
    /\ Fault(1)
    /\ UNCHANGED <<mood, db, writable, memory, disk, tasks, ghosts>>

\* supervisord's autorestart: a new process, with the fault or without it.
Respawn(p) ==
    /\ prog[p].st = "STARTING" /\ prog[p].pid < MaxPid
    /\ prog' = [prog EXCEPT ![p] = [st |-> "RUNNING", pid |-> @.pid + 1, up |-> 0]]
    /\ \E m \in {"ok", mood[p]} : mood' = [mood EXCEPT ![p] = m]
    /\ evidence' = [evidence EXCEPT ![p] = 0]
    /\ UNCHANGED <<db, writable, memory, disk, tasks, faults, signalled, sinceRed>>

\* Its last try was now; without an outage, that is a fault of its own.
GiveUp(p) ==
    /\ prog[p].st = "STARTING"
    /\ prog' = [prog EXCEPT ![p].st = "FATAL", ![p].up = 0]
    /\ Fault(IF db THEN 1 ELSE 0)
    /\ UNCHANGED <<mood, db, writable, memory, disk, tasks, ghosts>>

DatabaseTurns ==
    /\ db' = ~db
    /\ Fault(IF db THEN 1 ELSE 0)
    /\ UNCHANGED <<prog, mood, writable, memory, disk, tasks, ghosts>>

DiskTurns ==
    /\ writable' = ~writable
    /\ Fault(IF writable THEN 1 ELSE 0)
    /\ UNCHANGED <<prog, mood, db, memory, disk, tasks, ghosts>>

(***************************************************************************)
(* Time.  A cycle that takes longer than a cycle's time, or comes late, is *)
(* a fault.                                                                *)
(***************************************************************************)
Tick ==
    /\ Fault(IF gap # 0 \/ cycle.on THEN 1 ELSE 0)
    /\ prog'    = [p \in Programs |-> [prog[p] EXCEPT !.up = Older(@, BudgetWindow)]]
    /\ listed'  = [p \in Programs |-> [listed[p] EXCEPT !.up = Older(@, BudgetWindow)]]
    /\ uptime'  = Older(uptime, Grace)
    /\ gap'     = Older(gap, PauseGap + 1)
    /\ lastAct' = [p \in Programs |-> Older(lastAct[p], Grace)]
    /\ green'   = [green EXCEPT !.since = Older(@, GreenBefore)]
    /\ ledger'  = OlderLedger(ledger)
    /\ disk'    = IF disk = Unreadable THEN disk ELSE OlderLedger(disk)
    /\ tasks'   = {[t EXCEPT !.todo = [i \in DOMAIN t.todo |->
                        [t.todo[i] EXCEPT !.age = Older(@, BudgetWindow)]]] : t \in tasks}
    /\ signalled' = OlderBookings(signalled)
    /\ sinceRed'  = Older(sinceRed, GreenBefore)
    /\ UNCHANGED <<mood, db, writable, cycle, window, noted, evidence>>

(***************************************************************************)
(* The watchdog exits (a crash, its self-guard, a signal), and with it the *)
(* action in flight; supervisord starts it again, with what load_ledger    *)
(* makes of the file.  How long it is down does not matter here.           *)
(***************************************************************************)
\* Mutant: a ledger that does not parse is replaced by an empty one.
LoadOrEmpty(file) == IF file = Unreadable THEN EmptyLedger ELSE file

\* load_ledger: a file that does not parse exhausts the budgets.  (A missing
\* one is an empty ledger, as at first: the watchdog never removes it.)
Load(file) == IF file = Unreadable THEN ExhaustedLedger ELSE file

Crash(file) ==
    /\ disk'    = file
    /\ ledger'  = Load(file)
    /\ tasks'   = {}
    /\ uptime'  = 0
    /\ gap'     = 1
    /\ cycle'   = Idle
    /\ listed'  = NothingListed
    /\ window'  = [p \in Programs |-> <<>>]
    /\ noted'   = [p \in Programs |-> 0]
    /\ lastAct' = [p \in Programs |-> Grace]
    /\ green'   = NotGreen
    /\ Fault(1)
    /\ UNCHANGED <<world, ghosts>>
-----------------------------------------------------------------------------
(***************************************************************************)
(* The cycle.  It looks for an action in flight before it reads            *)
(* supervisord; one that does not answer leaves the last answer (H1).  A   *)
(* cycle that began too long after the one before is late: a pause.  (It   *)
(* decides here with the ages of its end; the code takes its clocks as it  *)
(* begins.  They differ when a cycle outlasts its time, a fault.)          *)
(***************************************************************************)
BeginCycle(ok) ==
    /\ ~cycle.on /\ gap >= 1
    /\ cycle' = [on |-> TRUE, late |-> gap > PauseGap, inFlight |-> tasks # {}, ok |-> ok]
    /\ gap' = 0
    /\ listed' = IF ok THEN prog ELSE listed
    /\ Fault(IF ok THEN 0 ELSE 1)
    /\ UNCHANGED <<world, uptime, window, noted, lastAct, green,
                   ledger, disk, tasks, ghosts>>

Running == {p \in Programs : listed[p].st = "RUNNING"}
Missed  == {p \in Running \ Workers : prog[p].st # "RUNNING" \/ mood[p] = "deaf"}
Stuck   == {p \in Running : prog[p].st = "RUNNING" /\ mood[p] = "stuck"}

\* _track_gate, of a gate that counts: the ledger and the green streak.
Closes == ledger.red /\ db

TrackedLedger ==
    IF ~db THEN [ledger EXCEPT !.red = TRUE]
    ELSE IF ledger.red THEN [ledger EXCEPT !.red = FALSE, !.ended = 0]
    ELSE ledger

TrackedGreen ==
    IF ~db THEN NotGreen
    ELSE IF ledger.red THEN [known |-> TRUE, since |-> 0, cycles |-> Older(0, FatalGreen)]
    ELSE IF ~green.known
         THEN [known |-> TRUE, since |-> GreenBefore, cycles |-> Older(0, FatalGreen)]
    ELSE [green EXCEPT !.cycles = Older(@, FatalGreen)]

\* Mutant: a new process keeps the misses of the one before.
TrackedForGood(p, cleared, starved) ==
    LET kept == IF cleared THEN <<>> ELSE window[p]
        all  == IF starved \/ p \in Workers THEN kept
                ELSE Append(kept, p \in Missed)
    IN  IF p \in Running
        THEN SubSeq(all, IF Len(all) > WindowSize THEN 2 ELSE 1, Len(all))
        ELSE kept

\* _track_pause and _track_programs, for p.
Tracked(p, cleared, starved) ==
    LET anew == cleared \/ (p \in Running /\ noted[p] \notin {0, listed[p].pid})
        kept == IF anew THEN <<>> ELSE window[p]
        all  == IF starved \/ p \in Workers THEN kept
                ELSE Append(kept, p \in Missed)
    IN  IF p \in Running
        THEN SubSeq(all, IF Len(all) > WindowSize THEN 2 ELSE 1, Len(all))
        ELSE kept

Misses(w) == Cardinality({i \in DOMAIN w : w[i]})

\* shadow_for (H9), and whether an action is a would-action.
ShadowFor(p) == Enforce /\ p \in Shadowed
Would(shadow) == ~Enforce \/ shadow

\* _liveness_trips (R1, R2), _section_trips (R3) and _worker_trips (R4), in
\* the order of the rules; w is the windows of this cycle.
Failing(w)  == {p \in Missed : Misses(w[p]) >= MissesToTrip}
Section     == Stuck \ Workers
Judged      == IF Evaluation \in Running \ Missed THEN Stuck \cap Workers ELSE {}
Trips(w)    == Failing(w) \cup Section \cup Judged
Half(w)     == {p \in Running : Misses(w[p]) >= MissesToWarn} \cup Section

OverBudget(l, p) ==
    Count(IF ShadowFor(p) THEN l.shadow ELSE l.real, {p}, "restart") >= ProgramBudget

\* _correlation (H4).
Correlated(l, w, p) ==
    LET peers == IF p \in Workers THEN Judged
                 ELSE {q \in Half(w) \ Workers : ClassOf[q] = ClassOf[p]}
    IN  Cardinality({q \in peers : ~OverBudget(l, q)}) >= 2

\* _global_failure (H5): more than a third of the programs probed.
GlobalFailure ==
    3 * Cardinality(Missed) > Cardinality(Running \ Workers) + Others

\* Mutant: the watchdog's own start gives no grace.
GraceOfProgram(p) == listed[p].up < Grace \/ lastAct[p] < Grace

\* _grace (H6).
InGrace(p) == uptime < Grace \/ listed[p].up < Grace \/ lastAct[p] < Grace

\* Mutant: the cycle looks for an action in flight as it decides; none.
HeldByOwnAction(acted) == acted \/ tasks # {}
HeldByNothing(acted)   == acted

\* H8.
OtherAction(acted) == acted \/ cycle.inFlight

\* _holds: H1 to H8, for a trip of p; g is the green streak of this cycle.
Held(l, w, g, lockWait, acted, p) ==
    \/ ~cycle.ok
    \/ ~db \/ g.since < GreenBefore
    \/ lockWait
    \/ Correlated(l, w, p)
    \/ GlobalFailure
    \/ InGrace(p)
    \/ ~FreeNow(l, p, "restart", ShadowFor(p))
    \/ OtherAction(acted)

\* _fatal_starts (R5): what it starts in this cycle.
Eligible(l) == {p \in Programs :
                    listed[p].st = "FATAL" /\ RedSince(l, listed[p].up + RedLookback)}
Starts(l, g) ==
    {p \in Eligible(l) :
        /\ db /\ g.cycles >= FatalGreen
        /\ cycle.ok /\ uptime >= Grace
        /\ FreeNow(l, p, "start", ShadowFor(p))
        /\ ~OtherAction(FALSE)}

Decision(kind, ps, pid, shadow) ==
    [kind |-> kind, programs |-> ps, pid |-> pid, would |-> Would(shadow), age |-> 0]

Bookings0(ps, kind) == {Booking(p, kind) : p \in ps}

\* The batches of R5: a real one, then a shadow one.
StartDecisions(ps) ==
    LET batch(shadow) == {p \in ps : ShadowFor(p) = shadow}
        one(shadow)   == IF batch(shadow) = {} THEN <<>>
                         ELSE <<Decision("start", batch(shadow), 0, shadow)>>
    IN  one(FALSE) \o one(TRUE)

\* The trips that nothing holds; the first rule's come first, one is taken.
First(w, ps) ==
    LET ranked == <<Failing(w), Section, Judged>>
    IN  {p \in ps : \E i \in 1..3 : /\ p \in ranked[i]
                                    /\ \A j \in 1..(i - 1) : ps \cap ranked[j] = {}}

\* What ends a cycle: the ledger of the state and the new action, if any;
\* then _record, which can fail.
Conclude(l, todo) ==
    /\ ledger' = l
    /\ disk' = IF writable THEN l ELSE disk
    /\ tasks' = tasks \cup (IF todo = <<>> THEN {} ELSE {[todo |-> todo, step |-> "book"]})

\* _Cycle.run and the end of Watchdog.cycle.  What troubles it: starvation,
\* with a gate that PostgreSQL answered or not; a lock wait.
EndCycle(trouble) ==
    LET starved == trouble \in {"starved", "unanswered"}
        tracked == ~(starved /\ (db \/ trouble = "unanswered"))
        cleared == (tracked /\ Closes) \/ cycle.late
        l == IF tracked THEN TrackedLedger ELSE ledger
        g == IF tracked THEN TrackedGreen ELSE green
        w == [p \in Programs |-> Tracked(p, cleared, starved)]
        starts == IF starved THEN {} ELSE Starts(l, g)
        l5 == Book(Book(l, Bookings0({p \in starts : ~ShadowFor(p)}, "start"), FALSE),
                   Bookings0({p \in starts : ShadowFor(p)}, "start"), TRUE)
        free == IF starved THEN {}
                ELSE {p \in Trips(w) :
                        ~Held(l5, w, g, trouble = "lock", starts # {}, p)}
    IN  /\ cycle.on
        /\ cycle' = Idle
        /\ window' = w
        /\ noted' = [p \in Programs |-> IF p \in Running THEN listed[p].pid ELSE noted[p]]
        /\ green' = g
        /\ \/ /\ free = {}
              /\ Conclude(l5, StartDecisions(starts))
              /\ UNCHANGED lastAct
           \/ \E p \in First(w, free) :
              /\ Conclude(Book(l5, {Booking(p, "restart")}, ShadowFor(p)),
                          <<Decision("restart", {p}, listed[p].pid, ShadowFor(p))>>)
              /\ lastAct' = [lastAct EXCEPT ![p] = 0]
        /\ Fault(IF trouble = "none" THEN 0 ELSE 1)
        /\ evidence' = [p \in Programs |->
                IF starved THEN evidence[p]
                ELSE IF p \in Stuck THEN MissesToTrip
                ELSE IF p \in Missed THEN Older(evidence[p], MissesToTrip)
                ELSE evidence[p]]
        /\ sinceRed' = IF tracked /\ ~db THEN 0 ELSE sinceRed
        /\ UNCHANGED <<world, uptime, gap, listed, signalled>>
-----------------------------------------------------------------------------
(***************************************************************************)
(* The action, a task: _act carries out its decisions in order.            *)
(***************************************************************************)
Current(t) == Head(t.todo)

Becomes(t, set) == tasks' = (tasks \ {t}) \cup set
Proceed(t, step) == Becomes(t, {[t EXCEPT !.step = step]})
Finish(t) == Becomes(t, IF Len(t.todo) = 1 THEN {}
                        ELSE {[todo |-> Tail(t.todo), step |-> "book"]})

\* _book: an action whose booking cannot be written stops.
BookAction(t) ==
    /\ t.step = "book"
    /\ disk' = IF writable THEN ledger ELSE disk
    /\ IF ~writable THEN Finish(t)
       ELSE IF Current(t).kind = "restart" THEN Proceed(t, "verify")
       ELSE IF Current(t).would THEN Finish(t) ELSE Proceed(t, "start")
    /\ UNCHANGED <<world, memory, faults, ghosts>>

\* Is the process the decision was about still the program's?
SameProcess(d) ==
    \A p \in d.programs : prog[p].st = "RUNNING" /\ prog[p].pid = d.pid

\* _open_verified, and the evidence; a would-restart ends here.
Verify(t, ok) ==
    /\ t.step = "verify"
    /\ IF ok /\ SameProcess(Current(t)) /\ ~Current(t).would
       THEN Proceed(t, "term") ELSE Finish(t)
    /\ Fault(IF ok THEN 0 ELSE 1)
    /\ UNCHANGED <<world, memory, disk, ghosts>>

\* The booking of d, once it is acted on.
Signal(d, p) ==
    signalled' = signalled \cup
        (IF d.age = BudgetWindow THEN {}
         ELSE {[program |-> p, action |-> d.kind, age |-> d.age]})

\* TERM to the group, unless the process has exited; it may exit at once.
Term(t, exits) ==
    /\ t.step = "term"
    /\ IF SameProcess(Current(t))
       THEN /\ \E p \in Current(t).programs :
                  /\ prog' = IF exits THEN [prog EXCEPT ![p].st = "STARTING"] ELSE prog
                  /\ Signal(Current(t), p)
            /\ Proceed(t, "kill")
       ELSE Finish(t) /\ UNCHANGED <<prog, signalled>>
    /\ UNCHANGED <<mood, db, writable, memory, disk, faults, evidence, sinceRed>>

\* KILL to what is left of the group.
Kill(t) ==
    /\ t.step = "kill"
    /\ \E p \in Current(t).programs :
          prog' = IF SameProcess(Current(t))
                  THEN [prog EXCEPT ![p].st = "STARTING"] ELSE prog
    /\ Proceed(t, "confirm")
    /\ UNCHANGED <<mood, db, writable, memory, disk, faults, ghosts>>

\* _confirm: a new process runs, or confirm_s are over.
Confirm(t) ==
    /\ t.step = "confirm"
    /\ Finish(t)
    /\ UNCHANGED <<world, memory, disk, faults, ghosts>>

\* SignalActuator.start: one program of the batch, which supervisord starts
\* if it is FATAL, or refuses to.
StartOne(t, p, ok) ==
    /\ t.step = "start" /\ p \in Current(t).programs
    /\ prog' = IF ok /\ prog[p].st = "FATAL"
               THEN [prog EXCEPT ![p].st = "STARTING"] ELSE prog
    /\ IF ok THEN Signal(Current(t), p) ELSE UNCHANGED signalled
    /\ IF Current(t).programs = {p} THEN Finish(t)
       ELSE Becomes(t, {[t EXCEPT !.todo[1].programs = @ \ {p}]})
    /\ Fault(IF ok THEN 0 ELSE 1)
    /\ UNCHANGED <<mood, db, writable, memory, disk, evidence, sinceRed>>

ActionStep(t) ==
    \/ BookAction(t) \/ Kill(t) \/ Confirm(t)
    \/ \E ok \in BOOLEAN : Verify(t, ok) \/ Term(t, ok)
    \/ \E p \in Programs, ok \in BOOLEAN : StartOne(t, p, ok)
-----------------------------------------------------------------------------
Troubles == {"none", "starved", "unanswered", "lock"}

ProgramStep(p) ==
    \/ \E how \in {"deaf", "stuck"} : Fail(p, how)
    \/ Recover(p) \/ Exit(p) \/ Respawn(p) \/ GiveUp(p)

Next ==
    \/ \E p \in Programs : ProgramStep(p)
    \/ DatabaseTurns \/ DiskTurns \/ Tick
    \/ \E file \in {disk, Unreadable} : Crash(file)
    \/ \E ok \in BOOLEAN : BeginCycle(ok)
    \/ \E trouble \in Troubles : EndCycle(trouble)
    \/ \E t \in tasks : ActionStep(t)

Spec == Init /\ [][Next]_vars

(***************************************************************************)
(* Time passes, cycles follow each other and end, an action goes on,       *)
(* supervisord starts again what exited, and PostgreSQL and the disk come  *)
(* back.                                                                   *)
(***************************************************************************)
Fairness ==
    /\ WF_vars(Tick)
    /\ WF_vars(BeginCycle(TRUE)) /\ WF_vars(EndCycle("none"))
    /\ WF_vars(\E t \in tasks : ActionStep(t))
    /\ \A p \in Programs : WF_vars(Respawn(p))
    /\ WF_vars(~db /\ DatabaseTurns) /\ WF_vars(~writable /\ DiskTurns)

FairSpec == Spec /\ Fairness
-----------------------------------------------------------------------------
(***************************************************************************)
(*                               Properties                                *)
(***************************************************************************)

(***************************************************************************)
(* The budgets hold of what really happened to the programs, not only of   *)
(* what the ledger says: in any window, and across crashes of the watchdog *)
(* between any two steps, writes of the ledger that fail and a ledger file *)
(* that does not parse, no more than the budgeted restarts reach a program *)
(* or a pool, and no more than the budgeted starts a program.              *)
(***************************************************************************)
BudgetKept ==
    \A p \in Programs :
        /\ Count(signalled, {p}, "restart") <= ProgramBudget
        /\ Count(signalled, PoolOf(p), "restart") <= PoolBudget
        /\ Count(signalled, {p}, "start") <= FatalBudget

(***************************************************************************)
(* There is never a second action in flight, whichever way an action's end *)
(* and the cycles interleave (H8).                                         *)
(***************************************************************************)
OneActionInFlight == Cardinality(tasks) <= 1

\* A restart that has just reached a process of p.
Restarted(p) ==
    Count(signalled', {p}, "restart") > Count(signalled, {p}, "restart")

(***************************************************************************)
(* A process that gets the watchdog's TERM has failed by itself: it missed *)
(* as many probes as trip, or a rule found it stuck.  It never answers for *)
(* a process that had its place before, whenever that one was replaced.    *)
(***************************************************************************)
TermedOnItsOwnEvidence ==
    [][\A p \in Programs : Restarted(p) => evidence[p] = MissesToTrip]_vars

Booked(action) ==
    {p \in Programs : \E b \in (ledger'.real \cup ledger'.shadow) :
        /\ b.program = p /\ b.action = action /\ b.age = 0
        /\ cycle.on /\ ~cycle'.on
        /\ b \notin ledger.real \cup ledger.shadow}

(***************************************************************************)
(* No restart is decided until the database has been green for             *)
(* GREEN_BEFORE_RESTART_S, a red gate that an earlier watchdog took note   *)
(* of included: the new one does not wait for that, but for its own grace. *)
(***************************************************************************)
RestartsLongAfterOutage ==
    [][Booked("restart") # {} => sinceRed >= GreenBefore]_vars

(***************************************************************************)
(* R5 starts only what is FATAL as it decides: a program that a batch has  *)
(* already started is never booked again because the answer of supervisord *)
(* predates that start ("Taken before the source is read", main.py 887).   *)
(***************************************************************************)
StartsAreNeeded ==
    [][\A p \in Booked("start") : prog[p].st = "FATAL"]_vars

(***************************************************************************)
(* A program that hangs alone does not stay so: when the faults are over,  *)
(* no hold lasts, and its process is replaced (or recovers).               *)
(***************************************************************************)
HangsAlone(p) ==
    /\ prog[p].st = "RUNNING" /\ mood[p] # "ok"
    /\ Enforce /\ p \notin Shadowed
    /\ \A q \in Programs \ {p} : prog[q].st = "RUNNING" /\ mood[q] = "ok"

HungIsReplaced == \A p \in Programs : ~<>[]HangsAlone(p)
=============================================================================
