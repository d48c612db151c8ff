--------------------------- MODULE WatchdogLedger ---------------------------
(***************************************************************************)
(* The ledger of the watchdog (policy.Ledger): what it must remember of    *)
(* its own actions and of the database's outages across its restarts.      *)
(*                                                                         *)
(* Times are ages, in cycles, up to BudgetWindow; what reaches that age    *)
(* counts no more, whether or not prune() has dropped it yet.  The alerts  *)
(* and the incidents, which only word alerts, are left out.                *)
(***************************************************************************)
EXTENDS Naturals, FiniteSets

CONSTANTS
    Programs,          \* the managed programs
    Workers,           \* those of kind Worker
    BudgetWindow,      \* BUDGET_WINDOW_S and CORRUPT_LEDGER_S, in cycles
    ProgramBudget,     \* restarts of a program in the window
    PoolBudget,        \* restarts of a pool in the window
    FatalBudget        \* starts of a FATAL program in the window

ASSUME LedgerAssumption ==
    /\ IsFiniteSet(Programs)
    /\ Workers \subseteq Programs
    /\ BudgetWindow \in Nat \ {0}
    /\ ProgramBudget \in Nat \ {0}
    /\ PoolBudget \in Nat \ {0}
    /\ FatalBudget \in Nat \ {0}

Ages == 0..BudgetWindow

\* pool_of: the Workers have their own pool.
PoolOf(p) == IF p \in Workers THEN Workers ELSE Programs \ Workers

Bookings == [program : Programs, action : {"restart", "start"},
             age : 0..(BudgetWindow - 1)]

\* real and shadow; whether the last red interval is open, and how long ago
\* the last closed one ended (red_since needs no other); for how long the
\* budgets are exhausted.
Ledgers == [real : SUBSET Bookings, shadow : SUBSET Bookings,
            red : BOOLEAN, ended : Ages, exhausted : Ages]

EmptyLedger == [real |-> {}, shadow |-> {}, red |-> FALSE,
                ended |-> BudgetWindow, exhausted |-> 0]

\* Ledger.exhausted.
ExhaustedLedger == [EmptyLedger EXCEPT !.exhausted = BudgetWindow]

Booking(p, action) == [program |-> p, action |-> action, age |-> 0]

\* Ledger.book.
Book(ledger, bookings, shadow) ==
    IF shadow THEN [ledger EXCEPT !.shadow = @ \cup bookings]
              ELSE [ledger EXCEPT !.real = @ \cup bookings]

Older(age, cap) == IF age < cap THEN age + 1 ELSE cap

\* Mutant: nothing is ever dropped.
OlderAll(bookings) == {[b EXCEPT !.age = @ + 1] : b \in bookings}

\* A cycle's time passes; age() and prune().
OlderBookings(bookings) ==
    {[b EXCEPT !.age = @ + 1] : b \in {b \in bookings : b.age + 1 < BudgetWindow}}

\* Mutant: what exhausts the budgets is never over.
OlderButExhausted(ledger) ==
    [real      |-> OlderBookings(ledger.real),
     shadow    |-> OlderBookings(ledger.shadow),
     red       |-> ledger.red,
     ended     |-> Older(ledger.ended, BudgetWindow),
     exhausted |-> ledger.exhausted]

OlderLedger(ledger) ==
    [real      |-> OlderBookings(ledger.real),
     shadow    |-> OlderBookings(ledger.shadow),
     red       |-> ledger.red,
     ended     |-> Older(ledger.ended, BudgetWindow),
     exhausted |-> IF ledger.exhausted > 0 THEN ledger.exhausted - 1 ELSE 0]

\* Ledger.count, for a program and for a pool.
Count(bookings, programs, action) ==
    Cardinality({b \in bookings : b.program \in programs /\ b.action = action})

\* Ledger.free_at is None: the budgets allow the action on p now.
FreeNow(ledger, p, action, shadow) ==
    LET booked == IF shadow THEN ledger.shadow ELSE ledger.real
    IN  /\ ledger.exhausted = 0
        /\ action = "restart" => /\ Count(booked, {p}, action) < ProgramBudget
                                 /\ Count(booked, PoolOf(p), action) < PoolBudget
        /\ action = "start" => Count(booked, {p}, action) < FatalBudget

\* Ledger.red_since, of a time `since' cycles ago: is a red interval open,
\* or did one end after that?
RedSince(ledger, since) ==
    ledger.red \/ (ledger.ended < since /\ ledger.ended < BudgetWindow)
=============================================================================
