---------------------------- MODULE OrderedQueue ----------------------------
(***************************************************************************)
(* What a triggered service expects of its operation queue: a set of       *)
(* entries, at most one per item, from which pop takes the first in the    *)
(* order of priority, then timestamp, then age.                            *)
(***************************************************************************)
EXTENDS Integers

CONSTANTS
    Items,        \* the payloads (QueueItem)
    Priorities,   \* Priorities[x]: those given for x, 0 (the most urgent) to 4
    Times,        \* Times[x]: the timestamps that callers give for x
    Clock,        \* what make_datetime() may return, in any order
    MaxPushes     \* bound on the pushes

VARIABLES
    entries,      \* the entries in the queue
    pushes,       \* _next_index
    lastDefault,  \* _last_default_timestamp
    popped        \* what the last call returned, if it was a pop

queueVars == <<entries, pushes, lastDefault, popped>>

\* QueueEntry.__lt__
Less(e, f) ==
    \/ e.priority < f.priority
    \/ e.priority = f.priority /\ e.timestamp < f.timestamp
    \/ e.priority = f.priority /\ e.timestamp = f.timestamp /\ e.index < f.index

Listed(x) == \E e \in entries : e.item = x

QueueInit ==
    /\ entries = {}
    /\ pushes = 0
    /\ lastDefault = 0
    /\ popped = {}

\* push, with the timestamp ts.
Add(x, p, ts) ==
    /\ pushes < MaxPushes
    /\ ~Listed(x)
    /\ entries' = entries \cup
                  {[item |-> x, priority |-> p, timestamp |-> ts, index |-> pushes]}
    /\ pushes' = pushes + 1
    /\ popped' = {}

\* push without a timestamp: it gets one that is not before the present and
\* after that of every earlier such push, so these keep their order even if
\* the clock steps back.
AddNow(x, p, now) ==
    /\ lastDefault' >= now /\ lastDefault' > lastDefault
    /\ Add(x, p, lastDefault')

TakeFirst ==
    \E e \in entries :
        /\ \A f \in entries \ {e} : Less(e, f)
        /\ entries' = entries \ {e}
        /\ popped' = {e}
        /\ UNCHANGED <<pushes, lastDefault>>

TakeOut(x) ==
    \E e \in entries :
        /\ e.item = x
        /\ entries' = entries \ {e}
        /\ popped' = {}
        /\ UNCHANGED <<pushes, lastDefault>>

Reprioritise(x, p) ==
    \E e \in entries :
        /\ e.item = x
        /\ entries' = (entries \ {e}) \cup {[e EXCEPT !.priority = p]}
        /\ popped' = {}
        /\ UNCHANGED <<pushes, lastDefault>>

QueueNext ==
    \/ \E x \in Items : \E p \in Priorities[x] :
          \/ \E ts \in Times[x] : Add(x, p, ts) /\ UNCHANGED lastDefault
          \/ \E now \in Clock : AddNow(x, p, now)
          \/ Reprioritise(x, p)
    \/ TakeFirst
    \/ \E x \in Items : TakeOut(x)

QueueSpec == QueueInit /\ [][QueueNext]_queueVars
==============================================================================
