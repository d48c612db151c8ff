-------------------------- MODULE AsyncPriorityQueue --------------------------
(***************************************************************************)
(* AsyncPriorityQueue: a binary min-heap with a reverse lookup from items  *)
(* to positions, and the event its consumers wait for.  Everything runs on *)
(* the event loop with no await inside, so every method is one step.       *)
(* Positions are those of the code plus one.                               *)
(***************************************************************************)
EXTENDS Integers, Sequences, Functions

CONSTANTS Items, Priorities, Times, Clock, MaxPushes

\* Priorities and times are numbers, and the clock never shows the time 0 that
\* stands for None.
ASSUME QueueAssumption ==
    /\ \A x \in Items : Priorities[x] \subseteq Int /\ Times[x] \subseteq Int
    /\ Clock \subseteq Nat \ {0}
    /\ MaxPushes \in Nat

VARIABLES
    queue,        \* _queue
    reverse,      \* _reverse
    event,        \* _event is set
    pushes,       \* _next_index
    lastDefault,  \* _last_default_timestamp (0 for None)
    popped        \* what the last call returned, if it was a pop

vars == <<queue, reverse, event, pushes, lastDefault, popped>>

Spec0 == INSTANCE OrderedQueue WITH entries <- Range(queue)

Init ==
    /\ queue = <<>>
    /\ reverse = [x \in {} |-> 0]
    /\ event = FALSE
    /\ pushes = 0
    /\ lastDefault = 0
    /\ popped = {}

\* A heap being rearranged: the list, the reverse lookup, and the position
\* of the element on the move.
Heap(q, r, i) == [queue |-> q, reverse |-> r, at |-> i]

\* Mutant: only one of the two reverse entries is updated.
HalfSwap(h, i, j) ==
    LET q == [h.queue EXCEPT ![i] = h.queue[j], ![j] = h.queue[i]]
    IN  Heap(q, [h.reverse EXCEPT ![q[j].item] = j], j)

\* _swap
Swap(h, i, j) ==
    LET q == [h.queue EXCEPT ![i] = h.queue[j], ![j] = h.queue[i]]
    IN  Heap(q, [h.reverse EXCEPT ![q[i].item] = i, ![q[j].item] = j], j)

\* A round of the loop of _up_heap, which breaks where nothing is to be done.
UpRound(h) ==
    IF h.at > 1 /\ Spec0!Less(h.queue[h.at], h.queue[h.at \div 2])
    THEN Swap(h, h.at, h.at \div 2)
    ELSE h

\* _up_heap: it never takes more rounds than there are positions.
UpHeap(h) ==
    LET up[n \in Nat] == IF n = 0 THEN h ELSE UpRound(up[n - 1])
    IN  up[Len(h.queue)]

\* The child that _down_heap compares with.
Child(q, i) ==
    IF 2 * i + 1 <= Len(q) /\ Spec0!Less(q[2 * i + 1], q[2 * i])
    THEN 2 * i + 1 ELSE 2 * i

\* A round of the loop of _down_heap, and the loop.
DownRound(h) ==
    IF 2 * h.at <= Len(h.queue)
       /\ Spec0!Less(h.queue[Child(h.queue, h.at)], h.queue[h.at])
    THEN Swap(h, h.at, Child(h.queue, h.at))
    ELSE h

DownHeap(h) ==
    LET down[n \in Nat] == IF n = 0 THEN h ELSE DownRound(down[n - 1])
    IN  down[Len(h.queue)]

UpDownHeap(h) == DownHeap(UpHeap(h))

Becomes(h) == queue' = h.queue /\ reverse' = h.reverse

\* The tail of pop and of remove: the last element takes the place i.
SwappedOut(i) ==
    LET h == Swap(Heap(queue, reverse, i), i, Len(queue))
    IN  Heap(SubSeq(h.queue, 1, Len(queue) - 1),
             Restrict(h.reverse, DOMAIN reverse \ {queue[i].item}), i)
-----------------------------------------------------------------------------
\* push of an item that is not in the queue; otherwise it returns False.
Push(x, p, ts) ==
    LET e == [item |-> x, priority |-> p, timestamp |-> ts, index |-> pushes]
        n == Len(queue) + 1
    IN  /\ pushes < MaxPushes
        /\ x \notin DOMAIN reverse
        /\ Becomes(UpHeap(Heap(Append(queue, e),
                               [y \in DOMAIN reverse \cup {x} |->
                                   IF y = x THEN n ELSE reverse[y]], n)))
        /\ pushes' = pushes + 1
        /\ popped' = {}
        /\ event' = TRUE

PushAt(x, p, ts) == Push(x, p, ts) /\ UNCHANGED lastDefault

\* Without a timestamp: the time, but after the last one given this way.
DefaultTimestamp(now) ==
    IF lastDefault # 0 /\ now < lastDefault + 1 THEN lastDefault + 1 ELSE now

PushNow(x, p, now) ==
    /\ Push(x, p, DefaultTimestamp(now))
    /\ lastDefault' = DefaultTimestamp(now)

\* pop, once top has an element to return.
Pop ==
    /\ queue # <<>>
    /\ popped' = {queue[1]}
    /\ IF Len(queue) > 1
       THEN Becomes(DownHeap(SwappedOut(1))) /\ UNCHANGED event
       ELSE Becomes(SwappedOut(1)) /\ event' = FALSE
    /\ UNCHANGED <<pushes, lastDefault>>

\* Mutant: the event stays set when the last entry is removed.
RemoveKeepingEvent(x) ==
    /\ x \in DOMAIN reverse
    /\ popped' = {}
    /\ Becomes(IF reverse[x] = Len(queue)
               THEN SwappedOut(reverse[x])
               ELSE UpDownHeap(SwappedOut(reverse[x])))
    /\ UNCHANGED <<event, pushes, lastDefault>>

\* Mutant: the entry that takes the place of the removed one only goes down.
RemoveOnlyDown(x) ==
    /\ x \in DOMAIN reverse
    /\ popped' = {}
    /\ Becomes(IF reverse[x] = Len(queue)
               THEN SwappedOut(reverse[x])
               ELSE DownHeap(SwappedOut(reverse[x])))
    /\ event' = (event /\ Len(queue) > 1)
    /\ UNCHANGED <<pushes, lastDefault>>

Remove(x) ==
    /\ x \in DOMAIN reverse
    /\ popped' = {}
    /\ Becomes(IF reverse[x] = Len(queue)
               THEN SwappedOut(reverse[x])
               ELSE UpDownHeap(SwappedOut(reverse[x])))
    /\ event' = (event /\ Len(queue) > 1)
    /\ UNCHANGED <<pushes, lastDefault>>

SetPriority(x, p) ==
    /\ x \in DOMAIN reverse
    /\ popped' = {}
    /\ Becomes(UpDownHeap(Heap([queue EXCEPT ![reverse[x]].priority = p],
                               reverse, reverse[x])))
    /\ UNCHANGED <<event, pushes, lastDefault>>

Next ==
    \/ \E x \in Items : \E p \in Priorities[x] :
          \/ \E ts \in Times[x] : PushAt(x, p, ts)
          \/ \E now \in Clock : PushNow(x, p, now)
          \/ SetPriority(x, p)
    \/ Pop
    \/ \E x \in Items : Remove(x)

Spec == Init /\ [][Next]_vars
-----------------------------------------------------------------------------
(***************************************************************************)
(* The reverse lookup gives the position of every item, whatever sequence  *)
(* of pushes, pops, removals and changes of priority moved it: remove and  *)
(* set_priority act on the entry they were asked for.                      *)
(***************************************************************************)
ReverseIndexesQueue ==
    /\ DOMAIN reverse = {queue[i].item : i \in 1..Len(queue)}
    /\ \A i \in 1..Len(queue) : reverse[queue[i].item] = i

(***************************************************************************)
(* The consumers' event is set exactly while there is something to pop:    *)
(* pop(wait=True) neither sleeps over an entry nor spins on an empty queue.*)
(***************************************************************************)
EventMeansNonEmpty == event <=> queue # <<>>

(***************************************************************************)
(* The heap is an OrderedQueue: pop returns the first entry of all, no     *)
(* operation loses, duplicates or alters another entry, and the pushes     *)
(* without a timestamp keep their order when the clock steps back.         *)
(***************************************************************************)
ImplementsOrderedQueue == Spec0!QueueSpec
==============================================================================
