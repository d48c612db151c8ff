----------------------- MODULE AsyncPriorityQueueProofs -----------------------
(***************************************************************************)
(* The heap of AsyncPriorityQueue is an OrderedQueue, whatever its size.   *)
(*                                                                         *)
(* _up_heap and _down_heap are loops.  What they compute follows from      *)
(* three facts about one round: it keeps a set of heaps that is described  *)
(* by the loop's invariant, it comes nearer to one end of the heap, and a  *)
(* heap in that set that it leaves as it is, is in order.  The first       *)
(* section turns such facts about a round into facts about the loop, by    *)
(* induction in the form of the least-number principle.                    *)
(***************************************************************************)
EXTENDS AsyncPriorityQueue, WellFoundedInduction, TLAPS

-----------------------------------------------------------------------------
(* Loops *)

\* Every nonempty set of numbers has a least one.
LEMMA LeastNumber ==
  ASSUME NEW T \in SUBSET Nat, T # {}
  PROVE  \E x \in T : \A y \in T : x <= y
<1> DEFINE R == {ss \in Nat \X Nat : ss[1] < ss[2]}
<1>1. IsWellFoundedOn(R, Nat)
  BY NatLessThanWellFounded DEF OpToRel
<1>2. \A x \in Nat, y \in Nat : y < x => <<y, x>> \in R
  OBVIOUS
<1> HIDE DEF R
<1>3. PICK x \in T : \A y \in T : ~ (<<y, x>> \in R)
  BY <1>1, WFMin
<1>4. \A y \in T : ~(y < x)
  BY <1>2, <1>3
<1>5. \A y \in T : x <= y
  BY <1>4
<1> QED
  BY <1>5

\* Induction on a set of numbers.
LEMMA SetInduction ==
  ASSUME NEW T \in SUBSET Nat, 0 \in T, \A n \in T : n + 1 \in T
  PROVE  T = Nat
<1>1. SUFFICES ASSUME Nat \ T # {}
               PROVE  FALSE
  OBVIOUS
<1>2. PICK x \in Nat \ T : \A y \in Nat \ T : x <= y
  BY <1>1, LeastNumber
<1>3. x # 0 /\ x - 1 \in Nat
  BY <1>2
<1>4. x - 1 \in T
  BY <1>2, <1>3
<1> QED
  BY <1>2, <1>3, <1>4

\* The first n rounds of a loop from x.
Rounds(S, round, x, n) ==
    {g \in [0 .. n -> S] : g[0] = x /\ \A k \in 0 .. n - 1 : g[k + 1] = round[g[k]]}

Loops(S, round, x) ==
    {f \in [Nat -> S] : f[0] = x /\ \A n \in Nat : f[n + 1] = round[f[n]]}

\* A loop can be run for ever.
LEMMA LoopExists ==
  ASSUME NEW S, NEW round \in [S -> S], NEW x \in S
  PROVE  Loops(S, round, x) # {}
<1> DEFINE T == {n \in Nat : Rounds(S, round, x, n) # {}}
<1>1. 0 \in T
  <2>1. [k \in 0 .. 0 |-> x] \in Rounds(S, round, x, 0)
    BY DEF Rounds
  <2> QED
    BY <2>1
<1>2. ASSUME NEW n \in T
      PROVE  n + 1 \in T
  <2>1. PICK g : g \in Rounds(S, round, x, n)
    OBVIOUS
  <2>2. /\ g \in [0 .. n -> S] /\ g[0] = x
        /\ \A k \in 0 .. n - 1 : g[k + 1] = round[g[k]]
    BY <2>1 DEF Rounds
  <2> DEFINE h == [k \in 0 .. n + 1 |-> IF k = n + 1 THEN round[g[n]] ELSE g[k]]
  <2>3. h \in [0 .. n + 1 -> S]
    <3>1. g[n] \in S /\ round[g[n]] \in S
      BY <2>2
    <3>2. \A k \in 0 .. n + 1 : k # n + 1 => g[k] \in S
      BY <2>2
    <3> QED
      BY <3>1, <3>2
  <2>4. h[0] = x
    BY <2>2
  <2>5. ASSUME NEW k \in 0 .. (n + 1) - 1
        PROVE  h[k + 1] = round[h[k]]
    <3>1. CASE k = n
      BY <3>1
    <3>2. CASE k # n
      <4>1. k \in 0 .. n - 1 /\ k + 1 # n + 1 /\ k # n + 1 /\ k + 1 \in 0 .. n + 1
            /\ k \in 0 .. n + 1
        BY <3>2
      <4> QED
        BY <2>2, <4>1
    <3> QED
      BY <3>1, <3>2
  <2> HIDE DEF h
  <2>6. h \in Rounds(S, round, x, n + 1)
    BY <2>3, <2>4, <2>5 DEF Rounds
  <2> QED
    BY <2>6
<1>3. T = Nat
  <2> HIDE DEF T
  <2>1. T \in SUBSET Nat
    BY DEF T
  <2> QED
    BY <1>1, <1>2, <2>1, SetInduction
\* The rounds up to n and those up to m agree.
<1>4. ASSUME NEW n \in Nat, NEW m \in Nat, n <= m,
             NEW g \in Rounds(S, round, x, n), NEW h \in Rounds(S, round, x, m)
      PROVE  g[n] = h[n]
  <2> DEFINE A == {k \in Nat : k <= n => g[k] = h[k]}
  <2>1. 0 \in A
    BY DEF Rounds
  <2>2. ASSUME NEW k \in A
        PROVE  k + 1 \in A
    <3>1. SUFFICES ASSUME k + 1 <= n
                   PROVE  g[k + 1] = h[k + 1]
      OBVIOUS
    <3>2. g[k] = h[k] /\ k \in 0 .. n - 1 /\ k \in 0 .. m - 1
      BY <1>4, <3>1
    <3> QED
      BY <3>2 DEF Rounds
  <2>3. A = Nat
    <3> HIDE DEF A
    <3>1. A \in SUBSET Nat
      BY DEF A
    <3> QED
      BY <2>1, <2>2, <3>1, SetInduction
  <2> QED
    BY <2>3
<1> DEFINE G(n) == CHOOSE g : g \in Rounds(S, round, x, n)
           f == [n \in Nat |-> G(n)[n]]
<1>5. \A n \in Nat : G(n) \in Rounds(S, round, x, n)
  BY <1>3
<1> HIDE DEF G
<1>6. f \in [Nat -> S]
  <2>1. \A n \in Nat : G(n)[n] \in S
    BY <1>5 DEF Rounds
  <2> QED
    BY <2>1
<1>7. f[0] = x
  BY <1>5 DEF Rounds
<1>8. ASSUME NEW n \in Nat
      PROVE  f[n + 1] = round[f[n]]
  <2>1. G(n) \in Rounds(S, round, x, n) /\ G(n + 1) \in Rounds(S, round, x, n + 1)
    BY <1>5
  <2>2. G(n)[n] = G(n + 1)[n]
    BY <1>4, <2>1
  <2>3. G(n + 1)[n + 1] = round[G(n + 1)[n]]
    BY <2>1 DEF Rounds
  <2> QED
    BY <2>2, <2>3
<1> QED
  <2> HIDE DEF f
  <2>1. f \in Loops(S, round, x)
    BY <1>6, <1>7, <1>8 DEF Loops
  <2> QED
    BY <2>1

\* A loop that keeps S stays in it, and one that makes m smaller whenever it
\* does anything is done after m[x] rounds.
LEMMA LoopRuns ==
  ASSUME NEW S, NEW round \in [S -> S], NEW x \in S, NEW m \in [S -> Nat],
         \A y \in S : round[y] = y \/ m[round[y]] < m[y],
         NEW f, f[0] = x, \A n \in Nat : f[n] \in S => f[n + 1] = round[f[n]],
         NEW last \in Nat, last >= m[x]
  PROVE  f[last] \in S /\ round[f[last]] = f[last]
<1> DEFINE T == {n \in Nat : f[n] \in S /\ (round[f[n]] = f[n] \/ m[f[n]] + n <= m[x])}
<1>1. 0 \in T
  OBVIOUS
<1>2. ASSUME NEW n \in T
      PROVE  n + 1 \in T
  <2>1. f[n + 1] = round[f[n]] /\ f[n + 1] \in S
    OBVIOUS
  <2>2. CASE round[f[n]] = f[n]
    BY <2>1, <2>2
  <2>3. CASE round[f[n]] # f[n]
    <3> DEFINE a == m[f[n]]
               b == m[f[n + 1]]
               c == m[x]
    <3>1. a \in Nat /\ b \in Nat /\ c \in Nat /\ a + n <= c
      BY <2>1, <2>3
    <3>2. b < a
      BY <2>1, <2>3
    <3> HIDE DEF a, b, c
    <3>3. b + (n + 1) <= c
      BY <3>1, <3>2
    <3> QED
      BY <2>1, <3>3 DEF b, c
  <2> QED
    BY <2>2, <2>3
<1>3. T = Nat
  <2> HIDE DEF T
  <2>1. T \in SUBSET Nat
    BY DEF T
  <2> QED
    BY <1>1, <1>2, <2>1, SetInduction
<1>4. f[last] \in S /\ (round[f[last]] = f[last] \/ m[f[last]] + last <= m[x])
  BY <1>3
<1>5. CASE m[f[last]] + last <= m[x]
  <2>1. m[f[last]] = 0
    <3>1. m[f[last]] \in Nat /\ m[x] \in Nat
      BY <1>4
    <3> QED
      BY <1>5, <3>1
  <2>2. round[f[last]] \in S /\ m[round[f[last]]] \in Nat
    BY <1>4
  <2>3. ~(m[round[f[last]]] < m[f[last]])
    BY <2>1, <2>2
  <2> QED
    BY <1>4, <2>3
<1> QED
  BY <1>4, <1>5
-----------------------------------------------------------------------------
(* Heaps *)

Entries == [item : Items, priority : Int, timestamp : Int, index : Nat]

\* QueueEntry.__lt__ is an order of the entries, total on those of one queue.
LEMMA LessIsOrder ==
  ASSUME NEW e \in Entries, NEW f \in Entries, NEW g \in Entries
  PROVE  /\ Spec0!Less(e, f) => ~Spec0!Less(f, e)
         /\ ~Spec0!Less(f, e) /\ ~Spec0!Less(g, f) => ~Spec0!Less(g, e)
         /\ ~Spec0!Less(g, f) /\ Spec0!Less(e, f) => ~Spec0!Less(g, e)
         /\ e.index # f.index => Spec0!Less(e, f) \/ Spec0!Less(f, e)
<1>1. e.priority \in Int /\ f.priority \in Int /\ g.priority \in Int
      /\ e.timestamp \in Int /\ f.timestamp \in Int /\ g.timestamp \in Int
      /\ e.index \in Nat /\ f.index \in Nat /\ g.index \in Nat
  BY DEF Entries
<1>2. Spec0!Less(e, f) => ~Spec0!Less(f, e)
  BY <1>1 DEF Spec0!Less
<1>3. ~Spec0!Less(f, e) /\ ~Spec0!Less(g, f) => ~Spec0!Less(g, e)
  BY <1>1 DEF Spec0!Less
<1>4. ~Spec0!Less(g, f) /\ Spec0!Less(e, f) => ~Spec0!Less(g, e)
  BY <1>1 DEF Spec0!Less
<1>5. e.index # f.index => Spec0!Less(e, f) \/ Spec0!Less(f, e)
  BY <1>1 DEF Spec0!Less
<1> QED
  BY <1>2, <1>3, <1>4, <1>5

\* Parents and children.
LEMMA Halves ==
  ASSUME NEW i \in Nat, i >= 2
  PROVE  /\ i \div 2 \in Nat /\ 1 <= i \div 2 /\ i \div 2 < i
         /\ i = 2 * (i \div 2) \/ i = 2 * (i \div 2) + 1
  OBVIOUS

\* The heaps of n positions that hold the entries E, each at the position that
\* the reverse lookup gives.
Heaps(n, E) ==
    {h \in [queue : [1 .. n -> E], reverse : [{e.item : e \in E} -> 1 .. n], at : 1 .. n] :
        /\ \A e \in E : \E i \in 1 .. n : h.queue[i] = e
        /\ \A i \in 1 .. n : h.reverse[h.queue[i].item] = i}

\* _swap keeps the reverse lookup in step.
LEMMA SwapIsHeap ==
  ASSUME NEW n \in Nat, NEW E, NEW h \in Heaps(n, E), NEW i \in 1 .. n, NEW j \in 1 .. n
  PROVE  /\ Swap(h, i, j) \in Heaps(n, E)
         /\ Swap(h, i, j).at = j
         /\ Swap(h, i, j).queue = [h.queue EXCEPT ![i] = h.queue[j], ![j] = h.queue[i]]
<1> DEFINE D == {e.item : e \in E}
           p == h.queue
           q == [p EXCEPT ![i] = p[j], ![j] = p[i]]
           r == [h.reverse EXCEPT ![q[i].item] = i, ![q[j].item] = j]
<1>1. p \in [1 .. n -> E] /\ h.reverse \in [D -> 1 .. n]
      /\ (\A e \in E : \E k \in 1 .. n : p[k] = e)
      /\ (\A k \in 1 .. n : h.reverse[p[k].item] = k)
  BY DEF Heaps
<1>2. Swap(h, i, j) = [queue |-> q, reverse |-> r, at |-> j]
  BY DEF Swap, Heap
<1>3. q \in [1 .. n -> E] /\ q[i] = p[j] /\ q[j] = p[i]
      /\ \A k \in 1 .. n \ {i, j} : q[k] = p[k]
  BY <1>1
<1>4. \A k \in 1 .. n : q[k].item \in D
  BY <1>3
<1> HIDE DEF q
<1>5. r \in [D -> 1 .. n]
  BY <1>1, <1>4
<1>6. ASSUME NEW e \in E
      PROVE  \E k \in 1 .. n : q[k] = e
  <2>1. PICK k \in 1 .. n : p[k] = e
    BY <1>1
  <2>2. q[i] = e \/ q[j] = e \/ q[k] = e
    BY <1>3, <2>1
  <2> QED
    BY <2>2
<1>7. \A k \in 1 .. n, l \in 1 .. n : q[k].item = q[l].item => k = l
  <2>1. \A k \in 1 .. n, l \in 1 .. n : p[k].item = p[l].item => k = l
    BY <1>1
  <2> QED
    BY <1>3, <2>1
<1>8. \A k \in 1 .. n : r[q[k].item] = k
  <2> SUFFICES ASSUME NEW k \in 1 .. n
               PROVE  r[q[k].item] = k
    OBVIOUS
  <2>1. CASE k = j
    BY <1>1, <1>4, <2>1
  <2>2. CASE k = i /\ k # j
    BY <1>1, <1>4, <1>7, <2>2
  <2>3. CASE k # i /\ k # j
    <3>1. q[k].item # q[i].item /\ q[k].item # q[j].item
      BY <1>7, <2>3
    <3>2. r[q[k].item] = h.reverse[q[k].item]
      BY <1>1, <1>4, <3>1
    <3> QED
      BY <1>1, <1>3, <2>3, <3>2
  <2> QED
    BY <2>1, <2>2, <2>3
<1> HIDE DEF r, p
<1>9. Swap(h, i, j) \in Heaps(n, E)
  <2> DEFINE g == Swap(h, i, j)
  <2>1. g.queue = q /\ g.reverse = r /\ g.at = j
    BY <1>2
  <2>2. g \in [queue : [1 .. n -> E], reverse : [D -> 1 .. n], at : 1 .. n]
    <3> HIDE DEF D
    <3> QED
      BY <1>2, <1>3, <1>5
  <2> HIDE DEF g
  <2> QED
    BY <1>6, <1>8, <2>1, <2>2 DEF Heaps, g
<1> QED
  BY <1>2, <1>9 DEF q, p
-----------------------------------------------------------------------------
(* _up_heap *)

InOrder(q, i) == ~Spec0!Less(q[i], q[i \div 2])

Sorted(n, q) == \A i \in 2 .. n : InOrder(q, i)

\* In order but around one position; the children of that position are in order
\* with its parent.
Across(n, h) ==
    \A i \in 2 .. n : i \div 2 = h.at /\ h.at > 1 => ~Spec0!Less(h.queue[i], h.queue[h.at \div 2])

\* The heaps that _up_heap goes through: in order but around the position on
\* the move, or, if clean, but between that position and its parent.
UpHeaps(n, E, clean) ==
    {h \in Heaps(n, E) :
        /\ \A i \in 2 .. n : i # h.at /\ i \div 2 # h.at => InOrder(h.queue, i)
        /\ Across(n, h)
        /\ clean => \A i \in 2 .. n : i \div 2 = h.at => InOrder(h.queue, i)}

LEMMA UpRoundStays ==
  ASSUME NEW n \in Nat, NEW E \in SUBSET Entries, NEW clean \in BOOLEAN,
         NEW h \in UpHeaps(n, E, clean)
  PROVE  /\ UpRound(h) \in UpHeaps(n, E, clean)
         /\ UpRound(h) = h \/ UpRound(h).at < h.at
         /\ UpRound(h) = h => h.at = 1 \/ InOrder(h.queue, h.at)
<1> DEFINE a == h.at
           b == a \div 2
           p == h.queue
<1>1. h \in Heaps(n, E) /\ a \in 1 .. n /\ p \in [1 .. n -> E]
  BY DEF UpHeaps, Heaps
<1>2. CASE ~(a > 1 /\ Spec0!Less(p[a], p[b]))
  <2>1. UpRound(h) = h
    BY <1>2 DEF UpRound
  <2> QED
    BY <1>1, <1>2, <2>1 DEF InOrder
<1>3. CASE a > 1 /\ Spec0!Less(p[a], p[b])
  <2>1. b \in 1 .. n /\ b < a /\ b # a
    BY <1>1, <1>3, Halves
  <2> DEFINE g == Swap(h, a, b)
             q == g.queue
  <2>2. UpRound(h) = g
    BY <1>3 DEF UpRound
  <2>3. g \in Heaps(n, E) /\ g.at = b /\ q = [p EXCEPT ![a] = p[b], ![b] = p[a]]
    BY <1>1, <2>1, SwapIsHeap
  <2> HIDE DEF g
  <2>4. q[a] = p[b] /\ q[b] = p[a] /\ \A i \in 1 .. n \ {a, b} : q[i] = p[i]
    BY <1>1, <2>1, <2>3
  <2>5. ASSUME NEW i \in 2 .. n
        PROVE  i \div 2 \in 1 .. n /\ i \div 2 # i /\ i \in 1 .. n
    BY Halves
  <2>6. \A i \in 1 .. n : p[i] \in Entries
    BY <1>1
  <2>7. /\ \A i \in 2 .. n : i # a /\ i \div 2 # a => ~Spec0!Less(p[i], p[i \div 2])
        /\ \A i \in 2 .. n : i \div 2 = a => ~Spec0!Less(p[i], p[b])
    BY <1>3 DEF UpHeaps, InOrder, Across
  <2> HIDE DEF p, q, a, b
  <2>8. ASSUME NEW i \in 2 .. n, i # b, i \div 2 # b
        PROVE  ~Spec0!Less(q[i], q[i \div 2])
    <3>1. CASE i = a
      BY <2>8, <3>1 DEF b
    <3>2. CASE i # a /\ i \div 2 = a
      BY <2>4, <2>5, <2>7, <2>8, <3>2
    <3>3. CASE i # a /\ i \div 2 # a
      BY <2>4, <2>5, <2>7, <2>8, <3>3
    <3> QED
      BY <3>1, <3>2, <3>3
  <2>9. ASSUME NEW i \in 2 .. n, i \div 2 = b, b > 1
        PROVE  ~Spec0!Less(q[i], q[b \div 2])
    <3>1. b \in 2 .. n /\ b \div 2 \in 1 .. n /\ b \div 2 # b /\ b \div 2 # a
      <4>1. b \in 2 .. n /\ b \div 2 < b
        BY <2>1, <2>9, Halves
      <4> QED
        BY <1>1, <2>1, <4>1, <2>5 DEF a
    <3>2. ~Spec0!Less(p[b], p[b \div 2]) /\ q[b \div 2] = p[b \div 2]
      BY <2>1, <2>4, <2>7, <3>1
    <3>3. CASE i = a
      BY <2>4, <3>2, <3>3
    <3>4. CASE i # a
      <4>1. q[i] = p[i] /\ ~Spec0!Less(p[i], p[b])
        BY <2>1, <2>4, <2>5, <2>7, <2>9, <3>4
      <4>2. p[i] \in Entries /\ p[b] \in Entries /\ p[b \div 2] \in Entries
        BY <2>1, <2>5, <2>6, <3>1
      <4> QED
        BY <3>2, <4>1, <4>2, LessIsOrder
    <3> QED
      BY <3>3, <3>4
  <2>10. ASSUME NEW i \in 2 .. n, i \div 2 = b
         PROVE  ~Spec0!Less(q[i], q[b])
    <3>1. p[a] \in Entries /\ p[b] \in Entries /\ p[i] \in Entries
      BY <1>1, <2>1, <2>5, <2>6 DEF a
    <3>2. CASE i = a
      BY <1>3, <2>4, <3>1, <3>2, LessIsOrder DEF a, b, p
    <3>3. CASE i # a
      <4>1. q[i] = p[i] /\ ~Spec0!Less(p[i], p[b])
        BY <2>1, <2>4, <2>5, <2>7, <2>10, <3>3
      <4> QED
        BY <1>3, <2>4, <3>1, <4>1, LessIsOrder DEF a, b, p
    <3> QED
      BY <3>2, <3>3
  <2>11. g \in UpHeaps(n, E, clean)
    BY <2>3, <2>8, <2>9, <2>10 DEF UpHeaps, InOrder, Across, q
  <2> QED
    BY <2>1, <2>2, <2>3, <2>11 DEF a
<1> QED
  BY <1>2, <1>3

LEMMA HeapLength ==
  ASSUME NEW n \in Nat, NEW E, NEW h \in Heaps(n, E)
  PROVE  h.queue \in Seq(E) /\ Len(h.queue) = n /\ n > 0 /\ h.at \in 1 .. n
<1>1. h.queue \in [1 .. n -> E] /\ h.at \in 1 .. n
  BY DEF Heaps
<1> QED
  BY <1>1

LEMMA UpHeapEnds ==
  ASSUME NEW n \in Nat, NEW E \in SUBSET Entries, NEW clean \in BOOLEAN,
         NEW h \in UpHeaps(n, E, clean)
  PROVE  /\ UpHeap(h) \in UpHeaps(n, E, clean)
         /\ UpHeap(h).at = 1 \/ InOrder(UpHeap(h).queue, UpHeap(h).at)
<1> DEFINE S == UpHeaps(n, E, clean)
           up[k \in Nat] == IF k = 0 THEN h ELSE UpRound(up[k - 1])
           round == [g \in S |-> UpRound(g)]
           m == [g \in S |-> g.at]
<1>1. Len(h.queue) = n /\ h.at \in 1 .. n
  BY HeapLength DEF UpHeaps
<1>2. UpHeap(h) = up[n]
  BY <1>1 DEF UpHeap
<1>3. \A g \in S : /\ UpRound(g) \in S
                   /\ UpRound(g) = g \/ UpRound(g).at < g.at
                   /\ UpRound(g) = g => g.at = 1 \/ InOrder(g.queue, g.at)
                   /\ g.at \in Nat
  <2>1. \A g \in S : g.at \in 1 .. n
    BY HeapLength DEF UpHeaps
  <2> QED
    BY <2>1, UpRoundStays
<1>4. h \in S
  OBVIOUS
<1> HIDE DEF S
<1>5. round \in [S -> S] /\ m \in [S -> Nat]
      /\ \A g \in S : round[g] = UpRound(g) /\ m[g] = g.at
  BY <1>3
<1> HIDE DEF round, m
<1>6. PICK f \in [Nat -> S] : f[0] = h /\ \A k \in Nat : f[k + 1] = round[f[k]]
  <2>1. round \in [S -> S]
    BY <1>5
  <2>2. Loops(S, round, h) # {}
    BY <1>4, <2>1, LoopExists
  <2> QED
    BY <2>2 DEF Loops
<1>7. f = [k \in Nat |-> IF k = 0 THEN h ELSE UpRound(f[k - 1])]
  <2>1. ASSUME NEW k \in Nat
        PROVE  f[k] = IF k = 0 THEN h ELSE UpRound(f[k - 1])
    <3>1. CASE k = 0
      BY <1>6, <3>1
    <3>2. CASE k # 0
      <4>1. k - 1 \in Nat /\ (k - 1) + 1 = k
        BY <3>2
      <4>2. f[k] = round[f[k - 1]] /\ f[k - 1] \in S
        BY <1>6, <4>1
      <4> QED
        BY <1>5, <3>2, <4>2
    <3> QED
      BY <3>1, <3>2
  <2> QED
    BY <2>1
<1>8. up = [k \in Nat |-> IF k = 0 THEN h ELSE UpRound(up[k - 1])]
  BY <1>7
<1> HIDE DEF up
<1>9. up[0] = h
  BY <1>8
<1>10. ASSUME NEW k \in Nat, up[k] \in S
       PROVE  up[k + 1] = round[up[k]]
  <2>1. k + 1 \in Nat /\ k + 1 # 0 /\ (k + 1) - 1 = k
    OBVIOUS
  <2>2. up[k + 1] = UpRound(up[(k + 1) - 1])
    BY <1>8, <2>1
  <2> QED
    BY <1>5, <1>10, <2>1, <2>2
<1>11. n >= m[h]
  <2>1. m[h] = h.at
    BY <1>4, <1>5
  <2> QED
    BY <1>1, <2>1
<1>12. \A g \in S : round[g] = g \/ m[round[g]] < m[g]
  BY <1>3, <1>5
<1>13. up[n] \in S /\ round[up[n]] = up[n]
  <2>1. round \in [S -> S] /\ m \in [S -> Nat]
    BY <1>5
  <2> QED
    BY <1>4, <1>9, <1>10, <1>11, <1>12, <2>1, LoopRuns
<1>14. UpRound(up[n]) = up[n]
  BY <1>5, <1>13
<1> QED
  BY <1>2, <1>3, <1>13, <1>14 DEF S
-----------------------------------------------------------------------------
(* _down_heap *)

\* The heaps that _down_heap goes through: in order but between the position on
\* the move and its children.
DownHeaps(n, E) ==
    {h \in Heaps(n, E) :
        /\ \A i \in 2 .. n : i \div 2 # h.at => InOrder(h.queue, i)
        /\ Across(n, h)}

\* The child compared with is the lower one.
LEMMA ChildIsLower ==
  ASSUME NEW n \in Nat, NEW E \in SUBSET Entries, NEW h \in Heaps(n, E), 2 * h.at <= n
  PROVE  LET c == Child(h.queue, h.at)
         IN  /\ c \in 2 .. n /\ c \div 2 = h.at /\ c > h.at
             /\ \A i \in 2 .. n : i \div 2 = h.at => ~Spec0!Less(h.queue[i], h.queue[c])
<1> DEFINE a == h.at
           p == h.queue
           c == Child(p, a)
<1>1. a \in 1 .. n /\ Len(p) = n /\ \A i \in 1 .. n : p[i] \in Entries
  BY HeapLength DEF Heaps
<1>2. c = IF 2 * a + 1 <= n /\ Spec0!Less(p[2 * a + 1], p[2 * a])
          THEN 2 * a + 1 ELSE 2 * a
  BY <1>1 DEF Child
<1>3. 2 * a \in 2 .. n /\ (2 * a) \div 2 = a /\ (2 * a + 1) \div 2 = a
      /\ 2 * a > a /\ 2 * a + 1 > a /\ 2 * a + 1 >= 2
  BY <1>1
<1>4. \A i \in 2 .. n : i \div 2 = a => i = 2 * a \/ i = 2 * a + 1
  BY Halves
<1> HIDE DEF a, p, c
<1>5. \A i \in 1 .. n, j \in 1 .. n : Spec0!Less(p[i], p[j]) => ~Spec0!Less(p[j], p[i])
  BY <1>1, LessIsOrder
<1>6. \A i \in 1 .. n : ~Spec0!Less(p[i], p[i])
  BY <1>5
<1>7. CASE 2 * a + 1 <= n /\ Spec0!Less(p[2 * a + 1], p[2 * a])
  <2>1. c = 2 * a + 1 /\ c \in 2 .. n /\ c \in 1 .. n /\ 2 * a \in 1 .. n
    BY <1>1, <1>2, <1>3, <1>7
  <2>2. ~Spec0!Less(p[2 * a], p[c]) /\ ~Spec0!Less(p[c], p[c])
    BY <1>5, <1>6, <1>7, <2>1
  <2> QED
    BY <1>3, <1>4, <2>1, <2>2 DEF a, p, c
<1>8. CASE ~(2 * a + 1 <= n /\ Spec0!Less(p[2 * a + 1], p[2 * a]))
  <2>1. c = 2 * a /\ c \in 2 .. n /\ c \in 1 .. n
    BY <1>1, <1>2, <1>3, <1>8
  <2>2. ASSUME NEW i \in 2 .. n, i \div 2 = a
        PROVE  ~Spec0!Less(p[i], p[c])
    <3>1. i = 2 * a \/ (i = 2 * a + 1 /\ 2 * a + 1 <= n)
      BY <1>4, <2>2
    <3> QED
      BY <1>6, <1>8, <2>1, <3>1
  <2> QED
    BY <1>3, <2>1, <2>2 DEF a, p, c
<1> QED
  BY <1>7, <1>8

LEMMA DownRoundStays ==
  ASSUME NEW n \in Nat, NEW E \in SUBSET Entries, NEW h \in DownHeaps(n, E)
  PROVE  /\ DownRound(h) \in DownHeaps(n, E)
         /\ DownRound(h) = h \/ DownRound(h).at > h.at
         /\ DownRound(h) = h => Sorted(n, h.queue)
<1> DEFINE a == h.at
           p == h.queue
           c == Child(p, a)
<1>1. h \in Heaps(n, E) /\ a \in 1 .. n /\ p \in [1 .. n -> E] /\ Len(p) = n
  BY HeapLength DEF DownHeaps, Heaps
<1>2. \A i \in 1 .. n : p[i] \in Entries
  BY <1>1
<1>3. /\ \A i \in 2 .. n : i \div 2 # a => ~Spec0!Less(p[i], p[i \div 2])
      /\ a > 1 => \A i \in 2 .. n : i \div 2 = a => ~Spec0!Less(p[i], p[a \div 2])
  BY DEF DownHeaps, InOrder, Across
<1>4. ASSUME NEW i \in 2 .. n
      PROVE  i \div 2 \in 1 .. n /\ i \div 2 < i /\ i \in 1 .. n /\ i \div 2 # i
  BY Halves
<1>5. CASE 2 * a > n
  <2>1. DownRound(h) = h
    BY <1>1, <1>5 DEF DownRound
  <2>2. \A i \in 2 .. n : i \div 2 # a
    BY <1>1, <1>5, Halves
  <2> QED
    BY <1>3, <2>1, <2>2 DEF Sorted, InOrder
<1>6. CASE 2 * a <= n
  <2>1. /\ c \in 2 .. n /\ c \in 1 .. n /\ c \div 2 = a /\ c > a /\ c # a
        /\ \A i \in 2 .. n : i \div 2 = a => ~Spec0!Less(p[i], p[c])
    BY <1>1, <1>6, ChildIsLower
  <2>2. CASE ~Spec0!Less(p[c], p[a])
    <3>1. DownRound(h) = h
      BY <1>1, <1>6, <2>2 DEF DownRound
    <3>2. ASSUME NEW i \in 2 .. n
          PROVE  ~Spec0!Less(p[i], p[i \div 2])
      <4>1. CASE i \div 2 # a
        BY <1>3, <4>1
      <4>2. CASE i \div 2 = a
        <5>1. ~Spec0!Less(p[i], p[c])
          BY <2>1, <4>2
        <5>2. p[i] \in Entries /\ p[c] \in Entries /\ p[a] \in Entries
          BY <1>1, <1>2, <1>4, <2>1
        <5>3. ~Spec0!Less(p[i], p[a])
          BY <2>2, <5>1, <5>2, LessIsOrder
        <5> QED
          BY <4>2, <5>3
      <4> QED
        BY <4>1, <4>2
    <3> QED
      BY <3>1, <3>2 DEF Sorted, InOrder
  <2>3. CASE Spec0!Less(p[c], p[a])
    <3> DEFINE g == Swap(h, a, c)
               q == g.queue
    <3>1. DownRound(h) = g
      BY <1>1, <1>6, <2>3 DEF DownRound
    <3>2. g \in Heaps(n, E) /\ g.at = c /\ q = [p EXCEPT ![a] = p[c], ![c] = p[a]]
      BY <1>1, <2>1, SwapIsHeap
    <3> HIDE DEF g
    <3>3. q[a] = p[c] /\ q[c] = p[a] /\ \A i \in 1 .. n \ {a, c} : q[i] = p[i]
      BY <1>1, <2>1, <3>2
    <3>4. p[a] \in Entries /\ p[c] \in Entries /\ a \in Nat /\ c \in Nat
      BY <1>1, <1>2, <2>1
    <3> HIDE DEF p, q, a, c
    <3>5. ASSUME NEW i \in 2 .. n, i \div 2 # c
          PROVE  ~Spec0!Less(q[i], q[i \div 2])
      <4>1. CASE i = a
        <5>1. a > 1 /\ a \div 2 \in 1 .. n \ {a, c}
          BY <1>4, <2>1, <3>4, <3>5, <4>1
        <5>2. q[i \div 2] = p[a \div 2] /\ q[i] = p[c]
          BY <3>3, <4>1, <5>1
        <5>3. ~Spec0!Less(p[c], p[a \div 2])
          BY <1>3, <2>1, <5>1
        <5> QED
          BY <5>2, <5>3
      <4>2. CASE i # a /\ i \div 2 = a /\ i = c
        <5>1. ~Spec0!Less(p[a], p[c])
          BY <2>3, <3>4, LessIsOrder
        <5> QED
          BY <3>3, <4>2, <5>1
      <4>3. CASE i # a /\ i \div 2 = a /\ i # c
        <5>1. ~Spec0!Less(p[i], p[c])
          BY <2>1, <4>3
        <5> QED
          BY <1>4, <3>3, <4>3, <5>1
      <4>4. CASE i # a /\ i \div 2 # a
        <5>1. i # c
          BY <2>1, <4>4
        <5>2. q[i] = p[i] /\ q[i \div 2] = p[i \div 2]
          BY <1>4, <3>3, <3>5, <4>4, <5>1
        <5> QED
          BY <1>3, <4>4, <5>2
      <4> QED
        BY <4>1, <4>2, <4>3, <4>4
    <3>6. ASSUME NEW i \in 2 .. n, i \div 2 = c
          PROVE  ~Spec0!Less(q[i], q[c \div 2])
      <4>1. i # c /\ i # a /\ i \in 1 .. n
        BY <1>4, <2>1, <3>4, <3>6
      <4>2. q[i] = p[i] /\ q[c \div 2] = p[c]
        BY <2>1, <3>3, <4>1
      <4>3. ~Spec0!Less(p[i], p[c])
        BY <1>3, <2>1, <3>6
      <4> QED
        BY <4>2, <4>3
    <3>7. g \in DownHeaps(n, E)
      BY <3>2, <3>5, <3>6 DEF DownHeaps, InOrder, Across, q
    <3>8. g.at > h.at /\ g # h
      BY <2>1, <3>2, <3>4 DEF a
    <3> QED
      BY <3>1, <3>7, <3>8
  <2> QED
    BY <2>2, <2>3
<1> QED
  BY <1>1, <1>5, <1>6

LEMMA DownHeapEnds ==
  ASSUME NEW n \in Nat, NEW E \in SUBSET Entries, NEW h \in DownHeaps(n, E)
  PROVE  DownHeap(h) \in DownHeaps(n, E) /\ Sorted(n, DownHeap(h).queue)
<1> DEFINE S == DownHeaps(n, E)
           down[k \in Nat] == IF k = 0 THEN h ELSE DownRound(down[k - 1])
           round == [g \in S |-> DownRound(g)]
           m == [g \in S |-> n - g.at]
<1>1. Len(h.queue) = n /\ h.at \in 1 .. n
  BY HeapLength DEF DownHeaps
<1>2. DownHeap(h) = down[n]
  BY <1>1 DEF DownHeap
<1>3. \A g \in S : /\ DownRound(g) \in S
                   /\ DownRound(g) = g \/ n - DownRound(g).at < n - g.at
                   /\ DownRound(g) = g => Sorted(n, g.queue)
                   /\ n - g.at \in Nat
  <2>1. \A g \in S : g.at \in 1 .. n
    BY HeapLength DEF DownHeaps
  <2> QED
    BY <2>1, DownRoundStays
<1>4. h \in S
  OBVIOUS
<1> HIDE DEF S
<1>5. round \in [S -> S] /\ m \in [S -> Nat]
      /\ \A g \in S : round[g] = DownRound(g) /\ m[g] = n - g.at
  BY <1>3
<1> HIDE DEF round, m
<1>6. PICK f \in [Nat -> S] : f[0] = h /\ \A k \in Nat : f[k + 1] = round[f[k]]
  <2>1. round \in [S -> S]
    BY <1>5
  <2>2. Loops(S, round, h) # {}
    BY <1>4, <2>1, LoopExists
  <2> QED
    BY <2>2 DEF Loops
<1>7. f = [k \in Nat |-> IF k = 0 THEN h ELSE DownRound(f[k - 1])]
  <2>1. ASSUME NEW k \in Nat
        PROVE  f[k] = IF k = 0 THEN h ELSE DownRound(f[k - 1])
    <3>1. CASE k = 0
      BY <1>6, <3>1
    <3>2. CASE k # 0
      <4>1. k - 1 \in Nat /\ (k - 1) + 1 = k
        BY <3>2
      <4>2. f[k] = round[f[k - 1]] /\ f[k - 1] \in S
        BY <1>6, <4>1
      <4> QED
        BY <1>5, <3>2, <4>2
    <3> QED
      BY <3>1, <3>2
  <2> QED
    BY <2>1
<1>8. down = [k \in Nat |-> IF k = 0 THEN h ELSE DownRound(down[k - 1])]
  BY <1>7
<1> HIDE DEF down
<1>9. down[0] = h
  BY <1>8
<1>10. ASSUME NEW k \in Nat, down[k] \in S
       PROVE  down[k + 1] = round[down[k]]
  <2>1. k + 1 \in Nat /\ k + 1 # 0 /\ (k + 1) - 1 = k
    OBVIOUS
  <2>2. down[k + 1] = DownRound(down[(k + 1) - 1])
    BY <1>8, <2>1
  <2> QED
    BY <1>5, <1>10, <2>1, <2>2
<1>11. n >= m[h]
  <2>1. m[h] = n - h.at
    BY <1>4, <1>5
  <2> QED
    BY <1>1, <2>1
<1>12. \A g \in S : round[g] = g \/ m[round[g]] < m[g]
  BY <1>3, <1>5
<1>13. down[n] \in S /\ round[down[n]] = down[n]
  <2>1. round \in [S -> S] /\ m \in [S -> Nat]
    BY <1>5
  <2> QED
    BY <1>4, <1>9, <1>10, <1>11, <1>12, <2>1, LoopRuns
<1>14. DownRound(down[n]) = down[n]
  BY <1>5, <1>13
<1> QED
  BY <1>2, <1>3, <1>13, <1>14 DEF S
-----------------------------------------------------------------------------
(* What the two loops are used for *)

\* The list q holds the entries E in n positions, and r is its reverse lookup.
Holds(n, E, q, r) ==
    /\ q \in [1 .. n -> E] /\ r \in [{e.item : e \in E} -> 1 .. n]
    /\ \A e \in E : \E i \in 1 .. n : q[i] = e
    /\ \A i \in 1 .. n : r[q[i].item] = i

LEMMA HoldsIsHeap ==
  ASSUME NEW n \in Nat, NEW E, NEW q, NEW r, Holds(n, E, q, r), NEW i \in 1 .. n
  PROVE  /\ Heap(q, r, i) \in Heaps(n, E)
         /\ Heap(q, r, i).queue = q /\ Heap(q, r, i).reverse = r /\ Heap(q, r, i).at = i
<1> DEFINE D == {e.item : e \in E}
           h == Heap(q, r, i)
<1>1. h = [queue |-> q, reverse |-> r, at |-> i]
  BY DEF Heap
<1>2. q \in [1 .. n -> E] /\ r \in [D -> 1 .. n]
  BY DEF Holds
<1>3. h \in [queue : [1 .. n -> E], reverse : [D -> 1 .. n], at : 1 .. n]
      /\ h.queue = q /\ h.reverse = r /\ h.at = i
  <2> HIDE DEF D, h
  <2> QED
    BY <1>1, <1>2
<1> QED
  <2> HIDE DEF h
  <2> QED
    BY <1>3 DEF Heaps, Holds, h

LEMMA HeapHolds ==
  ASSUME NEW n \in Nat, NEW E, NEW h \in Heaps(n, E)
  PROVE  Holds(n, E, h.queue, h.reverse)
  BY DEF Heaps, Holds

LEMMA HoldsEntries ==
  ASSUME NEW n \in Nat, NEW E, NEW q, NEW r, Holds(n, E, q, r)
  PROVE  /\ q \in Seq(E) /\ Len(q) = n /\ Range(q) = E
         /\ \A i \in 1 .. n, j \in 1 .. n : q[i].item = q[j].item => i = j
<1>1. q \in [1 .. n -> E] /\ \A e \in E : \E i \in 1 .. n : q[i] = e
  BY DEF Holds
<1>2. q \in Seq(E) /\ Len(q) = n
  BY <1>1
<1>3. Range(q) = E
  BY <1>1 DEF Range
<1> QED
  BY <1>2, <1>3 DEF Holds

\* _updown_heap puts one entry, whatever it is, in its place.
LEMMA UpDownHeapEnds ==
  ASSUME NEW n \in Nat, NEW E \in SUBSET Entries, NEW h \in UpHeaps(n, E, FALSE)
  PROVE  UpDownHeap(h) \in Heaps(n, E) /\ Sorted(n, UpDownHeap(h).queue)
<1> DEFINE g == UpHeap(h)
<1>1. g \in UpHeaps(n, E, FALSE) /\ (g.at = 1 \/ InOrder(g.queue, g.at))
  BY UpHeapEnds
<1> HIDE DEF g
<1>2. g \in DownHeaps(n, E)
  BY <1>1 DEF UpHeaps, DownHeaps
<1>3. DownHeap(g) \in DownHeaps(n, E) /\ Sorted(n, DownHeap(g).queue)
  BY <1>2, DownHeapEnds
<1> QED
  BY <1>3 DEF UpDownHeap, DownHeaps, g

\* _up_heap puts the last entry in its place.
LEMMA UpHeapSorts ==
  ASSUME NEW n \in Nat, NEW E \in SUBSET Entries, NEW h \in UpHeaps(n, E, TRUE)
  PROVE  UpHeap(h) \in Heaps(n, E) /\ Sorted(n, UpHeap(h).queue)
<1> DEFINE g == UpHeap(h)
<1>1. g \in UpHeaps(n, E, TRUE) /\ (g.at = 1 \/ InOrder(g.queue, g.at))
  BY UpHeapEnds
<1> HIDE DEF g
<1>2. \A i \in 2 .. n : InOrder(g.queue, i)
  BY <1>1 DEF UpHeaps
<1> QED
  BY <1>1, <1>2 DEF UpHeaps, Sorted, g

\* The first of a heap is the least.
LEMMA FirstIsLeast ==
  ASSUME NEW n \in Nat, NEW q \in [1 .. n -> Entries], Sorted(n, q)
  PROVE  \A i \in 1 .. n : ~Spec0!Less(q[i], q[1])
<1> DEFINE T == {i \in 1 .. n : Spec0!Less(q[i], q[1])}
<1> SUFFICES ASSUME T # {}
             PROVE  FALSE
  OBVIOUS
<1>1. PICK x \in T : \A y \in T : x <= y
  <2> HIDE DEF T
  <2>1. T \in SUBSET Nat
    BY DEF T
  <2> QED
    BY <2>1, LeastNumber
<1>2. x \in 1 .. n /\ Spec0!Less(q[x], q[1]) /\ 1 \in 1 .. n
  BY <1>1
<1>3. x # 1
  BY <1>2, LessIsOrder
<1>4. x \in 2 .. n /\ x \div 2 \in 1 .. n /\ x \div 2 < x
  BY <1>2, <1>3, Halves
<1>5. ~Spec0!Less(q[x \div 2], q[1])
  BY <1>1, <1>4
<1>6. ~Spec0!Less(q[x], q[x \div 2])
  BY <1>4 DEF Sorted, InOrder
<1>7. q[x] \in Entries /\ q[x \div 2] \in Entries /\ q[1] \in Entries
  BY <1>2, <1>4
<1> QED
  BY <1>2, <1>5, <1>6, <1>7, LessIsOrder

\* The tail of pop and of remove.
LEMMA SwappedOutHolds ==
  ASSUME NEW n \in Nat, NEW E, Holds(n, E, queue, reverse), NEW i \in 1 .. n
  PROVE  LET h == SwappedOut(i)
         IN  /\ h = Heap(h.queue, h.reverse, i)
             /\ Holds(n - 1, E \ {queue[i]}, h.queue, h.reverse)
             /\ \A k \in 1 .. n - 1 : h.queue[k] = IF k = i THEN queue[n] ELSE queue[k]
<1> DEFINE g == Swap(Heap(queue, reverse, i), i, n)
           p == g.queue
           e == queue[i]
           D == DOMAIN reverse \ {e.item}
           q == SubSeq(p, 1, n - 1)
           r == Restrict(g.reverse, D)
           h == SwappedOut(i)
<1>0. n \in 1 .. n /\ Len(queue) = n /\ n - 1 \in Nat
  BY HoldsEntries
<1>1. g \in Heaps(n, E) /\ p = [queue EXCEPT ![i] = queue[n], ![n] = queue[i]]
  <2> DEFINE h0 == Heap(queue, reverse, i)
  <2>1. h0 \in Heaps(n, E) /\ h0.queue = queue
    BY HoldsIsHeap
  <2> HIDE DEF h0
  <2>2. h0 \in Heaps(n, E) /\ n \in 1 .. n
    BY <1>0, <2>1
  <2>3. Swap(h0, i, n) \in Heaps(n, E)
    BY <2>2, SwapIsHeap
  <2>4. Swap(h0, i, n).queue = [h0.queue EXCEPT ![i] = h0.queue[n], ![n] = h0.queue[i]]
    BY <2>2, SwapIsHeap
  <2> QED
    BY <2>1, <2>3, <2>4 DEF h0
<1>2. h = Heap(q, r, i)
  BY <1>0 DEF SwappedOut
<1>3. h.queue = q /\ h.reverse = r /\ h = Heap(h.queue, h.reverse, i)
  <2> HIDE DEF h, q, r
  <2> QED
    BY <1>2 DEF Heap
<1>4. queue \in [1 .. n -> E] /\ DOMAIN reverse = {f.item : f \in E}
  BY DEF Holds
<1> HIDE DEF g
<1>5. /\ p \in [1 .. n -> E] /\ p[n] = e
      /\ g.reverse \in [{f.item : f \in E} -> 1 .. n]
      /\ \A f \in E : \E k \in 1 .. n : p[k] = f
      /\ \A k \in 1 .. n : g.reverse[p[k].item] = k
  <2>1. p[n] = e
    BY <1>0, <1>1, <1>4
  <2> QED
    BY <1>1, <2>1 DEF Heaps
<1>6. \A k \in 1 .. n - 1 : p[k] = IF k = i THEN queue[n] ELSE queue[k]
  BY <1>0, <1>1, <1>4
<1> HIDE DEF p
<1>7. q \in [1 .. n - 1 -> E] /\ \A k \in 1 .. n - 1 : q[k] = p[k]
  <2>1. p \in Seq(E) /\ Len(p) = n
    BY <1>5
  <2>2. n - 1 \in 0 .. Len(p)
    BY <1>0, <2>1
  <2>3. q \in Seq(E)
    BY <2>1, <2>2
  <2>4. Len(q) = n - 1 /\ \A k \in 1 .. n - 1 : q[k] = p[k]
    BY <2>1, <2>2
  <2> HIDE DEF q
  <2> QED
    BY <2>3, <2>4
<1> HIDE DEF q
\* The entry in the last place is the one taken out, and no other has its item.
<1>8. \A k \in 1 .. n - 1 : q[k] # e /\ q[k].item # e.item
  <2>1. \A k \in 1 .. n - 1 : k \in 1 .. n /\ k # n
    BY <1>0
  <2> QED
    BY <1>0, <1>5, <1>7, <2>1
<1>9. ASSUME NEW f \in E \ {e}
      PROVE  \E k \in 1 .. n - 1 : q[k] = f
  <2>1. PICK k \in 1 .. n : p[k] = f
    BY <1>5
  <2>2. k # n
    BY <1>5, <2>1
  <2>3. k \in 1 .. n - 1
    BY <1>0, <2>2
  <2> QED
    BY <1>7, <2>1, <2>3
<1>10. D = {f.item : f \in E \ {e}}
  <2>1. ASSUME NEW f \in E \ {e}
        PROVE  f.item # e.item
    BY <1>8, <1>9
  <2> QED
    BY <1>4, <2>1
<1>11. \A k \in 1 .. n - 1 : r[q[k].item] = k
  <2> SUFFICES ASSUME NEW k \in 1 .. n - 1
               PROVE  r[q[k].item] = k
    OBVIOUS
  <2>1. q[k].item \in D
    BY <1>4, <1>7, <1>8
  <2>2. r[q[k].item] = g.reverse[q[k].item]
    BY <2>1 DEF Restrict
  <2>3. k \in 1 .. n
    BY <1>0
  <2> QED
    BY <1>5, <1>7, <2>2, <2>3
<1>12. r \in [D -> 1 .. n - 1]
  <2>1. ASSUME NEW x \in D
        PROVE  r[x] \in 1 .. n - 1
    <3>1. PICK f \in E \ {e} : x = f.item
      BY <1>10
    <3>2. PICK k \in 1 .. n - 1 : q[k] = f
      BY <1>9
    <3> QED
      BY <1>11, <3>1, <3>2
  <2>2. r = [x \in D |-> r[x]]
    BY DEF Restrict
  <2> HIDE DEF r, D
  <2> QED
    BY <2>1, <2>2
<1>13. q \in [1 .. n - 1 -> E \ {e}]
  BY <1>7, <1>8
<1> HIDE DEF r, D, e
<1>14. Holds(n - 1, E \ {e}, q, r)
  BY <1>9, <1>10, <1>11, <1>12, <1>13 DEF Holds
<1> QED
  BY <1>3, <1>6, <1>7, <1>14 DEF e

\* push: the new entry comes last, and goes up.
LEMMA PushedHeap ==
  ASSUME NEW n \in Nat, NEW E \in SUBSET Entries, Holds(n, E, queue, reverse),
         Sorted(n, queue), NEW e \in Entries, e.item \notin DOMAIN reverse
  PROVE  LET h == Heap(Append(queue, e),
                       [y \in DOMAIN reverse \cup {e.item} |->
                          IF y = e.item THEN n + 1 ELSE reverse[y]], n + 1)
         IN  UpHeap(h) \in Heaps(n + 1, E \cup {e}) /\ Sorted(n + 1, UpHeap(h).queue)
<1> DEFINE q == Append(queue, e)
           r == [y \in DOMAIN reverse \cup {e.item} |->
                   IF y = e.item THEN n + 1 ELSE reverse[y]]
           h == Heap(q, r, n + 1)
           F == E \cup {e}
<1>1. /\ queue \in [1 .. n -> E] /\ reverse \in [{f.item : f \in E} -> 1 .. n]
      /\ \A f \in E : \E k \in 1 .. n : queue[k] = f
      /\ \A k \in 1 .. n : reverse[queue[k].item] = k
  BY DEF Holds
<1>2. queue \in Seq(E) /\ Len(queue) = n
  BY HoldsEntries
<1>3. q \in [1 .. n + 1 -> F] /\ q[n + 1] = e /\ \A k \in 1 .. n : q[k] = queue[k]
  <2>1. queue \in Seq(F) /\ e \in F
    BY <1>1, <1>2
  <2>2. q \in Seq(F) /\ Len(q) = n + 1 /\ q[n + 1] = e
    BY <1>2, <2>1
  <2>3. \A k \in 1 .. n : q[k] = queue[k]
    BY <1>2, <2>1
  <2> HIDE DEF q, F
  <2> QED
    BY <2>2, <2>3
<1>4. \A k \in 1 .. n + 1 : k \in 1 .. n \/ k = n + 1
  OBVIOUS
<1>5. DOMAIN reverse = {f.item : f \in E}
      /\ DOMAIN reverse \cup {e.item} = {f.item : f \in F}
  BY <1>1
<1> HIDE DEF q
<1>6. r \in [{f.item : f \in F} -> 1 .. n + 1]
  <2> DEFINE D == DOMAIN reverse
  <2>1. \A y \in D : reverse[y] \in 1 .. n + 1
    BY <1>1
  <2>2. n + 1 \in 1 .. n + 1
    OBVIOUS
  <2>3. r \in [D \cup {e.item} -> 1 .. n + 1]
    <3> HIDE DEF D
    <3> QED
      BY <2>1, <2>2 DEF D
  <2> QED
    BY <1>5, <2>3
<1>7. ASSUME NEW k \in 1 .. n + 1
      PROVE  r[q[k].item] = k
  <2>1. CASE k = n + 1
    BY <1>3, <2>1
  <2>2. CASE k \in 1 .. n
    <3>1. q[k] = queue[k] /\ queue[k].item \in DOMAIN reverse
      BY <1>1, <1>3, <1>5, <2>2
    <3> QED
      BY <1>1, <2>2, <3>1
  <2> QED
    BY <1>4, <2>1, <2>2
<1>8. ASSUME NEW f \in F
      PROVE  \E k \in 1 .. n + 1 : q[k] = f
  <2>1. CASE f = e
    BY <1>3, <2>1
  <2>2. CASE f \in E
    <3>1. PICK k \in 1 .. n : queue[k] = f
      BY <1>1, <2>2
    <3> QED
      BY <1>3, <3>1
  <2> QED
    BY <2>1, <2>2
<1> HIDE DEF r, F
<1>9. Holds(n + 1, F, q, r)
  BY <1>3, <1>6, <1>7, <1>8 DEF Holds
<1>10. h \in Heaps(n + 1, F) /\ h.queue = q /\ h.at = n + 1
  BY <1>9, HoldsIsHeap
<1> HIDE DEF h
<1>11. ASSUME NEW i \in 2 .. n + 1
       PROVE  i \div 2 # n + 1 /\ (i # n + 1 => InOrder(q, i))
  <2>1. i \div 2 \in 1 .. n
    BY Halves
  <2>2. ASSUME i # n + 1
        PROVE  InOrder(q, i)
    <3>1. i \in 2 .. n /\ i \in 1 .. n
      BY <2>2
    <3> QED
      BY <1>3, <2>1, <3>1 DEF Sorted, InOrder
  <2> QED
    BY <2>1, <2>2
<1>12. h \in UpHeaps(n + 1, F, TRUE)
  BY <1>10, <1>11 DEF UpHeaps, Across
<1>13. F \in SUBSET Entries
  BY DEF F
<1>14. UpHeap(h) \in Heaps(n + 1, F) /\ Sorted(n + 1, UpHeap(h).queue)
  <2> DEFINE m == n + 1
  <2>1. m \in Nat
    OBVIOUS
  <2>2. h \in UpHeaps(m, F, TRUE)
    BY <1>12, Zenon
  <2> HIDE DEF m
  <2>3. UpHeap(h) \in Heaps(m, F) /\ Sorted(m, UpHeap(h).queue)
    BY <1>13, <2>1, <2>2, UpHeapSorts
  <2> QED
    BY <2>3 DEF m
<1> QED
  BY <1>14 DEF h, r, q, F

\* pop: the last entry takes the first place, and goes down.
LEMMA PoppedHeap ==
  ASSUME NEW n \in Nat, NEW E \in SUBSET Entries, Holds(n, E, queue, reverse),
         Sorted(n, queue), n > 1
  PROVE  /\ DownHeap(SwappedOut(1)) \in Heaps(n - 1, E \ {queue[1]})
         /\ Sorted(n - 1, DownHeap(SwappedOut(1)).queue)
<1> DEFINE h == SwappedOut(1)
           F == E \ {queue[1]}
<1>1. /\ h = Heap(h.queue, h.reverse, 1) /\ Holds(n - 1, F, h.queue, h.reverse)
      /\ \A k \in 1 .. n - 1 : h.queue[k] = IF k = 1 THEN queue[n] ELSE queue[k]
  <2>1. 1 \in 1 .. n
    OBVIOUS
  <2> QED
    BY <2>1, SwappedOutHolds
<1> HIDE DEF h
<1>2. h \in Heaps(n - 1, F) /\ h.at = 1
  <2>1. 1 \in 1 .. n - 1 /\ n - 1 \in Nat
    OBVIOUS
  <2> DEFINE p == h.queue
             r == h.reverse
  <2>2. Heap(p, r, 1) \in Heaps(n - 1, F) /\ Heap(p, r, 1).at = 1
    BY <1>1, <2>1, HoldsIsHeap
  <2> QED
    BY <1>1, <2>2
<1>3. ASSUME NEW i \in 2 .. n - 1, i \div 2 # 1
      PROVE  InOrder(h.queue, i)
  <2>1. i \in 1 .. n - 1 /\ i \in 2 .. n /\ i # 1 /\ i \div 2 \in 1 .. n - 1
    BY Halves
  <2>2. h.queue[i] = queue[i] /\ h.queue[i \div 2] = queue[i \div 2]
    BY <1>1, <1>3, <2>1
  <2>3. InOrder(queue, i)
    BY <2>1 DEF Sorted
  <2> QED
    BY <2>2, <2>3 DEF InOrder
<1>4. h \in DownHeaps(n - 1, F)
  BY <1>2, <1>3 DEF DownHeaps, Across
<1>5. DownHeap(h) \in DownHeaps(n - 1, F) /\ Sorted(n - 1, DownHeap(h).queue)
  <2>1. F \in SUBSET Entries /\ n - 1 \in Nat
    OBVIOUS
  <2> HIDE DEF F
  <2> QED
    BY <1>4, <2>1, DownHeapEnds
<1> QED
  BY <1>5 DEF DownHeaps, h

\* remove: the last entry takes the place, and goes up or down.
LEMMA RemovedHeap ==
  ASSUME NEW n \in Nat, NEW E \in SUBSET Entries, Holds(n, E, queue, reverse),
         Sorted(n, queue), NEW a \in 1 .. n
  PROVE  LET h == IF a = n THEN SwappedOut(a) ELSE UpDownHeap(SwappedOut(a))
         IN  Holds(n - 1, E \ {queue[a]}, h.queue, h.reverse) /\ Sorted(n - 1, h.queue)
<1> DEFINE h == SwappedOut(a)
           F == E \ {queue[a]}
<1>1. /\ h = Heap(h.queue, h.reverse, a) /\ Holds(n - 1, F, h.queue, h.reverse)
      /\ \A k \in 1 .. n - 1 : h.queue[k] = IF k = a THEN queue[n] ELSE queue[k]
  BY SwappedOutHolds
<1>0. n - 1 \in Nat /\ F \in SUBSET Entries
  OBVIOUS
<1> HIDE DEF h, F
<1>2. ASSUME NEW i \in 2 .. n - 1
      PROVE  i \in 1 .. n - 1 /\ i \in 2 .. n /\ i \div 2 \in 1 .. n - 1
             /\ ~Spec0!Less(queue[i], queue[i \div 2])
  <2>1. i \in 1 .. n - 1 /\ i \in 2 .. n /\ i \div 2 \in 1 .. n - 1
    BY Halves
  <2> QED
    BY <2>1 DEF Sorted, InOrder
<1>3. CASE a = n
  <2>1. \A i \in 2 .. n - 1 : ~Spec0!Less(h.queue[i], h.queue[i \div 2])
    <3>1. \A k \in 1 .. n - 1 : k # a
      BY <1>3
    <3> QED
      BY <1>1, <1>2, <3>1
  <2> QED
    BY <1>1, <1>3, <2>1 DEF Sorted, InOrder, h, F
<1>4. CASE a # n
  <2>1. a \in 1 .. n - 1
    BY <1>4
  <2>2. h \in Heaps(n - 1, F) /\ h.at = a
    <3> DEFINE p == h.queue
               r == h.reverse
    <3>2. Heap(p, r, a) \in Heaps(n - 1, F) /\ Heap(p, r, a).at = a
      BY <1>0, <1>1, <2>1, HoldsIsHeap
    <3> QED
      BY <1>1, <3>2
  <2>3. ASSUME NEW i \in 2 .. n - 1, i # a, i \div 2 # a
        PROVE  InOrder(h.queue, i)
    BY <1>1, <1>2, <2>3 DEF InOrder
  <2>4. ASSUME NEW i \in 2 .. n - 1, i \div 2 = a, a > 1
        PROVE  ~Spec0!Less(h.queue[i], h.queue[a \div 2])
    <3>1. a \in 2 .. n - 1 /\ i # a /\ a \div 2 # a
      BY <2>1, <2>4, Halves
    <3>2. ~Spec0!Less(queue[i], queue[a]) /\ ~Spec0!Less(queue[a], queue[a \div 2])
          /\ a \div 2 \in 1 .. n - 1 /\ i \in 1 .. n - 1
      BY <1>2, <2>4, <3>1
    <3>3. h.queue[i] = queue[i] /\ h.queue[a \div 2] = queue[a \div 2]
      BY <1>1, <3>1, <3>2
    <3>4. queue[i] \in Entries /\ queue[a] \in Entries /\ queue[a \div 2] \in Entries
      <4>1. \A k \in 1 .. n : queue[k] \in Entries
        BY DEF Holds
      <4>2. i \in 1 .. n /\ a \in 1 .. n /\ a \div 2 \in 1 .. n
        BY <3>1, <3>2
      <4> QED
        BY <4>1, <4>2
    <3> QED
      BY <3>2, <3>3, <3>4, LessIsOrder
  <2>5. h \in UpHeaps(n - 1, F, FALSE)
    BY <2>2, <2>3, <2>4 DEF UpHeaps, Across
  <2>6. UpDownHeap(h) \in Heaps(n - 1, F) /\ Sorted(n - 1, UpDownHeap(h).queue)
    BY <1>0, <2>5, UpDownHeapEnds
  <2>7. Holds(n - 1, F, UpDownHeap(h).queue, UpDownHeap(h).reverse)
    BY <1>0, <2>6, HeapHolds
  <2> QED
    BY <1>4, <2>6, <2>7 DEF h, F
<1> QED
  BY <1>3, <1>4

\* set_priority: the entry is changed in its place, and goes up or down.
LEMMA ChangedHeap ==
  ASSUME NEW n \in Nat, NEW E \in SUBSET Entries, Holds(n, E, queue, reverse),
         Sorted(n, queue), NEW a \in 1 .. n, NEW prio \in Int
  PROVE  LET h == UpDownHeap(Heap([queue EXCEPT ![a].priority = prio], reverse, a))
         IN  /\ Holds(n, (E \ {queue[a]}) \cup {[queue[a] EXCEPT !.priority = prio]},
                      h.queue, h.reverse)
             /\ Sorted(n, h.queue)
<1> DEFINE e == queue[a]
           f == [e EXCEPT !.priority = prio]
           q == [queue EXCEPT ![a].priority = prio]
           F == (E \ {e}) \cup {f}
           h == Heap(q, reverse, a)
<1>1. /\ queue \in [1 .. n -> E] /\ reverse \in [{g.item : g \in E} -> 1 .. n]
      /\ \A g \in E : \E k \in 1 .. n : queue[k] = g
      /\ \A k \in 1 .. n : reverse[queue[k].item] = k
  BY DEF Holds
<1>2. e \in Entries /\ f \in Entries /\ f.item = e.item /\ e \in E
  <2>1. e \in E /\ e \in Entries
    BY <1>1
  <2> HIDE DEF e
  <2>2. f \in Entries /\ f.item = e.item
    BY <2>1 DEF Entries
  <2> QED
    BY <2>1, <2>2
<1>3. q = [queue EXCEPT ![a] = f]
  BY <1>1
<1> HIDE DEF q, f
<1>4. q[a] = f /\ (\A k \in 1 .. n \ {a} : q[k] = queue[k] /\ queue[k] # e)
      /\ \A k \in 1 .. n : q[k].item = queue[k].item
  BY <1>1, <1>2, <1>3
<1>5. q \in [1 .. n -> F]
  <2>1. q \in [1 .. n -> E \cup {f}]
    BY <1>1, <1>3
  <2>2. \A k \in 1 .. n : q[k] \in F
    BY <1>1, <1>4
  <2> HIDE DEF F
  <2> QED
    BY <2>1, <2>2
<1>6. {g.item : g \in F} = {g.item : g \in E}
  BY <1>2
<1>7. \A g \in F : \E k \in 1 .. n : q[k] = g
  BY <1>1, <1>4
<1>8. F \in SUBSET Entries
  BY <1>2
<1> HIDE DEF F, e
<1>9. Holds(n, F, q, reverse)
  BY <1>1, <1>4, <1>5, <1>6, <1>7 DEF Holds
<1>10. h \in Heaps(n, F) /\ h.queue = q /\ h.at = a
  BY <1>9, HoldsIsHeap
<1> HIDE DEF h
<1>11. ASSUME NEW i \in 2 .. n
       PROVE  i \in 1 .. n /\ i \div 2 \in 1 .. n /\ i \div 2 # i
              /\ ~Spec0!Less(queue[i], queue[i \div 2])
  <2>1. i \in 1 .. n /\ i \div 2 \in 1 .. n /\ i \div 2 # i
    BY Halves
  <2> QED
    BY <2>1 DEF Sorted, InOrder
<1>12. ASSUME NEW i \in 2 .. n, i # a, i \div 2 # a
       PROVE  InOrder(q, i)
  BY <1>4, <1>11, <1>12 DEF InOrder
<1>13. ASSUME NEW i \in 2 .. n, i \div 2 = a, a > 1
       PROVE  ~Spec0!Less(q[i], q[a \div 2])
  <2>1. a \in 2 .. n
    BY <1>13
  <2>2. q[i] = queue[i] /\ q[a \div 2] = queue[a \div 2]
    BY <1>4, <1>11, <1>13, <2>1
  <2>3. ~Spec0!Less(queue[i], queue[a]) /\ ~Spec0!Less(queue[a], queue[a \div 2])
    BY <1>11, <1>13, <2>1
  <2>4. queue[i] \in Entries /\ queue[a] \in Entries /\ queue[a \div 2] \in Entries
    BY <1>1, <1>11, <2>1
  <2> QED
    BY <2>2, <2>3, <2>4, LessIsOrder
<1>14. h \in UpHeaps(n, F, FALSE)
  BY <1>10, <1>12, <1>13 DEF UpHeaps, Across
<1>15. UpDownHeap(h) \in Heaps(n, F) /\ Sorted(n, UpDownHeap(h).queue)
  BY <1>8, <1>14, UpDownHeapEnds
<1>16. Holds(n, F, UpDownHeap(h).queue, UpDownHeap(h).reverse)
  BY <1>15, HeapHolds
<1> QED
  BY <1>15, <1>16 DEF h, q, F, f, e
-----------------------------------------------------------------------------
(* The queue *)

\* The list q is a heap of exactly the entries E, and r is its reverse lookup.
IsHeapOf(E, q, r) == \E n \in Nat : Holds(n, E, q, r) /\ Sorted(n, q)

LEMMA HeapOfFacts ==
  ASSUME NEW E, NEW q, NEW r, IsHeapOf(E, q, r)
  PROVE  /\ q \in Seq(E) /\ Range(q) = E /\ Len(q) \in Nat
         /\ Holds(Len(q), E, q, r) /\ Sorted(Len(q), q)
         /\ DOMAIN r = {e.item : e \in E}
         /\ \A e \in E : \A f \in E : e.item = f.item => e = f
<1>1. PICK n \in Nat : Holds(n, E, q, r) /\ Sorted(n, q)
  BY DEF IsHeapOf
<1>2. q \in Seq(E) /\ Len(q) = n /\ Range(q) = E
  BY <1>1, HoldsEntries
<1>3. \A e \in E : \A f \in E : e.item = f.item => e = f
  <2> SUFFICES ASSUME NEW e \in E, NEW f \in E, e.item = f.item
               PROVE  e = f
    OBVIOUS
  <2>1. PICK i \in 1 .. n : q[i] = e
    BY <1>1 DEF Holds
  <2>2. PICK j \in 1 .. n : q[j] = f
    BY <1>1 DEF Holds
  <2>3. i = j
    BY <1>1, <2>1, <2>2, HoldsEntries
  <2> QED
    BY <2>1, <2>2, <2>3
<1>4. DOMAIN r = {e.item : e \in E}
  BY <1>1 DEF Holds
<1> QED
  BY <1>1, <1>2, <1>3, <1>4

\* No two entries have the same index, and none has the next one.
IndexesDiffer(E, next) ==
    \A e \in E : e.index < next /\ \A f \in E : e.index = f.index => e = f

IInv ==
    /\ IsHeapOf(Range(queue), queue, reverse)
    /\ Range(queue) \subseteq Entries
    /\ IndexesDiffer(Range(queue), pushes)
    /\ pushes \in Nat
    /\ lastDefault \in Nat
    /\ event \in BOOLEAN
    /\ EventMeansNonEmpty

\* What a push does to the entries.
LEMMA PushStep ==
  ASSUME IInv, NEW x \in Items, NEW p \in Int, NEW ts \in Int, Push(x, p, ts)
  PROVE  LET e == [item |-> x, priority |-> p, timestamp |-> ts, index |-> pushes]
         IN  /\ IsHeapOf(Range(queue) \cup {e}, queue', reverse')
             /\ e \in Entries /\ e.item \notin {f.item : f \in Range(queue)}
             /\ Range(queue) \cup {e} \subseteq Entries
             /\ IndexesDiffer(Range(queue) \cup {e}, pushes')
             /\ pushes < MaxPushes /\ pushes' = pushes + 1 /\ popped' = {} /\ event' = TRUE
<1> DEFINE e == [item |-> x, priority |-> p, timestamp |-> ts, index |-> pushes]
           E == Range(queue)
           n == Len(queue)
           h == Heap(Append(queue, e),
                     [y \in DOMAIN reverse \cup {e.item} |->
                        IF y = e.item THEN n + 1 ELSE reverse[y]], n + 1)
<1>1. IsHeapOf(E, queue, reverse) /\ E \in SUBSET Entries
      /\ IndexesDiffer(E, pushes) /\ pushes \in Nat
  BY DEF IInv
<1>2. n \in Nat /\ Holds(n, E, queue, reverse) /\ Sorted(n, queue)
      /\ DOMAIN reverse = {f.item : f \in E}
  BY <1>1, HeapOfFacts
<1>3. e \in Entries /\ e.item = x /\ e.index = pushes
  BY <1>1 DEF Entries
<1>4. /\ pushes < MaxPushes /\ x \notin DOMAIN reverse
      /\ queue' = UpHeap(h).queue /\ reverse' = UpHeap(h).reverse
      /\ pushes' = pushes + 1 /\ popped' = {} /\ event' = TRUE
  BY DEF Push, Becomes
<1>5. UpHeap(h) \in Heaps(n + 1, E \cup {e}) /\ Sorted(n + 1, UpHeap(h).queue)
  <2>1. e.item \notin DOMAIN reverse
    BY <1>3, <1>4
  <2> HIDE DEF e, E, n
  <2> QED
    BY <1>1, <1>2, <1>3, <2>1, PushedHeap
<1> HIDE DEF h, e, E, n
<1>6. IsHeapOf(E \cup {e}, queue', reverse')
  <2>1. n + 1 \in Nat
    BY <1>2
  <2>2. Holds(n + 1, E \cup {e}, UpHeap(h).queue, UpHeap(h).reverse)
    BY <1>5, <2>1, HeapHolds
  <2> QED
    BY <1>4, <1>5, <2>1, <2>2 DEF IsHeapOf
<1>7. IndexesDiffer(E \cup {e}, pushes')
  <2>1. \A f \in E : f.index \in Nat
    BY <1>1 DEF Entries
  <2>2. \A f \in E : f.index < pushes + 1 /\ f.index # pushes
    BY <1>1, <2>1 DEF IndexesDiffer
  <2>3. pushes < pushes + 1
    BY <1>1
  <2> QED
    BY <1>1, <1>3, <1>4, <2>2, <2>3 DEF IndexesDiffer
<1> QED
  BY <1>1, <1>2, <1>3, <1>4, <1>6, <1>7 DEF e, E

\* What a pop does to the entries.
LEMMA PopStep ==
  ASSUME IInv, Pop
  PROVE  LET e == queue[1]
         IN  /\ e \in Range(queue) /\ \A f \in Range(queue) \ {e} : Spec0!Less(e, f)
             /\ IsHeapOf(Range(queue) \ {e}, queue', reverse')
             /\ popped' = {e} /\ pushes' = pushes /\ lastDefault' = lastDefault
             /\ event' \in BOOLEAN /\ (event' <=> Len(queue) > 1)
<1> DEFINE e == queue[1]
           E == Range(queue)
           n == Len(queue)
<1>1. IsHeapOf(E, queue, reverse) /\ E \in SUBSET Entries /\ IndexesDiffer(E, pushes)
      /\ event \in BOOLEAN /\ (event <=> queue # <<>>)
  BY DEF IInv, EventMeansNonEmpty
<1>2. n \in Nat /\ Holds(n, E, queue, reverse) /\ Sorted(n, queue) /\ queue \in Seq(E)
  BY <1>1, HeapOfFacts
<1>3. queue # <<>> /\ popped' = {e} /\ pushes' = pushes /\ lastDefault' = lastDefault
  BY DEF Pop
<1>4. 1 \in 1 .. n
  BY <1>2, <1>3
<1>5. queue \in [1 .. n -> E] /\ e \in E /\ \A f \in E : \E i \in 1 .. n : queue[i] = f
  BY <1>2, <1>4 DEF Holds
<1>6. ASSUME NEW f \in E \ {e}
      PROVE  Spec0!Less(e, f)
  <2>1. PICK i \in 1 .. n : queue[i] = f
    BY <1>5
  <2>2. queue \in [1 .. n -> Entries]
    BY <1>1, <1>5
  <2>3. ~Spec0!Less(f, e)
    <3> HIDE DEF n
    <3> QED
      BY <1>2, <2>1, <2>2, FirstIsLeast
  <2>4. e \in Entries /\ f \in Entries /\ e.index # f.index
    BY <1>1, <1>5 DEF IndexesDiffer
  <2> HIDE DEF e
  <2> QED
    BY <2>3, <2>4, LessIsOrder
<1>7. CASE n > 1
  <2>1. /\ queue' = DownHeap(SwappedOut(1)).queue
        /\ reverse' = DownHeap(SwappedOut(1)).reverse
        /\ event' = event
    BY <1>7 DEF Pop, Becomes
  <2>2. /\ DownHeap(SwappedOut(1)) \in Heaps(n - 1, E \ {e})
        /\ Sorted(n - 1, DownHeap(SwappedOut(1)).queue)
    <3> HIDE DEF n, E
    <3> QED
      BY <1>1, <1>2, <1>7, PoppedHeap
  <2>3. n - 1 \in Nat
    BY <1>2, <1>7
  <2> HIDE DEF n, E, e
  <2>4. Holds(n - 1, E \ {e}, DownHeap(SwappedOut(1)).queue, DownHeap(SwappedOut(1)).reverse)
    BY <2>2, <2>3, HeapHolds
  <2>5. IsHeapOf(E \ {e}, queue', reverse')
    BY <2>1, <2>2, <2>3, <2>4 DEF IsHeapOf
  <2>6. event' \in BOOLEAN /\ (event' <=> n > 1)
    BY <1>1, <1>3, <1>7, <2>1
  <2> QED
    BY <1>3, <1>5, <1>6, <2>5, <2>6 DEF n, E, e
<1>8. CASE ~(n > 1)
  <2>1. /\ queue' = SwappedOut(1).queue
        /\ reverse' = SwappedOut(1).reverse
        /\ event' = FALSE
    BY <1>8 DEF Pop, Becomes
  <2> HIDE DEF n, E
  <2>2. Holds(n - 1, E \ {e}, SwappedOut(1).queue, SwappedOut(1).reverse)
    BY <1>2, <1>4, SwappedOutHolds
  <2>3. n - 1 \in Nat
    BY <1>2, <1>4
  <2>4. Sorted(n - 1, SwappedOut(1).queue)
    <3>1. 2 .. n - 1 = {}
      BY <1>2, <1>8
    <3> QED
      BY <3>1 DEF Sorted
  <2> HIDE DEF e
  <2>5. IsHeapOf(E \ {e}, queue', reverse')
    BY <2>1, <2>2, <2>3, <2>4 DEF IsHeapOf
  <2> QED
    BY <1>3, <1>5, <1>6, <1>8, <2>1, <2>5 DEF n, E, e
<1> QED
  BY <1>7, <1>8

\* What a removal does to the entries.
LEMMA RemoveStep ==
  ASSUME IInv, NEW x \in Items, Remove(x)
  PROVE  \E e \in Range(queue) :
             /\ e.item = x /\ IsHeapOf(Range(queue) \ {e}, queue', reverse')
             /\ popped' = {} /\ pushes' = pushes /\ lastDefault' = lastDefault
             /\ event' \in BOOLEAN /\ (event' <=> Len(queue) > 1)
<1> DEFINE E == Range(queue)
           n == Len(queue)
           a == reverse[x]
           h == IF a = n THEN SwappedOut(a) ELSE UpDownHeap(SwappedOut(a))
<1>1. IsHeapOf(E, queue, reverse) /\ E \in SUBSET Entries
      /\ event \in BOOLEAN /\ (event <=> queue # <<>>)
  BY DEF IInv, EventMeansNonEmpty
<1>2. n \in Nat /\ Holds(n, E, queue, reverse) /\ Sorted(n, queue) /\ queue \in Seq(E)
  BY <1>1, HeapOfFacts
<1>3. /\ x \in DOMAIN reverse /\ popped' = {} /\ queue' = h.queue /\ reverse' = h.reverse
      /\ event' = (event /\ n > 1) /\ pushes' = pushes /\ lastDefault' = lastDefault
  BY DEF Remove, Becomes
<1>4. a \in 1 .. n /\ queue[a] \in E /\ queue[a].item = x
  <2>1. PICK e \in E : e.item = x
    BY <1>2, <1>3 DEF Holds
  <2>2. PICK i \in 1 .. n : queue[i] = e
    BY <1>2 DEF Holds
  <2> QED
    BY <1>2, <2>1, <2>2 DEF Holds
<1>5. Holds(n - 1, E \ {queue[a]}, h.queue, h.reverse) /\ Sorted(n - 1, h.queue)
  <2> HIDE DEF n, E, a
  <2> QED
    BY <1>1, <1>2, <1>4, RemovedHeap
<1>6. n - 1 \in Nat
  BY <1>2, <1>4
<1>7. event' \in BOOLEAN /\ (event' <=> n > 1)
  <2>1. queue # <<>>
    BY <1>2, <1>4
  <2>2. event
    BY <1>1, <2>1, Zenon
  <2> QED
    BY <1>3, <2>2, Zenon
<1> HIDE DEF h, n, E, a
<1>8. IsHeapOf(E \ {queue[a]}, queue', reverse')
  BY <1>3, <1>5, <1>6 DEF IsHeapOf
<1> QED
  BY <1>3, <1>4, <1>7, <1>8 DEF n, E

\* What a change of priority does to the entries.
LEMMA SetPriorityStep ==
  ASSUME IInv, NEW x \in Items, NEW p \in Int, SetPriority(x, p)
  PROVE  \E e \in Range(queue) :
             /\ e.item = x
             /\ IsHeapOf((Range(queue) \ {e}) \cup {[e EXCEPT !.priority = p]},
                         queue', reverse')
             /\ popped' = {} /\ event' = event
             /\ pushes' = pushes /\ lastDefault' = lastDefault
<1> DEFINE E == Range(queue)
           n == Len(queue)
           a == reverse[x]
           h == UpDownHeap(Heap([queue EXCEPT ![a].priority = p], reverse, a))
           F == (E \ {queue[a]}) \cup {[queue[a] EXCEPT !.priority = p]}
<1>1. IsHeapOf(E, queue, reverse) /\ E \in SUBSET Entries
  BY DEF IInv
<1>2. n \in Nat /\ Holds(n, E, queue, reverse) /\ Sorted(n, queue) /\ queue \in Seq(E)
  BY <1>1, HeapOfFacts
<1>3. /\ x \in DOMAIN reverse /\ popped' = {} /\ queue' = h.queue /\ reverse' = h.reverse
      /\ event' = event /\ pushes' = pushes /\ lastDefault' = lastDefault
  BY DEF SetPriority, Becomes
<1>4. a \in 1 .. n /\ queue[a] \in E /\ queue[a].item = x
  <2>1. PICK e \in E : e.item = x
    BY <1>2, <1>3 DEF Holds
  <2>2. PICK i \in 1 .. n : queue[i] = e
    BY <1>2 DEF Holds
  <2> QED
    BY <1>2, <2>1, <2>2 DEF Holds
<1>5. Holds(n, F, h.queue, h.reverse) /\ Sorted(n, h.queue)
  <2> HIDE DEF n, E, a
  <2> QED
    BY <1>1, <1>2, <1>4, ChangedHeap
<1> HIDE DEF h, n, F
<1>8. IsHeapOf(F, queue', reverse')
  BY <1>2, <1>3, <1>5 DEF IsHeapOf
<1> QED
  BY <1>3, <1>4, <1>8 DEF F

\* The time a push without a timestamp gets is a number, not before the present
\* and after that of every earlier such push.
LEMMA DefaultTimes ==
  ASSUME NEW now \in Clock, lastDefault \in Nat
  PROVE  /\ DefaultTimestamp(now) \in Nat /\ DefaultTimestamp(now) \in Int
         /\ DefaultTimestamp(now) >= now /\ DefaultTimestamp(now) > lastDefault
<1>1. now \in Nat /\ now > 0
  BY QueueAssumption
<1> QED
  BY <1>1 DEF DefaultTimestamp

\* The invariant after a step, from what the step does to the entries.
LEMMA InvariantAfter ==
  ASSUME NEW E \in SUBSET Entries, IsHeapOf(E, queue', reverse'),
         IndexesDiffer(E, pushes'), pushes' \in Nat, lastDefault' \in Nat,
         event' \in BOOLEAN, event' <=> E # {}
  PROVE  IInv'
<1>1. queue' \in Seq(E) /\ Range(queue') = E
      /\ Holds(Len(queue'), E, queue', reverse') /\ Len(queue') \in Nat
  BY HeapOfFacts
<1>2. queue' # <<>> <=> E # {}
  <2>1. CASE queue' = <<>>
    <3>1. Len(queue') = 0
      BY <2>1
    <3>2. \A i \in 1 .. 0 : FALSE
      OBVIOUS
    <3>3. \A e \in E : \E i \in 1 .. 0 : queue'[i] = e
      BY <1>1, <3>1 DEF Holds
    <3>4. E = {}
      BY <3>2, <3>3
    <3> QED
      BY <2>1, <3>4
  <2>2. CASE queue' # <<>>
    <3>1. queue'[1] \in E
      BY <1>1, <2>2
    <3> QED
      BY <2>2, <3>1
  <2> QED
    BY <2>1, <2>2
<1>3. EventMeansNonEmpty'
  BY <1>2, Zenon DEF EventMeansNonEmpty
<1> QED
  BY <1>1, <1>3 DEF IInv

\* More than one entry: some remain when one is taken.
LEMMA SomeRemain ==
  ASSUME IInv, NEW e \in Range(queue)
  PROVE  Len(queue) > 1 <=> Range(queue) \ {e} # {}
<1> DEFINE n == Len(queue)
<1>1. n \in Nat /\ queue \in Seq(Range(queue)) /\ Holds(n, Range(queue), queue, reverse)
  BY HeapOfFacts DEF IInv
<1>2. PICK i \in 1 .. n : queue[i] = e
  BY <1>1 DEF Holds
<1>3. \A k \in 1 .. n : k # i => queue[k] \in Range(queue) \ {e}
  BY <1>1, <1>2 DEF Holds
<1>4. ASSUME n > 1
      PROVE  Range(queue) \ {e} # {}
  <2>1. PICK k \in 1 .. n : k # i
    <3>1. 1 \in 1 .. n /\ 2 \in 1 .. n
      BY <1>1, <1>4
    <3> QED
      BY <3>1
  <2> QED
    BY <1>3, <2>1
<1>5. ASSUME NEW f \in Range(queue) \ {e}
      PROVE  n > 1
  <2>1. PICK k \in 1 .. n : queue[k] = f
    BY <1>1 DEF Holds
  <2>2. k # i
    BY <1>2, <2>1
  <2> QED
    BY <1>1, <2>2
<1> QED
  BY <1>4, <1>5

\* Every step of the heap keeps the invariant and is a step of the queue it stands for.
LEMMA QueueStep ==
  ASSUME IInv, Next
  PROVE  IInv' /\ Spec0!QueueNext
<1> DEFINE E == Range(queue)
<1>1. E \in SUBSET Entries /\ IndexesDiffer(E, pushes) /\ pushes \in Nat
      /\ lastDefault \in Nat /\ event \in BOOLEAN /\ IsHeapOf(E, queue, reverse)
  BY DEF IInv
<1>2. ASSUME NEW x \in Items, NEW p \in Priorities[x], NEW ts \in Int, Push(x, p, ts),
             lastDefault' \in Nat
      PROVE  IInv' /\ Spec0!Add(x, p, ts)
  <2> DEFINE e == [item |-> x, priority |-> p, timestamp |-> ts, index |-> pushes]
             F == E \cup {e}
  <2>1. p \in Int
    BY QueueAssumption
  <2>2. /\ IsHeapOf(F, queue', reverse')
        /\ e \in Entries /\ e.item \notin {f.item : f \in E} /\ F \subseteq Entries
        /\ IndexesDiffer(F, pushes')
        /\ pushes < MaxPushes /\ pushes' = pushes + 1 /\ popped' = {} /\ event' = TRUE
    BY <1>2, <2>1, PushStep
  <2>3. pushes' \in Nat /\ F # {} /\ e.item = x
    BY <1>1, <2>2
  <2> HIDE DEF e
  <2>4. IInv'
    <3> HIDE DEF F
    <3>1. event' \in BOOLEAN /\ (event' <=> F # {})
      BY <2>2, <2>3, Zenon
    <3>2. F \in SUBSET Entries
      BY <2>2
    <3> QED
      BY <1>2, <2>2, <2>3, <3>1, <3>2, InvariantAfter
  <2>5. Range(queue') = F
    <3> HIDE DEF F
    <3> QED
      BY <2>2, HeapOfFacts
  <2>6. ~Spec0!Listed(x)
    BY <2>2, <2>3 DEF Spec0!Listed
  <2>7. Spec0!Add(x, p, ts)
    BY <2>2, <2>5, <2>6 DEF Spec0!Add, e
  <2> QED
    BY <2>4, <2>7
<1>3. ASSUME NEW x \in Items, NEW p \in Priorities[x], NEW ts \in Times[x],
             PushAt(x, p, ts)
      PROVE  IInv' /\ Spec0!QueueNext
  <2>1. ts \in Int /\ Push(x, p, ts) /\ lastDefault' = lastDefault
    BY <1>3, QueueAssumption DEF PushAt
  <2>2. IInv' /\ Spec0!Add(x, p, ts)
    BY <1>1, <1>2, <2>1
  <2> QED
    BY <2>1, <2>2 DEF Spec0!QueueNext
<1>4. ASSUME NEW x \in Items, NEW p \in Priorities[x], NEW now \in Clock,
             PushNow(x, p, now)
      PROVE  IInv' /\ Spec0!QueueNext
  <2> DEFINE ts == DefaultTimestamp(now)
  <2>1. /\ ts \in Nat /\ ts \in Int /\ ts >= now /\ ts > lastDefault
        /\ Push(x, p, ts) /\ lastDefault' = ts
    BY <1>1, <1>4, DefaultTimes DEF PushNow
  <2> HIDE DEF ts
  <2>2. IInv' /\ Spec0!Add(x, p, ts)
    BY <1>2, <2>1
  <2>3. Spec0!AddNow(x, p, now)
    BY <2>1, <2>2 DEF Spec0!AddNow
  <2> QED
    BY <2>2, <2>3 DEF Spec0!QueueNext
<1>5. ASSUME NEW x \in Items, NEW p \in Priorities[x], SetPriority(x, p)
      PROVE  IInv' /\ Spec0!QueueNext
  <2>1. p \in Int
    BY QueueAssumption
  <2>2. PICK e \in E :
             /\ e.item = x
             /\ IsHeapOf((E \ {e}) \cup {[e EXCEPT !.priority = p]}, queue', reverse')
             /\ popped' = {} /\ event' = event
             /\ pushes' = pushes /\ lastDefault' = lastDefault
    BY <1>5, <2>1, SetPriorityStep
  <2> DEFINE g == [e EXCEPT !.priority = p]
             F == (E \ {e}) \cup {g}
  <2>3. g \in Entries /\ g.index = e.index
    BY <1>1, <2>1 DEF Entries
  <2> HIDE DEF g
  <2>4. F \in SUBSET Entries /\ F # {}
    BY <1>1, <2>3
  <2>5. IndexesDiffer(F, pushes')
    BY <1>1, <2>2, <2>3 DEF IndexesDiffer
  <2>6. event' \in BOOLEAN /\ event'
    <3>1. queue # <<>>
      <4>1. IsHeapOf(E, queue, reverse) /\ E # {}
        BY <1>1
      <4>2. Holds(Len(queue), E, queue, reverse)
        BY <4>1, HeapOfFacts
      <4>3. SUFFICES ASSUME queue = <<>> PROVE FALSE
        OBVIOUS
      <4>4. Len(queue) = 0
        BY <4>3
      <4>5. \E i \in 1 .. 0 : queue[i] = e
        BY <4>2, <4>4 DEF Holds
      <4> QED
        BY <4>5
    <3> QED
      BY <2>2, <3>1, Zenon DEF IInv, EventMeansNonEmpty
  <2>7. IInv'
    <3>1. IsHeapOf(F, queue', reverse')
      BY <2>2 DEF g
    <3> HIDE DEF F
    <3>2. event' <=> F # {}
      BY <2>4, <2>6, Zenon
    <3>3. pushes' \in Nat /\ lastDefault' \in Nat
      BY <1>1, <2>2
    <3> QED
      BY <2>4, <2>5, <2>6, <3>1, <3>2, <3>3, InvariantAfter
  <2>8. Range(queue') = F
    <3>1. IsHeapOf(F, queue', reverse')
      BY <2>2 DEF g
    <3> HIDE DEF F
    <3> QED
      BY <3>1, HeapOfFacts
  <2>9. Spec0!Reprioritise(x, p)
    BY <2>2, <2>8 DEF Spec0!Reprioritise, g
  <2> QED
    BY <2>7, <2>9 DEF Spec0!QueueNext
<1>6. ASSUME NEW e \in E, IsHeapOf(E \ {e}, queue', reverse'), pushes' = pushes,
             lastDefault' = lastDefault, event' \in BOOLEAN, event' <=> Len(queue) > 1
      PROVE  IInv' /\ Range(queue') = E \ {e}
  <2> DEFINE F == E \ {e}
  <2>1. F \in SUBSET Entries /\ IndexesDiffer(F, pushes')
    BY <1>1, <1>6 DEF IndexesDiffer
  <2>2. event' <=> F # {}
    BY <1>6, SomeRemain
  <2> HIDE DEF F
  <2>3. IsHeapOf(F, queue', reverse')
    BY <1>6 DEF F
  <2>4. pushes' \in Nat /\ lastDefault' \in Nat
    BY <1>1, <1>6
  <2>5. IInv'
    BY <1>6, <2>1, <2>2, <2>3, <2>4, InvariantAfter
  <2> QED
    BY <2>3, <2>5, HeapOfFacts DEF F
<1>7. CASE Pop
  <2> DEFINE e == queue[1]
  <2>1. /\ e \in E /\ \A f \in E \ {e} : Spec0!Less(e, f)
        /\ IsHeapOf(E \ {e}, queue', reverse')
        /\ popped' = {e} /\ pushes' = pushes /\ lastDefault' = lastDefault
        /\ event' \in BOOLEAN /\ (event' <=> Len(queue) > 1)
    BY <1>7, PopStep
  <2> HIDE DEF e
  <2>2. IInv' /\ Range(queue') = E \ {e}
    BY <1>6, <2>1
  <2>3. Spec0!TakeFirst
    BY <2>1, <2>2 DEF Spec0!TakeFirst
  <2> QED
    BY <2>2, <2>3 DEF Spec0!QueueNext
<1>8. ASSUME NEW x \in Items, Remove(x)
      PROVE  IInv' /\ Spec0!QueueNext
  <2>1. PICK e \in E :
             /\ e.item = x /\ IsHeapOf(E \ {e}, queue', reverse')
             /\ popped' = {} /\ pushes' = pushes /\ lastDefault' = lastDefault
             /\ event' \in BOOLEAN /\ (event' <=> Len(queue) > 1)
    BY <1>8, RemoveStep
  <2>2. IInv' /\ Range(queue') = E \ {e}
    BY <1>6, <2>1
  <2>3. Spec0!TakeOut(x)
    BY <2>1, <2>2 DEF Spec0!TakeOut
  <2> QED
    BY <2>2, <2>3 DEF Spec0!QueueNext
<1> QED
  BY <1>3, <1>4, <1>5, <1>7, <1>8 DEF Next

LEMMA QueueStarts ==
  ASSUME Init
  PROVE  IInv /\ Spec0!QueueInit
<1>1. queue = <<>> /\ reverse = [x \in {} |-> 0] /\ event = FALSE
      /\ pushes = 0 /\ lastDefault = 0 /\ popped = {}
  BY DEF Init
<1>2. Range(queue) = {}
  BY <1>1 DEF Range
<1>3. Holds(0, {}, queue, reverse) /\ Sorted(0, queue)
  <2>1. 1 .. 0 = {} /\ 2 .. 0 = {}
    OBVIOUS
  <2> QED
    BY <1>1, <2>1 DEF Holds, Sorted
<1>4. IsHeapOf({}, queue, reverse)
  BY <1>3 DEF IsHeapOf
<1>5. EventMeansNonEmpty
  BY <1>1 DEF EventMeansNonEmpty
<1> QED
  BY <1>1, <1>2, <1>4, <1>5 DEF IInv, IndexesDiffer, Spec0!QueueInit

LEMMA QueueStutters ==
  ASSUME IInv, UNCHANGED vars
  PROVE  IInv' /\ UNCHANGED Spec0!queueVars
<1>1. queue' = queue /\ reverse' = reverse /\ event' = event /\ pushes' = pushes
      /\ lastDefault' = lastDefault /\ popped' = popped
  BY DEF vars
<1>2. Range(queue)' = Range(queue)
  BY <1>1
<1> QED
  BY <1>1, <1>2 DEF IInv, EventMeansNonEmpty, Spec0!queueVars
-----------------------------------------------------------------------------
(* The theorems *)

(***************************************************************************)
(* The list is always a heap of distinct entries, whatever pushes, pops,   *)
(* removals and changes of priority came before: the invariant on which    *)
(* the other theorems rest.                                                *)
(***************************************************************************)
THEOREM Invariance == Spec => []IInv
<1>1. Init => IInv
  BY QueueStarts
<1>2. IInv /\ [Next]_vars => IInv'
  BY QueueStep, QueueStutters
<1> QED
  BY <1>1, <1>2, PTL DEF Spec

(***************************************************************************)
(* _reverse gives the position of every item in _queue, so remove and      *)
(* set_priority act on the entry they were asked for.                      *)
(***************************************************************************)
THEOREM LookupIsExact == Spec => []ReverseIndexesQueue
<1>1. ASSUME IInv
      PROVE  ReverseIndexesQueue
  <2> DEFINE E == Range(queue)
             n == Len(queue)
  <2>1. n \in Nat /\ Holds(n, E, queue, reverse)
    BY <1>1, HeapOfFacts DEF IInv
  <2>2. /\ queue \in [1 .. n -> E] /\ reverse \in [{e.item : e \in E} -> 1 .. n]
        /\ \A e \in E : \E i \in 1 .. n : queue[i] = e
        /\ \A i \in 1 .. n : reverse[queue[i].item] = i
    BY <2>1 DEF Holds
  <2> HIDE DEF n, E
  <2>3. {e.item : e \in E} = {queue[i].item : i \in 1 .. n}
    BY <2>2
  <2>4. DOMAIN reverse = {queue[i].item : i \in 1 .. n}
    BY <2>2, <2>3
  <2> QED
    BY <2>2, <2>4 DEF n, ReverseIndexesQueue
<1> QED
  BY <1>1, Invariance, PTL

(***************************************************************************)
(* _event is set exactly while the queue has an entry, so a consumer that  *)
(* waits in pop is woken for every entry and for nothing else.             *)
(***************************************************************************)
THEOREM EventIsExact == Spec => []EventMeansNonEmpty
<1>1. IInv => EventMeansNonEmpty
  BY DEF IInv
<1> QED
  BY <1>1, Invariance, PTL

(***************************************************************************)
(* The heap implements the OrderedQueue: pop returns the first entry in    *)
(* the order of priority, timestamp and age; every operation adds, takes   *)
(* or changes the one entry it is about and leaves the others alone; and   *)
(* pushes without a timestamp keep their order when the clock steps back.  *)
(***************************************************************************)
THEOREM HeapIsOrderedQueue == Spec => ImplementsOrderedQueue
<1>1. Init => Spec0!QueueInit
  BY QueueStarts
<1>2. IInv /\ [Next]_vars => [Spec0!QueueNext]_(Spec0!queueVars)
  BY QueueStep, QueueStutters
<1> QED
  BY <1>1, <1>2, Invariance, PTL DEF Spec, Spec0!QueueSpec, ImplementsOrderedQueue
===============================================================================
