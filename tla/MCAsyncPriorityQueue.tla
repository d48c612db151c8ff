------------------------ MODULE MCAsyncPriorityQueue ------------------------
(***************************************************************************)
(* An instance of AsyncPriorityQueue for TLC: six items, the least number  *)
(* for which a removal moves the last entry to another branch and up.      *)
(***************************************************************************)
EXTENDS AsyncPriorityQueue, TLC

CONSTANTS i1, i2, i3, i4, i5, i6

\* The timestamps that callers give; any may come without one, the last always
\* does.
SomeTimes == [x \in Items |->
                 CASE x \in {i1, i2} -> {2} [] x = i6 -> {} [] OTHER -> {4}]

\* One item is given one priority or another, and its priority is changed.
TwoPriorities == [x \in Items |-> IF x = i6 THEN {0, 1} ELSE {1}]

\* Items with the same timestamps and priorities can be exchanged.
MCSymmetry == {f \in Permutations(Items) :
                  \A x \in Items : /\ SomeTimes[f[x]] = SomeTimes[x]
                                   /\ TwoPriorities[f[x]] = TwoPriorities[x]}
==============================================================================
