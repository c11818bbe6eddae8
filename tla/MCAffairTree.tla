---------------------------- MODULE MCAffairTree ----------------------------
(* Model checking of AffairTree.  Nothing is explored behind a cause that  *)
(* every property excuses.  With four affairs calls come one by one, and   *)
(* there are tasks as long as there are two affairs.                       *)
EXTENDS AffairTree, TLC

Symmetry == Permutations(Request)
Busy     == {r \in Request : at[r] # "idle"}

Bound ==
    /\ causes \subseteq {"moved"}
    /\ Cardinality(Rows) > 3 => Cardinality(Busy) <= 1
    /\ Cardinality(Rows) > 2 => \A a \in Rows : tasks[a] = 0
=============================================================================
