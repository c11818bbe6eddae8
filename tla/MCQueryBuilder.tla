--------------------------- MODULE MCQueryBuilder ---------------------------
EXTENDS QueryBuilder, Functions, TLC

CONSTANTS MaxPieces,   \* bound on the pieces in all the buffers
          MaxChains    \* bound on the chains of all the threads

Symmetry == Permutations(Thread)

Sum(f) == FoldFunction(LAMBDA m, n : m + n, 0, f)

Bound ==
  /\ Sum([t \in Thread |-> Len(where[t]) + Len(from[t])]) <= MaxPieces
  /\ Sum([t \in Thread |-> chain[t].number]) <= MaxChains
=============================================================================
