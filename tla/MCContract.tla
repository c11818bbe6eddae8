----------------------------- MODULE MCContract -----------------------------
(* Model checking of Contract: two alliances, one of them with two roles.  *)
EXTENDS Contract, TLC

CONSTANTS creator, partner, colleague, first, second

Roles     == {creator, partner, colleague}
AllianceOfRole == (creator :> first) @@ (partner :> second) @@ (colleague :> first)
Symmetry  == Permutations(Request)
Busy      == {r \in Request : at[r] # "idle"}
Involved  == {p \in Role : roleRow[p] # NoRow \/ \E r \in Request : p \in todo[r]}

(* After an overlap no property says anything, so nothing is explored      *)
(* behind one.  Calls run at once as long as the third role is not in the  *)
(* contract and nothing was excused; until then the other causes are       *)
(* explored, one at a time.                                                *)
Bound ==
    /\ "overlap" \notin causes /\ Cardinality(causes) <= 1
    /\ colleague \in Involved => causes = {}
    /\ colleague \in Involved \/ causes # {} => Cardinality(Busy) <= 1
=============================================================================
