---------------------------- MODULE MCMembership ----------------------------
(* Model checking of Membership: the creator of the affair, a role of its  *)
(* alliance that owns an affair above it, and a role of another alliance.  *)
(* The last two belong to one user; the stranger owns none.                *)
EXTENDS Membership, Functions, TLC

CONSTANTS creator, director, guest, owner, person, stranger

Roles      == {creator, director, guest}
UserOfRole == (creator :> owner) @@ (director :> person) @@ (guest :> person)
Symmetry   == Permutations(Request)

Busy       == {r \in Request : at[r] # "idle"}
Rows       == FoldFunction(LAMBDA states, n : Len(states) + n, 0, application)
              + FoldFunction(LAMBDA states, n : Len(states) + n, 0, invitation)

(* Calls run at once up to the second application or invitation and as     *)
(* long as nothing was excused; one call at a time goes on to the third    *)
(* and behind any one cause.                                               *)
Bound ==
    /\ Rows <= 3 /\ Cardinality(causes) <= 1
    /\ Rows = 3 \/ causes # {} => Cardinality(Busy) <= 1
=============================================================================
