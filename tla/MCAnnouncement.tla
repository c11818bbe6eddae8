--------------------------- MODULE MCAnnouncement ---------------------------
(***************************************************************************)
(* Papers of up to three blocks, with the texts 1, 1 2 and 3 4 1; the      *)
(* block with the text 1 of the second has a style of its own.  The        *)
(* difference of the first and the third begins with an insertion and      *)
(* cannot be computed; that of the second and the third can be computed in *)
(* one direction only.                                                     *)
(***************************************************************************)
EXTENDS Announcement, TLC

CONSTANTS MaxHistory,   \* bound on the history rows of the alliance
          other         \* an announcement that is not changed for long

Plain(n)  == [text |-> n, style |-> "plain"]
Bold(n)   == [text |-> n, style |-> "bold"]
MCContent == {<<Plain(1)>>, <<Bold(1), Plain(2)>>, <<Plain(3), Plain(4), Plain(1)>>}
OneSetting == {"public_type"}
Symmetry == Permutations(Request)

(* The last history row is followed only into its snapshot, and calls that *)
(* overlapped a save not at all.  After a call that stopped midway they    *)
(* come one at a time, for the one announcement.                           *)
Bound ==
  /\ \/ Len(history) < MaxHistory
     \/ \A r \in Request : call[r].step \in {"idle", "snapshot"}
  /\ row[other] # None =>
       row[other] = [version |-> 1, content |-> <<Plain(1)>>, valid |-> TRUE,
                     set |-> [k \in Setting |-> 1]]
  /\ \A a \in Id : Sound(a)
  /\ (\E a \in Id : ~ Whole(a)) =>
       /\ row[other] = None /\ \A a \in Id : causes[a] \subseteq {"failure"}
       /\ Cardinality({r \in Request : call[r] # Idle}) <= 1
=============================================================================
