------------------------------ MODULE BlockDiff ------------------------------
(***************************************************************************)
(* The difference of two versions of a paper, as AnnouncementService       *)
(* computes it (compareTwoBlocks) and applies it (caulatePaper).  A paper  *)
(* is a sequence of blocks.  The text of a block stands for its key and    *)
(* text, all that the comparison looks at: two blocks of one text may      *)
(* differ in data, type, depth and ranges (its style), which the edits     *)
(* carry along with the block.  A list of deletes, inserts and replaces    *)
(* is a record: the deleted positions, and functions from the positions of *)
(* the inserts and replaces to what they carry (compareTwoBlocks keeps one *)
(* form per position).  An index out of range ends either method with an   *)
(* exception: the edits are Thrown, or the paper does not Fit them.        *)
(***************************************************************************)
EXTENDS Naturals, Sequences

Texts(p) == [i \in DOMAIN p |-> p[i].text]

NoEdits == [delete |-> {}, insert |-> <<>>, replace |-> <<>>, thrown |-> FALSE]
Thrown  == [NoEdits EXCEPT !.thrown = TRUE]

(* f with value v at k, whatever f said of k. *)
With(f, k, v) == [i \in DOMAIN f \union {k} |-> IF i = k THEN v ELSE f[i]]

(* The edit distance of the first i blocks of p and the first j of h; d    *)
(* has that of the shorter ones.                                           *)
Cells(p, h) == (0..Len(p)) \X (0..Len(h))

Lesser(a, b) == IF a <= b THEN a ELSE b

Distance(p, h, d, i, j) ==
  IF i = 0 THEN j
  ELSE IF j = 0 THEN i
  ELSE Lesser(Lesser(d[<<i-1, j>>], d[<<i, j-1>>]) + 1,
             d[<<i-1, j-1>>] + (IF p[i].text = h[j].text THEN 0 ELSE 1))

Matrix(p, h) ==
  LET d[c \in Cells(p, h)] == Distance(p, h, d, c[1], c[2])
  IN  d

Delete(e, y) == [e EXCEPT !.delete = @ \union {y}]

Replace(e, y, b) == [e EXCEPT !.replace = With(@, y, b)]

(* The blocks inserted after one position: the block found last comes      *)
(* first, and the walk is from the end, so those found later precede.      *)
Insert(e, y, b) ==
  [e EXCEPT !.insert =
     With(@, y, IF y \in DOMAIN @ THEN Append(@[y], b) ELSE <<b>>)]

(* The walk back through the matrix.  It stops when the remaining prefixes *)
(* have equal texts; a prefix that is empty while the other is not is read *)
(* at index -1.  Deletion wins a tie, then insertion.                      *)
Back(p, h, d, back, y, x) ==
  IF d[<<y, x>>] = 0 THEN NoEdits
  ELSE IF y = 0 \/ x = 0 THEN Thrown
  ELSE LET up   == d[<<y-1, x>>] + 1
           left == d[<<y, x-1>>] + 1
           diag == d[<<y-1, x-1>>] + (IF p[y].text = h[x].text THEN 0 ELSE 1)
       IN  IF up <= left /\ up <= diag THEN Delete(back[<<y-1, x>>], y)
           ELSE IF left <= diag THEN Insert(back[<<y, x-1>>], y, h[x])
           ELSE IF p[y].text = h[x].text THEN back[<<y-1, x-1>>]
           ELSE Replace(back[<<y-1, x-1>>], y, h[x])

Walk(p, h) ==
  LET d == Matrix(p, h)
      back[c \in Cells(p, h)] == Back(p, h, d, back, c[1], c[2])
  IN  back[<<Len(p), Len(h)>>]

(* compareTwoBlocks: what turns p into h, up to the style of the blocks    *)
(* that stay.                                                              *)
Compare(p, h) ==
  IF p = <<>> THEN [NoEdits EXCEPT !.insert = With(<<>>, 0, h)]
  ELSE IF h = <<>> THEN [NoEdits EXCEPT !.delete = DOMAIN p]
  ELSE Walk(p, h)

(* The replaces of caulatePaper: one beyond the end is dropped, except at  *)
(* position 1 of an empty paper.                                           *)
Replaced(p, replace) ==
  IF p = <<>> /\ 1 \in DOMAIN replace THEN <<replace[1]>>
  ELSE [i \in DOMAIN p |-> IF i \in DOMAIN replace THEN replace[i] ELSE p[i]]

Named(e) == e.delete \union (DOMAIN e.insert \ {0})

Fits(p, e) == Named(e) \subseteq DOMAIN Replaced(p, e.replace)

(* caulatePaper: the paper p after the edits e.  UpTo is what has come of  *)
(* its first i blocks.                                                     *)
Added(e, i) == IF i \in DOMAIN e.insert THEN e.insert[i] ELSE <<>>

Kept(q, e, i) == IF i \in e.delete THEN <<>> ELSE <<q[i]>>

UpTo(q, e) ==
  LET upTo[i \in 0..Len(q)] ==
        IF i = 0 THEN Added(e, 0) ELSE upTo[i-1] \o Kept(q, e, i) \o Added(e, i)
  IN  upTo

Apply(p, e) ==
  LET q == Replaced(p, e.replace) IN UpTo(q, e)[Len(q)]
=============================================================================
