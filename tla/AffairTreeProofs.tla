-------------------------- MODULE AffairTreeProofs --------------------------
(***************************************************************************)
(* The parents and the paths of the affairs tell one tree, calls that      *)
(* overlap, halves of moves and outsiders of a LIKE excepted, for any      *)
(* number of affairs, tasks and requests and any places of digits.         *)
(***************************************************************************)
EXTENDS AffairTree, FiniteSetTheorems, SequenceTheorems, WellFoundedInduction, TLAPS

(* A set of natural numbers that is not empty has a least one.             *)
LEMMA LeastNumber ==
  ASSUME NEW S, S \subseteq Nat, S # {}
  PROVE  \E m \in S : \A k \in S : m <= k
<1> DEFINE R == {ss \in Nat \X Nat : ss[1] < ss[2]}
<1>1. IsWellFoundedOn(R, Nat)
  BY NatLessThanWellFounded DEF OpToRel
<1>2. PICK m \in S : \A y \in S : ~ (<<y, m>> \in R)
  <2> HIDE DEF R
  <2> QED BY <1>1, WFMin
<1>3. \A y \in S : ~ (y < m)
  BY <1>2
<1> QED BY <1>3

-----------------------------------------------------------------------------
(* Paths.                                                                  *)

Index == Nat \ {0}

(* q is p, or p and some more indices.                                     *)
Extends(q, p) == Len(p) <= Len(q) /\ \A i \in 1..Len(p) : q[i] = p[i]

(* What a path is made of.                                                 *)
LEMMA PathFacts ==
  ASSUME NEW p \in Path
  PROVE  /\ p \in Seq(Index) /\ Len(p) \in Nat \ {0} /\ DOMAIN p = 1..Len(p)
         /\ \A i \in 1..Len(p) : p[i] \in Index
         /\ LastOf(p) \in Index
<1>1. p \in Seq(Index) /\ p # <<>>
  BY DEF Path, Index
<1>2. Len(p) \in Nat \ {0} /\ DOMAIN p = 1..Len(p)
  BY <1>1, EmptySeq
<1>3. \A i \in 1..Len(p) : p[i] \in Index
  BY <1>1, ElementOfSeq
<1> QED BY <1>1, <1>2, <1>3 DEF LastOf

(* A sequence of one index or more is a path.                              *)
LEMMA IsPath ==
  ASSUME NEW p \in Seq(Index), Len(p) >= 1
  PROVE  p \in Path
<1>1. p # <<>>
  OBVIOUS
<1> QED BY <1>1 DEF Path, Index

(* Equal paths are those of one length with equal indices.                 *)
LEMMA SamePath ==
  ASSUME NEW p \in Path, NEW q \in Path, Len(p) = Len(q), \A i \in 1..Len(p) : p[i] = q[i]
  PROVE  p = q
BY PathFacts, SeqEqual

(* A path and one index more.                                              *)
LEMMA OneMore ==
  ASSUME NEW p \in Path, NEW x \in Index
  PROVE  /\ Append(p, x) \in Path /\ Len(Append(p, x)) = Len(p) + 1
         /\ LastOf(Append(p, x)) = x /\ Extends(Append(p, x), p)
<1> DEFINE q == Append(p, x)
<1>1. p \in Seq(Index) /\ Len(p) \in Nat \ {0}
  BY PathFacts
<1>2. /\ q \in Seq(Index) /\ Len(q) = Len(p) + 1
      /\ \A i \in 1..Len(p) : q[i] = p[i]
      /\ q[Len(p) + 1] = x
  BY <1>1, AppendProperties
<1> HIDE DEF q
<1>3. q \in Path
  BY <1>1, <1>2, IsPath
<1>4. LastOf(q) = x /\ Extends(q, p)
  BY <1>1, <1>2 DEF LastOf, Extends
<1> USE DEF q
<1> QED BY <1>2, <1>3, <1>4, Zenon

LEMMA IsOneMore ==
  ASSUME NEW p \in Path, NEW q \in Path, Len(q) = Len(p) + 1, Extends(q, p)
  PROVE  q = Append(p, LastOf(q))
<1>1. LastOf(q) \in Index /\ Len(p) \in Nat \ {0} /\ p \in Seq(Index)
  BY PathFacts
<1>2. /\ Append(p, LastOf(q)) \in Path /\ Len(Append(p, LastOf(q))) = Len(q)
      /\ LastOf(Append(p, LastOf(q))) = LastOf(q) /\ Extends(Append(p, LastOf(q)), p)
  BY <1>1, OneMore
<1>3. ASSUME NEW i \in 1..Len(q) PROVE q[i] = Append(p, LastOf(q))[i]
  <2>1. CASE i = Len(q)
    BY <1>2, <2>1 DEF LastOf
  <2>2. CASE i # Len(q)
    BY <1>1, <1>2, <2>2 DEF Extends
  <2> QED BY <2>1, <2>2
<1> QED BY <1>2, <1>3, SamePath

(* Two sequences one behind the other.                                     *)
LEMMA TwoParts ==
  ASSUME NEW a \in Seq(Index), NEW b \in Seq(Index)
  PROVE  /\ a \o b \in Seq(Index) /\ Len(a \o b) = Len(a) + Len(b)
         /\ \A i \in 1..(Len(a) + Len(b)) : (a \o b)[i] = IF i <= Len(a) THEN a[i] ELSE b[i - Len(a)]
OBVIOUS

(* A part of a path.                                                       *)
LEMMA PartOfPath ==
  ASSUME NEW p \in Path, NEW m \in Nat, NEW n \in Nat, 1 <= m, n <= Len(p)
  PROVE  /\ SubSeq(p, m, n) \in Seq(Index)
         /\ Len(SubSeq(p, m, n)) = IF m <= n THEN n - m + 1 ELSE 0
         /\ \A i \in 1 .. n - m + 1 : SubSeq(p, m, n)[i] = p[m + i - 1]
<1>1. p \in Seq(Index)
  BY PathFacts
<1> QED BY <1>1

LEMMA FrontOfPath ==
  ASSUME NEW p \in Path, NEW q \in Path, Extends(q, p)
  PROVE  p = SubSeq(q, 1, Len(p))
<1>1. /\ Len(p) \in Nat \ {0} /\ Len(p) <= Len(q)
      /\ \A i \in 1..Len(p) : q[i] = p[i]
  BY PathFacts DEF Extends
<1> DEFINE s == SubSeq(q, 1, Len(p))
<1>2. /\ s \in Seq(Index) /\ Len(s) = Len(p)
      /\ \A i \in 1..Len(p) : s[i] = q[i]
  <2>1. PICK n \in Nat : n = Len(p) /\ 1 <= n /\ n <= Len(q)
    BY <1>1
  <2>2. /\ SubSeq(q, 1, n) \in Seq(Index) /\ Len(SubSeq(q, 1, n)) = n
        /\ \A i \in 1..n : SubSeq(q, 1, n)[i] = q[i]
    BY <2>1, PathFacts
  <2> QED BY <2>1, <2>2
<1> HIDE DEF s
<1>3. s \in Path
  BY <1>1, <1>2, IsPath
<1>4. p = s
  BY <1>1, <1>2, <1>3, SamePath
<1> QED BY <1>4 DEF s

LEMMA ExtendsTransitive ==
  ASSUME NEW p \in Path, NEW q \in Path, NEW s \in Path, Extends(q, p), Extends(s, q)
  PROVE  Extends(s, p)
BY PathFacts DEF Extends

-----------------------------------------------------------------------------
(* Paths as texts.                                                         *)

(* The digits of an index begin those of the same index in one way.        *)
LEMMA SharedAlone ==
  ASSUME NEW i \in Index
  PROVE  Shared(i, i) = {1}
<1>1. 1 \in Shared(i, i)
  <2>1. i \div 1 = i
    BY DEF Index
  <2> QED BY <2>1, ConstantsAssumption DEF Shared
<1>2. ASSUME NEW w \in Shared(i, i) PROVE w = 1
  <2>1. w \in Nat \ {0} /\ i \div w = i
    BY <1>2, ConstantsAssumption DEF Shared
  <2>2. i \in Nat \ {0}
    BY DEF Index
  <2>3. i = w * (i \div w) + (i % w) /\ i % w >= 0
    BY <2>1, <2>2
  <2>4. i >= w * i
    BY <2>1, <2>2, <2>3
  <2>5. w >= 2 => w * i >= 2 * i
    BY <2>1, <2>2
  <2> QED BY <2>1, <2>2, <2>4, <2>5
<1> QED BY <1>1, <1>2

LEMMA ExtendedIsLike ==
  ASSUME NEW p \in Path, NEW q \in Path, Extends(q, p)
  PROVE  TextPrefix(p, q)
<1>1. LastOf(p) = q[Len(p)] /\ LastOf(p) \in Index
  BY PathFacts DEF Extends, LastOf
<1>2. Shared(LastOf(p), q[Len(p)]) # {}
  BY <1>1, SharedAlone
<1>3. \A i \in 1..(Len(p) - 1) : p[i] = q[i]
  BY PathFacts DEF Extends
<1> QED BY <1>2, <1>3 DEF TextPrefix, Extends

(* A moved path is a path again, even if its text only begins with that of *)
(* the affair that moves.                                                  *)
LEMMA MovedIsPath ==
  ASSUME NEW old \in Path, NEW new \in Path, NEW q \in Path, TextPrefix(old, q)
  PROVE  MovedPath(old, new, q) \in Path
<1> DEFINE w == CHOOSE w \in Shared(LastOf(old), q[Len(old)]) : TRUE
           x == (LastOf(new) * w) + (q[Len(old)] % w)
           a == SubSeq(new, 1, Len(new) - 1)
           b == SubSeq(q, Len(old) + 1, Len(q))
<1>1. w \in Nat \ {0}
  <2>1. w \in Shared(LastOf(old), q[Len(old)])
    BY DEF TextPrefix
  <2> QED BY <2>1, ConstantsAssumption DEF Shared
<1>2. q[Len(old)] \in Nat \ {0} /\ LastOf(new) \in Nat \ {0}
  BY PathFacts DEF TextPrefix, Index
<1>3. x \in Index
  <2>1. q[Len(old)] % w \in Nat
    BY <1>1, <1>2
  <2>2. LastOf(new) * w \in Nat /\ LastOf(new) * w >= 1
    BY <1>1, <1>2
  <2> QED BY <2>1, <2>2 DEF Index
<1>4. a \in Seq(Index) /\ b \in Seq(Index)
  <2>1. /\ Len(new) - 1 \in Nat /\ Len(new) - 1 <= Len(new)
        /\ Len(old) + 1 \in Nat /\ 1 <= Len(old) + 1 /\ Len(q) \in Nat /\ Len(q) <= Len(q)
    BY PathFacts
  <2>2. a \in Seq(Index)
    BY <2>1, PartOfPath, 1 \in Nat, 1 <= 1, Zenon
  <2>3. b \in Seq(Index)
    BY <2>1, PartOfPath, Zenon
  <2> QED BY <2>2, <2>3
<1>5. MovedPath(old, new, q) = a \o <<x>> \o b
  BY DEF MovedPath
<1> HIDE DEF x, a, b
<1>6. <<x>> \in Seq(Index) /\ Len(<<x>>) = 1
  BY <1>3
<1>7. a \o <<x>> \in Seq(Index) /\ Len(a \o <<x>>) = Len(a) + 1
  BY <1>4, <1>6, ConcatProperties
<1>8. a \o <<x>> \o b \in Seq(Index) /\ Len(a \o <<x>> \o b) = Len(a) + 1 + Len(b)
  BY <1>4, <1>7, ConcatProperties
<1>9. Len(a) + 1 + Len(b) >= 1
  BY <1>4, LenProperties
<1> DEFINE m == a \o <<x>> \o b
<1>10. m \in Seq(Index) /\ Len(m) >= 1
  BY <1>8, <1>9, Zenon
<1>11. MovedPath(old, new, q) = m
  BY <1>5
<1> HIDE DEF m
<1> QED BY <1>10, <1>11, IsPath

(* What extends the old path extends the new one when it is moved.         *)
LEMMA MovedExtends ==
  ASSUME NEW old \in Path, NEW new \in Path, NEW q \in Path, Extends(q, old)
  PROVE  /\ MovedPath(old, new, q) \in Path
         /\ Len(MovedPath(old, new, q)) = Len(new) + (Len(q) - Len(old))
         /\ Extends(MovedPath(old, new, q), new)
         /\ \A i \in 1..(Len(q) - Len(old)) :
              MovedPath(old, new, q)[Len(new) + i] = q[Len(old) + i]
<1> DEFINE w == CHOOSE w \in Shared(LastOf(old), q[Len(old)]) : TRUE
           x == (LastOf(new) * w) + (q[Len(old)] % w)
           a == SubSeq(new, 1, Len(new) - 1)
           b == SubSeq(q, Len(old) + 1, Len(q))
<1>1. w = 1
  <2>1. LastOf(old) = q[Len(old)] /\ LastOf(old) \in Index
    BY PathFacts DEF Extends, LastOf
  <2> QED BY <2>1, SharedAlone
<1>2. x = LastOf(new)
  <2>1. q[Len(old)] \in Nat /\ LastOf(new) \in Nat
    BY PathFacts DEF Extends, Index
  <2> HIDE DEF w
  <2>2. x = (LastOf(new) * 1) + (q[Len(old)] % 1)
    BY <1>1
  <2> HIDE DEF x
  <2> QED BY <2>1, <2>2
<1>3. MovedPath(old, new, q) = a \o <<LastOf(new)>> \o b
  BY <1>2 DEF MovedPath
<1> HIDE DEF w, x
<1>4. MovedPath(old, new, q) \in Path
  BY ExtendedIsLike, MovedIsPath
<1>5. Len(old) \in Nat \ {0} /\ Len(new) \in Nat \ {0} /\ Len(q) \in Nat \ {0} /\ Len(old) <= Len(q)
  BY PathFacts DEF Extends
<1>6. /\ a \in Seq(Index) /\ Len(a) = Len(new) - 1 /\ \A i \in 1..(Len(new) - 1) : a[i] = new[i]
  <2>1. PICK n \in Nat : Len(new) = n + 1
    BY <1>5
  <2>2. n = Len(new) - 1 /\ n <= Len(new)
    BY <2>1
  <2>3. /\ a \in Seq(Index) /\ Len(a) = IF 1 <= n THEN n - 1 + 1 ELSE 0
        /\ \A i \in 1 .. n - 1 + 1 : a[i] = new[1 + i - 1]
    BY <2>2, PartOfPath, 1 \in Nat, 1 <= 1, Zenon
  <2> HIDE DEF a
  <2>4. Len(a) = n
    BY <2>3
  <2>5. ASSUME NEW i \in 1..n PROVE a[i] = new[i]
    <3>1. i \in 1 .. n - 1 + 1 /\ 1 + i - 1 = i
      OBVIOUS
    <3> QED BY <2>3, <3>1, Zenon
  <2> QED BY <2>2, <2>3, <2>4, <2>5, Zenon
<1>7. /\ b \in Seq(Index) /\ Len(b) = Len(q) - Len(old)
      /\ \A i \in 1..(Len(q) - Len(old)) : b[i] = q[Len(old) + i]
  <2>1. Len(old) + 1 \in Nat /\ 1 <= Len(old) + 1 /\ Len(q) \in Nat /\ Len(q) <= Len(q)
    BY <1>5
  <2>2. /\ b \in Seq(Index) /\ Len(b) = IF Len(old) + 1 <= Len(q) THEN Len(q) - (Len(old) + 1) + 1 ELSE 0
        /\ \A i \in 1 .. Len(q) - (Len(old) + 1) + 1 : b[i] = q[Len(old) + 1 + i - 1]
    BY <2>1, PartOfPath, Zenon
  <2> HIDE DEF b
  <2> QED BY <1>5, <2>2
<1>8. LastOf(new) \in Index /\ LastOf(new) = new[Len(new)]
  BY PathFacts DEF LastOf
<1> HIDE DEF a, b
<1>9. <<LastOf(new)>> \in Seq(Index) /\ Len(<<LastOf(new)>>) = 1 /\ <<LastOf(new)>>[1] = LastOf(new)
  BY <1>8
<1> DEFINE c == a \o <<LastOf(new)>>
<1>10. c \in Seq(Index) /\ Len(c) = Len(new) /\ \A i \in 1..Len(new) : c[i] = new[i]
  <2>1. /\ c \in Seq(Index) /\ Len(c) = Len(a) + Len(<<LastOf(new)>>)
        /\ \A i \in 1..(Len(a) + Len(<<LastOf(new)>>)) :
             c[i] = IF i <= Len(a) THEN a[i] ELSE <<LastOf(new)>>[i - Len(a)]
    BY <1>6, <1>9, TwoParts
  <2> HIDE DEF c
  <2>2. ASSUME NEW i \in 1..Len(new) PROVE c[i] = new[i]
    <3>1. CASE i = Len(new)
      BY <1>5, <1>6, <1>8, <1>9, <2>1, <3>1
    <3>2. CASE i # Len(new)
      BY <1>5, <1>6, <2>1, <3>2
    <3> QED BY <3>1, <3>2
  <2> QED BY <1>5, <1>6, <2>1, <2>2
<1>11. MovedPath(old, new, q) = c \o b
  BY <1>3
<1> HIDE DEF c
<1> DEFINE d == c \o b
<1>12. /\ Len(d) = Len(c) + Len(b)
       /\ \A i \in 1..(Len(c) + Len(b)) : d[i] = IF i <= Len(c) THEN c[i] ELSE b[i - Len(c)]
  BY <1>7, <1>10, TwoParts
<1>15. MovedPath(old, new, q) = d
  BY <1>11
<1> HIDE DEF d
<1>13. \A i \in 1..Len(new) : d[i] = new[i]
  BY <1>5, <1>7, <1>10, <1>12
<1>14. ASSUME NEW i \in 1..(Len(q) - Len(old)) PROVE d[Len(new) + i] = q[Len(old) + i]
  <2>1. Len(new) + i \in 1..(Len(c) + Len(b)) /\ ~ (Len(new) + i <= Len(c)) /\ Len(new) + i - Len(c) = i
    BY <1>5, <1>7, <1>10
  <2> QED BY <1>7, <1>12, <2>1
<1>16. Len(d) = Len(new) + (Len(q) - Len(old))
  BY <1>5, <1>7, <1>10, <1>12
<1> QED BY <1>4, <1>5, <1>15, <1>16, <1>13, <1>14 DEF Extends

-----------------------------------------------------------------------------
(* Rows, and the tree of their parents.                                    *)

LEMMA RowFacts ==
  ASSUME Types, NEW a \in Rows
  PROVE  /\ a \in Affair /\ affair[a] \in Row /\ affair[a].parent \in 0..MaxAffair
         /\ affair[a].path \in Path /\ affair[a].level \in Int /\ affair[a].state \in {Valid, Invalid}
<1>1. a \in Affair /\ affair[a] # NoRow /\ affair \in [Affair -> Row \cup {NoRow}]
  BY DEF Types, TypeOK, Rows
<1>2. affair[a] \in Row
  BY <1>1
<1> QED BY <1>1, <1>2 DEF Row

LEMMA RowsFacts ==
  ASSUME Types
  PROVE  1 \in Rows /\ 0 \notin Rows /\ Rows \subseteq Affair /\ IsFiniteSet(Rows) /\ IsFiniteSet(Affair)
<1>1. PICK n \in 1..MaxAffair : Rows = 1..n
  BY DEF Types
<1>2. MaxAffair \in Nat
  BY ConstantsAssumption
<1>3. IsFiniteSet(Rows) /\ IsFiniteSet(Affair)
  BY <1>1, <1>2, FS_Interval DEF Affair
<1> QED BY <1>1, <1>2, <1>3 DEF Affair

LEMMA SubtreeHas ==
  ASSUME NEW a \in Rows
  PROVE  a \in Subtree(a) /\ Subtree(a) \subseteq Rows /\ Closed(Subtree(a))
<1>1. a \in Subtree(a) /\ Subtree(a) \subseteq Rows
  BY DEF Subtree
<1>2. ASSUME NEW c \in Subtree(a), NEW b \in Children(c), NEW S \in SUBSET Rows, a \in S, Closed(S)
      PROVE  b \in S
  <2>1. c \in S
    BY <1>2 DEF Subtree
  <2> QED BY <1>2, <2>1 DEF Closed
<1>3. ASSUME NEW c \in Subtree(a), NEW b \in Children(c)
      PROVE  b \in Subtree(a)
  BY <1>2, <1>3 DEF Subtree, Children
<1> QED BY <1>1, <1>3 DEF Closed

LEMMA SubtreeLeast ==
  ASSUME NEW a, NEW S \in SUBSET Rows, a \in S, Closed(S)
  PROVE  Subtree(a) \subseteq S
BY DEF Subtree

LEMMA SubtreeUp ==
  ASSUME NEW a \in Rows, NEW c \in Subtree(a), c # a
  PROVE  affair[c].parent \in Subtree(a)
<1> DEFINE S == {b \in Subtree(a) : b = a \/ affair[b].parent \in Subtree(a)}
<1>1. a \in S /\ S \in SUBSET Rows
  BY SubtreeHas
<1>2. Closed(S)
  <2>1. SUFFICES ASSUME NEW b \in S, NEW d \in Children(b) PROVE d \in S
    BY DEF Closed
  <2>2. b \in Subtree(a) /\ d \in Subtree(a)
    BY SubtreeHas DEF Closed
  <2>3. affair[d].parent = b
    BY DEF Children
  <2> QED BY <2>2, <2>3
<1> HIDE DEF S
<1>3. c \in S
  BY <1>1, <1>2, SubtreeLeast
<1> QED BY <1>3 DEF S

-----------------------------------------------------------------------------
(* The paths that affairs have when a move is done.                        *)

Movers == \A r \in Request : at[r] = "moveKids" <=> r \in wrote

LEMMA OwedFacts ==
  ASSUME Types, Movers, NEW k \in Owed
  PROVE  k \in NewPaths /\ k.id \in Rows /\ k.path \in Path
<1>1. PICK r \in wrote : k \in todo[r]
  BY DEF Owed
<1>2. r \in Request /\ at[r] = "moveKids"
  BY DEF Types, TypeOK, Movers
<1> QED BY <1>1, <1>2 DEF Types

LEMMA PathOfIsPath ==
  ASSUME Types, Movers, NEW a \in Rows
  PROVE  PathOf(a) \in Path
<1>1. CASE Owes(a) = {}
  BY <1>1, RowFacts DEF PathOf
<1>2. CASE Owes(a) # {}
  <2>1. PICK k \in Owes(a) : PathOf(a) = k.path
    BY <1>2 DEF PathOf
  <2> QED BY <2>1, OwedFacts DEF Owes
<1> QED BY <1>1, <1>2

LEMMA NothingOwed ==
  ASSUME wrote = {}
  PROVE  Owed = {} /\ \A a : Owes(a) = {} /\ PathOf(a) = affair[a].path
<1>1. Owed = {}
  BY DEF Owed
<1> QED BY <1>1 DEF Owes, PathOf

LEMMA PathOfOwed ==
  ASSUME NEW k \in Owed, \A i, j \in Owed : i.id = j.id => i = j
  PROVE  PathOf(k.id) = k.path /\ Owes(k.id) = {k}
<1>1. Owes(k.id) = {k}
  BY DEF Owes
<1> QED BY <1>1 DEF PathOf

(* What the invariant says of paths, without the rest.                     *)
Tree == Types /\ Movers /\ Follows

LEMMA ParentFacts ==
  ASSUME Tree, NEW a \in Rows \ {1}
  PROVE  /\ affair[a].parent \in Rows /\ a \in Children(affair[a].parent)
         /\ Len(PathOf(a)) = Len(PathOf(affair[a].parent)) + 1
         /\ Extends(PathOf(a), PathOf(affair[a].parent))
<1>1. /\ affair[a].parent \in Rows
      /\ PathOf(a) = Append(PathOf(affair[a].parent), LastOf(PathOf(a)))
  BY DEF Tree, Follows
<1>2. PathOf(a) \in Path /\ PathOf(affair[a].parent) \in Path
  BY <1>1, PathOfIsPath DEF Tree
<1>3. LastOf(PathOf(a)) \in Index
  BY <1>2, PathFacts
<1> DEFINE p == PathOf(affair[a].parent)
           x == LastOf(PathOf(a))
<1>4. Len(Append(p, x)) = Len(p) + 1 /\ Extends(Append(p, x), p)
  BY <1>2, <1>3, OneMore, Zenon
<1>5. PathOf(a) = Append(p, x)
  BY <1>1
<1> HIDE DEF p, x
<1>6. Len(PathOf(a)) = Len(p) + 1 /\ Extends(PathOf(a), p)
  BY <1>4, <1>5, Zenon
<1> QED BY <1>1, <1>6 DEF Children, p

LEMMA ChildrenAreRows ==
  ASSUME Tree, NEW a \in Rows, NEW c \in Children(a)
  PROVE  c \in Rows \ {1} /\ affair[c].parent = a
<1>1. c \in Rows /\ affair[c].parent = a
  BY DEF Children
<1>2. affair[1].parent = 0 /\ 0 \notin Rows
  BY RowsFacts DEF Tree, Follows
<1> QED BY <1>1, <1>2

(* What is below an affair has a path that extends its path.               *)
LEMMA BelowExtends ==
  ASSUME Tree, NEW a \in Rows, NEW b \in Subtree(a)
  PROVE  Extends(PathOf(b), PathOf(a))
<1> DEFINE S == {c \in Rows : Extends(PathOf(c), PathOf(a))}
<1>1. a \in S
  <2>1. PathOf(a) \in Path
    BY PathOfIsPath DEF Tree
  <2> QED BY <2>1, PathFacts DEF Extends
<1>2. Closed(S)
  <2>1. SUFFICES ASSUME NEW c \in S, NEW d \in Children(c) PROVE d \in S
    BY DEF Closed
  <2>2. d \in Rows \ {1} /\ affair[d].parent = c
    BY ChildrenAreRows
  <2>3. Extends(PathOf(d), PathOf(c))
    BY <2>2, ParentFacts
  <2>4. PathOf(a) \in Path /\ PathOf(c) \in Path /\ PathOf(d) \in Path
    BY <2>2, PathOfIsPath DEF Tree
  <2>5. Extends(PathOf(c), PathOf(a))
    OBVIOUS
  <2>6. Extends(PathOf(d), PathOf(a))
    BY <2>3, <2>4, <2>5, ExtendsTransitive
  <2> QED BY <2>2, <2>6
<1> HIDE DEF S
<1>3. S \in SUBSET Rows
  BY DEF S
<1>4. b \in S
  BY <1>1, <1>2, <1>3, SubtreeLeast
<1> QED BY <1>4 DEF S

(* A set of affairs that has the root, and with an affair its children,    *)
(* has them all: the affair with the shortest path outside it would have a *)
(* parent inside.                                                          *)
LEMMA AllBelowRoot ==
  ASSUME Tree
  PROVE  Subtree(1) = Rows
<1> DEFINE S == {Len(PathOf(c)) : c \in Rows \ Subtree(1)}
<1>0. 1 \in Rows
  BY RowsFacts DEF Tree
<1>1. SUFFICES ASSUME Rows \ Subtree(1) # {} PROVE FALSE
  BY <1>0, SubtreeHas
<1>2. \A c \in Rows : Len(PathOf(c)) \in Nat
  BY PathOfIsPath, PathFacts DEF Tree
<1>3. S \subseteq Nat /\ S # {}
  BY <1>1, <1>2
<1>4. PICK m \in S : \A n \in S : m <= n
  <2> HIDE DEF S
  <2> QED BY <1>3, LeastNumber
<1>5. PICK c \in Rows \ Subtree(1) : Len(PathOf(c)) = m
  BY <1>4
<1>6. c # 1
  BY <1>0, <1>5, SubtreeHas
<1>7. affair[c].parent \in Rows /\ c \in Children(affair[c].parent)
      /\ Len(PathOf(c)) = Len(PathOf(affair[c].parent)) + 1
  BY <1>5, <1>6, ParentFacts
<1>8. affair[c].parent \in Subtree(1)
  BY <1>2, <1>4, <1>5, <1>7
<1>9. c \in Subtree(1)
  BY <1>0, <1>7, <1>8, SubtreeHas DEF Closed
<1> QED BY <1>5, <1>9

-----------------------------------------------------------------------------
(* What steps have in common.                                              *)

LEMMA CallChanges ==
  ASSUME Types, NEW r \in Request, NEW place, NEW a, NEW w, NEW paths, NEW task,
         Call(r, place, a, w, paths, task)
  PROVE  /\ at'[r] = place /\ subject'[r] = a /\ row'[r] = w /\ todo'[r] = paths
         /\ \A s \in Request \ {r} : /\ at'[s] = at[s] /\ subject'[s] = subject[s]
                                     /\ row'[s] = row[s] /\ todo'[s] = todo[s]
BY DEF Types, TypeOK, Call

(* A call that began or ended keeps the types of the locals.               *)
LEMMA CallTyped ==
  ASSUME Types, NEW r \in Request, NEW place \in {"idle"} \cup Begins, NEW a \in 0..MaxAffair,
         NEW w \in Row \cup {NoRow}, NEW paths \in SUBSET NewPaths, NEW task \in 0..MaxAffair,
         Call(r, place, a, w, paths, task)
  PROVE  /\ at' \in [Request -> {"idle", "create", "move", "moveKids", "disable", "enable"}]
         /\ subject' \in [Request -> 0..MaxAffair] /\ row' \in [Request -> Row \cup {NoRow}]
         /\ closing' \in [Request -> 0..MaxAffair] /\ todo' \in [Request -> SUBSET NewPaths]
<1>1. place \in {"idle", "create", "move", "moveKids", "disable", "enable"}
  BY DEF Begins
<1> QED BY <1>1 DEF Types, TypeOK, Call

LEMMA WritesTyped ==
  ASSUME Types, NEW r \in Request, NEW more \in SUBSET Cause, NEW last \in BOOLEAN,
         Writes(r, more, last)
  PROVE  /\ stale' \in SUBSET Request /\ wrote' \in SUBSET Request /\ causes' \in SUBSET Cause
         /\ causes \subseteq causes' /\ more \subseteq causes'
         /\ Sound' => Sound
<1>1. causes' = causes \cup more \cup (IF r \in stale THEN {"overlap"} ELSE {})
  BY DEF Writes
<1>2. causes \in SUBSET Cause /\ stale \in SUBSET Request /\ wrote \in SUBSET Request
  BY DEF Types, TypeOK
<1>3. (IF r \in stale THEN {"overlap"} ELSE {}) \subseteq Cause
  BY DEF Cause
<1>4. stale' \in SUBSET Request /\ wrote' \in SUBSET Request
  BY <1>2 DEF Writes
<1>5. causes \subseteq causes' /\ more \subseteq causes'
  BY <1>1
<1>6. Sound' => Sound
  BY <1>5 DEF Sound, Unless
<1> QED BY <1>1, <1>2, <1>3, <1>4, <1>5, <1>6

(* A call that writes in a sound state is not stale, no other one is half  *)
(* done, and all others are stale now.                                     *)
LEMMA WriterIsFresh ==
  ASSUME IInv, NEW r \in Request, at[r] # "idle", NEW more, NEW last \in BOOLEAN,
         Writes(r, more, last), Sound'
  PROVE  /\ Sound /\ OneWriter /\ Follows /\ (causes = {} => Numbered)
         /\ r \notin stale /\ wrote \subseteq {r}
         /\ Knows(at[r], subject[r], row[r], todo[r])
         /\ wrote' = (IF last THEN {} ELSE {r}) /\ r \notin stale'
         /\ \A s \in Request \ {r} : at[s] = "idle" \/ s \in stale'
<1>0. Types /\ Movers
  BY DEF IInv, Movers
<1>1. causes' = causes \cup more \cup (IF r \in stale THEN {"overlap"} ELSE {})
  BY DEF Writes
<1>2. Sound
  BY <1>1 DEF Sound, Unless
<1>3. r \notin stale
  BY <1>1 DEF Sound, Unless
<1>4. OneWriter /\ Follows /\ (causes = {} => Numbered)
      /\ Knows(at[r], subject[r], row[r], todo[r])
  BY <1>2, <1>3 DEF IInv
<1>5. wrote \in SUBSET Request /\ stale \in SUBSET Request
  BY <1>0 DEF Types, TypeOK
<1>6. wrote \subseteq {r}
  BY <1>3, <1>4, <1>5 DEF OneWriter
<1>7. /\ stale' = (stale \cup {s \in Request \ {r} : at[s] # "idle"}) \ (IF last THEN {r} ELSE {})
      /\ wrote' = IF last THEN wrote \ {r} ELSE wrote \cup {r}
  BY DEF Writes
<1>8. wrote' = IF last THEN {} ELSE {r}
  BY <1>6, <1>7
<1>9. r \notin stale' /\ \A s \in Request \ {r} : at[s] = "idle" \/ s \in stale'
  BY <1>3, <1>7
<1> QED BY <1>2, <1>3, <1>4, <1>6, <1>8, <1>9

(* After a write nobody else knows the tables; whoever goes on with a move *)
(* needs to know nothing.                                                  *)
LEMMA AfterWrite ==
  ASSUME NEW r \in Request, NEW last \in BOOLEAN,
         wrote' = (IF last THEN {} ELSE {r}), r \notin stale',
         \A s \in Request \ {r} : at'[s] = at[s] /\ (at[s] = "idle" \/ s \in stale'),
         at'[r] = (IF last THEN "idle" ELSE "moveKids")
  PROVE  /\ OneWriter'
         /\ \A s \in Request : at'[s] # "idle" /\ s \notin stale' =>
              Knows(at[s], subject[s], row[s], todo[s])'
<1>1. OneWriter'
  BY DEF OneWriter
<1>2. ASSUME NEW s \in Request, at'[s] # "idle", s \notin stale'
      PROVE  Knows(at[s], subject[s], row[s], todo[s])'
  <2>1. at'[s] = "moveKids"
    BY <1>2
  <2> QED BY <2>1 DEF Knows
<1> QED BY <1>1, <1>2

(* The two pictures of the tree agree still if a step changes no parent    *)
(* and no path that an affair is to have.                                  *)
LEMMA PictureKept ==
  ASSUME Rows' = Rows, 1 \in Rows, Owed' \subseteq Owed, Follows,
         \A a \in Rows : /\ affair'[a].parent = affair[a].parent /\ PathOf(a)' = PathOf(a)
                         /\ Owes(a)' = {} => affair'[a].level = Len(affair'[a].path)
  PROVE  Follows' /\ (Numbered => Numbered')
<1>1. Follows'
  <2>1. affair'[1].parent = 0 /\ PathOf(1)' = <<1>>
    BY DEF Follows
  <2>2. ASSUME NEW a \in Rows \ {1}
        PROVE  /\ affair'[a].parent \in Rows
               /\ PathOf(a)' = Append(PathOf(affair[a].parent)', LastOf(PathOf(a)'))
    <3>1. affair[a].parent \in Rows /\ PathOf(a) = Append(PathOf(affair[a].parent), LastOf(PathOf(a)))
      BY DEF Follows
    <3>2. PathOf(affair[a].parent)' = PathOf(affair[a].parent)
      <4>1. PICK p \in Rows : p = affair[a].parent
        BY <3>1
      <4>2. PathOf(p)' = PathOf(p) /\ affair'[a].parent = p
        BY <4>1
      <4> QED BY <4>1, <4>2
    <3> QED BY <3>1, <3>2, PathOf(a)' = PathOf(a), Zenon
  <2>3. \A j, k \in Owed' : j.id = k.id => j = k
    BY DEF Follows
  <2>4. \A k \in Owed' : k.level = Len(k.path)
    BY DEF Follows
  <2> QED BY <2>1, <2>2, <2>3, <2>4 DEF Follows
<1>2. ASSUME Numbered PROVE Numbered'
  <2>1. \A a \in Rows : Children(a)' = Children(a)
    BY DEF Children
  <2>2. ASSUME NEW a \in Rows, NEW b \in Children(a), NEW c \in Children(a)
        PROVE  /\ LastOf(PathOf(b)') <= Cardinality(Children(a))
               /\ LastOf(PathOf(b)') = LastOf(PathOf(c)') => b = c
    <3>1. b \in Rows /\ c \in Rows
      BY DEF Children
    <3>2. PathOf(b)' = PathOf(b) /\ PathOf(c)' = PathOf(c)
      BY <3>1
    <3> QED BY <1>2, <3>2 DEF Numbered
  <2> QED BY <2>1, <2>2 DEF Numbered
<1> QED BY <1>1, <1>2

LEMMA OwedSame ==
  ASSUME wrote' = wrote, \A s \in wrote : todo'[s] = todo[s]
  PROVE  Owed' = Owed /\ \A a : Owes(a)' = Owes(a)
<1>1. Owed' = Owed
  BY DEF Owed
<1> QED BY <1>1 DEF Owes

-----------------------------------------------------------------------------
(* The beginning of a call.                                                *)

(* Nothing that a call knows changes while the table stays.                *)
LEMMA TreeStays ==
  ASSUME affair' = affair
  PROVE  /\ Rows' = Rows /\ \A a : Children(a)' = Children(a) /\ Subtree(a)' = Subtree(a)
         /\ \A place, a, w, paths : Knows(place, a, w, paths)' = Knows(place, a, w, paths)
<1>1. Rows' = Rows
  BY DEF Rows
<1>2. \A a : Children(a)' = Children(a)
  BY <1>1 DEF Children
<1>3. \A S : Closed(S)' = Closed(S)
  BY <1>2 DEF Closed
<1>4. \A a : Subtree(a)' = Subtree(a)
  BY <1>1, <1>3 DEF Subtree
<1>5. \A p : Below(p)' = Below(p)
  BY <1>2 DEF Below, NewIndex
<1>6. ASSUME NEW place, NEW a, NEW w, NEW paths
      PROVE  Knows(place, a, w, paths)' = Knows(place, a, w, paths)
  BY <1>1, <1>4, <1>5 DEF Knows
<1> QED BY <1>1, <1>2, <1>4, <1>6

LEMMA PictureStays ==
  ASSUME affair' = affair, Owed' = Owed
  PROVE  Follows' = Follows /\ Numbered' = Numbered
<1>1. Rows' = Rows /\ \A a : Children(a)' = Children(a)
  BY TreeStays
<1>2. \A a : Owes(a)' = Owes(a)
  BY DEF Owes
<1>3. ASSUME NEW a PROVE PathOf(a)' = PathOf(a)
  <2>1. Owes(a)' = Owes(a) /\ affair'[a] = affair[a]
    BY <1>2
  <2>2. CASE Owes(a) = {}
    BY <2>1, <2>2 DEF PathOf
  <2>3. CASE Owes(a) # {}
    <3>1. PathOf(a) = (CHOOSE k \in Owes(a) : TRUE).path
      BY <2>3 DEF PathOf
    <3>2. PathOf(a)' = (CHOOSE k \in Owes(a)' : TRUE).path
      BY <2>1, <2>3 DEF PathOf
    <3>3. (CHOOSE k \in Owes(a)' : TRUE) = (CHOOSE k \in Owes(a) : TRUE)
      BY <2>1
    <3> QED BY <3>1, <3>2, <3>3
  <2> QED BY <2>2, <2>3
<1>4. Follows' = Follows
  BY <1>1, <1>2, <1>3 DEF Follows
<1>5. Numbered' = Numbered
  BY <1>1, <1>3 DEF Numbered
<1> QED BY <1>4, <1>5

LEMMA BeginKeeps ==
  ASSUME IInv, NEW r \in Request, at[r] = "idle", NEW place \in Begins, NEW a \in Rows,
         NEW w \in Row \cup {NoRow}, NEW paths \in SUBSET NewPaths, NEW task \in 0..MaxAffair,
         Call(r, place, a, w, paths, task), NEW caught, Reads(r, caught, a), UNCHANGED tables,
         place # "disable" => w # NoRow,
         \A k \in paths : k.id \in Rows /\ (place = "move" => k.path \in Path),
         Tree /\ wrote = {} /\ caught \subseteq Subtree(a) => Knows(place, a, w, paths)
  PROVE  IInv'
<1>0. /\ Types /\ Movers
      /\ Sound => /\ OneWriter /\ Follows
                  /\ \A s \in Request : at[s] # "idle" /\ s \notin stale =>
                       Knows(at[s], subject[s], row[s], todo[s])
                  /\ causes = {} => Numbered
  BY DEF IInv, Movers
<1>1. affair' = affair /\ tasks' = tasks /\ stale' = stale /\ wrote' = wrote
  BY DEF Reads, tables
<1>2. /\ at'[r] = place /\ subject'[r] = a /\ row'[r] = w /\ todo'[r] = paths
      /\ \A s \in Request \ {r} : /\ at'[s] = at[s] /\ subject'[s] = subject[s]
                                  /\ row'[s] = row[s] /\ todo'[s] = todo[s]
  BY <1>0, CallChanges
<1>3. causes \subseteq causes' /\ causes' \in SUBSET Cause
  BY <1>0 DEF Reads, Types, TypeOK, Cause
<1>4. Rows' = Rows
  BY <1>1, TreeStays
<1>5. Types'
  <2>1. a \in 0..MaxAffair
    BY <1>0, RowsFacts DEF Affair
  <2>2. /\ at' \in [Request -> {"idle", "create", "move", "moveKids", "disable", "enable"}]
        /\ subject' \in [Request -> 0..MaxAffair] /\ row' \in [Request -> Row \cup {NoRow}]
        /\ closing' \in [Request -> 0..MaxAffair] /\ todo' \in [Request -> SUBSET NewPaths]
    BY <1>0, <2>1, CallTyped
  <2>3. TypeOK'
    BY <1>0, <1>1, <1>3, <2>2 DEF Types, TypeOK
  <2>4. \E n \in 1..MaxAffair : Rows' = 1..n
    BY <1>0, <1>4 DEF Types
  <2>5. ASSUME NEW s \in Request
        PROVE  /\ at'[s] \in {"create", "move", "moveKids", "enable"} => row'[s] # NoRow
               /\ at'[s] \in {"create", "move", "moveKids", "disable"} => subject'[s] \in Rows
               /\ \A k \in todo'[s] : k.id \in Rows
               /\ at'[s] \in {"move", "moveKids"} => \A k \in todo'[s] : k.path \in Path
    <3>1. CASE s = r
      BY <1>2, <3>1 DEF Begins
    <3>2. CASE s # r
      BY <1>0, <1>2, <3>2 DEF Types
    <3> QED BY <3>1, <3>2
  <2> QED BY <1>4, <2>2, <2>3, <2>4, <2>5 DEF Types
<1>6. Movers'
  BY <1>0, <1>1, <1>2 DEF Movers, Begins
<1>7. ASSUME Sound'
      PROVE  /\ OneWriter' /\ Follows'
             /\ \A s \in Request : at'[s] # "idle" /\ s \notin stale' =>
                  Knows(at[s], subject[s], row[s], todo[s])'
             /\ causes' = {} => Numbered'
  <2>1. Sound
    BY <1>3, <1>7 DEF Sound, Unless
  <2>2. wrote \ {r} = {} /\ caught \subseteq Subtree(a)
    BY <1>7 DEF Reads, Sound, Unless
  <2>3. wrote = {}
    BY <1>0, <2>2 DEF Movers
  <2>4. Knows(place, a, w, paths)
    BY <1>0, <2>1, <2>2, <2>3 DEF Tree
  <2>5. OneWriter'
    BY <1>1, <2>3 DEF OneWriter
  <2>6. Owed' = Owed
    BY <1>1, <2>3 DEF Owed
  <2>7. Follows' /\ (causes' = {} => Numbered')
    BY <1>0, <1>1, <1>3, <2>1, <2>6, PictureStays
  <2>8. ASSUME NEW s \in Request, at'[s] # "idle", s \notin stale'
        PROVE  Knows(at[s], subject[s], row[s], todo[s])'
    <3>1. PICK p, b, x, t : p = at'[s] /\ b = subject'[s] /\ x = row'[s] /\ t = todo'[s]
      OBVIOUS
    <3>2. Knows(p, b, x, t)
      <4>1. CASE s = r
        BY <1>2, <2>4, <3>1, <4>1
      <4>2. CASE s # r
        BY <1>0, <1>1, <1>2, <2>1, <2>8, <3>1, <4>2
      <4> QED BY <4>1, <4>2
    <3>3. Knows(p, b, x, t)'
      BY <1>1, <3>2, TreeStays
    <3> QED BY <3>1, <3>3
  <2> QED BY <2>5, <2>7, <2>8
<1> QED BY <1>5, <1>6, <1>7 DEF IInv, Movers

LEMMA NewIndexIsIndex ==
  ASSUME Types, NEW a
  PROVE  NewIndex(a) \in Index /\ Cardinality(Children(a)) \in Nat /\ IsFiniteSet(Children(a))
<1>1. IsFiniteSet(Children(a))
  BY RowsFacts, FS_Subset DEF Children
<1>2. Cardinality(Children(a)) \in Nat
  BY <1>1, FS_CardinalityType
<1> QED BY <1>1, <1>2 DEF NewIndex, Index

(* The path of a child to be.                                              *)
LEMMA BelowFacts ==
  ASSUME Types, NEW p \in Rows
  PROVE  /\ Below(p).parent = p /\ Below(p).path = Append(affair[p].path, NewIndex(p))
         /\ Below(p).path \in Path /\ Len(Below(p).path) = Len(affair[p].path) + 1
         /\ LastOf(Below(p).path) = NewIndex(p)
         /\ Below(p).level = affair[p].level + 1 /\ Below(p).level \in Int
<1>1. affair[p].path \in Path /\ affair[p].level \in Int /\ NewIndex(p) \in Index
  BY RowFacts, NewIndexIsIndex
<1>2. Append(affair[p].path, NewIndex(p)) \in Path
      /\ Len(Append(affair[p].path, NewIndex(p))) = Len(affair[p].path) + 1
      /\ LastOf(Append(affair[p].path, NewIndex(p))) = NewIndex(p)
  BY <1>1, OneMore, Zenon
<1>3. Below(p).parent = p /\ Below(p).path = Append(affair[p].path, NewIndex(p))
      /\ Below(p).level = affair[p].level + 1
  BY Zenon DEF Below
<1> QED BY <1>1, <1>2, <1>3

LEMMA CreateKeeps ==
  ASSUME IInv, NEW r \in Request, NEW p \in Affair, CreateAffair(r, p)
  PROVE  IInv'
<1> DEFINE path == Append(affair[p].path, NewIndex(p))
           w == [parent |-> p, path |-> path, level |-> affair[p].level + 1, state |-> Valid]
<1>0. Types
  BY DEF IInv
<1>1. /\ at[r] = "idle" /\ p \in Rows /\ Call(r, "create", p, w, {}, 0)
      /\ Reads(r, {}, p) /\ UNCHANGED tables
  BY DEF CreateAffair
<1>2. /\ Below(p).parent = p /\ Below(p).path = path /\ path \in Path
      /\ Below(p).level = affair[p].level + 1 /\ Below(p).level \in Int
  BY <1>0, <1>1, BelowFacts
<1> HIDE DEF path
<1>3. w \in Row
  BY <1>0, <1>1, <1>2, RowFacts DEF Row, Affair
<1>4. w.parent = p /\ w.path = path /\ w.level = affair[p].level + 1
  OBVIOUS
<1> HIDE DEF w
<1>5. Knows("create", p, w, {})
  BY <1>1, <1>2, <1>4 DEF Knows, Agrees
<1>6. "create" \in Begins /\ w # NoRow /\ {} \in SUBSET NewPaths /\ 0 \in 0..MaxAffair
  BY <1>3, ConstantsAssumption DEF Begins
<1> QED BY <1>1, <1>3, <1>5, <1>6, BeginKeeps

LEMMA EnableKeeps ==
  ASSUME IInv, NEW r \in Request, NEW a \in Affair, EnableAffair(r, a)
  PROVE  IInv'
<1>0. Types
  BY DEF IInv
<1>1. /\ at[r] = "idle" /\ a \in Rows /\ Call(r, "enable", a, affair[a], {}, 0)
      /\ Reads(r, {}, a) /\ UNCHANGED tables
  BY DEF EnableAffair
<1>2. affair[a] \in Row /\ affair[a] # NoRow
  BY <1>0, <1>1, RowFacts DEF Rows
<1>3. Knows("enable", a, affair[a], {})
  BY DEF Knows
<1>4. "enable" \in Begins /\ {} \in SUBSET NewPaths /\ 0 \in 0..MaxAffair
  BY ConstantsAssumption DEF Begins
<1> QED BY <1>1, <1>2, <1>3, <1>4, BeginKeeps

(* Without half a move LIKE finds all that is below an affair.             *)
LEMMA LikeFindsBelow ==
  ASSUME Tree, wrote = {}, NEW a \in Rows
  PROVE  Subtree(a) \subseteq Like(affair[a].path)
<1>1. SUFFICES ASSUME NEW b \in Subtree(a) PROVE b \in Like(affair[a].path)
  OBVIOUS
<1>2. b \in Rows
  BY SubtreeHas
<1>3. Extends(affair[b].path, affair[a].path)
  BY <1>1, BelowExtends, NothingOwed
<1>4. affair[a].path \in Path /\ affair[b].path \in Path
  BY <1>2, RowFacts DEF Tree
<1> QED BY <1>2, <1>3, <1>4, ExtendedIsLike DEF Like

LEMMA DisableKeeps ==
  ASSUME IInv, NEW r \in Request, NEW a \in Affair, DisableAffair(r, a)
  PROVE  IInv'
<1> DEFINE listed == Like(affair[a].path)
           busy   == {k \in listed : tasks[k] > 0}
           paths  == {[id |-> k, path |-> <<>>, level |-> 0] : k \in listed}
<1>0. Types
  BY DEF IInv
<1>1. /\ at[r] = "idle" /\ a \in Rows
      /\ \E task \in IF busy = {} THEN {0} ELSE busy : Call(r, "disable", a, NoRow, paths, task)
      /\ Reads(r, listed, a) /\ UNCHANGED tables
  BY DEF DisableAffair
<1>2. PICK task \in IF busy = {} THEN {0} ELSE busy : Call(r, "disable", a, NoRow, paths, task)
  BY <1>1
<1>3. listed \subseteq Rows
  BY DEF Like
<1>4. task \in 0..MaxAffair
  <2>1. task = 0 \/ task \in Rows
    BY <1>2, <1>3
  <2> QED BY <1>0, <2>1, RowsFacts, ConstantsAssumption DEF Affair
<1>5. paths \in SUBSET NewPaths /\ \A k \in paths : k.id \in Rows
  <2>1. <<>> \in Seq(Nat \ {0}) /\ Rows \subseteq Affair
    BY <1>0, RowsFacts
  <2>2. ASSUME NEW k \in listed
        PROVE  [id |-> k, path |-> <<>>, level |-> 0] \in NewPaths
    BY <1>3, <2>1 DEF NewPaths
  <2>3. ASSUME NEW x \in paths PROVE x \in NewPaths /\ x.id \in Rows
    <3>1. PICK k \in listed : x = [id |-> k, path |-> <<>>, level |-> 0]
      OBVIOUS
    <3> HIDE DEF listed
    <3> QED BY <1>3, <2>2, <3>1
  <2> QED BY <2>3
<1>6. {k.id : k \in paths} = listed
  <2> HIDE DEF listed
  <2>1. ASSUME NEW k \in listed PROVE k \in {x.id : x \in paths}
    <3>1. [id |-> k, path |-> <<>>, level |-> 0] \in paths
      OBVIOUS
    <3>2. [id |-> k, path |-> <<>>, level |-> 0].id = k
      OBVIOUS
    <3> HIDE DEF paths
    <3> QED BY <3>1, <3>2
  <2>2. ASSUME NEW x \in paths PROVE x.id \in listed
    <3>1. PICK k \in listed : x = [id |-> k, path |-> <<>>, level |-> 0]
      OBVIOUS
    <3> QED BY <3>1
  <2> HIDE DEF paths
  <2> QED BY <2>1, <2>2
<1> HIDE DEF paths, listed, busy
<1>7. Tree /\ wrote = {} /\ listed \subseteq Subtree(a) => Knows("disable", a, NoRow, paths)
  <2>1. ASSUME Tree, wrote = {}, listed \subseteq Subtree(a) PROVE Knows("disable", a, NoRow, paths)
    <3>1. listed = Subtree(a)
      BY <1>1, <2>1, LikeFindsBelow DEF listed
    <3> QED BY <1>6, <3>1 DEF Knows
  <2> QED BY <2>1
<1>8. "disable" \in Begins /\ NoRow \in Row \cup {NoRow}
  BY DEF Begins
<1> QED BY <1>1, <1>2, <1>4, <1>5, <1>7, <1>8, BeginKeeps

LEMMA ShiftKeeps ==
  ASSUME IInv, NEW r \in Request, NEW a \in Affair, NEW b \in Affair, ShiftAffair(r, a, b)
  PROVE  IInv'
<1> DEFINE path  == Append(affair[b].path, NewIndex(b))
           kids  == Like(affair[a].path)
           w     == [affair[a] EXCEPT !.parent = b, !.level = affair[b].level + 1, !.path = path]
           new(k) == [id |-> k, path |-> MovedPath(affair[a].path, path, affair[k].path),
                      level |-> affair[k].level + affair[b].level - affair[a].level + 1]
           paths == {new(k) : k \in kids}
<1>0. Types
  BY DEF IInv
<1>1. /\ at[r] = "idle" /\ a \in Rows /\ b \in Rows /\ MayMove(a, b)
      /\ Call(r, "move", a, w, paths, 0) /\ Reads(r, kids, a) /\ UNCHANGED tables
  BY DEF ShiftAffair
<1>2. path \in Path
  <2>1. Below(b).path = path /\ Below(b).path \in Path
    BY <1>0, <1>1, BelowFacts
  <2> QED BY <2>1
<1>3. /\ affair[a] \in Row /\ affair[a].path \in Path /\ affair[a].level \in Int
      /\ affair[b].level \in Int /\ affair[b].path \in Path
  BY <1>0, <1>1, RowFacts
<1> HIDE DEF path
<1>4. /\ w \in Row /\ w.parent = b /\ w.path = path /\ w.level = affair[b].level + 1
  <2>1. b \in 0..MaxAffair
    BY <1>0, <1>1, RowsFacts, ConstantsAssumption DEF Affair
  <2> DEFINE u == [affair[a] EXCEPT !.parent = b]
             l == affair[b].level + 1
             v == [u EXCEPT !.level = l]
  <2>2. l \in Int
    BY <1>3
  <2>3. u \in Row /\ u.parent = b
    BY <1>3, <2>1 DEF Row
  <2>4. w = [v EXCEPT !.path = path]
    BY Zenon
  <2> HIDE DEF u, l, w
  <2>5. v \in Row /\ v.parent = b /\ v.level = l
    BY <2>2, <2>3 DEF Row
  <2> HIDE DEF v
  <2>6. w \in Row /\ w.parent = b /\ w.path = path /\ w.level = l
    BY <1>2, <2>4, <2>5 DEF Row
  <2> QED BY <2>6 DEF l
<1> HIDE DEF w
<1>5. ASSUME NEW k \in kids
      PROVE  new(k) \in NewPaths /\ new(k).id \in Rows /\ new(k).path \in Path
  <2>1. k \in Rows /\ TextPrefix(affair[a].path, affair[k].path)
    BY <1>5 DEF Like
  <2>2. k \in Affair /\ affair[k].path \in Path /\ affair[k].level \in Int
    BY <1>0, <2>1, RowFacts
  <2> DEFINE m == MovedPath(affair[a].path, path, affair[k].path)
  <2>3. m \in Path
    BY <1>2, <1>3, <2>1, <2>2, MovedIsPath
  <2> HIDE DEF m
  <2>4. m \in Seq(Nat \ {0})
    BY <2>3 DEF Path
  <2>5. [id |-> k, path |-> m, level |-> affair[k].level + affair[b].level - affair[a].level + 1]
          \in NewPaths
    BY <1>3, <2>2, <2>4 DEF NewPaths
  <2> QED BY <2>1, <2>3, <2>5 DEF m
<1>6. paths \in SUBSET NewPaths /\ \A x \in paths : x.id \in Rows /\ x.path \in Path
  <2> HIDE DEF new, kids
  <2> QED BY <1>5
<1>7. ASSUME Tree, wrote = {}, kids \subseteq Subtree(a)
      PROVE  Knows("move", a, w, paths)
  <2>1. kids = Subtree(a)
    BY <1>1, <1>7, LikeFindsBelow
  <2>2. b \notin kids
    BY <1>1 DEF Like, MayMove
  <2>3. Below(b).parent = b /\ Below(b).path = path /\ Below(b).level = affair[b].level + 1
    BY <1>0, <1>1, BelowFacts DEF path
  <2>4. Agrees(w, Below(b))
    BY <1>4, <2>3 DEF Agrees
  <2>5. paths = {[id |-> k, path |-> MovedPath(affair[a].path, w.path, affair[k].path),
                  level |-> affair[k].level + affair[w.parent].level - affair[a].level + 1] :
                 k \in Subtree(a)}
    BY <1>4, <2>1
  <2> HIDE DEF paths, kids
  <2> QED BY <1>1, <1>4, <2>1, <2>2, <2>4, <2>5 DEF Knows
<1> HIDE DEF paths, kids
<1>8. "move" \in Begins /\ w \in Row \cup {NoRow} /\ w # NoRow /\ 0 \in 0..MaxAffair
  BY <1>4, ConstantsAssumption DEF Begins
<1> QED BY <1>1, <1>6, <1>7, <1>8, BeginKeeps

-----------------------------------------------------------------------------
(* Steps that write no affair.                                             *)

LEMMA AddTaskKeeps ==
  ASSUME IInv, NEW r \in Request, NEW a \in Affair, AddTask(r, a)
  PROVE  IInv'
<1>0. /\ Types /\ Movers
      /\ Sound => /\ OneWriter /\ Follows
                  /\ \A s \in Request : at[s] # "idle" /\ s \notin stale =>
                       Knows(at[s], subject[s], row[s], todo[s])
                  /\ causes = {} => Numbered
  BY DEF IInv, Movers
<1>1. /\ tasks[a] < MaxTask /\ tasks' = [tasks EXCEPT ![a] = @ + 1]
      /\ stale' = stale \cup {s \in Request \ {r} : at[s] = "disable"}
      /\ affair' = affair /\ at' = at /\ subject' = subject /\ row' = row /\ todo' = todo
      /\ closing' = closing /\ wrote' = wrote /\ causes' = causes
  BY DEF AddTask, locals
<1>2. Rows' = Rows
  BY <1>1, TreeStays
<1>3. Types'
  <2>1. tasks' \in [Affair -> 0..MaxTask]
    BY <1>0, <1>1, ConstantsAssumption DEF Types, TypeOK
  <2>2. TypeOK'
    BY <1>0, <1>1, <2>1 DEF Types, TypeOK
  <2>3. /\ \E n \in 1..MaxAffair : Rows = 1..n
        /\ todo \in [Request -> SUBSET NewPaths]
        /\ \A s \in Request :
             /\ at[s] \in {"create", "move", "moveKids", "enable"} => row[s] # NoRow
             /\ at[s] \in {"create", "move", "moveKids", "disable"} => subject[s] \in Rows
             /\ \A k \in todo[s] : k.id \in Rows
             /\ at[s] \in {"move", "moveKids"} => \A k \in todo[s] : k.path \in Path
    BY <1>0 DEF Types
  <2> QED BY <1>1, <1>2, <2>2, <2>3 DEF Types
<1>4. Movers'
  BY <1>0, <1>1 DEF Movers
<1>5. ASSUME Sound'
      PROVE  /\ OneWriter' /\ Follows'
             /\ \A s \in Request : at'[s] # "idle" /\ s \notin stale' =>
                  Knows(at[s], subject[s], row[s], todo[s])'
             /\ causes' = {} => Numbered'
  <2>1. Sound
    BY <1>1, <1>5 DEF Sound, Unless
  <2>2. OneWriter'
    <3>1. ASSUME NEW s \in wrote
          PROVE  s \notin stale'
      <4>1. at[s] = "moveKids" /\ s \notin stale
        BY <1>0, <2>1, <3>1 DEF OneWriter
      <4> QED BY <1>1, <4>1
    <3> QED BY <1>0, <1>1, <2>1, <3>1 DEF OneWriter
  <2>3. Owed' = Owed
    BY <1>1 DEF Owed
  <2>4. Follows' /\ (causes' = {} => Numbered')
    BY <1>0, <1>1, <2>1, <2>3, PictureStays
  <2>5. ASSUME NEW s \in Request, at'[s] # "idle", s \notin stale'
        PROVE  Knows(at[s], subject[s], row[s], todo[s])'
    <3>1. Knows(at[s], subject[s], row[s], todo[s])
      BY <1>0, <1>1, <2>1, <2>5
    <3>2. PICK p, c, x, t : p = at[s] /\ c = subject[s] /\ x = row[s] /\ t = todo[s]
      OBVIOUS
    <3>3. Knows(p, c, x, t)'
      BY <1>1, <3>1, <3>2, TreeStays
    <3> QED BY <1>1, <3>2, <3>3
  <2> QED BY <2>2, <2>4, <2>5
<1> QED BY <1>3, <1>4, <1>5 DEF IInv, Movers

LEMMA ThrowsKeeps ==
  ASSUME IInv, NEW r \in Request, CallThrows(r)
  PROVE  IInv'
<1>0. /\ Types /\ Movers
      /\ Sound => /\ OneWriter /\ Follows
                  /\ \A s \in Request : at[s] # "idle" /\ s \notin stale =>
                       Knows(at[s], subject[s], row[s], todo[s])
                  /\ causes = {} => Numbered
  BY DEF IInv, Movers
<1>1. /\ Call(r, "idle", 0, NoRow, {}, 0)
      /\ causes' = (IF r \in wrote THEN causes \cup {"failure"} ELSE causes)
      /\ stale' = stale \ {r} /\ wrote' = wrote \ {r} /\ affair' = affair /\ tasks' = tasks
  BY DEF CallThrows, Return, tables
<1>2. /\ at'[r] = "idle" /\ subject'[r] = 0 /\ row'[r] = NoRow /\ todo'[r] = {}
      /\ \A s \in Request \ {r} : /\ at'[s] = at[s] /\ subject'[s] = subject[s]
                                  /\ row'[s] = row[s] /\ todo'[s] = todo[s]
  BY <1>0, <1>1, CallChanges
<1>3. Rows' = Rows
  BY <1>1, TreeStays
<1>4. Types'
  <2>1. /\ "idle" \in {"idle"} \cup Begins /\ 0 \in 0..MaxAffair /\ NoRow \in Row \cup {NoRow}
        /\ {} \in SUBSET NewPaths
    BY ConstantsAssumption
  <2>2. /\ at' \in [Request -> {"idle", "create", "move", "moveKids", "disable", "enable"}]
        /\ subject' \in [Request -> 0..MaxAffair] /\ row' \in [Request -> Row \cup {NoRow}]
        /\ closing' \in [Request -> 0..MaxAffair] /\ todo' \in [Request -> SUBSET NewPaths]
    BY <1>0, <1>1, <2>1, CallTyped
  <2>3. causes' \in SUBSET Cause
    BY <1>0, <1>1 DEF Types, TypeOK, Cause
  <2>4. TypeOK'
    BY <1>0, <1>1, <2>2, <2>3 DEF Types, TypeOK
  <2>5. \E n \in 1..MaxAffair : Rows' = 1..n
    BY <1>0, <1>3 DEF Types
  <2>6. ASSUME NEW s \in Request
        PROVE  /\ at'[s] \in {"create", "move", "moveKids", "enable"} => row'[s] # NoRow
               /\ at'[s] \in {"create", "move", "moveKids", "disable"} => subject'[s] \in Rows
               /\ \A k \in todo'[s] : k.id \in Rows
               /\ at'[s] \in {"move", "moveKids"} => \A k \in todo'[s] : k.path \in Path
    <3>1. CASE s = r
      BY <1>2, <3>1
    <3>2. CASE s # r
      BY <1>0, <1>2, <3>2 DEF Types
    <3> QED BY <3>1, <3>2
  <2> QED BY <1>3, <2>2, <2>4, <2>5, <2>6 DEF Types
<1>5. Movers'
  BY <1>0, <1>1, <1>2 DEF Movers
<1>6. ASSUME Sound'
      PROVE  /\ OneWriter' /\ Follows'
             /\ \A s \in Request : at'[s] # "idle" /\ s \notin stale' =>
                  Knows(at[s], subject[s], row[s], todo[s])'
             /\ causes' = {} => Numbered'
  <2>1. r \notin wrote /\ causes' = causes /\ Sound
    BY <1>1, <1>6 DEF Sound, Unless
  <2>2. wrote' = wrote
    BY <1>1, <2>1
  <2>3. wrote \subseteq Request
    BY <1>0 DEF Types, TypeOK
  <2>4. OneWriter'
    BY <1>0, <1>1, <1>2, <2>1, <2>2, <2>3 DEF OneWriter
  <2>5. Owed' = Owed
    BY <1>2, <2>1, <2>2, <2>3, OwedSame
  <2>6. Follows' /\ (causes' = {} => Numbered')
    BY <1>0, <1>1, <2>1, <2>5, PictureStays
  <2>7. ASSUME NEW s \in Request, at'[s] # "idle", s \notin stale'
        PROVE  Knows(at[s], subject[s], row[s], todo[s])'
    <3>1. s # r /\ Knows(at[s], subject[s], row[s], todo[s])
      BY <1>0, <1>1, <1>2, <2>1, <2>7
    <3>2. PICK p, c, x, t : p = at[s] /\ c = subject[s] /\ x = row[s] /\ t = todo[s]
      OBVIOUS
    <3>3. Knows(p, c, x, t)'
      BY <1>1, <3>1, <3>2, TreeStays
    <3> QED BY <1>2, <3>1, <3>2, <3>3
  <2> QED BY <2>4, <2>6, <2>7
<1> QED BY <1>4, <1>5, <1>6 DEF IInv, Movers

-----------------------------------------------------------------------------
(* Steps that write affairs.                                               *)

LEMMA ReturnTyped ==
  ASSUME Types, Movers, NEW r \in Request, NEW more \in SUBSET Cause,
         Return(r), Writes(r, more, TRUE),
         affair' \in [Affair -> Row \cup {NoRow}], tasks' \in [Affair -> 0..MaxTask],
         Rows \subseteq Rows', \E n \in 1..MaxAffair : Rows' = 1..n
  PROVE  Types' /\ Movers'
<1>1. /\ at'[r] = "idle" /\ subject'[r] = 0 /\ row'[r] = NoRow /\ todo'[r] = {}
      /\ \A s \in Request \ {r} : /\ at'[s] = at[s] /\ subject'[s] = subject[s]
                                  /\ row'[s] = row[s] /\ todo'[s] = todo[s]
  BY CallChanges DEF Return
<1>2. /\ "idle" \in {"idle"} \cup Begins /\ 0 \in 0..MaxAffair /\ NoRow \in Row \cup {NoRow}
      /\ {} \in SUBSET NewPaths
  BY ConstantsAssumption
<1>3. /\ at' \in [Request -> {"idle", "create", "move", "moveKids", "disable", "enable"}]
      /\ subject' \in [Request -> 0..MaxAffair] /\ row' \in [Request -> Row \cup {NoRow}]
      /\ closing' \in [Request -> 0..MaxAffair] /\ todo' \in [Request -> SUBSET NewPaths]
  BY <1>2, CallTyped DEF Return
<1>4. stale' \in SUBSET Request /\ wrote' \in SUBSET Request /\ causes' \in SUBSET Cause
  BY WritesTyped
<1>5. TypeOK'
  BY <1>3, <1>4 DEF TypeOK
<1>6. ASSUME NEW s \in Request
      PROVE  /\ at'[s] \in {"create", "move", "moveKids", "enable"} => row'[s] # NoRow
             /\ at'[s] \in {"create", "move", "moveKids", "disable"} => subject'[s] \in Rows'
             /\ \A k \in todo'[s] : k.id \in Rows'
             /\ at'[s] \in {"move", "moveKids"} => \A k \in todo'[s] : k.path \in Path
  <2>1. CASE s = r
    BY <1>1, <2>1
  <2>2. CASE s # r
    BY <1>1, <2>2 DEF Types
  <2> QED BY <2>1, <2>2
<1>7. Types'
  BY <1>3, <1>5, <1>6 DEF Types
<1>8. wrote' = wrote \ {r}
  BY DEF Writes
<1>9. Movers'
  BY <1>1, <1>8 DEF Movers
<1> QED BY <1>7, <1>9

LEMMA GoOnTyped ==
  ASSUME Types, Movers, NEW r \in Request, NEW more \in SUBSET Cause, Writes(r, more, FALSE),
         at[r] \in {"move", "moveKids"}, at' = [at EXCEPT ![r] = "moveKids"],
         UNCHANGED <<tasks, subject, row, closing>>,
         NEW left \in SUBSET todo[r], todo' = [todo EXCEPT ![r] = left],
         affair' \in [Affair -> Row \cup {NoRow}], Rows' = Rows
  PROVE  Types' /\ Movers'
<1>1. stale' \in SUBSET Request /\ wrote' \in SUBSET Request /\ causes' \in SUBSET Cause
  BY WritesTyped
<1>2. at \in [Request -> {"idle", "create", "move", "moveKids", "disable", "enable"}]
      /\ todo \in [Request -> SUBSET NewPaths]
  BY DEF Types, TypeOK
<1>3. at' \in [Request -> {"idle", "create", "move", "moveKids", "disable", "enable"}]
      /\ at'[r] = "moveKids" /\ \A s \in Request \ {r} : at'[s] = at[s]
  BY <1>2
<1>4. /\ todo' \in [Request -> SUBSET NewPaths] /\ todo'[r] = left
      /\ \A s \in Request \ {r} : todo'[s] = todo[s]
  BY <1>2
<1>5. TypeOK'
  BY <1>1, <1>3 DEF Types, TypeOK
<1>6. ASSUME NEW s \in Request
      PROVE  /\ at'[s] \in {"create", "move", "moveKids", "enable"} => row'[s] # NoRow
             /\ at'[s] \in {"create", "move", "moveKids", "disable"} => subject'[s] \in Rows
             /\ \A k \in todo'[s] : k.id \in Rows
             /\ at'[s] \in {"move", "moveKids"} => \A k \in todo'[s] : k.path \in Path
  <2>1. CASE s = r
    BY <1>3, <1>4, <2>1 DEF Types
  <2>2. CASE s # r
    BY <1>3, <1>4, <2>2 DEF Types
  <2> QED BY <2>1, <2>2
<1>7. Types'
  BY <1>4, <1>5, <1>6 DEF Types
<1>8. wrote' = wrote \cup {r}
  BY DEF Writes
<1>9. Movers'
  BY <1>3, <1>8 DEF Movers
<1> QED BY <1>7, <1>9

(* A write keeps the invariant if it keeps the picture of the tree.        *)
LEMMA WriteKeeps ==
  ASSUME IInv, Types', Movers', NEW r \in Request, at[r] # "idle",
         NEW more, NEW last \in BOOLEAN, Writes(r, more, last),
         \A s \in Request \ {r} : at'[s] = at[s],
         at'[r] = (IF last THEN "idle" ELSE "moveKids"),
         Sound' => Follows' /\ (causes' = {} => Numbered')
  PROVE  IInv'
<1>1. ASSUME Sound'
      PROVE  /\ OneWriter'
             /\ \A s \in Request : at'[s] # "idle" /\ s \notin stale' =>
                  Knows(at[s], subject[s], row[s], todo[s])'
  <2>1. /\ wrote' = (IF last THEN {} ELSE {r}) /\ r \notin stale'
        /\ \A s \in Request \ {r} : at[s] = "idle" \/ s \in stale'
    BY <1>1, WriterIsFresh
  <2> QED BY <2>1, AfterWrite
<1> QED BY <1>1 DEF IInv, Movers

LEMMA RowsSame ==
  ASSUME Types, affair' \in [Affair -> Row \cup {NoRow}],
         \A a \in Rows : affair'[a] \in Row, \A a \in Affair \ Rows : affair'[a] = affair[a]
  PROVE  Rows' = Rows
<1>1. \A a \in Rows : a \in Affair
  BY DEF Rows
<1>2. \A a \in Affair \ Rows : affair'[a] = NoRow
  BY DEF Rows
<1>3. \A a \in Rows : affair'[a] # NoRow
  BY ConstantsAssumption
<1> QED BY <1>1, <1>2, <1>3 DEF Rows

(* The two transactions that change states only.                           *)
LEMMA StatesKeep ==
  ASSUME IInv, NEW r \in Request, at[r] \in {"disable", "enable"},
         NEW more \in SUBSET Cause, Return(r), Writes(r, more, TRUE),
         tasks' \in [Affair -> 0..MaxTask],
         NEW ids, NEW state \in {Valid, Invalid}, ids \subseteq Rows,
         affair' = [a \in Affair |->
                      IF a \in ids THEN [affair[a] EXCEPT !.state = state] ELSE affair[a]]
  PROVE  IInv'
<1>0. Types /\ Movers
  BY DEF IInv, Movers
<1>1. ASSUME NEW a \in Rows
      PROVE  /\ affair'[a] \in Row /\ affair'[a].parent = affair[a].parent
             /\ affair'[a].path = affair[a].path /\ affair'[a].level = affair[a].level
  <2>1. affair[a] \in Row /\ a \in Affair
    BY <1>0, RowFacts
  <2>2. affair'[a] = IF a \in ids THEN [affair[a] EXCEPT !.state = state] ELSE affair[a]
    BY <2>1
  <2> QED BY <2>1, <2>2 DEF Row
<1>2. \A a \in Affair \ Rows : affair'[a] = affair[a]
  OBVIOUS
<1>3. affair' \in [Affair -> Row \cup {NoRow}]
  <2>1. \A a \in Affair : affair'[a] \in Row \cup {NoRow}
    BY <1>1, <1>2 DEF Rows
  <2> QED BY <2>1
<1>4. Rows' = Rows
  BY <1>0, <1>1, <1>2, <1>3, RowsSame
<1>5. Types' /\ Movers'
  <2>1. \E n \in 1..MaxAffair : Rows' = 1..n
    BY <1>0, <1>4 DEF Types
  <2> QED BY <1>0, <1>3, <1>4, <2>1, ReturnTyped
<1>6. at'[r] = "idle" /\ \A s \in Request \ {r} : at'[s] = at[s]
  BY <1>0, CallChanges DEF Return
<1>7. ASSUME Sound' PROVE Follows' /\ (causes' = {} => Numbered')
  <2>1. Follows /\ (causes = {} => Numbered) /\ wrote \subseteq {r} /\ wrote' = {}
    BY <1>7, WriterIsFresh
  <2>2. wrote = {}
    BY <1>0, <2>1 DEF Movers
  <2>3. Owed = {} /\ \A a : Owes(a) = {} /\ PathOf(a) = affair[a].path
    BY <2>2, NothingOwed
  <2>4. Owed' = {} /\ \A a : Owes(a)' = {} /\ PathOf(a)' = affair'[a].path
    <3>1. Owed' = {}
      BY <2>1 DEF Owed
    <3> QED BY <3>1 DEF Owes, PathOf
  <2>5. ASSUME NEW a \in Rows
        PROVE  /\ affair'[a].parent = affair[a].parent /\ PathOf(a)' = PathOf(a)
               /\ Owes(a)' = {} => affair'[a].level = Len(affair'[a].path)
    BY <1>1, <2>1, <2>3, <2>4 DEF Follows
  <2>6. Follows' /\ (Numbered => Numbered')
    BY <1>0, <1>4, <2>1, <2>3, <2>4, <2>5, RowsFacts, PictureKept
  <2>7. causes \subseteq causes'
    BY <1>0, WritesTyped
  <2> QED BY <2>1, <2>6, <2>7
<1> QED BY <1>5, <1>6, <1>7, WriteKeeps

LEMMA DisableCommitKeeps ==
  ASSUME IInv, NEW r \in Request, DisableCommit(r)
  PROVE  IInv'
<1> DEFINE ids == {k.id : k \in todo[r]} \cup {subject[r]}
<1>0. Types
  BY DEF IInv
<1>1. /\ at[r] = "disable" /\ Return(r) /\ Writes(r, {}, TRUE)
      /\ affair' = [a \in Affair |->
                      IF a \in ids THEN [affair[a] EXCEPT !.state = Invalid] ELSE affair[a]]
      /\ tasks' = [a \in Affair |->
                     IF a = closing[r] /\ tasks[a] > 0 THEN tasks[a] - 1 ELSE tasks[a]]
  BY DEF DisableCommit
<1>2. tasks' \in [Affair -> 0..MaxTask]
  BY <1>0, <1>1, ConstantsAssumption DEF Types, TypeOK
<1>3. ids \subseteq Rows
  BY <1>0, <1>1 DEF Types
<1> HIDE DEF ids
<1>4. {} \in SUBSET Cause /\ Invalid \in {Valid, Invalid}
  OBVIOUS
<1> QED BY <1>1, <1>2, <1>3, <1>4, StatesKeep

LEMMA EnableCommitKeeps ==
  ASSUME IInv, NEW r \in Request, EnableCommit(r)
  PROVE  IInv'
<1> DEFINE ids  == Like(row[r].path)
           more == IF ids \subseteq Subtree(subject[r]) THEN {} ELSE {"outsider"}
<1>0. Types
  BY DEF IInv
<1>1. /\ at[r] = "enable" /\ Return(r) /\ Writes(r, more, TRUE) /\ tasks' = tasks
      /\ affair' = [a \in Affair |->
                      IF a \in ids THEN [affair[a] EXCEPT !.state = Valid] ELSE affair[a]]
  BY DEF EnableCommit
<1>2. tasks' \in [Affair -> 0..MaxTask]
  BY <1>0, <1>1 DEF Types, TypeOK
<1>3. ids \subseteq Rows
  BY DEF Like
<1>4. more \in SUBSET Cause /\ Valid \in {Valid, Invalid}
  BY DEF Cause
<1> HIDE DEF ids, more
<1> QED BY <1>1, <1>2, <1>3, <1>4, StatesKeep

-----------------------------------------------------------------------------
(* A new affair.                                                           *)

LEMMA NothingOwedNext ==
  ASSUME wrote' = {}
  PROVE  Owed' = {} /\ \A a : Owes(a)' = {} /\ PathOf(a)' = affair'[a].path
<1>1. Owed' = {}
  BY DEF Owed
<1> QED BY <1>1 DEF Owes, PathOf

LEMMA SaveKeeps ==
  ASSUME IInv, NEW r \in Request, SaveAffair(r)
  PROVE  IInv'
<1>0. Types /\ Movers
  BY DEF IInv, Movers
<1> DEFINE w == row[r]
<1>1. /\ at[r] = "create" /\ Rows # Affair /\ affair' = [affair EXCEPT ![Cardinality(Rows) + 1] = w]
      /\ Return(r) /\ Writes(r, {}, TRUE) /\ tasks' = tasks
  BY DEF SaveAffair
<1>2. PICK n \in 1..MaxAffair : Rows = 1..n
  BY <1>0 DEF Types
<1>3. PICK new \in Affair :
        /\ new = Cardinality(Rows) + 1 /\ new \notin Rows /\ Rows \cup {new} = 1..new
  <2>1. Cardinality(Rows) = n
    BY <1>2, FS_Interval, ConstantsAssumption
  <2>2. n # MaxAffair
    BY <1>1, <1>2 DEF Affair
  <2>3. MaxAffair \in Nat \ {0}
    BY ConstantsAssumption
  <2> QED BY <1>2, <2>1, <2>2, <2>3 DEF Affair
<1>4. w \in Row
  BY <1>0, <1>1 DEF Types, TypeOK
<1>5. /\ affair'[new] = w /\ \A a \in Affair \ {new} : affair'[a] = affair[a]
      /\ affair' \in [Affair -> Row \cup {NoRow}]
  <2>1. affair' = [affair EXCEPT ![new] = w]
    BY <1>1, <1>3
  <2> QED BY <1>0, <1>4, <2>1 DEF Types, TypeOK
<1>6. Rows' = Rows \cup {new}
  <2>1. w # NoRow
    BY <1>4, ConstantsAssumption
  <2> QED BY <1>3, <1>5, <2>1 DEF Rows
<1>7. Types' /\ Movers'
  <2>1. \E m \in 1..MaxAffair : Rows' = 1..m
    BY <1>3, <1>6 DEF Affair
  <2>2. {} \in SUBSET Cause /\ tasks' \in [Affair -> 0..MaxTask]
    BY <1>0, <1>1 DEF Types, TypeOK
  <2> QED BY <1>0, <1>1, <1>5, <1>6, <2>1, <2>2, ReturnTyped
<1>8. at'[r] = "idle" /\ \A s \in Request \ {r} : at'[s] = at[s]
  BY <1>0, <1>1, CallChanges DEF Return
<1>9. ASSUME Sound' PROVE Follows' /\ (causes' = {} => Numbered')
  <2>1. /\ Follows /\ (causes = {} => Numbered) /\ wrote \subseteq {r} /\ wrote' = {}
        /\ Knows("create", subject[r], row[r], todo[r])
    BY <1>1, <1>9, WriterIsFresh
  <2>2. wrote = {}
    BY <1>0, <1>1, <2>1 DEF Movers
  <2>3. Owed = {} /\ \A a : Owes(a) = {} /\ PathOf(a) = affair[a].path
    BY <2>2, NothingOwed
  <2>4. Owed' = {} /\ \A a : Owes(a)' = {} /\ PathOf(a)' = affair'[a].path
    BY <2>1, NothingOwedNext
  <2>5. PICK p \in Rows : p = w.parent
    BY <2>1 DEF Knows
  <2>6. Agrees(w, Below(p))
    BY <2>1, <2>5 DEF Knows
  <2>7. /\ w.parent = p /\ w.path = Append(affair[p].path, NewIndex(p))
        /\ LastOf(w.path) = NewIndex(p) /\ w.level = affair[p].level + 1
        /\ Len(w.path) = Len(affair[p].path) + 1
    BY <1>0, <2>6, BelowFacts DEF Agrees
  <2>8. \A a \in Rows : a \in Affair \ {new} /\ affair'[a] = affair[a]
    BY <1>3, <1>5 DEF Rows
  <2>9. 1 \in Rows
    BY <1>0, RowsFacts
  <2>10. ASSUME NEW a \in Rows' \ {1}
         PROVE  /\ affair'[a].parent \in Rows
                /\ PathOf(a)' = Append(PathOf(affair[a].parent)', LastOf(PathOf(a)'))
    <3>1. CASE a = new
      <4>1. affair'[a].parent = p /\ PathOf(a)' = w.path
        BY <1>5, <2>4, <2>7, <3>1
      <4>2. PathOf(p)' = affair[p].path
        BY <2>4, <2>8
      <4>3. PathOf(affair[a].parent)' = affair[p].path
        BY <4>1, <4>2
      <4>4. w.path = Append(affair[p].path, LastOf(w.path))
        BY <2>7
      <4> QED BY <4>1, <4>3, <4>4, Zenon
    <3>2. CASE a # new
      <4>1. a \in Rows \ {1} /\ affair'[a] = affair[a]
        BY <1>6, <2>8, <3>2
      <4>2. /\ affair[a].parent \in Rows
            /\ affair[a].path = Append(affair[affair[a].parent].path, LastOf(affair[a].path))
        BY <2>1, <2>3, <4>1 DEF Follows
      <4>3. PICK q \in Rows : q = affair[a].parent
        BY <4>2
      <4>4. PathOf(a)' = affair[a].path /\ PathOf(q)' = affair[q].path /\ affair'[a].parent = q
        BY <2>4, <2>8, <4>1, <4>3
      <4>5. PathOf(affair[a].parent)' = affair[q].path
        BY <4>4
      <4> QED BY <4>2, <4>3, <4>4, <4>5, Zenon
    <3> QED BY <3>1, <3>2
  <2>11. Follows'
    <3>1. affair'[1].parent = 0 /\ PathOf(1)' = <<1>>
      BY <2>1, <2>3, <2>4, <2>8, <2>9 DEF Follows
    <3>2. ASSUME NEW a \in Rows' PROVE affair'[a].level = Len(affair'[a].path)
      <4>1. ASSUME NEW b \in Rows PROVE affair[b].level = Len(affair[b].path)
        BY <2>1, <2>3 DEF Follows
      <4>2. CASE a = new
        BY <1>5, <2>7, <4>1, <4>2
      <4>3. CASE a # new
        BY <1>6, <2>8, <4>1, <4>3
      <4> QED BY <4>2, <4>3
    <3> QED BY <1>6, <2>4, <2>10, <3>1, <3>2 DEF Follows
  <2>12. ASSUME causes' = {} PROVE Numbered'
    <3>1. Numbered
      BY <1>0, <1>1, <2>1, <2>12, {} \in SUBSET Cause, WritesTyped
    <3>2. ASSUME NEW b \in Rows PROVE affair[b].parent # new
      <4>1. affair[b].parent \in Rows \/ affair[b].parent = 0
        BY <2>1, <3>2 DEF Follows
      <4> QED BY <1>0, <1>3, <4>1, ConstantsAssumption DEF Affair
    <3>3. /\ Children(p)' = Children(p) \cup {new} /\ Children(new)' = {}
          /\ \A a \in Rows \ {p} : Children(a)' = Children(a)
      BY <1>3, <1>5, <1>6, <2>5, <2>7, <2>8, <3>2 DEF Children
    <3>4. \A a \in Rows : \A b \in Children(a) : b \in Rows /\ LastOf(PathOf(b)') = LastOf(PathOf(b))
      BY <2>3, <2>4, <2>8 DEF Children
    <3>5. LastOf(PathOf(new)') = NewIndex(p)
      BY <1>5, <2>4, <2>7
    <3>6. /\ new \notin Children(p) /\ Cardinality(Children(p)) \in Nat
          /\ Cardinality(Children(p) \cup {new}) = Cardinality(Children(p)) + 1
          /\ NewIndex(p) = Cardinality(Children(p)) + 1
      <4>1. new \notin Children(p)
        BY <1>3 DEF Children
      <4>2. IsFiniteSet(Children(p)) /\ Cardinality(Children(p)) \in Nat
        BY <1>0, NewIndexIsIndex
      <4> QED BY <4>1, <4>2, FS_AddElement DEF NewIndex
    <3>7. ASSUME NEW b \in Children(p)
          PROVE  LastOf(PathOf(b)') \in Nat /\ LastOf(PathOf(b)') <= Cardinality(Children(p))
      <4>1. b \in Rows /\ PathOf(b) \in Path
        BY <1>0, PathOfIsPath DEF Children
      <4>2. LastOf(PathOf(b)) \in Nat
        BY <4>1, PathFacts DEF Index
      <4> QED BY <3>1, <3>4, <4>2 DEF Numbered
    <3>8. ASSUME NEW a \in Rows', NEW b \in Children(a)', NEW c \in Children(a)'
          PROVE  /\ LastOf(PathOf(b)') <= Cardinality(Children(a)')
                 /\ LastOf(PathOf(b)') = LastOf(PathOf(c)') => b = c
      <4>1. CASE a = p
        <5>1. LastOf(PathOf(b)') <= Cardinality(Children(p)) + 1
          BY <3>3, <3>5, <3>6, <3>7, <4>1
        <5>2. LastOf(PathOf(b)') = LastOf(PathOf(c)') => b = c
          <6>1. ASSUME b \in Children(p), c \in Children(p), LastOf(PathOf(b)') = LastOf(PathOf(c)')
                PROVE  b = c
            BY <3>1, <3>4, <6>1 DEF Numbered
          <6> QED BY <3>3, <3>5, <3>6, <3>7, <4>1, <6>1
        <5> QED BY <3>3, <3>6, <4>1, <5>1, <5>2
      <4>2. CASE a = new
        BY <3>3, <4>2
      <4>3. CASE a # p /\ a # new
        BY <1>6, <3>1, <3>3, <3>4, <4>3 DEF Numbered
      <4> QED BY <4>1, <4>2, <4>3
    <3> QED BY <3>8 DEF Numbered
  <2> QED BY <2>11, <2>12
<1> QED BY <1>1, <1>7, <1>8, <1>9, WriteKeeps

-----------------------------------------------------------------------------
(* A row of a subtree that is moved.                                       *)

LEMMA KidKeeps ==
  ASSUME IInv, NEW r \in Request, NEW k \in todo[r], MoveKid(r, k)
  PROVE  IInv'
<1>0. Types /\ Movers
  BY DEF IInv, Movers
<1> DEFINE last == todo[r] = {k}
           a0   == k.id
<1>1. /\ at[r] = "moveKids" /\ affair' = [affair EXCEPT ![a0].path = k.path, ![a0].level = k.level]
      /\ IF last THEN Return(r) /\ Writes(r, {}, TRUE)
         ELSE /\ todo' = [todo EXCEPT ![r] = @ \ {k}] /\ Writes(r, {}, FALSE)
              /\ UNCHANGED <<at, subject, row, closing>>
      /\ tasks' = tasks
  BY DEF MoveKid
<1>2. a0 \in Rows /\ k.path \in Path /\ k.level \in Int
  BY <1>0, <1>1 DEF Types, NewPaths
<1>3. affair[a0] \in Row /\ a0 \in Affair
  BY <1>0, <1>2, RowFacts
<1> HIDE DEF a0
<1>4. /\ affair'[a0] \in Row /\ affair'[a0].parent = affair[a0].parent
      /\ affair'[a0].path = k.path /\ affair'[a0].level = k.level
      /\ \A a \in Affair \ {a0} : affair'[a] = affair[a]
      /\ affair' \in [Affair -> Row \cup {NoRow}]
  <2>0. affair \in [Affair -> Row \cup {NoRow}]
    BY <1>0 DEF Types, TypeOK
  <2> DEFINE f == [affair EXCEPT ![a0].path = k.path]
  <2>1. affair' = [f EXCEPT ![a0].level = k.level]
    BY <1>1, Zenon
  <2>2. /\ f[a0] \in Row /\ f[a0].parent = affair[a0].parent /\ f[a0].path = k.path
        /\ \A a \in Affair \ {a0} : f[a] = affair[a]
        /\ f \in [Affair -> Row \cup {NoRow}]
    <3> DEFINE x == [affair[a0] EXCEPT !.path = k.path]
    <3>1. x \in Row /\ x.parent = affair[a0].parent /\ x.path = k.path
      BY <1>2, <1>3 DEF Row
    <3>2. f = [affair EXCEPT ![a0] = x]
      OBVIOUS
    <3> HIDE DEF x, f
    <3> QED BY <1>3, <2>0, <3>1, <3>2
  <2> HIDE DEF f
  <2> DEFINE x == [f[a0] EXCEPT !.level = k.level]
  <2>3. x \in Row /\ x.parent = f[a0].parent /\ x.path = f[a0].path /\ x.level = k.level
    BY <1>2, <2>2 DEF Row
  <2>4. affair' = [f EXCEPT ![a0] = x]
    BY <2>1
  <2> HIDE DEF x
  <2> QED BY <1>3, <2>2, <2>3, <2>4
<1>5. Rows' = Rows
  <2>1. \A a \in Rows : affair'[a] \in Row
    BY <1>0, <1>4, RowFacts
  <2>2. \A a \in Affair \ Rows : affair'[a] = affair[a]
    BY <1>2, <1>4
  <2> QED BY <1>0, <1>4, <2>1, <2>2, RowsSame
<1>6. /\ Types' /\ Movers' /\ Writes(r, {}, last) /\ (\A s \in Request \ {r} : at'[s] = at[s])
      /\ at'[r] = (IF last THEN "idle" ELSE "moveKids")
      /\ \A s \in Request \ {r} : todo'[s] = todo[s]
      /\ todo'[r] = todo[r] \ {k}
  <2>0. {} \in SUBSET Cause /\ tasks' \in [Affair -> 0..MaxTask]
        /\ \E n \in 1..MaxAffair : Rows' = 1..n
    BY <1>0, <1>1, <1>5 DEF Types, TypeOK
  <2>1. CASE last
    <3>1. Return(r) /\ Writes(r, {}, TRUE) /\ last = TRUE
      BY <1>1, <2>1
    <3>2. Types' /\ Movers'
      BY <1>0, <1>4, <1>5, <2>0, <3>1, ReturnTyped
    <3>3. at'[r] = "idle" /\ todo'[r] = {}
          /\ \A s \in Request \ {r} : at'[s] = at[s] /\ todo'[s] = todo[s]
      BY <1>0, <3>1, CallChanges DEF Return
    <3>4. todo[r] \ {k} = {}
      BY <2>1
    <3> QED BY <3>1, <3>2, <3>3, <3>4
  <2>2. CASE ~ last
    <3>1. /\ todo' = [todo EXCEPT ![r] = todo[r] \ {k}] /\ Writes(r, {}, FALSE) /\ last = FALSE
          /\ UNCHANGED <<at, subject, row, closing>>
      BY <1>1, <2>2
    <3>2. at' = [at EXCEPT ![r] = "moveKids"]
      BY <1>0, <1>1, <3>1 DEF Types, TypeOK
    <3>3. todo[r] \ {k} \in SUBSET todo[r] /\ UNCHANGED <<tasks, subject, row, closing>>
      BY <1>1, <3>1
    <3>4. Types' /\ Movers'
      BY <1>0, <1>1, <1>4, <1>5, <2>0, <3>1, <3>2, <3>3, GoOnTyped
    <3>5. todo'[r] = todo[r] \ {k} /\ \A s \in Request \ {r} : todo'[s] = todo[s]
      BY <1>0, <3>1 DEF Types
    <3> QED BY <1>1, <3>1, <3>4, <3>5
  <2> QED BY <2>1, <2>2
<1>7. last \in BOOLEAN
  OBVIOUS
<1>8. ASSUME Sound' PROVE Follows' /\ (causes' = {} => Numbered')
  <2>1. /\ Follows /\ (causes = {} => Numbered) /\ wrote \subseteq {r}
        /\ wrote' = (IF last THEN {} ELSE {r})
    BY <1>1, <1>6, <1>7, <1>8, WriterIsFresh
  <2>2. wrote = {r}
    BY <1>0, <1>1, <2>1 DEF Movers
  <2>3. Owed = todo[r]
    BY <2>2 DEF Owed
  <2>4. Owed' = Owed \ {k}
    <3>1. CASE last
      BY <2>1, <2>3, <3>1 DEF Owed
    <3>2. CASE ~ last
      <4>1. Owed' = todo'[r]
        BY <2>1, <3>2 DEF Owed
      <4> QED BY <1>6, <2>3, <4>1
    <3> QED BY <3>1, <3>2
  <2>5. \A i, j \in Owed : i.id = j.id => i = j
    BY <2>1 DEF Follows
  <2>6. k \in Owed /\ PathOf(a0) = k.path /\ Owes(a0) = {k}
    BY <2>3, <2>5, PathOfOwed DEF a0
  <2>7. ASSUME NEW a \in Rows
        PROVE  /\ affair'[a].parent = affair[a].parent /\ PathOf(a)' = PathOf(a)
               /\ Owes(a)' = {} => affair'[a].level = Len(affair'[a].path)
    <3>1. CASE a = a0
      <4>1. Owes(a)' = {}
        BY <2>4, <2>6, <3>1 DEF Owes
      <4>2. PathOf(a)' = affair'[a].path
        BY <4>1 DEF PathOf
      <4>3. k.level = Len(k.path)
        BY <2>1, <2>6 DEF Follows
      <4> QED BY <1>4, <2>6, <3>1, <4>2, <4>3
    <3>2. CASE a # a0
      <4>1. Owes(a)' = Owes(a) /\ affair'[a] = affair[a]
        BY <1>4, <2>4, <3>2 DEF Owes, a0, Rows
      <4>2. PathOf(a)' = PathOf(a)
        <5>1. CASE Owes(a) = {}
          BY <4>1, <5>1 DEF PathOf
        <5>2. CASE Owes(a) # {}
          <6>1. PathOf(a) = (CHOOSE i \in Owes(a) : TRUE).path
            BY <5>2 DEF PathOf
          <6>2. PathOf(a)' = (CHOOSE i \in Owes(a)' : TRUE).path
            BY <4>1, <5>2 DEF PathOf
          <6>3. (CHOOSE i \in Owes(a)' : TRUE) = (CHOOSE i \in Owes(a) : TRUE)
            BY <4>1
          <6> QED BY <6>1, <6>2, <6>3
        <5> QED BY <5>1, <5>2
      <4>3. Owes(a) = {} => affair[a].level = Len(affair[a].path)
        BY <2>1 DEF Follows
      <4> QED BY <4>1, <4>2, <4>3
    <3> QED BY <3>1, <3>2
  <2>8. Follows' /\ (Numbered => Numbered')
    BY <1>0, <1>5, <2>1, <2>4, <2>7, RowsFacts, PictureKept
  <2>9. causes \subseteq causes'
    BY <1>0, <1>6, <1>7, {} \in SUBSET Cause, WritesTyped
  <2> QED BY <2>1, <2>8, <2>9
<1> HIDE DEF last
<1> QED BY <1>1, <1>6, <1>7, <1>8, WriteKeeps

-----------------------------------------------------------------------------
(* The affair that moves.                                                  *)

(* Its own path becomes the new one.                                       *)
LEMMA MovedItself ==
  ASSUME NEW old \in Path, NEW new \in Path
  PROVE  MovedPath(old, new, old) = new
<1>1. Extends(old, old)
  BY PathFacts DEF Extends
<1> DEFINE m == MovedPath(old, new, old)
<1>2. m \in Path /\ Len(m) = Len(new) + (Len(old) - Len(old)) /\ Extends(m, new)
  BY <1>1, MovedExtends
<1> HIDE DEF m
<1>3. Len(m) = Len(new) /\ \A i \in 1..Len(new) : new[i] = m[i]
  BY <1>2, PathFacts DEF Extends
<1>4. m = new
  BY <1>2, <1>3, SamePath
<1> QED BY <1>4 DEF m

(* A path that has one index more has it after the move.                   *)
LEMMA MovedChild ==
  ASSUME NEW old \in Path, NEW new \in Path, NEW p \in Path, NEW q \in Path,
         Extends(p, old), Len(q) = Len(p) + 1, Extends(q, p)
  PROVE  /\ MovedPath(old, new, q) = Append(MovedPath(old, new, p), LastOf(MovedPath(old, new, q)))
         /\ LastOf(MovedPath(old, new, q)) = LastOf(q)
<1>3. Extends(q, old)
  BY ExtendsTransitive
<1> DEFINE mp == MovedPath(old, new, p)
           mq == MovedPath(old, new, q)
<1>4. /\ mp \in Path /\ Len(mp) = Len(new) + (Len(p) - Len(old)) /\ Extends(mp, new)
      /\ \A i \in 1..(Len(p) - Len(old)) : mp[Len(new) + i] = p[Len(old) + i]
  BY MovedExtends
<1>5. /\ mq \in Path /\ Len(mq) = Len(new) + (Len(q) - Len(old)) /\ Extends(mq, new)
      /\ \A i \in 1..(Len(q) - Len(old)) : mq[Len(new) + i] = q[Len(old) + i]
  BY <1>3, MovedExtends
<1> HIDE DEF mp, mq
<1>6. /\ Len(old) \in Nat \ {0} /\ Len(new) \in Nat \ {0} /\ Len(p) \in Nat \ {0}
      /\ Len(old) <= Len(p) /\ Len(mp) \in Nat
  BY <1>4, PathFacts DEF Extends
<1>7. ASSUME NEW i \in 1..Len(mp) PROVE mq[i] = mp[i]
  <2>1. CASE i <= Len(new)
    BY <1>4, <1>5, <1>6, <2>1 DEF Extends
  <2>2. CASE i > Len(new)
    <3>1. PICK j \in 1..(Len(p) - Len(old)) : i = Len(new) + j
      <4>1. i - Len(new) \in 1..(Len(p) - Len(old)) /\ i = Len(new) + (i - Len(new))
        BY <1>4, <1>6, <2>2
      <4> QED BY <4>1
    <3>2. mp[i] = p[Len(old) + j]
      BY <1>4, <3>1
    <3>3. j \in 1..(Len(q) - Len(old))
      BY <1>6
    <3>4. mq[i] = q[Len(old) + j]
      BY <1>5, <3>1, <3>3
    <3>5. Len(old) + j \in 1..Len(p)
      BY <1>6
    <3>6. q[Len(old) + j] = p[Len(old) + j]
      BY <3>5 DEF Extends
    <3> QED BY <3>2, <3>4, <3>6
  <2> QED BY <1>6, <2>1, <2>2
<1>8. Len(mq) = Len(mp) + 1
  BY <1>4, <1>5, <1>6
<1>9. Extends(mq, mp)
  BY <1>6, <1>7, <1>8 DEF Extends
<1>10. mq = Append(mp, LastOf(mq))
  BY <1>4, <1>5, <1>8, <1>9, IsOneMore
<1>11. LastOf(mq) = LastOf(q)
  <2>1. PICK j \in 1..(Len(q) - Len(old)) : j = Len(q) - Len(old)
    BY <1>6
  <2>2. mq[Len(new) + j] = q[Len(old) + j]
    BY <1>5
  <2>3. Len(new) + j = Len(mq) /\ Len(old) + j = Len(q)
    BY <1>5, <1>6, <2>1
  <2> QED BY <2>2, <2>3 DEF LastOf
<1> QED BY <1>10, <1>11 DEF mp, mq

(* The affairs below one that has left keep what Numbered says of them.    *)
LEMMA OneChildLeaves ==
  ASSUME NEW S, IsFiniteSet(S), NEW a \in S, NEW f, \A c \in S : f[c] \in Nat /\ f[c] <= Cardinality(S),
         \A b, c \in S : f[b] = f[c] => b = c, f[a] = Cardinality(S)
  PROVE  \A c \in S \ {a} : f[c] <= Cardinality(S \ {a})
<1>1. Cardinality(S \ {a}) = Cardinality(S) - 1 /\ Cardinality(S) \in Nat
  BY FS_RemoveElement, FS_CardinalityType
<1> QED BY <1>1

LEMMA MoveSourceKeeps ==
  ASSUME IInv, NEW r \in Request, MoveSource(r)
  PROVE  IInv'
<1>0. Types /\ Movers
  BY DEF IInv, Movers
<1> DEFINE last(x) == LastOf(affair[x].path) = Cardinality(Children(affair[x].parent))
<1>1. at[r] = "move" /\ subject[r] \in Rows /\ row[r] \in Row
  BY <1>0 DEF Types, TypeOK, MoveSource
<1>2. PICK a \in Rows, w \in Row : a = subject[r] /\ w = row[r]
  BY <1>1
<1>3. /\ affair' = [affair EXCEPT ![a] = w] /\ at' = [at EXCEPT ![r] = "moveKids"]
      /\ Writes(r, IF affair[a].parent # w.parent /\ last(a) THEN {} ELSE {"moved"}, FALSE)
      /\ UNCHANGED <<tasks, subject, row, todo, closing>>
  BY <1>2 DEF MoveSource
<1>4. PICK more \in SUBSET Cause :
        more = IF affair[a].parent # w.parent /\ last(a) THEN {} ELSE {"moved"}
  BY DEF Cause
<1>5. Writes(r, more, FALSE)
  BY <1>3, <1>4
<1>6. /\ affair'[a] = w /\ \A x \in Affair \ {a} : affair'[x] = affair[x]
      /\ affair' \in [Affair -> Row \cup {NoRow}]
  BY <1>0, <1>3 DEF Types, TypeOK, Rows
<1>7. Rows' = Rows
  <2>1. \A x \in Rows : affair'[x] \in Row
    BY <1>0, <1>6, RowFacts
  <2>2. \A x \in Affair \ Rows : affair'[x] = affair[x]
    BY <1>6
  <2> QED BY <1>0, <1>6, <2>1, <2>2, RowsSame
<1>8. /\ Types' /\ Movers' /\ at'[r] = "moveKids" /\ \A s \in Request \ {r} : at'[s] = at[s]
  <2>1. todo' = [todo EXCEPT ![r] = todo[r]] /\ todo[r] \in SUBSET todo[r]
    BY <1>0, <1>3 DEF Types
  <2>2. UNCHANGED <<tasks, subject, row, closing>>
    BY <1>3
  <2>3. Types' /\ Movers'
    BY <1>0, <1>1, <1>3, <1>5, <1>6, <1>7, <2>1, <2>2, GoOnTyped
  <2> QED BY <1>0, <1>3, <2>3 DEF Types, TypeOK
<1>9. ASSUME Sound' PROVE Follows' /\ (causes' = {} => Numbered')
  <2>1. /\ Sound /\ Follows /\ (causes = {} => Numbered) /\ wrote \subseteq {r} /\ wrote' = {r}
        /\ Knows("move", a, w, todo[r])
    BY <1>1, <1>2, <1>5, <1>9, WriterIsFresh
  <2>2. wrote = {} /\ Tree
    BY <1>0, <1>1, <2>1 DEF Movers, Tree
  <2>3. Owed = {} /\ \A x : Owes(x) = {} /\ PathOf(x) = affair[x].path
    BY <2>2, NothingOwed
  <2>4. PICK b \in Rows : b = w.parent
    BY <2>1 DEF Knows
  <2> DEFINE under == Subtree(a)
             path(k) == MovedPath(affair[a].path, w.path, affair[k].path)
             new(k) == [id |-> k, path |-> path(k),
                        level |-> affair[k].level + affair[b].level - affair[a].level + 1]
  <2>5. Agrees(w, Below(b)) /\ b \notin under /\ todo[r] = {new(k) : k \in under}
    BY <2>1, <2>4 DEF Knows
  <2>6. /\ w.path = Append(affair[b].path, NewIndex(b)) /\ w.path \in Path
        /\ LastOf(w.path) = NewIndex(b) /\ w.level = affair[b].level + 1
        /\ Len(w.path) = Len(affair[b].path) + 1
    BY <1>0, <2>5, BelowFacts DEF Agrees
  <2>7. /\ a \in under /\ under \subseteq Rows /\ Closed(under)
        /\ \A c \in under \ {a} : affair[c].parent \in under
    BY SubtreeHas, SubtreeUp
  <2>8. a # 1 /\ 1 \notin under /\ 1 \in Rows
    <3>1. Subtree(1) = Rows
      BY <2>2, AllBelowRoot
    <3>2. a # 1
      BY <2>5, <3>1
    <3>3. affair[1].parent = 0 /\ 0 \notin Rows /\ 1 \in Rows
      BY <1>0, <2>1, RowsFacts DEF Follows
    <3> QED BY <2>7, <3>2, <3>3
  <2>9. \A k \in Rows : affair[k].path \in Path /\ affair[k].level = Len(affair[k].path)
    BY <1>0, <2>1, <2>3, RowFacts DEF Follows
  <2>10. ASSUME NEW k \in under PROVE Extends(affair[k].path, affair[a].path)
    BY <2>2, <2>3, BelowExtends
  <2>11. Owed' = {new(k) : k \in under}
    <3>1. Owed' = todo[r]
      BY <1>3, <2>1 DEF Owed
    <3> QED BY <2>5, <3>1
  <2>12. \A k : new(k).id = k /\ new(k).path = path(k)
    OBVIOUS
  <2> HIDE DEF new, under
  <2>13. \A i, j \in Owed' : i.id = j.id => i = j
    BY <2>11, <2>12
  <2>14. ASSUME NEW k \in under PROVE PathOf(k)' = path(k)
    <3>1. Owes(k)' = {new(k)}
      BY <2>11, <2>12 DEF Owes
    <3>2. PathOf(k)' = new(k).path
      BY <3>1 DEF PathOf
    <3> QED BY <2>12, <3>2
  <2>15. ASSUME NEW k \in Rows \ under
         PROVE  Owes(k)' = {} /\ affair'[k] = affair[k] /\ PathOf(k)' = affair[k].path
    <3>1. Owes(k)' = {}
      BY <2>11, <2>12 DEF Owes
    <3>2. affair'[k] = affair[k]
      BY <1>6, <2>7 DEF Rows
    <3> QED BY <3>1, <3>2 DEF PathOf
  <2>16. PathOf(a)' = w.path
    <3>1. path(a) = w.path
      BY <2>6, <2>9, MovedItself
    <3> QED BY <2>7, <2>14, <3>1
  <2>17. \A x \in Rows \ {a} : affair'[x] = affair[x]
    BY <1>6 DEF Rows
  <2>18. ASSUME NEW x \in Rows \ {1}
         PROVE  affair[x].parent \in Rows
                /\ affair[x].path = Append(affair[affair[x].parent].path, LastOf(affair[x].path))
    BY <2>1, <2>3 DEF Follows
  <2>19. ASSUME NEW x \in under \ {a}
         PROVE  /\ PathOf(x)' = Append(PathOf(affair[x].parent)', LastOf(PathOf(x)'))
                /\ LastOf(PathOf(x)') = LastOf(affair[x].path)
    <3>1. PICK q \in under : q = affair[x].parent
      BY <2>7
    <3>2. affair[x].path = Append(affair[q].path, LastOf(affair[x].path))
      BY <2>7, <2>8, <2>18, <3>1
    <3>3. Extends(affair[q].path, affair[a].path)
      BY <2>10
    <3>4. /\ path(x) = Append(path(q), LastOf(path(x))) /\ LastOf(path(x)) = LastOf(affair[x].path)
      <4>1. /\ affair[a].path \in Path /\ affair[q].path \in Path /\ affair[x].path \in Path
            /\ w.path \in Path
        BY <2>6, <2>7, <2>9
      <4>2. PICK old \in Path, np \in Path, p \in Path, y \in Path :
              old = affair[a].path /\ np = w.path /\ p = affair[q].path /\ y = affair[x].path
        BY <4>1
      <4>3. Extends(p, old)
        BY <3>3, <4>2
      <4>4. Len(y) = Len(p) + 1 /\ Extends(y, p)
        <5>1. PICK i \in Index : i = LastOf(y)
          BY PathFacts
        <5>2. y = Append(p, i)
          BY <3>2, <4>2, <5>1, Zenon
        <5>3. Len(Append(p, i)) = Len(p) + 1 /\ Extends(Append(p, i), p)
          BY OneMore
        <5> QED BY <5>2, <5>3, Zenon
      <4>5. /\ MovedPath(old, np, y) = Append(MovedPath(old, np, p), LastOf(MovedPath(old, np, y)))
            /\ LastOf(MovedPath(old, np, y)) = LastOf(y)
        BY <4>3, <4>4, MovedChild
      <4>6. path(x) = MovedPath(old, np, y) /\ path(q) = MovedPath(old, np, p)
        BY <4>2
      <4>7. LastOf(path(x)) = LastOf(MovedPath(old, np, y)) /\ LastOf(y) = LastOf(affair[x].path)
        BY <4>2, <4>6, Zenon
      <4> QED BY <4>5, <4>6, <4>7, Zenon
    <3>5. PathOf(x)' = path(x) /\ PathOf(q)' = path(q)
      BY <2>14
    <3>6. PathOf(affair[x].parent)' = PathOf(q)'
      <4>1. affair'[x].parent = q
        BY <2>7, <2>17, <3>1
      <4> QED BY <4>1
    <3> QED BY <3>4, <3>5, <3>6, Zenon
  <2>20. ASSUME NEW x \in Rows \ {1}
         PROVE  /\ affair'[x].parent \in Rows
                /\ PathOf(x)' = Append(PathOf(affair[x].parent)', LastOf(PathOf(x)'))
    <3>1. CASE x = a
      <4>1. affair'[a].parent = b
        BY <1>6, <2>4
      <4>2. PathOf(b)' = affair[b].path
        BY <2>5, <2>15
      <4>3. PathOf(affair[a].parent)' = affair[b].path
        BY <4>1, <4>2
      <4>4. w.path = Append(affair[b].path, LastOf(w.path))
        BY <2>6
      <4>5. PathOf(a)' = Append(PathOf(affair[a].parent)', LastOf(PathOf(a)'))
        BY <2>16, <4>3, <4>4, Zenon
      <4> QED BY <3>1, <4>1, <4>5
    <3>2. CASE x \in under \ {a}
      <4>1. affair'[x].parent \in Rows
        BY <2>7, <2>17, <3>2
      <4> QED BY <2>19, <3>2, <4>1
    <3>3. CASE x \notin under
      <4>1. PICK q \in Rows : q = affair[x].parent
        BY <2>18
      <4>2. q \notin under
        <5>1. x \in Children(q)
          BY <4>1 DEF Children
        <5> QED BY <2>7, <3>3, <5>1 DEF Closed
      <4>3. /\ affair'[x].parent = q /\ PathOf(x)' = affair[x].path /\ PathOf(q)' = affair[q].path
        BY <2>15, <3>3, <4>1, <4>2
      <4>4. PathOf(affair[x].parent)' = affair[q].path
        BY <4>3
      <4>5. affair[x].path = Append(affair[q].path, LastOf(affair[x].path))
        BY <2>18, <4>1
      <4>6. PathOf(x)' = Append(PathOf(affair[x].parent)', LastOf(PathOf(x)'))
        BY <4>3, <4>4, <4>5, Zenon
      <4> QED BY <4>3, <4>6
    <3> QED BY <3>1, <3>2, <3>3
  <2>21. Follows'
    <3>1. affair'[1].parent = 0 /\ PathOf(1)' = <<1>>
      BY <2>1, <2>3, <2>8, <2>15 DEF Follows
    <3>2. ASSUME NEW k \in under PROVE new(k).level = Len(new(k).path)
      <4>1. /\ affair[k].level = Len(affair[k].path) /\ affair[a].level = Len(affair[a].path)
            /\ affair[b].level = Len(affair[b].path)
            /\ affair[k].path \in Path /\ affair[a].path \in Path /\ affair[b].path \in Path
        BY <2>7, <2>9
      <4>2. Len(path(k)) = Len(w.path) + (Len(affair[k].path) - Len(affair[a].path))
        BY <2>6, <2>10, <4>1, MovedExtends
      <4>3. new(k).level = affair[k].level + affair[b].level - affair[a].level + 1
        BY DEF new
      <4>4. /\ Len(affair[k].path) \in Nat /\ Len(affair[a].path) \in Nat /\ Len(affair[b].path) \in Nat
        BY <4>1, PathFacts
      <4>5. new(k).level = Len(path(k))
        <5>1. Len(w.path) = Len(affair[b].path) + 1
          BY <2>6
        <5>2. PICK la \in Nat, lb \in Nat, lk \in Nat :
                /\ la = Len(affair[a].path) /\ lb = Len(affair[b].path) /\ lk = Len(affair[k].path)
          BY <4>4
        <5>3. Len(path(k)) = lb + 1 + (lk - la)
          BY <4>2, <5>1, <5>2, Zenon
        <5>4. new(k).level = lk + lb - la + 1
          BY <4>1, <4>3, <5>2, Zenon
        <5> HIDE DEF path
        <5> QED BY <5>3, <5>4
      <4>6. Len(new(k).path) = Len(path(k))
        BY <2>12
      <4> QED BY <4>5, <4>6
    <3>3. \A k \in Owed' : k.level = Len(k.path)
      BY <2>11, <3>2
    <3>4. ASSUME NEW x \in Rows', Owes(x)' = {} PROVE affair'[x].level = Len(affair'[x].path)
      <4>1. x \notin under
        BY <2>11, <2>12, <3>4 DEF Owes
      <4> QED BY <1>7, <2>9, <2>15, <4>1
    <3> QED BY <1>7, <2>13, <2>20, <3>1, <3>3, <3>4 DEF Follows
  <2>22. ASSUME causes' = {} PROVE Numbered'
    <3>1. more = {} /\ Numbered
      <4>1. causes \subseteq causes' /\ more \subseteq causes'
        BY <1>0, <1>5, FALSE \in BOOLEAN, WritesTyped
      <4> QED BY <2>1, <2>22, <4>1
    <3>2. affair[a].parent # b /\ last(a)
      BY <1>4, <2>4, <3>1
    <3>3. PICK o \in Rows : o = affair[a].parent
      BY <2>8, <2>18
    <3>4. /\ a \in Children(o) /\ a \notin Children(b) /\ o # b
          /\ Children(o)' = Children(o) \ {a} /\ Children(b)' = Children(b) \cup {a}
          /\ \A x \in Rows \ {o, b} : Children(x)' = Children(x)
      BY <1>6, <1>7, <2>4, <2>17, <3>2, <3>3 DEF Children
    <3>5. ASSUME NEW x \in Rows \ {a} PROVE LastOf(PathOf(x)') = LastOf(affair[x].path)
      <4>1. CASE x \in under
        BY <2>19, <4>1
      <4>2. CASE x \notin under
        BY <2>15, <4>2
      <4> QED BY <4>1, <4>2
    <3>6. LastOf(PathOf(a)') = NewIndex(b)
      BY <2>6, <2>16
    <3>7. ASSUME NEW x \in Rows, NEW c \in Children(x)
          PROVE  /\ c \in Rows /\ LastOf(affair[c].path) \in Nat
                 /\ LastOf(affair[c].path) <= Cardinality(Children(x))
      <4>1. c \in Rows
        BY DEF Children
      <4>2. LastOf(affair[c].path) \in Nat
        BY <2>9, <4>1, PathFacts DEF Index
      <4>3. LastOf(PathOf(c)) <= Cardinality(Children(x))
        BY <3>1 DEF Numbered
      <4> QED BY <2>3, <4>1, <4>2, <4>3
    <3>8. ASSUME NEW x \in Rows, NEW c \in Children(x), NEW d \in Children(x),
                 LastOf(affair[c].path) = LastOf(affair[d].path)
          PROVE  c = d
      BY <2>3, <3>1, <3>8 DEF Numbered
    <3>9. \A x \in Rows : IsFiniteSet(Children(x)) /\ Cardinality(Children(x)) \in Nat
      BY <1>0, NewIndexIsIndex
    <3>10. ASSUME NEW c \in Children(o)', NEW d \in Children(o)'
           PROVE  /\ LastOf(PathOf(c)') <= Cardinality(Children(o)')
                  /\ LastOf(PathOf(c)') = LastOf(PathOf(d)') => c = d
      <4> DEFINE f == [x \in Children(o) |-> LastOf(affair[x].path)]
      <4>1. /\ \A x \in Children(o) : f[x] \in Nat /\ f[x] <= Cardinality(Children(o))
            /\ \A x, y \in Children(o) : f[x] = f[y] => x = y
        BY <3>7, <3>8
      <4>2. f[a] = Cardinality(Children(o))
        BY <3>2, <3>3, <3>4
      <4>3. c \in Children(o) \ {a} /\ d \in Children(o) \ {a}
        BY <3>4
      <4>4. LastOf(PathOf(c)') = f[c] /\ LastOf(PathOf(d)') = f[d]
        BY <3>5, <3>7, <4>3
      <4> HIDE DEF f
      <4>5. \A x \in Children(o) \ {a} : f[x] <= Cardinality(Children(o) \ {a})
        BY <3>4, <3>9, <4>1, <4>2, OneChildLeaves
      <4> QED BY <3>4, <4>1, <4>3, <4>4, <4>5
    <3>11. ASSUME NEW c \in Children(b)', NEW d \in Children(b)'
           PROVE  /\ LastOf(PathOf(c)') <= Cardinality(Children(b)')
                  /\ LastOf(PathOf(c)') = LastOf(PathOf(d)') => c = d
      <4>1. /\ Cardinality(Children(b)') = Cardinality(Children(b)) + 1
            /\ NewIndex(b) = Cardinality(Children(b)) + 1 /\ Cardinality(Children(b)) \in Nat
        BY <3>4, <3>9, FS_AddElement DEF NewIndex
      <4>2. ASSUME NEW x \in Children(b)
            PROVE  /\ LastOf(PathOf(x)') = LastOf(affair[x].path) /\ LastOf(PathOf(x)') \in Nat
                   /\ LastOf(PathOf(x)') <= Cardinality(Children(b))
        BY <3>4, <3>5, <3>7
      <4>3. ASSUME c \in Children(b), d \in Children(b), LastOf(PathOf(c)') = LastOf(PathOf(d)')
            PROVE  c = d
        BY <3>8, <4>2, <4>3
      <4>4. c \in Children(b) \/ c = a
        BY <3>4
      <4>5. d \in Children(b) \/ d = a
        BY <3>4
      <4>6. LastOf(PathOf(c)') <= Cardinality(Children(b)')
        BY <3>6, <4>1, <4>2, <4>4
      <4>7. LastOf(PathOf(c)') = LastOf(PathOf(d)') => c = d
        BY <3>6, <4>1, <4>2, <4>3, <4>4, <4>5
      <4> QED BY <4>6, <4>7
    <3>12. ASSUME NEW x \in Rows \ {o, b}, NEW c \in Children(x)', NEW d \in Children(x)'
           PROVE  /\ LastOf(PathOf(c)') <= Cardinality(Children(x)')
                  /\ LastOf(PathOf(c)') = LastOf(PathOf(d)') => c = d
      <4>1. Children(x)' = Children(x) /\ c \in Rows \ {a} /\ d \in Rows \ {a}
        BY <3>3, <3>4 DEF Children
      <4>2. /\ LastOf(PathOf(c)') = LastOf(affair[c].path)
            /\ LastOf(PathOf(d)') = LastOf(affair[d].path)
        BY <3>5, <4>1
      <4> QED BY <3>7, <3>8, <4>1, <4>2
    <3> QED BY <1>7, <3>10, <3>11, <3>12 DEF Numbered
  <2> QED BY <2>21, <2>22
<1> QED BY <1>1, <1>5, <1>8, <1>9, WriteKeeps

-----------------------------------------------------------------------------
(* The invariant.                                                          *)

LEMMA Starts == Init => IInv
<1> SUFFICES ASSUME Init PROVE IInv
  OBVIOUS
<1>1. /\ affair = [a \in Affair |-> IF a = 1 THEN RootRow ELSE NoRow]
      /\ tasks = [a \in Affair |-> 0] /\ at = [r \in Request |-> "idle"]
      /\ subject = [r \in Request |-> 0] /\ row = [r \in Request |-> NoRow]
      /\ todo = [r \in Request |-> {}] /\ closing = [r \in Request |-> 0]
      /\ stale = {} /\ wrote = {} /\ causes = {}
  BY DEF Init
<1>2. 1 \in Affair /\ MaxAffair \in Nat \ {0} /\ MaxTask \in Nat
  BY ConstantsAssumption DEF Affair
<1>3. <<1>> \in Path /\ Len(<<1>>) = 1
  BY DEF Path
<1>4. RootRow \in Row /\ RootRow # NoRow
  <2>1. RootRow \in Row
    BY <1>2, <1>3 DEF RootRow, Row, Valid
  <2> QED BY <2>1, ConstantsAssumption
<1>5. /\ affair \in [Affair -> Row \cup {NoRow}] /\ affair[1] = RootRow
      /\ \A a \in Affair \ {1} : affair[a] = NoRow
  BY <1>1, <1>2, <1>4
<1>6. Rows = {1}
  BY <1>2, <1>4, <1>5 DEF Rows
<1>7. Types
  <2>1. TypeOK
    BY <1>1, <1>2, <1>5 DEF TypeOK
  <2>2. 1 \in 1..MaxAffair /\ Rows = 1..1
    BY <1>2, <1>6
  <2>3. todo \in [Request -> SUBSET NewPaths]
    BY <1>1
  <2>4. \A r \in Request : at[r] = "idle" /\ todo[r] = {}
    BY <1>1
  <2> QED BY <2>1, <2>2, <2>3, <2>4 DEF Types
<1>8. Owed = {} /\ \A a : Owes(a) = {} /\ PathOf(a) = affair[a].path
  BY <1>1, NothingOwed
<1>9. affair[1].parent = 0 /\ affair[1].path = <<1>> /\ affair[1].level = 1
  BY <1>5 DEF RootRow
<1>10. Follows
  BY <1>3, <1>6, <1>8, <1>9 DEF Follows
<1>11. Numbered
  <2>1. Children(1) = {}
    BY <1>6, <1>9 DEF Children
  <2> QED BY <1>6, <2>1 DEF Numbered
<1>12. OneWriter /\ \A r \in Request : at[r] = "idle"
  BY <1>1 DEF OneWriter
<1> QED BY <1>1, <1>7, <1>10, <1>11, <1>12 DEF IInv

LEMMA NextKeeps == IInv /\ [Next]_vars => IInv'
<1> SUFFICES ASSUME IInv, [Next]_vars PROVE IInv'
  OBVIOUS
<1>1. CASE UNCHANGED vars
  <2>1. /\ affair' = affair /\ tasks' = tasks /\ at' = at /\ subject' = subject /\ row' = row
        /\ todo' = todo /\ closing' = closing /\ stale' = stale /\ wrote' = wrote /\ causes' = causes
    BY <1>1 DEF vars, tables, locals, history
  <2>2. Owed' = Owed
    BY <2>1 DEF Owed
  <2>3. Follows' = Follows /\ Numbered' = Numbered /\ Rows' = Rows
    BY <2>1, <2>2, PictureStays, TreeStays
  <2>4. Types'
    BY <2>1, <2>3 DEF IInv, Types, TypeOK
  <2>5. Sound' = Sound /\ OneWriter' = OneWriter
    BY <2>1 DEF Sound, Unless, OneWriter
  <2>6. ASSUME NEW r \in Request, Knows(at[r], subject[r], row[r], todo[r])
        PROVE  Knows(at[r], subject[r], row[r], todo[r])'
    <3>1. PICK place, a, w, paths : /\ place = at[r] /\ a = subject[r]
                                    /\ w = row[r] /\ paths = todo[r]
      OBVIOUS
    <3>2. Knows(place, a, w, paths)'
      BY <2>1, <2>6, <3>1, TreeStays
    <3>3. /\ at'[r] = place /\ subject'[r] = a /\ row'[r] = w /\ todo'[r] = paths
      BY <2>1, <3>1
    <3> QED BY <3>2, <3>3
  <2> QED BY <2>1, <2>3, <2>4, <2>5, <2>6 DEF IInv
<1>2. ASSUME NEW r \in Request, NEW p \in Affair, CreateAffair(r, p) PROVE IInv'
  BY <1>2, CreateKeeps
<1>3. ASSUME NEW r \in Request, SaveAffair(r) PROVE IInv'
  BY <1>3, SaveKeeps
<1>4. ASSUME NEW r \in Request, NEW a \in Affair, NEW b \in Affair, ShiftAffair(r, a, b) PROVE IInv'
  BY <1>4, ShiftKeeps
<1>5. ASSUME NEW r \in Request, MoveSource(r) PROVE IInv'
  BY <1>5, MoveSourceKeeps
<1>6. ASSUME NEW r \in Request, NEW k \in todo[r], MoveKid(r, k) PROVE IInv'
  BY <1>6, KidKeeps
<1>7. ASSUME NEW r \in Request, NEW a \in Affair, DisableAffair(r, a) PROVE IInv'
  BY <1>7, DisableKeeps
<1>8. ASSUME NEW r \in Request, DisableCommit(r) PROVE IInv'
  BY <1>8, DisableCommitKeeps
<1>9. ASSUME NEW r \in Request, NEW a \in Affair, EnableAffair(r, a) PROVE IInv'
  BY <1>9, EnableKeeps
<1>10. ASSUME NEW r \in Request, EnableCommit(r) PROVE IInv'
  BY <1>10, EnableCommitKeeps
<1>11. ASSUME NEW r \in Request, NEW a \in Affair, AddTask(r, a) PROVE IInv'
  BY <1>11, AddTaskKeeps
<1>12. ASSUME NEW r \in Request, CallThrows(r) PROVE IInv'
  BY <1>12, ThrowsKeeps
<1> QED BY <1>1, <1>2, <1>3, <1>4, <1>5, <1>6, <1>7, <1>8, <1>9, <1>10, <1>11, <1>12 DEF Next

(* In every run of AffairService each call that nobody has overwritten     *)
(* still knows the tables, and every affair has its parent's path and one  *)
(* index, or gets it from the move that is under way.                      *)
THEOREM Invariance == Spec => []IInv
BY Starts, NextKeeps, PTL DEF Spec

(* The rows of the table affair, the counts of open tasks and what the     *)
(* requests hold keep their types.                                         *)
THEOREM TypeCorrect == Spec => []TypeOK
<1>1. IInv => TypeOK
  BY DEF IInv, Types
<1> QED BY <1>1, Invariance, PTL

-----------------------------------------------------------------------------
(* The properties.                                                         *)

LEMMA SoundTree ==
  ASSUME IInv, Unless({"overlap", "failure", "outsider"})
  PROVE  Tree /\ Sound
BY DEF IInv, Sound, Tree, Movers

(* No move closes a cycle: all affairs stay below the root of the          *)
(* alliance.                                                               *)
THEOREM NoMoveClosesACycle == Spec => []NoCycle
<1>1. IInv => NoCycle
  BY SoundTree, AllBelowRoot DEF NoCycle
<1> QED BY <1>1, Invariance, PTL

(* When no move is half done, the parent and the path of an affair tell    *)
(* the same tree, and the level is the length of the path.                 *)
THEOREM PathsAreParents == Spec => []PathsFollowParents
<1>1. ASSUME IInv PROVE PathsFollowParents
  <2> SUFFICES ASSUME Unless({"overlap", "failure", "outsider"}), Settled, NEW a \in Rows \ {1}
               PROVE  /\ Len(affair[a].path) = affair[a].level
                      /\ affair[affair[a].parent].path = SubSeq(affair[a].path, 1, affair[a].level - 1)
    BY DEF PathsFollowParents
  <2>1. Tree
    BY <1>1, SoundTree
  <2>2. \A x : Owes(x) = {} /\ PathOf(x) = affair[x].path
    BY NothingOwed DEF Settled
  <2>3. affair[a].level = Len(affair[a].path)
    BY <2>1, <2>2 DEF Tree, Follows
  <2>4. PICK q \in Rows : q = affair[a].parent
    BY <2>1, ParentFacts
  <2>5. /\ Len(affair[a].path) = Len(affair[q].path) + 1
        /\ Extends(affair[a].path, affair[q].path)
    BY <2>1, <2>2, <2>4, ParentFacts
  <2>6. affair[a].path \in Path /\ affair[q].path \in Path
    BY <2>1, RowFacts DEF Tree
  <2>7. affair[q].path = SubSeq(affair[a].path, 1, Len(affair[q].path))
    BY <2>5, <2>6, FrontOfPath
  <2>8. affair[a].level - 1 = Len(affair[q].path)
    BY <2>3, <2>5, <2>6, PathFacts
  <2> QED BY <2>3, <2>4, <2>7, <2>8, Zenon
<1> QED BY <1>1, Invariance, PTL

(* Two affairs with one path are one, as long as the children of an affair *)
(* have indices of their own.                                              *)
LEMMA PathsDiffer ==
  ASSUME Tree, wrote = {}, Numbered, NEW a0 \in Rows, NEW b0 \in Rows, affair[a0].path = affair[b0].path
  PROVE  a0 = b0
<1> DEFINE Twin(x) == \E y \in Rows : y # x /\ affair[y].path = affair[x].path
           S == {Len(affair[x].path) : x \in {z \in Rows : Twin(z)}}
<1>1. SUFFICES ASSUME a0 # b0 PROVE FALSE
  OBVIOUS
<1>2. \A x \in Rows : affair[x].path \in Path /\ Len(affair[x].path) \in Nat \ {0}
  BY RowFacts, PathFacts DEF Tree
<1>3. S \subseteq Nat /\ S # {}
  BY <1>1, <1>2
<1>4. PICK m \in S : \A n \in S : m <= n
  BY <1>3, LeastNumber
<1>5. PICK a \in Rows : Twin(a) /\ m = Len(affair[a].path)
  OBVIOUS
<1>6. PICK b \in Rows : b # a /\ affair[b].path = affair[a].path
  BY <1>5
<1>7. \A x : PathOf(x) = affair[x].path
  BY NothingOwed
<1>8. ASSUME NEW x \in Rows \ {1}
      PROVE  /\ affair[x].parent \in Rows /\ x \in Children(affair[x].parent)
             /\ Len(affair[x].path) = Len(affair[affair[x].parent].path) + 1
             /\ Extends(affair[x].path, affair[affair[x].parent].path)
  BY <1>7, ParentFacts
<1>9. Len(affair[1].path) = 1
  BY <1>7 DEF Tree, Follows
<1>10. ASSUME NEW x \in Rows \ {1} PROVE Len(affair[x].path) # 1
  <2>1. PICK q \in Rows : q = affair[x].parent
    BY <1>8
  <2>2. Len(affair[x].path) = Len(affair[q].path) + 1
    BY <1>8, <2>1
  <2>3. PICK n \in Nat \ {0} : n = Len(affair[q].path)
    BY <1>2
  <2> QED BY <2>2, <2>3
<1>11. a # 1 /\ b # 1
  BY <1>6, <1>9, <1>10
<1>12. PICK p \in Rows, q \in Rows : p = affair[a].parent /\ q = affair[b].parent
  BY <1>8, <1>11
<1>13. /\ Len(affair[a].path) = Len(affair[p].path) + 1 /\ Extends(affair[a].path, affair[p].path)
       /\ Len(affair[b].path) = Len(affair[q].path) + 1 /\ Extends(affair[b].path, affair[q].path)
       /\ a \in Children(p) /\ b \in Children(q)
  BY <1>8, <1>11, <1>12
<1>14. affair[p].path = affair[q].path
  <2>1. Len(affair[p].path) = Len(affair[q].path)
    BY <1>2, <1>6, <1>13
  <2>2. \A i \in 1..Len(affair[p].path) : affair[p].path[i] = affair[q].path[i]
    BY <1>6, <1>13, <2>1 DEF Extends
  <2> QED BY <1>2, <2>1, <2>2, SamePath
<1>15. p = q
  <2>1. SUFFICES ASSUME p # q PROVE FALSE
    OBVIOUS
  <2>2. Len(affair[p].path) \in S
    BY <1>14, <2>1
  <2>3. PICK n \in Nat \ {0} : n = Len(affair[p].path)
    BY <1>2
  <2>4. m = n + 1
    BY <1>5, <1>13, <2>3
  <2>5. m <= n
    BY <1>4, <2>2, <2>3
  <2> QED BY <2>4, <2>5
<1>16. LastOf(PathOf(a)) = LastOf(PathOf(b))
  BY <1>6, <1>7
<1> QED BY <1>6, <1>13, <1>15, <1>16 DEF Numbered

(* An affair whose path extends that of another one is below it.           *)
LEMMA ExtendsIsBelow ==
  ASSUME Tree, wrote = {}, Numbered, NEW b \in Rows, NEW c0 \in Rows,
         Extends(affair[c0].path, affair[b].path)
  PROVE  c0 \in Subtree(b)
<1> DEFINE Wrong == {x \in Rows : Extends(affair[x].path, affair[b].path) /\ x \notin Subtree(b)}
           S == {Len(affair[x].path) : x \in Wrong}
<1>1. SUFFICES ASSUME c0 \notin Subtree(b) PROVE FALSE
  OBVIOUS
<1>2. \A x \in Rows : affair[x].path \in Path /\ Len(affair[x].path) \in Nat \ {0}
  BY RowFacts, PathFacts DEF Tree
<1>3. S \subseteq Nat /\ S # {}
  BY <1>1, <1>2
<1>4. PICK m \in S : \A n \in S : m <= n
  BY <1>3, LeastNumber
<1>5. PICK c \in Wrong : m = Len(affair[c].path)
  OBVIOUS
<1>6. b \in Subtree(b) /\ Closed(Subtree(b))
  BY SubtreeHas
<1>7. Len(affair[b].path) < Len(affair[c].path)
  <2>1. Len(affair[b].path) <= Len(affair[c].path)
    BY <1>5 DEF Extends
  <2>2. SUFFICES ASSUME Len(affair[b].path) = Len(affair[c].path) PROVE FALSE
    BY <1>2, <1>5, <2>1
  <2>3. affair[b].path = affair[c].path
    <3>1. \A i \in 1..Len(affair[b].path) : affair[b].path[i] = affair[c].path[i]
      BY <1>5 DEF Extends
    <3> QED BY <1>2, <1>5, <2>2, <3>1, SamePath
  <2>4. b = c
    BY <1>5, <2>3, PathsDiffer
  <2> QED BY <1>5, <1>6, <2>4
<1>8. \A x : PathOf(x) = affair[x].path
  BY NothingOwed
<1>9. c # 1
  <2>1. Len(affair[1].path) = 1
    BY <1>8 DEF Tree, Follows
  <2>2. PICK n \in Nat \ {0} : n = Len(affair[b].path)
    BY <1>2
  <2>3. PICK k \in Nat : k = Len(affair[c].path)
    BY <1>2
  <2>4. n < k
    BY <1>7, <2>2, <2>3, Zenon
  <2>5. k # 1
    BY <2>4
  <2> QED BY <2>1, <2>3, <2>5, Zenon
<1>10. PICK q \in Rows : q = affair[c].parent
  BY <1>5, <1>9, ParentFacts
<1>11. /\ c \in Children(q) /\ Len(affair[c].path) = Len(affair[q].path) + 1
       /\ Extends(affair[c].path, affair[q].path)
  BY <1>5, <1>8, <1>9, <1>10, ParentFacts
<1>12. Extends(affair[q].path, affair[b].path)
  <2>1. Len(affair[b].path) <= Len(affair[q].path)
    BY <1>2, <1>5, <1>7, <1>11
  <2>2. ASSUME NEW i \in 1..Len(affair[b].path) PROVE affair[q].path[i] = affair[b].path[i]
    <3>1. i \in 1..Len(affair[q].path)
      BY <1>2, <2>1
    <3> QED BY <1>5, <1>11, <3>1 DEF Extends
  <2> QED BY <2>1, <2>2 DEF Extends
<1>13. q \notin Subtree(b)
  BY <1>5, <1>6, <1>11 DEF Closed
<1>14. Len(affair[q].path) \in S
  BY <1>12, <1>13
<1> QED BY <1>2, <1>4, <1>5, <1>11, <1>14

(* As long as nothing has happened that the property excuses, no two       *)
(* affairs share a path, and isChildAffair answers whether one affair is   *)
(* below another.                                                          *)
THEOREM DescentIsTold == Spec => []PathsTellDescent
<1>1. ASSUME IInv PROVE PathsTellDescent
  <2> SUFFICES ASSUME Unless(Cause), Settled, NEW a \in Rows, NEW b \in Rows, a # b
               PROVE  /\ affair[a].path # affair[b].path
                      /\ IsChildAffair(a, b) <=> a \in Subtree(b)
    BY DEF PathsTellDescent
  <2>1. causes = {}
    BY <1>1 DEF Unless, IInv, Types, TypeOK
  <2>2. Tree /\ Numbered /\ wrote = {}
    <3>1. Unless({"overlap", "failure", "outsider"})
      BY <2>1 DEF Unless
    <3> QED BY <1>1, <2>1, <3>1, SoundTree DEF IInv, Settled
  <2>3. affair[a].path # affair[b].path
    BY <2>2, PathsDiffer
  <2>4. \A x : Owes(x) = {} /\ PathOf(x) = affair[x].path
    BY <2>2, NothingOwed
  <2>5. \A x \in Rows : /\ affair[x].path \in Path /\ Len(affair[x].path) \in Nat \ {0}
                        /\ affair[x].level = Len(affair[x].path)
    BY <2>2, <2>4, RowFacts, PathFacts DEF Tree, Follows
  <2>6. ASSUME IsChildAffair(a, b) PROVE a \in Subtree(b)
    <3>1. CASE affair[a].parent = b
      <4>1. a \in Children(b) /\ b \in Subtree(b) /\ Closed(Subtree(b))
        BY <3>1, SubtreeHas DEF Children
      <4> QED BY <4>1 DEF Closed
    <3>2. CASE /\ affair[a].level > affair[b].level
               /\ \A i \in 1..affair[b].level : affair[b].path[i] = affair[a].path[i]
      <4>1. Extends(affair[a].path, affair[b].path)
        BY <2>5, <3>2 DEF Extends
      <4> QED BY <2>2, <4>1, ExtendsIsBelow
    <3> QED BY <2>6, <3>1, <3>2 DEF IsChildAffair
  <2>7. ASSUME a \in Subtree(b) PROVE IsChildAffair(a, b)
    <3>1. Extends(affair[a].path, affair[b].path)
      BY <2>2, <2>4, <2>7, BelowExtends
    <3>2. Len(affair[a].path) # Len(affair[b].path)
      <4>1. SUFFICES ASSUME Len(affair[a].path) = Len(affair[b].path) PROVE FALSE
        OBVIOUS
      <4>2. affair[a].path = affair[b].path
        BY <2>5, <3>1, <4>1, SamePath DEF Extends
      <4> QED BY <2>3, <4>2
    <3> QED BY <2>5, <3>1, <3>2 DEF Extends, IsChildAffair
  <2> QED BY <2>3, <2>6, <2>7
<1> QED BY <1>1, Invariance, PTL

(* disableAffair disables the affair and all that is below it, and no      *)
(* other row, unless another call has written in between or the LIKE has   *)
(* caught outsiders.                                                       *)
THEOREM SubtreeIsDisabled == Spec => DisableIsTheSubtree
<1> DEFINE Right(r) ==
             DisableCommit(r) /\ causes' \cap {"overlap", "failure", "outsider"} = {} =>
               \A a \in Rows : IF a \in Subtree(subject[r]) THEN affair'[a].state = Invalid
                               ELSE affair'[a].state = affair[a].state
<1>1. ASSUME IInv, NEW r \in Request PROVE Right(r)
  <2> SUFFICES ASSUME DisableCommit(r), causes' \cap {"overlap", "failure", "outsider"} = {},
                      NEW a \in Rows
               PROVE  IF a \in Subtree(subject[r]) THEN affair'[a].state = Invalid
                      ELSE affair'[a].state = affair[a].state
    OBVIOUS
  <2> DEFINE ids == {k.id : k \in todo[r]} \cup {subject[r]}
  <2>1. /\ at[r] = "disable" /\ Writes(r, {}, TRUE)
        /\ affair' = [x \in Affair |->
                        IF x \in ids THEN [affair[x] EXCEPT !.state = Invalid] ELSE affair[x]]
    BY DEF DisableCommit
  <2>2. Sound'
    BY DEF Sound, Unless
  <2>3. Knows("disable", subject[r], row[r], todo[r])
    BY <1>1, <2>1, <2>2, WriterIsFresh
  <2>4. {k.id : k \in todo[r]} = Subtree(subject[r])
    BY <2>3 DEF Knows
  <2>5. subject[r] \in Subtree(subject[r])
    BY <1>1, <2>1, SubtreeHas DEF IInv, Types
  <2>6. ids = Subtree(subject[r])
    BY <2>4, <2>5
  <2>7. a \in Affair /\ affair[a] \in Row
    BY <1>1, RowFacts DEF IInv
  <2> HIDE DEF ids
  <2>8. affair'[a] = IF a \in ids THEN [affair[a] EXCEPT !.state = Invalid] ELSE affair[a]
    BY <2>1, <2>7
  <2>9. [affair[a] EXCEPT !.state = Invalid].state = Invalid
    BY <2>7 DEF Row
  <2> QED BY <2>6, <2>8, <2>9
<1>2. IInv => [\A r \in Request : Right(r)]_vars
  BY <1>1
<1> QED BY <1>2, Invariance, PTL DEF DisableIsTheSubtree
=============================================================================
