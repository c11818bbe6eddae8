------------------------- MODULE AnnouncementProofs -------------------------
(***************************************************************************)
(* Proofs about BlockDiff and Announcement for every set of announcements, *)
(* requests and papers and every bound: the edits that are stored lead     *)
(* from version to version (CompareIsRight says they do what they were     *)
(* computed for), and the rows keep together what a save writes in four    *)
(* statements.                                                             *)
(***************************************************************************)
EXTENDS Announcement, Integers, SequenceTheorems, WellFoundedInduction, TLAPS

-----------------------------------------------------------------------------
(*****************************************************************************)
(* Numbers, and functions defined from their smaller arguments.            *)
(*****************************************************************************)
(* A set of natural numbers that is not empty has a least one: what the    *)
(* inductions below use in place of an induction theorem, which takes its  *)
(* predicate as a parameter.                                               *)
LEMMA LeastNumber ==
  ASSUME NEW S, S \subseteq Nat, S # {}
  PROVE  \E m \in S : \A k \in S : m <= k
<1> DEFINE R == {ss \in Nat \X Nat : ss[1] < ss[2]}
<1>1. IsWellFoundedOn(R, Nat)
  BY NatLessThanWellFounded DEF OpToRel
<1>2. PICK m \in S : \A y \in S : ~ (<<y, m>> \in R)
  <2> HIDE DEF R
  <2> QED BY <1>1, WFMin
<1>3. \A y \in S : ~ (y < m)
  BY <1>2
<1> QED BY <1>3

(* Induction on the size of the members of C. *)
LEMMA SizeInduction ==
  ASSUME NEW C, NEW size \in [C -> Nat], NEW S,
         \A c \in C : (\A k \in C : size[k] < size[c] => k \in S) => c \in S
  PROVE  C \subseteq S
<1> DEFINE Missed == {size[c] : c \in C \ S}
<1>1. SUFFICES ASSUME C \ S # {} PROVE FALSE
  OBVIOUS
<1>2. Missed \subseteq Nat /\ Missed # {}
  BY <1>1
<1>3. PICK m \in Missed : \A n \in Missed : m <= n
  <2> HIDE DEF Missed
  <2> QED BY <1>2, LeastNumber
<1>4. PICK c \in C \ S : size[c] = m
  BY <1>3
<1>5. \A k \in C : size[k] < size[c] => k \in S
  BY <1>3, <1>4
<1> QED BY <1>4, <1>5

(* F says what a function on C is at c from what it is at smaller ones.    *)
Descends(F, C, V, size) ==
  /\ F \in [[C -> V] -> [C -> V]] /\ V # {}
  /\ size \in [C -> Nat] /\ \E top \in Nat : \A c \in C : size[c] <= top
  /\ \A f, g \in [C -> V], c \in C :
       (\A k \in C : size[k] < size[c] => f[k] = g[k]) => F[f][c] = F[g][c]

(* What Descends has a fixed point: a recursive function of the model is   *)
(* one, and so is what its definition says of it.                          *)
LEMMA Recursion ==
  ASSUME NEW C, NEW V, NEW size, NEW F, Descends(F, C, V, size)
  PROVE  \E f \in [C -> V] : f = F[f]
<1> USE DEF Descends
<1>0. PICK top \in Nat : \A c \in C : size[c] <= top
  OBVIOUS
<1> DEFINE Right(f, n) == \A c \in C : size[c] < n => f[c] = F[f][c]
           S == {n \in Nat : \E f \in [C -> V] : Right(f, n)}
<1>1. 0 \in S
  <2>1. PICK v : v \in V
    OBVIOUS
  <2> DEFINE f == [c \in C |-> v]
  <2>2. f \in [C -> V]
    BY <2>1
  <2>3. Right(f, 0)
    OBVIOUS
  <2> HIDE DEF f, Right
  <2> QED BY <2>2, <2>3
<1>2. ASSUME NEW n \in Nat, n \in S
      PROVE  n + 1 \in S
  <2>1. PICK f \in [C -> V] : Right(f, n)
    BY <1>2
  <2> DEFINE g == [c \in C |-> IF size[c] = n THEN F[f][c] ELSE f[c]]
  <2>2. g \in [C -> V]
    <3>1. F[f] \in [C -> V]
      OBVIOUS
    <3> QED BY <3>1
  <2>3. ASSUME NEW c \in C, size[c] < n + 1
        PROVE  g[c] = F[g][c]
    <3>1. \A k \in C : size[k] < size[c] => f[k] = g[k]
      BY <2>3
    <3>2. F[f][c] = F[g][c]
      <4> HIDE DEF g
      <4> QED BY <3>1, <2>2
    <3>3. g[c] = IF size[c] = n THEN F[f][c] ELSE f[c]
      OBVIOUS
    <3>4. size[c] # n => size[c] < n /\ f[c] = F[f][c]
      BY <2>1, <2>3
    <3>5. g[c] = F[f][c]
      <4> HIDE DEF g, Right
      <4> QED BY <3>3, <3>4
    <3> QED BY <3>2, <3>5
  <2> HIDE DEF g
  <2> QED BY <2>2, <2>3, n + 1 \in Nat
<1>3. top + 1 \in S
  <2>1. ASSUME NEW n \in Nat, \A k \in Nat : k < n => k \in S
        PROVE  n \in S
    <3> HIDE DEF S
    <3>1. CASE n = 0
      BY <1>1, <3>1
    <3>2. CASE n # 0
      <4>1. n - 1 \in Nat /\ n - 1 < n /\ (n - 1) + 1 = n
        BY <3>2
      <4> QED BY <1>2, <2>1, <4>1
    <3> QED BY <3>1, <3>2
  <2>2. Nat \subseteq S
    <3> DEFINE size2 == [n \in Nat |-> n]
    <3>1. size2 \in [Nat -> Nat] /\ \A n \in Nat : size2[n] = n
      OBVIOUS
    <3> HIDE DEF S, size2
    <3> QED BY <2>1, <3>1, SizeInduction
  <2> HIDE DEF S
  <2> QED BY <2>2
<1>4. PICK f \in [C -> V] : Right(f, top + 1)
  BY <1>3
<1>5. \A c \in C : f[c] = F[f][c]
  BY <1>0, <1>4
<1> QED BY <1>5

Sum(c) == c[1] + c[2]

(* The cells of the matrix, and their sizes.                               *)
LEMMA CellSums ==
  ASSUME NEW B, NEW p \in Seq(B), NEW h \in Seq(B), NEW c \in Cells(p, h)
  PROVE  /\ c = <<c[1], c[2]>> /\ c[1] \in 0..Len(p) /\ c[2] \in 0..Len(h)
         /\ Sum(c) \in 0..(Len(p) + Len(h)) /\ Sum(c) \in Nat
BY LenProperties DEF Cells, Sum

(* The three cells a cell is computed from are smaller.                    *)
LEMMA SmallerCells ==
  ASSUME NEW B, NEW p \in Seq(B), NEW h \in Seq(B), NEW i \in 0..Len(p), NEW j \in 0..Len(h),
         i # 0, j # 0
  PROVE  /\ i-1 \in 0..Len(p) /\ j-1 \in 0..Len(h) /\ i \in 1..Len(p) /\ j \in 1..Len(h)
         /\ <<i-1, j>> \in Cells(p, h) /\ Sum(<<i-1, j>>) < Sum(<<i, j>>)
         /\ <<i, j-1>> \in Cells(p, h) /\ Sum(<<i, j-1>>) < Sum(<<i, j>>)
         /\ <<i-1, j-1>> \in Cells(p, h) /\ Sum(<<i-1, j-1>>) < Sum(<<i, j>>)
BY LenProperties DEF Cells, Sum

(* The matrix is a function of its cells, and each is the distance         *)
(* computed from the smaller ones.                                         *)
LEMMA MatrixDef ==
  ASSUME NEW B, NEW p \in Seq(B), NEW h \in Seq(B)
  PROVE  /\ Matrix(p, h) \in [Cells(p, h) -> Nat]
         /\ Matrix(p, h) = [c \in Cells(p, h) |-> Distance(p, h, Matrix(p, h), c[1], c[2])]
<1> DEFINE C == Cells(p, h)
           D(f, c) == Distance(p, h, f, c[1], c[2])
           F == [f \in [C -> Nat] |-> [c \in C |-> D(f, c)]]
           size == [c \in C |-> Sum(c)]
           M == Matrix(p, h)
<1>1. size \in [C -> Nat] /\ \A c \in C : size[c] <= Len(p) + Len(h)
  BY CellSums, LenProperties
<1>2. ASSUME NEW c \in C, NEW f, \A k \in C : size[k] < size[c] => f[k] \in Nat
      PROVE  D(f, c) \in Nat
  <2>1. PICK i \in 0..Len(p), j \in 0..Len(h) : c = <<i, j>>
    BY CellSums
  <2>2. CASE i = 0 \/ j = 0
    BY <2>1, <2>2, LenProperties DEF Distance
  <2>3. CASE i # 0 /\ j # 0
    <3>1. f[<<i-1, j>>] \in Nat /\ f[<<i, j-1>>] \in Nat /\ f[<<i-1, j-1>>] \in Nat
      BY <1>2, <2>1, <2>3, SmallerCells
    <3> DEFINE u == f[<<i-1, j>>]
               l == f[<<i, j-1>>]
               g == f[<<i-1, j-1>>]
    <3>2. D(f, c) = Lesser(Lesser(u, l) + 1, g + (IF p[i].text = h[j].text THEN 0 ELSE 1))
      BY <2>1, <2>3, Zenon DEF Distance
    <3> HIDE DEF u, l, g, D
    <3> QED BY <3>1, <3>2 DEF Lesser, u, l, g
  <2> QED BY <2>2, <2>3
<1>3. F \in [[C -> Nat] -> [C -> Nat]]
  BY <1>2
<1>4. ASSUME NEW f \in [C -> Nat], NEW g \in [C -> Nat], NEW c \in C,
             \A k \in C : size[k] < size[c] => f[k] = g[k]
      PROVE  F[f][c] = F[g][c]
  <2>1. PICK i \in 0..Len(p), j \in 0..Len(h) : c = <<i, j>>
    BY CellSums
  <2>2. CASE i = 0 \/ j = 0
    BY <2>1, <2>2 DEF Distance
  <2>3. CASE i # 0 /\ j # 0
    <3>1. f[<<i-1, j>>] = g[<<i-1, j>>] /\ f[<<i, j-1>>] = g[<<i, j-1>>] /\ f[<<i-1, j-1>>] = g[<<i-1, j-1>>]
      BY <1>4, <2>1, <2>3, SmallerCells
    <3>2. D(f, c) = D(g, c)
      BY <2>1, <2>3, <3>1 DEF Distance
    <3> HIDE DEF D
    <3> QED BY <3>2
  <2> QED BY <2>2, <2>3
<1>5. PICK f \in [C -> Nat] : f = F[f]
  <2>1. \E top \in Nat : \A c \in C : size[c] <= top
    BY <1>1, LenProperties
  <2>2. Descends(F, C, Nat, size)
    <3> HIDE DEF F, C, size
    <3> QED BY <1>1, <1>3, <1>4, <2>1 DEF Descends
  <2> HIDE DEF F, C, size
  <2> QED BY <2>2, Recursion
<1>6. f = [c \in C |-> D(f, c)]
  BY <1>5
<1>7. M = [c \in C |-> D(M, c)]
  BY <1>6, Zenon DEF Matrix
<1> DEFINE S == {c \in C : M[c] \in Nat}
<1>8. ASSUME NEW c \in C, \A k \in C : size[k] < size[c] => k \in S
      PROVE  c \in S
  <2>1. D(M, c) \in Nat
    <3> HIDE DEF D, size, C, M
    <3> QED BY <1>2, <1>8
  <2> HIDE DEF D, M
  <2> QED BY <1>7, <2>1
<1>9. C \subseteq S
  <2> HIDE DEF S, M, C, size
  <2> QED BY <1>1, <1>8, SizeInduction
<1>10. M \in [C -> Nat]
  <2> HIDE DEF D, M
  <2> QED BY <1>7, <1>9
<1> QED BY <1>7, <1>10

Some(S, V) == UNION {[T -> V] : T \in SUBSET S}

(* Edits of the first y blocks *)
Edits(B, y) ==
  [delete : SUBSET (1..y), insert : Some(1..y, Seq(B)), replace : Some(1..y, B),
   thrown : BOOLEAN]

(* A function of some of S into V is a function whose domain lies in S.    *)
LEMMA SomeFunction ==
  ASSUME NEW S, NEW V, NEW f
  PROVE  f \in Some(S, V) <=> /\ f = [i \in DOMAIN f |-> f[i]] /\ DOMAIN f \subseteq S
                              /\ \A i \in DOMAIN f : f[i] \in V
<1>1. ASSUME f \in Some(S, V)
      PROVE  f = [i \in DOMAIN f |-> f[i]] /\ DOMAIN f \subseteq S /\ \A i \in DOMAIN f : f[i] \in V
  <2>1. PICK T \in SUBSET S : f \in [T -> V]
    BY <1>1 DEF Some
  <2> QED BY <2>1
<1>2. ASSUME f = [i \in DOMAIN f |-> f[i]], DOMAIN f \subseteq S, \A i \in DOMAIN f : f[i] \in V
      PROVE  f \in Some(S, V)
  <2>1. f \in [DOMAIN f -> V]
    BY <1>2
  <2> QED BY <1>2, <2>1 DEF Some
<1> QED BY <1>1, <1>2

(* With adds or replaces one entry and leaves the others.                  *)
LEMMA WithIn ==
  ASSUME NEW S, NEW V, NEW f \in Some(S, V), NEW T, S \subseteq T, NEW k \in T, NEW v \in V
  PROVE  /\ With(f, k, v) \in Some(T, V)
         /\ DOMAIN With(f, k, v) = DOMAIN f \cup {k}
         /\ With(f, k, v)[k] = v
         /\ \A i \in DOMAIN f \ {k} : With(f, k, v)[i] = f[i]
<1>1. f = [i \in DOMAIN f |-> f[i]] /\ DOMAIN f \subseteq S /\ \A i \in DOMAIN f : f[i] \in V
  BY SomeFunction
<1>2. With(f, k, v) = [i \in DOMAIN f \cup {k} |-> IF i = k THEN v ELSE f[i]]
  BY DEF With
<1>3. With(f, k, v) \in [DOMAIN f \cup {k} -> V]
  BY <1>1, <1>2
<1>4. DOMAIN f \cup {k} \in SUBSET T
  BY <1>1
<1>5. With(f, k, v) \in Some(T, V)
  BY <1>3, <1>4 DEF Some
<1> QED BY <1>2, <1>5

(* Edits of the first y blocks are edits of more blocks.                   *)
LEMMA EditsGrow ==
  ASSUME NEW B, NEW y \in Nat, NEW z \in Nat, y <= z, NEW e \in Edits(B, y)
  PROVE  e \in Edits(B, z)
<1>1. 1..y \subseteq 1..z
  OBVIOUS
<1>2. \A V : Some(1..y, V) \subseteq Some(1..z, V)
  BY <1>1 DEF Some
<1> QED BY <1>1, <1>2 DEF Edits

(* NoEdits and Thrown are edits of any number of blocks.                   *)
LEMMA NoEditsIn ==
  ASSUME NEW B, NEW y \in Nat
  PROVE  NoEdits \in Edits(B, y) /\ Thrown \in Edits(B, y) /\ Thrown.thrown /\ ~ NoEdits.thrown
<1>1. \A V : <<>> \in Some(1..y, V)
  <2> TAKE V
  <2>1. <<>> = [i \in {} |-> <<>>[i]] /\ DOMAIN <<>> = {}
    OBVIOUS
  <2> QED BY <2>1, SomeFunction
<1> QED BY <1>1 DEF NoEdits, Thrown, Edits

(* Delete names one more block; the fields it leaves.                      *)
LEMMA DeleteIn ==
  ASSUME NEW B, NEW y \in Nat, NEW z \in Nat, y <= z, NEW e \in Edits(B, y), NEW k \in 1..z
  PROVE  /\ Delete(e, k) \in Edits(B, z)
         /\ Delete(e, k) = [delete |-> e.delete \cup {k}, insert |-> e.insert,
                            replace |-> e.replace, thrown |-> e.thrown]
<1>1. e \in Edits(B, z)
  BY EditsGrow
<1>2. e.delete \cup {k} \in SUBSET (1..z)
  BY <1>1 DEF Edits
<1>3. Delete(e, k) = [delete |-> e.delete \cup {k}, insert |-> e.insert,
                      replace |-> e.replace, thrown |-> e.thrown]
  <2> DEFINE w == e.delete \cup {k}
  <2>1. Delete(e, k) = [e EXCEPT !.delete = w]
    BY DEF Delete
  <2>2. Delete(e, k) = [delete |-> w, insert |-> e.insert,
                        replace |-> e.replace, thrown |-> e.thrown]
    <3> HIDE DEF w
    <3> QED BY <1>1, <2>1 DEF Edits
  <2> QED BY <2>2
<1> QED BY <1>1, <1>2, <1>3 DEF Edits

(* Replace gives one more block; the fields it leaves.                     *)
LEMMA ReplaceIn ==
  ASSUME NEW B, NEW y \in Nat, NEW z \in Nat, y <= z, NEW e \in Edits(B, y), NEW k \in 1..z, NEW b \in B
  PROVE  /\ Replace(e, k, b) \in Edits(B, z)
         /\ Replace(e, k, b) = [delete |-> e.delete, insert |-> e.insert,
                                replace |-> With(e.replace, k, b), thrown |-> e.thrown]
<1>1. e \in Edits(B, z)
  BY EditsGrow
<1>2. With(e.replace, k, b) \in Some(1..z, B)
  BY <1>1, WithIn DEF Edits
<1>3. Replace(e, k, b) = [delete |-> e.delete, insert |-> e.insert,
                                replace |-> With(e.replace, k, b), thrown |-> e.thrown]
  BY <1>1 DEF Edits, Replace
<1> QED BY <1>1, <1>2, <1>3 DEF Edits

(* Insert adds a block behind those inserted at k; the fields it leaves.   *)
LEMMA InsertIn ==
  ASSUME NEW B, NEW y \in Nat, NEW z \in Nat, y <= z, NEW e \in Edits(B, y), NEW k \in 1..z, NEW b \in B
  PROVE  /\ Insert(e, k, b) \in Edits(B, z)
         /\ Insert(e, k, b) = [delete |-> e.delete, insert |-> With(e.insert, k, Append(Added(e, k), b)),
                                replace |-> e.replace, thrown |-> e.thrown]
<1>1. e \in Edits(B, z)
  BY EditsGrow
<1> DEFINE v == IF k \in DOMAIN e.insert THEN Append(e.insert[k], b) ELSE <<b>>
<1>2. v = Append(Added(e, k), b)
  <2>1. CASE k \in DOMAIN e.insert
    BY <2>1 DEF Added
  <2>2. CASE k \notin DOMAIN e.insert
    <3>1. Added(e, k) = <<>>
      BY <2>2 DEF Added
    <3>2. Append(<<>>, b) = <<b>>
      OBVIOUS
    <3> QED BY <2>2, <3>1, <3>2
  <2> QED BY <2>1, <2>2
<1>3. Added(e, k) \in Seq(B)
  BY <1>1, SomeFunction DEF Edits, Added
<1>4. Append(Added(e, k), b) \in Seq(B)
  BY <1>3
<1>5. With(e.insert, k, Append(Added(e, k), b)) \in Some(1..z, Seq(B))
  BY <1>1, <1>4, WithIn DEF Edits
<1>6. Insert(e, k, b) = [delete |-> e.delete, insert |-> With(e.insert, k, Append(Added(e, k), b)),
                                replace |-> e.replace, thrown |-> e.thrown]
  <2> DEFINE w == With(e.insert, k, v)
  <2>1. Insert(e, k, b) = [e EXCEPT !.insert = w]
    BY DEF Insert
  <2>2. w = With(e.insert, k, Append(Added(e, k), b))
    BY <1>2
  <2> HIDE DEF w, v
  <2> QED BY <1>1, <2>1, <2>2 DEF Edits
<1> QED BY <1>1, <1>5, <1>6 DEF Edits

(* What edits of the first n blocks insert, and that they insert nothing   *)
(* elsewhere.                                                              *)
LEMMA AddedIn ==
  ASSUME NEW B, NEW n \in Nat, NEW e \in Edits(B, n), NEW i
  PROVE  Added(e, i) \in Seq(B) /\ (i \notin 1..n => Added(e, i) = <<>>)
BY SomeFunction DEF Edits, Added

(* UpTo is the recursive function its definition describes: caulatePaper   *)
(* goes block by block.                                                    *)
LEMMA UpToDef ==
  ASSUME NEW B, NEW q \in Seq(B), NEW e, \A i \in 0..Len(q) : Added(e, i) \in Seq(B)
  PROVE  /\ UpTo(q, e) \in [0..Len(q) -> Seq(B)]
         /\ UpTo(q, e)[0] = Added(e, 0)
         /\ \A i \in 1..Len(q) : UpTo(q, e)[i] = (UpTo(q, e)[i-1] \o Kept(q, e, i)) \o Added(e, i)
<1> DEFINE C == 0..Len(q)
           V == Seq(B)
           D(f, i) == IF i = 0 THEN Added(e, 0) ELSE f[i-1] \o Kept(q, e, i) \o Added(e, i)
           F == [f \in [C -> V] |-> [i \in C |-> D(f, i)]]
           size == [i \in C |-> i]
           U == UpTo(q, e)
<1>0. Len(q) \in Nat /\ C \subseteq Nat
  BY LenProperties
<1>1. size \in [C -> Nat] /\ (\A i \in C : size[i] <= Len(q)) /\ (\A i \in C : size[i] = i)
  BY <1>0
<1>2. ASSUME NEW i \in C, NEW f, i # 0 => f[i-1] \in V
      PROVE  D(f, i) \in V
  <2>1. CASE i = 0
    BY <2>1, 0 \in C
  <2>2. CASE i # 0
    <3>1. i \in 1..Len(q)
      BY <2>2, <1>0
    <3>2. q[i] \in B
      BY <3>1, ElementOfSeq
    <3>3. Kept(q, e, i) \in Seq(B)
      BY <3>2 DEF Kept
    <3>4. (f[i-1] \o Kept(q, e, i)) \in Seq(B) 
      BY <1>2, <2>2, <3>3
    <3> QED BY <2>2, <3>4
  <2> QED BY <2>1, <2>2
<1>3. F \in [[C -> V] -> [C -> V]]
  <2>1. ASSUME NEW f \in [C -> V], NEW i \in C
        PROVE  D(f, i) \in V
    <3>1. i # 0 => i - 1 \in C
      BY <1>0
    <3> HIDE DEF D, C, V
    <3> QED BY <1>2, <3>1
  <2> HIDE DEF D, C, V
  <2> QED BY <2>1
<1>4. ASSUME NEW f \in [C -> V], NEW g \in [C -> V], NEW i \in C,
             \A k \in C : size[k] < size[i] => f[k] = g[k]
      PROVE  F[f][i] = F[g][i]
  <2>1. i # 0 => f[i-1] = g[i-1]
    <3>1. i # 0 => i - 1 \in C /\ i - 1 < i
      BY <1>0
    <3> HIDE DEF C, size
    <3> QED BY <1>1, <1>4, <3>1
  <2>2. D(f, i) = D(g, i)
    BY <2>1
  <2> HIDE DEF D, C, V
  <2> QED BY <2>2
<1>5. PICK f \in [C -> V] : f = F[f]
  <2>1. \E top \in Nat : \A i \in C : size[i] <= top
    BY <1>0, <1>1
  <2>2. V # {}
    BY <<>> \in Seq(B)
  <2> HIDE DEF F, C, size, V
  <2>3. Descends(F, C, V, size)
    BY <1>1, <1>3, <1>4, <2>1, <2>2 DEF Descends
  <2> QED BY <2>3, Recursion
<1>6. f = [i \in C |-> D(f, i)]
  BY <1>5
<1>7. U = [i \in C |-> D(U, i)]
  BY <1>6, Zenon DEF UpTo
<1> DEFINE S == {i \in C : U[i] \in V}
<1>8. ASSUME NEW i \in C, \A k \in C : size[k] < size[i] => k \in S
      PROVE  i \in S
  <2>1. i # 0 => U[i-1] \in V
    <3>1. i # 0 => i - 1 \in C /\ i - 1 < i
      BY <1>0
    <3> HIDE DEF C, size, U, V
    <3> QED BY <1>1, <1>8, <3>1
  <2>2. D(U, i) \in V
    <3> HIDE DEF D, size, C, U, V
    <3> QED BY <1>2, <2>1
  <2> HIDE DEF D, U, C, V
  <2> QED BY <1>7, <2>2
<1>9. C \subseteq S
  <2> HIDE DEF S, U, C, size, V
  <2> QED BY <1>1, <1>8, SizeInduction
<1>10. U \in [C -> V]
  <2> HIDE DEF D, U, C, V
  <2> QED BY <1>7, <1>9
<1>11. \A i \in C : U[i] = D(U, i)
  <2> HIDE DEF D, U, C, V
  <2> QED BY <1>7
<1>12. 0 \in C /\ \A i \in 1..Len(q) : i \in C /\ i # 0
  BY <1>0
<1>13. U[0] = Added(e, 0)
  <2> HIDE DEF U, C, V
  <2> QED BY <1>11, <1>12
<1>14. \A i \in 1..Len(q) : U[i] = (U[i-1] \o Kept(q, e, i)) \o Added(e, i)
  <2> HIDE DEF U, C, V
  <2> QED BY <1>11, <1>12, Zenon
<1> QED BY <1>10, <1>13, <1>14

(* What has come of the first n blocks depends on those and their edits    *)
(* only.                                                                   *)
LEMMA UpToLocal ==
  ASSUME NEW B, NEW q \in Seq(B), NEW r \in Seq(B), NEW e, NEW f,
         \A i \in 0..Len(q) : Added(e, i) \in Seq(B),
         \A i \in 0..Len(r) : Added(f, i) \in Seq(B),
         NEW n \in Nat, n <= Len(q), n <= Len(r),
         \A i \in 0..n : Added(e, i) = Added(f, i),
         \A i \in 1..n : Kept(q, e, i) = Kept(r, f, i)
  PROVE  UpTo(q, e)[n] = UpTo(r, f)[n]
<1> DEFINE C == 0..n
           size == [i \in C |-> i]
           S == {i \in C : UpTo(q, e)[i] = UpTo(r, f)[i]}
<1>0. /\ \A i \in C : i = 0 \/ (i - 1 \in C /\ i - 1 < i /\ i \in 1..n /\ i \in 1..Len(q) /\ i \in 1..Len(r))
      /\ C \subseteq Nat
  BY LenProperties
<1>1. size \in [C -> Nat] /\ \A i \in C : size[i] = i
  BY <1>0
<1>2. ASSUME NEW i \in C, \A k \in C : size[k] < size[i] => k \in S
      PROVE  i \in S
  <2>1. CASE i = 0
    BY <2>1, UpToDef
  <2>2. CASE i # 0
    <3>1. UpTo(q, e)[i-1] = UpTo(r, f)[i-1]
      <4> HIDE DEF C, size
      <4> QED BY <1>0, <1>1, <1>2, <2>2
    <3>2. /\ UpTo(q, e)[i] = (UpTo(q, e)[i-1] \o Kept(q, e, i)) \o Added(e, i)
          /\ UpTo(r, f)[i] = (UpTo(r, f)[i-1] \o Kept(r, f, i)) \o Added(f, i)
      <4>1. i \in 1..Len(q) /\ i \in 1..Len(r)
        BY <1>0, <2>2
      <4>2. UpTo(q, e)[i] = (UpTo(q, e)[i-1] \o Kept(q, e, i)) \o Added(e, i)
        BY <4>1, UpToDef
      <4>3. UpTo(r, f)[i] = (UpTo(r, f)[i-1] \o Kept(r, f, i)) \o Added(f, i)
        BY <4>1, UpToDef
      <4> QED BY <4>2, <4>3
    <3>3. Kept(q, e, i) = Kept(r, f, i) /\ Added(e, i) = Added(f, i)
      BY <1>0, <2>2
    <3> QED BY <3>1, <3>2, <3>3
  <2> QED BY <2>1, <2>2
<1>3. C \subseteq S
  <2> HIDE DEF C, S, size
  <2> QED BY <1>1, <1>2, SizeInduction
<1> QED BY <1>3

(* Prefixes at distance 0 have the same texts: where the walk stops there  *)
(* is nothing left to do.                                                  *)
LEMMA NearPapersAreEqual ==
  ASSUME NEW B, NEW p \in Seq(B), NEW h \in Seq(B), NEW y \in 0..Len(p), NEW x \in 0..Len(h),
         Matrix(p, h)[<<y, x>>] = 0
  PROVE  y = x /\ \A i \in 1..y : p[i].text = h[i].text
<1> DEFINE C == Cells(p, h)
           size == [c \in C |-> Sum(c)]
           d == Matrix(p, h)
           Equal(i, j) == d[<<i, j>>] = 0 => i = j /\ \A k \in 1..i : p[k].text = h[k].text
           S == {c \in C : Equal(c[1], c[2])}
<1>1. size \in [C -> Nat] /\ \A c \in C : size[c] = Sum(c)
  BY CellSums
<1>2. ASSUME NEW c \in C, \A k \in C : size[k] < size[c] => k \in S
      PROVE  c \in S
  <2>1. PICK i \in 0..Len(p), j \in 0..Len(h) : c = <<i, j>>
    BY CellSums
  <2>0. Len(p) \in Nat /\ Len(h) \in Nat /\ i \in Nat /\ j \in Nat
    BY LenProperties
  <2>2. d[<<i, j>>] = Distance(p, h, d, i, j)
    <3> HIDE DEF d
    <3>1. d[c] = Distance(p, h, d, c[1], c[2])
      BY MatrixDef DEF d
    <3> QED BY <2>1, <3>1
  <2>3. CASE i = 0 \/ j = 0
    <3>1. d[<<i, j>>] = 0 => i = 0 /\ j = 0
      <4> HIDE DEF d
      <4> QED BY <2>2, <2>3 DEF Distance
    <3>2. \A k \in 1..0 : p[k].text = h[k].text
      OBVIOUS
    <3>3. Equal(i, j)
      <4> HIDE DEF d
      <4> QED BY <3>1, <3>2
    <3> HIDE DEF Equal
    <3> QED BY <2>1, <3>3
  <2>4. CASE i # 0 /\ j # 0
    <3>1. d[<<i-1, j>>] \in Nat /\ d[<<i, j-1>>] \in Nat /\ d[<<i-1, j-1>>] \in Nat
      <4> HIDE DEF d
      <4> QED BY MatrixDef, SmallerCells, <2>4 DEF d
    <3> DEFINE u == d[<<i-1, j>>]
               l == d[<<i, j-1>>]
               g == d[<<i-1, j-1>>]
    <3>2. d[<<i, j>>] = Lesser(Lesser(u, l) + 1, g + (IF p[i].text = h[j].text THEN 0 ELSE 1))
      <4> HIDE DEF d
      <4> QED BY <2>2, <2>4, Zenon DEF Distance
    <3>3. d[<<i, j>>] = 0 => g = 0 /\ p[i].text = h[j].text
      <4> HIDE DEF u, l, g, d
      <4>1. u \in Nat /\ l \in Nat /\ g \in Nat
        BY <3>1 DEF u, l, g
      <4> QED BY <4>1, <3>2 DEF Lesser
    <3>4. Equal(i-1, j-1)
      <4>1. <<i-1, j-1>> \in C /\ size[<<i-1, j-1>>] < size[c]
        BY <2>1, <2>4, SmallerCells
      <4>2. <<i-1, j-1>> \in S
        <5> HIDE DEF C, size, S
        <5> QED BY <1>2, <4>1
      <4> QED BY <4>2
    <3>5. ASSUME d[<<i, j>>] = 0
          PROVE  i = j /\ \A k \in 1..i : p[k].text = h[k].text
      <4>1. i - 1 = j - 1 /\ p[i].text = h[j].text /\ \A k \in 1..(i-1) : p[k].text = h[k].text
        <5> HIDE DEF d
        <5> QED BY <3>3, <3>4, <3>5
      <4>2. i = j
        BY <2>0, <4>1
      <4>3. \A k \in 1..i : k = i \/ k \in 1..(i-1)
        BY <2>0
      <4> QED BY <4>1, <4>2, <4>3
    <3> QED BY <2>1, <3>5
  <2> QED BY <2>3, <2>4
<1>3. C \subseteq S
  <2> HIDE DEF C, S, size
  <2> QED BY <1>1, <1>2, SizeInduction
<1>4. <<y, x>> \in C
  BY DEF Cells
<1>5. Equal(y, x)
  BY <1>3, <1>4
<1> QED BY <1>5

(* Papers have the same texts where they are as long and each block has    *)
(* the text of the other's.                                                *)
LEMMA SameTexts ==
  ASSUME NEW B, NEW s \in Seq(B), NEW t \in Seq(B)
  PROVE  Texts(s) = Texts(t) <=> Len(s) = Len(t) /\ \A i \in 1..Len(s) : s[i].text = t[i].text
<1>1. /\ DOMAIN s = 1..Len(s) /\ Len(s) \in Nat
      /\ DOMAIN t = 1..Len(t) /\ Len(t) \in Nat
  BY LenProperties
<1>2. Texts(s) = [i \in 1..Len(s) |-> s[i].text] /\ Texts(t) = [i \in 1..Len(t) |-> t[i].text]
  BY <1>1 DEF Texts
<1>3. ASSUME Texts(s) = Texts(t)
      PROVE  Len(s) = Len(t) /\ \A i \in 1..Len(s) : s[i].text = t[i].text
  <2>1. 1..Len(s) = 1..Len(t)
    <3>1. DOMAIN Texts(s) = 1..Len(s) /\ DOMAIN Texts(t) = 1..Len(t)
      BY <1>2
    <3> QED BY <1>3, <3>1
  <2>2. Len(s) = Len(t)
    <3> DEFINE m == Len(s)
               n == Len(t)
    <3>1. m \in Nat /\ n \in Nat /\ 1..m = 1..n
      BY <1>1, <2>1
    <3> HIDE DEF m, n
    <3>2. m \in 1..m \/ m = 0
      BY <3>1
    <3>3. n \in 1..n \/ n = 0
      BY <3>1
    <3>4. m = n
      BY <3>1, <3>2, <3>3
    <3> QED BY <3>4 DEF m, n
  <2>3. ASSUME NEW i \in 1..Len(s)
        PROVE  s[i].text = t[i].text
    <3>1. Texts(s)[i] = s[i].text /\ Texts(t)[i] = t[i].text
      BY <1>2, <2>1, Zenon
    <3> QED BY <1>3, <3>1
  <2> QED BY <2>2, <2>3
<1>4. ASSUME Len(s) = Len(t), \A i \in 1..Len(s) : s[i].text = t[i].text
      PROVE  Texts(s) = Texts(t)
  BY <1>2, <1>4, Zenon
<1> QED BY <1>3, <1>4

(* Papers of the same texts, one behind the other.                         *)
LEMMA TextsJoin ==
  ASSUME NEW B, NEW s \in Seq(B), NEW t \in Seq(B), NEW u \in Seq(B), NEW w \in Seq(B),
         Texts(s) = Texts(t), Texts(u) = Texts(w)
  PROVE  Texts(s \o u) = Texts(t \o w)
<1>1. /\ Len(s) = Len(t) /\ \A i \in 1..Len(s) : s[i].text = t[i].text
      /\ Len(u) = Len(w) /\ \A i \in 1..Len(u) : u[i].text = w[i].text
  BY SameTexts
<1>2. /\ Len(s) \in Nat /\ Len(u) \in Nat
      /\ s \o u \in Seq(B) /\ t \o w \in Seq(B)
      /\ Len(s \o u) = Len(s) + Len(u) /\ Len(t \o w) = Len(t) + Len(w)
      /\ \A i \in 1..(Len(s) + Len(u)) : (s \o u)[i] = IF i <= Len(s) THEN s[i] ELSE u[i - Len(s)]
      /\ \A i \in 1..(Len(t) + Len(w)) : (t \o w)[i] = IF i <= Len(t) THEN t[i] ELSE w[i - Len(t)]
  BY LenProperties, ConcatProperties
<1>3. ASSUME NEW i \in 1..Len(s \o u)
      PROVE  (s \o u)[i].text = (t \o w)[i].text
  <2>1. i \in 1..(Len(s) + Len(u)) /\ i \in 1..(Len(t) + Len(w))
    BY <1>1, <1>2
  <2>2. CASE i <= Len(s)
    <3>1. i \in 1..Len(s) /\ (s \o u)[i] = s[i] /\ (t \o w)[i] = t[i]
      BY <1>1, <1>2, <2>1, <2>2
    <3> QED BY <1>1, <3>1
  <2>3. CASE ~ (i <= Len(s))
    <3>1. i - Len(s) \in 1..Len(u)
      BY <1>2, <2>1, <2>3
    <3>2. (s \o u)[i] = u[i - Len(s)] /\ (t \o w)[i] = w[i - Len(s)]
      BY <1>1, <1>2, <2>1, <2>3
    <3> QED BY <1>1, <3>1, <3>2
  <2> QED BY <2>2, <2>3
<1>4. Len(s \o u) = Len(t \o w)
  BY <1>1, <1>2
<1> QED BY <1>2, <1>3, <1>4, SameTexts

(* A step of the walk back makes edits of the first y blocks from such     *)
(* edits.                                                                  *)
LEMMA BackIn ==
  ASSUME NEW B, NEW p \in Seq(B), NEW h \in Seq(B), NEW d, NEW f,
         NEW y \in 0..Len(p), NEW x \in 0..Len(h), NEW n \in Nat, y <= n,
         y # 0 /\ x # 0 => /\ f[<<y-1, x>>] \in Edits(B, n) /\ f[<<y, x-1>>] \in Edits(B, n)
                          /\ f[<<y-1, x-1>>] \in Edits(B, n)
  PROVE  Back(p, h, d, f, y, x) \in Edits(B, n)
<1> DEFINE e == Back(p, h, d, f, y, x)
<1>1. NoEdits \in Edits(B, n) /\ Thrown \in Edits(B, n)
  BY NoEditsIn
<1>2. ASSUME y # 0, x # 0
      PROVE  /\ Delete(f[<<y-1, x>>], y) \in Edits(B, n) /\ Insert(f[<<y, x-1>>], y, h[x]) \in Edits(B, n)
             /\ f[<<y-1, x-1>>] \in Edits(B, n) /\ Replace(f[<<y-1, x-1>>], y, h[x]) \in Edits(B, n)
  <2>1. x \in 1..Len(h) /\ y \in 1..n /\ n <= n
    BY <1>2, LenProperties
  <2>2. h[x] \in B
    BY <2>1, ElementOfSeq
  <2>3. Delete(f[<<y-1, x>>], y) \in Edits(B, n)
    BY <1>2, <2>1, DeleteIn
  <2>4. Insert(f[<<y, x-1>>], y, h[x]) \in Edits(B, n)
    BY <1>2, <2>1, <2>2, InsertIn
  <2>5. Replace(f[<<y-1, x-1>>], y, h[x]) \in Edits(B, n)
    BY <1>2, <2>1, <2>2, ReplaceIn
  <2> QED BY <1>2, <2>3, <2>4, <2>5
<1>3. \/ d[<<y, x>>] = 0 /\ e = NoEdits
      \/ e = Thrown
      \/ /\ y # 0 /\ x # 0
         /\ \/ e = Delete(f[<<y-1, x>>], y)
            \/ e = Insert(f[<<y, x-1>>], y, h[x])
            \/ p[y].text = h[x].text /\ e = f[<<y-1, x-1>>]
            \/ e = Replace(f[<<y-1, x-1>>], y, h[x])
  BY Zenon DEF Back
<1> HIDE DEF e
<1>4. e \in Edits(B, n)
  BY <1>1, <1>2, <1>3
<1> QED BY <1>4 DEF e

(* The walk is the function its definition describes, and its edits at a   *)
(* cell name the blocks of its prefix only.                                *)
LEMMA WalkDef ==
  ASSUME NEW B, NEW p \in Seq(B), NEW h \in Seq(B)
  PROVE  \E back : /\ back = [c \in Cells(p, h) |-> Back(p, h, Matrix(p, h), back, c[1], c[2])]
                   /\ Walk(p, h) = back[<<Len(p), Len(h)>>]
                   /\ \A c \in Cells(p, h) : back[c] \in Edits(B, c[1])
<1> DEFINE C == Cells(p, h)
           V == Edits(B, Len(p))
           d == Matrix(p, h)
           D(f, c) == Back(p, h, d, f, c[1], c[2])
           F == [f \in [C -> V] |-> [c \in C |-> D(f, c)]]
           size == [c \in C |-> Sum(c)]
           W == CHOOSE back : back = [c \in C |-> D(back, c)]
<1>1. /\ size \in [C -> Nat] /\ (\A c \in C : size[c] <= Len(p) + Len(h)) /\ (\A c \in C : size[c] = Sum(c))
      /\ Len(p) \in Nat /\ Len(h) \in Nat
  BY CellSums, LenProperties
<1>2. ASSUME NEW y \in 0..Len(p), NEW x \in 0..Len(h), y # 0, x # 0
      PROVE  /\ <<y-1, x>> \in C /\ size[<<y-1, x>>] < size[<<y, x>>]
             /\ <<y, x-1>> \in C /\ size[<<y, x-1>>] < size[<<y, x>>]
             /\ <<y-1, x-1>> \in C /\ size[<<y-1, x-1>>] < size[<<y, x>>]
  <2>1. <<y, x>> \in C
    BY DEF Cells
  <2>2. /\ <<y-1, x>> \in C /\ Sum(<<y-1, x>>) < Sum(<<y, x>>)
        /\ <<y, x-1>> \in C /\ Sum(<<y, x-1>>) < Sum(<<y, x>>)
        /\ <<y-1, x-1>> \in C /\ Sum(<<y-1, x-1>>) < Sum(<<y, x>>)
    BY <1>2, SmallerCells
  <2> HIDE DEF size, C
  <2> QED BY <1>1, <2>1, <2>2
<1>3. F \in [[C -> V] -> [C -> V]]
  <2>1. ASSUME NEW f \in [C -> V], NEW c \in C
        PROVE  D(f, c) \in V
    <3>1. PICK y \in 0..Len(p), x \in 0..Len(h) : c = <<y, x>>
      BY CellSums
    <3>2. y # 0 /\ x # 0 => /\ f[<<y-1, x>>] \in V /\ f[<<y, x-1>>] \in V /\ f[<<y-1, x-1>>] \in V
      <4> HIDE DEF C, V, size
      <4> QED BY <1>2
    <3>3. Back(p, h, d, f, y, x) \in V
      <4> HIDE DEF d
      <4>1. y <= Len(p)
        BY <1>1
      <4> QED BY <1>1, <3>2, <4>1, BackIn
    <3> HIDE DEF d
    <3> QED BY <3>1, <3>3
  <2> HIDE DEF D, C, V
  <2> QED BY <2>1
<1>4. ASSUME NEW f \in [C -> V], NEW g \in [C -> V], NEW c \in C,
             \A k \in C : size[k] < size[c] => f[k] = g[k]
      PROVE  F[f][c] = F[g][c]
  <2>1. PICK y \in 0..Len(p), x \in 0..Len(h) : c = <<y, x>>
    BY CellSums
  <2>2. CASE y = 0 \/ x = 0
    <3>1. D(f, c) = D(g, c)
      BY <2>1, <2>2, Zenon DEF Back
    <3> HIDE DEF D, V, C
    <3> QED BY <3>1
  <2>3. CASE y # 0 /\ x # 0
    <3>2. f[<<y-1, x>>] = g[<<y-1, x>>] /\ f[<<y, x-1>>] = g[<<y, x-1>>] /\ f[<<y-1, x-1>>] = g[<<y-1, x-1>>]
      <4> HIDE DEF C, size
      <4> QED BY <1>2, <1>4, <2>1, <2>3
    <3>3. Back(p, h, d, f, y, x) = Back(p, h, d, g, y, x)
      <4> HIDE DEF d
      <4> QED BY <3>2, Zenon DEF Back
    <3>4. D(f, c) = D(g, c)
      <4> HIDE DEF d
      <4> QED BY <2>1, <3>3
    <3> HIDE DEF D, V, C
    <3> QED BY <3>4
  <2> QED BY <2>2, <2>3
<1>5. PICK f \in [C -> V] : f = F[f]
  <2>1. \E top \in Nat : \A c \in C : size[c] <= top
    BY <1>1
  <2>2. V # {}
    BY <1>1, NoEditsIn
  <2> HIDE DEF F, C, size, V
  <2>3. Descends(F, C, V, size)
    BY <1>1, <1>3, <1>4, <2>1, <2>2 DEF Descends
  <2> QED BY <2>3, Recursion
<1>6. f = [c \in C |-> D(f, c)]
  BY <1>5
<1>7. W = [c \in C |-> D(W, c)]
  <2> HIDE DEF D, C, V, F
  <2> QED BY <1>6, Zenon
<1>8. Walk(p, h) = W[<<Len(p), Len(h)>>]
  BY Zenon DEF Walk
<1> DEFINE S == {c \in C : W[c] \in Edits(B, c[1])}
<1>9. ASSUME NEW c \in C, \A k \in C : size[k] < size[c] => k \in S
      PROVE  c \in S
  <2>1. PICK y \in 0..Len(p), x \in 0..Len(h) : c = <<y, x>>
    BY CellSums
  <2>2. y # 0 /\ x # 0 => W[<<y-1, x>>] \in Edits(B, y-1) /\ W[<<y, x-1>>] \in Edits(B, y) /\ W[<<y-1, x-1>>] \in Edits(B, y-1)
    <3>1. y # 0 /\ x # 0 => <<y-1, x>> \in S /\ <<y, x-1>> \in S /\ <<y-1, x-1>> \in S
      <4> HIDE DEF C, size, S
      <4> QED BY <1>2, <1>9, <2>1
    <3> HIDE DEF W
    <3> QED BY <3>1
  <2>3. y \in Nat /\ (y # 0 => y - 1 \in Nat /\ y - 1 <= y) /\ y <= y
    BY <1>1
  <2>4. y # 0 /\ x # 0 => W[<<y-1, x>>] \in Edits(B, y) /\ W[<<y, x-1>>] \in Edits(B, y) /\ W[<<y-1, x-1>>] \in Edits(B, y)
    <3> HIDE DEF W
    <3> QED BY <2>2, <2>3, EditsGrow
  <2>5. Back(p, h, d, W, y, x) \in Edits(B, y)
    <3> HIDE DEF W, d
    <3> QED BY <2>3, <2>4, BackIn
  <2>6. W[c] = Back(p, h, d, W, y, x)
    <3>1. W[c] = D(W, c)
      <4> HIDE DEF D, W, C
      <4> QED BY <1>7
    <3> HIDE DEF W, d
    <3> QED BY <2>1, <3>1
  <2> HIDE DEF W, d
  <2> QED BY <2>1, <2>5, <2>6
<1>10. C \subseteq S
  <2> HIDE DEF S, C, size
  <2> QED BY <1>1, <1>9, SizeInduction
<1>11. \A c \in C : W[c] \in Edits(B, c[1])
  <2> HIDE DEF W, C
  <2> QED BY <1>10
<1> HIDE DEF W
<1> QED BY <1>7, <1>8, <1>11

Adds(e, B) == \A i : Added(e, i) \in Seq(B)

Extend(s, q, e, i) == (s \o Kept(q, e, i)) \o Added(e, i)

(* One block more, with the sum kept opaque.                               *)
LEMMA UpToStep ==
  ASSUME NEW B, NEW q \in Seq(B), NEW e, Adds(e, B), NEW i \in 1..Len(q)
  PROVE  /\ UpTo(q, e)[i] = Extend(UpTo(q, e)[i-1], q, e, i)
         /\ UpTo(q, e)[i] \in Seq(B) /\ UpTo(q, e)[i-1] \in Seq(B)
<1>1. \A k \in 0..Len(q) : Added(e, k) \in Seq(B)
  BY DEF Adds
<1>2. UpTo(q, e)[i] = (UpTo(q, e)[i-1] \o Kept(q, e, i)) \o Added(e, i)
  BY <1>1, UpToDef
<1>3. UpTo(q, e) \in [0..Len(q) -> Seq(B)]
  BY <1>1, UpToDef
<1>4. i \in 0..Len(q) /\ i - 1 \in 0..Len(q)
  BY LenProperties
<1>5. UpTo(q, e)[i] = Extend(UpTo(q, e)[i-1], q, e, i)
  BY <1>2, Zenon DEF Extend
<1> QED BY <1>3, <1>4, <1>5

Alike(q, e, r, f, n) ==
  /\ n \in Nat /\ n <= Len(q) /\ n <= Len(r)
  /\ \A i \in 0..n : Added(e, i) = Added(f, i)
  /\ \A i \in 1..n : Kept(q, e, i) = Kept(r, f, i)

(* Edits that do the same to the first n blocks give the same.             *)
LEMMA AlikeUpTo ==
  ASSUME NEW B, NEW q \in Seq(B), NEW r \in Seq(B), NEW e, NEW f, Adds(e, B), Adds(f, B),
         NEW n, Alike(q, e, r, f, n)
  PROVE  UpTo(q, e)[n] = UpTo(r, f)[n]
<1>1. \A k \in 0..Len(q) : Added(e, k) \in Seq(B)
  BY DEF Adds
<1>2. \A k \in 0..Len(r) : Added(f, k) \in Seq(B)
  BY DEF Adds
<1> QED BY <1>1, <1>2, UpToLocal DEF Alike

(* Edits of n blocks insert blocks.                                        *)
LEMMA EditsAdd ==
  ASSUME NEW B, NEW n \in Nat, NEW e \in Edits(B, n)
  PROVE  Adds(e, B)
BY AddedIn DEF Adds

(* The replaces give a paper of the same length, the replaced blocks in    *)
(* place.                                                                  *)
LEMMA ReplacedIsPaper ==
  ASSUME NEW B, NEW p \in Seq(B), NEW n \in Nat, NEW r \in Some(1..n, B), p # <<>> \/ r = <<>>
  PROVE  /\ Replaced(p, r) \in Seq(B) /\ Len(Replaced(p, r)) = Len(p)
         /\ \A i \in 1..Len(p) : Replaced(p, r)[i] = IF i \in DOMAIN r THEN r[i] ELSE p[i]
<1>1. Len(p) \in Nat /\ DOMAIN p = 1..Len(p) /\ \A i \in 1..Len(p) : p[i] \in B
  BY LenProperties, ElementOfSeq
<1>2. \A i \in DOMAIN r : r[i] \in B
  BY SomeFunction
<1>3. ~ (p = <<>> /\ 1 \in DOMAIN r)
  OBVIOUS
<1> DEFINE q == [i \in 1..Len(p) |-> IF i \in DOMAIN r THEN r[i] ELSE p[i]]
<1>4. Replaced(p, r) = q
  BY <1>1, <1>3, Zenon DEF Replaced
<1>5. q \in [1..Len(p) -> B]
  BY <1>1, <1>2
<1>6. q \in Seq(B) /\ Len(q) = Len(p)
  BY <1>1, <1>5
<1> QED BY <1>4, <1>6

(* Two lists of edits that agree on the first k blocks turn them into the  *)
(* same, whatever they say of the block at y.                              *)
LEMMA OneMore ==
  ASSUME NEW B, NEW p \in Seq(B), NEW y \in 1..Len(p), NEW e \in Edits(B, y),
         NEW e0 \in Edits(B, y),
         NEW k \in {y - 1, y},
         \A i \in 0..k : Added(e, i) = Added(e0, i),
         \A i \in 1..k : i \in e.delete <=> i \in e0.delete,
         \A i \in 1..k : i \in DOMAIN e.replace <=> i \in DOMAIN e0.replace,
         \A i \in 1..k : i \in DOMAIN e.replace => e.replace[i] = e0.replace[i]
  PROVE  UpTo(Replaced(p, e.replace), e)[k] = UpTo(Replaced(p, e0.replace), e0)[k]
<1> DEFINE q == Replaced(p, e.replace)
           r == Replaced(p, e0.replace)
<1>1. p # <<>> /\ Len(p) \in Nat /\ y \in Nat /\ k \in Nat /\ k <= Len(p)
  BY LenProperties
<1>2. e.replace \in Some(1..y, B) /\ e0.replace \in Some(1..y, B)
  BY DEF Edits
<1>3. /\ q \in Seq(B) /\ Len(q) = Len(p)
      /\ \A i \in 1..Len(p) : q[i] = IF i \in DOMAIN e.replace THEN e.replace[i] ELSE p[i]
  BY <1>1, <1>2, ReplacedIsPaper
<1>4. /\ r \in Seq(B) /\ Len(r) = Len(p)
      /\ \A i \in 1..Len(p) : r[i] = IF i \in DOMAIN e0.replace THEN e0.replace[i] ELSE p[i]
  BY <1>1, <1>2, ReplacedIsPaper
<1> HIDE DEF q, r
<1>5. \A i \in 1..k : q[i] = r[i]
  BY <1>1, <1>3, <1>4
<1>6. \A i \in 1..k : Kept(q, e, i) = Kept(r, e0, i)
  BY <1>5 DEF Kept
<1>7. Adds(e, B) /\ Adds(e0, B)
  BY <1>1, EditsAdd
<1>8. Alike(q, e, r, e0, k)
  BY <1>1, <1>3, <1>4, <1>6 DEF Alike
<1>9. UpTo(q, e)[k] = UpTo(r, e0)[k]
  BY <1>3, <1>4, <1>7, <1>8, AlikeUpTo
<1> QED BY <1>9 DEF q, r

(* The last step of UpTo for the first y blocks after edits e.             *)
LEMMA Behind ==
  ASSUME NEW B, NEW p \in Seq(B), NEW y \in 1..Len(p), NEW e \in Edits(B, y), NEW q,
         q = Replaced(p, e.replace)
  PROVE  /\ UpTo(q, e)[y] = Extend(UpTo(q, e)[y-1], q, e, y)
         /\ UpTo(q, e)[y-1] \in Seq(B) /\ UpTo(q, e)[y] \in Seq(B)
         /\ q[y] = IF y \in DOMAIN e.replace THEN e.replace[y] ELSE p[y]
         /\ q[y] \in B
<1>1. p # <<>> /\ Len(p) \in Nat /\ y \in Nat /\ y - 1 \in 0..Len(p) /\ y \in 0..Len(p)
  BY LenProperties
<1>2. e.replace \in Some(1..y, B)
  BY DEF Edits
<1>3. /\ q \in Seq(B) /\ Len(q) = Len(p)
      /\ \A i \in 1..Len(p) : q[i] = IF i \in DOMAIN e.replace THEN e.replace[i] ELSE p[i]
  BY <1>1, <1>2, ReplacedIsPaper
<1>4. Adds(e, B)
  BY <1>1, EditsAdd
<1>5. q[y] \in B
  BY <1>3, ElementOfSeq
<1>6. /\ UpTo(q, e)[y] = Extend(UpTo(q, e)[y-1], q, e, y)
      /\ UpTo(q, e)[y-1] \in Seq(B) /\ UpTo(q, e)[y] \in Seq(B)
  BY <1>3, <1>4, UpToStep
<1> QED BY <1>3, <1>5, <1>6

(* A deleted block without inserts adds nothing.                           *)
LEMMA ExtendNone ==
  ASSUME NEW B, NEW s \in Seq(B), NEW q, NEW e, NEW i, Kept(q, e, i) = <<>>, Added(e, i) = <<>>
  PROVE  Extend(s, q, e, i) = s
<1>1. s \o <<>> = s
  BY ConcatEmptySeq
<1> QED BY <1>1 DEF Extend

Longer(s, b) == s \o <<b>>

(* A kept block without inserts adds itself.                               *)
LEMMA ExtendOne ==
  ASSUME NEW B, NEW s \in Seq(B), NEW b \in B, NEW q, NEW e, NEW i,
         Kept(q, e, i) = <<b>>, Added(e, i) = <<>>
  PROVE  Extend(s, q, e, i) = Longer(s, b)
<1>1. s \o <<b>> \in Seq(B)
  OBVIOUS
<1>2. (s \o <<b>>) \o <<>> = s \o <<b>>
  BY <1>1, ConcatEmptySeq
<1> QED BY <1>2, Zenon DEF Extend, Longer

(* One more block inserted at a position comes last.                       *)
LEMMA ExtendMore ==
  ASSUME NEW B, NEW s \in Seq(B), NEW b \in B, NEW q, NEW e, NEW r, NEW f, NEW i,
         Kept(q, e, i) = Kept(r, f, i), Kept(r, f, i) \in Seq(B),
         Added(f, i) \in Seq(B), Added(e, i) = Append(Added(f, i), b)
  PROVE  Extend(s, q, e, i) = Longer(Extend(s, r, f, i), b)
<1> DEFINE k == Kept(r, f, i)
           a == Added(f, i)
<1>1. Extend(s, q, e, i) = (s \o k) \o Append(a, b) /\ Extend(s, r, f, i) = (s \o k) \o a
  BY Zenon DEF Extend
<1>2. k \in Seq(B) /\ a \in Seq(B)
  OBVIOUS
<1> HIDE DEF k, a
<1>3. s \o k \in Seq(B) /\ <<b>> \in Seq(B)
  BY <1>2
<1>4. Append(a, b) = a \o <<b>>
  BY <1>2, AppendIsConcat
<1>5. (s \o k) \o (a \o <<b>>) = ((s \o k) \o a) \o <<b>>
  BY <1>2, <1>3, ConcatAssociative
<1> QED BY <1>1, <1>4, <1>5, Zenon DEF Longer

(* A prefix is the one before and its last block.                          *)
LEMMA LongerPrefix ==
  ASSUME NEW B, NEW h \in Seq(B), NEW x \in 1..Len(h)
  PROVE  SubSeq(h, 1, x) = Longer(SubSeq(h, 1, x-1), h[x]) /\ h[x] \in B
<1>1. h[x] \in B /\ Len(h) \in Nat /\ x \in Nat
  BY ElementOfSeq, LenProperties
<1>2. SubSeq(h, 1, x) = SubSeq(h, 1, x-1) \o <<h[x]>>
  BY <1>1, SubSeqProperties
<1> QED BY <1>1, <1>2, Zenon DEF Longer

(* Blocks of one text behind papers of the same texts.                     *)
LEMMA LongerSame ==
  ASSUME NEW B, NEW s \in Seq(B), NEW t \in Seq(B), NEW b \in B, NEW c \in B,
         Texts(s) = Texts(t), b.text = c.text
  PROVE  Texts(Longer(s, b)) = Texts(Longer(t, c))
<1>1. <<b>> \in Seq(B) /\ <<c>> \in Seq(B)
  OBVIOUS
<1>2. Texts(<<b>>) = Texts(<<c>>)
  <2>1. Len(<<b>>) = 1 /\ Len(<<c>>) = 1 /\ <<b>>[1] = b /\ <<c>>[1] = c
    OBVIOUS
  <2>2. \A i \in 1..1 : i = 1
    OBVIOUS
  <2>3. \A i \in 1..Len(<<b>>) : <<b>>[i].text = <<c>>[i].text
    BY <2>1, <2>2
  <2> QED BY <1>1, <2>1, <2>3, SameTexts
<1>3. Texts(s \o <<b>>) = Texts(t \o <<c>>)
  <2> DEFINE u == <<b>>
             w == <<c>>
  <2>1. u \in Seq(B) /\ w \in Seq(B) /\ Texts(u) = Texts(w)
    BY <1>1, <1>2
  <2> HIDE DEF u, w
  <2>2. Texts(s \o u) = Texts(t \o w)
    BY <2>1, TextsJoin
  <2> QED BY <2>2 DEF u, w
<1> QED BY <1>3, Zenon DEF Longer

(* Prefixes of the same texts.                                             *)
LEMMA PrefixSame ==
  ASSUME NEW B, NEW p \in Seq(B), NEW h \in Seq(B), NEW y \in Nat, y <= Len(p), y <= Len(h),
         \A i \in 1..y : p[i].text = h[i].text
  PROVE  Texts(SubSeq(p, 1, y)) = Texts(SubSeq(h, 1, y))
<1>1. /\ SubSeq(p, 1, y) \in Seq(B) /\ Len(SubSeq(p, 1, y)) = y
      /\ \A i \in 1..y : SubSeq(p, 1, y)[i] = p[i]
  BY LenProperties, SubSeqProperties
<1>2. /\ SubSeq(h, 1, y) \in Seq(B) /\ Len(SubSeq(h, 1, y)) = y
      /\ \A i \in 1..y : SubSeq(h, 1, y)[i] = h[i]
  BY LenProperties, SubSeqProperties
<1>3. \A i \in 1..y : SubSeq(p, 1, y)[i].text = SubSeq(h, 1, y)[i].text
  BY <1>1, <1>2
<1> QED BY <1>1, <1>2, <1>3, SameTexts

(* What has come of the first y blocks, and of those before, is a paper.   *)
LEMMA ComesPaper ==
  ASSUME NEW B, NEW p \in Seq(B), NEW y \in 1..Len(p), NEW n \in {y - 1, y},
         NEW e \in Edits(B, n)
  PROVE  UpTo(Replaced(p, e.replace), e)[n] \in Seq(B)
<1>1. n \in Nat /\ y \in Nat /\ n <= y
  BY LenProperties
<1>2. e \in Edits(B, y)
  BY <1>1, EditsGrow
<1> QED BY <1>2, Behind

(* A deletion: where e0 turn the first y-1 blocks into s, the edits with   *)
(* the deletion turn the first y into s.                                   *)
LEMMA DeleteTurns ==
  ASSUME NEW B, NEW p \in Seq(B), NEW y \in 1..Len(p), NEW s,
         NEW e0 \in Edits(B, y-1),
         UpTo(Replaced(p, e0.replace), e0)[y-1] = s
  PROVE  UpTo(Replaced(p, Delete(e0, y).replace), Delete(e0, y))[y] = s
<1> DEFINE e == Delete(e0, y)
<1>1. y \in Nat /\ y - 1 \in Nat /\ y - 1 <= y /\ y \in 1..y
  BY LenProperties
<1>2. /\ e \in Edits(B, y) /\ e0 \in Edits(B, y)
      /\ e.delete = e0.delete \cup {y} /\ e.insert = e0.insert /\ e.replace = e0.replace
  BY <1>1, DeleteIn, EditsGrow
<1>3. e0.delete \subseteq 1..(y-1)
  BY DEF Edits
<1> HIDE DEF e
<1>4. \A i : Added(e, i) = Added(e0, i)
  BY <1>2 DEF Added
<1>5. \A i \in 1..(y-1) : i \in e.delete <=> i \in e0.delete
  BY <1>1, <1>2
<1>6. UpTo(Replaced(p, e.replace), e)[y-1] = s
  BY <1>2, <1>4, <1>5, OneMore
<1>7. Added(e, y) = <<>>
  <2>1. y \notin 1..(y-1)
    BY <1>1
  <2> QED BY <1>1, <1>4, <2>1, AddedIn
<1>8. Kept(Replaced(p, e.replace), e, y) = <<>>
  BY <1>2 DEF Kept
<1>9. /\ UpTo(Replaced(p, e.replace), e)[y] = Extend(s, Replaced(p, e.replace), e, y)
      /\ s \in Seq(B)
  BY <1>2, <1>6, Behind
<1>10. Extend(s, Replaced(p, e.replace), e, y) = s
  BY <1>7, <1>8, <1>9, ExtendNone
<1> QED BY <1>9, <1>10 DEF e

(* An insertion: where e0 turn the first y blocks into s, the edits with b *)
(* inserted behind y turn them into s and b.                               *)
LEMMA InsertTurns ==
  ASSUME NEW B, NEW p \in Seq(B), NEW y \in 1..Len(p), NEW s, NEW b \in B,
         NEW e0 \in Edits(B, y),
         UpTo(Replaced(p, e0.replace), e0)[y] = s
  PROVE  UpTo(Replaced(p, Insert(e0, y, b).replace), Insert(e0, y, b))[y] = Longer(s, b)
<1> DEFINE e == Insert(e0, y, b)
           q == Replaced(p, e0.replace)
<1>1. y \in Nat /\ y - 1 \in Nat /\ y <= y /\ y \in 1..y /\ b \in B
  BY LenProperties, ElementOfSeq
<1>2. /\ e \in Edits(B, y)
      /\ e.delete = e0.delete /\ e.replace = e0.replace
      /\ e.insert = With(e0.insert, y, Append(Added(e0, y), b))
  BY <1>1, InsertIn
<1>3. Added(e0, y) \in Seq(B) /\ e0.insert \in Some(1..y, Seq(B))
  BY <1>1, AddedIn DEF Edits
<1> HIDE DEF e
<1>4. Added(e, y) = Append(Added(e0, y), b)
  <2>2. y \in DOMAIN e.insert /\ e.insert[y] = Append(Added(e0, y), b)
    BY <1>2 DEF With
  <2> QED BY <2>2 DEF Added
<1>5. \A i \in 0..(y-1) : Added(e, i) = Added(e0, i)
  <2>2. \A i : i # y => (i \in DOMAIN e.insert <=> i \in DOMAIN e0.insert) /\ (i \in DOMAIN e0.insert => e.insert[i] = e0.insert[i])
    BY <1>2 DEF With
  <2>3. \A i \in 0..(y-1) : i # y
    BY <1>1
  <2> QED BY <2>2, <2>3 DEF Added
<1>6. UpTo(Replaced(p, e.replace), e)[y-1] = UpTo(q, e0)[y-1]
  BY <1>2, <1>5, OneMore
<1>7. Kept(Replaced(p, e.replace), e, y) = Kept(q, e0, y)
  BY <1>2 DEF Kept
<1>8. /\ UpTo(Replaced(p, e.replace), e)[y] = Extend(UpTo(q, e0)[y-1], Replaced(p, e.replace), e, y)
      /\ UpTo(q, e0)[y] = Extend(UpTo(q, e0)[y-1], q, e0, y)
      /\ UpTo(q, e0)[y-1] \in Seq(B) /\ q[y] \in B
  <2>1. UpTo(Replaced(p, e.replace), e)[y] = Extend(UpTo(Replaced(p, e.replace), e)[y-1], Replaced(p, e.replace), e, y)
    BY <1>2, Behind
  <2>2. UpTo(q, e0)[y] = Extend(UpTo(q, e0)[y-1], q, e0, y) /\ UpTo(q, e0)[y-1] \in Seq(B) /\ q[y] \in B
    BY Behind
  <2> QED BY <1>6, <2>1, <2>2
<1>9. Kept(q, e0, y) \in Seq(B)
  BY <1>8 DEF Kept
<1>10. UpTo(Replaced(p, e.replace), e)[y] = Longer(UpTo(q, e0)[y], b)
  <2> HIDE DEF q
  <2>1. Extend(UpTo(q, e0)[y-1], Replaced(p, e.replace), e, y) = Longer(Extend(UpTo(q, e0)[y-1], q, e0, y), b)
    BY <1>1, <1>3, <1>4, <1>7, <1>8, <1>9, ExtendMore
  <2> QED BY <1>8, <2>1
<1> QED BY <1>10 DEF e

(* An equal block: where e0 turn the first y-1 blocks into s, they turn    *)
(* the first y into s and the block at y.                                  *)
LEMMA KeepTurns ==
  ASSUME NEW B, NEW p \in Seq(B), NEW y \in 1..Len(p), NEW s, NEW b \in B,
         NEW e0 \in Edits(B, y-1), p[y] = b,
         UpTo(Replaced(p, e0.replace), e0)[y-1] = s
  PROVE  UpTo(Replaced(p, e0.replace), e0)[y] = Longer(s, b)
<1> DEFINE q == Replaced(p, e0.replace)
<1>1. y \in Nat /\ y - 1 \in Nat /\ y - 1 <= y /\ y \notin 1..(y-1)
  BY LenProperties
<1>2. e0 \in Edits(B, y) /\ e0.delete \subseteq 1..(y-1) /\ DOMAIN e0.replace \subseteq 1..(y-1)
  BY <1>1, EditsGrow, SomeFunction DEF Edits
<1>3. Added(e0, y) = <<>>
  BY <1>1, AddedIn
<1>4. q[y] = b
  BY <1>1, <1>2, Behind
<1>5. Kept(q, e0, y) = <<b>>
  BY <1>1, <1>2, <1>4 DEF Kept
<1>6. UpTo(q, e0)[y] = Extend(s, q, e0, y) /\ s \in Seq(B)
  BY <1>2, Behind
<1> HIDE DEF q
<1>7. Extend(s, q, e0, y) = Longer(s, b)
  BY <1>3, <1>5, <1>6, ExtendOne
<1> QED BY <1>6, <1>7 DEF q

(* A replacement: where e0 turn the first y-1 blocks into s, the edits     *)
(* with b at y turn the first y into s and b.                              *)
LEMMA ReplaceTurns ==
  ASSUME NEW B, NEW p \in Seq(B), NEW y \in 1..Len(p), NEW s, NEW b \in B,
         NEW e0 \in Edits(B, y-1),
         UpTo(Replaced(p, e0.replace), e0)[y-1] = s
  PROVE  UpTo(Replaced(p, Replace(e0, y, b).replace), Replace(e0, y, b))[y] = Longer(s, b)
<1> DEFINE e == Replace(e0, y, b)
           q == Replaced(p, e.replace)
<1>1. y \in Nat /\ y - 1 \in Nat /\ y - 1 <= y /\ y \notin 1..(y-1) /\ y \in 1..y /\ b \in B
  BY LenProperties, ElementOfSeq
<1>2. /\ e \in Edits(B, y) /\ e0 \in Edits(B, y)
      /\ e.delete = e0.delete /\ e.insert = e0.insert /\ e.replace = With(e0.replace, y, b)
  BY <1>1, ReplaceIn, EditsGrow
<1>3. e0.delete \subseteq 1..(y-1) /\ e0.replace \in Some(1..y, B)
  BY <1>2 DEF Edits
<1> HIDE DEF e
<1>4. /\ y \in DOMAIN e.replace /\ e.replace[y] = b
      /\ \A i : i # y => (i \in DOMAIN e.replace <=> i \in DOMAIN e0.replace) /\ (i \in DOMAIN e0.replace => e.replace[i] = e0.replace[i])
  BY <1>2 DEF With
<1>5. \A i \in 1..(y-1) : i # y
  BY <1>1
<1>6. \A i : Added(e, i) = Added(e0, i)
  BY <1>2 DEF Added
<1>7. UpTo(q, e)[y-1] = s
  <2>1. /\ \A i \in 1..(y-1) : i \in DOMAIN e.replace <=> i \in DOMAIN e0.replace
        /\ \A i \in 1..(y-1) : i \in DOMAIN e.replace => e.replace[i] = e0.replace[i]
    BY <1>4, <1>5
  <2>2. \A i \in 1..(y-1) : i \in e.delete <=> i \in e0.delete
    BY <1>2
  <2>3. y - 1 \in {y - 1, y} /\ \A i \in 0..(y-1) : Added(e, i) = Added(e0, i)
    BY <1>6
  <2> QED BY <1>2, <2>1, <2>2, <2>3, OneMore
<1>8. Added(e, y) = <<>>
  BY <1>1, <1>6, AddedIn
<1>9. q[y] = b
  BY <1>2, <1>4, Behind
<1>10. Kept(q, e, y) = <<b>>
  BY <1>1, <1>2, <1>3, <1>9 DEF Kept
<1>11. UpTo(q, e)[y] = Extend(s, q, e, y) /\ s \in Seq(B)
  BY <1>2, <1>7, Behind
<1> HIDE DEF q
<1>12. Extend(s, q, e, y) = Longer(s, b)
  BY <1>8, <1>10, <1>11, ExtendOne
<1> QED BY <1>11, <1>12 DEF q, e

(* e turns the first y blocks of p into the texts of s *)
Turns(p, e, y, s) ==
  ~ e.thrown => Texts(UpTo(Replaced(p, e.replace), e)[y]) = Texts(s)

(* Equal prefixes: no edits turn one into the other.                       *)
LEMMA NothingToDo ==
  ASSUME NEW B, NEW p \in Seq(B), NEW h \in Seq(B), NEW y \in Nat, y <= Len(p), y <= Len(h),
         \A i \in 1..y : p[i] = h[i]
  PROVE  UpTo(Replaced(p, NoEdits.replace), NoEdits)[y] = SubSeq(h, 1, y)
<1> DEFINE C == 0..y
           size == [i \in C |-> i]
           q == Replaced(p, NoEdits.replace)
           S == {i \in C : UpTo(q, NoEdits)[i] = SubSeq(h, 1, i)}
<1>0. /\ \A i \in C : i = 0 \/ (i - 1 \in C /\ i - 1 < i /\ i \in 1..y /\ i \in 1..Len(p) /\ i \in 1..Len(h))
      /\ C \subseteq Nat /\ Len(p) \in Nat /\ Len(h) \in Nat
  BY LenProperties
<1>1. size \in [C -> Nat] /\ \A i \in C : size[i] = i
  BY <1>0
<1>2. NoEdits.replace = <<>> /\ NoEdits.delete = {} /\ NoEdits.insert = <<>>
  BY DEF NoEdits
<1>3. <<>> \in Some(1..0, B) /\ DOMAIN <<>> = {}
  <2>1. <<>> = [i \in {} |-> <<>>[i]] /\ DOMAIN <<>> = {}
    OBVIOUS
  <2> QED BY <2>1, SomeFunction
<1>4. q \in Seq(B) /\ Len(q) = Len(p) /\ \A i \in 1..Len(p) : q[i] = p[i]
  BY <1>2, <1>3, ReplacedIsPaper
<1>5. \A i : Added(NoEdits, i) = <<>>
  BY <1>2 DEF Added
<1>6. \A i : Kept(q, NoEdits, i) = <<q[i]>>
  BY <1>2 DEF Kept
<1>7. Adds(NoEdits, B)
  <2>1. <<>> \in Seq(B)
    OBVIOUS
  <2> QED BY <1>5, <2>1, Zenon DEF Adds
<1> HIDE DEF q
<1>8. ASSUME NEW i \in C, \A k \in C : size[k] < size[i] => k \in S
      PROVE  i \in S
  <2>1. CASE i = 0
    <3>1. UpTo(q, NoEdits)[0] = <<>>
      <4>1. \A k \in 0..Len(q) : Added(NoEdits, k) \in Seq(B)
        BY <1>7 DEF Adds
      <4> QED BY <1>4, <1>5, <4>1, UpToDef
    <3>2. SubSeq(h, 1, 0) = <<>>
      OBVIOUS
    <3> QED BY <2>1, <3>1, <3>2
  <2>2. CASE i # 0
    <3>1. UpTo(q, NoEdits)[i-1] = SubSeq(h, 1, i-1)
      <4> HIDE DEF C, size
      <4> QED BY <1>0, <1>1, <1>8, <2>2
    <3>2. i \in 1..y /\ i \in 1..Len(q) /\ i \in 1..Len(h) /\ i \in 1..Len(p)
      BY <1>0, <1>4, <2>2
    <3>3. q[i] = h[i]
      BY <1>4, <3>2
    <3> DEFINE s == UpTo(q, NoEdits)[i-1]
    <3>4. UpTo(q, NoEdits)[i] = Extend(s, q, NoEdits, i) /\ s \in Seq(B)
      BY <1>4, <1>7, <3>2, UpToStep
    <3>5. h[i] \in B /\ SubSeq(h, 1, i) = Longer(SubSeq(h, 1, i-1), h[i])
      BY <3>2, LongerPrefix
    <3> HIDE DEF s
    <3>6. Extend(s, q, NoEdits, i) = Longer(s, h[i])
      <4>1. Kept(q, NoEdits, i) = <<h[i]>> /\ Added(NoEdits, i) = <<>>
        BY <1>5, <1>6, <3>3
      <4> QED BY <3>4, <3>5, <4>1, ExtendOne
    <3>7. UpTo(q, NoEdits)[i] = SubSeq(h, 1, i)
      BY <3>1, <3>4, <3>5, <3>6, Zenon DEF s
    <3> QED BY <3>7
  <2> QED BY <2>1, <2>2
<1>9. C \subseteq S
  <2> HIDE DEF C, S, size
  <2> QED BY <1>1, <1>8, SizeInduction
<1> QED BY <1>9 DEF q

(* By induction on the cells: the edits found at a cell turn the prefix of *)
(* p into the texts of that of h, or the walk has thrown.                  *)
LEMMA WalkTurns ==
  ASSUME NEW B, NEW p \in Seq(B), NEW h \in Seq(B)
  PROVE  /\ Walk(p, h) \in Edits(B, Len(p))
         /\ Turns(p, Walk(p, h), Len(p), SubSeq(h, 1, Len(h)))
<1> DEFINE C == Cells(p, h)
           d == Matrix(p, h)
           size == [c \in C |-> Sum(c)]
<1>1. PICK back : /\ back = [c \in C |-> Back(p, h, d, back, c[1], c[2])]
                  /\ Walk(p, h) = back[<<Len(p), Len(h)>>]
                  /\ \A c \in C : back[c] \in Edits(B, c[1])
  BY WalkDef
<1> DEFINE S == {c \in C : Turns(p, back[c], c[1], SubSeq(h, 1, c[2]))}
<1>2. /\ size \in [C -> Nat] /\ (\A c \in C : size[c] = Sum(c))
      /\ Len(p) \in Nat /\ Len(h) \in Nat
  BY CellSums, LenProperties
<1>3. ASSUME NEW c \in C, \A k \in C : size[k] < size[c] => k \in S
      PROVE  c \in S
  <2>1. PICK y \in 0..Len(p), x \in 0..Len(h) : c = <<y, x>>
    BY CellSums
  <2> DEFINE e == back[<<y, x>>]
             up == back[<<y-1, x>>]
             left == back[<<y, x-1>>]
             diag == back[<<y-1, x-1>>]
  <2>2. e = Back(p, h, d, back, y, x) /\ e \in Edits(B, y)
    <3>1. back[c] = Back(p, h, d, back, c[1], c[2]) /\ back[c] \in Edits(B, c[1])
      <4> HIDE DEF d, C
      <4> QED BY <1>1
    <3> HIDE DEF d
    <3> QED BY <2>1, <3>1
  <2>3. \/ d[<<y, x>>] = 0 /\ e = NoEdits
        \/ e = Thrown
        \/ /\ y # 0 /\ x # 0
           /\ \/ e = Delete(up, y)
              \/ e = Insert(left, y, h[x])
              \/ p[y].text = h[x].text /\ e = diag
              \/ e = Replace(diag, y, h[x])
    <3> HIDE DEF d, e
    <3> QED BY <2>2, Zenon DEF Back
  <2>4. ASSUME y # 0, x # 0
        PROVE  /\ up \in Edits(B, y-1) /\ Turns(p, up, y-1, SubSeq(h, 1, x))
               /\ left \in Edits(B, y) /\ Turns(p, left, y, SubSeq(h, 1, x-1))
               /\ diag \in Edits(B, y-1) /\ Turns(p, diag, y-1, SubSeq(h, 1, x-1))
               /\ y \in 1..Len(p) /\ x \in 1..Len(h) /\ y - 1 \in Nat /\ y \in Nat /\ y - 1 <= y /\ y <= y /\ y \in 1..y
               /\ h[x] \in B /\ SubSeq(h, 1, x) = Longer(SubSeq(h, 1, x-1), h[x])
    <3>1. y \in 1..Len(p) /\ x \in 1..Len(h) /\ y - 1 \in Nat /\ y \in Nat /\ y - 1 <= y /\ y <= y /\ y \in 1..y
      BY <1>2, <2>4
    <3>2. h[x] \in B /\ SubSeq(h, 1, x) = Longer(SubSeq(h, 1, x-1), h[x])
      BY <3>1, LongerPrefix
    <3>3. /\ <<y-1, x>> \in C /\ Sum(<<y-1, x>>) < Sum(<<y, x>>)
          /\ <<y, x-1>> \in C /\ Sum(<<y, x-1>>) < Sum(<<y, x>>)
          /\ <<y-1, x-1>> \in C /\ Sum(<<y-1, x-1>>) < Sum(<<y, x>>)
      BY <2>4, SmallerCells
    <3>4. <<y-1, x>> \in S /\ <<y, x-1>> \in S /\ <<y-1, x-1>> \in S
      <4>1. <<y, x>> \in C
        BY <2>1
      <4> HIDE DEF C, S, size
      <4> QED BY <1>2, <1>3, <2>1, <3>3, <4>1
    <3>5. /\ Turns(p, up, y-1, SubSeq(h, 1, x))
          /\ Turns(p, left, y, SubSeq(h, 1, x-1))
          /\ Turns(p, diag, y-1, SubSeq(h, 1, x-1))
      <4> HIDE DEF C
      <4>1. \A k \in S : Turns(p, back[k], k[1], SubSeq(h, 1, k[2]))
        BY Zenon
      <4>2. \A a, b : <<a, b>>[1] = a /\ <<a, b>>[2] = b
        OBVIOUS
      <4> HIDE DEF S
      <4>3. Turns(p, up, <<y-1, x>>[1], SubSeq(h, 1, <<y-1, x>>[2]))
        BY <3>4, <4>1, Zenon
      <4>4. Turns(p, left, <<y, x-1>>[1], SubSeq(h, 1, <<y, x-1>>[2]))
        BY <3>4, <4>1, Zenon
      <4>5. Turns(p, diag, <<y-1, x-1>>[1], SubSeq(h, 1, <<y-1, x-1>>[2]))
        BY <3>4, <4>1, Zenon
      <4> QED BY <4>2, <4>3, <4>4, <4>5, Zenon
    <3>6. up \in Edits(B, y-1) /\ left \in Edits(B, y) /\ diag \in Edits(B, y-1)
      <4> HIDE DEF C
      <4> QED BY <1>1, <3>3
    <3> QED BY <3>1, <3>2, <3>5, <3>6
  <2> HIDE DEF e, up, left, diag, d
  <2>5. Turns(p, e, y, SubSeq(h, 1, x))
    <3>1. CASE d[<<y, x>>] = 0 /\ e = NoEdits
      <4>1. y = x /\ \A i \in 1..y : p[i].text = h[i].text
        BY <3>1, NearPapersAreEqual DEF d
      <4>2. y \in Nat /\ y <= Len(p) /\ y <= Len(h)
        BY <1>2, <4>1
      <4>3. UpTo(Replaced(p, e.replace), e)[y] = SubSeq(p, 1, y)
        <5>1. \A i \in 1..y : p[i] = p[i]
          OBVIOUS
        <5> QED BY <3>1, <4>2, <5>1, NothingToDo, Zenon
      <4>4. Texts(SubSeq(p, 1, y)) = Texts(SubSeq(h, 1, y))
        BY <4>1, <4>2, PrefixSame
      <4> QED BY <4>1, <4>3, <4>4, Zenon DEF Turns
    <3>2. CASE e = Thrown
      BY <3>2, NoEditsIn DEF Turns
    <3> DEFINE s == SubSeq(h, 1, x)
               s1 == SubSeq(h, 1, x-1)
               b == h[x]
               Come(f, n) == UpTo(Replaced(p, f.replace), f)[n]
    <3>0. s1 \in Seq(B)
      BY <1>2, SubSeqProperties
    <3>3. CASE y # 0 /\ x # 0 /\ e = Delete(up, y)
      <4>1. /\ up \in Edits(B, y-1) /\ Turns(p, up, y-1, s)
            /\ y \in 1..Len(p) /\ y - 1 \in Nat /\ y \in Nat /\ y - 1 <= y /\ y \in 1..y
        BY <2>4, <3>3
      <4> HIDE DEF s
      <4>2. e.thrown = up.thrown
        BY <3>3, <4>1, DeleteIn
      <4>3. ~ up.thrown => Texts(Come(up, y-1)) = Texts(s)
        BY <4>1 DEF Turns
      <4>4. Come(e, y) = Come(up, y-1)
        BY <3>3, <4>1, DeleteTurns
      <4> HIDE DEF Come
      <4>5. ~ e.thrown => Texts(Come(e, y)) = Texts(s)
        BY <4>2, <4>3, <4>4
      <4> QED BY <4>5 DEF Turns, s, Come
    <3>4. CASE y # 0 /\ x # 0 /\ e = Insert(left, y, h[x])
      <4>1. /\ left \in Edits(B, y) /\ Turns(p, left, y, s1) /\ b \in B /\ s = Longer(s1, b)
            /\ y \in 1..Len(p) /\ y \in Nat /\ y <= y /\ y \in 1..y
        BY <2>4, <3>4
      <4>0. e = Insert(left, y, b)
        BY <3>4
      <4> HIDE DEF s, s1, b
      <4>2. e.thrown = left.thrown
        BY <4>0, <4>1, InsertIn
      <4>3. ~ left.thrown => Texts(Come(left, y)) = Texts(s1)
        BY <4>1 DEF Turns
      <4>4. Come(e, y) = Longer(Come(left, y), b)
        BY <4>0, <4>1, InsertTurns
      <4>5. Come(left, y) \in Seq(B)
        BY <4>1, ComesPaper
      <4> HIDE DEF Come
      <4>6. ~ e.thrown => Texts(Come(e, y)) = Texts(s)
        BY <3>0, <4>1, <4>2, <4>3, <4>4, <4>5, LongerSame
      <4> QED BY <4>6 DEF Turns, s, Come
    <3>5. CASE y # 0 /\ x # 0 /\ p[y].text = h[x].text /\ e = diag
      <4> DEFINE g == p[y]
      <4>1. /\ diag \in Edits(B, y-1) /\ Turns(p, diag, y-1, s1) /\ b \in B /\ s = Longer(s1, b)
            /\ y \in 1..Len(p)
        BY <2>4, <3>5
      <4>0. p[y] = g /\ g.text = b.text /\ e = diag
        BY <3>5
      <4>2. g \in B
        BY <4>1, ElementOfSeq
      <4> HIDE DEF s, s1, b, g
      <4>3. ~ diag.thrown => Texts(Come(diag, y-1)) = Texts(s1)
        BY <4>1 DEF Turns
      <4>4. Come(diag, y) = Longer(Come(diag, y-1), g)
        BY <4>0, <4>1, <4>2, KeepTurns
      <4>5. Come(diag, y-1) \in Seq(B)
        BY <4>1, ComesPaper
      <4> HIDE DEF Come
      <4>6. ~ e.thrown => Texts(Come(e, y)) = Texts(s)
        BY <3>0, <4>0, <4>1, <4>2, <4>3, <4>4, <4>5, LongerSame
      <4> QED BY <4>6 DEF Turns, s, Come
    <3>6. CASE y # 0 /\ x # 0 /\ e = Replace(diag, y, h[x])
      <4>1. /\ diag \in Edits(B, y-1) /\ Turns(p, diag, y-1, s1) /\ b \in B /\ s = Longer(s1, b)
            /\ y \in 1..Len(p) /\ y - 1 \in Nat /\ y \in Nat /\ y - 1 <= y /\ y \in 1..y
        BY <2>4, <3>6
      <4>0. e = Replace(diag, y, b)
        BY <3>6
      <4> HIDE DEF s, s1, b
      <4>2. e.thrown = diag.thrown
        BY <4>0, <4>1, ReplaceIn
      <4>3. ~ diag.thrown => Texts(Come(diag, y-1)) = Texts(s1)
        BY <4>1 DEF Turns
      <4>4. Come(e, y) = Longer(Come(diag, y-1), b)
        BY <4>0, <4>1, ReplaceTurns
      <4>5. Come(diag, y-1) \in Seq(B)
        BY <4>1, ComesPaper
      <4> HIDE DEF Come
      <4>6. ~ e.thrown => Texts(Come(e, y)) = Texts(s)
        BY <3>0, <4>1, <4>2, <4>3, <4>4, <4>5, LongerSame
      <4> QED BY <4>6 DEF Turns, s, Come
    <3> QED BY <2>3, <3>1, <3>2, <3>3, <3>4, <3>5, <3>6
  <2>6. <<y, x>> \in C /\ <<y, x>>[1] = y /\ <<y, x>>[2] = x
    BY <2>1
  <2>7. Turns(p, back[<<y, x>>], <<y, x>>[1], SubSeq(h, 1, <<y, x>>[2]))
    BY <2>5, <2>6, Zenon DEF e
  <2> QED BY <2>1, <2>6, <2>7, Zenon
<1>4. C \subseteq S
  <2> HIDE DEF S, C, size
  <2> QED BY <1>2, <1>3, SizeInduction
<1>5. <<Len(p), Len(h)>> \in C
  BY <1>2 DEF Cells
<1>6. /\ back[<<Len(p), Len(h)>>] \in Edits(B, <<Len(p), Len(h)>>[1])
      /\ Turns(p, back[<<Len(p), Len(h)>>], <<Len(p), Len(h)>>[1], SubSeq(h, 1, <<Len(p), Len(h)>>[2]))
  <2> HIDE DEF C
  <2> QED BY <1>1, <1>4, <1>5, Zenon
<1>7. \A a, b : <<a, b>>[1] = a /\ <<a, b>>[2] = b
  OBVIOUS
<1> QED BY <1>1, <1>6, <1>7, Zenon

(* The edits that make a paper from the empty one.                         *)
LEMMA FromNothing ==
  ASSUME NEW B, NEW h \in Seq(B)
  PROVE  LET e == [NoEdits EXCEPT !.insert = With(<<>>, 0, h)]
         IN  Fits(<<>>, e) /\ Apply(<<>>, e) = h
<1> DEFINE w == With(<<>>, 0, h)
           e == [NoEdits EXCEPT !.insert = w]
<1>1. e.delete = {} /\ e.insert = w /\ e.replace = <<>>
  <2> HIDE DEF w
  <2> QED BY DEF NoEdits
<1>2. DOMAIN w = {0} /\ w[0] = h
  BY DEF With
<1> HIDE DEF w, e
<1>3. Replaced(<<>>, <<>>) = <<>>
  <2>1. DOMAIN <<>> = {} /\ ~ (1 \in DOMAIN <<>>)
    OBVIOUS
  <2>2. Replaced(<<>>, <<>>) = [i \in {} |-> IF i \in DOMAIN <<>> THEN <<>>[i] ELSE <<>>[i]]
    BY <2>1, Zenon DEF Replaced
  <2>3. \A q : DOMAIN q = {} /\ q = [i \in {} |-> q[i]] => q = <<>>
    OBVIOUS
  <2> QED BY <2>2, <2>3
<1>4. Added(e, 0) = h
  BY <1>1, <1>2 DEF Added
<1>5. UpTo(<<>>, e)[0] = h
  <2>1. \A i \in 0..Len(<<>>) : Added(e, i) \in Seq(B)
    BY <1>4
  <2>2. <<>> \in Seq(B)
    OBVIOUS
  <2>3. UpTo(<<>>, e)[0] = Added(e, 0)
    BY <2>1, <2>2, UpToDef
  <2> QED BY <1>4, <2>3
<1>6. Apply(<<>>, e) = UpTo(<<>>, e)[Len(<<>>)]
  BY <1>1, <1>3 DEF Apply
<1>7. Len(<<>>) = 0
  OBVIOUS
<1>8. Fits(<<>>, e)
  BY <1>1, <1>2 DEF Fits, Named
<1> QED BY <1>5, <1>6, <1>7, <1>8, Zenon DEF e, w

(* The edits that delete every block.                                      *)
LEMMA ToNothing ==
  ASSUME NEW B, NEW p \in Seq(B), p # <<>>
  PROVE  LET e == [NoEdits EXCEPT !.delete = DOMAIN p]
         IN  Fits(p, e) /\ Apply(p, e) = <<>>
<1> DEFINE D == DOMAIN p
           e == [NoEdits EXCEPT !.delete = D]
           C == 0..Len(p)
           size == [i \in C |-> i]
           q == Replaced(p, e.replace)
           S == {i \in C : UpTo(q, e)[i] = <<>>}
<1>0. D = 1..Len(p) /\ Len(p) \in Nat
  BY LenProperties
<1>1. e.delete = D /\ e.insert = <<>> /\ e.replace = <<>>
  <2> HIDE DEF D
  <2> QED BY DEF NoEdits
<1> HIDE DEF D, e
<1>2. <<>> \in Some(1..0, B) /\ DOMAIN <<>> = {}
  <2>1. <<>> = [i \in {} |-> <<>>[i]] /\ DOMAIN <<>> = {}
    OBVIOUS
  <2> QED BY <2>1, SomeFunction
<1>3. q \in Seq(B) /\ Len(q) = Len(p)
  BY <1>1, <1>2, ReplacedIsPaper
<1>4. \A i : Added(e, i) = <<>>
  BY <1>1 DEF Added
<1>5. \A i \in 1..Len(p) : Kept(q, e, i) = <<>>
  BY <1>0, <1>1 DEF Kept
<1>6. <<>> \in Seq(B)
  OBVIOUS
<1>7. Adds(e, B)
  BY <1>4, <1>6, Zenon DEF Adds
<1>8. size \in [C -> Nat] /\ \A i \in C : size[i] = i
  BY <1>0
<1> HIDE DEF q
<1>9. ASSUME NEW i \in C, \A k \in C : size[k] < size[i] => k \in S
      PROVE  i \in S
  <2>1. CASE i = 0
    <3>1. \A k \in 0..Len(q) : Added(e, k) \in Seq(B)
      BY <1>7 DEF Adds
    <3>2. UpTo(q, e)[0] = <<>>
      BY <1>3, <1>4, <3>1, UpToDef
    <3> QED BY <2>1, <3>2
  <2>2. CASE i # 0
    <3>1. i - 1 \in C /\ i - 1 < i /\ i \in 1..Len(p) /\ i \in 1..Len(q)
      BY <1>0, <1>3, <2>2
    <3>2. UpTo(q, e)[i-1] = <<>>
      <4> HIDE DEF C, size
      <4> QED BY <1>8, <1>9, <3>1
    <3>3. UpTo(q, e)[i] = Extend(<<>>, q, e, i)
      BY <1>3, <1>7, <3>1, <3>2, UpToStep
    <3>4. Extend(<<>>, q, e, i) = <<>>
      <4> DEFINE s == <<>>
      <4>1. s \in Seq(B) /\ Kept(q, e, i) = <<>> /\ Added(e, i) = <<>>
        BY <1>4, <1>5, <1>6, <3>1
      <4>2. Extend(s, q, e, i) = s
        <5> HIDE DEF s
        <5> QED BY <4>1, ExtendNone
      <4> QED BY <4>2
    <3> QED BY <3>3, <3>4
  <2> QED BY <2>1, <2>2
<1>10. C \subseteq S
  <2> HIDE DEF C, S, size
  <2> QED BY <1>8, <1>9, SizeInduction
<1>11. UpTo(q, e)[Len(q)] = <<>>
  BY <1>0, <1>3, <1>10
<1>12. Apply(p, e) = <<>>
  BY <1>11 DEF Apply, q
<1>13. Fits(p, e)
  <2>1. DOMAIN q = 1..Len(p)
    BY <1>3, LenProperties
  <2>2. Named(e) = 1..Len(p)
    BY <1>0, <1>1, <1>2 DEF Named
  <2> QED BY <2>1, <2>2 DEF Fits, q
<1> QED BY <1>12, <1>13, Zenon DEF e, D

(* compareTwoBlocks is right up to style: the edits it returns fit the     *)
(* first paper, and caulatePaper makes of it with them a paper that has    *)
(* the keys and texts of the second, for all papers; where it throws there *)
(* are no edits.                                                           *)
THEOREM CompareIsRight ==
  ASSUME NEW B, NEW p \in Seq(B), NEW h \in Seq(B), ~ Compare(p, h).thrown
  PROVE  Fits(p, Compare(p, h)) /\ Texts(Apply(p, Compare(p, h))) = Texts(h)
<1>1. CASE p = <<>>
  <2>1. Compare(p, h) = [NoEdits EXCEPT !.insert = With(<<>>, 0, h)]
    BY <1>1, Zenon DEF Compare
  <2> QED BY <1>1, <2>1, FromNothing, Zenon
<1>2. CASE p # <<>> /\ h = <<>>
  <2>1. Compare(p, h) = [NoEdits EXCEPT !.delete = DOMAIN p]
    BY <1>2, Zenon DEF Compare
  <2> QED BY <1>2, <2>1, ToNothing, Zenon
<1>3. CASE p # <<>> /\ h # <<>>
  <2> DEFINE e == Walk(p, h)
             q == Replaced(p, e.replace)
  <2>1. Compare(p, h) = e
    BY <1>3, Zenon DEF Compare
  <2>2. e \in Edits(B, Len(p)) /\ ~ e.thrown /\ Turns(p, e, Len(p), SubSeq(h, 1, Len(h)))
    BY <2>1, WalkTurns
  <2> HIDE DEF e
  <2>3. Len(p) \in Nat /\ e.replace \in Some(1..Len(p), B) /\ e.delete \subseteq 1..Len(p)
        /\ e.insert \in Some(1..Len(p), Seq(B))
    BY <2>2, LenProperties DEF Edits
  <2>4. q \in Seq(B) /\ Len(q) = Len(p)
    BY <1>3, <2>3, ReplacedIsPaper
  <2>5. SubSeq(h, 1, Len(h)) = h
    BY SubSeqProperties, LenProperties
  <2>6. Texts(Apply(p, e)) = Texts(h)
    BY <2>2, <2>4, <2>5, Zenon DEF Apply, Turns
  <2>7. Fits(p, e)
    <3>1. DOMAIN q = 1..Len(p)
      BY <2>4, LenProperties
    <3>2. DOMAIN e.insert \subseteq 1..Len(p)
      BY <2>3, SomeFunction
    <3> QED BY <2>3, <3>1, <3>2 DEF Fits, Named
  <2> QED BY <2>1, <2>6, <2>7
<1> QED BY <1>1, <1>2, <1>3

-----------------------------------------------------------------------------
(*****************************************************************************)
(* What the steps write, and that they keep the types.                     *)
(*****************************************************************************)
(* What the comparison of two papers returns is among the edits.           *)
LEMMA EditComes ==
  ASSUME NEW p \in Papers, NEW q \in Papers
  PROVE  Compare(p, q) \in Edit
BY DEF Edit

(* So is the empty list.                                                   *)
LEMMA NoEditsIs == NoEdits \in Edit
BY DEF Edit

(* The step a call is at says which kind of call it is.                    *)
LEMMA CallKinds ==
  ASSUME Types, NEW r \in Request
  PROVE  /\ call[r] \in Calls \/ call[r] = Idle
         /\ call[r].step = "increment" => call[r] \in Increments
         /\ call[r].step = "insert" => call[r] \in Saves \union Creates
         /\ call[r].step = "snapshot" => call[r] \in Saves
         /\ call[r].step = "setAll" => call[r] \in Modifies
         /\ call[r].step = "findLast" => call[r] \in Deletes
         /\ call[r].step = "last" => call[r] \in Lasts
         /\ call[r].step = "update" => call[r] \in Saves \union Modifies \union Deletes
         /\ call[r].step = "idle" => call[r] = Idle
<1>1. call[r] \in Calls \/ call[r] = Idle
  BY DEF Types
<1> QED BY <1>1 DEF Calls, Idle, Increments, Saves, Creates, Modifies, Deletes, Lasts

(* The calls that run on a are those that name it.                         *)
LEMMA RunningIs ==
  ASSUME Types, NEW a \in Id, NEW r \in Request
  PROVE  r \in Running(a) <=> call[r] # Idle /\ call[r].id = a
<1>1. call[r] \in Calls \/ call[r] = Idle
  BY DEF Types
<1>2. CASE call[r] = Idle
  BY <1>2 DEF Idle, Busy, Running
<1>3. CASE call[r] \in Calls
  BY <1>3 DEF Calls, Idle, Increments, Saves, Creates, Modifies, Deletes, Lasts, Busy, Running
<1> QED BY <1>1, <1>2, <1>3

(* The history of a new version has its type.                              *)
LEMMA HistoryComes ==
  ASSUME NEW a \in Id, NEW r \in Rows, NEW d \in Edit
  PROVE  HistoryOf(a, r, d) \in Histories
BY NoEditsIs DEF HistoryOf, Histories, Rows, Versions

(* An UPDATE of the history rows changes those it finds.                   *)
LEMMA ColumnsSet ==
  ASSUME NEW H, history \in Seq(H), NEW new, SetColumns(new),
         \A i \in DOMAIN history : i \in DOMAIN new => new[i] \in H
  PROVE  /\ history' \in Seq(H) /\ DOMAIN history' = DOMAIN history /\ Len(history') = Len(history)
         /\ \A i \in DOMAIN history :
              history'[i] = IF i \in DOMAIN new THEN new[i] ELSE history[i]
<1>1. DOMAIN history = 1..Len(history) /\ Len(history) \in Nat /\ \A i \in 1..Len(history) : history[i] \in H
  BY LenProperties, ElementOfSeq
<1>2. history' = [i \in 1..Len(history) |-> IF i \in DOMAIN new THEN new[i] ELSE history[i]]
  BY <1>1 DEF SetColumns
<1>3. history' \in [1..Len(history) -> H]
  BY <1>1, <1>2
<1>4. history' \in Seq(H) /\ Len(history') = Len(history)
  BY <1>1, <1>3
<1> QED BY <1>1, <1>2, <1>4

(* The effects of the steps on the histories *)
IncrementOf(r) == Compare(call[r].row.content, call[r].content)

(* What the first statement of a save writes.                              *)
LEMMA SetIncrementEffect ==
  ASSUME Types, NEW r \in Request, SetIncrement(r)
  PROVE  /\ call[r] \in Increments /\ call[r].step = "increment"
         /\ history' \in Seq(Histories) /\ DOMAIN history' = DOMAIN history
         /\ \A i \in DOMAIN history :
              history'[i] = IF i \in OfVersion(call[r].id, call[r].row.version)
                            THEN [history[i] EXCEPT !.increment = IncrementOf(r)] ELSE history[i]
<1> DEFINE S == OfVersion(call[r].id, call[r].row.version)
           new == [i \in S |-> [history[i] EXCEPT !.increment = IncrementOf(r)]]
<1>1. call[r] \in Increments /\ call[r].step = "increment"
  BY CallKinds DEF SetIncrement
<1>2. SetColumns(new)
  BY Zenon DEF SetIncrement, IncrementOf
<1>3. IncrementOf(r) \in Edit
  BY <1>1, EditComes DEF Increments, Rows, Papers, IncrementOf
<1>4. \A i \in DOMAIN history : history[i] \in Histories
  BY ElementOfSeq, LenProperties DEF Types
<1>5. \A i \in DOMAIN history : [history[i] EXCEPT !.increment = IncrementOf(r)] \in Histories
  BY <1>3, <1>4 DEF Histories
<1>6. DOMAIN new = S
  OBVIOUS
<1>7. \A i \in DOMAIN history : i \in DOMAIN new => new[i] \in Histories
  <2> HIDE DEF S
  <2> QED BY <1>5
<1>8. history \in Seq(Histories)
  BY DEF Types
<1> HIDE DEF new, S
<1>9. /\ history' \in Seq(Histories) /\ DOMAIN history' = DOMAIN history
      /\ \A i \in DOMAIN history : history'[i] = IF i \in DOMAIN new THEN new[i] ELSE history[i]
  BY <1>2, <1>7, <1>8, ColumnsSet
<1> QED BY <1>1, <1>6, <1>9 DEF new, S

(* What a setting writes to the histories of its version.                  *)
LEMMA SetAllEffect ==
  ASSUME Types, NEW r \in Request, SetAll(r)
  PROVE  /\ call[r] \in Modifies /\ call[r].step = "setAll"
         /\ history' \in Seq(Histories) /\ DOMAIN history' = DOMAIN history
         /\ \A i \in DOMAIN history :
              history'[i] = IF history[i].version = call[r].row.version
                            THEN [history[i] EXCEPT !.set[call[r].set] = call[r].row.set[call[r].set]]
                            ELSE history[i]
         /\ causes' = [a \in Id |->
              IF a # call[r].id /\ \E i \in Of(a) : history[i].version = call[r].row.version
              THEN causes[a] \union {"spill"} ELSE causes[a]]
<1> DEFINE S == {i \in DOMAIN history : history[i].version = call[r].row.version}
           k == call[r].set
           v == call[r].row.set[k]
           new == [i \in S |-> [history[i] EXCEPT !.set[k] = v]]
<1>1. call[r] \in Modifies /\ call[r].step = "setAll"
  BY CallKinds DEF SetAll
<1>2. SetColumns(new)
  BY Zenon DEF SetAll
<1>3. k \in Setting /\ v \in Level
  BY <1>1 DEF Modifies, Rows
<1>4. \A i \in DOMAIN history : history[i] \in Histories
  BY ElementOfSeq, LenProperties DEF Types
<1>5. \A i \in DOMAIN history : [history[i] EXCEPT !.set[k] = v] \in Histories
  <2> TAKE i \in DOMAIN history
  <2> DEFINE w == [history[i].set EXCEPT ![k] = v]
  <2>1. [history[i] EXCEPT !.set[k] = v] = [history[i] EXCEPT !.set = w]
    BY <1>4 DEF Histories
  <2>2. w \in [Setting -> Level]
    BY <1>3, <1>4 DEF Histories
  <2> HIDE DEF w, k, v
  <2>3. [history[i] EXCEPT !.set = w] \in Histories
    BY <1>4, <2>2 DEF Histories
  <2> QED BY <2>1, <2>3
<1>6. DOMAIN new = S
  OBVIOUS
<1>7. \A i \in DOMAIN history : i \in DOMAIN new => new[i] \in Histories
  <2> HIDE DEF S, k, v
  <2> QED BY <1>5
<1>8. history \in Seq(Histories)
  BY DEF Types
<1>9. causes' = [a \in Id |->
              IF a # call[r].id /\ S \intersect Of(a) # {}
              THEN causes[a] \union {"spill"} ELSE causes[a]]
  BY Zenon DEF SetAll
<1>10. \A a : S \intersect Of(a) # {} <=> \E i \in Of(a) : history[i].version = call[r].row.version
  BY DEF Of
<1> HIDE DEF new
<1>11. /\ history' \in Seq(Histories) /\ DOMAIN history' = DOMAIN history
      /\ \A i \in DOMAIN history : history'[i] = IF i \in DOMAIN new THEN new[i] ELSE history[i]
  BY <1>2, <1>7, <1>8, ColumnsSet
<1>12. \A i \in DOMAIN history :
              history'[i] = IF history[i].version = call[r].row.version
                            THEN [history[i] EXCEPT !.set[k] = v]
                            ELSE history[i]
  <2> TAKE i \in DOMAIN history
  <2>1. i \in S <=> history[i].version = call[r].row.version
    OBVIOUS
  <2>2. i \in S => new[i] = [history[i] EXCEPT !.set[k] = v]
    BY Zenon DEF new
  <2> HIDE DEF S, k, v
  <2> QED BY <1>6, <1>11, <2>1, <2>2
<1>13. causes' = [a \in Id |->
              IF a # call[r].id /\ \E i \in Of(a) : history[i].version = call[r].row.version
              THEN causes[a] \union {"spill"} ELSE causes[a]]
  BY <1>9, <1>10
<1> QED BY <1>1, <1>11, <1>12, <1>13

(* What the insert of a history adds.                                      *)
LEMMA InsertHistoryEffect ==
  ASSUME Types, NEW r \in Request, InsertHistory(r)
  PROVE  /\ call[r] \in Saves \union Creates /\ call[r].step = "insert"
         /\ history' \in Seq(Histories) /\ DOMAIN history' = DOMAIN history \union {Len(history) + 1}
         /\ Len(history) + 1 \notin DOMAIN history
         /\ \A i \in DOMAIN history : history'[i] = history[i]
         /\ history'[Len(history) + 1] = HistoryOf(call[r].id, call[r].row, call[r].decrement)
<1>1. call[r] \in Saves \union Creates /\ call[r].step = "insert"
  BY CallKinds DEF InsertHistory
<1> DEFINE h == HistoryOf(call[r].id, call[r].row, call[r].decrement)
<1>2. h \in Histories
  <2>1. call[r].id \in Id /\ call[r].row \in Rows /\ call[r].decrement \in Edit
    BY <1>1 DEF Saves, Creates
  <2> QED BY <2>1, HistoryComes
<1>3. history' = Append(history, h) /\ history \in Seq(Histories)
  BY DEF InsertHistory, Types
<1> HIDE DEF h
<1>4. /\ history' \in Seq(Histories) /\ Len(history') = Len(history) + 1
      /\ \A i \in 1..Len(history) : history'[i] = history[i]
      /\ history'[Len(history) + 1] = h
  BY <1>2, <1>3, AppendProperties
<1>5. DOMAIN history = 1..Len(history) /\ DOMAIN history' = 1..(Len(history) + 1) /\ Len(history) \in Nat
  BY <1>3, <1>4, LenProperties
<1>6. Len(history) + 1 \notin DOMAIN history /\ DOMAIN history' = DOMAIN history \union {Len(history) + 1}
  BY <1>5
<1> QED BY <1>1, <1>4, <1>5, <1>6 DEF h

(* What a deletion writes back.                                            *)
LEMMA UpdateLastEffect ==
  ASSUME Types, NEW r \in Request, UpdateLast(r)
  PROVE  /\ call[r] \in Lasts /\ call[r].step = "last"
         /\ history' \in Seq(Histories) /\ DOMAIN history' = DOMAIN history
         /\ \A i \in DOMAIN history : history'[i] = IF i = call[r].at THEN call[r].history ELSE history[i]
<1>1. call[r] \in Lasts /\ call[r].step = "last"
  BY CallKinds DEF UpdateLast
<1>2. history' = [history EXCEPT ![call[r].at] = call[r].history] /\ history \in Seq(Histories)
  BY DEF UpdateLast, Types
<1>3. call[r].history \in Histories
  BY <1>1 DEF Lasts
<1>4. DOMAIN history = 1..Len(history) /\ Len(history) \in Nat /\ \A i \in 1..Len(history) : history[i] \in Histories
  BY <1>2, LenProperties, ElementOfSeq
<1>5. history' \in [1..Len(history) -> Histories]
  <2>1. history' = [i \in 1..Len(history) |-> IF i = call[r].at THEN call[r].history ELSE history[i]]
    BY <1>2, <1>4
  <2> QED BY <1>3, <1>4, <2>1
<1>6. history' \in Seq(Histories) /\ DOMAIN history' = DOMAIN history
  BY <1>4, <1>5
<1> QED BY <1>1, <1>2, <1>6

(* The rows that calls make of a row have its type.                        *)
LEMMA RowChanges ==
  ASSUME NEW w \in Rows
  PROVE  /\ \A k \in Setting, v \in Level : [w EXCEPT !.set[k] = v] \in Rows
         /\ [w EXCEPT !.valid = FALSE] \in Rows
         /\ \A c \in Content : w.version < MaxVersion => [w EXCEPT !.version = @ + 1, !.content = c] \in Rows
<1>1. \A k \in Setting, v \in Level : [w EXCEPT !.set[k] = v] \in Rows
  <2> TAKE k \in Setting, v \in Level
  <2> DEFINE s == [w.set EXCEPT ![k] = v]
  <2>1. [w EXCEPT !.set[k] = v] = [w EXCEPT !.set = s]
    BY DEF Rows
  <2>2. s \in [Setting -> Level]
    BY DEF Rows
  <2> HIDE DEF s
  <2>3. [w EXCEPT !.set = s] \in Rows
    BY <2>2 DEF Rows
  <2> QED BY <2>1, <2>3
<1>2. \A c \in Content : w.version < MaxVersion => [w EXCEPT !.version = @ + 1, !.content = c] \in Rows
  <2> TAKE c \in Content
  <2> HAVE w.version < MaxVersion
  <2>1. MaxVersion \in Nat /\ w.version \in 1..MaxVersion
    BY ConstantsAssumption DEF Rows
  <2>2. w.version + 1 \in 1..MaxVersion
    BY <2>1
  <2> DEFINE n == w.version + 1
  <2>3. n \in 1..MaxVersion
    BY <2>2
  <2>4. [w EXCEPT !.version = n, !.content = c] \in Rows
    <3> HIDE DEF n
    <3> QED BY <2>3 DEF Rows
  <2> QED BY <2>4
<1>3. [w EXCEPT !.valid = FALSE] \in Rows
  BY DEF Rows
<1> QED BY <1>1, <1>2, <1>3

(* A step of r changes the call of r.                                      *)
LEMMA CallChanges ==
  ASSUME Types, NEW r \in Request, NEW c, c \in Calls \union {Idle},
         call' = [call EXCEPT ![r] = c]
  PROVE  /\ call' \in [Request -> Calls \union {Idle}] /\ call'[r] = c
         /\ \A s \in Request \ {r} : call'[s] = call[s]
BY DEF Types

(* A step of r keeps the types if what it writes has them.                 *)
LEMMA TypesKept ==
  ASSUME Types, NEW r \in Request, NEW c, c \in Calls \union {Idle},
         call' = [call EXCEPT ![r] = c],
         c.step = "increment" => c.row.version < MaxVersion,
         c.step = "snapshot" => c.row.version % SNAPSHOT_INTERVAL = 0,
         row' \in [Id -> Rows \union {None}], history' \in Seq(Histories),
         snapshot' \subseteq Snapshots, \A s \in snapshot' : s.version % SNAPSHOT_INTERVAL = 0,
         causes' \in [Id -> SUBSET {"edit", "overlap", "spill", "failure"}]
  PROVE  Types'
<1>1. /\ call' \in [Request -> Calls \union {Idle}] /\ call'[r] = c
      /\ \A s \in Request \ {r} : call'[s] = call[s]
  BY CallChanges
<1>2. \A s \in Request :
       /\ call'[s].step = "increment" => call'[s].row.version < MaxVersion
       /\ call'[s].step = "snapshot" => call'[s].row.version % SNAPSHOT_INTERVAL = 0
  <2> TAKE s \in Request
  <2>1. CASE s = r
    BY <1>1, <2>1
  <2>2. CASE s # r
    BY <1>1, <2>2 DEF Types
  <2> QED BY <2>1, <2>2
<1> QED BY <1>1, <1>2 DEF Types

(* A call that has ended has its type.                                     *)
LEMMA IdleEnds == Idle \in Calls \union {Idle} /\ Idle.step # "increment" /\ Idle.step # "snapshot"
BY DEF Idle

(* A row that is there has its type.                                       *)
LEMMA RowIsThere ==
  ASSUME Types, NEW a \in Id, row[a] # None
  PROVE  row[a] \in Rows
BY DEF Types

(* What the beginning of a call changes.                                   *)
LEMMA BeginEffect ==
  ASSUME Types, NEW r \in Request, NEW a \in Id, NEW c, Begin(r, a, c), c \in Calls
  PROVE  /\ call[r] = Idle /\ row[a] \in Rows /\ call' = [call EXCEPT ![r] = c]
         /\ causes' = [causes EXCEPT ![a] = @ \union Disturbance(a, c.op)]
         /\ causes' \in [Id -> SUBSET {"edit", "overlap", "spill", "failure"}]
         /\ UNCHANGED <<row, history, snapshot>>
<1>1. /\ call[r] = Idle /\ row[a] \in Rows /\ call' = [call EXCEPT ![r] = c]
         /\ causes' = [causes EXCEPT ![a] = @ \union Disturbance(a, c.op)]
         /\ UNCHANGED <<row, history, snapshot>>
  BY RowIsThere DEF Begin
<1>2. Disturbance(a, c.op) \subseteq {"edit", "overlap"}
  BY DEF Disturbance
<1> HIDE DEF Begin
<1>3. causes' \in [Id -> SUBSET {"edit", "overlap", "spill", "failure"}]
  BY <1>1, <1>2 DEF Types
<1> QED BY <1>1, <1>3

CreatedCall(r, a, c, s) ==
  [step |-> "insert", op |-> "create", id |-> a,
   row |-> [version |-> 1, content |-> c, set |-> s, valid |-> TRUE], decrement |-> Compare(c, <<>>)]

(* What createAnnouncement changes first.                                  *)
LEMMA CreateEffect ==
  ASSUME Types, NEW r \in Request, NEW a \in Id, NEW c \in Content, NEW s \in [Setting -> Level],
         Create(r, a, c, s)
  PROVE  LET w == [version |-> 1, content |-> c, set |-> s, valid |-> TRUE]
         IN  /\ call[r] = Idle /\ row[a] = None /\ w \in Rows /\ row' = [row EXCEPT ![a] = w]
             /\ CreatedCall(r, a, c, s) \in Creates /\ CreatedCall(r, a, c, s).row = w
             /\ call' = [call EXCEPT ![r] = CreatedCall(r, a, c, s)]
             /\ UNCHANGED <<history, snapshot, causes>>
<1> DEFINE w == [version |-> 1, content |-> c, set |-> s, valid |-> TRUE]
<1>1. w \in Rows
  BY ConstantsAssumption DEF Rows
<1>2. Compare(c, <<>>) \in Edit
  BY EditComes DEF Papers
<1>3. CreatedCall(r, a, c, s) \in Creates
  BY <1>1, <1>2 DEF Creates, CreatedCall
<1> QED BY <1>1, <1>3 DEF Create, CreatedCall

(* How a save begins.                                                      *)
LEMMA SaveEffect ==
  ASSUME Types, NEW r \in Request, NEW a \in Id, NEW c \in Content, Save(r, a, c)
  PROVE  LET next == [step |-> "increment", op |-> "save", id |-> a, row |-> row[a], content |-> c]
         IN  /\ next \in Increments /\ Begin(r, a, next)
             /\ row[a].version < MaxVersion /\ ~ Compare(row[a].content, c).thrown
BY RowIsThere DEF Save, Increments

(* How a setting begins.                                                   *)
LEMMA ModifyEffect ==
  ASSUME Types, NEW r \in Request, NEW a \in Id, NEW k \in Setting, NEW v \in Level, Modify(r, a, k, v)
  PROVE  LET next == [step |-> "update", op |-> "modify", id |-> a, set |-> k,
                      row |-> [row[a] EXCEPT !.set[k] = v]]
         IN  next \in Modifies /\ Begin(r, a, next)
<1>1. row[a] \in Rows
  BY RowIsThere DEF Modify
<1>2. [row[a] EXCEPT !.set[k] = v] \in Rows
  BY <1>1, RowChanges
<1> DEFINE w == [row[a] EXCEPT !.set[k] = v]
<1>3. [step |-> "update", op |-> "modify", id |-> a, set |-> k, row |-> w] \in Modifies
  <2>1. w \in Rows
    BY <1>2
  <2> HIDE DEF w
  <2> QED BY <2>1 DEF Modifies
<1> QED BY <1>3, Zenon DEF Modify

(* How a deletion begins.                                                  *)
LEMMA DeleteEffect ==
  ASSUME Types, NEW r \in Request, NEW a \in Id, DeleteAnnouncement(r, a)
  PROVE  LET next == [step |-> "update", op |-> "delete", id |-> a, row |-> [row[a] EXCEPT !.valid = FALSE]]
         IN  next \in Deletes /\ Begin(r, a, next)
<1>1. row[a] \in Rows
  BY RowIsThere DEF DeleteAnnouncement
<1>2. [row[a] EXCEPT !.valid = FALSE] \in Rows
  BY <1>1, RowChanges
<1> DEFINE w == [row[a] EXCEPT !.valid = FALSE]
<1>3. [step |-> "update", op |-> "delete", id |-> a, row |-> w] \in Deletes
  <2>1. w \in Rows
    BY <1>2
  <2> HIDE DEF w
  <2> QED BY <2>1 DEF Deletes
<1> QED BY <1>3, Zenon DEF DeleteAnnouncement

(* The call of a save that goes on to its update *)
UpdatingCall(r) ==
  [step |-> "update", op |-> "save", id |-> call[r].id,
   row |-> [call[r].row EXCEPT !.version = @ + 1, !.content = call[r].content],
   decrement |-> Compare(call[r].content, call[r].row.content)]

(* How a save goes on, or ends where the edits back cannot be computed.    *)
LEMMA SetIncrementCall ==
  ASSUME Types, NEW r \in Request, SetIncrement(r)
  PROVE  /\ UNCHANGED <<row, snapshot, causes>>
         /\ UpdatingCall(r) \in Saves /\ UpdatingCall(r).step = "update"
         /\ \/ UpdatingCall(r).decrement.thrown /\ call' = [call EXCEPT ![r] = Idle]
            \/ ~ UpdatingCall(r).decrement.thrown /\ call' = [call EXCEPT ![r] = UpdatingCall(r)]
<1>1. call[r] \in Increments /\ call[r].row.version < MaxVersion
  BY SetIncrementEffect DEF Types
<1>2. /\ [call[r].row EXCEPT !.version = @ + 1, !.content = call[r].content] \in Rows
      /\ Compare(call[r].content, call[r].row.content) \in Edit
      /\ call[r].id \in Id
  BY <1>1, RowChanges, EditComes DEF Increments, Rows, Papers
<1> DEFINE w == [call[r].row EXCEPT !.version = @ + 1, !.content = call[r].content]
           d == Compare(call[r].content, call[r].row.content)
           u == [step |-> "update", op |-> "save", id |-> call[r].id, row |-> w, decrement |-> d]
<1>3. u \in Saves /\ u.step = "update" /\ u.decrement = d
  <2> HIDE DEF w, d
  <2> QED BY <1>2 DEF Saves, w, d
<1>4. UpdatingCall(r) = u
  BY Zenon DEF UpdatingCall
<1>5. IF d.thrown THEN call' = [call EXCEPT ![r] = Idle] ELSE call' = [call EXCEPT ![r] = u]
  BY Zenon DEF SetIncrement, End
<1>6. UNCHANGED <<row, snapshot, causes>>
  BY DEF SetIncrement
<1> HIDE DEF u, d
<1> QED BY <1>3, <1>4, <1>5, <1>6

(* A step that only changes the step of its call.                          *)
LEMMA StepEffect ==
  ASSUME Types, NEW r \in Request, NEW t, Step(r, t),
         [call[r] EXCEPT !.step = t] \in Calls
  PROVE  call' = [call EXCEPT ![r] = [call[r] EXCEPT !.step = t]]
BY DEF Step, Types

(* What writing the row changes.                                           *)
LEMMA UpdateRowEffect ==
  ASSUME Types, NEW r \in Request, UpdateRow(r)
  PROVE  LET t == IF call[r].op = "save" THEN "insert"
                  ELSE IF call[r].op = "modify" THEN "setAll" ELSE "findLast"
             c == [call[r] EXCEPT !.step = t]
         IN  /\ call[r] \in Saves \union Modifies \union Deletes /\ call[r].step = "update"
             /\ row' = [row EXCEPT ![call[r].id] = call[r].row] /\ call[r].row \in Rows /\ call[r].id \in Id
             /\ call' = [call EXCEPT ![r] = c] /\ c \in Calls
             /\ UNCHANGED <<history, snapshot, causes>>
<1> DEFINE t == IF call[r].op = "save" THEN "insert"
                  ELSE IF call[r].op = "modify" THEN "setAll" ELSE "findLast"
           c == [call[r] EXCEPT !.step = t]
<1>1. call[r] \in Saves \union Modifies \union Deletes /\ call[r].step = "update"
  BY CallKinds DEF UpdateRow
<1>2. [save |-> "insert", modify |-> "setAll", delete |-> "findLast"][call[r].op] = t
  BY <1>1 DEF Saves, Modifies, Deletes
<1>3. c \in Calls
  BY <1>1 DEF Saves, Modifies, Deletes, Calls
<1>4. call' = [call EXCEPT ![r] = c]
  <2>1. Step(r, t)
    <3> HIDE DEF t
    <3> QED BY <1>2 DEF UpdateRow
  <2> HIDE DEF t
  <2> QED BY <2>1 DEF Step, Types
<1>5. row' = [row EXCEPT ![call[r].id] = call[r].row] /\ UNCHANGED <<history, snapshot, causes>>
  BY DEF UpdateRow
<1>6. call[r].row \in Rows /\ call[r].id \in Id
  BY <1>1 DEF Saves, Modifies, Deletes
<1> QED BY <1>1, <1>3, <1>4, <1>5, <1>6

(* How a call goes on when its history is stored: to the snapshot if one   *)
(* is due.                                                                 *)
LEMMA InsertHistoryCall ==
  ASSUME Types, NEW r \in Request, InsertHistory(r)
  PROVE  /\ UNCHANGED <<row, snapshot, causes>>
         /\ \/ call' = [call EXCEPT ![r] = Idle]
               /\ (call[r].op = "save" => call[r].row.version % SNAPSHOT_INTERVAL # 0)
            \/ /\ call' = [call EXCEPT ![r] = [call[r] EXCEPT !.step = "snapshot"]]
               /\ [call[r] EXCEPT !.step = "snapshot"] \in Saves
               /\ call[r].op = "save" /\ call[r].row.version % SNAPSHOT_INTERVAL = 0
<1>1. call[r] \in Saves \union Creates
  BY InsertHistoryEffect
<1>2. CASE call[r].op = "save" /\ call[r].row.version % SNAPSHOT_INTERVAL = 0
  <2>1. Step(r, "snapshot")
    BY <1>2, Zenon DEF InsertHistory
  <2>2. [call[r] EXCEPT !.step = "snapshot"] \in Saves
    BY <1>1, <1>2 DEF Saves, Creates
  <2> QED BY <1>2, <2>1, <2>2 DEF Step, InsertHistory
<1>3. CASE ~ (call[r].op = "save" /\ call[r].row.version % SNAPSHOT_INTERVAL = 0)
  BY <1>3, Zenon DEF InsertHistory, End
<1> QED BY <1>2, <1>3

(* What generateSnapshot adds.                                             *)
LEMMA SnapshotEffect ==
  ASSUME Types, NEW r \in Request, generateSnapshot(r)
  PROVE  LET s == [announcement |-> call[r].id, version |-> call[r].row.version, content |-> call[r].row.content]
         IN  /\ call[r] \in Saves /\ call[r].step = "snapshot" /\ s \in Snapshots
             /\ s.version % SNAPSHOT_INTERVAL = 0
             /\ snapshot' = snapshot \union {s} /\ call' = [call EXCEPT ![r] = Idle]
             /\ UNCHANGED <<row, history, causes>>
<1>1. call[r] \in Saves /\ call[r].step = "snapshot" /\ call[r].row.version % SNAPSHOT_INTERVAL = 0
  BY CallKinds DEF generateSnapshot, Types
<1> QED BY <1>1 DEF generateSnapshot, End, Saves, Snapshots, Rows, Versions

(* How a deletion goes on: with one of the histories it finds, or not at   *)
(* all.                                                                    *)
LEMMA FindLastEffect ==
  ASSUME Types, NEW r \in Request, FindLast(r)
  PROVE  /\ call[r] \in Deletes /\ call[r].step = "findLast"
         /\ UNCHANGED <<row, history, snapshot, causes>>
         /\ \/ call' = [call EXCEPT ![r] = Idle] /\ OfVersion(call[r].id, call[r].row.version) = {}
            \/ \E i \in OfVersion(call[r].id, call[r].row.version) :
                 LET c == [step |-> "last", op |-> "delete", id |-> call[r].id, at |-> i,
                           history |-> [history[i] EXCEPT !.valid = FALSE]]
                 IN  call' = [call EXCEPT ![r] = c] /\ c \in Lasts
<1>1. call[r] \in Deletes /\ call[r].step = "findLast"
  BY CallKinds DEF FindLast
<1> DEFINE S == OfVersion(call[r].id, call[r].row.version)
           c(i) == [step |-> "last", op |-> "delete", id |-> call[r].id, at |-> i,
                    history |-> [history[i] EXCEPT !.valid = FALSE]]
<1>2. UNCHANGED <<row, history, snapshot, causes>>
  BY DEF FindLast
<1>3. CASE S = {}
  BY <1>1, <1>2, <1>3, Zenon DEF FindLast, End
<1>4. CASE S # {}
  <2>1. PICK i \in S : call' = [call EXCEPT ![r] = c(i)]
    BY <1>4, Zenon DEF FindLast
  <2>2. i \in DOMAIN history /\ history[i] \in Histories /\ i \in Nat
    BY ElementOfSeq, LenProperties DEF Types, OfVersion, Of
  <2>3. [history[i] EXCEPT !.valid = FALSE] \in Histories
    BY <2>2 DEF Histories
  <2> DEFINE h == [history[i] EXCEPT !.valid = FALSE]
  <2>4. [step |-> "last", op |-> "delete", id |-> call[r].id, at |-> i, history |-> h] \in Lasts
    <3>1. h \in Histories
      BY <2>3
    <3>2. call[r].id \in Id
      BY <1>1 DEF Deletes
    <3> HIDE DEF h
    <3> QED BY <2>2, <3>1, <3>2 DEF Lasts
  <2>5. c(i) \in Lasts
    BY <2>4, Zenon
  <2> QED BY <1>1, <1>2, <2>1, <2>5, Zenon
<1> QED BY <1>3, <1>4

(* The beginning of a call keeps the types.                                *)
LEMMA Begins ==
  ASSUME Types, NEW r \in Request, NEW a \in Id, NEW c \in Calls, Begin(r, a, c),
         c.step = "increment" => c.row.version < MaxVersion, c.step # "snapshot"
  PROVE  Types'
<1>1. /\ call' = [call EXCEPT ![r] = c]
      /\ causes' \in [Id -> SUBSET {"edit", "overlap", "spill", "failure"}]
      /\ UNCHANGED <<row, history, snapshot>>
  BY BeginEffect
<1>2. /\ row' \in [Id -> Rows \union {None}] /\ history' \in Seq(Histories)
      /\ snapshot' \subseteq Snapshots /\ \A s \in snapshot' : s.version % SNAPSHOT_INTERVAL = 0
  BY <1>1 DEF Types
<1> QED BY <1>1, <1>2, TypesKept

(* TypesKept for a step that leaves some of the variables.                 *)
LEMMA TypesStep ==
  ASSUME Types, NEW r \in Request, NEW c \in Calls \union {Idle}, call' = [call EXCEPT ![r] = c],
         c.step = "increment" => c.row.version < MaxVersion,
         c.step = "snapshot" => c.row.version % SNAPSHOT_INTERVAL = 0,
         row' = row \/ row' \in [Id -> Rows \union {None}],
         history' = history \/ history' \in Seq(Histories),
         snapshot' = snapshot \/ \E s \in Snapshots : s.version % SNAPSHOT_INTERVAL = 0 /\ snapshot' = snapshot \union {s},
         causes' = causes \/ causes' \in [Id -> SUBSET {"edit", "overlap", "spill", "failure"}]
  PROVE  Types'
<1>1. /\ row' \in [Id -> Rows \union {None}] /\ history' \in Seq(Histories)
      /\ snapshot' \subseteq Snapshots /\ \A s \in snapshot' : s.version % SNAPSHOT_INTERVAL = 0
      /\ causes' \in [Id -> SUBSET {"edit", "overlap", "spill", "failure"}]
  BY DEF Types
<1> QED BY <1>1, TypesKept

(* The types hold at first.                                                *)
LEMMA TypesInit == Init => Types
<1> SUFFICES ASSUME Init PROVE Types
  OBVIOUS
<1>1. history \in Seq(Histories)
  BY EmptySeq DEF Init
<1> QED BY <1>1 DEF Init, Types, Idle

(* Every step keeps the types.                                             *)
LEMMA TypesNext == Types /\ [Next]_vars => Types'
<1> SUFFICES ASSUME Types, [Next]_vars PROVE Types'
  OBVIOUS
<1> USE DEF Next
<1>1. ASSUME NEW r \in Request, NEW a \in Id, NEW c \in Content, NEW s \in [Setting -> Level],
             Create(r, a, c, s)
      PROVE  Types'
  <2> DEFINE w == [version |-> 1, content |-> c, set |-> s, valid |-> TRUE]
  <2>1. /\ w \in Rows /\ row' = [row EXCEPT ![a] = w] /\ UNCHANGED <<history, snapshot, causes>>
        /\ CreatedCall(r, a, c, s) \in Creates /\ call' = [call EXCEPT ![r] = CreatedCall(r, a, c, s)]
    BY <1>1, CreateEffect
  <2> HIDE DEF w
  <2>2. row' \in [Id -> Rows \union {None}]
    BY <2>1 DEF Types
  <2>3. CreatedCall(r, a, c, s) \in Calls /\ CreatedCall(r, a, c, s).step = "insert"
    BY <2>1 DEF Calls, Creates
  <2> QED BY <2>1, <2>2, <2>3, TypesStep
<1>2. ASSUME NEW r \in Request, NEW a \in Id, NEW c \in Content, Save(r, a, c)
      PROVE  Types'
  <2> DEFINE n == [step |-> "increment", op |-> "save", id |-> a, row |-> row[a], content |-> c]
  <2>1. n \in Increments /\ Begin(r, a, n) /\ row[a].version < MaxVersion
    BY <1>2, SaveEffect, Zenon
  <2>2. n.row = row[a] /\ n.step = "increment"
    OBVIOUS
  <2> HIDE DEF n
  <2>3. n \in Calls
    BY <2>1 DEF Calls
  <2> QED BY <2>1, <2>2, <2>3, Begins
<1>3. ASSUME NEW r \in Request, NEW a \in Id, NEW k \in Setting, NEW v \in Level, Modify(r, a, k, v)
      PROVE  Types'
  <2> DEFINE n == [step |-> "update", op |-> "modify", id |-> a, set |-> k, row |-> [row[a] EXCEPT !.set[k] = v]]
  <2>1. n \in Modifies /\ Begin(r, a, n)
    BY <1>3, ModifyEffect, Zenon
  <2> HIDE DEF n
  <2>3. n \in Calls /\ n.step # "increment" /\ n.step # "snapshot"
    BY <2>1 DEF Calls, Modifies
  <2> QED BY <2>1, <2>3, Begins
<1>4. ASSUME NEW r \in Request, NEW a \in Id, DeleteAnnouncement(r, a)
      PROVE  Types'
  <2> DEFINE n == [step |-> "update", op |-> "delete", id |-> a, row |-> [row[a] EXCEPT !.valid = FALSE]]
  <2>1. n \in Deletes /\ Begin(r, a, n)
    BY <1>4, DeleteEffect, Zenon
  <2> HIDE DEF n
  <2>3. n \in Calls /\ n.step # "increment" /\ n.step # "snapshot"
    BY <2>1 DEF Calls, Deletes
  <2> QED BY <2>1, <2>3, Begins
<1>5. ASSUME NEW r \in Request, SetIncrement(r) PROVE Types'
  <2>1. history' \in Seq(Histories)
    BY <1>5, SetIncrementEffect
  <2>2. /\ UpdatingCall(r) \in Calls /\ UpdatingCall(r).step = "update"
        /\ row' = row /\ snapshot' = snapshot /\ causes' = causes
        /\ call' = [call EXCEPT ![r] = Idle] \/ call' = [call EXCEPT ![r] = UpdatingCall(r)]
    BY <1>5, SetIncrementCall DEF Calls
  <2>3. CASE call' = [call EXCEPT ![r] = Idle]
    BY <2>1, <2>2, <2>3, IdleEnds, TypesStep
  <2>4. CASE call' = [call EXCEPT ![r] = UpdatingCall(r)]
    BY <2>1, <2>2, <2>4, TypesStep
  <2> QED BY <2>2, <2>3, <2>4
<1>6. ASSUME NEW r \in Request, UpdateRow(r) PROVE Types'
  <2> DEFINE t == IF call[r].op = "save" THEN "insert"
                  ELSE IF call[r].op = "modify" THEN "setAll" ELSE "findLast"
             c == [call[r] EXCEPT !.step = t]
  <2>1. /\ row' = [row EXCEPT ![call[r].id] = call[r].row] /\ call[r].row \in Rows /\ call[r].id \in Id
        /\ call' = [call EXCEPT ![r] = c] /\ c \in Calls
        /\ UNCHANGED <<history, snapshot, causes>>
        /\ call[r] \in Saves \union Modifies \union Deletes
    BY <1>6, UpdateRowEffect, Zenon
  <2>2. c.step # "increment" /\ c.step # "snapshot"
    <3>1. t # "increment" /\ t # "snapshot"
      OBVIOUS
    <3> HIDE DEF t
    <3>2. c.step = t
      BY <2>1 DEF Saves, Modifies, Deletes
    <3> QED BY <3>1, <3>2
  <2> HIDE DEF c
  <2>3. row' \in [Id -> Rows \union {None}]
    BY <2>1 DEF Types
  <2> QED BY <2>1, <2>2, <2>3, TypesStep
<1>7. ASSUME NEW r \in Request, InsertHistory(r) PROVE Types'
  <2>1. history' \in Seq(Histories)
    BY <1>7, InsertHistoryEffect
  <2> DEFINE c == [call[r] EXCEPT !.step = "snapshot"]
  <2>2. UNCHANGED <<row, snapshot, causes>>
    BY <1>7, InsertHistoryCall
  <2>3. \/ call' = [call EXCEPT ![r] = Idle]
        \/ call' = [call EXCEPT ![r] = c] /\ c \in Saves /\ call[r].row.version % SNAPSHOT_INTERVAL = 0
    BY <1>7, InsertHistoryCall, Zenon
  <2>4. CASE call' = [call EXCEPT ![r] = Idle]
    BY <2>1, <2>2, <2>4, IdleEnds, TypesStep
  <2>5. CASE call' = [call EXCEPT ![r] = c] /\ c \in Saves /\ call[r].row.version % SNAPSHOT_INTERVAL = 0
    <3>1. call[r] \in Saves \union Creates
      BY <1>7, InsertHistoryEffect
    <3>2. c.step = "snapshot" /\ c.row.version % SNAPSHOT_INTERVAL = 0
      BY <2>5, <3>1 DEF Saves, Creates
    <3> HIDE DEF c
    <3>3. c \in Calls
      BY <2>5 DEF Calls
    <3> QED BY <2>1, <2>2, <2>5, <3>2, <3>3, TypesStep
  <2> QED BY <2>3, <2>4, <2>5
<1>8. ASSUME NEW r \in Request, generateSnapshot(r) PROVE Types'
  <2> DEFINE s == [announcement |-> call[r].id, version |-> call[r].row.version, content |-> call[r].row.content]
  <2>1. /\ s \in Snapshots /\ s.version % SNAPSHOT_INTERVAL = 0
        /\ snapshot' = snapshot \union {s} /\ call' = [call EXCEPT ![r] = Idle]
        /\ UNCHANGED <<row, history, causes>>
    BY <1>8, SnapshotEffect, Zenon
  <2> HIDE DEF s
  <2> QED BY <2>1, IdleEnds, TypesStep
<1>9. ASSUME NEW r \in Request, SetAll(r) PROVE Types'
  <2>1. history' \in Seq(Histories)
    BY <1>9, SetAllEffect
  <2>2. causes' = [a \in Id |->
              IF a # call[r].id /\ \E i \in Of(a) : history[i].version = call[r].row.version
              THEN causes[a] \union {"spill"} ELSE causes[a]]
    BY <1>9, SetAllEffect
  <2>3. causes' \in [Id -> SUBSET {"edit", "overlap", "spill", "failure"}]
    BY <2>2 DEF Types
  <2>4. call' = [call EXCEPT ![r] = Idle] /\ UNCHANGED <<row, snapshot>>
    BY <1>9 DEF SetAll, End
  <2> QED BY <2>1, <2>3, <2>4, IdleEnds, TypesStep
<1>10. ASSUME NEW r \in Request, FindLast(r) PROVE Types'
  <2>1. UNCHANGED <<row, history, snapshot, causes>>
    BY <1>10, FindLastEffect
  <2>2. CASE call' = [call EXCEPT ![r] = Idle]
    BY <2>1, <2>2, IdleEnds, TypesStep
  <2>3. CASE \E i \in OfVersion(call[r].id, call[r].row.version) :
                 LET c == [step |-> "last", op |-> "delete", id |-> call[r].id, at |-> i,
                           history |-> [history[i] EXCEPT !.valid = FALSE]]
                 IN  call' = [call EXCEPT ![r] = c] /\ c \in Lasts
    <3>1. PICK c \in Lasts : call' = [call EXCEPT ![r] = c]
      BY <2>3, Zenon
    <3>2. c \in Calls /\ c.step = "last"
      BY <3>1 DEF Calls, Lasts
    <3> QED BY <2>1, <3>1, <3>2, TypesStep
  <2> QED BY <1>10, <2>2, <2>3, FindLastEffect, Zenon
<1>11. ASSUME NEW r \in Request, UpdateLast(r) PROVE Types'
  <2>1. history' \in Seq(Histories)
    BY <1>11, UpdateLastEffect
  <2>2. UNCHANGED <<row, snapshot, causes>> /\ call' = [call EXCEPT ![r] = Idle]
    BY <1>11 DEF UpdateLast, End
  <2> QED BY <2>1, <2>2, IdleEnds, TypesStep
<1>12. ASSUME NEW r \in Request, CallThrows(r) PROVE Types'
  <2>1. UNCHANGED <<row, history, snapshot>> /\ call' = [call EXCEPT ![r] = Idle]
    BY <1>12 DEF CallThrows, End
  <2>2. causes' \in [Id -> SUBSET {"edit", "overlap", "spill", "failure"}]
    BY <1>12 DEF CallThrows, Types
  <2> QED BY <2>1, <2>2, IdleEnds, TypesStep
<1>13. CASE UNCHANGED vars
  BY <1>13 DEF vars, Types
<1> QED BY <1>1, <1>2, <1>3, <1>4, <1>5, <1>6, <1>7, <1>8, <1>9, <1>10, <1>11, <1>12, <1>13, Zenon

-----------------------------------------------------------------------------
(*****************************************************************************)
(* What a step leaves to an announcement it is not about, and which parts  *)
(* of the invariant a step keeps that does not save.                       *)
(*****************************************************************************)
(* The step leaves the versions that the histories of a are of. *)
KeepsSaved(a) ==
  /\ Of(a)' = Of(a)
  /\ \A i \in Of(a) :
       history'[i].version = history[i].version /\ history'[i].saved = history[i].saved

(* It leaves the histories of a as they are, but for their columns. *)
KeepsEdits(a) ==
  /\ Of(a)' = Of(a)
  /\ \A i \in Of(a) :
       /\ history'[i].version = history[i].version
       /\ history'[i].increment = history[i].increment
       /\ history'[i].decrement = history[i].decrement
       /\ history'[i].saved = history[i].saved

KeepsLatest(a) == row'[a].version = row[a].version /\ row'[a].content = row[a].content

(* What keeps the edits keeps the versions.                                *)
LEMMA EditsAndSaved ==
  ASSUME NEW a, KeepsEdits(a)
  PROVE  KeepsSaved(a)
BY DEF KeepsEdits, KeepsSaved

(* Then the histories of each version stay.                                *)
LEMMA OfKept ==
  ASSUME NEW a, KeepsSaved(a)
  PROVE  \A v : OfVersion(a, v)' = OfVersion(a, v)
BY DEF KeepsSaved, OfVersion

(* A step that keeps the versions and the row's number keeps the           *)
(* numbering, if a history that is awaited still is.                       *)
LEMMA NumberedKept ==
  ASSUME NEW a, KeepsSaved(a), KeepsLatest(a), Whole(a)' => Whole(a),
         Whole(a)' /\ Inserting(a) => Inserting(a)', Numbered(a)
  PROVE  Numbered(a)'
<1>1. \A i, j \in Of(a)' : history'[i].version = history'[j].version => i = j
  BY DEF KeepsSaved, Numbered
<1>2. \A i \in Of(a)' : history'[i].version <= row'[a].version
  BY DEF KeepsSaved, KeepsLatest, Numbered
<1>3. Whole(a)' => \A v \in 1..row'[a].version :
         (v = row'[a].version /\ Inserting(a)') \/ OfVersion(a, v)' # {}
  BY OfKept DEF KeepsLatest, Numbered
<1> QED BY <1>1, <1>2, <1>3 DEF Numbered

(* It keeps the latest history, if the row keeps its content.              *)
LEMMA LatestKept ==
  ASSUME NEW a, KeepsSaved(a), KeepsLatest(a), Latest(a)
  PROVE  Latest(a)'
<1>1. \A i \in OfVersion(a, row[a].version)' : history'[i].saved = row'[a].content
  BY DEF KeepsSaved, KeepsLatest, Latest, OfVersion
<1> QED BY <1>1 DEF Latest

(* A step that keeps the edits keeps what they join.                       *)
LEMMA JoinedKept ==
  ASSUME NEW a, KeepsEdits(a), Joined(a)
  PROVE  Joined(a)'
BY DEF KeepsEdits, Joined

(* A step that keeps the versions and the snapshots keeps what is said of  *)
(* both, if a snapshot that is awaited still is.                           *)
LEMMA SnappedKept ==
  ASSUME Types, NEW a \in Id, KeepsSaved(a), row'[a].version = row[a].version,
         SnapshotsOf(a)' = SnapshotsOf(a),
         Whole(a)' => Whole(a),
         \A r \in Running(a)' : call'[r].step = "insert" => Inserting(a),
         Whole(a)' => \A r \in Running(a) :
           call[r].op = "save" /\ call[r].step \in {"insert", "snapshot"} =>
             \E s \in Running(a)' : call'[s].op = "save" /\ call'[s].step \in {"insert", "snapshot"},
         Snapped(a)
  PROVE  Snapped(a)'
<1>1. \A s \in SnapshotsOf(a)' :
       /\ s.version <= row'[a].version
       /\ \A i \in OfVersion(a, s.version)' : s.content = history'[i].saved
  BY DEF Snapped, KeepsSaved, OfVersion
<1>2. \A r \in Running(a)' :
       call'[r].step = "insert" => \A s \in SnapshotsOf(a)' : s.version < row'[a].version
  BY DEF Snapped, Inserting
<1>3. ASSUME Whole(a)', NEW v \in 2..row'[a].version, v % SNAPSHOT_INTERVAL = 0
      PROVE  \/ Taken(a, v)'
             \/ /\ v = row'[a].version
                /\ \E r \in Running(a)' : call'[r].op = "save" /\ call'[r].step \in {"insert", "snapshot"}
  <2>1. Taken(a, v)' <=> Taken(a, v)
    BY DEF Taken
  <2>2. v \in 2..row[a].version
    OBVIOUS
  <2>3. \/ Taken(a, v)
        \/ /\ v = row[a].version
           /\ \E r \in Running(a) : call[r].op = "save" /\ call[r].step \in {"insert", "snapshot"}
    BY <1>3, <2>2 DEF Snapped
  <2> QED BY <1>3, <2>1, <2>3
<1> QED BY <1>1, <1>2, <1>3 DEF Snapped

(* A step after which no other call runs on a keeps Alone.                 *)
LEMMA AloneKept ==
  ASSUME NEW a, Running(a)' \subseteq Running(a), \A r \in Running(a)' : call'[r].op = call[r].op,
         causes'[a] = {} => causes[a] = {}, Alone(a)
  PROVE  Alone(a)'
<1>1. ASSUME NEW r \in Running(a)', call'[r].op = "save" \/ causes'[a] = {}
      PROVE  Running(a)' = {r}
  <2>1. Running(a) = {r}
    BY <1>1 DEF Alone
  <2> QED BY <2>1
<1>2. \A r, s \in Running(a)' : call'[r].op = "create" /\ call'[s].op = "create" => r = s
  BY DEF Alone
<1> QED BY <1>1, <1>2 DEF Alone

(* The type of the histories, one by one.                                  *)
LEMMA HistoryTyped ==
  ASSUME Types
  PROVE  \A i \in DOMAIN history : i \in Nat /\ history[i] \in Histories
BY ElementOfSeq, LenProperties DEF Types

(* The same in the next state.                                             *)
LEMMA HistoryTypedNext ==
  ASSUME Types'
  PROVE  \A i \in DOMAIN history' : i \in Nat /\ history'[i] \in Histories
BY ElementOfSeq, LenProperties DEF Types

(* What a call knows stays true while the edits and the latest version     *)
(* stay; a save, or a call on an undisturbed announcement, needs the row   *)
(* as it is.                                                               *)
LEMMA KnowsKept ==
  ASSUME Types, Types', NEW a \in Id, row[a] \in Rows, KeepsEdits(a), KeepsLatest(a),
         causes'[a] = {} => causes[a] = {}, NEW c \in Calls,
         c.op = "save" \/ causes'[a] = {} => row'[a] = row[a], Knows(a, c)
  PROVE  Knows(a, c)'
<1>0. \A v : OfVersion(a, v)' = OfVersion(a, v)
  BY OfKept, EditsAndSaved
<1>1. c.step = "increment" =>
       /\ c.row = row'[a]
       /\ ~ Compare(row'[a].content, c.content).thrown
  BY DEF Knows, Calls, Increments, Saves, Creates, Modifies, Deletes, Lasts
<1>2. c.step = "update" /\ c.op = "save" =>
       /\ c.row.version = row'[a].version + 1
       /\ c.row.set = row'[a].set /\ c.row.valid = row'[a].valid
       /\ Joins(c.row.content, c.decrement, row'[a].content)
       /\ \A i \in OfVersion(a, row[a].version)' :
            Joins(history'[i].saved, history'[i].increment, c.row.content)
  BY <1>0 DEF Knows, KeepsEdits, OfVersion
<1>3. c.step \in {"insert", "setAll", "findLast"} \/ (c.step = "update" /\ c.op # "save") =>
       c.row.version = row'[a].version /\ c.row.content = row'[a].content
  BY DEF Knows, KeepsLatest
<1>4. c.step = "insert" =>
       \A i \in Of(a)' :
         /\ history'[i].version < row'[a].version
         /\ history'[i].version + 1 = row'[a].version =>
              /\ Joins(history'[i].saved, history'[i].increment, c.row.content)
              /\ Joins(c.row.content, c.decrement, history'[i].saved)
  BY DEF Knows, KeepsLatest, KeepsEdits
<1>5. c.op = "create" => row'[a].version = 1
  BY DEF Knows, KeepsLatest
<1>6. c.step = "snapshot" \/ (c.step = "insert" /\ (c.op = "save" \/ causes'[a] = {})) =>
       c.row = row'[a]
  BY DEF Knows, Calls, Increments, Saves, Creates, Modifies, Deletes, Lasts
<1>7. c.step = "last" =>
       /\ c.at \in OfVersion(a, row[a].version)'
       /\ c.history = [history'[c.at] EXCEPT !.set = c.history.set, !.valid = c.history.valid]
  <2> SUFFICES ASSUME c.step = "last"
               PROVE  /\ c.at \in OfVersion(a, row[a].version)'
                      /\ c.history = [history'[c.at] EXCEPT !.set = c.history.set, !.valid = c.history.valid]
    OBVIOUS
  <2>1. c.at \in OfVersion(a, row[a].version) /\ c \in Lasts
    BY DEF Knows, Calls, Increments, Saves, Creates, Modifies, Deletes, Lasts
  <2>2. c.at \in OfVersion(a, row[a].version)'
    BY <2>1, <1>0 DEF KeepsLatest
  <2>3. /\ c.at \in Of(a) /\ c.at \in DOMAIN history /\ c.at \in Of(a)'
        /\ c.at \in DOMAIN history' /\ history'[c.at].announcement = history[c.at].announcement
    BY <2>1 DEF OfVersion, Of, KeepsEdits
  <2>4. history[c.at] \in Histories /\ history'[c.at] \in Histories
    BY <2>3, HistoryTyped, HistoryTypedNext, Zenon
  <2>5. c.history = [history[c.at] EXCEPT !.set = c.history.set, !.valid = c.history.valid]
    BY DEF Knows
  <2>6. /\ history'[c.at].version = history[c.at].version
        /\ history'[c.at].increment = history[c.at].increment
        /\ history'[c.at].decrement = history[c.at].decrement
        /\ history'[c.at].saved = history[c.at].saved
    BY <2>3 DEF KeepsEdits
  <2>7. [history[c.at] EXCEPT !.set = c.history.set, !.valid = c.history.valid]
          = [history'[c.at] EXCEPT !.set = c.history.set, !.valid = c.history.valid]
    BY <2>3, <2>4, <2>6 DEF Histories
  <2> QED BY <2>2, <2>5, <2>7
<1> QED BY <1>1, <1>2, <1>3, <1>4, <1>5, <1>6, <1>7, Zenon DEF Knows

(* The columns stay where row, calls and histories do.                     *)
LEMMA ColumnsSame ==
  ASSUME NEW a, row'[a] = row[a], Running(a)' = Running(a), \A r \in Running(a) : call'[r] = call[r],
         KeepsEdits(a), causes[a] \subseteq causes'[a],
         causes'[a] = {} => \A i \in Of(a) : history'[i] = history[i], Columns(a)
  PROVE  Columns(a)'
<1> SUFFICES ASSUME causes'[a] = {}
             PROVE  Columns(a)'
  BY DEF Columns
<1>1. causes[a] = {} /\ \A i \in Of(a) : history'[i] = history[i]
  OBVIOUS
<1>2. OfVersion(a, row[a].version)' = OfVersion(a, row[a].version)
  BY DEF KeepsEdits, OfVersion
<1>3. \A i \in OfVersion(a, row[a].version)' :
         /\ \/ history'[i].valid = row'[a].valid
            \/ \E r \in Running(a)' : call'[r].step \in {"findLast", "last"}
         /\ \A k \in Setting :
              \/ history'[i].set[k] = row'[a].set[k]
              \/ \E r \in Running(a)' : call'[r].step = "setAll" /\ call'[r].set = k
  BY <1>1, <1>2 DEF Columns, OfVersion
<1>4. \A r \in Running(a)' : Intends(row'[a], call'[r])
  BY <1>1 DEF Columns
<1>5. \A r \in Running(a)' : Intends(row[a], call[r])'
  BY <1>4 DEF Intends
<1> QED BY <1>3, <1>5 DEF Columns

(* What the calls of a and its rows are, the step leaves. *)
Untouched(a) ==
  /\ row'[a] = row[a]
  /\ Running(a)' = Running(a)
  /\ \A r \in Running(a) : call'[r] = call[r]
  /\ KeepsEdits(a)
  /\ SnapshotsOf(a)' = SnapshotsOf(a)
  /\ causes[a] \subseteq causes'[a]
  /\ causes'[a] = {} => \A i \in Of(a) : history'[i] = history[i]

(* A call that runs on a is a call that names a.                           *)
LEMMA RunningCalls ==
  ASSUME Types, NEW a
  PROVE  \A r \in Running(a) : r \in Request /\ call[r] \in Calls /\ call[r].id = a
BY CallKinds DEF Running, Busy, Idle

(* A step that leaves an announcement alone keeps its invariant.           *)
LEMMA UntouchedStays ==
  ASSUME Types, Types', NEW a \in Id, row[a] # None, Untouched(a), Stored(a)
  PROVE  Stored(a)'
<1>0. /\ row'[a] = row[a] /\ Running(a)' = Running(a) /\ \A r \in Running(a) : call'[r] = call[r]
      /\ KeepsEdits(a) /\ SnapshotsOf(a)' = SnapshotsOf(a) /\ causes[a] \subseteq causes'[a]
      /\ causes'[a] = {} => \A i \in Of(a) : history'[i] = history[i]
  BY DEF Untouched
<1>00. /\ Alone(a) /\ \A r \in Running(a) : Knows(a, call[r])
       /\ Numbered(a) /\ Latest(a) /\ Joined(a) /\ Columns(a) /\ Snapped(a)
  BY DEF Stored
<1>1. row[a] \in Rows /\ KeepsLatest(a) /\ KeepsSaved(a)
  BY <1>0, RowIsThere, EditsAndSaved DEF KeepsLatest
<1>2. Whole(a)' => Whole(a)
  BY <1>0 DEF Whole
<1>3. Inserting(a)' <=> Inserting(a)
  BY <1>0 DEF Inserting
<1>4. causes'[a] = {} => causes[a] = {}
  BY <1>0
<1>5. Alone(a)'
  BY <1>0, <1>00, <1>4, AloneKept
<1>6. ASSUME NEW r \in Running(a)' PROVE Knows(a, call[r])'
  <2>1. PICK c : c = call[r]
    OBVIOUS
  <2>2. call'[r] = c /\ c \in Calls /\ Knows(a, c)
    BY <1>0, <1>00, <1>6, <2>1, RunningCalls
  <2>3. Knows(a, c)'
    BY <1>0, <1>1, <1>4, <2>2, KnowsKept
  <2> QED BY <2>2, <2>3
<1>7. Numbered(a)'
  BY <1>0, <1>00, <1>1, <1>2, <1>3, NumberedKept
<1>8. Latest(a)'
  BY <1>0, <1>00, <1>1, LatestKept
<1>9. Joined(a)'
  BY <1>0, <1>00, JoinedKept
<1>10. Columns(a)'
  BY <1>0, <1>00, ColumnsSame
<1>11. Snapped(a)'
  <2>1. \A r \in Running(a)' : call'[r].step = "insert" => Inserting(a)
    BY <1>0 DEF Inserting
  <2> QED BY <1>0, <1>00, <1>1, <1>2, <2>1, SnappedKept DEF KeepsLatest
<1> QED BY <1>5, <1>6, <1>7, <1>8, <1>9, <1>10, <1>11 DEF Stored

(* The histories stay those of their announcements. *)
KeepsOwners ==
  \A i \in DOMAIN history : i \in DOMAIN history' /\ history'[i].announcement = history[i].announcement

(* A step by r, whose call is c after it, of the announcement a. *)
Turn(r, a, c) ==
  /\ call' = [call EXCEPT ![r] = c]
  /\ call[r] = Idle \/ call[r].id = a
  /\ c = Idle \/ c.id = a
  /\ row'[a] # None /\ \A b \in Id \ {a} : row'[b] = row[b]
  /\ KeepsOwners
  /\ \A b \in Id : causes[b] \subseteq causes'[b]
  /\ \A b \in Id \ {a} :
       /\ KeepsEdits(b)
       /\ causes'[b] = {} => \A i \in Of(b) : history'[i] = history[i]
       /\ SnapshotsOf(b)' = SnapshotsOf(b)
  /\ c.step = "last" => c.at \in Of(c.id)' /\ c.history.announcement = c.id

(* A step of a call leaves every announcement but its own alone.           *)
LEMMA TurnLeavesOthers ==
  ASSUME Types, Types', NEW r \in Request, NEW a \in Id, NEW c \in Calls \union {Idle},
         Turn(r, a, c), NEW b \in Id \ {a}
  PROVE  Untouched(b)
<1>1. /\ call' = [call EXCEPT ![r] = c] /\ (call[r] = Idle \/ call[r].id = a) /\ (c = Idle \/ c.id = a)
      /\ row'[b] = row[b] /\ causes[b] \subseteq causes'[b] /\ KeepsEdits(b)
      /\ causes'[b] = {} => \A i \in Of(b) : history'[i] = history[i]
      /\ SnapshotsOf(b)' = SnapshotsOf(b)
  BY DEF Turn
<1>2. call'[r] = c /\ \A s \in Request \ {r} : call'[s] = call[s]
  BY <1>1, CallChanges
<1>3. ~ (call[r].step \in Busy /\ call[r].id = b) /\ ~ (c.step \in Busy /\ c.id = b)
  BY <1>1 DEF Idle, Busy
<1>4. \A s \in Request : (call'[s].step \in Busy /\ call'[s].id = b) <=> (call[s].step \in Busy /\ call[s].id = b)
  BY <1>2, <1>3
<1>5. Running(b)' = Running(b) /\ r \notin Running(b) /\ Running(b) \subseteq Request
  BY <1>3, <1>4 DEF Running
<1>6. \A s \in Running(b) : call'[s] = call[s]
  BY <1>2, <1>5
<1> QED BY <1>1, <1>5, <1>6 DEF Untouched

(* It keeps the owners of what deletions have loaded.                      *)
LEMMA TurnKeepsOwned ==
  ASSUME Types, NEW r \in Request, NEW a \in Id, NEW c \in Calls \union {Idle}, Turn(r, a, c), Owned
  PROVE  Owned'
<1>1. /\ call' = [call EXCEPT ![r] = c] /\ KeepsOwners
      /\ c.step = "last" => c.at \in Of(c.id)' /\ c.history.announcement = c.id
  BY DEF Turn
<1>2. call'[r] = c /\ \A s \in Request \ {r} : call'[s] = call[s]
  BY <1>1, CallChanges
<1>3. ASSUME NEW b, NEW i \in Of(b) PROVE i \in Of(b)'
  BY <1>1 DEF KeepsOwners, Of
<1>4. ASSUME NEW s \in Request, call'[s].step = "last"
      PROVE  call'[s].at \in Of(call[s].id)' /\ call'[s].history.announcement = call'[s].id
  <2>1. CASE s = r
    BY <1>1, <1>2, <1>4, <2>1
  <2>2. CASE s # r
    <3>1. PICK k : k = call[s]
      OBVIOUS
    <3>2. k.at \in Of(k.id) /\ k.history.announcement = k.id /\ call'[s] = k
      BY <1>2, <1>4, <2>2, <3>1 DEF Owned
    <3>3. k.at \in Of(k.id)'
      BY <1>3, <3>2
    <3> QED BY <3>2, <3>3
  <2> QED BY <2>1, <2>2
<1> QED BY <1>4 DEF Owned

(* So a step keeps the invariant if it keeps that of its own announcement. *)
LEMMA TurnKeeps ==
  ASSUME IInv, Types', NEW r \in Request, NEW a \in Id, NEW c \in Calls \union {Idle}, Turn(r, a, c),
         Sound(a)' => Stored(a)'
  PROVE  IInv'
<1>0. Types /\ Begun /\ Owned /\ \A b \in Id : row[b] # None /\ Sound(b) => Stored(b)
  BY DEF IInv
<1>1. Owned'
  BY <1>0, TurnKeepsOwned
<1>2. \A b \in Id \ {a} : Untouched(b)
  BY <1>0, TurnLeavesOthers
<1>3. row'[a] # None /\ \A b \in Id : causes[b] \subseteq causes'[b]
  BY DEF Turn
<1>4. ASSUME NEW b \in Id, row'[b] = None
      PROVE  Running(b)' = {} /\ Of(b)' = {} /\ SnapshotsOf(b)' = {}
  <2>1. b \in Id \ {a} /\ row[b] = None
    BY <1>2, <1>3, <1>4 DEF Untouched
  <2> QED BY <1>0, <1>2, <2>1 DEF Untouched, KeepsEdits, Begun
<1>5. ASSUME NEW b \in Id, row'[b] # None, Sound(b)'
      PROVE  Stored(b)'
  <2>1. CASE b = a
    BY <1>5, <2>1
  <2>2. CASE b # a
    <3>1. Untouched(b) /\ row[b] # None
      BY <1>2, <1>5, <2>2 DEF Untouched
    <3>2. Sound(b)
      BY <1>3, <1>5 DEF Sound
    <3> QED BY <1>0, <3>1, <3>2, UntouchedStays
  <2> QED BY <2>1, <2>2
<1> QED BY <1>1, <1>4, <1>5 DEF IInv, Begun

(* A step without a history leaves the histories of all.                   *)
LEMMA HistoriesStay ==
  ASSUME history' = history
  PROVE  KeepsOwners /\ \A b : KeepsEdits(b) /\ Of(b)' = Of(b)
BY DEF KeepsOwners, KeepsEdits, Of

(* The beginning of a call is a step of its announcement.                  *)
LEMMA BeginTurn ==
  ASSUME Types, NEW r \in Request, NEW a \in Id, NEW c \in Calls, Begin(r, a, c), c.id = a, c.step # "last"
  PROVE  Turn(r, a, c)
<1>1. /\ call[r] = Idle /\ row[a] # None /\ call' = [call EXCEPT ![r] = c]
      /\ causes' = [causes EXCEPT ![a] = @ \union Disturbance(a, c.op)]
      /\ row' = row /\ history' = history /\ snapshot' = snapshot
  BY DEF Begin
<1>2. \A b \in Id : causes[b] \subseteq causes'[b]
  BY <1>1 DEF Types
<1>3. \A b : SnapshotsOf(b)' = SnapshotsOf(b)
  BY <1>1 DEF SnapshotsOf
<1> QED BY <1>1, <1>2, <1>3, HistoriesStay DEF Turn

(* So is createAnnouncement.                                               *)
LEMMA CreateTurn ==
  ASSUME Types, NEW r \in Request, NEW a \in Id, NEW c \in Content, NEW s \in [Setting -> Level],
         Create(r, a, c, s)
  PROVE  CreatedCall(r, a, c, s) \in Calls /\ Turn(r, a, CreatedCall(r, a, c, s))
<1> DEFINE w == [version |-> 1, content |-> c, set |-> s, valid |-> TRUE]
           k == CreatedCall(r, a, c, s)
<1>1. /\ call[r] = Idle /\ w \in Rows /\ row' = [row EXCEPT ![a] = w] /\ k \in Creates
      /\ call' = [call EXCEPT ![r] = k] /\ history' = history /\ snapshot' = snapshot /\ causes' = causes
  BY CreateEffect
<1>2. k.id = a /\ k.step = "insert"
  BY DEF CreatedCall
<1> HIDE DEF w, k
<1>3. w # None
  BY <1>1, ConstantsAssumption DEF Rows, None
<1>4. row'[a] # None /\ \A b \in Id \ {a} : row'[b] = row[b]
  BY <1>1, <1>3 DEF Types
<1>5. \A b : SnapshotsOf(b)' = SnapshotsOf(b)
  BY <1>1 DEF SnapshotsOf
<1>6. k \in Calls
  BY <1>1 DEF Calls
<1>7. Turn(r, a, k)
  BY <1>1, <1>2, <1>4, <1>5, HistoriesStay DEF Turn
<1> QED BY <1>6, <1>7 DEF k

(* A call that runs is of a row that is there.                             *)
LEMMA RunningRow ==
  ASSUME Types, Begun, NEW r \in Request, call[r] \in Calls
  PROVE  call[r].id \in Id /\ row[call[r].id] # None /\ row[call[r].id] \in Rows /\ call[r] # Idle
<1>1. call[r].id \in Id /\ call[r] # Idle
  BY DEF Calls, Increments, Saves, Creates, Modifies, Deletes, Lasts, Idle
<1>2. r \in Running(call[r].id)
  BY <1>1, RunningIs
<1>3. row[call[r].id] # None
  BY <1>1, <1>2 DEF Begun
<1> QED BY <1>1, <1>3, RowIsThere

(* A call goes on, or ends: a step of its announcement if it writes the    *)
(* rows of no other.                                                       *)
LEMMA RunningTurn ==
  ASSUME Types, Begun, NEW r \in Request, call[r] \in Calls, NEW a, a = call[r].id,
         NEW c \in Calls \union {Idle}, call' = [call EXCEPT ![r] = c], c = Idle \/ c.id = a,
         c.step = "last" => c.at \in Of(c.id)' /\ c.history.announcement = c.id,
         row' = row \/ \E w \in Rows : row' = [row EXCEPT ![a] = w],
         KeepsOwners, \A b \in Id \ {a} : KeepsEdits(b),
         \A b \in Id : causes[b] \subseteq causes'[b],
         \A b \in Id \ {a} : causes'[b] = {} => \A i \in Of(b) : history'[i] = history[i],
         \A b \in Id \ {a} : SnapshotsOf(b)' = SnapshotsOf(b)
  PROVE  a \in Id /\ Turn(r, a, c)
<1>1. a \in Id /\ row[a] # None
  BY RunningRow
<1>2. row'[a] # None /\ \A b \in Id \ {a} : row'[b] = row[b]
  <2>1. CASE row' = row
    BY <1>1, <2>1
  <2>2. CASE \E w \in Rows : row' = [row EXCEPT ![a] = w]
    <3>1. PICK w \in Rows : row' = [row EXCEPT ![a] = w]
      BY <2>2
    <3>2. w # None
      BY ConstantsAssumption DEF Rows, None
    <3> QED BY <1>1, <3>1, <3>2 DEF Types
  <2> QED BY <2>1, <2>2
<1> QED BY <1>1, <1>2 DEF Turn

(* The first statement of a save is a step of its announcement.            *)
LEMMA SetIncrementTurn ==
  ASSUME Types, Begun, NEW r \in Request, SetIncrement(r)
  PROVE  \E c \in {Idle, UpdatingCall(r)} : c \in Calls \union {Idle} /\ Turn(r, call[r].id, c)
<1>1. /\ call[r] \in Increments /\ DOMAIN history' = DOMAIN history
      /\ \A i \in DOMAIN history :
              history'[i] = IF i \in OfVersion(call[r].id, call[r].row.version)
                            THEN [history[i] EXCEPT !.increment = IncrementOf(r)] ELSE history[i]
  BY SetIncrementEffect
<1>2. call[r] \in Calls
  BY <1>1 DEF Calls
<1>3. /\ row' = row /\ snapshot' = snapshot /\ causes' = causes
      /\ UpdatingCall(r) \in Saves /\ UpdatingCall(r).step = "update"
      /\ call' = [call EXCEPT ![r] = Idle] \/ call' = [call EXCEPT ![r] = UpdatingCall(r)]
  BY SetIncrementCall
<1>4. \A i \in DOMAIN history : /\ history'[i].announcement = history[i].announcement
                                /\ history[i].announcement # call[r].id => history'[i] = history[i]
  BY <1>1, HistoryTyped DEF Histories, OfVersion, Of
<1>5. KeepsOwners
  BY <1>1, <1>4 DEF KeepsOwners
<1>6. \A b \in Id \ {call[r].id} : KeepsEdits(b) /\ \A i \in Of(b) : history'[i] = history[i]
  BY <1>1, <1>4 DEF KeepsEdits, Of
<1>7. \A b : SnapshotsOf(b)' = SnapshotsOf(b)
  BY <1>3 DEF SnapshotsOf
<1>8. UpdatingCall(r) \in Calls /\ UpdatingCall(r).id = call[r].id
  BY <1>3 DEF Calls, UpdatingCall
<1>9. CASE call' = [call EXCEPT ![r] = Idle]
  <2>1. Turn(r, call[r].id, Idle)
    BY <1>2, <1>3, <1>5, <1>6, <1>7, <1>9, IdleEnds, RunningTurn DEF Idle
  <2> QED BY <2>1
<1>10. CASE call' = [call EXCEPT ![r] = UpdatingCall(r)]
  <2> DEFINE u == UpdatingCall(r)
  <2> HIDE DEF u
  <2>1. u \in Calls /\ u.id = call[r].id /\ u.step = "update" /\ call' = [call EXCEPT ![r] = u]
    BY <1>3, <1>8, <1>10 DEF u
  <2>2. Turn(r, call[r].id, u)
    BY <1>2, <1>3, <1>5, <1>6, <1>7, <2>1, RunningTurn
  <2> QED BY <1>8, <2>2 DEF u
<1> QED BY <1>3, <1>9, <1>10

UpdatedCall(r) ==
  [call[r] EXCEPT !.step = IF call[r].op = "save" THEN "insert"
                           ELSE IF call[r].op = "modify" THEN "setAll" ELSE "findLast"]

(* Writing the row, and the call after it.                                 *)
LEMMA UpdateRowCall ==
  ASSUME Types, NEW r \in Request, UpdateRow(r)
  PROVE  /\ call[r] \in Saves \union Modifies \union Deletes /\ call[r].step = "update"
         /\ row' = [row EXCEPT ![call[r].id] = call[r].row] /\ call[r].row \in Rows /\ call[r].id \in Id
         /\ call' = [call EXCEPT ![r] = UpdatedCall(r)] /\ UpdatedCall(r) \in Calls
         /\ history' = history /\ snapshot' = snapshot /\ causes' = causes
BY UpdateRowEffect DEF UpdatedCall

(* The fields of that call.                                                *)
LEMMA UpdatedCallIs ==
  ASSUME NEW r, call[r] \in Saves \union Modifies \union Deletes
  PROVE  /\ UpdatedCall(r).id = call[r].id /\ UpdatedCall(r).op = call[r].op /\ UpdatedCall(r).row = call[r].row
         /\ UpdatedCall(r).step = IF call[r].op = "save" THEN "insert"
                                  ELSE IF call[r].op = "modify" THEN "setAll" ELSE "findLast"
         /\ call[r].op = "save" => UpdatedCall(r).decrement = call[r].decrement
         /\ call[r].op = "modify" => UpdatedCall(r).set = call[r].set
BY DEF UpdatedCall, Saves, Modifies, Deletes

(* Writing the row is a step of its announcement.                          *)
LEMMA UpdateRowTurn ==
  ASSUME Types, Begun, NEW r \in Request, UpdateRow(r)
  PROVE  UpdatedCall(r) \in Calls /\ Turn(r, call[r].id, UpdatedCall(r))
<1> DEFINE u == UpdatedCall(r)
<1>1. /\ call[r] \in Saves \union Modifies \union Deletes
      /\ row' = [row EXCEPT ![call[r].id] = call[r].row] /\ call[r].row \in Rows
      /\ call' = [call EXCEPT ![r] = u] /\ u \in Calls
      /\ history' = history /\ snapshot' = snapshot /\ causes' = causes
  BY UpdateRowCall
<1>2. u.id = call[r].id /\ u.step # "last" /\ call[r] \in Calls
  BY <1>1, UpdatedCallIs DEF Calls
<1> HIDE DEF u
<1>3. \A b : SnapshotsOf(b)' = SnapshotsOf(b)
  BY <1>1 DEF SnapshotsOf
<1>4. KeepsOwners /\ \A b : KeepsEdits(b)
  BY <1>1, HistoriesStay
<1>5. Turn(r, call[r].id, u)
  BY <1>1, <1>2, <1>3, <1>4, RunningTurn
<1> QED BY <1>1, <1>5 DEF u

SnapshotCall(r) == [call[r] EXCEPT !.step = "snapshot"]

(* Storing the history is a step of its announcement.                      *)
LEMMA InsertHistoryTurn ==
  ASSUME Types, Begun, NEW r \in Request, InsertHistory(r)
  PROVE  \E c \in {Idle, SnapshotCall(r)} : c \in Calls \union {Idle} /\ Turn(r, call[r].id, c)
<1> DEFINE n == Len(history) + 1
<1>1. /\ call[r] \in Saves \union Creates
      /\ DOMAIN history' = DOMAIN history \union {n} /\ n \notin DOMAIN history
      /\ \A i \in DOMAIN history : history'[i] = history[i]
      /\ history'[n] = HistoryOf(call[r].id, call[r].row, call[r].decrement)
  BY InsertHistoryEffect
<1>2. history'[n].announcement = call[r].id
  BY <1>1 DEF HistoryOf
<1> HIDE DEF n
<1>3. call[r] \in Calls
  BY <1>1 DEF Calls
<1>4. KeepsOwners
  BY <1>1 DEF KeepsOwners
<1>5. \A b \in Id \ {call[r].id} : KeepsEdits(b) /\ \A i \in Of(b) : history'[i] = history[i]
  BY <1>1, <1>2 DEF KeepsEdits, Of
<1>6. row' = row /\ snapshot' = snapshot /\ causes' = causes
  BY InsertHistoryCall
<1>7. \A b : SnapshotsOf(b)' = SnapshotsOf(b)
  BY <1>6 DEF SnapshotsOf
<1>8. \/ call' = [call EXCEPT ![r] = Idle]
      \/ call' = [call EXCEPT ![r] = SnapshotCall(r)] /\ SnapshotCall(r) \in Saves
  BY InsertHistoryCall, Zenon DEF SnapshotCall
<1>9. CASE call' = [call EXCEPT ![r] = Idle]
  <2>1. Turn(r, call[r].id, Idle)
    BY <1>3, <1>4, <1>5, <1>6, <1>7, <1>9, IdleEnds, RunningTurn DEF Idle
  <2> QED BY <2>1
<1>10. CASE call' = [call EXCEPT ![r] = SnapshotCall(r)] /\ SnapshotCall(r) \in Saves
  <2> DEFINE u == SnapshotCall(r)
  <2>1. u \in Calls /\ u.id = call[r].id /\ u.step = "snapshot" /\ call' = [call EXCEPT ![r] = u]
    BY <1>1, <1>10 DEF SnapshotCall, Saves, Creates, Calls
  <2> HIDE DEF u
  <2>2. Turn(r, call[r].id, u)
    BY <1>3, <1>4, <1>5, <1>6, <1>7, <2>1, RunningTurn
  <2> QED BY <2>1, <2>2 DEF u
<1> QED BY <1>8, <1>9, <1>10

SnapshotTaken(r) ==
  [announcement |-> call[r].id, version |-> call[r].row.version, content |-> call[r].row.content]

(* Storing the snapshot is a step of its announcement.                     *)
LEMMA SnapshotTurn ==
  ASSUME Types, Begun, NEW r \in Request, generateSnapshot(r)
  PROVE  Turn(r, call[r].id, Idle)
<1> DEFINE s == SnapshotTaken(r)
<1>1. /\ call[r] \in Saves /\ snapshot' = snapshot \union {s} /\ call' = [call EXCEPT ![r] = Idle]
      /\ row' = row /\ history' = history /\ causes' = causes
  BY SnapshotEffect DEF SnapshotTaken
<1>2. s.announcement = call[r].id
  BY DEF SnapshotTaken
<1> HIDE DEF s
<1>3. \A b \in Id \ {call[r].id} : SnapshotsOf(b)' = SnapshotsOf(b)
  BY <1>1, <1>2 DEF SnapshotsOf
<1>4. call[r] \in Calls
  BY <1>1 DEF Calls
<1>5. KeepsOwners /\ \A b : KeepsEdits(b)
  BY <1>1, HistoriesStay
<1> QED BY <1>1, <1>3, <1>4, <1>5, IdleEnds, RunningTurn DEF Idle

(* Writing a setting to the histories is a step of its announcement that   *)
(* keeps the edits of all; the others whose columns it writes have a       *)
(* spill.                                                                  *)
LEMMA SetAllTurn ==
  ASSUME Types, Begun, NEW r \in Request, SetAll(r)
  PROVE  Turn(r, call[r].id, Idle) /\ \A b : KeepsEdits(b)
<1>1. /\ call[r] \in Modifies /\ DOMAIN history' = DOMAIN history
      /\ \A i \in DOMAIN history :
              history'[i] = IF history[i].version = call[r].row.version
                            THEN [history[i] EXCEPT !.set[call[r].set] = call[r].row.set[call[r].set]]
                            ELSE history[i]
      /\ causes' = [a \in Id |->
              IF a # call[r].id /\ \E i \in Of(a) : history[i].version = call[r].row.version
              THEN causes[a] \union {"spill"} ELSE causes[a]]
  BY SetAllEffect
<1>2. \A i \in DOMAIN history :
        /\ history'[i].announcement = history[i].announcement
        /\ history'[i].version = history[i].version
        /\ history'[i].increment = history[i].increment
        /\ history'[i].decrement = history[i].decrement
        /\ history'[i].saved = history[i].saved
        /\ history[i].version # call[r].row.version => history'[i] = history[i]
  <2> TAKE i \in DOMAIN history
  <2> DEFINE w == [history[i].set EXCEPT ![call[r].set] = call[r].row.set[call[r].set]]
  <2>1. [history[i] EXCEPT !.set[call[r].set] = call[r].row.set[call[r].set]] = [history[i] EXCEPT !.set = w]
    BY HistoryTyped DEF Histories
  <2>2. history'[i] = IF history[i].version = call[r].row.version THEN [history[i] EXCEPT !.set = w] ELSE history[i]
    BY <1>1, <2>1, Zenon
  <2> HIDE DEF w
  <2> QED BY <2>2, HistoryTyped DEF Histories
<1>3. KeepsOwners
  BY <1>1, <1>2 DEF KeepsOwners
<1>4. \A b : KeepsEdits(b)
  BY <1>1, <1>2 DEF KeepsEdits, Of
<1>5. \A b \in Id : causes[b] \subseteq causes'[b]
  BY <1>1 DEF Types
<1>6. \A b \in Id \ {call[r].id} : causes'[b] = {} => \A i \in Of(b) : history'[i] = history[i]
  BY <1>1, <1>2 DEF Of, Types
<1>7. row' = row /\ snapshot' = snapshot /\ call' = [call EXCEPT ![r] = Idle]
  BY DEF SetAll, End
<1>8. \A b : SnapshotsOf(b)' = SnapshotsOf(b)
  BY <1>7 DEF SnapshotsOf
<1>9. call[r] \in Calls
  BY <1>1 DEF Calls
<1> QED BY <1>3, <1>4, <1>5, <1>6, <1>7, <1>8, <1>9, IdleEnds, RunningTurn DEF Idle

LastCall(r, i) ==
  [step |-> "last", op |-> "delete", id |-> call[r].id, at |-> i,
   history |-> [history[i] EXCEPT !.valid = FALSE]]

(* Loading the history to be deleted is a step of its announcement.        *)
LEMMA FindLastTurn ==
  ASSUME Types, Begun, NEW r \in Request, FindLast(r)
  PROVE  \/ Turn(r, call[r].id, Idle) /\ OfVersion(call[r].id, call[r].row.version) = {}
         \/ \E i \in OfVersion(call[r].id, call[r].row.version) :
              LastCall(r, i) \in Lasts /\ Turn(r, call[r].id, LastCall(r, i))
<1>1. /\ call[r] \in Deletes
      /\ row' = row /\ history' = history /\ snapshot' = snapshot /\ causes' = causes
  BY FindLastEffect
<1>2. KeepsOwners /\ (\A b : KeepsEdits(b)) /\ (\A b : SnapshotsOf(b)' = SnapshotsOf(b)) /\ call[r] \in Calls
  BY <1>1, HistoriesStay DEF SnapshotsOf, Calls
<1>3. CASE call' = [call EXCEPT ![r] = Idle] /\ OfVersion(call[r].id, call[r].row.version) = {}
  BY <1>1, <1>2, <1>3, IdleEnds, RunningTurn DEF Idle
<1>4. CASE \E i \in OfVersion(call[r].id, call[r].row.version) :
             call' = [call EXCEPT ![r] = LastCall(r, i)] /\ LastCall(r, i) \in Lasts
  <2>1. PICK i \in OfVersion(call[r].id, call[r].row.version) :
             call' = [call EXCEPT ![r] = LastCall(r, i)] /\ LastCall(r, i) \in Lasts
    BY <1>4
  <2>2. i \in Of(call[r].id) /\ i \in DOMAIN history /\ history[i].announcement = call[r].id
    BY DEF OfVersion, Of
  <2>3. LastCall(r, i) \in Calls /\ LastCall(r, i) \in Lasts
    BY <2>1 DEF Calls
  <2>4. PICK c \in Calls : c = LastCall(r, i)
    BY <2>3
  <2>5. c.id = call[r].id /\ c.step = "last" /\ c.at = i /\ c.history.announcement = call[r].id
    BY <2>2, <2>4, HistoryTyped DEF LastCall, Histories
  <2>6. c.at \in Of(c.id)'
    BY <2>2, <2>5, <1>1, HistoriesStay
  <2>7. Turn(r, call[r].id, c)
    BY <1>1, <1>2, <2>1, <2>4, <2>5, <2>6, RunningTurn
  <2> QED BY <2>3, <2>4, <2>7
<1> QED BY <1>3, <1>4, FindLastEffect DEF LastCall

(* Writing it back is one, since it is a history of that announcement.     *)
LEMMA UpdateLastTurn ==
  ASSUME Types, Begun, Owned, NEW r \in Request, UpdateLast(r)
  PROVE  Turn(r, call[r].id, Idle)
<1>1. /\ call[r] \in Lasts /\ call[r].step = "last" /\ DOMAIN history' = DOMAIN history
      /\ \A i \in DOMAIN history : history'[i] = IF i = call[r].at THEN call[r].history ELSE history[i]
  BY UpdateLastEffect
<1>2. row' = row /\ snapshot' = snapshot /\ causes' = causes /\ call' = [call EXCEPT ![r] = Idle]
  BY DEF UpdateLast, End
<1>3. call[r].at \in Of(call[r].id) /\ call[r].history.announcement = call[r].id
  BY <1>1 DEF Owned
<1>4. KeepsOwners
  BY <1>1, <1>3 DEF KeepsOwners, Of
<1>5. \A b \in Id \ {call[r].id} : KeepsEdits(b) /\ \A i \in Of(b) : history'[i] = history[i]
  BY <1>1, <1>3 DEF KeepsEdits, Of
<1>6. (\A b : SnapshotsOf(b)' = SnapshotsOf(b)) /\ call[r] \in Calls
  BY <1>1, <1>2 DEF SnapshotsOf, Calls
<1> QED BY <1>2, <1>4, <1>5, <1>6, IdleEnds, RunningTurn DEF Idle

(* A call that throws is a step of its announcement.                       *)
LEMMA ThrowsTurn ==
  ASSUME Types, Begun, NEW r \in Request, CallThrows(r)
  PROVE  Turn(r, call[r].id, Idle)
<1>1. /\ call[r] # Idle /\ call' = [call EXCEPT ![r] = Idle]
      /\ causes' = [causes EXCEPT ![call[r].id] = @ \union {"failure"}]
      /\ row' = row /\ history' = history /\ snapshot' = snapshot
  BY DEF CallThrows, End
<1>2. call[r] \in Calls
  BY <1>1 DEF Types
<1>3. KeepsOwners /\ (\A b : KeepsEdits(b)) /\ (\A b : SnapshotsOf(b)' = SnapshotsOf(b))
  BY <1>1, HistoriesStay DEF SnapshotsOf
<1>4. \A b \in Id : causes[b] \subseteq causes'[b]
  BY <1>1 DEF Types
<1>5. \A b \in Id : \A i \in Of(b) : history'[i] = history[i]
  BY <1>1
<1> QED BY <1>1, <1>2, <1>3, <1>4, <1>5, IdleEnds, RunningTurn DEF Idle

(* The calls that run on the announcement after a step.                    *)
LEMMA RunningAfter ==
  ASSUME Types, Types', NEW r \in Request, NEW a \in Id, NEW c \in Calls \union {Idle}, Turn(r, a, c)
  PROVE  /\ call'[r] = c /\ \A s \in Request \ {r} : call'[s] = call[s]
         /\ Running(a)' = (Running(a) \ {r}) \union (IF c = Idle THEN {} ELSE {r})
         /\ call[r] # Idle => r \in Running(a)
         /\ Running(a) \subseteq Request
<1>1. /\ call' = [call EXCEPT ![r] = c]
      /\ call[r] = Idle \/ call[r].id = a
      /\ c = Idle \/ c.id = a
  BY DEF Turn
<1>2. call'[r] = c /\ \A s \in Request \ {r} : call'[s] = call[s]
  BY <1>1, CallChanges
<1>3. \A s \in Request : s \in Running(a) <=> call[s] # Idle /\ call[s].id = a
  BY RunningIs
<1>4. \A s \in Request : (call'[s].step \in Busy /\ call'[s].id = a) <=> call'[s] # Idle /\ call'[s].id = a
  <2> TAKE s \in Request
  <2>1. call'[s] \in Calls \union {Idle}
    BY DEF Types
  <2>2. PICK k \in Calls \union {Idle} : k = call'[s]
    BY <2>1
  <2>3. (k.step \in Busy /\ k.id = a) <=> k # Idle /\ k.id = a
    BY DEF Calls, Idle, Increments, Saves, Creates, Modifies, Deletes, Lasts, Busy
  <2> QED BY <2>2, <2>3
<1>5. \A s \in Request : s \in Running(a)' <=> call'[s] # Idle /\ call'[s].id = a
  BY <1>4 DEF Running
<1>6. Running(a) \subseteq Request /\ Running(a)' \subseteq Request
  BY DEF Running
<1> QED BY <1>1, <1>2, <1>3, <1>5, <1>6

(* The parts of the invariant that no step of a call which keeps the edits *)
(* and the latest version disturbs.                                        *)
LEMMA PartsKept ==
  ASSUME Types, Types', NEW r \in Request, NEW a \in Id, NEW c \in Calls \union {Idle}, Turn(r, a, c),
         row[a] # None, Stored(a), KeepsEdits(a), KeepsLatest(a), SnapshotsOf(a)' = SnapshotsOf(a),
         call[r].step \in {"insert", "snapshot"} => ~ Whole(a)', c.step # "insert",
         \A s \in Running(a) \ {r} : call[s].op = "save" \/ causes'[a] = {} => row'[a] = row[a],
         c # Idle => Knows(a, c)'
  PROVE  /\ \A s \in Running(a)' : Knows(a, call[s])'
         /\ Numbered(a)' /\ Latest(a)' /\ Joined(a)' /\ Snapped(a)'
<1>0. /\ Alone(a) /\ \A s \in Running(a) : Knows(a, call[s])
      /\ Numbered(a) /\ Latest(a) /\ Joined(a) /\ Columns(a) /\ Snapped(a)
  BY DEF Stored
<1>1. KeepsSaved(a) /\ row[a] \in Rows
  BY EditsAndSaved, RowIsThere
<1>2. /\ call'[r] = c /\ \A s \in Request \ {r} : call'[s] = call[s]
      /\ Running(a)' = (Running(a) \ {r}) \union (IF c = Idle THEN {} ELSE {r})
      /\ Running(a) \subseteq Request
  BY RunningAfter
<1>3. causes[a] \subseteq causes'[a] /\ (causes'[a] = {} => causes[a] = {})
  BY DEF Turn
<1>4. Whole(a)' => Whole(a)
  BY <1>3 DEF Whole
<1>5. ASSUME NEW s \in Running(a)' PROVE Knows(a, call[s])'
  <2>1. CASE s = r
    <3>1. PICK k : k = c /\ k # Idle
      BY <1>2, <1>5, <2>1
    <3>2. Knows(a, k)' /\ call'[s] = k
      BY <1>2, <2>1, <3>1
    <3> QED BY <3>2
  <2>2. CASE s # r
    <3>1. PICK k : k = call[s]
      OBVIOUS
    <3>2. s \in Running(a) \ {r} /\ call'[s] = k /\ k \in Calls /\ Knows(a, k)
      BY <1>0, <1>2, <1>5, <2>2, <3>1, RunningCalls
    <3>3. Knows(a, k)'
      BY <1>1, <1>3, <3>1, <3>2, KnowsKept
    <3> QED BY <3>2, <3>3
  <2> QED BY <2>1, <2>2
<1>6. Numbered(a)'
  <2>1. Whole(a)' /\ Inserting(a) => Inserting(a)'
    BY <1>2 DEF Inserting
  <2> QED BY <1>0, <1>1, <1>4, <2>1, NumberedKept
<1>7. Latest(a)' /\ Joined(a)'
  BY <1>0, <1>1, LatestKept, JoinedKept
<1>8. Snapped(a)'
  <2>1. \A s \in Running(a)' : call'[s].step = "insert" => Inserting(a)
    BY <1>2 DEF Inserting
  <2>2. Whole(a)' => \A s \in Running(a) :
           call[s].op = "save" /\ call[s].step \in {"insert", "snapshot"} =>
             \E q \in Running(a)' : call'[q].op = "save" /\ call'[q].step \in {"insert", "snapshot"}
    BY <1>2
  <2> QED BY <1>0, <1>1, <1>4, <2>1, <2>2, SnappedKept DEF KeepsLatest
<1> QED BY <1>5, <1>6, <1>7, <1>8

(* A call that goes on or ends leaves the others as alone as they were.    *)
LEMMA TurnAlone ==
  ASSUME Types, Types', NEW r \in Request, NEW a \in Id, NEW c \in Calls \union {Idle}, Turn(r, a, c),
         Alone(a), call[r] # Idle, c = Idle \/ c.op = call[r].op
  PROVE  Alone(a)'
<1>1. /\ call'[r] = c /\ \A s \in Request \ {r} : call'[s] = call[s]
      /\ Running(a)' = (Running(a) \ {r}) \union (IF c = Idle THEN {} ELSE {r})
      /\ r \in Running(a) /\ Running(a) \subseteq Request
  BY RunningAfter
<1>2. causes'[a] = {} => causes[a] = {}
  BY DEF Turn
<1>3. \A s \in Running(a)' : call'[s].op = call[s].op
  BY <1>1
<1> QED BY <1>1, <1>2, <1>3, AloneKept

-----------------------------------------------------------------------------
(*****************************************************************************)
(* The invariant after each step, for the announcement it is about.        *)
(*****************************************************************************)
(* A call that begins beside another is noted: an edit where one of them   *)
(* saves, an overlap else.                                                 *)
LEMMA BeginAlone ==
  ASSUME Types, Types', NEW r \in Request, NEW a \in Id, NEW c \in Calls, Begin(r, a, c), c.id = a,
         Turn(r, a, c), c.op # "create", Alone(a), Sound(a)'
  PROVE  /\ Alone(a)' /\ r \notin Running(a)
         /\ causes'[a] = {} => Running(a) = {} /\ causes[a] = {}
<1>1. /\ call'[r] = c /\ \A s \in Request \ {r} : call'[s] = call[s]
      /\ Running(a)' = (Running(a) \ {r}) \union {r}
      /\ Running(a) \subseteq Request
  <2>1. c # Idle
    BY DEF Calls, Idle, Increments, Saves, Creates, Modifies, Deletes, Lasts
  <2> QED BY <2>1, RunningAfter
<1>2. call[r] = Idle /\ causes'[a] = causes[a] \union Disturbance(a, c.op)
  BY DEF Begin, Types
<1>3. r \notin Running(a)
  BY <1>2, RunningIs
<1>4. CASE Running(a) = {}
  <2>1. Running(a)' = {r}
    BY <1>1, <1>4
  <2>2. Alone(a)'
    BY <2>1 DEF Alone
  <2> QED BY <1>2, <1>3, <1>4, <2>2
<1>5. CASE Running(a) # {}
  <2>1. c.op # "save" /\ \A s \in Running(a) : call[s].op # "save"
    BY <1>2, <1>5 DEF Disturbance, Sound
  <2>2. causes'[a] # {}
    BY <1>2, <1>5 DEF Disturbance
  <2>3. \A s \in Running(a)' : call'[s].op # "save"
    BY <1>1, <2>1
  <2>4. \A s, q \in Running(a)' : call'[s].op = "create" /\ call'[q].op = "create" => s = q
    BY <1>1 DEF Alone
  <2> QED BY <1>3, <2>2, <2>3, <2>4 DEF Alone
<1> QED BY <1>4, <1>5

(* The beginning of a call keeps the invariant of its announcement.        *)
LEMMA BeginStores ==
  ASSUME Types, Types', NEW r \in Request, NEW a \in Id, NEW c \in Calls, Begin(r, a, c), c.id = a,
         Turn(r, a, c), c.op # "create", c.step \in {"increment", "update"},
         Knows(a, c), Intends(row[a], c), Stored(a), Sound(a)'
  PROVE  Stored(a)'
<1>0. /\ Alone(a) /\ \A s \in Running(a) : Knows(a, call[s])
      /\ Numbered(a) /\ Latest(a) /\ Joined(a) /\ Columns(a) /\ Snapped(a)
  BY DEF Stored
<1>1. /\ Alone(a)' /\ r \notin Running(a)
      /\ causes'[a] = {} => Running(a) = {} /\ causes[a] = {}
  BY <1>0, BeginAlone
<1>2. /\ call[r] = Idle /\ row[a] \in Rows /\ row[a] # None
      /\ row' = row /\ history' = history /\ snapshot' = snapshot
  BY RowIsThere DEF Begin
<1>3. /\ KeepsEdits(a) /\ KeepsLatest(a) /\ SnapshotsOf(a)' = SnapshotsOf(a)
  BY <1>2, HistoriesStay DEF KeepsLatest, SnapshotsOf
<1>4. Knows(a, c)'
  BY <1>1, <1>2, <1>3, KnowsKept
<1>5. call[r].step \notin {"insert", "snapshot"} /\ c.step # "insert"
  BY <1>2 DEF Idle
<1>6. /\ \A s \in Running(a)' : Knows(a, call[s])'
      /\ Numbered(a)' /\ Latest(a)' /\ Joined(a)' /\ Snapped(a)'
  BY <1>2, <1>3, <1>4, <1>5, PartsKept
<1>7. Columns(a)'
  <2> SUFFICES ASSUME causes'[a] = {} PROVE Columns(a)'
    BY DEF Columns
  <2>1. Running(a)' = {r} /\ call'[r] = c
    BY <1>1, RunningAfter DEF Idle
  <2>2. \A i \in OfVersion(a, row[a].version)' :
           history'[i].valid = row'[a].valid /\ \A k \in Setting : history'[i].set[k] = row'[a].set[k]
    BY <1>0, <1>1, <1>2 DEF Columns, OfVersion, Of
  <2>3. \A s \in Running(a)' : Intends(row[a], call[s])'
    BY <1>2, <2>1 DEF Intends
  <2> QED BY <2>2, <2>3 DEF Columns
<1> QED BY <1>1, <1>6, <1>7 DEF Stored

(* Save keeps the invariant.                                               *)
LEMMA SaveStores ==
  ASSUME IInv, Types', NEW r \in Request, NEW a \in Id, NEW c \in Content, Save(r, a, c)
  PROVE  IInv'
<1> DEFINE n == [step |-> "increment", op |-> "save", id |-> a, row |-> row[a], content |-> c]
<1>1. n \in Increments /\ Begin(r, a, n) /\ ~ Compare(row[a].content, c).thrown
  BY SaveEffect, Zenon DEF IInv
<1>2. n.row = row[a] /\ n.step = "increment" /\ n.op = "save" /\ n.id = a /\ n.content = c
  OBVIOUS
<1> HIDE DEF n
<1>3. n \in Calls
  BY <1>1 DEF Calls
<1>4. Turn(r, a, n)
  BY <1>1, <1>2, <1>3, BeginTurn DEF IInv
<1>5. Knows(a, n)
  BY <1>1, <1>2 DEF Knows
<1>6. Intends(row[a], n)
  BY <1>2 DEF Intends
<1>7. ASSUME Sound(a)' PROVE Stored(a)'
  <2>1. Sound(a) /\ row[a] # None
    BY <1>1, <1>4, <1>7 DEF Sound, Turn, Begin
  <2>2. Stored(a)
    BY <2>1 DEF IInv
  <2> QED BY <1>1, <1>2, <1>3, <1>4, <1>5, <1>6, <1>7, <2>2, BeginStores DEF IInv
<1> QED BY <1>3, <1>4, <1>7, TurnKeeps

(* Modify keeps the invariant.                                             *)
LEMMA ModifyStores ==
  ASSUME IInv, Types', NEW r \in Request, NEW a \in Id, NEW k \in Setting, NEW v \in Level, Modify(r, a, k, v)
  PROVE  IInv'
<1> DEFINE w == [row[a] EXCEPT !.set[k] = v]
           n == [step |-> "update", op |-> "modify", id |-> a, set |-> k, row |-> w]
<1>1. n \in Modifies /\ Begin(r, a, n)
  BY ModifyEffect, Zenon DEF IInv
<1>2. row[a] \in Rows
  BY <1>1, RowIsThere DEF Begin, IInv
<1>3. /\ w.version = row[a].version /\ w.content = row[a].content
      /\ w.set[k] = v
  BY <1>2 DEF Rows
<1>4. w = [row[a] EXCEPT !.set[k] = w.set[k]]
  BY <1>3, Zenon
<1>5. n.row = w /\ n.step = "update" /\ n.op = "modify" /\ n.id = a /\ n.set = k
  BY Zenon
<1> HIDE DEF n, w
<1>6. n \in Calls
  BY <1>1 DEF Calls
<1>7. Turn(r, a, n)
  BY <1>1, <1>5, <1>6, BeginTurn DEF IInv
<1>8. Knows(a, n)
  BY <1>3, <1>5 DEF Knows
<1>9. Intends(row[a], n)
  <2>1. n.step # "setAll" /\ n.op # "delete" /\ n.step # "findLast" /\ n.step # "last"
    BY <1>5
  <2>2. n.row = [row[a] EXCEPT !.set[n.set] = n.row.set[n.set]]
    BY <1>4, <1>5, Zenon
  <2> QED BY <2>1, <2>2, Zenon DEF Intends
<1>10. ASSUME Sound(a)' PROVE Stored(a)'
  <2>1. Sound(a) /\ row[a] # None
    BY <1>1, <1>7, <1>10 DEF Sound, Turn, Begin
  <2>2. Stored(a)
    BY <2>1 DEF IInv
  <2> QED BY <1>1, <1>5, <1>6, <1>7, <1>8, <1>9, <1>10, <2>2, BeginStores DEF IInv
<1> QED BY <1>6, <1>7, <1>10, TurnKeeps

(* DeleteAnnouncement keeps the invariant.                                 *)
LEMMA DeleteStores ==
  ASSUME IInv, Types', NEW r \in Request, NEW a \in Id, DeleteAnnouncement(r, a)
  PROVE  IInv'
<1> DEFINE w == [row[a] EXCEPT !.valid = FALSE]
           n == [step |-> "update", op |-> "delete", id |-> a, row |-> w]
<1>1. n \in Deletes /\ Begin(r, a, n)
  BY DeleteEffect, Zenon DEF IInv
<1>2. row[a] \in Rows
  BY <1>1, RowIsThere DEF Begin, IInv
<1>3. /\ w.version = row[a].version /\ w.content = row[a].content
  BY <1>2 DEF Rows
<1>4. w = [row[a] EXCEPT !.valid = FALSE]
  BY Zenon
<1>5. n.row = w /\ n.step = "update" /\ n.op = "delete" /\ n.id = a
  BY Zenon
<1> HIDE DEF n, w
<1>6. n \in Calls
  BY <1>1 DEF Calls
<1>7. Turn(r, a, n)
  BY <1>1, <1>5, <1>6, BeginTurn DEF IInv
<1>8. Knows(a, n)
  BY <1>3, <1>5 DEF Knows
<1>9. Intends(row[a], n)
  <2>1. n.step # "setAll" /\ n.op # "modify" /\ n.step # "findLast" /\ n.step # "last"
    BY <1>5
  <2> QED BY <1>4, <1>5, <2>1, Zenon DEF Intends
<1>10. ASSUME Sound(a)' PROVE Stored(a)'
  <2>1. Sound(a) /\ row[a] # None
    BY <1>1, <1>7, <1>10 DEF Sound, Turn, Begin
  <2>2. Stored(a)
    BY <2>1 DEF IInv
  <2> QED BY <1>1, <1>5, <1>6, <1>7, <1>8, <1>9, <1>10, <2>2, BeginStores DEF IInv
<1> QED BY <1>6, <1>7, <1>10, TurnKeeps

(* Create keeps the invariant.                                             *)
LEMMA CreateStores ==
  ASSUME IInv, Types', NEW r \in Request, NEW a \in Id, NEW c \in Content, NEW s \in [Setting -> Level],
         Create(r, a, c, s)
  PROVE  IInv'
<1> DEFINE w == [version |-> 1, content |-> c, set |-> s, valid |-> TRUE]
           n == CreatedCall(r, a, c, s)
<1>1. /\ call[r] = Idle /\ row[a] = None /\ row' = [row EXCEPT ![a] = w]
      /\ n \in Creates /\ n.row = w
      /\ call' = [call EXCEPT ![r] = n] /\ history' = history /\ snapshot' = snapshot /\ causes' = causes
  BY CreateEffect DEF IInv
<1>2. w.version = 1 /\ w.content = c /\ w.set = s /\ n.op = "create" /\ n.step = "insert" /\ n.id = a
  BY DEF CreatedCall
<1>3. n \in Calls /\ Turn(r, a, n)
  BY CreateTurn DEF IInv
<1> HIDE DEF n, w
<1>4. Running(a) = {} /\ Of(a) = {} /\ SnapshotsOf(a) = {}
  BY <1>1 DEF IInv, Begun
<1>5. row'[a] = w
  BY <1>1 DEF IInv, Types
<1>6. Running(a)' = {r} /\ call'[r] = n
  <2>1. n # Idle
    BY <1>2 DEF Idle
  <2>2. Types
    BY DEF IInv
  <2>3. call'[r] = n /\ Running(a)' = (Running(a) \ {r}) \union (IF n = Idle THEN {} ELSE {r})
    BY <1>3, <2>2, RunningAfter
  <2> QED BY <1>4, <2>1, <2>3
<1>7. Of(a)' = {} /\ SnapshotsOf(a)' = {}
  BY <1>1, <1>4 DEF Of, SnapshotsOf
<1>8. \A v : OfVersion(a, v)' = {}
  BY <1>7 DEF OfVersion
<1>9. Alone(a)'
  BY <1>6 DEF Alone
<1>10. Knows(a, call[r])'
  <2>1. \A i \in Of(a)' : FALSE
    BY <1>7
  <2> QED BY <1>1, <1>2, <1>5, <1>6, <2>1 DEF Knows
<1>11. Numbered(a)'
  <2>1. Inserting(a)'
    BY <1>2, <1>6 DEF Inserting
  <2>2. \A v \in 1..row'[a].version : v = row'[a].version
    BY <1>2, <1>5
  <2>3. \A i \in Of(a)' : FALSE
    BY <1>7
  <2> QED BY <2>1, <2>2, <2>3 DEF Numbered
<1>12. Latest(a)' /\ Joined(a)'
  BY <1>7, <1>8 DEF Latest, Joined, OfVersion
<1>13. Columns(a)'
  <2>1. Intends(row[a], call[r])'
    BY <1>2, <1>6 DEF Intends
  <2>2. \A i \in OfVersion(a, row[a].version)' : FALSE
    BY <1>7 DEF OfVersion
  <2> QED BY <1>6, <2>1, <2>2 DEF Columns
<1>14. Snapped(a)'
  <2>1. \A q \in SnapshotsOf(a)' : FALSE
    BY <1>7
  <2>2. 2..row'[a].version = {}
    BY <1>2, <1>5
  <2> QED BY <2>1, <2>2 DEF Snapped
<1>15. Stored(a)'
  BY <1>6, <1>9, <1>10, <1>11, <1>12, <1>13, <1>14 DEF Stored
<1> QED BY <1>3, <1>15, TurnKeeps

(* What a call finds that runs on an announcement without an edit.         *)
LEMMA Underway ==
  ASSUME IInv, NEW r \in Request, call[r] \in Calls, NEW a, a = call[r].id, Sound(a)
  PROVE  /\ a \in Id /\ row[a] # None /\ row[a] \in Rows /\ r \in Running(a) /\ Stored(a)
         /\ Alone(a) /\ Knows(a, call[r]) /\ (\A s \in Running(a) : Knows(a, call[s]))
         /\ Numbered(a) /\ Latest(a) /\ Joined(a) /\ Columns(a) /\ Snapped(a)
         /\ call[r].op = "save" \/ causes[a] = {} => Running(a) = {r}
<1>1. a \in Id /\ row[a] # None /\ row[a] \in Rows /\ call[r] # Idle
  BY RunningRow DEF IInv
<1>2. r \in Running(a)
  BY <1>1, RunningIs DEF IInv
<1>3. Stored(a)
  BY <1>1 DEF IInv
<1> QED BY <1>1, <1>2, <1>3 DEF Stored, Alone

(* An announcement without an edit after the step had none before.         *)
LEMMA SoundBefore ==
  ASSUME NEW r, NEW a \in Id, NEW c, Turn(r, a, c), Sound(a)'
  PROVE  Sound(a)
BY DEF Turn, Sound

(* CallThrows keeps the invariant: what was written stays joined.          *)
LEMMA ThrowsStores ==
  ASSUME IInv, Types', NEW r \in Request, CallThrows(r)
  PROVE  IInv'
<1>0. PICK a : a = call[r].id
  OBVIOUS
<1>1. call[r] # Idle /\ row' = row /\ history' = history /\ snapshot' = snapshot
  BY DEF CallThrows
<1>2. Types /\ call[r] \in Calls
  BY <1>1 DEF IInv, Types
<1>3. Turn(r, a, Idle) /\ a \in Id
  BY <1>0, <1>2, ThrowsTurn, RunningRow DEF IInv
<1>4. "failure" \in causes'[a]
  BY <1>0, <1>2, <1>3 DEF CallThrows, Types
<1>5. ASSUME Sound(a)' PROVE Stored(a)'
  <2>1. Sound(a)
    BY <1>3, <1>5, SoundBefore
  <2>2. row[a] # None /\ Stored(a) /\ Alone(a)
    BY <1>0, <1>2, <2>1, Underway
  <2>3. KeepsEdits(a) /\ KeepsLatest(a) /\ SnapshotsOf(a)' = SnapshotsOf(a)
    BY <1>1, HistoriesStay DEF KeepsLatest, SnapshotsOf
  <2>4. ~ Whole(a)'
    BY <1>4 DEF Whole
  <2>5. /\ \A s \in Running(a)' : Knows(a, call[s])'
        /\ Numbered(a)' /\ Latest(a)' /\ Joined(a)' /\ Snapped(a)'
    BY <1>1, <1>2, <1>3, <2>2, <2>3, <2>4, PartsKept, IdleEnds DEF Idle
  <2>6. Alone(a)'
    BY <1>1, <1>2, <1>3, <2>2, TurnAlone
  <2>7. Columns(a)'
    BY <1>4 DEF Columns
  <2> QED BY <2>5, <2>6, <2>7 DEF Stored
<1> QED BY <1>3, <1>5, TurnKeeps

(* SetAll keeps the invariant: the columns of the latest history become    *)
(* those of the row.                                                       *)
LEMMA SetAllStores ==
  ASSUME IInv, Types', NEW r \in Request, SetAll(r)
  PROVE  IInv'
<1>0. PICK a : a = call[r].id
  OBVIOUS
<1>1. /\ call[r] \in Modifies /\ call[r].step = "setAll" /\ DOMAIN history' = DOMAIN history
      /\ \A i \in DOMAIN history :
              history'[i] = IF history[i].version = call[r].row.version
                            THEN [history[i] EXCEPT !.set[call[r].set] = call[r].row.set[call[r].set]]
                            ELSE history[i]
      /\ causes' = [b \in Id |->
              IF b # call[r].id /\ \E i \in Of(b) : history[i].version = call[r].row.version
              THEN causes[b] \union {"spill"} ELSE causes[b]]
      /\ row' = row /\ snapshot' = snapshot
  BY SetAllEffect DEF SetAll, IInv
<1>2. Types /\ call[r] \in Calls
  BY <1>1 DEF IInv, Calls
<1>3. Turn(r, a, Idle) /\ a \in Id /\ KeepsEdits(a)
  BY <1>0, <1>2, SetAllTurn, RunningRow DEF IInv
<1>4. causes'[a] = causes[a]
  BY <1>0, <1>1, <1>3
<1>5. ASSUME Sound(a)' PROVE Stored(a)'
  <2>1. Sound(a)
    BY <1>3, <1>5, SoundBefore
  <2>2. /\ row[a] # None /\ row[a] \in Rows /\ r \in Running(a) /\ Stored(a) /\ Alone(a) /\ Columns(a)
        /\ Knows(a, call[r]) /\ (causes[a] = {} => Running(a) = {r})
    BY <1>0, <1>2, <2>1, Underway
  <2>3. KeepsLatest(a) /\ SnapshotsOf(a)' = SnapshotsOf(a)
    BY <1>1 DEF KeepsLatest, SnapshotsOf
  <2>5. /\ \A s \in Running(a)' : Knows(a, call[s])'
        /\ Numbered(a)' /\ Latest(a)' /\ Joined(a)' /\ Snapped(a)'
    BY <1>1, <1>2, <1>3, <2>2, <2>3, PartsKept, IdleEnds DEF Idle
  <2>6. Alone(a)'
    BY <1>1, <1>2, <1>3, <2>2, TurnAlone DEF Idle
  <2>7. ASSUME causes'[a] = {} PROVE Columns(a)'
    <3>1. Running(a) = {r} /\ causes[a] = {}
      BY <1>4, <2>2, <2>7
    <3>2. Running(a)' = {}
      BY <1>2, <1>3, <3>1, RunningAfter
    <3> DEFINE k == call[r].set
    <3>3. call[r].row = row[a]
      BY <1>1, <2>2, <3>1 DEF Columns, Intends
    <3>4. ASSUME NEW i \in OfVersion(a, row[a].version)'
          PROVE  history'[i].valid = row'[a].valid /\ \A q \in Setting : history'[i].set[q] = row'[a].set[q]
      <4>1. i \in Of(a) /\ i \in DOMAIN history /\ history[i].version = row[a].version
        BY <1>1, <1>3, <3>4 DEF OfVersion, KeepsEdits, Of
      <4>2. i \in OfVersion(a, row[a].version)
        BY <4>1 DEF OfVersion
      <4>3. history[i].valid = row[a].valid /\ \A q \in Setting : q # k => history[i].set[q] = row[a].set[q]
        BY <1>1, <2>2, <3>1, <4>2 DEF Columns
      <4>4. history[i] \in Histories
        BY <1>2, <4>1, HistoryTyped
      <4> DEFINE w == [history[i].set EXCEPT ![k] = row[a].set[k]]
      <4>5. [history[i] EXCEPT !.set[k] = row[a].set[k]] = [history[i] EXCEPT !.set = w]
        BY <4>4 DEF Histories
      <4>6. history'[i] = [history[i] EXCEPT !.set[k] = row[a].set[k]]
        BY <1>1, <3>3, <4>1, Zenon
      <4>7. \A q \in Setting : w[q] = row[a].set[q]
        BY <4>3, <4>4 DEF Histories
      <4>8. history'[i] = [history[i] EXCEPT !.set = w]
        BY <4>5, <4>6
      <4> HIDE DEF w
      <4>9. history'[i].valid = history[i].valid /\ history'[i].set = w
        BY <4>4, <4>8 DEF Histories
      <4> QED BY <1>1, <4>3, <4>7, <4>9
    <3> QED BY <3>2, <3>4 DEF Columns
  <2>8. Columns(a)'
    BY <2>7 DEF Columns
  <2> QED BY <2>5, <2>6, <2>8 DEF Stored
<1> QED BY <1>3, <1>5, TurnKeeps

(* UpdateLast keeps the invariant: what it writes back differs in the      *)
(* columns only.                                                           *)
LEMMA UpdateLastStores ==
  ASSUME IInv, Types', NEW r \in Request, UpdateLast(r)
  PROVE  IInv'
<1>0. PICK a : a = call[r].id
  OBVIOUS
<1>1. /\ call[r] \in Lasts /\ call[r].step = "last" /\ DOMAIN history' = DOMAIN history
      /\ \A i \in DOMAIN history : history'[i] = IF i = call[r].at THEN call[r].history ELSE history[i]
      /\ row' = row /\ snapshot' = snapshot /\ causes' = causes
  BY UpdateLastEffect DEF UpdateLast, IInv
<1>2. Types /\ call[r] \in Calls
  BY <1>1 DEF IInv, Calls
<1>3. Turn(r, a, Idle) /\ a \in Id
  BY <1>0, <1>2, UpdateLastTurn, RunningRow DEF IInv
<1>5. ASSUME Sound(a)' PROVE Stored(a)'
  <2>1. Sound(a)
    BY <1>3, <1>5, SoundBefore
  <2>2. /\ row[a] # None /\ row[a] \in Rows /\ r \in Running(a) /\ Stored(a) /\ Alone(a) /\ Columns(a)
        /\ Knows(a, call[r]) /\ Numbered(a) /\ (causes[a] = {} => Running(a) = {r})
    BY <1>0, <1>2, <2>1, Underway
  <2> DEFINE n == call[r].at
  <2>3. /\ n \in OfVersion(a, row[a].version)
        /\ call[r].history = [history[n] EXCEPT !.set = call[r].history.set, !.valid = call[r].history.valid]
    BY <1>1, <2>2 DEF Knows
  <2>4. n \in Of(a) /\ n \in DOMAIN history /\ history[n] \in Histories /\ history[n].announcement = a
        /\ history[n].version = row[a].version
    BY <1>2, <2>3, HistoryTyped DEF OfVersion, Of
  <2>5. /\ call[r].history.announcement = a /\ call[r].history.version = history[n].version
        /\ call[r].history.increment = history[n].increment /\ call[r].history.decrement = history[n].decrement
        /\ call[r].history.saved = history[n].saved
    BY <2>3, <2>4 DEF Histories
  <2>6. KeepsEdits(a)
    BY <1>1, <2>4, <2>5 DEF KeepsEdits, Of
  <2>7. KeepsLatest(a) /\ SnapshotsOf(a)' = SnapshotsOf(a)
    BY <1>1 DEF KeepsLatest, SnapshotsOf
  <2>8. /\ \A s \in Running(a)' : Knows(a, call[s])'
        /\ Numbered(a)' /\ Latest(a)' /\ Joined(a)' /\ Snapped(a)'
    BY <1>1, <1>2, <1>3, <2>2, <2>6, <2>7, PartsKept, IdleEnds DEF Idle
  <2>9. Alone(a)'
    BY <1>1, <1>2, <1>3, <2>2, TurnAlone DEF Idle
  <2>10. ASSUME causes'[a] = {} PROVE Columns(a)'
    <3>1. Running(a) = {r} /\ causes[a] = {}
      BY <1>1, <2>2, <2>10
    <3>2. Running(a)' = {}
      BY <1>2, <1>3, <3>1, RunningAfter
    <3>3. call[r].history.set = row[a].set /\ ~ row[a].valid /\ ~ call[r].history.valid
      BY <1>1, <2>2, <3>1 DEF Columns, Intends
    <3>4. row[a].valid = FALSE /\ call[r].history.valid = FALSE
      BY <1>1, <2>2, <3>3 DEF Rows, Lasts, Histories
    <3>5. ASSUME NEW i \in OfVersion(a, row[a].version)'
          PROVE  history'[i].valid = row'[a].valid /\ history'[i].set = row'[a].set
      <4>1. i \in Of(a) /\ history[i].version = row[a].version
        BY <1>1, <2>6, <3>5 DEF OfVersion, KeepsEdits
      <4>2. i = n
        BY <2>2, <2>4, <4>1 DEF Numbered
      <4> QED BY <1>1, <2>4, <3>3, <3>4, <4>2
    <3> QED BY <3>2, <3>5 DEF Columns
  <2>11. Columns(a)'
    BY <2>10 DEF Columns
  <2> QED BY <2>8, <2>9, <2>11 DEF Stored
<1> QED BY <1>3, <1>5, TurnKeeps

(* FindLast keeps the invariant.                                           *)
LEMMA FindLastStores ==
  ASSUME IInv, Types', NEW r \in Request, FindLast(r)
  PROVE  IInv'
<1>0. PICK a : a = call[r].id
  OBVIOUS
<1>1. /\ call[r] \in Deletes /\ call[r].step = "findLast"
      /\ row' = row /\ history' = history /\ snapshot' = snapshot /\ causes' = causes
  BY FindLastEffect DEF IInv
<1>2. Types /\ call[r] \in Calls
  BY <1>1 DEF IInv, Calls
<1>3. /\ a \in Id /\ KeepsEdits(a) /\ KeepsLatest(a) /\ SnapshotsOf(a)' = SnapshotsOf(a)
      /\ \A v : OfVersion(a, v)' = OfVersion(a, v)
  BY <1>0, <1>1, <1>2, HistoriesStay, RunningRow DEF IInv, KeepsLatest, SnapshotsOf, OfVersion
<1>4. \/ Turn(r, a, Idle) /\ OfVersion(a, call[r].row.version) = {}
      \/ \E i \in OfVersion(a, call[r].row.version) : LastCall(r, i) \in Lasts /\ Turn(r, a, LastCall(r, i))
  BY <1>0, FindLastTurn DEF IInv
<1>5. ASSUME Sound(a)
      PROVE  /\ row[a] # None /\ row[a] \in Rows /\ r \in Running(a) /\ Stored(a) /\ Alone(a) /\ Columns(a)
             /\ (causes[a] = {} => Running(a) = {r}) /\ call[r].row.version = row[a].version
  <2>1. /\ row[a] # None /\ row[a] \in Rows /\ r \in Running(a) /\ Stored(a) /\ Alone(a) /\ Columns(a)
        /\ (causes[a] = {} => Running(a) = {r}) /\ Knows(a, call[r])
    BY <1>0, <1>2, <1>5, Underway
  <2> QED BY <1>1, <2>1 DEF Knows
<1>6. CASE Turn(r, a, Idle) /\ OfVersion(a, call[r].row.version) = {}
  <2>1. ASSUME Sound(a)' PROVE Stored(a)'
    <3>1. Sound(a)
      BY <1>3, <1>6, <2>1, SoundBefore
    <3>2. /\ \A s \in Running(a)' : Knows(a, call[s])'
          /\ Numbered(a)' /\ Latest(a)' /\ Joined(a)' /\ Snapped(a)'
      BY <1>1, <1>2, <1>3, <1>5, <1>6, <3>1, PartsKept, IdleEnds DEF Idle
    <3>3. Alone(a)'
      BY <1>1, <1>2, <1>3, <1>5, <1>6, <3>1, TurnAlone DEF Idle
    <3>4. ASSUME causes'[a] = {} PROVE Columns(a)'
      <4>1. Running(a)' = {}
        BY <1>1, <1>2, <1>3, <1>5, <1>6, <3>1, <3>4, RunningAfter
      <4>2. OfVersion(a, row[a].version)' = {}
        BY <1>1, <1>3, <1>5, <1>6, <3>1 DEF OfVersion
      <4> QED BY <4>1, <4>2 DEF Columns
    <3>5. Columns(a)'
      BY <3>4 DEF Columns
    <3> QED BY <3>2, <3>3, <3>5 DEF Stored
  <2> QED BY <1>3, <1>6, <2>1, TurnKeeps
<1>7. ASSUME NEW i \in OfVersion(a, call[r].row.version), LastCall(r, i) \in Lasts, Turn(r, a, LastCall(r, i))
      PROVE  IInv'
  <2>0. PICK c : c = LastCall(r, i)
    OBVIOUS
  <2>1. /\ c \in Calls /\ Turn(r, a, c)
    BY <1>7, <2>0 DEF Calls
  <2>2. c.step = "last" /\ c.op = "delete" /\ c.id = a /\ c.at = i /\ c.history = [history[i] EXCEPT !.valid = FALSE]
    BY <1>0, <2>0 DEF LastCall
  <2>3. i \in DOMAIN history /\ history[i] \in Histories /\ c # Idle /\ call[r].op = "delete"
    BY <1>1, <1>2, <2>2, HistoryTyped DEF OfVersion, Of, Idle, Deletes
  <2>4. /\ c.history.set = history[i].set /\ c.history.valid = FALSE
    BY <2>2, <2>3 DEF Histories
  <2>5. c.history = [history[i] EXCEPT !.set = c.history.set, !.valid = c.history.valid]
    <3> DEFINE h == [history[i] EXCEPT !.set = c.history.set, !.valid = c.history.valid]
    <3>1. /\ DOMAIN h = DOMAIN history[i]
          /\ h = [[history[i] EXCEPT !.set = c.history.set] EXCEPT !.valid = c.history.valid]
      BY Zenon
    <3>2. [history[i] EXCEPT !.set = c.history.set] = history[i]
      BY <2>3, <2>4 DEF Histories
    <3> QED BY <2>2, <2>4, <3>1, <3>2, Zenon
  <2>6. ASSUME Sound(a)' PROVE Stored(a)'
    <3>1. Sound(a)
      BY <1>3, <2>1, <2>6, SoundBefore
    <3>2. call[r].row.version = row[a].version
      BY <1>5, <3>1
    <3>3. Knows(a, c)
      <4>1. c.at \in OfVersion(a, row[a].version) /\ c.history = [history[c.at] EXCEPT !.set = c.history.set, !.valid = c.history.valid]
        BY <1>7, <2>2, <2>5, <3>2
      <4> QED BY <2>2, <4>1, Zenon DEF Knows
    <3>4. Knows(a, c)'
      BY <1>1, <1>2, <1>3, <1>5, <2>1, <3>1, <3>3, KnowsKept
    <3>5. /\ \A s \in Running(a)' : Knows(a, call[s])'
          /\ Numbered(a)' /\ Latest(a)' /\ Joined(a)' /\ Snapped(a)'
      BY <1>1, <1>2, <1>3, <1>5, <2>1, <2>2, <3>1, <3>4, PartsKept
    <3>6. Alone(a)'
      BY <1>1, <1>2, <1>3, <1>5, <2>1, <2>2, <2>3, <3>1, TurnAlone DEF Idle
    <3>7. ASSUME causes'[a] = {} PROVE Columns(a)'
      <4>1. Running(a)' = {r} /\ call'[r] = c /\ Running(a) = {r} /\ causes[a] = {}
        BY <1>1, <1>2, <1>3, <1>5, <2>1, <2>3, <3>1, <3>7, RunningAfter
      <4>2. ~ row[a].valid /\ \A j \in OfVersion(a, row[a].version) : \A k \in Setting : history[j].set[k] = row[a].set[k]
        BY <1>1, <1>5, <3>1, <4>1 DEF Columns, Intends
      <4>3. history[i].set = row[a].set
        <5>1. \A k \in Setting : history[i].set[k] = row[a].set[k]
          BY <1>7, <3>2, <4>2
        <5> QED BY <5>1, <1>5, <2>3, <3>1 DEF Histories, Rows
      <4>4. \A j \in OfVersion(a, row[a].version)' : j \in OfVersion(a, row[a].version)
        BY <1>1, <1>3 DEF OfVersion
      <4>5. Intends(row[a], call[r])'
        BY <1>1, <2>2, <2>4, <4>1, <4>2, <4>3 DEF Intends
      <4>6. \A j \in OfVersion(a, row[a].version)' :
           /\ \E s \in Running(a)' : call'[s].step \in {"findLast", "last"}
           /\ \A k \in Setting : history'[j].set[k] = row'[a].set[k]
        BY <1>1, <2>2, <4>1, <4>2, <4>4
      <4> QED BY <4>1, <4>5, <4>6 DEF Columns
    <3>8. Columns(a)'
      BY <3>7 DEF Columns
    <3> QED BY <3>5, <3>6, <3>8 DEF Stored
  <2> QED BY <1>3, <2>1, <2>6, TurnKeeps
<1> QED BY <1>4, <1>6, <1>7

(* UpdateRow of a setting or a deletion keeps the invariant.               *)
LEMMA UpdateColumnsStores ==
  ASSUME IInv, Types', NEW r \in Request, UpdateRow(r), call[r].op # "save"
  PROVE  IInv'
<1>0. PICK a : a = call[r].id
  OBVIOUS
<1>1. /\ call[r] \in Modifies \union Deletes /\ call[r].step = "update"
      /\ row' = [row EXCEPT ![call[r].id] = call[r].row] /\ call[r].row \in Rows /\ call[r].id \in Id
      /\ UpdatedCall(r) \in Calls
      /\ history' = history /\ snapshot' = snapshot /\ causes' = causes
  BY UpdateRowCall DEF IInv, Saves
<1>2. Types /\ call[r] \in Calls /\ Turn(r, a, UpdatedCall(r)) /\ a \in Id
  BY <1>0, <1>1, UpdateRowTurn DEF IInv, Calls
<1>3. PICK c \in Calls : c = UpdatedCall(r)
  BY <1>1
<1>4. /\ c.id = a /\ c.op = call[r].op /\ c.row = call[r].row /\ Turn(r, a, c)
      /\ c.step = IF call[r].op = "modify" THEN "setAll" ELSE "findLast"
      /\ call[r].op = "modify" => c.set = call[r].set
  BY <1>0, <1>1, <1>2, <1>3, UpdatedCallIs
<1>5. row'[a] = call[r].row
  BY <1>0, <1>1, <1>2 DEF Types
<1>6. KeepsEdits(a) /\ SnapshotsOf(a)' = SnapshotsOf(a) /\ \A v : OfVersion(a, v)' = OfVersion(a, v)
  BY <1>1, HistoriesStay DEF SnapshotsOf, OfVersion
<1>7. ASSUME Sound(a)' PROVE Stored(a)'
  <2>1. Sound(a)
    BY <1>2, <1>4, <1>7, SoundBefore
  <2>2. /\ row[a] # None /\ row[a] \in Rows /\ r \in Running(a) /\ Stored(a) /\ Alone(a) /\ Columns(a)
        /\ Knows(a, call[r]) /\ (causes[a] = {} => Running(a) = {r})
    BY <1>0, <1>2, <2>1, Underway
  <2>3. KeepsLatest(a)
    BY <1>1, <1>5, <2>2 DEF Knows, KeepsLatest
  <2>4. Knows(a, c)'
    <3>1. c.op \in {"modify", "delete"} /\ c.step \in {"setAll", "findLast"}
      BY <1>1, <1>4 DEF Modifies, Deletes
    <3> QED BY <1>4, <1>5, <3>1 DEF Knows
  <2>5. \A s \in Running(a) \ {r} : call[s].op = "save" \/ causes'[a] = {} => row'[a] = row[a]
    BY <1>1, <2>2 DEF Alone
  <2>6. /\ \A s \in Running(a)' : Knows(a, call[s])'
        /\ Numbered(a)' /\ Latest(a)' /\ Joined(a)' /\ Snapped(a)'
    BY <1>1, <1>2, <1>4, <1>6, <2>2, <2>3, <2>4, <2>5, PartsKept
  <2>7. Alone(a)'
    BY <1>1, <1>2, <1>4, <2>2, TurnAlone DEF Idle
  <2>8. ASSUME causes'[a] = {} PROVE Columns(a)'
    <3>1. Running(a)' = {r} /\ call'[r] = c /\ Running(a) = {r} /\ causes[a] = {}
      BY <1>1, <1>2, <1>4, <2>2, <2>8, RunningAfter DEF Idle
    <3>2. Intends(row[a], call[r])
      BY <2>2, <3>1 DEF Columns
    <3>3. \A i \in OfVersion(a, row[a].version) :
             history[i].valid = row[a].valid /\ \A k \in Setting : history[i].set[k] = row[a].set[k]
      BY <1>1, <2>2, <3>1 DEF Columns
    <3>4. \A i \in OfVersion(a, row[a].version)' : i \in OfVersion(a, row[a].version)
      BY <1>6, <2>3 DEF OfVersion, KeepsLatest, KeepsEdits
    <3>5. CASE call[r].op = "modify"
      <4>1. PICK k \in Setting, v \in Level : k = call[r].set /\ v = call[r].row.set[k]
        BY <1>1, <3>5 DEF Modifies, Deletes, Rows
      <4>2. call[r].row = [row[a] EXCEPT !.set[k] = v]
        BY <1>1, <3>2, <3>5, <4>1, Zenon DEF Intends
      <4> DEFINE w == [row[a].set EXCEPT ![k] = v]
      <4>3. [row[a] EXCEPT !.set[k] = v] = [row[a] EXCEPT !.set = w]
        BY <2>2 DEF Rows
      <4>4. \A q \in Setting : q # k => w[q] = row[a].set[q]
        BY <2>2 DEF Rows
      <4>5. row'[a] = [row[a] EXCEPT !.set = w]
        BY <1>5, <4>2, <4>3
      <4> HIDE DEF w
      <4>6. row'[a].valid = row[a].valid /\ row'[a].set = w
        BY <2>2, <4>5 DEF Rows
      <4>7. c.step = "setAll" /\ c.set = k /\ c.row = row'[a]
        BY <1>4, <1>5, <3>5, <4>1
      <4>8. Intends(row[a], call[r])'
        BY <1>4, <3>1, <3>5, <4>7 DEF Intends
      <4>9. \A i \in OfVersion(a, row[a].version)' :
              /\ history'[i].valid = row'[a].valid
              /\ \A q \in Setting : \/ history'[i].set[q] = row'[a].set[q]
                                    \/ \E s \in Running(a)' : call'[s].step = "setAll" /\ call'[s].set = q
        BY <1>1, <3>1, <3>3, <3>4, <4>4, <4>6, <4>7
      <4> QED BY <3>1, <4>8, <4>9 DEF Columns
    <3>6. CASE call[r].op # "modify"
      <4>1. call[r].op = "delete" /\ c.step = "findLast"
        BY <1>1, <1>4, <3>6 DEF Modifies, Deletes
      <4>2. row'[a] = [row[a] EXCEPT !.valid = FALSE]
        BY <1>1, <1>5, <3>2, <4>1 DEF Intends
      <4>3. row'[a].valid = FALSE /\ row'[a].set = row[a].set
        BY <2>2, <4>2 DEF Rows
      <4>4. Intends(row[a], call[r])'
        BY <3>1, <4>1, <4>3 DEF Intends
      <4>5. \A i \in OfVersion(a, row[a].version)' :
              /\ \E s \in Running(a)' : call'[s].step \in {"findLast", "last"}
              /\ \A q \in Setting : history'[i].set[q] = row'[a].set[q]
        BY <1>1, <3>1, <3>3, <3>4, <4>1, <4>3
      <4> QED BY <3>1, <4>4, <4>5 DEF Columns
    <3> QED BY <3>5, <3>6
  <2>9. Columns(a)'
    BY <2>8 DEF Columns
  <2> QED BY <2>6, <2>7, <2>9 DEF Stored
<1> QED BY <1>2, <1>4, <1>7, TurnKeeps

(* generateSnapshot keeps the invariant: it takes the latest content.      *)
LEMMA SnapshotStores ==
  ASSUME IInv, Types', NEW r \in Request, generateSnapshot(r)
  PROVE  IInv'
<1>0. PICK a : a = call[r].id
  OBVIOUS
<1> DEFINE t == SnapshotTaken(r)
<1>1. /\ call[r] \in Saves /\ call[r].step = "snapshot" /\ snapshot' = snapshot \union {t}
      /\ row' = row /\ history' = history /\ causes' = causes
  BY SnapshotEffect DEF IInv, SnapshotTaken
<1>2. /\ Types /\ call[r] \in Calls /\ Turn(r, a, Idle) /\ a \in Id
  BY <1>0, <1>1, SnapshotTurn, RunningRow DEF IInv, Calls
<1>3. t.announcement = a /\ t.version = call[r].row.version /\ t.content = call[r].row.content
  BY <1>0 DEF SnapshotTaken
<1> HIDE DEF t
<1>4. KeepsEdits(a) /\ KeepsSaved(a) /\ KeepsLatest(a)
  BY <1>1, HistoriesStay, EditsAndSaved DEF KeepsLatest
<1>5. ASSUME Sound(a)' PROVE Stored(a)'
  <2>1. Sound(a)
    BY <1>2, <1>5, SoundBefore
  <2>2. /\ row[a] # None /\ row[a] \in Rows /\ r \in Running(a) /\ Stored(a) /\ Alone(a) /\ Columns(a)
        /\ Knows(a, call[r]) /\ Running(a) = {r}
        /\ Numbered(a) /\ Latest(a) /\ Joined(a) /\ Columns(a) /\ Snapped(a)
    BY <1>0, <1>1, <1>2, <2>1, Underway DEF Saves
  <2>3. call[r].row = row[a]
    BY <1>1, <2>2 DEF Knows
  <2>4. Running(a)' = {}
    BY <1>2, <2>2, RunningAfter
  <2>5. Alone(a)'
    BY <2>4 DEF Alone
  <2>6. ~ Inserting(a) /\ (Whole(a)' => Whole(a))
    BY <1>1, <2>2 DEF Inserting, Whole
  <2>7. Numbered(a)' /\ Latest(a)' /\ Joined(a)'
    BY <1>4, <2>2, <2>6, NumberedKept, LatestKept, JoinedKept
  <2>8. Columns(a)'
    <3>1. \A i \in OfVersion(a, row[a].version)' : i \in OfVersion(a, row[a].version)
      BY <1>1 DEF OfVersion, Of
    <3>2. ASSUME causes'[a] = {}, NEW i \in OfVersion(a, row[a].version)'
          PROVE  history'[i].valid = row'[a].valid /\ \A k \in Setting : history'[i].set[k] = row'[a].set[k]
      BY <1>1, <2>2, <3>1, <3>2 DEF Columns
    <3> QED BY <2>4, <3>2 DEF Columns
  <2>9. Snapped(a)'
    <3>1. SnapshotsOf(a)' = SnapshotsOf(a) \union {t}
      BY <1>1, <1>3 DEF SnapshotsOf
    <3>2. t.version = row[a].version /\ t.content = row[a].content
      BY <1>3, <2>3
    <3>3. \A v : OfVersion(a, v)' = OfVersion(a, v)
      BY <1>4, OfKept
    <3>4. ASSUME NEW s \in SnapshotsOf(a)'
          PROVE  /\ s.version <= row'[a].version
                 /\ \A i \in OfVersion(a, s.version)' : s.content = history'[i].saved
      <4>1. CASE s \in SnapshotsOf(a)
        BY <1>1, <2>2, <3>3, <4>1 DEF Snapped
      <4>2. CASE s = t
        <5>1. s.version <= row'[a].version
          BY <1>1, <2>2, <3>2, <4>2, ConstantsAssumption DEF Rows
        <5> QED BY <1>1, <2>2, <3>2, <3>3, <4>2, <5>1 DEF Latest
      <4> QED BY <3>1, <4>1, <4>2
    <3>5. ASSUME Whole(a)', NEW v \in 2..row'[a].version, v % SNAPSHOT_INTERVAL = 0
          PROVE  Taken(a, v)'
      <4>1. Taken(a, v) \/ v = row[a].version
        BY <1>1, <2>2, <2>6, <3>5 DEF Snapped
      <4> QED BY <3>1, <3>2, <4>1 DEF Taken
    <3> QED BY <2>4, <3>4, <3>5 DEF Snapped
  <2> QED BY <2>4, <2>5, <2>7, <2>8, <2>9 DEF Stored
<1> QED BY <1>2, <1>5, TurnKeeps

(* The numbers of versions are positive.                                   *)
LEMMA VersionsInRange ==
  ASSUME Types, NEW a \in Id, row[a] # None
  PROVE  /\ row[a].version \in Nat \ {0} /\ MaxVersion \in Nat \ {0} /\ SNAPSHOT_INTERVAL \in Nat \ {0}
         /\ \A i \in Of(a) : history[i] \in Histories /\ history[i].version \in Nat \ {0}
         /\ \A s \in SnapshotsOf(a) : s.version \in Nat \ {0}
<1>1. row[a] \in Rows /\ MaxVersion \in Nat \ {0} /\ SNAPSHOT_INTERVAL \in Nat \ {0}
  BY RowIsThere, ConstantsAssumption
<1>2. \A i \in Of(a) : history[i] \in Histories
  BY HistoryTyped DEF Of
<1>3. \A s \in SnapshotsOf(a) : s \in Snapshots
  BY DEF SnapshotsOf, Types
<1>4. Versions \subseteq Nat \ {0}
  BY <1>1 DEF Versions
<1>5. row[a].version \in Versions
  BY <1>1 DEF Rows, Versions
<1>6. \A i \in Of(a) : history[i].version \in Versions
  BY <1>2 DEF Histories
<1>7. \A s \in SnapshotsOf(a) : s.version \in Versions
  BY <1>3 DEF Snapshots
<1> QED BY <1>1, <1>2, <1>4, <1>5, <1>6, <1>7

(* UpdateRow of a save keeps the invariant: the row gets the next version, *)
(* which no history has yet.                                               *)
LEMMA UpdateSaveStores ==
  ASSUME IInv, Types', NEW r \in Request, UpdateRow(r), call[r].op = "save"
  PROVE  IInv'
<1>0. PICK a : a = call[r].id
  OBVIOUS
<1>1. /\ call[r] \in Saves /\ call[r].step = "update"
      /\ row' = [row EXCEPT ![call[r].id] = call[r].row] /\ call[r].row \in Rows /\ call[r].id \in Id
      /\ UpdatedCall(r) \in Calls
      /\ history' = history /\ snapshot' = snapshot /\ causes' = causes
  BY UpdateRowCall DEF IInv, Modifies, Deletes
<1>2. Types /\ call[r] \in Calls /\ Turn(r, a, UpdatedCall(r)) /\ a \in Id
  BY <1>0, <1>1, UpdateRowTurn DEF IInv, Calls
<1>3. PICK c \in Calls : c = UpdatedCall(r)
  BY <1>1
<1>4. /\ c.id = a /\ c.op = "save" /\ c.row = call[r].row /\ Turn(r, a, c)
      /\ c.step = "insert" /\ c.decrement = call[r].decrement
  BY <1>0, <1>1, <1>2, <1>3, UpdatedCallIs
<1>5. row'[a] = c.row
  BY <1>0, <1>1, <1>2, <1>4 DEF Types
<1>6. KeepsEdits(a) /\ Of(a)' = Of(a) /\ SnapshotsOf(a)' = SnapshotsOf(a)
  BY <1>1, HistoriesStay DEF SnapshotsOf
<1>7. ASSUME Sound(a)' PROVE Stored(a)'
  <2>1. Sound(a)
    BY <1>2, <1>4, <1>7, SoundBefore
  <2>2. /\ row[a] # None /\ row[a] \in Rows /\ r \in Running(a) /\ Stored(a) /\ Alone(a)
        /\ Knows(a, call[r]) /\ Running(a) = {r}
        /\ Numbered(a) /\ Latest(a) /\ Joined(a) /\ Columns(a) /\ Snapped(a)
    BY <1>0, <1>1, <1>2, <2>1, Underway
  <2>3. /\ row[a].version \in Nat \ {0}
        /\ \A i \in Of(a) : history[i] \in Histories /\ history[i].version \in Nat \ {0}
        /\ \A s \in SnapshotsOf(a) : s.version \in Nat \ {0}
    BY <1>2, <2>2, VersionsInRange
  <2>4. /\ c.row.version = row[a].version + 1
        /\ Joins(c.row.content, c.decrement, row[a].content)
        /\ \A i \in OfVersion(a, row[a].version) :
             Joins(history[i].saved, history[i].increment, c.row.content)
    BY <1>1, <1>4, <2>2 DEF Knows
  <2>5. \A i \in Of(a) : history[i].version <= row[a].version
    BY <2>2 DEF Numbered
  <2>6. Running(a)' = {r} /\ call'[r] = c
    BY <1>2, <1>4, <2>2, RunningAfter DEF Idle
  <2>7. Alone(a)'
    BY <2>6 DEF Alone
  <2>8. OfVersion(a, row[a].version)' = {}
    BY <1>1, <1>5, <1>6, <2>3, <2>4, <2>5 DEF OfVersion
  <2>9. Knows(a, call[r])'
    <3>1. ASSUME NEW i \in Of(a)'
          PROVE  /\ history'[i].version < row'[a].version
                 /\ history'[i].version + 1 = row'[a].version =>
                      /\ Joins(history'[i].saved, history'[i].increment, c.row.content)
                      /\ Joins(c.row.content, c.decrement, history'[i].saved)
      <4>1. history[i].version <= row[a].version /\ history[i].version \in Nat /\ history'[i] = history[i] /\ i \in Of(a)
        BY <1>1, <1>6, <2>3, <2>5
      <4>2. history'[i].version < row'[a].version
        BY <1>5, <2>3, <2>4, <4>1
      <4>3. ASSUME history'[i].version + 1 = row'[a].version
            PROVE  i \in OfVersion(a, row[a].version)
        BY <1>5, <2>3, <2>4, <4>1, <4>3 DEF OfVersion
      <4> QED BY <2>2, <2>4, <4>1, <4>2, <4>3 DEF Latest
    <3> QED BY <1>4, <1>5, <2>6, <3>1 DEF Knows
  <2>10. Inserting(a)' /\ ~ Inserting(a) /\ (Whole(a)' => Whole(a))
    BY <1>1, <1>4, <2>2, <2>6 DEF Inserting, Whole
  <2>11. Numbered(a)'
    <3>1. \A i, j \in Of(a)' : history'[i].version = history'[j].version => i = j
      BY <1>1, <1>6, <2>2 DEF Numbered
    <3>2. \A i \in Of(a)' : history'[i].version <= row'[a].version
      BY <1>1, <1>5, <1>6, <2>3, <2>4, <2>5
    <3>3. ASSUME Whole(a)', NEW v \in 1..row'[a].version, v # row'[a].version
          PROVE  OfVersion(a, v)' # {}
      <4>1. v \in 1..row[a].version
        BY <1>5, <2>3, <2>4, <3>3
      <4>2. OfVersion(a, v) # {}
        BY <2>2, <2>10, <3>3, <4>1 DEF Numbered
      <4> QED BY <1>1, <1>6, <4>2 DEF OfVersion
    <3> QED BY <2>10, <3>1, <3>2, <3>3 DEF Numbered
  <2>12. Latest(a)'
    BY <2>8 DEF Latest
  <2>13. Joined(a)'
    BY <1>6, <2>2, JoinedKept
  <2>14. Columns(a)'
    <3>1. Intends(row[a], call[r])'
      BY <1>4, <2>6 DEF Intends
    <3> QED BY <2>6, <2>8, <3>1 DEF Columns
  <2>15. Snapped(a)'
    <3>1. ASSUME NEW s \in SnapshotsOf(a)'
          PROVE  s.version < row'[a].version /\ \A i \in OfVersion(a, s.version)' : s.content = history'[i].saved
      <4>1. s \in SnapshotsOf(a) /\ s.version <= row[a].version /\ \A i \in OfVersion(a, s.version) : s.content = history[i].saved
        BY <1>6, <2>2 DEF Snapped
      <4> QED BY <1>1, <1>5, <1>6, <2>3, <2>4, <4>1 DEF OfVersion
    <3>2. ASSUME Whole(a)', NEW v \in 2..row'[a].version, v % SNAPSHOT_INTERVAL = 0, v # row'[a].version
          PROVE  Taken(a, v)'
      <4>1. v \in 2..row[a].version
        BY <1>5, <2>3, <2>4, <3>2
      <4>2. Taken(a, v)
        BY <1>1, <2>2, <2>10, <3>2, <4>1 DEF Snapped
      <4> QED BY <1>6, <4>2 DEF Taken
    <3>3. row'[a].version \in Nat
      BY <1>5, <2>3, <2>4
    <3>4. \A s \in SnapshotsOf(a)' : s.version <= row'[a].version
      BY <1>6, <2>3, <3>1, <3>3
    <3> QED BY <1>4, <2>6, <3>1, <3>2, <3>4 DEF Snapped
  <2> QED BY <2>6, <2>7, <2>9, <2>11, <2>12, <2>13, <2>14, <2>15 DEF Stored
<1> QED BY <1>2, <1>4, <1>7, TurnKeeps

(* Edits between two contents that were computed lead from one to the      *)
(* other.                                                                  *)
LEMMA CompareJoins ==
  ASSUME NEW p \in Content, NEW q \in Content, ~ Compare(p, q).thrown
  PROVE  Joins(p, Compare(p, q), q)
<1>1. \A c \in Content : c \in Seq(Blocks)
  BY ConstantsAssumption DEF Blocks
<1>2. p \in Seq(Blocks) /\ q \in Seq(Blocks)
  BY <1>1
<1>3. Fits(p, Compare(p, q)) /\ Texts(Apply(p, Compare(p, q))) = Texts(q)
  BY <1>2, CompareIsRight
<1> QED BY <1>3 DEF Joins

(* SetIncrement keeps the invariant: the edits that lead to the new        *)
(* content are written before any row says so.                             *)
LEMMA SetIncrementStores ==
  ASSUME IInv, Types', NEW r \in Request, SetIncrement(r)
  PROVE  IInv'
<1>0. PICK a : a = call[r].id
  OBVIOUS
<1>1. /\ call[r] \in Increments /\ call[r].step = "increment"
      /\ DOMAIN history' = DOMAIN history
      /\ \A i \in DOMAIN history :
              history'[i] = IF i \in OfVersion(call[r].id, call[r].row.version)
                            THEN [history[i] EXCEPT !.increment = IncrementOf(r)] ELSE history[i]
      /\ row' = row /\ snapshot' = snapshot /\ causes' = causes
      /\ UpdatingCall(r).decrement.thrown => call' = [call EXCEPT ![r] = Idle]
  BY SetIncrementEffect, SetIncrementCall DEF IInv
<1>2. Types /\ call[r] \in Calls /\ a \in Id /\ call[r].op = "save"
  BY <1>0, <1>1 DEF IInv, Calls, Increments
<1>3. PICK c \in {Idle, UpdatingCall(r)} : c \in Calls \union {Idle} /\ Turn(r, a, c)
  BY <1>0, <1>2, SetIncrementTurn DEF IInv
<1>4. call'[r] = c /\ \A v : v \in Nat => v # v + 1
  BY <1>2, <1>3, RunningAfter
<1>5. c # Idle => /\ c = UpdatingCall(r) /\ ~ c.decrement.thrown
                  /\ c.step = "update" /\ c.op = "save" /\ c.id = a
                  /\ c.decrement = Compare(call[r].content, call[r].row.content)
                  /\ c.row = [call[r].row EXCEPT !.version = @ + 1, !.content = call[r].content]
  <2>1. ASSUME c # Idle PROVE c = UpdatingCall(r) /\ ~ c.decrement.thrown
    <3>1. c = UpdatingCall(r)
      BY <1>3, <2>1
    <3>2. ASSUME c.decrement.thrown PROVE FALSE
      <4>1. call' = [call EXCEPT ![r] = Idle]
        BY <1>1, <3>1, <3>2
      <4> QED BY <1>2, <1>4, <2>1, <4>1, CallChanges, IdleEnds
    <3> QED BY <3>1, <3>2
  <2> DEFINE w == [call[r].row EXCEPT !.version = @ + 1, !.content = call[r].content]
             d == Compare(call[r].content, call[r].row.content)
  <2>2. UpdatingCall(r) = [step |-> "update", op |-> "save", id |-> call[r].id, row |-> w, decrement |-> d]
    BY Zenon DEF UpdatingCall
  <2> HIDE DEF w, d
  <2>3. /\ UpdatingCall(r).step = "update" /\ UpdatingCall(r).op = "save" /\ UpdatingCall(r).id = a
        /\ UpdatingCall(r).decrement = d /\ UpdatingCall(r).row = w
    BY <1>0, <2>2
  <2> QED BY <2>1, <2>3 DEF w, d
<1>6. ASSUME Sound(a)' PROVE Stored(a)'
  <2>1. Sound(a)
    BY <1>2, <1>3, <1>6, SoundBefore
  <2>2. /\ row[a] # None /\ row[a] \in Rows /\ r \in Running(a) /\ Stored(a) /\ Alone(a)
        /\ Knows(a, call[r]) /\ Running(a) = {r}
        /\ Numbered(a) /\ Latest(a) /\ Joined(a) /\ Columns(a) /\ Snapped(a)
    BY <1>0, <1>2, <2>1, Underway
  <2>3. /\ row[a].version \in Nat \ {0} /\ row[a].content \in Content /\ call[r].content \in Content
        /\ \A i \in Of(a) : history[i] \in Histories /\ history[i].version \in Nat \ {0}
    BY <1>1, <1>2, <2>2, VersionsInRange DEF Rows, Increments
  <2>4. call[r].row = row[a] /\ ~ Compare(row[a].content, call[r].content).thrown
    BY <1>1, <2>2 DEF Knows
  <2>5. \A i \in Of(a) :
          /\ i \in DOMAIN history
          /\ history'[i] = IF history[i].version = row[a].version
                           THEN [history[i] EXCEPT !.increment = Compare(row[a].content, call[r].content)]
                           ELSE history[i]
    BY <1>0, <1>1, <2>4 DEF OfVersion, Of, IncrementOf
  <2>6. \A i \in Of(a) :
          /\ history'[i].announcement = history[i].announcement /\ history'[i].version = history[i].version
          /\ history'[i].saved = history[i].saved /\ history'[i].decrement = history[i].decrement
          /\ history'[i].set = history[i].set /\ history'[i].valid = history[i].valid
          /\ history[i].version # row[a].version => history'[i].increment = history[i].increment
          /\ history[i].version = row[a].version => history'[i].increment = Compare(row[a].content, call[r].content)
    <3> DEFINE e == Compare(row[a].content, call[r].content)
    <3>1. \A i \in Of(a) : history'[i] = IF history[i].version = row[a].version
                           THEN [history[i] EXCEPT !.increment = e] ELSE history[i]
      BY <2>5
    <3>2. \A i \in Of(a) : history[i] \in Histories
      BY <2>3
    <3> HIDE DEF e
    <3>3. \A i \in Of(a) :
          /\ history'[i].announcement = history[i].announcement /\ history'[i].version = history[i].version
          /\ history'[i].saved = history[i].saved /\ history'[i].decrement = history[i].decrement
          /\ history'[i].set = history[i].set /\ history'[i].valid = history[i].valid
          /\ history[i].version # row[a].version => history'[i].increment = history[i].increment
          /\ history[i].version = row[a].version => history'[i].increment = e
      BY <3>1, <3>2 DEF Histories
    <3> QED BY <3>3 DEF e
  <2>7. Of(a)' = Of(a)
    <3>1. \A i \in DOMAIN history : history'[i].announcement = history[i].announcement
      BY <1>2, <1>3 DEF Turn, KeepsOwners
    <3> QED BY <1>1, <3>1 DEF Of
  <2>8. KeepsSaved(a) /\ KeepsLatest(a) /\ SnapshotsOf(a)' = SnapshotsOf(a)
    BY <1>1, <2>6, <2>7 DEF KeepsSaved, KeepsLatest, SnapshotsOf
  <2>9. Running(a)' = IF c = Idle THEN {} ELSE {r}
    BY <1>2, <1>3, <2>2, RunningAfter
  <2>10. Alone(a)'
    BY <2>9 DEF Alone
  <2>11. \A i \in OfVersion(a, row[a].version) :
           Joins(history'[i].saved, history'[i].increment, call[r].content)
    <3>1. Joins(row[a].content, Compare(row[a].content, call[r].content), call[r].content)
      BY <2>3, <2>4, CompareJoins
    <3>2. \A i \in OfVersion(a, row[a].version) :
            history'[i].saved = row[a].content /\ history'[i].increment = Compare(row[a].content, call[r].content)
      BY <2>2, <2>6 DEF Latest, OfVersion
    <3> QED BY <3>1, <3>2
  <2>12. ASSUME c # Idle PROVE Knows(a, c)'
    <3> DEFINE w == [row[a] EXCEPT !.version = @ + 1, !.content = call[r].content]
    <3>1. c.row = w
      BY <1>5, <2>4, <2>12
    <3>2. w.version = row[a].version + 1 /\ w.content = call[r].content /\ w.set = row[a].set /\ w.valid = row[a].valid
      BY <2>2 DEF Rows
    <3> HIDE DEF w
    <3>3. Joins(c.row.content, c.decrement, row[a].content)
      BY <1>5, <2>3, <2>4, <2>12, <3>1, <3>2, CompareJoins
    <3>4. \A i \in OfVersion(a, row[a].version)' : Joins(history'[i].saved, history'[i].increment, c.row.content)
      BY <1>1, <2>8, <2>11, <3>1, <3>2 DEF OfVersion, KeepsSaved
    <3> QED BY <1>1, <1>5, <2>12, <3>1, <3>2, <3>3, <3>4 DEF Knows
  <2>13. \A s \in Running(a)' : Knows(a, call[s])'
    <3> SUFFICES ASSUME NEW s \in Running(a)' PROVE Knows(a, call[s])'
      OBVIOUS
    <3>1. PICK k : k = c
      OBVIOUS
    <3>2. call'[s] = k /\ Knows(a, k)'
      BY <1>4, <2>9, <2>12, <3>1
    <3> QED BY <3>2
  <2>14. ~ Inserting(a) /\ (Whole(a)' => Whole(a))
    BY <1>1, <2>2 DEF Inserting, Whole
  <2>15. Numbered(a)' /\ Latest(a)'
    BY <2>2, <2>8, <2>14, NumberedKept, LatestKept
  <2>16. Joined(a)'
    <3> SUFFICES ASSUME NEW i \in Of(a)', NEW j \in Of(a)', history'[j].version = history'[i].version + 1
                 PROVE  /\ Joins(history'[i].saved, history'[i].increment, history'[j].saved)
                        /\ Joins(history'[j].saved, history'[j].decrement, history'[i].saved)
      BY DEF Joined
    <3>1. i \in Of(a) /\ j \in Of(a) /\ history[j].version = history[i].version + 1
      BY <2>6, <2>7
    <3>2. history[j].version <= row[a].version
      BY <2>2, <3>1 DEF Numbered
    <3>3. history[i].version # row[a].version
      BY <2>3, <3>1, <3>2
    <3> QED BY <2>2, <2>6, <3>1, <3>3 DEF Joined
  <2>17. Columns(a)'
    <3> SUFFICES ASSUME causes'[a] = {} PROVE Columns(a)'
      BY DEF Columns
    <3>1. ASSUME NEW i \in OfVersion(a, row[a].version)'
          PROVE  history'[i].valid = row'[a].valid /\ \A k \in Setting : history'[i].set[k] = row'[a].set[k]
      <4>1. i \in OfVersion(a, row[a].version)
        BY <1>1, <2>8 DEF OfVersion, KeepsSaved
      <4>2. history[i].valid = row[a].valid /\ \A k \in Setting : history[i].set[k] = row[a].set[k]
        BY <1>1, <2>2, <4>1 DEF Columns
      <4> QED BY <1>1, <2>6, <4>1, <4>2 DEF OfVersion
    <3>2. \A s \in Running(a)' : Intends(row[a], call[s])'
      BY <1>4, <1>5, <2>9 DEF Intends
    <3> QED BY <3>1, <3>2 DEF Columns
  <2>18. Snapped(a)'
    <3>1. \A s \in Running(a)' : call'[s].step = "insert" => Inserting(a)
      BY <1>4, <1>5, <2>9
    <3>2. \A s \in Running(a) : call[s].step \notin {"insert", "snapshot"}
      BY <1>1, <2>2
    <3> QED BY <1>2, <2>2, <2>8, <2>14, <3>1, <3>2, SnappedKept DEF KeepsLatest
  <2> QED BY <2>10, <2>13, <2>15, <2>16, <2>17, <2>18 DEF Stored
<1> QED BY <1>2, <1>3, <1>6, TurnKeeps

(* InsertHistory keeps the invariant: the new history joins the latest one *)
(* on both sides.                                                          *)
LEMMA InsertHistoryStores ==
  ASSUME IInv, Types', NEW r \in Request, InsertHistory(r)
  PROVE  IInv'
<1>0. PICK a : a = call[r].id
  OBVIOUS
<1>00. PICK n : n = Len(history) + 1
  OBVIOUS
<1> DEFINE h == HistoryOf(call[r].id, call[r].row, call[r].decrement)
<1>1. /\ call[r] \in Saves \union Creates /\ call[r].step = "insert"
      /\ DOMAIN history' = DOMAIN history \union {n} /\ n \notin DOMAIN history
      /\ \A i \in DOMAIN history : history'[i] = history[i]
      /\ history'[n] = h
      /\ row' = row /\ snapshot' = snapshot /\ causes' = causes
  BY <1>00, InsertHistoryEffect, InsertHistoryCall DEF IInv
<1>2. Types /\ call[r] \in Calls /\ a \in Id
  BY <1>0, <1>1, RunningRow DEF IInv, Calls
<1>3. /\ h.announcement = a /\ h.version = call[r].row.version /\ h.set = call[r].row.set
      /\ h.valid = call[r].row.valid /\ h.decrement = call[r].decrement /\ h.saved = call[r].row.content
  BY <1>0 DEF HistoryOf
<1> HIDE DEF h
<1>4. PICK c \in {Idle, SnapshotCall(r)} : c \in Calls \union {Idle} /\ Turn(r, a, c)
  BY <1>0, <1>2, InsertHistoryTurn DEF IInv
<1>5. call'[r] = c /\ \A s \in Request \ {r} : call'[s] = call[s]
  BY <1>2, <1>4, RunningAfter
<1>6. /\ c # Idle => c.step = "snapshot" /\ c.op = "save" /\ c.row = call[r].row /\ call[r].op = "save"
      /\ c = Idle => (call[r].op = "save" => call[r].row.version % SNAPSHOT_INTERVAL # 0)
  <2>1. \/ call' = [call EXCEPT ![r] = Idle]
               /\ (call[r].op = "save" => call[r].row.version % SNAPSHOT_INTERVAL # 0)
        \/ /\ call' = [call EXCEPT ![r] = SnapshotCall(r)]
           /\ SnapshotCall(r) \in Saves
           /\ call[r].op = "save"
    BY <1>2, InsertHistoryCall, Zenon DEF SnapshotCall
  <2>2. CASE call' = [call EXCEPT ![r] = Idle]
               /\ (call[r].op = "save" => call[r].row.version % SNAPSHOT_INTERVAL # 0)
    <3>1. c = Idle
      BY <1>2, <1>5, <2>2, CallChanges, IdleEnds
    <3> QED BY <2>2, <3>1
  <2>3. CASE /\ call' = [call EXCEPT ![r] = SnapshotCall(r)]
             /\ SnapshotCall(r) \in Saves /\ call[r].op = "save"
    <3>1. c = SnapshotCall(r)
      <4>1. SnapshotCall(r) \in Calls \union {Idle}
        BY <2>3 DEF Calls
      <4> QED BY <1>2, <1>5, <2>3, <4>1, CallChanges
    <3>2. c.step = "snapshot" /\ c.op = "save" /\ c.row = call[r].row
      BY <1>1, <2>3, <3>1 DEF SnapshotCall, Saves, Creates
    <3> QED BY <2>3, <3>2 DEF Idle
  <2> QED BY <2>1, <2>2, <2>3
<1>7. ASSUME Sound(a)' PROVE Stored(a)'
  <2>1. Sound(a)
    BY <1>2, <1>4, <1>7, SoundBefore
  <2>2. /\ row[a] # None /\ row[a] \in Rows /\ r \in Running(a) /\ Stored(a) /\ Alone(a)
        /\ Knows(a, call[r]) /\ (\A s \in Running(a) : Knows(a, call[s]))
        /\ Numbered(a) /\ Latest(a) /\ Joined(a) /\ Columns(a) /\ Snapped(a)
        /\ call[r].op = "save" \/ causes[a] = {} => Running(a) = {r}
    BY <1>0, <1>2, <2>1, Underway
  <2>3. /\ row[a].version \in Nat \ {0} /\ SNAPSHOT_INTERVAL \in Nat \ {0}
        /\ \A i \in Of(a) : i \in DOMAIN history /\ history[i].version \in Nat \ {0}
        /\ \A s \in SnapshotsOf(a) : s.version \in Nat \ {0}
    BY <1>2, <2>2, VersionsInRange DEF Of
  <2>4. /\ h.version = row[a].version /\ h.saved = row[a].content
        /\ \A i \in Of(a) :
             /\ history[i].version < row[a].version
             /\ history[i].version + 1 = row[a].version =>
                 /\ Joins(history[i].saved, history[i].increment, h.saved)
                 /\ Joins(h.saved, h.decrement, history[i].saved)
        /\ call[r].op = "create" => row[a].version = 1
        /\ call[r].op = "save" \/ causes[a] = {} => call[r].row = row[a]
    BY <1>1, <1>3, <2>2 DEF Knows
  <2>5. /\ Of(a)' = Of(a) \union {n} /\ n \notin Of(a)
        /\ \A i \in Of(a) : history'[i] = history[i]
        /\ history'[n] = h
    BY <1>1, <1>3 DEF Of
  <2>6. \A i \in OfVersion(a, row[a].version)' : i = n
    BY <1>1, <2>3, <2>4, <2>5 DEF OfVersion
  <2>7. \A v : v # row[a].version => OfVersion(a, v)' = OfVersion(a, v)
    BY <2>4, <2>5 DEF OfVersion
  <2>8. \A s \in SnapshotsOf(a) : s.version < row[a].version
    BY <1>1, <2>2 DEF Snapped
  <2>9. Running(a)' = (Running(a) \ {r}) \union (IF c = Idle THEN {} ELSE {r}) /\ Running(a) \subseteq Request
    BY <1>2, <1>4, RunningAfter
  <2>10. \A s \in Running(a) \ {r} : call[r].op = "create" /\ call[s].op # "save" /\ call[s].op # "create"
    <3>1. call[r].op \in {"save", "create"}
      BY <1>1 DEF Saves, Creates
    <3> QED BY <2>2, <3>1 DEF Alone
  <2>11. \A s \in Running(a) \ {r} : call[s].step # "insert" /\ call[s].step # "snapshot" /\ call[s].step # "increment"
    BY <1>2, <2>10, RunningCalls, CallKinds DEF Running, Saves, Creates, Increments
  <2>12. Alone(a)'
    <3>1. \A s \in Running(a)' : s \in Running(a) /\ call'[s].op = call[s].op
      BY <1>5, <1>6, <2>2, <2>9
    <3>2. causes'[a] = {} => causes[a] = {}
      BY <1>1
    <3> QED BY <2>2, <3>1, <3>2, AloneKept
  <2>13. ASSUME NEW s \in Running(a)' PROVE Knows(a, call[s])'
    <3>1. CASE s = r
      <4>1. c # Idle /\ c.step = "snapshot" /\ c.op = "save" /\ c.row = row'[a] /\ call'[s] = c
        BY <1>1, <1>5, <1>6, <2>4, <2>9, <2>13, <3>1
      <4> QED BY <4>1 DEF Knows
    <3>2. CASE s # r
      <4>1. /\ s \in Running(a) \ {r} /\ call'[s] = call[s] /\ Knows(a, call[s])
            /\ call[s].step # "insert" /\ call[s].step # "snapshot" /\ call[s].step # "increment"
            /\ call[s].op # "save" /\ call[s].op # "create" /\ call[r].op = "create"
        BY <1>5, <2>2, <2>9, <2>10, <2>11, <2>13, <3>2
      <4>2. \A i \in Of(a) : FALSE
        BY <2>3, <2>4, <4>1
      <4>3. call[s].step # "last"
        BY <4>1, <4>2 DEF Knows, OfVersion
      <4> QED BY <1>1, <4>1, <4>3 DEF Knows
    <3> QED BY <3>1, <3>2
  <2>14. Numbered(a)'
    <3>1. \A i, j \in Of(a)' : history'[i].version = history'[j].version => i = j
      BY <2>2, <2>3, <2>4, <2>5 DEF Numbered
    <3>2. \A i \in Of(a)' : history'[i].version <= row'[a].version
      BY <1>1, <2>3, <2>4, <2>5
    <3>3. ASSUME Whole(a)', NEW v \in 1..row'[a].version
          PROVE  OfVersion(a, v)' # {}
      <4>1. CASE v = row[a].version
        BY <2>4, <2>5, <4>1 DEF OfVersion
      <4>2. CASE v # row[a].version
        <5>1. OfVersion(a, v) # {}
          BY <1>1, <2>2, <3>3, <4>2 DEF Numbered, Whole
        <5> QED BY <2>7, <4>2, <5>1
      <4> QED BY <4>1, <4>2
    <3> QED BY <3>1, <3>2, <3>3 DEF Numbered
  <2>15. Latest(a)'
    BY <1>1, <2>4, <2>5, <2>6 DEF Latest
  <2>16. Joined(a)'
    <3> SUFFICES ASSUME NEW i \in Of(a)', NEW j \in Of(a)', history'[j].version = history'[i].version + 1
                 PROVE  /\ Joins(history'[i].saved, history'[i].increment, history'[j].saved)
                        /\ Joins(history'[j].saved, history'[j].decrement, history'[i].saved)
      BY DEF Joined
    <3>1. CASE i \in Of(a) /\ j \in Of(a)
      BY <2>2, <2>5, <3>1 DEF Joined
    <3>2. CASE i \in Of(a) /\ j = n
      BY <2>4, <2>5, <3>2
    <3>3. CASE i = n
      <4>1. history'[j].version <= row[a].version /\ history'[i].version = row[a].version
        BY <2>3, <2>4, <2>5, <3>3
      <4> QED BY <2>3, <4>1
    <3> QED BY <2>5, <3>1, <3>2, <3>3
  <2>17. Columns(a)'
    <3> SUFFICES ASSUME causes'[a] = {} PROVE Columns(a)'
      BY DEF Columns
    <3>1. Running(a) = {r} /\ call[r].row = row[a]
      BY <1>1, <2>2, <2>4
    <3>2. \A i \in OfVersion(a, row[a].version)' : history'[i].valid = row'[a].valid /\ history'[i].set = row'[a].set
      BY <1>1, <1>3, <2>5, <2>6, <3>1
    <3>3. \A s \in Running(a)' : Intends(row[a], call[s])'
      BY <1>5, <1>6, <2>9, <3>1 DEF Intends
    <3> QED BY <3>2, <3>3 DEF Columns
  <2>18. Snapped(a)'
    <3>1. SnapshotsOf(a)' = SnapshotsOf(a)
      BY <1>1 DEF SnapshotsOf
    <3>2. ASSUME NEW s \in SnapshotsOf(a)'
          PROVE  /\ s.version <= row'[a].version /\ s.version < row'[a].version
                 /\ \A i \in OfVersion(a, s.version)' : s.content = history'[i].saved
      <4>1. s \in SnapshotsOf(a) /\ s.version < row[a].version /\ s.version # row[a].version
        BY <2>3, <2>8, <3>1
      <4>2. \A i \in OfVersion(a, s.version) : s.content = history[i].saved /\ i \in Of(a)
        BY <2>2, <4>1 DEF Snapped, OfVersion
      <4>3. \A i \in OfVersion(a, s.version)' : i \in OfVersion(a, s.version)
        BY <2>7, <4>1
      <4> QED BY <1>1, <2>3, <2>5, <4>1, <4>2, <4>3
    <3>3. ASSUME Whole(a)', NEW v \in 2..row'[a].version, v % SNAPSHOT_INTERVAL = 0
          PROVE  \/ Taken(a, v)'
                 \/ /\ v = row'[a].version
                    /\ \E q \in Running(a)' : call'[q].op = "save" /\ call'[q].step \in {"insert", "snapshot"}
      <4>1. CASE Taken(a, v)
        BY <3>1, <4>1 DEF Taken
      <4>2. CASE ~ Taken(a, v)
        <5>1. /\ v = row[a].version
              /\ \E q \in Running(a) : call[q].op = "save" /\ call[q].step \in {"insert", "snapshot"}
          BY <1>1, <2>2, <3>3, <4>2 DEF Snapped, Whole
        <5>2. call[r].op = "save" /\ call[r].row.version = v
          BY <1>3, <2>4, <2>10, <5>1
        <5>3. c # Idle /\ c.step = "snapshot" /\ c.op = "save"
          BY <1>6, <3>3, <5>2
        <5> QED BY <1>1, <1>5, <2>9, <5>1, <5>3
      <4> QED BY <4>1, <4>2
    <3> QED BY <3>2, <3>3 DEF Snapped
  <2> QED BY <2>12, <2>13, <2>14, <2>15, <2>16, <2>17, <2>18 DEF Stored
<1> QED BY <1>2, <1>4, <1>7, TurnKeeps

-----------------------------------------------------------------------------
(*****************************************************************************)
(* The inductive invariant and the properties.                             *)
(*****************************************************************************)
(* The invariant holds at first.                                           *)
LEMMA InvInit == Init => IInv
<1> SUFFICES ASSUME Init PROVE IInv
  OBVIOUS
<1>1. Types
  BY TypesInit
<1>2. \A a \in Id : row[a] = None
  BY DEF Init
<1>3. \A a \in Id : Running(a) = {} /\ Of(a) = {} /\ SnapshotsOf(a) = {}
  <2> TAKE a \in Id
  <2>1. history = <<>> /\ snapshot = {} /\ \A r \in Request : call[r] = Idle
    BY DEF Init
  <2>2. DOMAIN history = {}
    BY <2>1
  <2> QED BY <2>1, <2>2 DEF Running, Of, SnapshotsOf, Idle, Busy
<1>4. Begun
  BY <1>3 DEF Begun
<1>5. Owned
  BY DEF Owned, Init, Idle
<1> QED BY <1>1, <1>2, <1>4, <1>5 DEF IInv

(* A step that changes nothing keeps the invariant.                        *)
LEMMA InvStays == IInv /\ UNCHANGED vars => IInv'
<1> SUFFICES ASSUME IInv, UNCHANGED vars PROVE IInv'
  OBVIOUS
<1>1. row' = row /\ history' = history /\ snapshot' = snapshot /\ call' = call /\ causes' = causes
  BY DEF vars
<1>2. Types /\ Types'
  BY TypesNext DEF IInv
<1>3. \A a : KeepsEdits(a) /\ Of(a)' = Of(a)
  BY <1>1, HistoriesStay
<1>4. \A a : Running(a)' = Running(a) /\ SnapshotsOf(a)' = SnapshotsOf(a)
  BY <1>1 DEF Running, SnapshotsOf
<1>5. \A a \in Id : Untouched(a)
  BY <1>1, <1>3, <1>4 DEF Untouched
<1>6. \A a \in Id : row'[a] # None /\ Sound(a)' => Stored(a)'
  BY <1>1, <1>2, <1>5, UntouchedStays DEF IInv, Sound
<1>7. Begun'
  BY <1>1, <1>3, <1>4 DEF IInv, Begun
<1>8. Owned'
  <2>1. ASSUME NEW r \in Request, call[r].step = "last"
        PROVE  call[r].at \in Of(call[r].id) /\ call[r].history.announcement = call[r].id
    BY <2>1 DEF IInv, Owned
  <2> QED BY <1>1, <2>1 DEF Owned, Of
<1> QED BY <1>2, <1>6, <1>7, <1>8 DEF IInv

(* Every step keeps the invariant.                                         *)
LEMMA InvNext == IInv /\ [Next]_vars => IInv'
<1> SUFFICES ASSUME IInv, [Next]_vars PROVE IInv'
  OBVIOUS
<1>0. Types /\ Types'
  BY TypesNext DEF IInv
<1>1. CASE UNCHANGED vars
  BY <1>1, InvStays
<1>2. CASE Next
  <2>1. PICK r \in Request :
          \/ \E a \in Id :
               \/ \E c \in Content, s \in [Setting -> Level] : Create(r, a, c, s)
               \/ \E c \in Content : Save(r, a, c)
               \/ \E k \in Setting, v \in Level : Modify(r, a, k, v)
               \/ DeleteAnnouncement(r, a)
          \/ SetIncrement(r) \/ UpdateRow(r) \/ InsertHistory(r)
          \/ generateSnapshot(r) \/ SetAll(r) \/ FindLast(r) \/ UpdateLast(r)
          \/ CallThrows(r)
    BY <1>2 DEF Next
  <2>2. ASSUME NEW a \in Id, NEW c \in Content, NEW s \in [Setting -> Level], Create(r, a, c, s)
        PROVE  IInv'
    BY <1>0, <2>2, CreateStores
  <2>3. ASSUME NEW a \in Id, NEW c \in Content, Save(r, a, c)
        PROVE  IInv'
    BY <1>0, <2>3, SaveStores
  <2>4. ASSUME NEW a \in Id, NEW k \in Setting, NEW v \in Level, Modify(r, a, k, v)
        PROVE  IInv'
    BY <1>0, <2>4, ModifyStores
  <2>5. ASSUME NEW a \in Id, DeleteAnnouncement(r, a) PROVE IInv'
    BY <1>0, <2>5, DeleteStores
  <2>6. CASE SetIncrement(r)
    BY <1>0, <2>6, SetIncrementStores
  <2>7. CASE UpdateRow(r)
    BY <1>0, <2>7, UpdateSaveStores, UpdateColumnsStores
  <2>8. CASE InsertHistory(r)
    BY <1>0, <2>8, InsertHistoryStores
  <2>9. CASE generateSnapshot(r)
    BY <1>0, <2>9, SnapshotStores
  <2>10. CASE SetAll(r)
    BY <1>0, <2>10, SetAllStores
  <2>11. CASE FindLast(r)
    BY <1>0, <2>11, FindLastStores
  <2>12. CASE UpdateLast(r)
    BY <1>0, <2>12, UpdateLastStores
  <2>13. CASE CallThrows(r)
    BY <1>0, <2>13, ThrowsStores
  <2> QED BY <2>1, <2>2, <2>3, <2>4, <2>5, <2>6, <2>7, <2>8, <2>9, <2>10, <2>11, <2>12, <2>13
<1> QED BY <1>1, <1>2

(* The inductive invariant holds in every state of AnnouncementService's   *)
(* calls.                                                                  *)
THEOREM Invariant == Spec => []IInv
<1> QED BY InvInit, InvNext, PTL DEF Spec

(* Rows, histories, snapshots and calls have their types in every state.   *)
THEOREM TypeCorrect == Spec => []TypeOK
<1>1. IInv => TypeOK
  <2> SUFFICES ASSUME Types PROVE TypeOK
    BY DEF IInv
  <2>1. \A a \in Id : row[a] = None \/ row[a] \in Rows
    BY DEF Types
  <2>2. \A i \in DOMAIN history :
         /\ history[i].announcement \in Id
         /\ history[i].version \in 1..MaxVersion
         /\ history[i].set \in [Setting -> Level]
    BY HistoryTyped DEF Histories, Versions
  <2>3. \A s \in snapshot : s.content \in Content /\ s.version % SNAPSHOT_INTERVAL = 0
    BY DEF Types, Snapshots
  <2>4. \A r \in Request : call[r] = Idle \/ call[r].step \in Busy
    BY DEF Types, Calls, Increments, Saves, Creates, Modifies, Deletes, Lasts, Busy
  <2> QED BY <2>1, <2>2, <2>3, <2>4 DEF TypeOK, Types
<1> QED BY <1>1, Invariant, PTL

(* What the invariant says of an announcement without an edit.             *)
LEMMA StoredHere ==
  ASSUME IInv, NEW a \in Id, Sound(a)
  PROVE  /\ row[a] = None => Of(a) = {}
         /\ row[a] # None => /\ Numbered(a) /\ Latest(a) /\ Joined(a) /\ Columns(a) /\ Snapped(a)
                             /\ row[a] \in Rows
BY RowIsThere DEF IInv, Begun, Stored

(* VersionsComplete: without an edit an announcement has at most one       *)
(* history of each version, and exactly one once its calls have ended, if  *)
(* none of them stopped midway.                                            *)
THEOREM VersionsAreComplete == Spec => []VersionsComplete
<1>1. IInv => VersionsComplete
  <2> SUFFICES ASSUME IInv, NEW a \in Id, Sound(a)
               PROVE  /\ \A i, j \in Of(a) : history[i].version = history[j].version => i = j
                      /\ row[a] # None /\ Quiet(a) /\ Whole(a) =>
                           {history[i].version : i \in Of(a)} = 1..row[a].version
    BY DEF VersionsComplete
  <2>1. \A i, j \in Of(a) : history[i].version = history[j].version => i = j
    BY StoredHere DEF Numbered
  <2>2. ASSUME row[a] # None, Quiet(a), Whole(a)
        PROVE  {history[i].version : i \in Of(a)} = 1..row[a].version
    <3>1. Numbered(a) /\ ~ Inserting(a) /\ Types
      BY <2>2, StoredHere DEF Quiet, Inserting, IInv
    <3>2. row[a].version \in Nat \ {0} /\ \A i \in Of(a) : history[i].version \in Nat \ {0}
      BY <2>2, <3>1, VersionsInRange
    <3>3. \A i \in Of(a) : history[i].version \in 1..row[a].version
      BY <3>1, <3>2 DEF Numbered
    <3>4. \A v \in 1..row[a].version : \E i \in Of(a) : history[i].version = v
      BY <2>2, <3>1 DEF Numbered, OfVersion
    <3> QED BY <3>3, <3>4
  <2> QED BY <2>1, <2>2
<1> QED BY <1>1, Invariant, PTL

(* DeltasJoinVersions: the stored increments lead from each version to the *)
(* keys and texts of the next, and the decrements back, whatever papers    *)
(* were saved and wherever a save stopped.                                 *)
THEOREM DeltasJoin == Spec => []DeltasJoinVersions
<1>1. IInv => DeltasJoinVersions
  <2> SUFFICES ASSUME IInv, NEW a \in Id, Sound(a),
                      NEW i \in Of(a), NEW j \in Of(a), history[j].version = history[i].version + 1
               PROVE  /\ Fits(history[i].saved, history[i].increment)
                      /\ Texts(Apply(history[i].saved, history[i].increment)) = Texts(history[j].saved)
                      /\ Fits(history[j].saved, history[j].decrement)
                      /\ Texts(Apply(history[j].saved, history[j].decrement)) = Texts(history[i].saved)
    BY DEF DeltasJoinVersions
  <2>1. Joined(a)
    BY StoredHere
  <2> QED BY <2>1 DEF Joined, Joins
<1> QED BY <1>1, Invariant, PTL

(* RowIsLatest: when no call runs the row is what its latest history says. *)
THEOREM RowIsTheLatest == Spec => []RowIsLatest
<1>1. IInv => RowIsLatest
  <2> SUFFICES ASSUME IInv, NEW a \in Id, row[a] # None, Quiet(a), Sound(a),
                      NEW i \in OfVersion(a, row[a].version)
               PROVE  /\ history[i].saved = row[a].content
                      /\ \/ causes[a] # {}
                         \/ history[i].valid = row[a].valid /\ history[i].set = row[a].set
    BY DEF RowIsLatest
  <2>1. Latest(a) /\ Columns(a) /\ row[a] \in Rows /\ Running(a) = {} /\ Types
    BY StoredHere DEF Quiet, IInv
  <2>2. history[i].saved = row[a].content
    BY <2>1 DEF Latest
  <2>3. history[i] \in Histories
    BY <2>1, HistoryTyped DEF OfVersion, Of
  <2>4. ASSUME causes[a] = {}
        PROVE  history[i].valid = row[a].valid /\ history[i].set = row[a].set
    <3>1. history[i].valid = row[a].valid /\ \A k \in Setting : history[i].set[k] = row[a].set[k]
      BY <2>1, <2>4 DEF Columns
    <3> QED BY <2>1, <2>3, <3>1 DEF Histories, Rows
  <2> QED BY <2>2, <2>4
<1> QED BY <1>1, Invariant, PTL

(* SnapshotsComplete: a snapshot is what was saved as its version, and none *)
(* that was due is missing.                                                *)
THEOREM SnapshotsAreComplete == Spec => []SnapshotsComplete
<1>1. IInv => SnapshotsComplete
  <2> SUFFICES ASSUME IInv, NEW a \in Id, Sound(a)
               PROVE  /\ \A s \in SnapshotsOf(a) : \A i \in OfVersion(a, s.version) :
                           s.content = history[i].saved
                      /\ row[a] # None /\ Quiet(a) /\ Whole(a) =>
                           \A v \in 2..row[a].version : v % SNAPSHOT_INTERVAL = 0 => Taken(a, v)
    BY DEF SnapshotsComplete
  <2>1. CASE row[a] = None
    BY <2>1 DEF IInv, Begun
  <2>2. CASE row[a] # None
    <3>1. Snapped(a)
      BY <2>2, StoredHere
    <3> QED BY <3>1 DEF Snapped, Quiet
  <2> QED BY <2>1, <2>2
<1> QED BY <1>1, Invariant, PTL

-----------------------------------------------------------------------------
(*****************************************************************************)
(* Walking down the decrements.                                            *)
(*****************************************************************************)
Carries(e, B) == Adds(e, B) /\ \A i \in DOMAIN e.replace : e.replace[i] \in B

(* The edits that are stored insert and replace with blocks of papers.     *)
LEMMA EditsOfBlocks ==
  ASSUME NEW e \in Edit
  PROVE  Carries(e, Blocks)
<1>0. <<>> \in Seq(Blocks) /\ DOMAIN <<>> = {}
  OBVIOUS
<1>1. Carries(NoEdits, Blocks)
  <2>1. NoEdits.insert = <<>> /\ NoEdits.replace = <<>>
    BY DEF NoEdits
  <2>2. \A i : Added(NoEdits, i) = <<>>
    BY <1>0, <2>1 DEF Added
  <2>3. Adds(NoEdits, Blocks)
    BY <1>0, <2>2, Zenon DEF Adds
  <2> QED BY <1>0, <2>1, <2>3 DEF Carries
<1>2. ASSUME NEW p \in Papers, NEW h \in Papers, e = Compare(p, h)
      PROVE  Carries(e, Blocks)
  <2>1. p \in Seq(Blocks) /\ h \in Seq(Blocks)
    BY <1>0, ConstantsAssumption DEF Papers, Blocks
  <2>2. CASE p = <<>>
    <3> DEFINE w == With(<<>>, 0, h)
    <3>1. e = [NoEdits EXCEPT !.insert = w]
      BY <1>2, <2>2, Zenon DEF Compare
    <3>2. DOMAIN w = {0} /\ w[0] = h
      BY DEF With
    <3> HIDE DEF w
    <3>3. e.insert = w /\ e.replace = <<>>
      BY <3>1 DEF NoEdits
    <3>4. \A i : Added(e, i) = h \/ Added(e, i) = <<>>
      BY <3>2, <3>3 DEF Added
    <3>5. Adds(e, Blocks)
      BY <1>0, <2>1, <3>4 DEF Adds
    <3> QED BY <1>0, <3>3, <3>5 DEF Carries
  <2>3. CASE p # <<>> /\ h = <<>>
    <3> DEFINE D == DOMAIN p
    <3>1. e = [NoEdits EXCEPT !.delete = D]
      BY <1>2, <2>3, Zenon DEF Compare
    <3> HIDE DEF D
    <3>2. e.insert = <<>> /\ e.replace = <<>>
      BY <3>1 DEF NoEdits
    <3>3. \A i : Added(e, i) = <<>>
      BY <1>0, <3>2 DEF Added
    <3>4. Adds(e, Blocks)
      BY <1>0, <3>3, Zenon DEF Adds
    <3> QED BY <1>0, <3>2, <3>4 DEF Carries
  <2>4. CASE p # <<>> /\ h # <<>>
    <3>1. e = Walk(p, h)
      BY <1>2, <2>4, Zenon DEF Compare
    <3>2. e \in Edits(Blocks, Len(p)) /\ Len(p) \in Nat
      BY <2>1, <3>1, WalkTurns, LenProperties
    <3>3. e.replace \in Some(1..Len(p), Blocks)
      BY <3>2 DEF Edits
    <3>4. \A i \in DOMAIN e.replace : e.replace[i] \in Blocks
      BY <3>3, SomeFunction
    <3>5. Adds(e, Blocks)
      BY <3>2, EditsAdd
    <3> QED BY <3>4, <3>5 DEF Carries
  <2> QED BY <2>2, <2>3, <2>4
<1> QED BY <1>1, <1>2 DEF Edit

(* A paper with replaced blocks is a paper, and as the texts go it does    *)
(* not matter which of the same texts was replaced in.                     *)
LEMMA ReplacedSame ==
  ASSUME NEW B, NEW p \in Seq(B), NEW h \in Seq(B), NEW e, Carries(e, B), Texts(p) = Texts(h)
  PROVE  /\ Replaced(p, e.replace) \in Seq(B)
         /\ Texts(Replaced(p, e.replace)) = Texts(Replaced(h, e.replace))
<1> DEFINE g == e.replace
<1>1. /\ Len(p) = Len(h) /\ Len(p) \in Nat /\ DOMAIN p = 1..Len(p) /\ DOMAIN h = 1..Len(p)
      /\ \A i \in 1..Len(p) : p[i].text = h[i].text /\ p[i] \in B /\ h[i] \in B
  BY SameTexts, LenProperties, ElementOfSeq
<1>2. \A i \in DOMAIN g : g[i] \in B
  BY DEF Carries
<1> HIDE DEF g
<1>3. p = <<>> <=> h = <<>>
  BY <1>1, EmptySeq
<1>4. CASE p = <<>> /\ 1 \in DOMAIN g
  <2>1. Replaced(p, g) = <<g[1]>> /\ Replaced(h, g) = <<g[1]>>
    BY <1>3, <1>4, Zenon DEF Replaced
  <2>2. <<g[1]>> \in Seq(B)
    BY <1>2, <1>4
  <2> QED BY <2>1, <2>2 DEF g
<1>5. CASE ~ (p = <<>> /\ 1 \in DOMAIN g)
  <2> DEFINE q == [i \in 1..Len(p) |-> IF i \in DOMAIN g THEN g[i] ELSE p[i]]
             r == [i \in 1..Len(p) |-> IF i \in DOMAIN g THEN g[i] ELSE h[i]]
  <2>1. Replaced(p, g) = q /\ Replaced(h, g) = r
    BY <1>1, <1>3, <1>5, Zenon DEF Replaced
  <2>2. q \in [1..Len(p) -> B] /\ r \in [1..Len(p) -> B]
    BY <1>1, <1>2
  <2>3. q \in Seq(B) /\ Len(q) = Len(p) /\ r \in Seq(B) /\ Len(r) = Len(p)
    BY <1>1, <2>2
  <2>4. \A i \in 1..Len(p) : q[i].text = r[i].text
    BY <1>1
  <2> HIDE DEF q, r
  <2>5. Texts(q) = Texts(r)
    BY <2>3, <2>4, SameTexts
  <2> QED BY <2>1, <2>3, <2>5 DEF g
<1> QED BY <1>4, <1>5

(* caulatePaper makes a paper of a paper, and papers of the same texts of  *)
(* papers of the same texts: what it is given in another style it can edit *)
(* as well.                                                                *)
LEMMA ApplySame ==
  ASSUME NEW B, NEW p \in Seq(B), NEW h \in Seq(B), NEW e, Carries(e, B), Texts(p) = Texts(h)
  PROVE  Apply(p, e) \in Seq(B) /\ Texts(Apply(p, e)) = Texts(Apply(h, e))
<1> DEFINE q == Replaced(p, e.replace)
           r == Replaced(h, e.replace)
           C == 0..Len(q)
           size == [i \in C |-> i]
           Good(i) == UpTo(q, e)[i] \in Seq(B) /\ UpTo(r, e)[i] \in Seq(B)
                        /\ Texts(UpTo(q, e)[i]) = Texts(UpTo(r, e)[i])
           S == {i \in C : Good(i)}
<1>1. q \in Seq(B) /\ r \in Seq(B) /\ Texts(q) = Texts(r)
  BY ReplacedSame
<1>2. Adds(e, B) /\ \A i \in 0..Len(q) : Added(e, i) \in Seq(B)
  BY DEF Carries, Adds
<1>3. /\ Len(q) \in Nat /\ Len(r) = Len(q)
      /\ \A i \in 1..Len(q) : q[i].text = r[i].text /\ q[i] \in B /\ r[i] \in B
  <2> HIDE DEF q, r
  <2> QED BY <1>1, SameTexts, LenProperties, ElementOfSeq
<1> HIDE DEF q, r
<1>4. size \in [C -> Nat] /\ \A i \in C : size[i] = i
  BY <1>3
<1>5. ASSUME NEW i \in C, \A k \in C : size[k] < size[i] => k \in S
      PROVE  i \in S
  <2>1. CASE i = 0
    <3>1. UpTo(q, e)[0] = Added(e, 0) /\ UpTo(r, e)[0] = Added(e, 0) /\ Added(e, 0) \in Seq(B)
      BY <1>1, <1>2, <1>3, UpToDef
    <3> QED BY <2>1, <3>1
  <2>2. CASE i # 0
    <3>1. i - 1 \in C /\ i - 1 < i /\ i \in 1..Len(q) /\ i \in 1..Len(r)
      BY <1>3, <2>2
    <3>2. Good(i-1)
      <4>1. i - 1 \in S
        <5> HIDE DEF C, size, S
        <5> QED BY <1>4, <1>5, <3>1
      <4> QED BY <4>1
    <3> DEFINE s == UpTo(q, e)[i-1]
               t == UpTo(r, e)[i-1]
               a == Added(e, i)
               k == Kept(q, e, i)
               l == Kept(r, e, i)
    <3>3. s \in Seq(B) /\ t \in Seq(B) /\ Texts(s) = Texts(t) /\ a \in Seq(B)
      BY <1>2, <3>1, <3>2
    <3>4. k \in Seq(B) /\ l \in Seq(B) /\ Texts(k) = Texts(l)
      <4>1. CASE i \in e.delete
        BY <4>1 DEF Kept
      <4>2. CASE i \notin e.delete
        <5> DEFINE b == q[i]
                   c == r[i]
        <5>1. k = <<b>> /\ l = <<c>>
          BY <4>2 DEF Kept
        <5>2. b \in B /\ c \in B /\ b.text = c.text
          BY <1>3, <3>1
        <5> HIDE DEF b, c, k, l
        <5>3. Len(<<b>>) = 1 /\ Len(<<c>>) = 1 /\ <<b>>[1] = b /\ <<c>>[1] = c
              /\ <<b>> \in Seq(B) /\ <<c>> \in Seq(B) /\ \A j \in 1..1 : j = 1
          BY <5>2
        <5>4. \A j \in 1..Len(<<b>>) : <<b>>[j].text = <<c>>[j].text
          BY <5>2, <5>3
        <5>5. Texts(<<b>>) = Texts(<<c>>)
          BY <5>3, <5>4, SameTexts
        <5> QED BY <5>1, <5>3, <5>5
      <4> QED BY <4>1, <4>2
    <3>5. UpTo(q, e)[i] = (s \o k) \o a /\ UpTo(r, e)[i] = (t \o l) \o a
      <4>1. UpTo(q, e)[i] = Extend(s, q, e, i)
        BY <1>1, <1>2, <3>1, UpToStep
      <4>2. UpTo(r, e)[i] = Extend(t, r, e, i)
        BY <1>1, <1>2, <3>1, UpToStep
      <4> QED BY <4>1, <4>2, Zenon DEF Extend
    <3> HIDE DEF s, t, a, k, l
    <3>6. s \o k \in Seq(B) /\ t \o l \in Seq(B) /\ Texts(s \o k) = Texts(t \o l)
      BY <3>3, <3>4, TextsJoin, ConcatProperties
    <3>7. (s \o k) \o a \in Seq(B) /\ (t \o l) \o a \in Seq(B)
          /\ Texts((s \o k) \o a) = Texts((t \o l) \o a)
      <4> DEFINE u == s \o k
                 w == t \o l
      <4>1. u \in Seq(B) /\ w \in Seq(B) /\ Texts(u) = Texts(w)
        BY <3>6
      <4> HIDE DEF u, w
      <4>2. u \o a \in Seq(B) /\ w \o a \in Seq(B) /\ Texts(u \o a) = Texts(w \o a)
        BY <3>3, <4>1, TextsJoin, ConcatProperties
      <4> QED BY <4>2 DEF u, w
    <3>8. Good(i)
      BY <3>5, <3>7, Zenon
    <3> HIDE DEF Good
    <3> QED BY <3>8
  <2> QED BY <2>1, <2>2
<1>6. C \subseteq S
  <2> HIDE DEF C, S, size
  <2> QED BY <1>4, <1>5, SizeInduction
<1>7. Good(Len(q))
  BY <1>3, <1>6
<1>8. Apply(p, e) = UpTo(q, e)[Len(q)] /\ Apply(h, e) = UpTo(r, e)[Len(r)]
  BY DEF Apply, q, r
<1> QED BY <1>3, <1>7, <1>8

(* The edits E lead from what S has of a version to the texts it has of    *)
(* the one below.                                                          *)
LeadsDown(v, t, E, S, B) ==
  \A k \in v..t : /\ S[k] \in Seq(B) /\ Carries(E[k], B)
                  /\ k # t => Texts(Apply(S[k+1], E[k+1])) = Texts(S[k])

WalkedDown(f, v, t, E, c) ==
  [k \in v..t |-> IF k = t THEN c ELSE Apply(f[k+1], E[k+1])]

(* The walk down from the content of version t comes to the texts of each  *)
(* version.                                                                *)
LEMMA WalkDown ==
  ASSUME NEW v \in Nat, NEW t \in Nat, v <= t, NEW B, NEW E, NEW S, LeadsDown(v, t, E, S, B),
         NEW f, f = CHOOSE d : d = WalkedDown(d, v, t, E, S[t])
  PROVE  Texts(f[v]) = Texts(S[v])
<1> DEFINE C == v..t
           V == Seq(B)
           size == [k \in C |-> t - k]
           F == [d \in [C -> V] |-> WalkedDown(d, v, t, E, S[t])]
           Good == {k \in C : f[k] \in V /\ Texts(f[k]) = Texts(S[k])}
<1>1. /\ size \in [C -> Nat] /\ (\A k \in C : size[k] = t - k) /\ (\A k \in C : size[k] <= t)
      /\ C \subseteq Nat /\ v \in C /\ t \in C
      /\ \A k \in C : k # t => k + 1 \in C /\ t - (k + 1) < t - k
  OBVIOUS
<1>2. \A k \in C : S[k] \in V /\ Carries(E[k], B)
  BY DEF LeadsDown
<1>3. F \in [[C -> V] -> [C -> V]]
  <2>1. ASSUME NEW d \in [C -> V], NEW k \in C
        PROVE  (IF k = t THEN S[t] ELSE Apply(d[k+1], E[k+1])) \in V
    <3>1. CASE k = t
      BY <1>1, <1>2, <3>1
    <3>2. CASE k # t
      <4>1. k + 1 \in C /\ d[k+1] \in V /\ Carries(E[k+1], B)
        BY <1>1, <1>2, <3>2
      <4>2. Apply(d[k+1], E[k+1]) \in V
        BY <4>1, ApplySame
      <4> QED BY <3>2, <4>2
    <3> QED BY <3>1, <3>2
  <2>2. \A d \in [C -> V] : WalkedDown(d, v, t, E, S[t]) \in [C -> V]
    BY <2>1 DEF WalkedDown
  <2> HIDE DEF C, V
  <2> QED BY <2>2
<1>4. ASSUME NEW d \in [C -> V], NEW g \in [C -> V], NEW k \in C,
             \A j \in C : size[j] < size[k] => d[j] = g[j]
      PROVE  F[d][k] = F[g][k]
  <2>1. k # t => d[k+1] = g[k+1]
    <3> HIDE DEF C, size
    <3> QED BY <1>1, <1>4
  <2>2. WalkedDown(d, v, t, E, S[t])[k] = WalkedDown(g, v, t, E, S[t])[k]
    BY <2>1 DEF WalkedDown
  <2> HIDE DEF C, V
  <2> QED BY <2>2
<1>5. \E d : d = WalkedDown(d, v, t, E, S[t])
  <2>1. \E top \in Nat : \A k \in C : size[k] <= top
    BY <1>1
  <2>2. V # {}
    BY <1>1, <1>2
  <2> HIDE DEF F, C, size, V
  <2>3. Descends(F, C, V, size)
    BY <1>1, <1>3, <1>4, <2>1, <2>2 DEF Descends
  <2>4. PICK d \in [C -> V] : d = F[d]
    BY <2>3, Recursion
  <2>5. d = WalkedDown(d, v, t, E, S[t])
    BY <2>4 DEF F
  <2> QED BY <2>5
<1>6. f = WalkedDown(f, v, t, E, S[t])
  BY <1>5, Zenon
<1>7. \A k \in C : f[k] = IF k = t THEN S[t] ELSE Apply(f[k+1], E[k+1])
  <2>1. \A k \in C : WalkedDown(f, v, t, E, S[t])[k] = IF k = t THEN S[t] ELSE Apply(f[k+1], E[k+1])
    BY DEF WalkedDown
  <2> QED BY <1>6, <2>1
<1>8. ASSUME NEW k \in C, \A j \in C : size[j] < size[k] => j \in Good
      PROVE  k \in Good
  <2>1. CASE k = t
    <3>1. f[k] = S[k]
      BY <1>7, <2>1
    <3> QED BY <1>2, <3>1
  <2>2. CASE k # t
    <3>1. k + 1 \in C
      BY <1>1, <2>2
    <3>2. f[k+1] \in V /\ Texts(f[k+1]) = Texts(S[k+1])
      <4>1. k + 1 \in Good
        <5> HIDE DEF C, size, Good
        <5> QED BY <1>1, <1>8, <2>2
      <4> QED BY <4>1
    <3>3. /\ Apply(f[k+1], E[k+1]) \in V
          /\ Texts(Apply(f[k+1], E[k+1])) = Texts(Apply(S[k+1], E[k+1]))
      BY <1>2, <3>1, <3>2, ApplySame
    <3>4. Texts(Apply(S[k+1], E[k+1])) = Texts(S[k])
      BY <2>2 DEF LeadsDown
    <3>5. f[k] = Apply(f[k+1], E[k+1])
      BY <1>7, <2>2
    <3> HIDE DEF C, V
    <3> QED BY <3>3, <3>4, <3>5
  <2> QED BY <2>1, <2>2
<1>9. C \subseteq Good
  <2>1. size \in [C -> Nat]
    BY <1>1
  <2> HIDE DEF C, size, Good
  <2> QED BY <1>8, <2>1, SizeInduction
<1> QED BY <1>1, <1>9

(* DetailsAreSaved: getDetails returns for an old version the keys and     *)
(* texts that were saved as it, however many versions lie above and        *)
(* whatever papers they are: each decrement is computed from the paper     *)
(* that was saved and applied to one that may differ from it in style.     *)
THEOREM DetailsAreAsSaved == Spec => []DetailsAreSaved
<1>1. IInv => DetailsAreSaved
  <2> SUFFICES ASSUME IInv, NEW a \in Id, row[a] # None, Quiet(a), Sound(a), Whole(a),
                      NEW v \in 1..row[a].version
               PROVE  Texts(Details(a, v)) = Texts(HistoryAt(a, v).saved)
    BY DEF DetailsAreSaved
  <2> DEFINE t == row[a].version
             c == row[a].content
             f == CHOOSE d : d = [k \in v..t |->
                    IF k = t THEN c ELSE Apply(d[k+1], HistoryAt(a, k+1).decrement)]
             E == [k \in Nat |-> HistoryAt(a, k).decrement]
             S == [k \in Nat |-> HistoryAt(a, k).saved]
  <2>1. Numbered(a) /\ Latest(a) /\ Joined(a) /\ Running(a) = {} /\ Types
    BY StoredHere DEF Quiet, IInv
  <2>2. t \in Nat /\ v \in Nat \ {0} /\ v <= t
    BY <2>1, VersionsInRange
  <2>3. \A k \in 1..t : \E i \in OfVersion(a, k) : HistoryAt(a, k) = history[i]
    <3>1. \A k \in 1..t : OfVersion(a, k) # {}
      BY <2>1 DEF Numbered, Inserting
    <3> QED BY <3>1 DEF HistoryAt
  <2>4. Details(a, v) = f[v]
    BY Zenon DEF Details
  <2>5. \A k \in 1..t : S[k] \in Seq(Blocks) /\ Carries(E[k], Blocks)
    <3>1. ASSUME NEW k \in 1..t
          PROVE  S[k] \in Seq(Blocks) /\ Carries(E[k], Blocks)
      <4>1. PICK i \in OfVersion(a, k) : HistoryAt(a, k) = history[i]
        BY <2>3
      <4>2. history[i] \in Histories
        BY <2>1, HistoryTyped DEF OfVersion, Of
      <4>3. history[i].saved \in Content /\ history[i].decrement \in Edit
        BY <4>2 DEF Histories
      <4>4. history[i].saved \in Seq(Blocks)
        BY <4>3, ConstantsAssumption DEF Blocks
      <4>5. k \in Nat
        BY <2>2
      <4>6. S[k] = history[i].saved /\ E[k] = history[i].decrement
        BY <4>1, <4>5
      <4> HIDE DEF S, E
      <4> QED BY <4>3, <4>4, <4>6, EditsOfBlocks
    <3> QED BY <3>1
  <2>6. S[t] = c
    <3>1. t \in 1..t
      BY <2>2
    <3>2. PICK i \in OfVersion(a, t) : HistoryAt(a, t) = history[i]
      BY <2>3, <3>1
    <3> QED BY <2>1, <2>2, <3>2 DEF Latest
  <2>7. ASSUME NEW k \in v..t, k # t
        PROVE  Texts(Apply(S[k+1], E[k+1])) = Texts(S[k])
    <3>1. k \in 1..t /\ k + 1 \in 1..t /\ k \in Nat /\ k + 1 \in Nat
      BY <2>2, <2>7
    <3>2. PICK i \in OfVersion(a, k) : HistoryAt(a, k) = history[i]
      BY <2>3, <3>1
    <3>3. PICK j \in OfVersion(a, k+1) : HistoryAt(a, k+1) = history[j]
      BY <2>3, <3>1
    <3>4. i \in Of(a) /\ j \in Of(a) /\ history[j].version = history[i].version + 1
      BY <3>2, <3>3 DEF OfVersion
    <3>5. Texts(Apply(history[j].saved, history[j].decrement)) = Texts(history[i].saved)
      BY <2>1, <3>4 DEF Joined, Joins
    <3>6. S[k] = history[i].saved /\ S[k+1] = history[j].saved /\ E[k+1] = history[j].decrement
      BY <3>1, <3>2, <3>3
    <3> HIDE DEF S, E
    <3> QED BY <3>5, <3>6
  <2>8. LeadsDown(v, t, E, S, Blocks)
    <3> HIDE DEF S, E
    <3>1. \A k \in v..t : k \in 1..t
      BY <2>2
    <3> QED BY <2>5, <2>7, <3>1 DEF LeadsDown
  <2>9. \A d : [k \in v..t |-> IF k = t THEN c ELSE Apply(d[k+1], HistoryAt(a, k+1).decrement)]
                 = WalkedDown(d, v, t, E, S[t])
    <3>1. ASSUME NEW d, NEW k \in v..t
          PROVE  (IF k = t THEN c ELSE Apply(d[k+1], HistoryAt(a, k+1).decrement))
                   = (IF k = t THEN S[t] ELSE Apply(d[k+1], E[k+1]))
      <4>1. k + 1 \in Nat
        BY <2>2
      <4>2. E[k+1] = HistoryAt(a, k+1).decrement
        BY <4>1
      <4> HIDE DEF S, E, c
      <4> QED BY <2>6, <4>2
    <3> HIDE DEF S, E, c
    <3> QED BY <3>1, Zenon DEF WalkedDown
  <2>10. f = CHOOSE d : d = WalkedDown(d, v, t, E, S[t])
    <3> HIDE DEF S, E, c, t
    <3> QED BY <2>9, Zenon
  <2>11. Texts(f[v]) = Texts(S[v])
    <3> HIDE DEF S, E, f, t
    <3> QED BY <2>2, <2>8, <2>10, WalkDown
  <2>12. S[v] = HistoryAt(a, v).saved
    BY <2>2
  <2> HIDE DEF f, S
  <2> QED BY <2>4, <2>11, <2>12
<1> QED BY <1>1, Invariant, PTL
=============================================================================
