------------------------- MODULE QueryBuilderProofs -------------------------
(* Proofs about QueryBuilder for every set of threads and every bound.     *)
EXTENDS QueryBuilder, TLAPS

LEMMA InitIInv == Init => IInv
BY BoundsAssumption DEF Init, IInv, TypeOK, BuffersInv, WhereInv, OwnPiecesOnly, Dao, NoStatement, NoKey, Chain

LEMMA CurrentIsChain ==
  ASSUME TypeOK, NEW t \in Thread, chain[t].open
  PROVE  Current(t) \in Chain
BY BoundsAssumption DEF TypeOK, Current, Chain

(* What a call that appends to the buffers of t keeps of the others.       *)
LEMMA Appended ==
  ASSUME NEW S, NEW s \in Seq(S), NEW x \in S
  PROVE  /\ Append(s, x) \in Seq(S)
         /\ Len(Append(s, x)) = Len(s) + 1
         /\ Append(s, x) # <<>>
         /\ \A i \in DOMAIN Append(s, x) :
              \/ i \in DOMAIN s /\ Append(s, x)[i] = s[i]
              \/ Append(s, x)[i] = x
OBVIOUS

(* A building call of t: its buffers become w, f and b, its id k.          *)
BuildingStep(t, w, f, b, k) ==
  /\ Building(t)
  /\ chain' = [chain EXCEPT ![t].calls = @ + 1]
  /\ where' = [where EXCEPT ![t] = w]
  /\ from' = [from EXCEPT ![t] = f]
  /\ bindings' = [bindings EXCEPT ![t] = b]
  /\ key' = [key EXCEPT ![t] = k]
  /\ UNCHANGED <<residue, sent>>

LEMMA BuildingIInv ==
  ASSUME IInv, NEW t \in Thread,
         NEW w \in Seq(Piece), NEW f \in Seq(Chain), NEW b \in Seq(Chain),
         NEW k \in Chain \union {NoKey},
         BuildingStep(t, w, f, b, k),
         Len(b) <= Len(w),
         Own(t) => /\ \A i \in DOMAIN w : w[i].chain = Current(t)
                   /\ \A i \in DOMAIN f : f[i] = Current(t)
                   /\ \A i \in DOMAIN b : b[i] = Current(t)
                   /\ Len(w) + Len(f) = chain[t].calls + 1
  PROVE  IInv'
<1> USE BoundsAssumption
<1>1. /\ TypeOK /\ BuffersInv /\ WhereInv /\ OwnPiecesOnly
      /\ chain[t].open /\ chain[t].calls < MaxCalls
  BY DEF IInv, BuildingStep, Building
<1>2. /\ \A u \in Thread : Current(u)' = Current(u)
      /\ \A u \in Thread : chain'[u].open = chain[u].open /\ chain'[u].number = chain[u].number
      /\ \A u \in Thread \ {t} : chain'[u] = chain[u]
      /\ chain'[t].calls = chain[t].calls + 1
  BY <1>1 DEF BuildingStep, TypeOK, Current
<1>3. TypeOK'
  <2>1. chain' \in [Thread -> [number : 0..MaxChain, open : BOOLEAN, dao : Dao,
                               calls : 0..MaxCalls]]
    <3> DEFINE R == [number : 0..MaxChain, open : BOOLEAN, dao : Dao,
                     calls : 0..MaxCalls]
    <3>1. chain[t] \in R /\ chain[t].calls + 1 \in 0..MaxCalls
      BY <1>1 DEF TypeOK
    <3>2. [chain[t] EXCEPT !.calls = @ + 1] \in R
      BY <3>1
    <3>3. QED BY <1>1, <3>2 DEF BuildingStep, TypeOK
  <2>2. where' \in [Thread -> Seq(Piece)] /\ from' \in [Thread -> Seq(Chain)]
    BY <1>1 DEF BuildingStep, TypeOK
  <2>3. bindings' \in [Thread -> Seq(Chain)] /\ key' \in [Thread -> Chain \union {NoKey}]
    BY <1>1 DEF BuildingStep, TypeOK
  <2>4. /\ residue' \in [Thread -> SUBSET End]
        /\ sent' \in [Thread -> Sent \union {NoStatement}]
        /\ \A u \in Thread : chain'[u].open => chain'[u].number # 0
    BY <1>1, <1>2 DEF BuildingStep, TypeOK
  <2>5. QED BY <2>1, <2>2, <2>3, <2>4 DEF TypeOK
<1>4. BuffersInv'
  <2> SUFFICES ASSUME NEW u \in Thread
               PROVE  /\ residue'[u] = {} /\ chain'[u].open => Own(u)'
                      /\ residue'[u] = {} /\ ~ chain'[u].open => where'[u] = <<>> /\ from'[u] = <<>>
                      /\ Len(bindings'[u]) <= Len(where'[u])
    BY DEF BuffersInv
  <2>1. CASE u = t
    <3>1. /\ where'[t] = w /\ from'[t] = f /\ bindings'[t] = b
          /\ residue'[t] = residue[t] /\ chain'[t].open
      BY <1>1, <1>2 DEF BuildingStep, TypeOK
    <3>2. residue[t] = {} => Own(t)
      BY <1>1 DEF BuffersInv
    <3>3. QED BY <2>1, <3>1, <3>2, <1>2 DEF Own
  <2>2. CASE u # t
    <3>1. /\ where'[u] = where[u] /\ from'[u] = from[u] /\ bindings'[u] = bindings[u]
          /\ residue'[u] = residue[u] /\ chain'[u] = chain[u]
      BY <1>1, <1>2, <2>2 DEF BuildingStep, TypeOK
    <3>2. Own(u)' <=> Own(u)
      BY <3>1, <1>2 DEF Own
    <3>3. QED BY <1>1, <3>1, <3>2 DEF BuffersInv
  <2>3. QED BY <2>1, <2>2
<1>6. WhereInv' /\ OwnPiecesOnly'
  BY ZenonT(60), <1>1 DEF BuildingStep, WhereInv, OwnPiecesOnly
<1> QED BY <1>3, <1>4, <1>6 DEF IInv

LEMMA OneMore ==
  ASSUME NEW m \in Nat, NEW n \in Nat, NEW l, l = m + 1, NEW c, m + n = c \/ n + m = c
  PROVE  l + n = c + 1 /\ n + l = c + 1
OBVIOUS

(* A call that appends a piece of text, and a value or none.               *)
LEMMA PieceIInv ==
  ASSUME IInv, NEW t \in Thread, chain[t].open, NEW kind \in Kind,
         NEW b \in {bindings[t], Append(bindings[t], Current(t))},
         NEW k \in Chain \union {NoKey},
         BuildingStep(t, Append(where[t], [chain |-> Current(t), kind |-> kind]),
                      from[t], b, k)
  PROVE  IInv'
<1> USE BoundsAssumption
<1> DEFINE piece == [chain |-> Current(t), kind |-> kind]
           w == Append(where[t], piece)
<1>1. TypeOK /\ BuffersInv
  BY DEF IInv
<1>2. piece \in Piece /\ Current(t) \in Chain /\ piece.chain = Current(t)
  BY <1>1, CurrentIsChain DEF Piece
<1>3. /\ where[t] \in Seq(Piece) /\ from[t] \in Seq(Chain) /\ bindings[t] \in Seq(Chain)
      /\ key[t] \in Chain \union {NoKey}
      /\ chain[t].calls \in Nat
      /\ Len(bindings[t]) <= Len(where[t])
  BY <1>1 DEF TypeOK, BuffersInv
<1>4. w \in Seq(Piece) /\ Len(w) = Len(where[t]) + 1
  BY <1>2, <1>3, Appended
<1>5. b \in Seq(Chain) /\ Len(b) <= Len(w)
  <2>1. CASE b = bindings[t]
    BY <1>3, <1>4, <2>1
  <2>2. CASE b = Append(bindings[t], Current(t))
    BY <1>2, <1>3, <1>4, <2>2, Appended
  <2>3. QED BY <2>1, <2>2
<1>7. ASSUME Own(t)
      PROVE  /\ \A i \in DOMAIN w : w[i].chain = Current(t)
             /\ \A i \in DOMAIN from[t] : from[t][i] = Current(t)
             /\ \A i \in DOMAIN b : b[i] = Current(t)
             /\ Len(w) + Len(from[t]) = chain[t].calls + 1
  <2>1. \A i \in DOMAIN w : w[i].chain = Current(t)
    <3>1. \A i \in DOMAIN where[t] : where[t][i].chain = Current(t)
      BY <1>7 DEF Own
    <3>2. \A i \in DOMAIN w : (i \in DOMAIN where[t] /\ w[i] = where[t][i]) \/ w[i] = piece
      <4> HIDE DEF piece
      <4> QED BY <1>2, <1>3, Appended
    <3>3. QED
      <4> HIDE DEF w, piece
      <4> QED BY <1>2, <3>1, <3>2
  <2>2. \A i \in DOMAIN b : b[i] = Current(t)
    <3>1. CASE b = bindings[t]
      BY <1>7, <3>1 DEF Own
    <3>2. CASE b = Append(bindings[t], Current(t))
      BY <1>2, <1>3, <1>7, <3>2, Appended DEF Own
    <3>3. QED BY <3>1, <3>2
  <2>3. Len(where[t]) \in Nat /\ Len(from[t]) \in Nat
    BY <1>3
  <2>8. Len(w) = Len(where[t]) + 1
    BY <1>4
  <2>4. Len(where[t]) + Len(from[t]) = chain[t].calls
    BY <1>7 DEF Own
  <2>5. Len(w) + Len(from[t]) = chain[t].calls + 1
    <3> HIDE DEF w, piece
    <3> DEFINE c == chain[t].calls  m == Len(where[t])  n == Len(from[t])
    <3>1. m \in Nat /\ n \in Nat /\ m + n = c /\ Len(w) = m + 1
      BY <2>3, <2>4, <2>8
    <3> HIDE DEF c, m, n
    <3>2. Len(w) + n = c + 1
      BY <3>1, OneMore
    <3>3. QED BY <3>2 DEF c, n
  <2>6. \A i \in DOMAIN from[t] : from[t][i] = Current(t)
    BY <1>7 DEF Own
  <2>7. QED BY <2>1, <2>2, <2>5, <2>6
<1> HIDE DEF piece, w
<1>8. BuildingStep(t, w, from[t], b, k)
  BY DEF piece, w
<1>9. Own(t) => /\ \A i \in DOMAIN w : w[i].chain = Current(t)
                /\ \A i \in DOMAIN from[t] : from[t][i] = Current(t)
                /\ \A i \in DOMAIN b : b[i] = Current(t)
                /\ Len(w) + Len(from[t]) = chain[t].calls + 1
  BY <1>7
<1>10. from[t] \in Seq(Chain)
  BY <1>3
<1> QED BY <1>4, <1>5, <1>8, <1>9, <1>10, BuildingIInv

LEMMA AndIInv == ASSUME IInv, NEW t \in Thread, And(t) PROVE IInv'
<1>1. TypeOK /\ chain[t].open /\ "condition" \in Kind
  BY DEF IInv, And, Building, Kind
<1>2. BuildingStep(t, Append(where[t], [chain |-> Current(t), kind |-> "condition"]),
                   from[t], Append(bindings[t], Current(t)), key[t])
  BY <1>1 DEF And, BuildingStep, Building, AppendPiece, Bind, Called, TypeOK
<1>3. key[t] \in Chain \union {NoKey} /\ Current(t) \in Chain
  BY <1>1, CurrentIsChain DEF IInv, TypeOK
<1> QED BY <1>1, <1>2, <1>3, PieceIInv

LEMMA OrIInv ==
  ASSUME IInv, NEW t \in Thread, NEW kind \in {"condition", "sql"}, Or(t, kind)
  PROVE  IInv'
<1>1. TypeOK /\ chain[t].open /\ kind \in Kind
  BY DEF IInv, Or, Building, Kind
<1>2. BuildingStep(t, Append(where[t], [chain |-> Current(t), kind |-> kind]),
                   from[t], Append(bindings[t], Current(t)), key[t])
  BY <1>1 DEF Or, BuildingStep, Building, AppendPiece, Bind, Called, TypeOK
<1>3. key[t] \in Chain \union {NoKey} /\ Current(t) \in Chain
  BY <1>1, CurrentIsChain DEF IInv, TypeOK
<1> QED BY <1>1, <1>2, <1>3, PieceIInv

LEMMA IsNullIInv == ASSUME IInv, NEW t \in Thread, IsNull(t) PROVE IInv'
<1>1. TypeOK /\ chain[t].open /\ "null" \in Kind
  BY DEF IInv, IsNull, Building, Kind
<1>2. BuildingStep(t, Append(where[t], [chain |-> Current(t), kind |-> "null"]),
                   from[t], bindings[t], key[t])
  BY <1>1 DEF IsNull, BuildingStep, Building, AppendPiece, Bind, Called, TypeOK
<1>3. key[t] \in Chain \union {NoKey} /\ Current(t) \in Chain
  BY <1>1, CurrentIsChain DEF IInv, TypeOK
<1> QED BY <1>1, <1>2, <1>3, PieceIInv

LEMMA OrderByIInv == ASSUME IInv, NEW t \in Thread, OrderBy(t) PROVE IInv'
<1>1. TypeOK /\ chain[t].open /\ "order" \in Kind
  BY DEF IInv, OrderBy, Building, Kind
<1>2. BuildingStep(t, Append(where[t], [chain |-> Current(t), kind |-> "order"]),
                   from[t], bindings[t], key[t])
  BY <1>1 DEF OrderBy, BuildingStep, Building, AppendPiece, Bind, Called, TypeOK
<1>3. key[t] \in Chain \union {NoKey} /\ Current(t) \in Chain
  BY <1>1, CurrentIsChain DEF IInv, TypeOK
<1> QED BY <1>1, <1>2, <1>3, PieceIInv

LEMMA LimitIInv == ASSUME IInv, NEW t \in Thread, Limit(t) PROVE IInv'
<1>1. TypeOK /\ chain[t].open /\ "limit" \in Kind
  BY DEF IInv, Limit, Building, Kind
<1>2. BuildingStep(t, Append(where[t], [chain |-> Current(t), kind |-> "limit"]),
                   from[t], Append(bindings[t], Current(t)), key[t])
  BY <1>1 DEF Limit, BuildingStep, Building, AppendPiece, Bind, Called, TypeOK
<1>3. key[t] \in Chain \union {NoKey} /\ Current(t) \in Chain
  BY <1>1, CurrentIsChain DEF IInv, TypeOK
<1> QED BY <1>1, <1>2, <1>3, PieceIInv

LEMMA IdOfCachedIInv == ASSUME IInv, NEW t \in Thread, IdOfCached(t) PROVE IInv'
<1>1. TypeOK /\ chain[t].open /\ "condition" \in Kind
  BY DEF IInv, IdOfCached, Building, Kind
<1>2. BuildingStep(t, Append(where[t], [chain |-> Current(t), kind |-> "condition"]),
                   from[t], Append(bindings[t], Current(t)), Current(t))
  BY <1>1 DEF IdOfCached, BuildingStep, Building, AppendPiece, Bind, Called, TypeOK
<1>3. key[t] \in Chain \union {NoKey} /\ Current(t) \in Chain
  BY <1>1, CurrentIsChain DEF IInv, TypeOK
<1> QED BY <1>1, <1>2, <1>3, PieceIInv

LEMMA JoinIInv ==
  ASSUME IInv, NEW t \in Thread, Join(t)
  PROVE  IInv'
<1> USE BoundsAssumption
<1> DEFINE f == Append(from[t], Current(t))
<1>1. TypeOK /\ BuffersInv /\ chain[t].open
  BY DEF IInv, Join, Building
<1>2. Current(t) \in Chain
  BY <1>1, CurrentIsChain
<1>3. /\ where[t] \in Seq(Piece) /\ from[t] \in Seq(Chain) /\ bindings[t] \in Seq(Chain)
      /\ key[t] \in Chain \union {NoKey}
      /\ Len(bindings[t]) <= Len(where[t])
  BY <1>1 DEF TypeOK, BuffersInv
<1>4. BuildingStep(t, where[t], f, bindings[t], key[t])
  BY <1>1 DEF Join, BuildingStep, Building, Called, TypeOK
<1>5. f \in Seq(Chain)
  BY <1>2, <1>3, Appended
<1>6. Own(t) => /\ \A i \in DOMAIN where[t] : where[t][i].chain = Current(t)
                /\ \A i \in DOMAIN f : f[i] = Current(t)
                /\ \A i \in DOMAIN bindings[t] : bindings[t][i] = Current(t)
                /\ Len(where[t]) + Len(f) = chain[t].calls + 1
  <2> SUFFICES ASSUME Own(t)
               PROVE  /\ \A i \in DOMAIN f : f[i] = Current(t)
                      /\ Len(where[t]) + Len(f) = chain[t].calls + 1
    BY DEF Own
  <2>1. \A i \in DOMAIN f : f[i] = Current(t)
    BY <1>2, <1>3, Appended DEF Own
  <2>2. Len(f) = Len(from[t]) + 1 /\ Len(from[t]) \in Nat /\ Len(where[t]) \in Nat
    BY <1>2, <1>3, Appended
  <2>3. Len(where[t]) + Len(from[t]) = chain[t].calls
    BY DEF Own
  <2>4. Len(where[t]) + Len(f) = chain[t].calls + 1
    <3> HIDE DEF f
    <3> DEFINE c == chain[t].calls  m == Len(where[t])  n == Len(from[t])  l == Len(f)
    <3>1. m \in Nat /\ n \in Nat /\ m + n = c /\ l = n + 1
      BY <2>2, <2>3
    <3> HIDE DEF c, m, n, l
    <3>2. m + l = c + 1
      BY <3>1, OneMore
    <3>3. QED BY <3>2 DEF c, m, l
  <2>5. QED BY <2>1, <2>4
<1> HIDE DEF f
<1> QED BY ZenonT(60), <1>1, <1>2, <1>3, <1>4, <1>5, <1>6, BuildingIInv


LEMMA ClosedType ==
  ASSUME TypeOK, NEW t \in Thread, Close(t)
  PROVE  /\ chain' \in [Thread -> [number : 0..MaxChain, open : BOOLEAN, dao : Dao,
                                   calls : 0..MaxCalls]]
         /\ \A u \in Thread : chain'[u].open => chain'[u].number # 0
         /\ \A u \in Thread : Current(u)' = Current(u)
         /\ ~ chain'[t].open
         /\ \A u \in Thread \ {t} : chain'[u] = chain[u]
<1> DEFINE R == [number : 0..MaxChain, open : BOOLEAN, dao : Dao,
                 calls : 0..MaxCalls]
<1>1. chain[t] \in R /\ chain \in [Thread -> R]
  BY DEF TypeOK
<1>2. [chain[t] EXCEPT !.open = FALSE] \in R
  BY <1>1
<1>3. chain' = [chain EXCEPT ![t] = [chain[t] EXCEPT !.open = FALSE]]
  BY DEF Close
<1>4. chain' \in [Thread -> R]
  BY <1>1, <1>2, <1>3
<1>5. /\ chain'[t] = [chain[t] EXCEPT !.open = FALSE]
      /\ \A u \in Thread \ {t} : chain'[u] = chain[u]
  BY <1>1, <1>3
<1>6. /\ chain'[t].number = chain[t].number /\ ~ chain'[t].open
  BY <1>1, <1>5
<1>7. \A u \in Thread : chain'[u].open => chain'[u].number # 0
  BY <1>5, <1>6 DEF TypeOK
<1>8. \A u \in Thread : chain'[u].number = chain[u].number
  BY <1>5, <1>6
<1>9. \A u \in Thread : Current(u)' = Current(u)
  BY <1>8 DEF Current
<1> QED BY <1>4, <1>5, <1>6, <1>7, <1>9

(* The end of a chain of t: its buffers are as they were, with a residue,  *)
(* or empty.                                                               *)
EndingStep(t) ==
  /\ Close(t) /\ key' = key
  /\ where' \in {where, [where EXCEPT ![t] = <<>>]}
  /\ \/ from' \in {from, [from EXCEPT ![t] = <<>>]}
     \/ chain[t].open /\ from' = [from EXCEPT ![t] = <<Current(t)>>]
  /\ \/ where' = where /\ bindings' = bindings
     \/ bindings' = [bindings EXCEPT ![t] = <<>>]
  /\ \E r \in SUBSET End :
       /\ residue' = [residue EXCEPT ![t] = r]
       /\ r = {} => where'[t] = <<>> /\ from'[t] = <<>>

LEMMA EndingBuffers ==
  ASSUME IInv, NEW t \in Thread, EndingStep(t)
  PROVE  /\ BuffersInv'
         /\ where' \in [Thread -> Seq(Piece)] /\ from' \in [Thread -> Seq(Chain)]
         /\ bindings' \in [Thread -> Seq(Chain)]
         /\ residue' \in [Thread -> SUBSET End]
<1>1. TypeOK /\ BuffersInv
  BY DEF IInv
<1>2. /\ where \in [Thread -> Seq(Piece)] /\ from \in [Thread -> Seq(Chain)]
      /\ bindings \in [Thread -> Seq(Chain)] /\ residue \in [Thread -> SUBSET End]
  BY <1>1 DEF TypeOK
<1>3. /\ \A u \in Thread : Current(u)' = Current(u)
      /\ ~ chain'[t].open
      /\ \A u \in Thread \ {t} : chain'[u] = chain[u]
  BY <1>1, ClosedType DEF EndingStep
<1>4. where' \in [Thread -> Seq(Piece)] /\ from' \in [Thread -> Seq(Chain)]
  <2>1. <<>> \in Seq(Piece) /\ <<>> \in Seq(Chain)
    OBVIOUS
  <2>2. where' \in [Thread -> Seq(Piece)]
    BY <1>2, <2>1 DEF EndingStep
  <2>3. from' \in [Thread -> Seq(Chain)]
    <3>1. CASE from' \in {from, [from EXCEPT ![t] = <<>>]}
      BY <1>2, <2>1, <3>1
    <3>2. CASE chain[t].open /\ from' = [from EXCEPT ![t] = <<Current(t)>>]
      <4>1. <<Current(t)>> \in Seq(Chain)
        BY <1>1, <3>2, CurrentIsChain
      <4>2. QED BY <1>2, <3>2, <4>1
    <3>3. QED BY <3>1, <3>2 DEF EndingStep
  <2>4. QED BY <2>2, <2>3
<1>5. bindings' \in [Thread -> Seq(Chain)] /\ residue' \in [Thread -> SUBSET End]
  <2>1. <<>> \in Seq(Chain)
    OBVIOUS
  <2>2. bindings' \in [Thread -> Seq(Chain)]
    BY <1>2, <2>1 DEF EndingStep
  <2>3. residue' \in [Thread -> SUBSET End]
    BY <1>2 DEF EndingStep
  <2>4. QED BY <2>2, <2>3
<1>6. \A u \in Thread \ {t} :
        /\ where'[u] = where[u] /\ from'[u] = from[u] /\ bindings'[u] = bindings[u]
        /\ residue'[u] = residue[u]
  BY <1>2 DEF EndingStep
<1>7. residue'[t] = {} => where'[t] = <<>> /\ from'[t] = <<>>
  BY <1>2 DEF EndingStep
<1>8. Len(bindings'[t]) <= Len(where'[t])
  <2>1. CASE where' = where /\ bindings' = bindings
    BY <1>1, <2>1 DEF BuffersInv
  <2>2. CASE bindings' = [bindings EXCEPT ![t] = <<>>]
    <3>1. bindings'[t] = <<>> /\ Len(where'[t]) \in Nat
      BY <1>2, <1>4, <2>2
    <3>2. QED BY <3>1
  <2>3. QED BY <2>1, <2>2 DEF EndingStep
<1>9. BuffersInv'
  <2> SUFFICES ASSUME NEW u \in Thread
               PROVE  /\ residue'[u] = {} /\ chain'[u].open => Own(u)'
                      /\ residue'[u] = {} /\ ~ chain'[u].open => where'[u] = <<>> /\ from'[u] = <<>>
                      /\ Len(bindings'[u]) <= Len(where'[u])
    BY DEF BuffersInv
  <2>1. CASE u = t
    BY <1>3, <1>7, <1>8, <2>1
  <2>2. CASE u # t
    <3>1. Own(u)' <=> Own(u)
      BY <1>3, <1>6, <2>2 DEF Own
    <3>2. QED BY <1>1, <1>3, <1>6, <2>2, <3>1 DEF BuffersInv
  <2>3. QED BY <2>1, <2>2
<1> QED BY <1>4, <1>5, <1>9

(* The ends that send nothing.                                             *)
LEMMA SilentIInv ==
  ASSUME IInv, NEW t \in Thread, EndingStep(t), UNCHANGED sent
  PROVE  IInv'
<1>1. TypeOK /\ Close(t) /\ WhereInv /\ OwnPiecesOnly /\ key' = key
  BY DEF IInv, EndingStep
<1>2. TypeOK'
  BY <1>1, EndingBuffers, ClosedType DEF TypeOK
<1>3. WhereInv' /\ OwnPiecesOnly'
  BY <1>1 DEF WhereInv, OwnPiecesOnly
<1> QED BY <1>2, <1>3, EndingBuffers DEF IInv

LEMMA StatementIsSent ==
  ASSUME IInv, NEW t \in Thread, chain[t].open, NEW op \in Selects \union Writes,
         NEW set \in SetText
  PROVE  Statement(t, op, set) \in Sent
<1>1. /\ where[t] \in Seq(Piece) /\ from[t] \in Seq(Chain) /\ bindings[t] \in Seq(Chain)
      /\ chain[t].calls \in 0..MaxCalls /\ residue[t] \in SUBSET End
  BY DEF IInv, TypeOK
<1>2. Current(t) \in Chain
  BY CurrentIsChain DEF IInv
<1> QED BY <1>1, <1>2 DEF Statement, Sent

(* The ends that send a statement.                                         *)
LEMMA SendingIInv ==
  ASSUME IInv, NEW t \in Thread, EndingStep(t), chain[t].open,
         NEW op \in Selects \union Writes, NEW set \in SetText,
         op \in {"set", "remove"} => where[t] # <<>>,
         sent' = [sent EXCEPT ![t] = Statement(t, op, set)]
  PROVE  IInv'
<1>1. /\ TypeOK /\ BuffersInv /\ Close(t) /\ WhereInv /\ OwnPiecesOnly
      /\ key' = key
  BY DEF IInv, EndingStep
<1>2. Statement(t, op, set) \in Sent
  BY StatementIsSent
<1>3. /\ sent'[t] = Statement(t, op, set)
      /\ \A u \in Thread \ {t} : sent'[u] = sent[u]
      /\ sent' \in [Thread -> Sent \union {NoStatement}]
  BY <1>1, <1>2 DEF TypeOK
<1>4. TypeOK'
  BY <1>1, <1>3, EndingBuffers, ClosedType DEF TypeOK
<1>5. WhereInv'
  BY <1>1, <1>3 DEF WhereInv, Statement
<1>6. residue[t] = {} => Own(t)
  BY <1>1 DEF BuffersInv
<1>7. OwnPiecesOnly'
  <2> SUFFICES ASSUME NEW u \in Thread, sent'[u] # NoStatement, sent'[u].residue = {}
               PROVE  /\ \A i \in DOMAIN sent'[u].where : sent'[u].where[i].chain = sent'[u].chain
                      /\ \A i \in DOMAIN sent'[u].from : sent'[u].from[i] = sent'[u].chain
                      /\ \A i \in DOMAIN sent'[u].bindings : sent'[u].bindings[i] = sent'[u].chain
                      /\ Len(sent'[u].where) + Len(sent'[u].from) = sent'[u].calls
    BY DEF OwnPiecesOnly
  <2>1. CASE u = t
    <3>1. /\ sent'[u].where = where[t] /\ sent'[u].from = from[t]
          /\ sent'[u].bindings = bindings[t] /\ sent'[u].chain = Current(t)
          /\ sent'[u].calls = chain[t].calls /\ sent'[u].residue = residue[t]
      BY <1>3, <2>1 DEF Statement
    <3>2. Own(t)
      BY <1>6, <3>1
    <3>3. QED BY <3>1, <3>2 DEF Own
  <2>2. CASE u # t
    BY ZenonT(60), <1>1, <1>3, <2>2 DEF OwnPiecesOnly
  <2>3. QED BY <2>1, <2>2
<1> QED BY <1>4, <1>5, <1>7, EndingBuffers DEF IInv

(* An end that keeps the buffers.                                          *)
LEMMA LeaveEnds ==
  ASSUME IInv, NEW t \in Thread, NEW end \in End, Leave(t, end)
  PROVE  EndingStep(t) /\ UNCHANGED sent
<1>1. /\ where \in [Thread -> Seq(Piece)] /\ from \in [Thread -> Seq(Chain)]
      /\ residue \in [Thread -> SUBSET End]
  BY DEF IInv, TypeOK
<1> DEFINE r == residue[t] \union (IF where[t] = <<>> /\ from[t] = <<>> THEN {} ELSE {end})
<1>2. r \in SUBSET End /\ residue' = [residue EXCEPT ![t] = r]
  BY <1>1 DEF Leave
<1>3. r = {} => where'[t] = <<>> /\ from'[t] = <<>>
  BY DEF Leave
<1> HIDE DEF r
<1> QED BY <1>2, <1>3 DEF Leave, EndingStep

LEMMA ClearEnds ==
  ASSUME IInv, NEW t \in Thread, clear(t), Close(t), key' = key
  PROVE  EndingStep(t)
<1>1. /\ where \in [Thread -> Seq(Piece)] /\ from \in [Thread -> Seq(Chain)]
  BY DEF IInv, TypeOK
<1>2. where'[t] = <<>> /\ from'[t] = <<>> /\ residue' = [residue EXCEPT ![t] = {}]
  BY <1>1 DEF clear
<1> QED BY <1>2 DEF EndingStep, clear

LEMMA SendIInv ==
  ASSUME IInv, NEW t \in Thread, NEW op \in {"selectOne", "select", "set", "remove"},
         NEW set \in SetText, Send(t, op, set)
  PROVE  IInv'
<1>1. EndingStep(t)
  BY ClearEnds DEF Send
<1>2. /\ chain[t].open /\ where[t] # <<>>
      /\ sent' = [sent EXCEPT ![t] = Statement(t, op, set)]
      /\ op \in Selects \union Writes
  BY DEF Send, HasWhere, Selects, Writes
<1> QED BY <1>1, <1>2, SendingIInv

LEMMA SetCachedByObjectIInv ==
  ASSUME IInv, NEW t \in Thread, SetCachedByObject(t)
  PROVE  IInv'
<1>1. /\ where \in [Thread -> Seq(Piece)] /\ from \in [Thread -> Seq(Chain)]
  BY DEF IInv, TypeOK
<1> DEFINE r == IF from[t] = <<>> THEN {} ELSE {"setByObject"}
<1>2. r \in SUBSET End /\ residue' = [residue EXCEPT ![t] = r]
  BY DEF SetCachedByObject, End
<1>3. r = {} => where'[t] = <<>> /\ from'[t] = <<>>
  BY <1>1 DEF SetCachedByObject
<1> HIDE DEF r
<1>4. EndingStep(t)
  BY <1>2, <1>3 DEF SetCachedByObject, EndingStep
<1>5. /\ chain[t].open
      /\ sent' = [sent EXCEPT ![t] = Statement(t, "setByObject", "bound")]
      /\ "setByObject" \in Selects \union Writes /\ "bound" \in SetText
  BY DEF SetCachedByObject, Writes, SetText
<1> QED BY <1>4, <1>5, SendingIInv

LEMMA SetNothingIInv ==
  ASSUME IInv, NEW t \in Thread, SetNothing(t)
  PROVE  IInv'
<1>1. EndingStep(t) /\ UNCHANGED sent
  BY ClearEnds DEF SetNothing
<1> QED BY <1>1, SilentIInv DEF IInv, TypeOK

LEMMA LeavingIInv ==
  ASSUME IInv, NEW t \in Thread, Refuse(t) \/ Abandon(t) \/ Hit(t)
  PROVE  IInv'
<1>1. EndingStep(t) /\ UNCHANGED sent
  BY LeaveEnds DEF Refuse, Abandon, Hit, End
<1> QED BY <1>1, SilentIInv DEF IInv, TypeOK

LEMMA CountFailsIInv ==
  ASSUME IInv, NEW t \in Thread, CountFails(t)
  PROVE  IInv'
<1>1. from \in [Thread -> Seq(Chain)] /\ residue \in [Thread -> SUBSET End]
  BY DEF IInv, TypeOK
<1> DEFINE r == residue[t] \union {"failed"}
<1>2. r \in SUBSET End /\ r # {} /\ residue' = [residue EXCEPT ![t] = r]
  BY <1>1 DEF CountFails, End
<1>3. \/ from' = from
      \/ from' = [from EXCEPT ![t] = <<Current(t)>>]
  BY <1>1 DEF CountFails
<1> HIDE DEF r
<1>4. EndingStep(t) /\ UNCHANGED sent
  BY <1>2, <1>3 DEF CountFails, EndingStep
<1> QED BY <1>4, SilentIInv DEF IInv, TypeOK

LEMMA BeginIInv ==
  ASSUME IInv, NEW t \in Thread, NEW d \in Dao, Begin(t, d)
  PROVE  IInv'
<1> USE BoundsAssumption
<1> DEFINE R == [number : 0..MaxChain, open : BOOLEAN, dao : Dao,
                 calls : 0..MaxCalls]
           new == [number |-> chain[t].number + 1, open |-> TRUE,
                   dao |-> d, calls |-> 0]
<1>1. /\ TypeOK /\ BuffersInv /\ WhereInv /\ OwnPiecesOnly
      /\ ~ chain[t].open /\ chain[t].number < MaxChain
  BY DEF IInv, Begin
<1>2. chain \in [Thread -> R] /\ chain[t].number \in 0..MaxChain
  BY <1>1 DEF TypeOK
<1>3. chain' = [chain EXCEPT ![t] = new]
  BY DEF Begin
<1>4. new \in R /\ new.open /\ new.number # 0 /\ new.calls = 0
  BY <1>1, <1>2
<1> HIDE DEF R, new
<1>5. /\ chain' \in [Thread -> R] /\ chain'[t] = new
      /\ \A u \in Thread \ {t} : chain'[u] = chain[u]
  BY <1>2, <1>3, <1>4
<1>6. /\ sent' \in [Thread -> Sent \union {NoStatement}]
      /\ sent'[t] = NoStatement /\ \A u \in Thread \ {t} : sent'[u] = sent[u]
  BY <1>1 DEF Begin, TypeOK
<1>7. /\ where' = where /\ from' = from /\ bindings' = bindings /\ key' = key
      /\ residue' = residue
  BY DEF Begin
<1>8. TypeOK'
  BY ZenonT(60), <1>1, <1>4, <1>5, <1>6, <1>7 DEF TypeOK, R
<1>9. BuffersInv'
  <2> SUFFICES ASSUME NEW u \in Thread
               PROVE  /\ residue'[u] = {} /\ chain'[u].open => Own(u)'
                      /\ residue'[u] = {} /\ ~ chain'[u].open => where'[u] = <<>> /\ from'[u] = <<>>
                      /\ Len(bindings'[u]) <= Len(where'[u])
    BY DEF BuffersInv
  <2>1. CASE u = t
    <3>1. Len(bindings[t]) <= Len(where[t]) /\ chain'[t].open
      BY <1>1, <1>4, <1>5 DEF BuffersInv
    <3>2. ASSUME residue[t] = {} PROVE Own(t)'
      <4>1. where[t] = <<>> /\ from[t] = <<>>
        BY <1>1, <3>2 DEF BuffersInv
      <4>2. bindings[t] = <<>>
        <5>1. bindings[t] \in Seq(Chain) /\ Len(bindings[t]) <= 0
          BY <1>1, <3>1, <4>1 DEF TypeOK
        <5>2. QED BY <5>1
      <4>3. chain'[t].calls = 0
        BY <1>4, <1>5
      <4>4. QED BY <1>7, <4>1, <4>2, <4>3 DEF Own
    <3>3. QED BY <1>7, <2>1, <3>1, <3>2
  <2>2. CASE u # t
    <3>1. chain'[u] = chain[u] /\ Current(u)' = Current(u)
      BY <1>5, <2>2 DEF Current
    <3>2. Own(u)' <=> Own(u)
      BY <1>7, <3>1 DEF Own
    <3>3. QED BY <1>1, <1>7, <3>1, <3>2 DEF BuffersInv
  <2>3. QED BY <2>1, <2>2
<1>10. WhereInv' /\ OwnPiecesOnly'
  <2>1. WhereInv'
    BY <1>1, <1>6 DEF WhereInv
  <2>2. OwnPiecesOnly'
    <3> SUFFICES ASSUME NEW u \in Thread, sent'[u] # NoStatement, sent'[u].residue = {}
                 PROVE  /\ \A i \in DOMAIN sent'[u].where : sent'[u].where[i].chain = sent'[u].chain
                        /\ \A i \in DOMAIN sent'[u].from : sent'[u].from[i] = sent'[u].chain
                        /\ \A i \in DOMAIN sent'[u].bindings : sent'[u].bindings[i] = sent'[u].chain
                        /\ Len(sent'[u].where) + Len(sent'[u].from) = sent'[u].calls
      BY DEF OwnPiecesOnly
    <3>1. sent'[u] = sent[u]
      BY <1>6
    <3>2. QED BY ZenonT(60), <1>1, <3>1 DEF OwnPiecesOnly
  <2>3. QED BY <2>1, <2>2
<1> QED BY <1>8, <1>9, <1>10 DEF IInv

LEMMA NextIInv == ASSUME IInv, [Next]_vars PROVE IInv'
<1>1. CASE UNCHANGED vars
  BY ZenonT(60), <1>1 DEF vars, IInv, TypeOK, BuffersInv, WhereInv, OwnPiecesOnly,
              Own, Current
<1>2. ASSUME NEW t \in Thread,
             \/ \E d \in Dao : Begin(t, d)
             \/ And(t) \/ IsNull(t) \/ OrderBy(t) \/ Limit(t) \/ Join(t) \/ IdOfCached(t)
             \/ \E kind \in {"condition", "sql"} : Or(t, kind)
             \/ \E op \in {"selectOne", "select", "set", "remove"}, set \in SetText :
                  Send(t, op, set)
             \/ SetCachedByObject(t) \/ SetNothing(t) \/ Refuse(t) \/ CountFails(t)
             \/ Hit(t) \/ Abandon(t)
      PROVE  IInv'
  BY <1>2, BeginIInv, AndIInv, OrIInv, IsNullIInv, OrderByIInv, LimitIInv, JoinIInv,
     IdOfCachedIInv, SendIInv, SetCachedByObjectIInv, SetNothingIInv, LeavingIInv,
     CountFailsIInv
<1> QED BY <1>1, <1>2 DEF Next

(* The invariant of the buffers: every chain of every thread.              *)
THEOREM Invariance == Spec => []IInv
BY InitIInv, NextIInv, PTL DEF Spec

(* The variables keep their types.                                         *)
THEOREM TypeCorrect == Spec => []TypeOK
BY Invariance, PTL DEF IInv

(* A statement is made of its own chain's calls, when no earlier chain of  *)
(* the thread ended without clearing (Dao's thread-local buffers).         *)
THEOREM StatementsAreOwn == Spec => []OwnPiecesOnly
BY Invariance, PTL DEF IInv

LEMMA SomeKind ==
  ASSUME NEW w \in Seq(Piece), w # <<>>
  PROVE  \E i \in DOMAIN w : w[i].kind \in Kind
<1>1. Len(w) \in Nat /\ Len(w) # 0 /\ DOMAIN w = 1..Len(w)
  OBVIOUS
<1>2. 1 \in DOMAIN w /\ w[1] \in Piece
  BY <1>1
<1> QED BY <1>2 DEF Piece

LEMMA IInvRestricts == IInv => WritesAreRestricted
<1> SUFFICES ASSUME IInv, NEW t \in Thread, sent[t] # NoStatement,
                    sent[t].op \in {"set", "remove"},
                    {sent[t].where[i].kind : i \in DOMAIN sent[t].where}
                      \intersect {"order", "limit"} = {}
             PROVE  {sent[t].where[i].kind : i \in DOMAIN sent[t].where}
                      \intersect {"condition", "null", "sql"} # {}
  BY DEF WritesAreRestricted
<1>1. sent[t].where \in Seq(Piece) /\ sent[t].where # <<>>
  BY DEF IInv, TypeOK, WhereInv, Sent
<1>2. PICK i \in DOMAIN sent[t].where : sent[t].where[i].kind \in Kind
  BY <1>1, SomeKind
<1> QED BY <1>2 DEF Kind

(* An UPDATE or DELETE built by a chain is restricted by a condition, if   *)
(* the chain has no ORDER BY and no limit.                                 *)
THEOREM WritesRestricted == Spec => []WritesAreRestricted
BY Invariance, IInvRestricts, PTL

(***************************************************************************)
(* The values stay at their places.  The second invariant, FInv, is        *)
(* inductive beside the first: a call that binds a value appends the piece *)
(* it is for, so that the map from values to pieces grows at its end.      *)
(***************************************************************************)
LEMMA NoValues == ASSUME NEW kinds PROVE ValuesAt(<<>>, <<>>, kinds)
<1>1. DOMAIN <<>> = {}
  OBVIOUS
<1> DEFINE at == [i \in DOMAIN <<>> |-> 0]
<1>2. at \in [DOMAIN <<>> -> DOMAIN <<>>]
  BY <1>1
<1> QED BY <1>1, <1>2 DEF ValuesAt

LEMMA TextGrows ==
  ASSUME NEW kinds, NEW w \in Seq(Piece), NEW b \in Seq(Chain), NEW x \in Piece,
         ValuesAt(w, b, kinds), x.kind \notin kinds
  PROVE  ValuesAt(Append(w, x), b, kinds)
<1>1. PICK at \in [DOMAIN b -> DOMAIN w] :
        /\ \A i, j \in DOMAIN b : i < j => at[i] < at[j]
        /\ \A p \in DOMAIN w : w[p].kind \in kinds <=> \E i \in DOMAIN b : at[i] = p
        /\ \A i \in DOMAIN b : b[i] = w[at[i]].chain
  BY DEF ValuesAt
<1> DEFINE v == Append(w, x)
<1>2. /\ DOMAIN w = 1..Len(w) /\ DOMAIN v = 1..(Len(w) + 1) /\ Len(w) \in Nat
      /\ \A p \in DOMAIN w : v[p] = w[p]
      /\ v[Len(w) + 1] = x
  OBVIOUS
<1> HIDE DEF v
<1>3. DOMAIN w \subseteq DOMAIN v /\ at \in [DOMAIN b -> DOMAIN v]
  BY <1>2
<1>4. \A p \in DOMAIN v : v[p].kind \in kinds <=> \E i \in DOMAIN b : at[i] = p
  <2> SUFFICES ASSUME NEW p \in DOMAIN v
               PROVE  v[p].kind \in kinds <=> \E i \in DOMAIN b : at[i] = p
    OBVIOUS
  <2>1. CASE p \in DOMAIN w
    BY <1>1, <1>2, <2>1
  <2>2. CASE p = Len(w) + 1
    <3>1. \A i \in DOMAIN b : at[i] # p
      BY <1>2, <2>2
    <3>2. QED BY <1>2, <2>2, <3>1
  <2>3. QED BY <1>2, <2>1, <2>2
<1>5. \A i \in DOMAIN b : b[i] = v[at[i]].chain
  BY <1>1, <1>2
<1>6. ValuesAt(v, b, kinds)
  BY <1>1, <1>3, <1>4, <1>5 DEF ValuesAt
<1> QED BY <1>6 DEF v

LEMMA ValueComes ==
  ASSUME NEW kinds, NEW w \in Seq(Piece), NEW b \in Seq(Chain), NEW x \in Piece,
         ValuesAt(w, b, kinds), x.kind \in kinds
  PROVE  ValuesAt(Append(w, x), Append(b, x.chain), kinds)
<1>1. PICK at \in [DOMAIN b -> DOMAIN w] :
        /\ \A i, j \in DOMAIN b : i < j => at[i] < at[j]
        /\ \A p \in DOMAIN w : w[p].kind \in kinds <=> \E i \in DOMAIN b : at[i] = p
        /\ \A i \in DOMAIN b : b[i] = w[at[i]].chain
  BY DEF ValuesAt
<1> DEFINE v == Append(w, x)
           c == Append(b, x.chain)
           m == Len(w) + 1
           n == Len(b) + 1
           to == [i \in DOMAIN c |-> IF i = n THEN m ELSE at[i]]
<1>2. /\ DOMAIN w = 1..Len(w) /\ DOMAIN v = 1..m /\ Len(w) \in Nat
      /\ \A p \in DOMAIN w : v[p] = w[p]
      /\ v[m] = x
  OBVIOUS
<1>3. x.chain \in Chain
  BY DEF Piece
<1>4. /\ DOMAIN b = 1..Len(b) /\ DOMAIN c = 1..n /\ Len(b) \in Nat
      /\ \A i \in DOMAIN b : c[i] = b[i]
      /\ c[n] = x.chain
  BY <1>3
<1> HIDE DEF v, c
<1>5. /\ \A i \in DOMAIN b : to[i] = at[i] /\ to[i] \in DOMAIN w /\ i # n /\ i \in DOMAIN c
      /\ to[n] = m /\ n \in DOMAIN c
      /\ \A i \in DOMAIN c : i \in DOMAIN b \/ i = n
      /\ \A p \in DOMAIN v : p \in DOMAIN w \/ p = m
      /\ m \notin DOMAIN w /\ m \in DOMAIN v /\ DOMAIN w \subseteq DOMAIN v
  BY <1>2, <1>4
<1>6. to \in [DOMAIN c -> DOMAIN v]
  BY <1>5
<1>7. \A i, j \in DOMAIN c : i < j => to[i] < to[j]
  <2> SUFFICES ASSUME NEW i \in DOMAIN c, NEW j \in DOMAIN c, i < j
               PROVE  to[i] < to[j]
    OBVIOUS
  <2>1. i \in DOMAIN b
    BY <1>4
  <2>2. CASE j \in DOMAIN b
    BY <1>1, <1>5, <2>1, <2>2
  <2>3. CASE j = n
    <3>1. to[i] \in 1..Len(w) /\ to[j] = m
      BY <1>2, <1>5, <2>1, <2>3
    <3> HIDE DEF to
    <3>2. QED BY <1>2, <3>1
  <2>4. QED BY <1>5, <2>2, <2>3
<1> HIDE DEF to, m, n
<1>8. \A p \in DOMAIN v : v[p].kind \in kinds <=> \E i \in DOMAIN c : to[i] = p
  <2> SUFFICES ASSUME NEW p \in DOMAIN v
               PROVE  v[p].kind \in kinds <=> \E i \in DOMAIN c : to[i] = p
    OBVIOUS
  <2>1. CASE p \in DOMAIN w
    <3>1. (\E i \in DOMAIN c : to[i] = p) <=> \E i \in DOMAIN b : at[i] = p
      BY <1>5, <2>1
    <3>2. QED BY <1>1, <1>2, <2>1, <3>1
  <2>2. CASE p = m
    BY <1>2, <1>5, <2>2
  <2>3. QED BY <1>5, <2>1, <2>2
<1>9. \A i \in DOMAIN c : c[i] = v[to[i]].chain
  BY <1>1, <1>2, <1>4, <1>5
<1>10. ValuesAt(v, c, kinds)
  BY <1>6, <1>7, <1>8, <1>9 DEF ValuesAt
<1> QED BY <1>10 DEF v, c

(* A step of t that keeps, empties or extends its buffers together, and    *)
(* sends nothing or what they held.                                        *)
FitStep(t) ==
  /\ \A u \in Thread \ {t} :
       where'[u] = where[u] /\ bindings'[u] = bindings[u] /\ sent'[u] = sent[u]
  /\ ValuesAt(where'[t], bindings'[t], Binding)
  /\ \/ sent'[t] \in {sent[t], NoStatement}
     \/ sent'[t].where = where[t] /\ sent'[t].bindings = bindings[t]

LEMMA FitStepFInv == ASSUME FInv, NEW t \in Thread, FitStep(t) PROVE FInv'
<1> SUFFICES ASSUME NEW u \in Thread
             PROVE  /\ ValuesAt(where'[u], bindings'[u], Binding)
                    /\ sent'[u] # NoStatement =>
                         ValuesAt(sent'[u].where, sent'[u].bindings, Binding)
  BY DEF FInv, ValuesAt, Binding
<1>1. /\ ValuesAt(where[u], bindings[u], Binding)
      /\ sent[u] # NoStatement => ValuesAt(sent[u].where, sent[u].bindings, Binding)
  BY DEF FInv
<1>2. CASE u # t
  BY <1>1, <1>2 DEF FitStep
<1>3. CASE u = t
  BY <1>1, <1>3 DEF FitStep
<1> QED BY <1>2, <1>3

(* A building call that appends a piece of this kind, with a value or not. *)
LEMMA PieceFits ==
  ASSUME IInv, FInv, NEW t \in Thread, chain[t].open, NEW kind \in Kind,
         AppendPiece(t, kind), UNCHANGED sent,
         \/ kind \in Binding /\ Bind(t)
         \/ kind \notin Binding /\ UNCHANGED bindings
  PROVE  FInv'
<1> DEFINE x == [chain |-> Current(t), kind |-> kind]
<1>1. /\ where \in [Thread -> Seq(Piece)] /\ bindings \in [Thread -> Seq(Chain)]
      /\ ValuesAt(where[t], bindings[t], Binding)
  BY DEF IInv, TypeOK, FInv
<1>2. x \in Piece /\ x.kind = kind /\ x.chain = Current(t)
  BY CurrentIsChain DEF IInv, Piece
<1>3. where' = [where EXCEPT ![t] = Append(where[t], x)]
  BY DEF AppendPiece
<1> HIDE DEF x
<1>4. where'[t] = Append(where[t], x) /\ \A u \in Thread \ {t} : where'[u] = where[u]
  BY <1>1, <1>3
<1>5. /\ ValuesAt(where'[t], bindings'[t], Binding)
      /\ \A u \in Thread \ {t} : bindings'[u] = bindings[u]
  <2>1. CASE kind \in Binding /\ Bind(t)
    <3>1. /\ bindings'[t] = Append(bindings[t], x.chain)
          /\ \A u \in Thread \ {t} : bindings'[u] = bindings[u]
      BY <1>1, <1>2, <2>1 DEF Bind
    <3>2. ValuesAt(Append(where[t], x), Append(bindings[t], x.chain), Binding)
      BY <1>1, <1>2, <2>1, ValueComes
    <3>3. QED BY <1>4, <3>1, <3>2
  <2>2. CASE kind \notin Binding /\ UNCHANGED bindings
    <3>1. ValuesAt(Append(where[t], x), bindings[t], Binding)
      BY <1>1, <1>2, <2>2, TextGrows
    <3>2. QED BY <1>4, <2>2, <3>1
  <2>3. QED BY <2>1, <2>2
<1>6. FitStep(t)
  BY <1>4, <1>5 DEF FitStep
<1> QED BY <1>6, FitStepFInv

(* A call that leaves text and values as they are, or empties both.        *)
LEMMA EndFits ==
  ASSUME IInv, FInv, NEW t \in Thread,
         \/ UNCHANGED <<where, bindings>>
         \/ /\ where' = [where EXCEPT ![t] = <<>>]
            /\ bindings' = [bindings EXCEPT ![t] = <<>>],
         \/ UNCHANGED sent
         \/ sent' = [sent EXCEPT ![t] = NoStatement]
         \/ \E op \in Selects \union Writes, set \in SetText :
              sent' = [sent EXCEPT ![t] = Statement(t, op, set)]
  PROVE  FInv'
<1>1. /\ where \in [Thread -> Seq(Piece)] /\ bindings \in [Thread -> Seq(Chain)]
      /\ sent \in [Thread -> Sent \union {NoStatement}]
      /\ ValuesAt(where[t], bindings[t], Binding)
  BY DEF IInv, TypeOK, FInv
<1>2. /\ ValuesAt(where'[t], bindings'[t], Binding)
      /\ \A u \in Thread \ {t} : where'[u] = where[u] /\ bindings'[u] = bindings[u]
  <2>1. CASE UNCHANGED <<where, bindings>>
    BY <1>1, <2>1
  <2>2. CASE /\ where' = [where EXCEPT ![t] = <<>>]
             /\ bindings' = [bindings EXCEPT ![t] = <<>>]
    <3>1. /\ where'[t] = <<>> /\ bindings'[t] = <<>>
          /\ \A u \in Thread \ {t} : where'[u] = where[u] /\ bindings'[u] = bindings[u]
      BY <1>1, <2>2
    <3>2. QED BY <3>1, NoValues
  <2>3. QED BY <2>1, <2>2
<1>3. /\ \A u \in Thread \ {t} : sent'[u] = sent[u]
      /\ \/ sent'[t] \in {sent[t], NoStatement}
         \/ sent'[t].where = where[t] /\ sent'[t].bindings = bindings[t]
  <2>1. CASE UNCHANGED sent
    BY <2>1
  <2>2. CASE sent' = [sent EXCEPT ![t] = NoStatement]
    BY <1>1, <2>2
  <2>3. ASSUME NEW op \in Selects \union Writes, NEW set \in SetText,
               sent' = [sent EXCEPT ![t] = Statement(t, op, set)]
        PROVE  /\ \A u \in Thread \ {t} : sent'[u] = sent[u]
               /\ sent'[t].where = where[t] /\ sent'[t].bindings = bindings[t]
    <3>1. sent'[t] = Statement(t, op, set) /\ \A u \in Thread \ {t} : sent'[u] = sent[u]
      BY <1>1, <2>3
    <3>2. Statement(t, op, set).where = where[t] /\ Statement(t, op, set).bindings = bindings[t]
      BY DEF Statement
    <3>3. QED BY <3>1, <3>2
  <2>4. QED BY <2>1, <2>2, <2>3
<1>4. FitStep(t)
  BY <1>2, <1>3 DEF FitStep
<1> QED BY <1>4, FitStepFInv

LEMMA InitFInv == Init => FInv
<1> SUFFICES ASSUME Init, NEW t \in Thread
             PROVE  /\ ValuesAt(where[t], bindings[t], Binding)
                    /\ sent[t] # NoStatement =>
                         ValuesAt(sent[t].where, sent[t].bindings, Binding)
  BY DEF FInv
<1>1. where[t] = <<>> /\ bindings[t] = <<>> /\ sent[t] = NoStatement
  BY DEF Init
<1> QED BY <1>1, NoValues

LEMMA NextFInv == ASSUME IInv, FInv, [Next]_vars PROVE FInv'
<1>1. CASE UNCHANGED vars
  BY <1>1 DEF vars, FInv, ValuesAt
<1>2. ASSUME NEW t \in Thread, And(t) \/ IdOfCached(t) PROVE FInv'
  <2>1. /\ chain[t].open /\ AppendPiece(t, "condition") /\ Bind(t) /\ UNCHANGED sent
        /\ "condition" \in Kind /\ "condition" \in Binding
    BY <1>2 DEF And, IdOfCached, Building, Kind, Binding
  <2>2. QED BY <2>1, PieceFits
<1>10. ASSUME NEW t \in Thread, NEW kind \in {"condition", "sql"}, Or(t, kind) PROVE FInv'
  <2>1. /\ chain[t].open /\ AppendPiece(t, kind) /\ Bind(t) /\ UNCHANGED sent
        /\ kind \in Kind /\ kind \in Binding
    BY <1>10 DEF Or, Building, Kind, Binding
  <2>2. QED BY <2>1, PieceFits
<1>3. ASSUME NEW t \in Thread, Limit(t) PROVE FInv'
  <2>1. /\ chain[t].open /\ AppendPiece(t, "limit") /\ Bind(t) /\ UNCHANGED sent
        /\ "limit" \in Kind /\ "limit" \in Binding
    BY <1>3 DEF Limit, Building, Kind, Binding
  <2>2. QED BY <2>1, PieceFits
<1>4. ASSUME NEW t \in Thread, IsNull(t) PROVE FInv'
  <2>1. /\ chain[t].open /\ AppendPiece(t, "null") /\ UNCHANGED <<bindings, sent>>
        /\ "null" \in Kind /\ "null" \notin Binding
    BY <1>4 DEF IsNull, Building, Kind, Binding
  <2>2. QED BY <2>1, PieceFits
<1>5. ASSUME NEW t \in Thread, OrderBy(t) PROVE FInv'
  <2>1. /\ chain[t].open /\ AppendPiece(t, "order") /\ UNCHANGED <<bindings, sent>>
        /\ "order" \in Kind /\ "order" \notin Binding
    BY <1>5 DEF OrderBy, Building, Kind, Binding
  <2>2. QED BY <2>1, PieceFits
<1>6. ASSUME NEW t \in Thread,
             \/ \E d \in Dao : Begin(t, d)
             \/ Join(t) \/ Refuse(t) \/ CountFails(t) \/ Hit(t) \/ Abandon(t)
      PROVE  FInv'
  <2>1. /\ UNCHANGED <<where, bindings>>
        /\ \/ UNCHANGED sent
           \/ sent' = [sent EXCEPT ![t] = NoStatement]
    BY <1>6 DEF Begin, Join, Refuse, CountFails, Hit, Abandon, Leave
  <2>2. QED BY <2>1, EndFits
<1>7. ASSUME NEW t \in Thread, NEW op \in {"selectOne", "select", "set", "remove"},
             NEW set \in SetText, Send(t, op, set)
      PROVE  FInv'
  <2>1. /\ where' = [where EXCEPT ![t] = <<>>]
        /\ bindings' = [bindings EXCEPT ![t] = <<>>]
        /\ op \in Selects \union Writes
        /\ sent' = [sent EXCEPT ![t] = Statement(t, op, set)]
    BY <1>7 DEF Send, clear, Selects, Writes
  <2>2. QED BY <2>1, EndFits
<1>8. ASSUME NEW t \in Thread, SetCachedByObject(t) PROVE FInv'
  <2>1. /\ where' = [where EXCEPT ![t] = <<>>]
        /\ bindings' = [bindings EXCEPT ![t] = <<>>]
        /\ "setByObject" \in Selects \union Writes /\ "bound" \in SetText
        /\ sent' = [sent EXCEPT ![t] = Statement(t, "setByObject", "bound")]
    BY <1>8 DEF SetCachedByObject, Writes, SetText
  <2>2. QED BY <2>1, EndFits
<1>9. ASSUME NEW t \in Thread, SetNothing(t) PROVE FInv'
  <2>1. /\ where' = [where EXCEPT ![t] = <<>>]
        /\ bindings' = [bindings EXCEPT ![t] = <<>>]
        /\ UNCHANGED sent
    BY <1>9 DEF SetNothing, clear
  <2>2. QED BY <2>1, EndFits
<1> QED BY <1>1, <1>2, <1>3, <1>4, <1>5, <1>6, <1>7, <1>8, <1>9, <1>10 DEF Next

(* Without limits and alternatives of plain SQL the kinds that bind a      *)
(* value are the conditions.                                               *)
LEMMA FInvFits == FInv => ValuesFitPlaces
<1> SUFFICES ASSUME FInv, NEW t \in Thread, sent[t] # NoStatement,
                    \A i \in DOMAIN sent[t].where : sent[t].where[i].kind \notin {"limit", "sql"}
             PROVE  ValuesAt(sent[t].where, sent[t].bindings, {"condition"})
  BY DEF ValuesFitPlaces
<1> DEFINE w == sent[t].where
           b == sent[t].bindings
<1>1. PICK at \in [DOMAIN b -> DOMAIN w] :
        /\ \A i, j \in DOMAIN b : i < j => at[i] < at[j]
        /\ \A p \in DOMAIN w : w[p].kind \in Binding <=> \E i \in DOMAIN b : at[i] = p
        /\ \A i \in DOMAIN b : b[i] = w[at[i]].chain
  BY DEF FInv, ValuesAt
<1>2. \A p \in DOMAIN w : w[p].kind \in Binding <=> w[p].kind \in {"condition"}
  BY DEF Binding
<1> HIDE DEF w, b
<1>3. ValuesAt(w, b, {"condition"})
  BY <1>1, <1>2 DEF ValuesAt
<1> QED BY <1>3 DEF w, b

(* The values of a statement stand at the places they were given for, for  *)
(* any chains of any threads and whatever was left in the buffers, unless  *)
(* one of its calls is limit, offset, an or of plain SQL or a set of an    *)
(* expression without a value.                                             *)
THEOREM ValuesFit == Spec => []ValuesFitPlaces
<1>1. Init => IInv /\ FInv
  BY InitIInv, InitFInv
<1>2. IInv /\ FInv /\ [Next]_vars => (IInv /\ FInv)'
  BY NextIInv, NextFInv
<1> QED BY <1>1, <1>2, FInvFits, PTL DEF Spec
=============================================================================
