--------------------------- MODULE ComposerProofs ---------------------------
(***************************************************************************)
(* Proofs about Composer, for every base, set of messages and number of    *)
(* connections: it loses no byte of a stream that is whole, and does no    *)
(* step its Link would not do.  First the digits of a length, then         *)
(* streams, types, the invariant and the refinement.                       *)
(***************************************************************************)
EXTENDS Composer, SequenceTheorems, FiniteSetTheorems, WellFoundedInduction, TLAPS

(* Induction: a set that has each number as soon as it has all smaller     *)
(* ones has them all.                                                      *)
LEMMA Counting ==
  ASSUME NEW S, \A n \in Nat : (\A k \in 0..n-1 : k \in S) => n \in S
  PROVE  Nat \subseteq S
<1> DEFINE R == {ss \in Nat \X Nat : ss[1] < ss[2]}
           T == Nat \ S
<1>1. SUFFICES ASSUME T # {} PROVE FALSE
  OBVIOUS
<1>2. IsWellFoundedOn(R, Nat)
  BY NatLessThanWellFounded DEF OpToRel
<1>3. PICK m \in T : \A y \in T : ~ (<<y, m>> \in R)
  <2>1. T \subseteq Nat /\ T # {}
    BY <1>1
  <2> HIDE DEF T, R
  <2> QED BY <1>2, <2>1, WFMin
<1>4. ASSUME NEW k \in 0..m-1, k \notin S
      PROVE  FALSE
  <2>1. k \in T /\ <<k, m>> \in R
    BY <1>4
  <2> HIDE DEF T, R
  <2> QED BY <1>3, <2>1
<1> QED BY <1>3, <1>4

UpTo(n) == 0..n

(* F says what a function is at a number from what it is at smaller ones.  *)
Unrolls(F, N, V) ==
  /\ N \in Nat /\ V # {} /\ F \in [[UpTo(N) -> V] -> [UpTo(N) -> V]]
  /\ \A f, g \in [UpTo(N) -> V], n \in UpTo(N) :
       (\A k \in 0..n-1 : f[k] = g[k]) => F[f][n] = F[g][n]

(* Such a function exists: a recursive function of the model is one.       *)
LEMMA Unrolling ==
  ASSUME NEW N, NEW V, NEW F, Unrolls(F, N, V)
  PROVE  \E f \in [UpTo(N) -> V] : f = F[f]
<1> USE DEF Unrolls, UpTo
<1>0. PICK v : v \in V
  OBVIOUS
<1> DEFINE Right(f, n) == \A c \in UpTo(N) : c < n => f[c] = F[f][c]
           S == {n \in Nat : \E f \in [UpTo(N) -> V] : Right(f, n)}
<1>1. 0 \in S
  <2> DEFINE f == [c \in UpTo(N) |-> v]
  <2>2. f \in [UpTo(N) -> V]
    BY <1>0
  <2>3. Right(f, 0)
    OBVIOUS
  <2> HIDE DEF f, Right
  <2> QED BY <2>2, <2>3
<1>2. ASSUME NEW n \in Nat, n \in S
      PROVE  n + 1 \in S
  <2>1. PICK f \in [UpTo(N) -> V] : Right(f, n)
    BY <1>2
  <2> DEFINE g == [c \in UpTo(N) |-> IF c = n THEN F[f][c] ELSE f[c]]
  <2>2. g \in [UpTo(N) -> V]
    <3>1. F[f] \in [UpTo(N) -> V]
      OBVIOUS
    <3> QED BY <3>1
  <2>3. ASSUME NEW c \in UpTo(N), c < n + 1
        PROVE  g[c] = F[g][c]
    <3>1. \A k \in 0..c-1 : f[k] = g[k]
      BY <2>3
    <3>2. F[f][c] = F[g][c]
      <4> HIDE DEF g
      <4> QED BY <3>1, <2>2
    <3>3. g[c] = IF c = n THEN F[f][c] ELSE f[c]
      OBVIOUS
    <3>4. c # n => c < n /\ f[c] = F[f][c]
      BY <2>1, <2>3
    <3>5. g[c] = F[f][c]
      <4> HIDE DEF g, Right
      <4> QED BY <3>3, <3>4
    <3> QED BY <3>2, <3>5
  <2> HIDE DEF g
  <2> QED BY <2>2, <2>3, n + 1 \in Nat
<1>3. N + 1 \in S
  <2>1. ASSUME NEW n \in Nat, \A k \in 0..n-1 : k \in S
        PROVE  n \in S
    <3> HIDE DEF S
    <3>1. CASE n = 0
      BY <1>1, <3>1
    <3>2. CASE n # 0
      <4>1. n - 1 \in Nat /\ n - 1 \in 0..n-1 /\ (n - 1) + 1 = n
        BY <3>2
      <4> QED BY <1>2, <2>1, <4>1
    <3> QED BY <3>1, <3>2
  <2> HIDE DEF S
  <2> QED BY <2>1, Counting, N + 1 \in Nat
<1>4. PICK f \in [UpTo(N) -> V] : Right(f, N + 1)
  BY <1>3
<1>5. \A c \in UpTo(N) : f[c] = F[f][c]
  BY <1>4
<1> QED BY <1>5

-----------------------------------------------------------------------------
Digit == 0 .. Base-1

(* Quotient and remainder by the base.                                     *)
LEMMA Division ==
  ASSUME NEW n \in Nat
  PROVE  /\ n = (n \div Base) * Base + (n % Base)
         /\ n % Base \in Digit /\ n \div Base \in Nat
         /\ n > 0 => n \div Base < n
         /\ n < Base => n \div Base = 0 /\ n % Base = n
BY ComposerAssumption DEF Digit

DigitsTo(n) ==
    LET digits[k \in 0..n] == IF k = 0 THEN <<>> ELSE Append(digits[k \div Base], k % Base)
    IN  digits

(* The digits of every number up to n, as the recursion gives them.        *)
LEMMA DigitsToDef ==
  ASSUME NEW n \in Nat
  PROVE  /\ Digits(n) = DigitsTo(n)[n]
         /\ \A k \in 0..n : DigitsTo(n)[k] \in Seq(Digit)
         /\ \A k \in 0..n : DigitsTo(n)[k] =
              IF k = 0 THEN <<>> ELSE Append(DigitsTo(n)[k \div Base], k % Base)
<1> DEFINE C == UpTo(n)
           V == Seq(Digit)
           D(f, k) == IF k = 0 THEN <<>> ELSE Append(f[k \div Base], k % Base)
           F == [f \in [C -> V] |-> [k \in C |-> D(f, k)]]
           M == DigitsTo(n)
<1>0. \A k : k \in C <=> k \in 0..n
  BY DEF UpTo
<1> HIDE DEF C
<1>1. ASSUME NEW k \in C, k # 0
      PROVE  k \div Base \in C /\ k \div Base \in 0..k-1 /\ k % Base \in Digit
  <2>1. k \in Nat
    BY <1>0
  <2> QED BY <1>0, <1>1, <2>1, Division
<1>2. <<>> \in V
  BY EmptySeq
<1>3. ASSUME NEW k \in C, NEW f, k # 0 => f[k \div Base] \in V
      PROVE  D(f, k) \in V
  BY <1>1, <1>2, <1>3, AppendProperties
<1>4. F \in [[C -> V] -> [C -> V]]
  <2>1. ASSUME NEW f \in [C -> V], NEW k \in C
        PROVE  D(f, k) \in V
    <3> HIDE DEF D, V
    <3> QED BY <1>1, <1>3
  <2> HIDE DEF D, V
  <2> QED BY <2>1
<1>5. ASSUME NEW f \in [C -> V], NEW g \in [C -> V], NEW k \in C,
             \A i \in 0..k-1 : f[i] = g[i]
      PROVE  F[f][k] = F[g][k]
  <2>1. D(f, k) = D(g, k)
    BY <1>1, <1>5
  <2> HIDE DEF D, V
  <2> QED BY <2>1
<1>6. PICK f \in [C -> V] : f = F[f]
  <2> HIDE DEF F, V
  <2>1. Unrolls(F, n, V)
    BY <1>2, <1>4, <1>5 DEF Unrolls, C
  <2> QED BY <2>1, Unrolling DEF C
<1>7. f = [k \in C |-> D(f, k)]
  <2> HIDE DEF D, V
  <2> QED BY <1>6
<1>8. M = [k \in C |-> D(M, k)]
  BY <1>7, Zenon DEF DigitsTo, C, UpTo
<1>9. Digits(n) = M[n]
  BY Zenon DEF Digits, DigitsTo
<1>10. \A k \in C : M[k] = D(M, k)
  <2> HIDE DEF D, M
  <2> QED BY <1>8
<1> DEFINE S == {k \in Nat : k \in C => M[k] \in V}
<1>11. ASSUME NEW k \in Nat, \A i \in 0..k-1 : i \in S
       PROVE  k \in S
  <2>1. SUFFICES ASSUME k \in C PROVE M[k] \in V
    OBVIOUS
  <2>2. k # 0 => M[k \div Base] \in V
    <3> HIDE DEF M, V
    <3> QED BY <1>1, <1>11, <2>1
  <2> HIDE DEF M, V, D
  <2> QED BY <1>3, <1>10, <2>1, <2>2
<1>12. Nat \subseteq S
  <2> HIDE DEF S
  <2> QED BY <1>11, Counting
<1>13. \A k \in 0..n : M[k] \in V
  <2> HIDE DEF M, V
  <2> QED BY <1>0, <1>12
<1> HIDE DEF M, V
<1> QED BY <1>0, <1>9, <1>10, <1>13 DEF M, V

(* The recursion does not depend on where it began.                        *)
LEMMA DigitsStep ==
  ASSUME NEW n \in Nat
  PROVE  /\ Digits(n) \in Seq(Digit)
         /\ n = 0 => Digits(n) = <<>>
         /\ n # 0 => Digits(n) = Append(Digits(n \div Base), n % Base)
<1> DEFINE S == {k \in Nat : \A a, b \in Nat : k <= a /\ k <= b => DigitsTo(a)[k] = DigitsTo(b)[k]}
<1>0. ASSUME NEW c \in Nat, NEW k \in 0..c
      PROVE  /\ DigitsTo(c)[k] \in Seq(Digit)
             /\ k = 0 => DigitsTo(c)[k] = <<>>
             /\ k # 0 => DigitsTo(c)[k] = Append(DigitsTo(c)[k \div Base], k % Base)
  <2>1. DigitsTo(c)[k] = IF k = 0 THEN <<>> ELSE Append(DigitsTo(c)[k \div Base], k % Base)
    BY DigitsToDef, Zenon
  <2> QED BY <2>1, DigitsToDef, Zenon
<1>1. ASSUME NEW k \in Nat, \A i \in 0..k-1 : i \in S
      PROVE  k \in S
  <2>1. SUFFICES ASSUME NEW a \in Nat, NEW b \in Nat, k <= a, k <= b
                 PROVE  DigitsTo(a)[k] = DigitsTo(b)[k]
    OBVIOUS
  <2>0. k \in 0..a /\ k \in 0..b
    BY <2>1
  <2>2. CASE k = 0
    BY <1>0, <2>0, <2>2, Zenon
  <2>3. CASE k # 0
    <3>1. k \div Base \in 0..k-1 /\ k \div Base \in Nat /\ k \div Base <= a /\ k \div Base <= b
      BY <2>1, <2>3, Division
    <3>2. DigitsTo(a)[k \div Base] = DigitsTo(b)[k \div Base]
      BY <1>1, <3>1
    <3> QED BY <1>0, <2>0, <2>3, <3>2, Zenon
  <2> QED BY <2>2, <2>3
<1>2. Nat \subseteq S
  <2> HIDE DEF S
  <2> QED BY <1>1, Counting
<1>3. n \in 0..n
  OBVIOUS
<1>4. ASSUME n # 0
      PROVE  Digits(n) = Append(Digits(n \div Base), n % Base)
  <2> DEFINE k == n \div Base
  <2>1. k \in Nat /\ k <= n /\ k <= k
    BY <1>4, Division
  <2>3. Digits(k) = DigitsTo(k)[k] /\ Digits(n) = DigitsTo(n)[n]
    BY <2>1, DigitsToDef, Zenon
  <2>4. DigitsTo(n)[n] = Append(DigitsTo(n)[k], n % Base)
    BY <1>0, <1>3, <1>4, Zenon
  <2> HIDE DEF k
  <2>2. DigitsTo(n)[k] = DigitsTo(k)[k]
    BY <1>2, <2>1
  <2> QED BY <2>2, <2>3, <2>4 DEF k
<1>5. Digits(n) = DigitsTo(n)[n]
  BY DigitsToDef, Zenon
<1> QED BY <1>0, <1>3, <1>4, <1>5, Zenon

-----------------------------------------------------------------------------
Shift(value, byte) == value * Base + (byte % Base)

(* One digit more keeps a value a number.                                  *)
LEMMA ShiftIn ==
  ASSUME NEW v \in Nat, NEW b \in Byte
  PROVE  Shift(v, b) \in Nat
BY ComposerAssumption DEF Shift, Byte

ValueTo(before, digits) ==
    LET value[n \in 0..Len(digits)] ==
            IF n = 0 THEN before ELSE value[n - 1] * Base + (digits[n] % Base)
    IN  value

(* The value of the digits up to each place, as the recursion gives it.    *)
LEMMA ValueToDef ==
  ASSUME NEW before \in Nat, NEW digits \in Seq(Byte)
  PROVE  /\ Value(before, digits) = ValueTo(before, digits)[Len(digits)]
         /\ \A k \in 0..Len(digits) : ValueTo(before, digits)[k] \in Nat
         /\ ValueTo(before, digits)[0] = before
         /\ \A k \in 1..Len(digits) :
              ValueTo(before, digits)[k] = Shift(ValueTo(before, digits)[k - 1], digits[k])
<1> DEFINE n == Len(digits)
           C == UpTo(n)
           V == Nat
           D(f, k) == IF k = 0 THEN before ELSE Shift(f[k - 1], digits[k])
           F == [f \in [C -> V] |-> [k \in C |-> D(f, k)]]
           M == ValueTo(before, digits)
<1>0. n \in Nat /\ \A k : k \in C <=> k \in 0..n
  BY LenProperties DEF UpTo
<1> HIDE DEF C
<1>1. ASSUME NEW k \in C, k # 0
      PROVE  k - 1 \in C /\ k - 1 \in 0..k-1 /\ k \in 1..n /\ digits[k] \in Byte
  <2>1. k \in 1..n
    BY <1>0, <1>1
  <2> QED BY <1>0, <2>1, ElementOfSeq
<1>3. ASSUME NEW k \in C, NEW f, k # 0 => f[k - 1] \in V
      PROVE  D(f, k) \in V
  BY <1>1, <1>3, ShiftIn
<1>4. F \in [[C -> V] -> [C -> V]]
  <2>1. ASSUME NEW f \in [C -> V], NEW k \in C
        PROVE  D(f, k) \in V
    <3> HIDE DEF D
    <3> QED BY <1>1, <1>3
  <2> HIDE DEF D, V
  <2> QED BY <2>1
<1>5. ASSUME NEW f \in [C -> V], NEW g \in [C -> V], NEW k \in C,
             \A i \in 0..k-1 : f[i] = g[i]
      PROVE  F[f][k] = F[g][k]
  <2>1. D(f, k) = D(g, k)
    BY <1>1, <1>5
  <2> HIDE DEF D, V
  <2> QED BY <2>1
<1>6. PICK f \in [C -> V] : f = F[f]
  <2> HIDE DEF F, n
  <2>0. V # {}
    OBVIOUS
  <2> HIDE DEF V
  <2>1. Unrolls(F, n, V)
    BY <1>0, <2>0, <1>4, <1>5 DEF Unrolls, C
  <2> QED BY <2>1, Unrolling DEF C
<1>7. f = [k \in C |-> D(f, k)]
  <2> HIDE DEF D, V
  <2> QED BY <1>6
<1>8. M = [k \in C |-> D(M, k)]
  BY <1>7, Zenon DEF ValueTo, C, UpTo, Shift
<1>9. Value(before, digits) = M[n]
  BY Zenon DEF Value, ValueTo
<1>10. \A k \in C : M[k] = D(M, k)
  <2> HIDE DEF D, M
  <2> QED BY <1>8
<1> DEFINE S == {k \in Nat : k \in C => M[k] \in V}
<1>11. ASSUME NEW k \in Nat, \A i \in 0..k-1 : i \in S
       PROVE  k \in S
  <2>1. SUFFICES ASSUME k \in C PROVE M[k] \in V
    OBVIOUS
  <2>2. k # 0 => M[k - 1] \in V
    <3> HIDE DEF M, V
    <3> QED BY <1>1, <1>11, <2>1
  <2> HIDE DEF M, V, D
  <2> QED BY <1>3, <1>10, <2>1, <2>2
<1>12. Nat \subseteq S
  <2> HIDE DEF S
  <2> QED BY <1>11, Counting
<1>13. \A k \in 0..n : M[k] \in V
  <2> HIDE DEF M, V
  <2> QED BY <1>0, <1>12
<1>14. M[0] = before
  <2> HIDE DEF M, n
  <2> QED BY SMTT(30), <1>0, <1>10
<1>15. ASSUME NEW k \in 1..n
       PROVE  M[k] = Shift(M[k - 1], digits[k])
  <2>1. k \in C /\ k # 0
    BY <1>0
  <2> HIDE DEF M, n
  <2> QED BY <1>10, <2>1
<1> HIDE DEF M
<1> QED BY <1>9, <1>13, <1>14, <1>15 DEF M

(* f holds the values of the first bytes of s.                             *)
Run(f, b, s, n) ==
  /\ f[0] = b /\ Value(b, s) = f[n]
  /\ \A k \in 0..n : f[k] \in Nat
  /\ \A k \in 1..n : f[k] = Shift(f[k - 1], s[k])

(* The function that Value takes its result from runs through the digits.  *)
LEMMA ValueRun ==
  ASSUME NEW b \in Nat, NEW s \in Seq(Byte)
  PROVE  Run(ValueTo(b, s), b, s, Len(s))
BY ValueToDef DEF Run

(* The digits of e are those of p and then those of s.                     *)
Joins(p, s, e) ==
  /\ p \in Seq(Byte) /\ s \in Seq(Byte) /\ e \in Seq(Byte)
  /\ Len(e) = Len(p) + Len(s)
  /\ \A i \in 1..Len(p) : e[i] % Base = p[i] % Base
  /\ \A i \in 1..Len(s) : e[Len(p) + i] % Base = s[i] % Base

(* The value of two pieces of a length, one read behind the other.         *)
LEMMA ValueJoin ==
  ASSUME NEW b \in Nat, NEW p, NEW s, NEW e, Joins(p, s, e)
  PROVE  /\ Value(Value(b, p), s) = Value(b, e)
         /\ Value(b, p) \in Nat
<1> USE DEF Joins
<1> DEFINE v == Value(b, p)
<1>0. PICK lp \in Nat, ls \in Nat : lp = Len(p) /\ ls = Len(s) /\ Len(e) = lp + ls
  BY LenProperties
<1>1. /\ v = ValueTo(b, p)[lp]
      /\ ValueTo(b, p)[0] = b
      /\ \A k \in 1..lp : ValueTo(b, p)[k] = Shift(ValueTo(b, p)[k - 1], p[k])
      /\ \A k \in 0..lp : ValueTo(b, p)[k] \in Nat
  <2>1. Run(ValueTo(b, p), b, p, lp)
    BY <1>0, ValueRun, Zenon
  <2> QED BY <2>1, Zenon DEF Run
<1>2. v \in Nat
  <2>1. lp \in 0..lp
    OBVIOUS
  <2> QED BY <1>1, <2>1
<1> HIDE DEF v
<1>3. /\ Value(v, s) = ValueTo(v, s)[ls]
      /\ ValueTo(v, s)[0] = v
      /\ \A k \in 1..ls : ValueTo(v, s)[k] = Shift(ValueTo(v, s)[k - 1], s[k])
  <2>1. Run(ValueTo(v, s), v, s, ls)
    BY <1>0, <1>2, ValueRun, Zenon
  <2> QED BY <2>1, Zenon DEF Run
<1>4. /\ Value(b, e) = ValueTo(b, e)[lp + ls]
      /\ ValueTo(b, e)[0] = b
      /\ \A k \in 1..lp+ls : ValueTo(b, e)[k] = Shift(ValueTo(b, e)[k - 1], e[k])
  <2>1. Run(ValueTo(b, e), b, e, lp + ls)
    BY <1>0, ValueRun, Zenon
  <2> QED BY <2>1, Zenon DEF Run
<1> DEFINE P(k) == k <= lp => ValueTo(b, e)[k] = ValueTo(b, p)[k]
           Q(k) == k <= ls => ValueTo(b, e)[lp + k] = ValueTo(v, s)[k]
           S == {k \in Nat : P(k)}
           T == {k \in Nat : Q(k)}
<1>6. ASSUME NEW k \in Nat, \A i \in 0..k-1 : i \in S
      PROVE  k \in S
  <2>1. CASE k = 0
    BY <1>1, <1>4, <2>1
  <2>2. CASE k # 0
    <3>1. SUFFICES ASSUME k <= lp PROVE ValueTo(b, e)[k] = ValueTo(b, p)[k]
      OBVIOUS
    <3>2. k \in 1..lp /\ k \in 1..lp+ls /\ k - 1 \in 0..k-1 /\ k - 1 <= lp
      BY <2>2, <3>1
    <3>3. ValueTo(b, e)[k - 1] = ValueTo(b, p)[k - 1]
      BY <1>6, <3>2
    <3>4. e[k] % Base = p[k] % Base
      BY <1>0, <3>2
    <3>5. /\ ValueTo(b, e)[k] = Shift(ValueTo(b, e)[k - 1], e[k])
          /\ ValueTo(b, p)[k] = Shift(ValueTo(b, p)[k - 1], p[k])
      BY <1>1, <1>4, <3>2, Zenon
    <3>6. Shift(ValueTo(b, e)[k - 1], e[k]) = Shift(ValueTo(b, e)[k - 1], p[k])
      BY <3>4, Zenon DEF Shift
    <3> QED BY <3>3, <3>5, <3>6, Zenon
  <2> QED BY <2>1, <2>2
<1>7. Nat \subseteq S
  <2> HIDE DEF S
  <2> QED BY <1>6, Counting
<1>8. ValueTo(b, e)[lp] = v
  BY <1>1, <1>7
<1>9. ASSUME NEW k \in Nat, \A i \in 0..k-1 : i \in T
      PROVE  k \in T
  <2>1. CASE k = 0
    BY <1>3, <1>8, <2>1
  <2>2. CASE k # 0
    <3>1. SUFFICES ASSUME k <= ls PROVE ValueTo(b, e)[lp + k] = ValueTo(v, s)[k]
      OBVIOUS
    <3>2. k \in 1..ls /\ lp + k \in 1..lp+ls /\ k - 1 \in 0..k-1 /\ k - 1 <= ls
          /\ (lp + k) - 1 = lp + (k - 1)
      BY <2>2, <3>1
    <3>3. ValueTo(b, e)[lp + (k - 1)] = ValueTo(v, s)[k - 1]
      BY <1>9, <3>2
    <3>4. e[lp + k] % Base = s[k] % Base
      BY <1>0, <3>2
    <3>5. /\ ValueTo(b, e)[lp + k] = Shift(ValueTo(b, e)[lp + (k - 1)], e[lp + k])
          /\ ValueTo(v, s)[k] = Shift(ValueTo(v, s)[k - 1], s[k])
      BY <1>3, <1>4, <3>2
    <3>6. Shift(ValueTo(b, e)[lp + (k - 1)], e[lp + k]) = Shift(ValueTo(b, e)[lp + (k - 1)], s[k])
      BY <3>4, Zenon DEF Shift
    <3> QED BY <3>3, <3>5, <3>6, Zenon
  <2> QED BY <2>1, <2>2
<1>10. Nat \subseteq T
  <2> HIDE DEF T
  <2> QED BY <1>9, Counting
<1>11. ValueTo(b, e)[lp + ls] = ValueTo(v, s)[ls]
  BY <1>10
<1> QED BY <1>2, <1>3, <1>4, <1>11 DEF v

(* A length with no digits, and with one.                                  *)
LEMMA ValueSmall ==
  ASSUME NEW b \in Nat, NEW s \in Seq(Byte)
  PROVE  /\ s = <<>> => Value(b, s) = b
         /\ Len(s) = 1 => Value(b, s) = Shift(b, s[1])
         /\ Value(b, s) \in Nat
<1>1. PICK n \in Nat : n = Len(s)
  BY LenProperties
<1>2. s = <<>> => n = 0
  BY <1>1, EmptySeq
<1>3. n \in 0..n /\ (n = 1 => 1 \in 1..n /\ 1 - 1 = 0)
  OBVIOUS
<1>4. /\ Value(b, s) = ValueTo(b, s)[n] /\ ValueTo(b, s)[n] \in Nat
      /\ ValueTo(b, s)[0] = b
      /\ \A k \in 1..n : ValueTo(b, s)[k] = Shift(ValueTo(b, s)[k - 1], s[k])
  <2>1. Run(ValueTo(b, s), b, s, n)
    BY <1>1, ValueRun, Zenon
  <2> QED BY <1>3, <2>1, Zenon DEF Run
<1>5. n = 1 => ValueTo(b, s)[1] = Shift(ValueTo(b, s)[1 - 1], s[1])
  BY <1>3, <1>4
<1> QED BY <1>1, <1>2, <1>3, <1>4, <1>5

(* A digit is a byte, with and without its mark.                           *)
LEMMA DigitByte ==
  /\ Digit \subseteq Byte /\ Seq(Digit) \subseteq Seq(Byte)
  /\ \A d \in Digit : d \in Nat /\ d < Base /\ d % Base = d /\ (d + Base) % Base = d /\ d + Base \in Byte
<1>1. Digit \subseteq Byte
  BY ComposerAssumption DEF Digit, Byte
<1>2. ASSUME NEW s \in Seq(Digit)
      PROVE  s \in Seq(Byte)
  BY <1>1, SeqMonotonic
<1>3. ASSUME NEW d \in Digit
      PROVE  d \in Nat /\ d < Base /\ d % Base = d /\ (d + Base) % Base = d /\ d + Base \in Byte
  BY ComposerAssumption DEF Digit, Byte
<1> QED BY <1>1, <1>2, <1>3

(* The last digit, and the others, which are those of the quotient.        *)
LEMMA LastDigit ==
  ASSUME NEW n \in Nat, n # 0
  PROVE  /\ Digits(n) \in Seq(Digit) /\ Digits(n \div Base) \in Seq(Digit)
         /\ n \div Base \in Nat /\ n \div Base < n
         /\ n % Base \in Digit
         /\ Len(Digits(n)) = Len(Digits(n \div Base)) + 1
         /\ \A i \in 1..Len(Digits(n \div Base)) : Digits(n)[i] = Digits(n \div Base)[i]
         /\ Digits(n)[Len(Digits(n \div Base)) + 1] = n % Base
<1> DEFINE q == n \div Base
           r == n % Base
<1>1. q \in Nat /\ q < n /\ r \in Digit
  BY Division
<1>2. Digits(q) \in Seq(Digit)
  BY <1>1, DigitsStep
<1>3. Digits(n) = Append(Digits(q), r) /\ Digits(n) \in Seq(Digit)
  BY DigitsStep
<1> HIDE DEF q, r
<1> DEFINE d == Digits(q)
           e == Digits(n)
<1>4. d \in Seq(Digit) /\ e = Append(d, r)
  BY <1>2, <1>3
<1> HIDE DEF d, e
<1>5. /\ Len(e) = Len(d) + 1
      /\ \A i \in 1..Len(d) : e[i] = d[i]
      /\ e[Len(d) + 1] = r
  BY <1>1, <1>4, AppendProperties
<1> QED BY <1>1, <1>2, <1>3, <1>5 DEF d, e, q, r

(* Reading the digits of a length gives the length.                        *)
LEMMA ValueOfDigits ==
  ASSUME NEW n \in Nat
  PROVE  /\ Value(0, Digits(n)) = n
         /\ Digits(n) \in Seq(Digit) /\ Digits(n) \in Seq(Byte)
         /\ n = 0 => Digits(n) = <<>>
         /\ n # 0 => Len(Digits(n)) >= 1
         /\ n # 0 /\ n < Base => Len(Digits(n)) = 1
<1> DEFINE S == {k \in Nat : Value(0, Digits(k)) = k}
<1>1. \A k \in Nat : Digits(k) \in Seq(Digit) /\ Digits(k) \in Seq(Byte)
  BY DigitsStep, DigitByte
<1>2. ASSUME NEW k \in Nat, \A i \in 0..k-1 : i \in S
      PROVE  k \in S
  <2>1. CASE k = 0
    <3>1. Digits(k) = <<>> /\ <<>> \in Seq(Byte) /\ 0 \in Nat
      BY <2>1, DigitsStep, EmptySeq
    <3>2. Value(0, Digits(k)) = 0
      BY <3>1, ValueSmall, Zenon
    <3> QED BY <2>1, <3>2
  <2>2. CASE k # 0
    <3> DEFINE q == k \div Base
               r == k % Base
    <3>1. q \in Nat /\ q \in 0..k-1 /\ r \in Digit /\ r \in Byte /\ k = q * Base + r
          /\ r % Base = r
      BY <2>2, Division, DigitByte
    <3> HIDE DEF q, r
    <3> DEFINE d == Digits(q)
               e == Digits(k)
               s == <<r>>
    <3>2. /\ d \in Seq(Byte) /\ e \in Seq(Byte)
          /\ Len(e) = Len(d) + 1
          /\ \A i \in 1..Len(d) : e[i] = d[i]
          /\ e[Len(d) + 1] = r
      BY <1>1, <2>2, <3>1, LastDigit DEF q, r
    <3>3. s \in Seq(Byte) /\ Len(s) = 1 /\ s[1] = r
      BY <3>1
    <3>4. Value(0, d) = q
      BY <1>2, <3>1
    <3> HIDE DEF d, e, s
    <3>5. Value(Value(0, d), s) = Value(0, e)
      <4>1. \A i \in 1..Len(d) : e[i] % Base = d[i] % Base
        BY <3>2
      <4>2. \A i \in 1..Len(s) : e[Len(d) + i] % Base = s[i] % Base
        BY <3>2, <3>3
      <4>3. Len(e) = Len(d) + Len(s) /\ 0 \in Nat
        BY <3>2, <3>3
      <4>4. Joins(d, s, e)
        BY <3>2, <3>3, <4>1, <4>2, <4>3, Zenon DEF Joins
      <4> QED BY <4>3, <4>4, ValueJoin
    <3>6. Value(q, s) = Shift(q, r)
      BY <3>1, <3>3, ValueSmall
    <3>7. Shift(q, r) = k
      BY <3>1, Zenon DEF Shift
    <3>8. Value(0, e) = k
      BY <3>4, <3>5, <3>6, <3>7
    <3> QED BY <3>8 DEF e
  <2> QED BY <2>1, <2>2
<1>3. Nat \subseteq S
  <2> HIDE DEF S
  <2> QED BY <1>2, Counting
<1>4. ASSUME n # 0
      PROVE  Len(Digits(n)) >= 1 /\ (n < Base => Len(Digits(n)) = 1)
  <2>1. PICK l \in Nat : l = Len(Digits(n \div Base))
    BY <1>4, LastDigit, LenProperties
  <2>2. Len(Digits(n)) = l + 1
    BY <1>4, <2>1, LastDigit
  <2>3. ASSUME n < Base
        PROVE  l = 0
    <3>1. n \div Base = 0
      BY <2>3, Division
    <3>2. Digits(n \div Base) = <<>>
      BY <3>1, DigitsStep
    <3> QED BY <2>1, <3>2, EmptySeq
  <2> QED BY <2>2, <2>3
<1> QED BY <1>1, <1>3, <1>4, DigitsStep

(* The first digits of a length are the digits of their value.             *)
LEMMA FirstDigits ==
  ASSUME NEW n \in Nat, NEW j \in 0..Len(Digits(n))
  PROVE  /\ Value(0, SubSeq(Digits(n), 1, j)) \in Nat
         /\ Digits(Value(0, SubSeq(Digits(n), 1, j))) = SubSeq(Digits(n), 1, j)
<1> DEFINE First(k, m) == SubSeq(Digits(k), 1, m)
           S == {k \in Nat : \A m \in 0..Len(Digits(k)) :
                   Value(0, First(k, m)) \in Nat /\ Digits(Value(0, First(k, m))) = First(k, m)}
<1>1. ASSUME NEW k \in Nat, \A i \in 0..k-1 : i \in S
      PROVE  k \in S
  <2>1. SUFFICES ASSUME NEW m \in 0..Len(Digits(k))
                 PROVE  Value(0, First(k, m)) \in Nat /\ Digits(Value(0, First(k, m))) = First(k, m)
    OBVIOUS
  <2>2. PICK l \in Nat : l = Len(Digits(k))
    BY ValueOfDigits, LenProperties
  <2>3. CASE m = l
    <3>1. First(k, m) = Digits(k)
      BY <2>2, <2>3, ValueOfDigits, SubSeqFull
    <3> QED BY <3>1, ValueOfDigits
  <2>4. CASE m # l
    <3>1. m \in 0..l /\ m < l
      BY <2>1, <2>2, <2>4
    <3>2. k # 0
      <4>1. SUFFICES ASSUME k = 0 PROVE FALSE
        OBVIOUS
      <4>2. l = 0
        BY <2>2, <4>1, ValueOfDigits, EmptySeq
      <4> QED BY <3>1, <4>2
    <3> DEFINE q == k \div Base
    <3>3. q \in Nat /\ q \in 0..k-1 /\ m \in 0..Len(Digits(q))
      <4>1. PICK lq \in Nat : lq = Len(Digits(q))
        BY <3>2, LastDigit, LenProperties
      <4>2. l = lq + 1 /\ q \in Nat /\ q < k
        BY <2>2, <3>2, <4>1, LastDigit
      <4> QED BY <3>1, <4>1, <4>2
    <3>4. First(k, m) = First(q, m)
      <4> DEFINE d == Digits(q)
                 e == Digits(k)
      <4>1. d \in Seq(Digit) /\ e \in Seq(Digit) /\ \A i \in 1..Len(d) : e[i] = d[i]
        BY <3>2, LastDigit
      <4>2. PICK lq \in Nat : lq = Len(d)
        BY <4>1, LenProperties
      <4>3. m <= lq /\ m \in Nat /\ lq <= Len(e)
        BY <3>2, <3>3, <4>2, LastDigit
      <4> HIDE DEF d, e, q
      <4>4. \A i \in 1..m : e[i] \in Digit /\ d[i] \in Digit /\ e[i] = d[i]
        BY <4>1, <4>2, <4>3, ElementOfSeq
      <4>5. SubSeq(e, 1, m) = SubSeq(d, 1, m)
        <5>1. /\ SubSeq(e, 1, m) \in Seq(Digit) /\ SubSeq(d, 1, m) \in Seq(Digit)
              /\ Len(SubSeq(e, 1, m)) = m /\ Len(SubSeq(d, 1, m)) = m
              /\ \A i \in 1..m : SubSeq(e, 1, m)[i] = e[i] /\ SubSeq(d, 1, m)[i] = d[i]
          BY <4>3, <4>4, SubSeqProperties
        <5> DEFINE u == SubSeq(e, 1, m)
                   v == SubSeq(d, 1, m)
        <5> HIDE DEF u, v
        <5>2. u \in Seq(Digit) /\ v \in Seq(Digit) /\ Len(u) = Len(v) /\ \A i \in 1..Len(u) : u[i] = v[i]
          BY <4>4, <5>1 DEF u, v
        <5> QED BY <5>2, SeqEqual DEF u, v
      <4> QED BY <4>5 DEF d, e, q
    <3> QED BY <1>1, <3>3, <3>4
  <2> QED BY <2>3, <2>4
<1>2. Nat \subseteq S
  <2> HIDE DEF S
  <2> QED BY <1>1, Counting
<1> QED BY <1>2

-----------------------------------------------------------------------------
(* A mark changes no digit, and tells the marked bytes from the others.    *)
LEMMA MarkIs ==
  ASSUME NEW d \in Seq(Digit), NEW P
  PROVE  /\ Mark(d, P) \in Seq(Byte) /\ Len(Mark(d, P)) = Len(d)
         /\ \A i \in 1..Len(d) :
              /\ Mark(d, P)[i] = IF i \in P THEN d[i] + Base ELSE d[i]
              /\ Mark(d, P)[i] % Base = d[i] % Base
              /\ IF i \in P THEN Mark(d, P)[i] >= Base ELSE Mark(d, P)[i] < Base
<1> DEFINE E(i) == IF i \in P THEN d[i] + Base ELSE d[i]
           M == [i \in 1..Len(d) |-> E(i)]
<1>1. PICK n \in Nat : n = Len(d)
  BY LenProperties
<1>2. \A i \in 1..n : d[i] \in Digit
  BY <1>1, ElementOfSeq
<1>3. \A i \in 1..n : E(i) \in Byte /\ E(i) % Base = d[i] % Base
                       /\ IF i \in P THEN E(i) >= Base ELSE E(i) < Base
  BY <1>2, DigitByte, ComposerAssumption
<1>4. M \in [1..n -> Byte] /\ \A i \in 1..n : M[i] = E(i)
  <2> HIDE DEF E
  <2> QED BY <1>1, <1>3
<1>5. M \in Seq(Byte) /\ Len(M) = n
  <2> HIDE DEF M
  <2> QED BY <1>4, SeqDef
<1>6. M = Mark(d, P)
  BY DEF Mark
<1> HIDE DEF M
<1>7. \A i \in 1..n : /\ M[i] = IF i \in P THEN d[i] + Base ELSE d[i]
                      /\ M[i] % Base = d[i] % Base
                      /\ IF i \in P THEN M[i] >= Base ELSE M[i] < Base
  BY <1>3, <1>4
<1> QED BY <1>1, <1>5, <1>6, <1>7, Zenon

(* A header has the digits of its length, all marked but the last.         *)
LEMMA HeaderIs ==
  ASSUME NEW n \in Nat
  PROVE  /\ Header(n) \in Seq(Byte) /\ Len(Header(n)) = Len(Digits(n))
         /\ \A i \in 1..Len(Header(n)) :
              /\ Header(n)[i] % Base = Digits(n)[i] % Base
              /\ IF i < Len(Header(n)) THEN Header(n)[i] >= Base ELSE Header(n)[i] < Base
         /\ n # 0 => Len(Header(n)) >= 1
         /\ n # 0 /\ n < Base => Len(Header(n)) = 1
<1> DEFINE d == Digits(n)
           P == 1 .. Len(d) - 1
<1>1. PICK l \in Nat : l = Len(d)
  BY ValueOfDigits, LenProperties
<1>2. d \in Seq(Digit)
  BY ValueOfDigits
<1>3. \A i \in 1..l : i \in P <=> i < l
  BY <1>1
<1>4. Header(n) = Mark(d, P)
  BY DEF Header
<1>5. (n # 0 => l >= 1) /\ (n # 0 /\ n < Base => l = 1)
  BY <1>1, ValueOfDigits
<1> HIDE DEF d, P
<1>6. /\ Mark(d, P) \in Seq(Byte) /\ Len(Mark(d, P)) = l
      /\ \A i \in 1..l : /\ Mark(d, P)[i] % Base = d[i] % Base
                         /\ IF i \in P THEN Mark(d, P)[i] >= Base ELSE Mark(d, P)[i] < Base
  BY <1>1, <1>2, MarkIs
<1> QED BY <1>1, <1>3, <1>4, <1>5, <1>6 DEF d

(* A composed message is its header and then its bytes.                    *)
LEMMA ComposeIs ==
  ASSUME NEW m \in Seq(Byte)
  PROVE  /\ Compose(m) \in Seq(Byte) /\ Header(Len(m)) \in Seq(Byte)
         /\ Len(Compose(m)) = Len(Header(Len(m))) + Len(m)
         /\ \A i \in 1..Len(Header(Len(m))) : Compose(m)[i] = Header(Len(m))[i]
         /\ \A i \in 1..Len(m) : Compose(m)[Len(Header(Len(m))) + i] = m[i]
<1> DEFINE h == Header(Len(m))
<1>1. Len(m) \in Nat
  BY LenProperties
<1>2. h \in Seq(Byte) /\ Compose(m) = h \o m
  BY <1>1, HeaderIs DEF Compose
<1> HIDE DEF h
<1>3. Len(h) \in Nat
  BY <1>2, LenProperties
<1>4. h \o m \in Seq(Byte) /\ Len(h \o m) = Len(h) + Len(m)
      /\ \A i \in 1 .. Len(h) + Len(m) : (h \o m)[i] = IF i <= Len(h) THEN h[i] ELSE m[i - Len(h)]
  BY <1>2, ConcatProperties
<1> DEFINE c == h \o m
<1>5. c = h \o m
  OBVIOUS
<1> HIDE DEF c
<1>6. /\ \A i \in 1..Len(h) : c[i] = h[i]
      /\ \A i \in 1..Len(m) : c[Len(h) + i] = m[i]
  BY <1>1, <1>3, <1>4, <1>5
<1> QED BY <1>2, <1>4, <1>5, <1>6 DEF h

-----------------------------------------------------------------------------
StreamTo(messages) ==
    LET stream[n \in 0..Len(messages)] ==
            IF n = 0 THEN <<>> ELSE stream[n - 1] \o Compose(messages[n])
    IN  stream

Bytes == Seq(Byte)

(* The stream of the first k messages, as the recursion gives it.          *)
LEMMA StreamToDef ==
  ASSUME NEW messages \in Seq(Bytes)
  PROVE  /\ Stream(messages) = StreamTo(messages)[Len(messages)]
         /\ \A k \in 0..Len(messages) : StreamTo(messages)[k] \in Bytes
         /\ StreamTo(messages)[0] = <<>>
         /\ \A k \in 1..Len(messages) :
              StreamTo(messages)[k] = StreamTo(messages)[k - 1] \o Compose(messages[k])
<1> DEFINE n == Len(messages)
           C == UpTo(n)
           V == Bytes
           D(f, k) == IF k = 0 THEN <<>> ELSE f[k - 1] \o Compose(messages[k])
           F == [f \in [C -> V] |-> [k \in C |-> D(f, k)]]
           M == StreamTo(messages)
<1>0. n \in Nat /\ \A k : k \in C <=> k \in 0..n
  BY LenProperties DEF UpTo
<1> HIDE DEF C
<1>1. ASSUME NEW k \in C, k # 0
      PROVE  k - 1 \in C /\ k - 1 \in 0..k-1 /\ k \in 1..n /\ Compose(messages[k]) \in Bytes
  <2>1. k \in 1..n
    BY <1>0, <1>1
  <2>2. messages[k] \in Seq(Byte)
    BY <2>1, ElementOfSeq DEF Bytes
  <2>3. Compose(messages[k]) \in Bytes
    BY <2>2, ComposeIs DEF Bytes
  <2> QED BY <1>0, <2>1, <2>3
<1>2. <<>> \in V
  BY EmptySeq DEF Bytes
<1>3. ASSUME NEW k \in C, NEW f, k # 0 => f[k - 1] \in V
      PROVE  D(f, k) \in V
  <2>1. CASE k = 0
    BY <1>2, <2>1
  <2>2. CASE k # 0
    <3> DEFINE a == f[k - 1]
               c == Compose(messages[k])
    <3>1. a \in Seq(Byte) /\ c \in Seq(Byte) /\ D(f, k) = a \o c
      BY <1>1, <1>3, <2>2 DEF Bytes
    <3> HIDE DEF a, c, D
    <3> QED BY <3>1, ConcatProperties DEF Bytes
  <2> QED BY <2>1, <2>2
<1>4. F \in [[C -> V] -> [C -> V]]
  <2>1. ASSUME NEW f \in [C -> V], NEW k \in C
        PROVE  D(f, k) \in V
    <3> HIDE DEF D, V
    <3> QED BY <1>1, <1>3
  <2> HIDE DEF D, V
  <2> QED BY <2>1
<1>5. ASSUME NEW f \in [C -> V], NEW g \in [C -> V], NEW k \in C,
             \A i \in 0..k-1 : f[i] = g[i]
      PROVE  F[f][k] = F[g][k]
  <2>1. k # 0 => f[k - 1] = g[k - 1]
    BY <1>1, <1>5
  <2>2. D(f, k) = D(g, k)
    BY <2>1, Zenon
  <2> HIDE DEF D, V
  <2> QED BY <2>2
<1>6. PICK f \in [C -> V] : f = F[f]
  <2> HIDE DEF F, V, n
  <2>1. Unrolls(F, n, V)
    BY <1>0, <1>2, <1>4, <1>5 DEF Unrolls, C
  <2> QED BY <2>1, Unrolling DEF C
<1>7. f = [k \in C |-> D(f, k)]
  <2> HIDE DEF D, V
  <2> QED BY <1>6
<1>8. M = [k \in C |-> D(M, k)]
  BY <1>7, Zenon DEF StreamTo, C, UpTo
<1>9. Stream(messages) = M[n]
  BY Zenon DEF Stream, StreamTo
<1>10. \A k \in C : M[k] = D(M, k)
  <2> HIDE DEF D, M
  <2> QED BY <1>8
<1> DEFINE S == {k \in Nat : k \in C => M[k] \in V}
<1>11. ASSUME NEW k \in Nat, \A i \in 0..k-1 : i \in S
       PROVE  k \in S
  <2>1. SUFFICES ASSUME k \in C PROVE M[k] \in V
    OBVIOUS
  <2>2. k # 0 => M[k - 1] \in V
    <3> HIDE DEF M, V
    <3> QED BY <1>1, <1>11, <2>1
  <2> HIDE DEF M, V, D
  <2> QED BY <1>3, <1>10, <2>1, <2>2
<1>12. Nat \subseteq S
  <2> HIDE DEF S
  <2> QED BY <1>11, Counting
<1>13. \A k \in 0..n : M[k] \in V
  <2> HIDE DEF M, V
  <2> QED BY <1>0, <1>12
<1>14. M[0] = <<>>
  <2> HIDE DEF M, n
  <2> QED BY <1>0, <1>10
<1>15. ASSUME NEW k \in 1..n
       PROVE  M[k] = M[k - 1] \o Compose(messages[k])
  <2>1. k \in C /\ k # 0
    BY <1>0
  <2> HIDE DEF M, n
  <2> QED BY <1>10, <2>1, Zenon
<1> HIDE DEF M
<1> QED BY <1>9, <1>13, <1>14, <1>15 DEF M

(* One sequence of bytes begins with another.                              *)
Begins(s, t) == Len(s) <= Len(t) /\ \A i \in 1..Len(s) : t[i] = s[i]

(* The streams of the first messages: each begins with those before it,    *)
(* and goes on with the next message as it was composed.                   *)
Piled(g, messages, n) ==
  /\ \A k \in 0..n : g[k] \in Bytes
  /\ g[0] = <<>> /\ Stream(messages) = g[n]
  /\ \A k \in 1..n : /\ Len(g[k]) = Len(g[k - 1]) + Len(Compose(messages[k]))
                     /\ Begins(g[k - 1], g[k])
                     /\ \A i \in 1..Len(Compose(messages[k])) :
                          g[k][Len(g[k - 1]) + i] = Compose(messages[k])[i]
  /\ \A k \in 1..n : g[k] = g[k - 1] \o Compose(messages[k])

(* The streams of the first messages pile up one message at a time.        *)
LEMMA StreamPiled ==
  ASSUME NEW messages \in Seq(Bytes)
  PROVE  Piled(StreamTo(messages), messages, Len(messages))
<1> DEFINE g == StreamTo(messages)
           n == Len(messages)
<1>1. /\ \A k \in 0..n : g[k] \in Bytes
      /\ g[0] = <<>> /\ Stream(messages) = g[n]
      /\ \A k \in 1..n : g[k] = g[k - 1] \o Compose(messages[k])
  BY StreamToDef
<1>2. n \in Nat
  BY LenProperties
<1>3. ASSUME NEW k \in 1..n
      PROVE  /\ Len(g[k]) = Len(g[k - 1]) + Len(Compose(messages[k]))
             /\ Begins(g[k - 1], g[k])
             /\ \A i \in 1..Len(Compose(messages[k])) :
                    g[k][Len(g[k - 1]) + i] = Compose(messages[k])[i]
  <2> DEFINE a == g[k - 1]
             c == Compose(messages[k])
             e == g[k]
  <2>1. k - 1 \in 0..n
    BY <1>2
  <2>2. a \in Seq(Byte) /\ e = a \o c
    BY <1>1, <2>1 DEF Bytes
  <2>3. c \in Seq(Byte)
    <3>1. messages[k] \in Seq(Byte)
      BY ElementOfSeq DEF Bytes
    <3> QED BY <3>1, ComposeIs
  <2> HIDE DEF a, c, e
  <2>4. Len(a) \in Nat /\ Len(c) \in Nat
    BY <2>2, <2>3, LenProperties
  <2>5. Len(e) = Len(a) + Len(c)
        /\ \A i \in 1 .. Len(a) + Len(c) : e[i] = IF i <= Len(a) THEN a[i] ELSE c[i - Len(a)]
    BY <2>2, <2>3, ConcatProperties
  <2>6. Begins(a, e)
    BY <2>4, <2>5 DEF Begins
  <2>7. \A i \in 1..Len(c) : e[Len(a) + i] = c[i]
    BY <2>4, <2>5
  <2> QED BY <2>5, <2>6, <2>7 DEF a, c, e
<1> HIDE DEF g
<1> QED BY <1>1, <1>3, Zenon DEF Piled, g

(* Beginning with is reflexive and transitive.                             *)
LEMMA BeginsChain ==
  /\ \A s \in Bytes : Begins(s, s)
  /\ \A s, t, u \in Bytes : Begins(s, t) /\ Begins(t, u) => Begins(s, u)
<1>1. ASSUME NEW s \in Bytes
      PROVE  Len(s) \in Nat
  BY LenProperties DEF Bytes
<1>2. ASSUME NEW s \in Bytes
      PROVE  Begins(s, s)
  BY <1>1 DEF Begins
<1>3. ASSUME NEW s \in Bytes, NEW t \in Bytes, NEW u \in Bytes, Begins(s, t), Begins(t, u)
      PROVE  Begins(s, u)
  <2>1. PICK a \in Nat, b \in Nat, c \in Nat : a = Len(s) /\ b = Len(t) /\ c = Len(u)
    BY <1>1
  <2>2. a <= b /\ b <= c /\ (\A i \in 1..a : t[i] = s[i]) /\ (\A i \in 1..b : u[i] = t[i])
    BY <1>3, <2>1 DEF Begins
  <2>3. a <= c /\ \A i \in 1..a : u[i] = s[i]
    BY <2>2
  <2> QED BY <2>1, <2>3 DEF Begins
<1> QED BY <1>2, <1>3

(* The stream of more messages begins with that of fewer.                  *)
LEMMA PiledBegins ==
  ASSUME NEW g, NEW messages, NEW n \in Nat, Piled(g, messages, n)
  PROVE  \A l \in 0..n : \A k \in 0..l : Begins(g[k], g[l])
<1> DEFINE S == {l \in Nat : l <= n => \A k \in 0..l : Begins(g[k], g[l])}
<1>1. /\ \A k \in 0..n : g[k] \in Bytes
      /\ \A k \in 1..n : Begins(g[k - 1], g[k])
  BY DEF Piled
<1>2. ASSUME NEW l \in Nat, \A i \in 0..l-1 : i \in S
      PROVE  l \in S
  <2>1. SUFFICES ASSUME l <= n, NEW k \in 0..l
                 PROVE  Begins(g[k], g[l])
    OBVIOUS
  <2>2. CASE k = l
    BY <1>1, <2>1, <2>2, BeginsChain
  <2>3. CASE k # l
    <3>1. l \in 1..n /\ l - 1 \in 0..l-1 /\ k \in 0..l-1 /\ l - 1 <= n
          /\ k \in 0..n /\ l - 1 \in 0..n /\ l \in 0..n
      BY <2>1, <2>3
    <3>2. Begins(g[k], g[l - 1])
      BY <1>2, <3>1
    <3>3. Begins(g[l - 1], g[l]) /\ g[k] \in Bytes /\ g[l - 1] \in Bytes /\ g[l] \in Bytes
      BY <1>1, <3>1
    <3> QED BY <3>2, <3>3, BeginsChain, Zenon
  <2> QED BY <2>2, <2>3
<1>3. Nat \subseteq S
  <2> HIDE DEF S
  <2> QED BY <1>2, Counting
<1> QED BY <1>3

(* The messages r are the first of m.                                      *)
First(r, m) ==
  /\ r \in Seq(Bytes) /\ m \in Seq(Bytes)
  /\ Len(r) <= Len(m) /\ \A i \in 1..Len(r) : r[i] = m[i]

(* The stream of the first messages is the same in a longer list.          *)
LEMMA StreamLocal ==
  ASSUME NEW r, NEW m, First(r, m)
  PROVE  Stream(r) = StreamTo(m)[Len(r)]
<1> DEFINE g == StreamTo(r)
           h == StreamTo(m)
<1>1. PICK a \in Nat, b \in Nat : a = Len(r) /\ b = Len(m) /\ a <= b
  BY LenProperties DEF First
<1>2. r \in Seq(Bytes) /\ m \in Seq(Bytes) /\ \A i \in 1..a : r[i] = m[i]
  BY <1>1 DEF First
<1>3. Piled(g, r, a) /\ Piled(h, m, b)
  BY <1>1, <1>2, StreamPiled
<1> HIDE DEF g, h
<1>4. /\ g[0] = <<>> /\ h[0] = <<>> /\ Stream(r) = g[a]
      /\ \A k \in 1..a : g[k] = g[k - 1] \o Compose(r[k])
      /\ \A k \in 1..b : h[k] = h[k - 1] \o Compose(m[k])
  BY <1>3, Zenon DEF Piled
<1> DEFINE S == {k \in Nat : k <= a => g[k] = h[k]}
<1>5. ASSUME NEW k \in Nat, \A i \in 0..k-1 : i \in S
      PROVE  k \in S
  <2>1. SUFFICES ASSUME k <= a PROVE g[k] = h[k]
    OBVIOUS
  <2>2. CASE k = 0
    BY <1>4, <2>2
  <2>3. CASE k # 0
    <3>1. k - 1 \in 0..k-1 /\ k - 1 <= a /\ k \in 1..a /\ k \in 1..b
      BY <1>1, <2>1, <2>3
    <3>2. g[k - 1] = h[k - 1]
      BY <1>5, <3>1
    <3>3. r[k] = m[k]
      BY <1>2, <3>1
    <3> QED BY <1>4, <3>1, <3>2, <3>3, Zenon
  <2> QED BY <2>2, <2>3
<1>6. Nat \subseteq S
  <2> HIDE DEF S
  <2> QED BY <1>5, Counting
<1>7. g[a] = h[a]
  BY <1>6
<1> QED BY <1>1, <1>4, <1>7 DEF h

(* No message composes to no byte.                                         *)
LEMMA StreamEmpty == Stream(<<>>) = <<>> /\ <<>> \in Bytes /\ <<>> \in Seq(Bytes)
<1>1. <<>> \in Seq(Bytes) /\ <<>> \in Bytes /\ Len(<<>>) = 0
  BY EmptySeq DEF Bytes
<1> QED BY <1>1, StreamToDef

(* Where the stream of the first messages lies in that of all, and what    *)
(* follows it.                                                             *)
LEMMA StreamOfFirst ==
  ASSUME NEW r, NEW m, First(r, m)
  PROVE  /\ Stream(r) \in Bytes /\ Stream(m) \in Bytes
         /\ Begins(Stream(r), Stream(m))
         /\ Len(r) < Len(m) =>
              /\ Len(Stream(r)) + Len(Compose(m[Len(r) + 1])) <= Len(Stream(m))
              /\ \A i \in 1..Len(Compose(m[Len(r) + 1])) :
                   Stream(m)[Len(Stream(r)) + i] = Compose(m[Len(r) + 1])[i]
<1> DEFINE g == StreamTo(m)
<1>1. PICK a \in Nat, b \in Nat : a = Len(r) /\ b = Len(m) /\ a <= b
  BY LenProperties DEF First
<1>2. m \in Seq(Bytes)
  BY DEF First
<1>3. Piled(g, m, b)
  BY <1>1, <1>2, StreamPiled
<1>4. Stream(r) = g[a]
  BY <1>1, StreamLocal
<1> HIDE DEF g
<1>5. Stream(m) = g[b] /\ \A k \in 0..b : g[k] \in Bytes
  BY <1>3, Zenon DEF Piled
<1>6. a \in 0..b /\ b \in 0..b
  BY <1>1
<1>7. \A l \in 0..b : \A k \in 0..l : Begins(g[k], g[l])
  BY <1>3, PiledBegins
<1>8. ASSUME a < b
      PROVE  /\ Len(Stream(r)) + Len(Compose(m[a + 1])) <= Len(Stream(m))
             /\ \A i \in 1..Len(Compose(m[a + 1])) :
                   Stream(m)[Len(Stream(r)) + i] = Compose(m[a + 1])[i]
  <2>1. a + 1 \in 1..b /\ (a + 1) - 1 = a /\ a + 1 \in 0..b
    BY <1>8
  <2> DEFINE c == Compose(m[a + 1])
             e == g[a + 1]
             s == g[a]
             u == g[b]
  <2>2. Len(e) = Len(s) + Len(c) /\ \A i \in 1..Len(c) : e[Len(s) + i] = c[i]
    BY <1>3, <2>1 DEF Piled
  <2>3. Begins(e, u) /\ s \in Bytes /\ e \in Bytes /\ u \in Bytes
    BY <1>5, <1>6, <1>7, <2>1
  <2>4. m[a + 1] \in Seq(Byte)
    BY <1>1, <1>2, <2>1, ElementOfSeq DEF Bytes
  <2>5. c \in Seq(Byte)
    BY <2>4, ComposeIs
  <2> HIDE DEF c, e, s, u
  <2>6. PICK x \in Nat, y \in Nat, z \in Nat : x = Len(s) /\ y = Len(c) /\ z = Len(u)
    BY <2>3, <2>5, LenProperties DEF Bytes
  <2>7. x + y <= z /\ \A i \in 1..x+y : u[i] = e[i]
    BY <2>2, <2>3, <2>6 DEF Begins
  <2>8. \A i \in 1..y : e[x + i] = c[i]
    BY <2>2, <2>6
  <2>9. \A i \in 1..y : u[x + i] = c[i]
    BY <2>7, <2>8
  <2>10. Len(s) + Len(c) <= Len(u) /\ \A i \in 1..Len(c) : u[Len(s) + i] = c[i]
    BY <2>6, <2>7, <2>9
  <2> QED BY <1>4, <1>5, <2>10 DEF c, e, s, u
<1> QED BY <1>1, <1>4, <1>5, <1>6, <1>7, <1>8

(* One message more.                                                       *)
LEMMA StreamOfMore ==
  ASSUME NEW r \in Seq(Bytes), NEW x \in Bytes
  PROVE  /\ First(r, Append(r, x)) /\ Append(r, x) \in Seq(Bytes)
         /\ Stream(Append(r, x)) = Stream(r) \o Compose(x)
         /\ Stream(r) \in Bytes /\ Compose(x) \in Bytes
         /\ Len(Stream(Append(r, x))) = Len(Stream(r)) + Len(Compose(x))
<1> DEFINE m == Append(r, x)
<1>1. m \in Seq(Bytes) /\ Len(m) = Len(r) + 1 /\ (\A i \in 1..Len(r) : m[i] = r[i]) /\ m[Len(r) + 1] = x
  BY AppendProperties
<1> HIDE DEF m
<1>2. PICK n \in Nat : n = Len(r)
  BY LenProperties
<1>3. First(r, m)
  BY <1>1, <1>2 DEF First
<1>4. Piled(StreamTo(m), m, n + 1)
  BY <1>1, <1>2, StreamPiled
<1> DEFINE g == StreamTo(m)
<1>5. Stream(r) = g[n]
  BY <1>2, <1>3, StreamLocal
<1> HIDE DEF g
<1>6. Stream(m) = g[n + 1] /\ \A k \in 1..n+1 : g[k] = g[k - 1] \o Compose(m[k])
  BY <1>4, Zenon DEF Piled, g
<1>7. n + 1 \in 1..n+1 /\ (n + 1) - 1 = n
  OBVIOUS
<1>8. g[n + 1] = g[n] \o Compose(x)
  BY <1>1, <1>2, <1>6, <1>7
<1>9. Stream(r) \in Bytes
  BY <1>3, StreamOfFirst
<1>10. Compose(x) \in Bytes
  BY ComposeIs DEF Bytes
<1>11. Len(Stream(r) \o Compose(x)) = Len(Stream(r)) + Len(Compose(x))
  <2> DEFINE a == Stream(r)
             c == Compose(x)
  <2>1. a \in Seq(Byte) /\ c \in Seq(Byte)
    BY <1>9, <1>10 DEF Bytes
  <2> HIDE DEF a, c
  <2>2. Len(a \o c) = Len(a) + Len(c)
    BY <2>1, ConcatProperties
  <2> QED BY <2>2 DEF a, c
<1>12. Stream(m) = Stream(r) \o Compose(x)
  BY <1>5, <1>6, <1>8, Zenon
<1> QED BY <1>1, <1>3, <1>9, <1>10, <1>11, <1>12, Zenon DEF m

-----------------------------------------------------------------------------
(* What is left of a piece, with the wire behind it.                       *)
LEMMA PieceIs ==
  ASSUME NEW P \in Bytes, NEW o \in Nat, o <= Len(P), NEW w \in Bytes
  PROVE  LET u == SubSeq(P, o + 1, Len(P))
         IN  /\ u \in Bytes /\ Len(u) = Len(P) - o /\ Len(u) \in Nat
             /\ \A i \in 1..Len(P) - o : u[i] = P[o + i] /\ u[i] \in Byte
             /\ u \o w \in Bytes /\ Len(u \o w) = (Len(P) - o) + Len(w)
             /\ \A i \in 1..Len(P) - o : (u \o w)[i] = P[o + i]
             /\ \A i \in 1..Len(w) : (u \o w)[(Len(P) - o) + i] = w[i]
<1>1. PICK n \in Nat : n = Len(P)
  BY LenProperties DEF Bytes
<1>2. \A i \in 1..n : P[i] \in Byte
  BY <1>1, ElementOfSeq DEF Bytes
<1> DEFINE u == SubSeq(P, o + 1, Len(P))
<1>3. u = SubSeq(P, o + 1, n) /\ o + 1 \in Int /\ n \in Int /\ \A i \in o+1..n : P[i] \in Byte
  BY <1>1, <1>2
<1>4. u \in Seq(Byte) /\ Len(u) = n - o /\ \A i \in 1..n-o : u[i] = P[o + i] /\ u[i] \in Byte
  <2> HIDE DEF u
  <2>1. u \in Seq(Byte) /\ (Len(u) = IF o + 1 <= n THEN n - (o + 1) + 1 ELSE 0)
        /\ \A i \in 1 .. n-(o+1)+1 : u[i] = P[(o + 1) + i - 1]
    BY <1>3, SubSeqProperties
  <2>2. Len(u) = n - o
    BY <1>1, <2>1
  <2>3. ASSUME NEW i \in 1..n-o
        PROVE  u[i] = P[o + i] /\ u[i] \in Byte
    <3>1. i \in 1 .. n-(o+1)+1 /\ (o + 1) + i - 1 = o + i /\ o + i \in 1..n
      OBVIOUS
    <3> QED BY <1>2, <2>1, <3>1
  <2> QED BY <2>1, <2>2, <2>3
<1>5. PICK l \in Nat : l = Len(w)
  BY LenProperties DEF Bytes
<1> HIDE DEF u
<1> DEFINE c == u \o w
<1> DEFINE k == n - o
<1>50. k \in Nat /\ Len(u) = k
  BY <1>1, <1>4
<1> HIDE DEF k
<1>6. c \in Seq(Byte) /\ Len(c) = k + l
      /\ \A i \in 1..k+l : c[i] = IF i <= k THEN u[i] ELSE w[i - k]
  <2>1. u \in Seq(Byte) /\ w \in Seq(Byte)
    BY <1>4 DEF Bytes
  <2>2. /\ c \in Seq(Byte) /\ Len(c) = Len(u) + Len(w)
        /\ \A i \in 1 .. Len(u) + Len(w) : c[i] = IF i <= Len(u) THEN u[i] ELSE w[i - Len(u)]
    BY <2>1, ConcatProperties
  <2> HIDE DEF c
  <2> QED BY <2>2, <1>5, <1>50
<1> HIDE DEF c
<1>60. /\ \A i \in 1..k : c[i] = u[i]
       /\ \A i \in 1..l : c[k + i] = w[i]
  BY <1>5, <1>50, <1>6
<1>7. /\ \A i \in 1..n-o : c[i] = P[o + i]
      /\ \A i \in 1..l : c[(n - o) + i] = w[i]
      /\ Len(c) = (n - o) + l
  BY <1>4, <1>6, <1>60 DEF k
<1>8. /\ u \in Bytes /\ Len(u) = Len(P) - o /\ Len(u) \in Nat
      /\ \A i \in 1..Len(P) - o : u[i] = P[o + i] /\ u[i] \in Byte
  BY <1>1, <1>4 DEF Bytes
<1>9. /\ c \in Bytes /\ Len(c) = (Len(P) - o) + Len(w)
      /\ \A i \in 1..Len(P) - o : c[i] = P[o + i]
      /\ \A i \in 1..Len(w) : c[(Len(P) - o) + i] = w[i]
  BY <1>1, <1>5, <1>6, <1>7 DEF Bytes
<1> QED BY <1>8, <1>9, Zenon DEF u, c

(* A part of a sequence.                                                   *)
LEMMA PartIs ==
  ASSUME NEW B, NEW s \in Seq(B), NEW a \in Nat, NEW b \in Nat, 1 <= a, a <= b + 1, b <= Len(s)
  PROVE  /\ SubSeq(s, a, b) \in Seq(B) /\ Len(SubSeq(s, a, b)) = b - a + 1
         /\ \A i \in 1..b-a+1 : SubSeq(s, a, b)[i] = s[a + i - 1] /\ a + i - 1 \in 1..Len(s)
<1>1. PICK n \in Nat : n = Len(s)
  BY LenProperties
<1>2. \A i \in a..b : s[i] \in B
  BY <1>1, ElementOfSeq
<1> DEFINE u == SubSeq(s, a, b)
<1> HIDE DEF u
<1>3. u \in Seq(B) /\ (Len(u) = IF a <= b THEN b - a + 1 ELSE 0)
      /\ \A i \in 1 .. b-a+1 : u[i] = s[a + i - 1]
  BY <1>2, SubSeqProperties DEF u
<1>4. \A i \in 1..b-a+1 : a + i - 1 \in 1..Len(s)
  BY <1>1
<1> QED BY <1>3, <1>4 DEF u

(* A message is a sequence of bytes, and never an empty one.               *)
LEMMA MessageBytes == /\ \A m \in Message : m \in Bytes /\ Len(m) \in Nat /\ Len(m) # 0
                      /\ Seq(Message) \subseteq Seq(Bytes)
<1>1. \A m \in Message : m \in Bytes /\ m # <<>>
  BY ComposerAssumption DEF Bytes
<1>2. \A m \in Message : Len(m) \in Nat /\ Len(m) # 0
  BY <1>1, EmptySeq DEF Bytes
<1>3. Message \subseteq Bytes
  BY <1>1
<1>4. ASSUME NEW s \in Seq(Message)
      PROVE  s \in Seq(Bytes)
  BY <1>3, SeqMonotonic
<1> QED BY <1>1, <1>2, <1>4

(* What a thread has of its piece.                                         *)
LEMMA RestIs ==
  ASSUME TypeOK, NEW t \in Thread
  PROVE  /\ piece[t] \in Bytes /\ offset[t] \in Nat /\ offset[t] <= Len(piece[t])
         /\ Rest(t) \in Nat /\ offset[t] + Rest(t) = Len(piece[t])
         /\ Unused(t) \in Bytes /\ Len(Unused(t)) = Rest(t)
         /\ \A i \in 1..Rest(t) : Unused(t)[i] \in Byte
         /\ wire \in Bytes
<1>1. piece[t] \in Bytes /\ offset[t] \in Nat /\ offset[t] <= Len(piece[t]) /\ wire \in Bytes
  BY DEF TypeOK, Bytes
<1>2. PICK n \in Nat : n = Len(piece[t])
  BY <1>1, LenProperties DEF Bytes
<1>3. Rest(t) = n - offset[t] /\ Rest(t) \in Nat /\ offset[t] + Rest(t) = Len(piece[t])
  BY <1>1, <1>2 DEF Rest
<1>4. /\ Unused(t) \in Bytes /\ Len(Unused(t)) = Rest(t)
      /\ \A i \in 1..Rest(t) : Unused(t)[i] \in Byte
  <2> DEFINE P == piece[t]
             o == offset[t]
             u == SubSeq(P, o + 1, Len(P))
  <2>1. P \in Bytes /\ o \in Nat /\ o <= Len(P) /\ wire \in Bytes
    BY <1>1
  <2>2. u \in Bytes /\ Len(u) = Len(P) - o /\ \A i \in 1..Len(P) - o : u[i] \in Byte
    <3> HIDE DEF P, o
    <3> QED BY <2>1, PieceIs
  <2>3. u = Unused(t) /\ Len(P) - o = Rest(t)
    BY DEF Unused, Rest
  <2> HIDE DEF u, P, o
  <2> QED BY <2>2, <2>3
<1> QED BY <1>1, <1>3, <1>4

(* The unused bytes are those of the piece from the offset on.             *)
LEMMA RestBytes ==
  ASSUME TypeOK, NEW t \in Thread
  PROVE  \A i \in 1..Rest(t) : Unused(t)[i] = piece[t][offset[t] + i]
<1> DEFINE P == piece[t]
           o == offset[t]
<1>1. P \in Bytes /\ o \in Nat /\ o <= Len(P) /\ wire \in Bytes
  BY RestIs
<1> HIDE DEF P, o
<1>2. \A i \in 1..Len(P) - o : SubSeq(P, o + 1, Len(P))[i] = P[o + i]
  BY <1>1, PieceIs
<1> QED BY <1>2 DEF P, o, Unused, Rest

-----------------------------------------------------------------------------
(* The first state is well typed.                                          *)
LEMMA InitTypes == Init => TypeOK
<1> SUFFICES ASSUME Init PROVE TypeOK
  OBVIOUS
<1>1. <<>> \in Seq(Byte) /\ <<>> \in Seq(Message) /\ <<>> \in Seq(Seq(Byte)) /\ Len(<<>>) = 0
  BY EmptySeq
<1>2. 1 \in Thread
  BY ComposerAssumption DEF Thread
<1> QED BY <1>1, <1>2 DEF Init, TypeOK, Reason

(* The types a step of a thread keeps: of its piece and offset.            *)
ReadingOK ==
  /\ piece \in [Thread -> Seq(Byte)]
  /\ offset \in [Thread -> Nat] /\ \A t \in Thread : offset[t] <= Len(piece[t])

ComposerOK ==
  /\ state \in {"length", "data"}
  /\ length \in Nat /\ left \in 0..length
  /\ buf \in Seq(Byte) /\ Len(buf) + left = IF state = "data" THEN length ELSE 0

(* Using bytes of a piece stays within the piece.                          *)
LEMMA UseTypes ==
  ASSUME TypeOK, NEW t \in Thread, NEW n \in 0..Rest(t), Use(t, n)
  PROVE  ReadingOK'
<1>1. offset[t] + n \in Nat /\ offset[t] + n <= Len(piece[t])
  BY RestIs
<1> QED BY <1>1 DEF Use, TypeOK, ReadingOK

(* A piece that is dropped leaves nothing behind.                          *)
LEMMA DropTypes ==
  ASSUME TypeOK, NEW t \in Thread, Drop(t)
  PROVE  ReadingOK'
<1>1. <<>> \in Seq(Byte) /\ Len(<<>>) = 0
  BY EmptySeq
<1> QED BY <1>1 DEF Drop, TypeOK, ReadingOK

(* Every step keeps the types.                                             *)
LEMMA StepTypes ==
  ASSUME TypeOK, [Next]_vars
  PROVE  TypeOK'
<1> USE DEF composer, reading, history
<1>1. ASSUME NEW m \in Message, ServerSends(m)
      PROVE  TypeOK'
  <2>1. m \in Seq(Byte)
    BY MessageBytes DEF Bytes
  <2>2. Compose(m) \in Seq(Byte) /\ wire \in Seq(Byte)
    BY <2>1, ComposeIs DEF TypeOK
  <2>3. wire' \in Seq(Byte)
    <3> DEFINE c == Compose(m)
    <3>1. wire' = wire \o c
      BY <1>1 DEF ServerSends
    <3> HIDE DEF c
    <3>2. c \in Seq(Byte)
      BY <2>2 DEF c
    <3> QED BY <2>2, <3>1, <3>2, ConcatProperties
  <2>4. sent' \in Seq(Message)
    BY <1>1, AppendProperties DEF ServerSends, TypeOK
  <2> QED BY <1>1, <2>3, <2>4 DEF ServerSends, TypeOK
<1>2. ASSUME NEW t \in Thread, NEW k \in 1..Len(wire), Read(t, k)
      PROVE  TypeOK'
  <2>1. PICK n \in Nat : n = Len(wire)
    BY LenProperties DEF TypeOK
  <2>2. SubSeq(wire, 1, k) \in Seq(Byte) /\ SubSeq(wire, k + 1, Len(wire)) \in Seq(Byte)
    BY <2>1, PartIs DEF TypeOK
  <2>3. piece' \in [Thread -> Seq(Byte)]
    BY <1>2, <2>2 DEF Read, TypeOK
  <2>4. wire' \in Seq(Byte)
    BY <1>2, <2>2 DEF Read
  <2>5. offset' \in [Thread -> Nat] /\ \A u \in Thread : offset'[u] <= Len(piece'[u])
    <3>1. Len(piece'[t]) \in Nat
      BY <2>3, LenProperties
    <3>2. offset' = [offset EXCEPT ![t] = 0] /\ \A u \in Thread \ {t} : piece'[u] = piece[u]
      BY <1>2 DEF Read, TypeOK
    <3> QED BY SMTT(30), <3>1, <3>2 DEF TypeOK
  <2>6. broken' \in Reason
    BY <1>2 DEF Read, Breaks, TypeOK, Reason
  <2>7. UNCHANGED <<listening, state, length, left, buf, sent, received, connects>>
    BY <1>2 DEF Read
  <2> QED BY <2>3, <2>4, <2>5, <2>6, <2>7 DEF TypeOK
<1>3. ASSUME NEW t \in Thread, ReadLength(t)
      PROVE  TypeOK'
  <2>1. PICK size \in HeaderEnds(t) :
          LET value == Value(length, SubSeq(Unused(t), 1, size))
          IN  /\ Use(t, size)
              /\ IF value = 0
                 THEN received' = Append(received, <<>>) /\ UNCHANGED composer
                 ELSE /\ state' = "data" /\ length' = value /\ left' = value /\ buf' = <<>>
                      /\ UNCHANGED received
    BY <1>3, Zenon DEF ReadLength
  <2>2. size \in 1..Rest(t) /\ size \in 0..Rest(t)
    BY RestIs DEF HeaderEnds
  <2>3. SubSeq(Unused(t), 1, size) \in Seq(Byte)
    <3>1. Unused(t) \in Seq(Byte) /\ Len(Unused(t)) = Rest(t) /\ Rest(t) \in Nat
      BY RestIs DEF Bytes
    <3> QED BY <2>2, <3>1, PartIs
  <2> DEFINE value == Value(length, SubSeq(Unused(t), 1, size))
  <2>4. value \in Nat
    BY <2>3, ValueSmall DEF TypeOK
  <2>5. ReadingOK'
    BY <2>1, <2>2, UseTypes
  <2>6. <<>> \in Seq(Byte) /\ Len(<<>>) = 0
    BY EmptySeq
  <2>7. IF value = 0
        THEN received' = Append(received, <<>>) /\ UNCHANGED composer
        ELSE /\ state' = "data" /\ length' = value /\ left' = value /\ buf' = <<>>
             /\ UNCHANGED received
    BY <2>1
  <2> HIDE DEF value
  <2>8. received' \in Seq(Seq(Byte)) /\ ComposerOK'
    <3>1. CASE value = 0
      <4>1. received' = Append(received, <<>>) /\ UNCHANGED <<state, length, left, buf>>
        BY <2>7, <3>1
      <4>2. received' \in Seq(Seq(Byte))
        BY <2>6, <4>1, AppendProperties DEF TypeOK
      <4> QED BY <4>1, <4>2 DEF TypeOK, ComposerOK
    <3>2. CASE value # 0
      BY <2>4, <2>6, <2>7, <3>2 DEF TypeOK, ComposerOK
    <3> QED BY <3>1, <3>2
  <2>9. UNCHANGED <<wire, listening, sent, broken, connects>>
    BY <1>3 DEF ReadLength
  <2> QED BY <2>5, <2>8, <2>9 DEF TypeOK, ReadingOK, ComposerOK
<1>4. ASSUME NEW t \in Thread, ReadPartOfLength(t)
      PROVE  TypeOK'
  <2>1. ReadingOK'
    <3>1. Rest(t) \in 0..Rest(t)
      BY RestIs
    <3> QED BY <1>4, <3>1, UseTypes DEF ReadPartOfLength
  <2>2. length' \in Nat
    BY <1>4, RestIs, ValueSmall DEF ReadPartOfLength, TypeOK, Bytes
  <2>3. left = 0 /\ left' = 0
    <3>1. Len(buf) \in Nat
      BY LenProperties DEF TypeOK
    <3> QED BY <1>4, <3>1 DEF ReadPartOfLength, TypeOK
  <2>4. UNCHANGED <<wire, listening, state, left, buf, sent, received, broken, connects>> /\ state = "length"
    BY <1>4 DEF ReadPartOfLength
  <2> QED BY <2>1, <2>2, <2>3, <2>4 DEF TypeOK, ReadingOK
<1>5. ASSUME NEW t \in Thread, CutLength(t)
      PROVE  TypeOK'
  <2>1. ReadingOK'
    BY <1>5, DropTypes DEF CutLength
  <2>2. broken' \in Reason
    BY <1>5 DEF CutLength, Breaks, TypeOK, Reason
  <2>3. UNCHANGED <<wire, listening, state, length, left, buf, sent, received, connects>>
    BY <1>5 DEF CutLength
  <2> QED BY <2>1, <2>2, <2>3 DEF TypeOK, ReadingOK
<1>6. ASSUME NEW t \in Thread, ReadPartOfData(t)
      PROVE  TypeOK'
  <2>1. ReadingOK'
    <3>1. Rest(t) \in 0..Rest(t)
      BY RestIs
    <3> QED BY <1>6, <3>1, UseTypes DEF ReadPartOfData
  <2>2. buf' \in Seq(Byte) /\ Len(buf') = Len(buf) + Rest(t)
    <3>1. Unused(t) \in Seq(Byte) /\ Len(Unused(t)) = Rest(t) /\ buf \in Seq(Byte)
      BY RestIs DEF Bytes, TypeOK
    <3>2. buf' = buf \o Unused(t)
      BY <1>6 DEF ReadPartOfData
    <3> QED BY <3>1, <3>2, ConcatProperties
  <2>3. left' \in 0..length /\ Len(buf') + left' = length /\ state = "data"
    <3>1. Len(buf) \in Nat
      BY LenProperties DEF TypeOK
    <3>2. state = "data" /\ left' = left - Rest(t) /\ 0 < Rest(t) /\ Rest(t) < left
      BY <1>6 DEF ReadPartOfData
    <3>3. Rest(t) \in Nat
      BY RestIs
    <3>4. left \in 0..length /\ length \in Nat /\ Len(buf) + left = length
      BY <3>2 DEF TypeOK
    <3> QED BY <2>2, <3>1, <3>2, <3>3, <3>4
  <2>4. UNCHANGED <<wire, listening, state, length, sent, received, broken, connects>>
    BY <1>6 DEF ReadPartOfData
  <2> QED BY <2>1, <2>2, <2>3, <2>4 DEF TypeOK, ReadingOK
<1>7. ASSUME NEW t \in Thread, ReadData(t)
      PROVE  TypeOK'
  <2>1. left \in 0..Rest(t) /\ Rest(t) \in Nat
    BY <1>7, RestIs DEF ReadData, TypeOK
  <2>2. ReadingOK'
    <3>1. Use(t, left) \/ Drop(t)
      BY <1>7 DEF ReadData
    <3> QED BY <2>1, <3>1, UseTypes, DropTypes
  <2>3. buf \o SubSeq(Unused(t), 1, left) \in Seq(Byte)
    <3>1. Unused(t) \in Seq(Byte) /\ Len(Unused(t)) = Rest(t) /\ buf \in Seq(Byte)
      BY RestIs DEF Bytes, TypeOK
    <3> DEFINE u == SubSeq(Unused(t), 1, left)
    <3>2. u \in Seq(Byte)
      BY <2>1, <3>1, PartIs
    <3> HIDE DEF u
    <3>3. buf \o u \in Seq(Byte)
      BY <3>1, <3>2, ConcatProperties
    <3> QED BY <3>3 DEF u
  <2>4. received' \in Seq(Seq(Byte))
    <3> DEFINE x == buf \o SubSeq(Unused(t), 1, left)
    <3>1. received' = Append(received, x)
      BY <1>7 DEF ReadData
    <3> HIDE DEF x
    <3>2. x \in Seq(Byte) /\ received \in Seq(Seq(Byte))
      BY <2>3 DEF x, TypeOK
    <3> QED BY <3>1, <3>2, AppendProperties
  <2>5. ComposerOK'
    <3>1. <<>> \in Seq(Byte) /\ Len(<<>>) = 0
      BY EmptySeq
    <3> QED BY <1>7, <3>1 DEF ReadData, Reset, ComposerOK
  <2>6. broken' \in Reason
    BY <1>7 DEF ReadData, Breaks, TypeOK, Reason
  <2>7. UNCHANGED <<wire, listening, sent, connects>>
    BY <1>7 DEF ReadData
  <2> QED BY <2>2, <2>4, <2>5, <2>6, <2>7 DEF TypeOK, ReadingOK, ComposerOK
<1>8. ASSUME Reconnect
      PROVE  TypeOK'
  <2>1. <<>> \in Seq(Byte) /\ <<>> \in Seq(Message) /\ <<>> \in Seq(Seq(Byte))
    BY EmptySeq
  <2>2. connects' \in Thread /\ listening' \subseteq 1..connects'
    BY SMTT(30), <1>8, ComposerAssumption DEF Reconnect, TypeOK, Thread
  <2>3. broken' \in Reason
    BY <1>8 DEF Reconnect, Reason
  <2>4. wire' = <<>> /\ sent' = <<>> /\ received' = <<>> /\ UNCHANGED <<piece, offset, state, length, left, buf>>
    BY <1>8 DEF Reconnect
  <2> QED BY <2>1, <2>2, <2>3, <2>4 DEF TypeOK
<1>9. CASE UNCHANGED vars
  BY <1>9 DEF vars, TypeOK
<1> QED BY <1>1, <1>2, <1>3, <1>4, <1>5, <1>6, <1>7, <1>8, <1>9 DEF Next, Listen, Feed

-----------------------------------------------------------------------------
(* A is what is left of P behind o, with w behind it.                      *)
Shows(A, P, o, w) ==
  /\ A \in Bytes /\ Len(A) = (Len(P) - o) + Len(w)
  /\ P \in Bytes /\ w \in Bytes /\ o \in Nat /\ o <= Len(P)
  /\ \A i \in 1..Len(P) - o : A[i] = P[o + i]
  /\ \A i \in 1..Len(w) : A[(Len(P) - o) + i] = w[i]

(* The rest of a piece and the wire behind it show both.                   *)
LEMMA ShowsIs ==
  ASSUME NEW P \in Bytes, NEW o \in Nat, o <= Len(P), NEW w \in Bytes
  PROVE  Shows(SubSeq(P, o + 1, Len(P)) \o w, P, o, w)
BY PieceIs DEF Shows

(* Ahead(t) shows the rest of the thread's piece and the wire.             *)
LEMMA AheadShows ==
  ASSUME TypeOK, NEW t \in Thread
  PROVE  Shows(Ahead(t), piece[t], offset[t], wire)
<1>1. piece[t] \in Bytes /\ offset[t] \in Nat /\ offset[t] <= Len(piece[t]) /\ wire \in Bytes
  BY RestIs
<1> QED BY <1>1, ShowsIs, Zenon DEF Ahead, Unused

(* The same of the next state.                                             *)
LEMMA AheadShowsNext ==
  ASSUME TypeOK', NEW t \in Thread
  PROVE  Shows(Ahead(t)', piece'[t], offset'[t], wire')
<1>1. piece'[t] \in Bytes /\ offset'[t] \in Nat /\ offset'[t] <= Len(piece'[t]) /\ wire' \in Bytes
  BY DEF TypeOK, Bytes
<1> QED BY <1>1, ShowsIs, Zenon DEF Ahead, Unused

(* The numbers of a Shows, to reason about it with arithmetic only.        *)
Sized(A, P, o, w, r, l) ==
  /\ r = Len(P) - o /\ l = Len(w) /\ Len(A) = r + l
  /\ \A i \in 1..r : A[i] = P[o + i]
  /\ \A i \in 1..l : A[r + i] = w[i]

(* The sizes of what is shown, as numbers.                                 *)
LEMMA ShowsSizes ==
  ASSUME NEW A, NEW P, NEW o, NEW w, Shows(A, P, o, w)
  PROVE  \E r, l \in Nat : Sized(A, P, o, w, r, l)
<1>0. P \in Bytes /\ w \in Bytes /\ o \in Nat /\ o <= Len(P)
  BY DEF Shows
<1>1. PICK n \in Nat, l \in Nat : n = Len(P) /\ l = Len(w)
  BY <1>0, LenProperties DEF Bytes
<1> DEFINE r == n - o
<1>2. r \in Nat /\ r = Len(P) - o
  BY <1>0, <1>1
<1> HIDE DEF r
<1>3. Len(A) = r + l /\ (\A i \in 1..r : A[i] = P[o + i]) /\ (\A i \in 1..l : A[r + i] = w[i])
  BY <1>1, <1>2 DEF Shows
<1> QED BY <1>1, <1>2, <1>3 DEF Sized

(* n bytes are used: of a piece P, used up to o, Q from q on is left.      *)
Spends(A, P, o, B, Q, q, w, n, S, p) ==
  /\ Shows(A, P, o, w) /\ Shows(B, Q, q, w)
  /\ n \in Nat /\ n <= Len(P) - o /\ Len(Q) - q = (Len(P) - o) - n
  /\ \A i \in 1..Len(Q) - q : Q[q + i] = P[o + n + i]
  /\ S \in Bytes /\ p \in Nat /\ Follows(A, S, p)

(* What is ahead then follows the place n further on.                      *)
LEMMA FollowsUse ==
  ASSUME NEW A, NEW P, NEW o, NEW B, NEW Q, NEW q, NEW w, NEW n, NEW S, NEW p,
         Spends(A, P, o, B, Q, q, w, n, S, p)
  PROVE  /\ Follows(B, S, p + n)
         /\ p + (Len(P) - o) <= Len(S)
         /\ \A i \in 1..Len(P) - o : P[o + i] = S[p + i]
<1>0. /\ Shows(A, P, o, w) /\ Shows(B, Q, q, w)
      /\ n \in Nat /\ n <= Len(P) - o /\ Len(Q) - q = (Len(P) - o) - n
      /\ \A i \in 1..Len(Q) - q : Q[q + i] = P[o + n + i]
      /\ S \in Bytes /\ p \in Nat /\ Follows(A, S, p)
  BY DEF Spends
<1>1. PICK r \in Nat, l \in Nat : /\ r = Len(P) - o /\ l = Len(w) /\ Len(A) = r + l
                                  /\ \A i \in 1..r : A[i] = P[o + i]
                                  /\ \A i \in 1..l : A[r + i] = w[i]
  <2>1. \E r, l \in Nat : Sized(A, P, o, w, r, l)
    BY <1>0, ShowsSizes
  <2> QED BY <2>1 DEF Sized
<1>2. PICK r2 \in Nat, l2 \in Nat : /\ r2 = Len(Q) - q /\ l2 = Len(w) /\ Len(B) = r2 + l2
                                    /\ \A i \in 1..r2 : B[i] = Q[q + i]
                                    /\ \A i \in 1..l2 : B[r2 + i] = w[i]
  <2>1. \E r2, l2 \in Nat : Sized(B, Q, q, w, r2, l2)
    BY <1>0, ShowsSizes
  <2> QED BY <2>1 DEF Sized
<1>3. r2 = r - n /\ l2 = l /\ n <= r
  BY <1>0, <1>1, <1>2
<1>4. \A i \in 1..r2 : Q[q + i] = P[o + n + i]
  BY <1>0, <1>2
<1>5. p + (r + l) = Len(S) /\ \A i \in 1..r+l : A[i] = S[p + i]
  BY <1>0, <1>1 DEF Follows
<1>6. ASSUME NEW i \in 1..r2+l
      PROVE  B[i] = S[(p + n) + i]
  <2>0. n + i \in 1..r+l /\ p + (n + i) = (p + n) + i
    BY <1>0, <1>3
  <2>1. CASE i <= r2
    <3>1. i \in 1..r2 /\ n + i \in 1..r
      BY <1>0, <1>3, <2>1
    <3>3. o \in Nat
      BY <1>0 DEF Shows
    <3>4. o + (n + i) = o + n + i
      BY <1>0, <3>3
    <3>2. B[i] = P[o + n + i] /\ A[n + i] = P[o + (n + i)]
      BY <1>1, <1>2, <1>4, <3>1
    <3> QED BY <1>5, <2>0, <3>2, <3>4
  <2>2. CASE i > r2
    <3>1. PICK k \in 1..l : i = r2 + k
      <4>1. i - r2 \in 1..l /\ i = r2 + (i - r2)
        BY <1>0, <1>3, <2>2
      <4> QED BY <4>1
    <3>4. B[i] = w[k]
      BY <1>2, <1>3, <3>1
    <3>5. A[r + k] = w[k]
      BY <1>1
    <3>6. r + k = n + i
      BY <1>0, <1>3, <3>1
    <3>2. B[i] = w[k] /\ A[r + k] = w[k] /\ r + k = n + i
      BY <3>4, <3>5, <3>6
    <3> QED BY <1>5, <2>0, <3>2
  <2> QED BY <2>1, <2>2
<1>7. (p + n) + (r2 + l) = Len(S) /\ Len(B) = r2 + l
  <2>1. n \in Nat /\ p \in Nat
    BY <1>0
  <2>2. r2 = r - n /\ l2 = l
    BY <1>3
  <2>3. p + (r + l) = Len(S)
    BY <1>5
  <2>4. Len(B) = r2 + l2
    BY <1>2
  <2>5. (p + n) + (r2 + l) = p + (r + l)
    BY <2>1, <2>2
  <2> QED BY <2>2, <2>3, <2>4, <2>5
<1>8. Follows(B, S, p + n)
  BY <1>6, <1>7 DEF Follows
<1>9. ASSUME NEW i \in 1..r
      PROVE  P[o + i] = S[p + i]
  <2>1. i \in 1..r+l
    OBVIOUS
  <2> QED BY <1>1, <1>5, <2>1
<1>10. p + r <= Len(S)
  BY <1>0, <1>5
<1> QED BY <1>1, <1>8, <1>9, <1>10

(* Bytes of the wire are read: nothing moves.                              *)
LEMMA FollowsRead ==
  ASSUME NEW A, NEW P, NEW o, NEW w, Shows(A, P, o, w), Len(P) - o = 0,
         NEW k \in 1..Len(w),
         NEW B, Shows(B, SubSeq(w, 1, k), 0, SubSeq(w, k + 1, Len(w))),
         NEW S \in Bytes, NEW p \in Nat, Follows(A, S, p)
  PROVE  Follows(B, S, p)
<1>1. PICK r \in Nat, l \in Nat : /\ r = Len(P) - o /\ l = Len(w) /\ Len(A) = r + l
                                  /\ \A i \in 1..r : A[i] = P[o + i]
                                  /\ \A i \in 1..l : A[r + i] = w[i]
  <2>1. \E r, l \in Nat : Sized(A, P, o, w, r, l)
    BY ShowsSizes
  <2> QED BY <2>1 DEF Sized
<1>2. w \in Bytes
  BY DEF Shows
<1> DEFINE u == SubSeq(w, 1, k)
           v == SubSeq(w, k + 1, Len(w))
<1>3. /\ Len(u) = k /\ \A i \in 1..k : u[i] = w[i]
      /\ Len(v) = l - k /\ \A i \in 1..l-k : v[i] = w[k + i]
  <2>1. Len(u) = k - 1 + 1 /\ \A i \in 1..k-1+1 : u[i] = w[1 + i - 1]
    BY <1>1, <1>2, PartIs DEF Bytes
  <2>2. Len(v) = l - (k + 1) + 1 /\ \A i \in 1..l-(k+1)+1 : v[i] = w[(k + 1) + i - 1]
    BY <1>1, <1>2, PartIs DEF Bytes
  <2> HIDE DEF u, v
  <2>3. ASSUME NEW i \in 1..k
        PROVE  u[i] = w[i]
    <3>1. i \in 1..k-1+1 /\ 1 + i - 1 = i
      OBVIOUS
    <3> QED BY <2>1, <3>1
  <2>4. ASSUME NEW i \in 1..l-k
        PROVE  v[i] = w[k + i]
    <3>1. i \in 1..l-(k+1)+1 /\ (k + 1) + i - 1 = k + i
      BY <1>1
    <3> QED BY <2>2, <3>1
  <2> QED BY <1>1, <2>1, <2>2, <2>3, <2>4
<1> HIDE DEF u, v
<1>4. Shows(B, u, 0, v)
  BY DEF u, v
<1>5. PICK r2 \in Nat, l2 \in Nat : /\ r2 = Len(u) - 0 /\ l2 = Len(v) /\ Len(B) = r2 + l2
                                    /\ \A i \in 1..r2 : B[i] = u[0 + i]
                                    /\ \A i \in 1..l2 : B[r2 + i] = v[i]
  <2>1. \E r2, l2 \in Nat : Sized(B, u, 0, v, r2, l2)
    BY <1>4, ShowsSizes
  <2> QED BY <2>1 DEF Sized
<1>6. r2 = k /\ l2 = l - k /\ r = 0 /\ k <= l /\ Len(B) = l /\ Len(A) = l
  BY <1>1, <1>3, <1>5
<1>7. ASSUME NEW i \in 1..l
      PROVE  B[i] = w[i]
  <2>1. CASE i <= k
    <3>1. i \in 1..k /\ 0 + i = i
      BY <2>1
    <3> QED BY <1>3, <1>5, <1>6, <3>1
  <2>2. CASE i > k
    <3>1. PICK j \in 1..l-k : i = k + j
      <4>1. i - k \in 1..l-k /\ i = k + (i - k)
        BY <2>2, <1>6
      <4> QED BY <4>1
    <3> QED BY ZenonT(40), <1>3, <1>5, <1>6, <3>1
  <2> QED BY <2>1, <2>2
<1>8. \A i \in 1..l : A[i] = w[i]
  BY <1>1, <1>6
<1> QED BY <1>6, <1>7, <1>8 DEF Follows

(* Bytes are sent: the stream and what is ahead grow alike.                *)
LEMMA FollowsSend ==
  ASSUME NEW A, NEW P, NEW o, NEW w, Shows(A, P, o, w),
         NEW c \in Bytes, NEW B, Shows(B, P, o, w \o c),
         NEW S \in Bytes, NEW p \in Nat, Follows(A, S, p)
  PROVE  Follows(B, S \o c, p)
<1>1. PICK r \in Nat, l \in Nat : /\ r = Len(P) - o /\ l = Len(w) /\ Len(A) = r + l
                                  /\ \A i \in 1..r : A[i] = P[o + i]
                                  /\ \A i \in 1..l : A[r + i] = w[i]
  <2>1. \E r, l \in Nat : Sized(A, P, o, w, r, l)
    BY ShowsSizes
  <2> QED BY <2>1 DEF Sized
<1> DEFINE v == w \o c
           T == S \o c
<1>2. PICK m \in Nat, z \in Nat : m = Len(c) /\ z = Len(S)
  BY LenProperties DEF Bytes
<1>3. /\ Len(v) = l + m /\ \A i \in 1..l+m : v[i] = IF i <= l THEN w[i] ELSE c[i - l]
      /\ Len(T) = z + m /\ \A i \in 1..z+m : T[i] = IF i <= z THEN S[i] ELSE c[i - z]
  <2>1. w \in Seq(Byte) /\ c \in Seq(Byte) /\ S \in Seq(Byte)
    BY DEF Shows, Bytes
  <2>2. /\ Len(v) = Len(w) + Len(c)
        /\ \A i \in 1..Len(w)+Len(c) : v[i] = IF i <= Len(w) THEN w[i] ELSE c[i - Len(w)]
    BY <2>1, ConcatProperties
  <2>3. /\ Len(T) = Len(S) + Len(c)
        /\ \A i \in 1..Len(S)+Len(c) : T[i] = IF i <= Len(S) THEN S[i] ELSE c[i - Len(S)]
    BY <2>1, ConcatProperties
  <2> HIDE DEF v, T
  <2> QED BY <1>1, <1>2, <2>2, <2>3
<1> HIDE DEF v, T
<1>4. Shows(B, P, o, v)
  BY DEF v
<1>5. PICK r2 \in Nat, l2 \in Nat : /\ r2 = Len(P) - o /\ l2 = Len(v) /\ Len(B) = r2 + l2
                                    /\ \A i \in 1..r2 : B[i] = P[o + i]
                                    /\ \A i \in 1..l2 : B[r2 + i] = v[i]
  <2>1. \E r2, l2 \in Nat : Sized(B, P, o, v, r2, l2)
    BY <1>4, ShowsSizes
  <2> QED BY <2>1 DEF Sized
<1>6. r2 = r /\ l2 = l + m
  BY <1>1, <1>3, <1>5
<1>7. p + (r + l) = z /\ \A i \in 1..r+l : A[i] = S[p + i]
  BY <1>1, <1>2 DEF Follows
<1>8. ASSUME NEW i \in 1..r+(l+m)
      PROVE  B[i] = T[p + i]
  <2>1. CASE i <= r
    <3>1. i \in 1..r /\ i \in 1..r+l /\ p + i <= z /\ p + i \in 1..z+m
      BY <1>7, <2>1
    <3>2. B[i] = P[o + i] /\ A[i] = P[o + i]
      BY <1>1, <1>5, <1>6, <3>1
    <3>3. T[p + i] = S[p + i]
      BY <1>3, <3>1
    <3> QED BY <1>7, <3>1, <3>2, <3>3
  <2>2. CASE i > r /\ i <= r + l
    <3>1. PICK k \in 1..l : i = r + k
      <4>1. i - r \in 1..l /\ i = r + (i - r)
        BY <2>2
      <4> QED BY <4>1
    <3>2. k \in 1..l+m /\ k <= l /\ i \in 1..r+l /\ p + i <= z /\ p + i \in 1..z+m
      BY <1>7, <3>1
    <3>3. B[i] = w[k] /\ A[i] = w[k]
      BY <1>1, <1>3, <1>5, <1>6, <3>1, <3>2
    <3>4. T[p + i] = S[p + i]
      BY <1>3, <3>2
    <3> QED BY <1>7, <3>2, <3>3, <3>4
  <2>3. CASE i > r + l
    <3>1. PICK k \in 1..m : i = r + (l + k)
      <4>1. i - (r + l) \in 1..m /\ i = r + (l + (i - (r + l)))
        BY <2>3
      <4> QED BY <4>1
    <3>2. /\ l + k \in 1..l+m /\ ~ (l + k <= l) /\ (l + k) - l = k
          /\ p + i \in 1..z+m /\ ~ (p + i <= z) /\ (p + i) - z = k
      BY <1>7, <3>1
    <3>3. B[i] = c[k]
      BY ZenonT(40), <1>3, <1>5, <1>6, <3>1, <3>2
    <3>4. T[p + i] = c[k]
      BY <1>3, <3>2
    <3> QED BY <3>3, <3>4
  <2> QED BY <2>1, <2>2, <2>3
<1>9. p + (r + (l + m)) = Len(T) /\ Len(B) = r + (l + m)
  BY <1>3, <1>5, <1>6, <1>7
<1>10. Follows(B, T, p)
  BY <1>8, <1>9 DEF Follows
<1> QED BY <1>10 DEF T

-----------------------------------------------------------------------------
(* Every byte of a header but the last is marked.                          *)
Marked(h) ==
  /\ h \in Bytes /\ Len(h) >= 1
  /\ \A i \in 1..Len(h) : IF i < Len(h) THEN h[i] >= Base ELSE h[i] < Base

(* A header of a message that is not empty has its marks in place.         *)
LEMMA HeaderMarked ==
  ASSUME NEW n \in Nat, n # 0
  PROVE  Marked(Header(n))
BY HeaderIs DEF Marked, Bytes

(* Of a piece that goes on with the header behind j of its bytes, the      *)
(* first byte without a mark is the last of the header.                    *)
LEMMA HeaderEnding ==
  ASSUME NEW h, Marked(h), NEW j \in Nat, j < Len(h), NEW u, NEW r \in Nat,
         \A i \in 1..r : j + i <= Len(h) => u[i] = h[j + i]
  PROVE  /\ \A size \in 1..r : u[size] < Base /\ (\A i \in 1..size-1 : u[i] >= Base) => j + size = Len(h)
         /\ r >= Len(h) - j => \E size \in 1..r : u[size] < Base /\ (\A i \in 1..size-1 : u[i] >= Base)
<1>1. PICK n \in Nat : n = Len(h) /\ n >= 1
  BY LenProperties DEF Marked, Bytes
<1>2. \A i \in 1..n : h[i] \in Nat /\ IF i < n THEN h[i] >= Base ELSE h[i] < Base
  <2>1. \A i \in 1..n : h[i] \in Byte
    BY <1>1, ElementOfSeq DEF Marked, Bytes
  <2> QED BY <1>1, <2>1 DEF Marked, Byte
<1>3. Base \in Nat
  BY ComposerAssumption
<1>4. j < n /\ \A i \in 1..r : j + i <= n => u[i] = h[j + i]
  BY <1>1
<1>5. \A i \in 1..r : j + i < n => j + i \in 1..n /\ u[i] = h[j + i] /\ ~ (u[i] < Base)
  <2> TAKE i \in 1..r
  <2> HAVE j + i < n
  <2>1. j + i \in 1..n /\ j + i <= n
    OBVIOUS
  <2> QED BY <1>2, <1>3, <1>4, <2>1
<1>6. \A i \in 1..r : j + i = n => u[i] < Base /\ ~ (u[i] >= Base)
  <2> TAKE i \in 1..r
  <2> HAVE j + i = n
  <2>1. n \in 1..n /\ ~ (n < n) /\ j + i <= n
    BY <1>1
  <2> QED BY <1>2, <1>3, <1>4, <2>1
<1>7. ASSUME NEW size \in 1..r, u[size] < Base, \A i \in 1..size-1 : u[i] >= Base
      PROVE  j + size = n
  <2>1. ~ (j + size < n)
    BY <1>5, <1>7
  <2>2. ASSUME j + size > n
        PROVE  FALSE
    <3>1. n - j \in 1..size-1 /\ n - j \in 1..r /\ j + (n - j) = n
      BY <1>4, <2>2
    <3> QED BY <1>6, <1>7, <3>1
  <2> QED BY <2>1, <2>2
<1>8. ASSUME r >= n - j
      PROVE  \E size \in 1..r : u[size] < Base /\ (\A i \in 1..size-1 : u[i] >= Base)
  <2>1. PICK size \in 1..r : j + size = n
    <3>1. n - j \in 1..r /\ j + (n - j) = n
      BY <1>4, <1>8
    <3> QED BY <3>1
  <2>2. u[size] < Base
    BY <1>6, <2>1
  <2>3. ASSUME NEW i \in 1..size-1
        PROVE  u[i] >= Base
    <3>1. i \in 1..r /\ j + i < n /\ j + i \in 1..n
      BY <2>1
    <3> QED BY <1>2, <1>4, <3>1
  <2> QED BY <2>2, <2>3
<1> QED BY <1>1, <1>7, <1>8

(* The value of the digits of a header.                                    *)
LEMMA HeaderValue ==
  ASSUME NEW n \in Nat
  PROVE  Value(0, Header(n)) = n
<1> DEFINE d == Digits(n)
           h == Header(n)
           e == <<>>
<1>1. d \in Seq(Byte) /\ h \in Seq(Byte) /\ Len(h) = Len(d) /\ Len(d) \in Nat
      /\ \A i \in 1..Len(h) : h[i] % Base = d[i] % Base
  BY ValueOfDigits, HeaderIs, LenProperties
<1>2. e \in Seq(Byte) /\ Len(e) = 0 /\ 0 \in Nat
  BY EmptySeq
<1>3. Value(0, e) = 0
  BY <1>2, ValueSmall
<1>4. Value(0, d) = n
  BY ValueOfDigits
<1> HIDE DEF d, h, e
<1>5. Joins(e, d, h)
  BY <1>1, <1>2 DEF Joins
<1>6. Value(Value(0, e), d) = Value(0, h)
  BY <1>2, <1>5, ValueJoin
<1>7. Value(0, h) = n
  BY <1>3, <1>4, <1>6
<1> QED BY <1>7 DEF h

(* More of the header of n is read: r bytes u behind the first j.          *)
ReadsOn(n, j, r, u) ==
  /\ n \in Nat /\ j \in Nat /\ r \in Nat /\ j + r <= Len(Header(n))
  /\ u \in Bytes /\ Len(u) = r /\ \A i \in 1..r : u[i] = Header(n)[j + i]

(* Digits read in two parts have the value of the digits read at once.     *)
LEMMA ValueGoesOn ==
  ASSUME NEW n, NEW j, NEW r, NEW u, ReadsOn(n, j, r, u)
  PROVE  /\ Value(Value(0, SubSeq(Header(n), 1, j)), u) = Value(0, SubSeq(Header(n), 1, j + r))
         /\ Value(0, SubSeq(Header(n), 1, j)) \in Nat
         /\ j + r = Len(Header(n)) => Value(0, SubSeq(Header(n), 1, j + r)) = n
<1>0. /\ n \in Nat /\ j \in Nat /\ r \in Nat /\ j + r <= Len(Header(n))
      /\ u \in Bytes /\ Len(u) = r /\ \A i \in 1..r : u[i] = Header(n)[j + i]
  BY DEF ReadsOn
<1> DEFINE h == Header(n)
           p == SubSeq(h, 1, j)
           e == SubSeq(h, 1, j + r)
<1>1. h \in Seq(Byte) /\ u \in Seq(Byte) /\ Len(h) \in Nat
  BY <1>0, HeaderIs, LenProperties DEF Bytes
<1>2. Value(0, h) = n
  BY <1>0, HeaderValue
<1>3. \A i \in 1..r : u[i] = h[j + i]
  BY <1>0
<1>4. j + r <= Len(h)
  BY <1>0
<1> HIDE DEF h
<1>5. p \in Seq(Byte) /\ Len(p) = j /\ \A i \in 1..j : p[i] = h[i]
  <2>1. p \in Seq(Byte) /\ Len(p) = j - 1 + 1 /\ \A i \in 1..j-1+1 : p[i] = h[1 + i - 1]
    BY <1>0, <1>1, <1>4, PartIs
  <2> HIDE DEF p
  <2>2. ASSUME NEW i \in 1..j
        PROVE  p[i] = h[i]
    <3>1. i \in 1..j-1+1 /\ 1 + i - 1 = i
      BY <1>0
    <3> QED BY <2>1, <3>1
  <2> QED BY <1>0, <2>1, <2>2
<1>6. e \in Seq(Byte) /\ Len(e) = j + r /\ \A i \in 1..j+r : e[i] = h[i]
  <2>1. e \in Seq(Byte) /\ Len(e) = j + r - 1 + 1 /\ \A i \in 1..j+r-1+1 : e[i] = h[1 + i - 1]
    BY <1>0, <1>1, <1>4, PartIs
  <2> HIDE DEF e
  <2>2. ASSUME NEW i \in 1..j+r
        PROVE  e[i] = h[i]
    <3>1. i \in 1..j+r-1+1 /\ 1 + i - 1 = i
      BY <1>0
    <3> QED BY <2>1, <3>1
  <2> QED BY <1>0, <2>1, <2>2
<1>7. j + r = Len(h) => e = h
  BY <1>0, <1>1, SubSeqFull
<1> HIDE DEF p, e
<1>8. Joins(p, u, e)
  <2>1. Len(e) = Len(p) + Len(u)
    BY <1>0, <1>5, <1>6
  <2>2. \A i \in 1..Len(p) : e[i] = p[i]
    BY <1>0, <1>5, <1>6
  <2>3. \A i \in 1..Len(u) : e[Len(p) + i] = u[i]
    <3>1. \A i \in 1..r : j + i \in 1..j+r
      BY <1>0
    <3>2. \A i \in 1..r : e[j + i] = u[i]
      BY <1>3, <1>6, <3>1
    <3>3. Len(u) = r /\ Len(p) = j
      BY <1>0, <1>5
    <3> QED BY <3>2, <3>3
  <2>4. \A i \in 1..Len(p) : e[i] % Base = p[i] % Base
    BY <2>2
  <2>5. \A i \in 1..Len(u) : e[Len(p) + i] % Base = u[i] % Base
    BY <2>3
  <2> QED BY <1>1, <1>5, <1>6, <2>1, <2>4, <2>5 DEF Joins
<1>9. 0 \in Nat
  OBVIOUS
<1>10. Value(Value(0, p), u) = Value(0, e) /\ Value(0, p) \in Nat
  BY <1>0, <1>8, <1>9, ValueJoin
<1>11. j + r = Len(h) => Value(0, e) = n
  BY <1>2, <1>7
<1> QED BY <1>10, <1>11 DEF p, e, h

-----------------------------------------------------------------------------
(* Where the next message lies in the stream of all.                       *)
LEMMA ComingIs ==
  ASSUME TypeOK, ReceivedFirst, Len(received) < Len(sent)
  PROVE  LET h == Header(Len(Coming))
             S == Stream(sent)
             R == Len(Stream(received))
         IN  /\ Coming \in Message /\ Coming \in Bytes /\ Len(Coming) \in Nat /\ Len(Coming) # 0
             /\ Marked(h) /\ Len(h) \in Nat
             /\ S \in Bytes /\ R \in Nat
             /\ R + Len(h) + Len(Coming) <= Len(S)
             /\ \A i \in 1..Len(h) : S[R + i] = h[i]
             /\ \A i \in 1..Len(Coming) : S[R + Len(h) + i] = Coming[i]
<1>1. PICK k \in Nat, n \in Nat : k = Len(received) /\ n = Len(sent) /\ k < n
  BY LenProperties DEF TypeOK
<1>2. Coming \in Message
  <2>1. k + 1 \in 1..Len(sent)
    BY <1>1
  <2> QED BY <1>1, <2>1, ElementOfSeq DEF TypeOK, Coming
<1>3. Coming \in Bytes /\ Len(Coming) \in Nat /\ Len(Coming) # 0
  BY <1>2, MessageBytes
<1> DEFINE h == Header(Len(Coming))
           c == Compose(Coming)
           S == Stream(sent)
           R == Stream(received)
<1>4. Marked(h)
  BY <1>3, HeaderMarked
<1>5. First(received, sent)
  BY MessageBytes DEF TypeOK, First, ReceivedFirst, Bytes
<1>6. /\ R \in Bytes /\ S \in Bytes
      /\ Len(R) + Len(c) <= Len(S)
      /\ \A i \in 1..Len(c) : S[Len(R) + i] = c[i]
  BY <1>1, <1>5, StreamOfFirst DEF Coming
<1>7. /\ Len(c) = Len(h) + Len(Coming)
      /\ \A i \in 1..Len(h) : c[i] = h[i]
      /\ \A i \in 1..Len(Coming) : c[Len(h) + i] = Coming[i]
  BY <1>3, ComposeIs DEF Bytes
<1> HIDE DEF h, c, S, R
<1>8. PICK a \in Nat, b \in Nat, z \in Nat, m \in Nat :
         a = Len(h) /\ b = Len(R) /\ z = Len(S) /\ m = Len(Coming)
  BY <1>3, <1>4, <1>6, LenProperties DEF Marked, Bytes
<1>9. b + a + m <= z
  BY <1>6, <1>7, <1>8
<1>10. ASSUME NEW i \in 1..a
       PROVE  S[b + i] = h[i]
  <2>1. i \in 1..Len(c)
    BY <1>7, <1>8
  <2> QED BY <1>6, <1>7, <1>8, <2>1
<1>11. ASSUME NEW i \in 1..m
       PROVE  S[b + a + i] = Coming[i]
  <2>1. a + i \in 1..Len(c) /\ b + (a + i) = b + a + i
    BY <1>7, <1>8
  <2>2. S[b + (a + i)] = c[a + i] /\ c[a + i] = Coming[i]
    BY <1>6, <1>7, <1>8, <2>1
  <2> QED BY <2>1, <2>2
<1>12. /\ Marked(h) /\ Len(h) \in Nat /\ S \in Bytes /\ Len(R) \in Nat
       /\ Len(R) + Len(h) + Len(Coming) <= Len(S)
       /\ \A i \in 1..Len(h) : S[Len(R) + i] = h[i]
       /\ \A i \in 1..Len(Coming) : S[Len(R) + Len(h) + i] = Coming[i]
  BY <1>4, <1>6, <1>8, <1>9, <1>10, <1>11
<1> QED BY <1>2, <1>3, <1>12 DEF h, S, R

(* A thread uses n bytes of its piece.                                     *)
LEMMA UseFollows ==
  ASSUME TypeOK, TypeOK', NEW t \in Thread, NEW n \in 0..Rest(t),
         Use(t, n) \/ (Drop(t) /\ n = Rest(t)), wire' = wire,
         \A v \in Thread \ {t} : Rest(v) = 0,
         NEW S \in Bytes, NEW p \in Nat, Follows(Ahead(t), S, p)
  PROVE  /\ Follows(Ahead(t)', S, p + n)
         /\ \A v \in Thread \ {t} : Rest(v)' = 0
         /\ p + Rest(t) <= Len(S)
         /\ \A i \in 1..Rest(t) : Unused(t)[i] = S[p + i]
<1> DEFINE A == Ahead(t)
           B == Ahead(t)'
           P == piece[t]
           o == offset[t]
           Q == piece'[t]
           q == offset'[t]
<1>1. Shows(A, P, o, wire) /\ Shows(B, Q, q, wire)
  BY AheadShows, AheadShowsNext
<1>2. Rest(t) \in Nat /\ P \in Bytes /\ o \in Nat /\ o + Rest(t) = Len(P)
      /\ Rest(t) = Len(P) - o
  BY RestIs DEF Rest
<1>3. n \in Nat /\ n <= Len(P) - o
  BY <1>2
<1>4. /\ Len(Q) - q = (Len(P) - o) - n
      /\ \A i \in 1..Len(Q) - q : Q[q + i] = P[o + n + i]
      /\ \A v \in Thread \ {t} : Rest(v)' = Rest(v)
  <2>1. CASE Use(t, n)
    <3>1. Q = P /\ q = o + n /\ \A v \in Thread \ {t} : Rest(v)' = Rest(v)
      BY <2>1 DEF Use, TypeOK, Rest
    <3>2. Len(Q) - q = (Len(P) - o) - n
      <4>1. Len(P) \in Nat
        BY <1>2, LenProperties DEF Bytes
      <4> QED BY <1>2, <1>3, <3>1, <4>1
    <3>3. \A i \in 1..Len(Q) - q : Q[q + i] = P[o + n + i]
      BY <3>1
    <3> QED BY <3>1, <3>2, <3>3
  <2>2. CASE Drop(t) /\ n = Rest(t)
    <3>1. Q = <<>> /\ q = 0 /\ \A v \in Thread \ {t} : Rest(v)' = Rest(v)
      BY <2>2 DEF Drop, TypeOK, Rest
    <3>2. Len(Q) - q = (Len(P) - o) - n /\ Len(Q) - q = 0
      <4>1. Len(Q) = 0
        BY <3>1, EmptySeq
      <4>2. Len(P) \in Nat
        BY <1>2, LenProperties DEF Bytes
      <4> QED BY <1>2, <2>2, <3>1, <4>1, <4>2
    <3>3. \A i \in 1..Len(Q) - q : Q[q + i] = P[o + n + i]
      BY <3>2
    <3> QED BY <3>1, <3>2, <3>3
  <2> QED BY <2>1, <2>2
<1>5. \A v \in Thread \ {t} : Rest(v)' = 0
  BY <1>4
<1>6. \A i \in 1..Rest(t) : Unused(t)[i] = P[o + i]
  BY RestBytes
<1>7. Follows(A, S, p)
  OBVIOUS
<1>8. S \in Bytes /\ p \in Nat
  OBVIOUS
<1> HIDE DEF A, B, P, o, Q, q
<1>9. Spends(A, P, o, B, Q, q, wire, n, S, p)
  BY <1>1, <1>3, <1>4, <1>7, <1>8 DEF Spends
<1>10. /\ Follows(B, S, p + n)
       /\ p + (Len(P) - o) <= Len(S)
       /\ \A i \in 1..Len(P) - o : P[o + i] = S[p + i]
  BY <1>9, FollowsUse
<1>11. p + Rest(t) <= Len(S) /\ \A i \in 1..Rest(t) : Unused(t)[i] = S[p + i]
  BY <1>2, <1>6, <1>10
<1> QED BY <1>5, <1>10, <1>11 DEF B

(* The stream of messages is a sequence of bytes.                          *)
LEMMA StreamBytes ==
  ASSUME NEW s \in Seq(Bytes)
  PROVE  Stream(s) \in Bytes /\ Len(Stream(s)) \in Nat
<1>1. First(s, s)
  BY LenProperties DEF First
<1>2. Stream(s) \in Bytes
  BY <1>1, StreamOfFirst
<1> QED BY <1>2, LenProperties DEF Bytes

(* The messages of a state.                                                *)
LEMMA MessagesOf ==
  ASSUME NEW s, s \in Seq(Message) \/ s \in Seq(Seq(Byte))
  PROVE  s \in Seq(Bytes) /\ Len(s) \in Nat
BY MessageBytes, LenProperties DEF Bytes

(* A whole stream after a step, at a place p.                              *)
LEMMA WholeNext ==
  ASSUME TypeOK', NEW t \in Thread, NEW p \in Nat,
         \A v \in Thread \ {t} : Rest(v)' = 0,
         Follows(Ahead(t)', Stream(sent'), p),
         HoldsNothing(p)' \/ HoldsLength(p)' \/ HoldsData(p)'
  PROVE  Whole(t)'
<1> DEFINE A == Ahead(t)'
           S == Stream(sent')
<1>1. \E r, l \in Nat : Sized(A, piece'[t], offset'[t], wire', r, l)
  BY AheadShowsNext, ShowsSizes
<1>2. sent' \in Seq(Bytes)
  BY MessagesOf DEF TypeOK
<1>3. Len(S) \in Nat
  BY <1>2, StreamBytes
<1>4. Follows(A, S, p)
  OBVIOUS
<1> HIDE DEF A, S
<1>5. Len(A) \in Nat
  BY <1>1 DEF Sized
<1>6. p \in 0..Len(S)
  BY <1>3, <1>4, <1>5 DEF Follows
<1>7. \E place \in 0..Len(S) : Follows(A, S, place) /\ (HoldsNothing(place)' \/ HoldsLength(place)' \/ HoldsData(place)')
  BY <1>4, <1>6
<1> QED BY <1>7 DEF A, S, Whole

(* A thread that still has bytes is the one with the whole stream.         *)
LEMMA OnlyReader ==
  ASSUME TypeOK, NEW t \in Thread, Whole(t), NEW u \in Thread, Rest(u) # 0
  PROVE  u = t
BY DEF Whole

(* What the messages received make.                                        *)
LEMMA AllReceived ==
  ASSUME TypeOK, ReceivedFirst, Len(received) = Len(sent)
  PROVE  Stream(received) = Stream(sent)
<1>1. received \in Seq(Bytes) /\ sent \in Seq(Bytes)
  BY MessagesOf DEF TypeOK
<1>2. received = sent
  BY <1>1, SeqEqual DEF ReceivedFirst
<1> QED BY <1>2

(* A thread with bytes of the header of the next message, of which the     *)
(* Composer holds j bytes.                                                 *)
AtHeader(t, p, j) ==
  /\ Len(received) < Len(sent) /\ j < Len(Header(Len(Coming)))
  /\ p = Len(Stream(received)) + j
  /\ length = Value(0, SubSeq(Header(Len(Coming)), 1, j))
  /\ Follows(Ahead(t), Stream(sent), p)
  /\ \A i \in 1..Rest(t) : j + i <= Len(Header(Len(Coming))) => Unused(t)[i] = Header(Len(Coming))[j + i]

(* Nothing is used: the bytes a thread holds are those of the stream.      *)
LEMMA HeldByThread ==
  ASSUME TypeOK, NEW t \in Thread, NEW S \in Bytes, NEW p \in Nat, Follows(Ahead(t), S, p)
  PROVE  /\ p + Rest(t) <= Len(S)
         /\ \A i \in 1..Rest(t) : Unused(t)[i] = S[p + i]
<1> DEFINE A == Ahead(t)
           P == piece[t]
           o == offset[t]
<1>1. Shows(A, P, o, wire)
  BY AheadShows
<1>2. Rest(t) \in Nat /\ P \in Bytes /\ o \in Nat /\ Rest(t) = Len(P) - o
  BY RestIs DEF Rest
<1>3. \A i \in 1..Rest(t) : Unused(t)[i] = P[o + i]
  BY RestBytes
<1>4. Follows(A, S, p) /\ S \in Bytes /\ p \in Nat
  OBVIOUS
<1> HIDE DEF A, P, o
<1>5. (Len(P) - o) - 0 = Len(P) - o /\ o + 0 = o /\ 0 \in Nat /\ 0 <= Len(P) - o
  BY <1>2
<1>6. \A i \in 1..Len(P) - o : P[o + i] = P[o + 0 + i]
  BY <1>5
<1>7. Spends(A, P, o, A, P, o, wire, 0, S, p)
  BY <1>1, <1>4, <1>5, <1>6 DEF Spends
<1>8. /\ p + (Len(P) - o) <= Len(S)
      /\ \A i \in 1..Len(P) - o : P[o + i] = S[p + i]
  BY <1>7, FollowsUse
<1> QED BY <1>2, <1>3, <1>8

(* Bytes that wait while a length is read are those of the header to       *)
(* come.                                                                   *)
LEMMA ReachesHeader ==
  ASSUME TypeOK, ReceivedFirst, NEW t \in Thread, Whole(t), state = "length", Rest(t) # 0
  PROVE  \E p, j \in Nat : AtHeader(t, p, j)
<1> DEFINE S == Stream(sent)
           R == Len(Stream(received))
           h == Header(Len(Coming))
<1>1. sent \in Seq(Bytes) /\ received \in Seq(Bytes) /\ Len(sent) \in Nat /\ Len(received) \in Nat
  BY MessagesOf DEF TypeOK
<1>2. S \in Bytes /\ Len(S) \in Nat /\ R \in Nat
  BY <1>1, StreamBytes
<1>3. PICK p \in 0..Len(S) : /\ Follows(Ahead(t), S, p)
                             /\ HoldsNothing(p) \/ HoldsLength(p) \/ HoldsData(p)
  BY DEF Whole
<1>4. /\ Rest(t) \in Nat /\ p \in Nat /\ p + Rest(t) <= Len(S)
      /\ \A i \in 1..Rest(t) : Unused(t)[i] = S[p + i]
  <2>1. p \in Nat
    BY <1>2
  <2>2. Rest(t) \in Nat
    BY RestIs
  <2> QED BY <1>2, <1>3, <2>1, <2>2, HeldByThread
<1>5. ~ HoldsNothing(p)
  <2> SUFFICES ASSUME HoldsNothing(p) PROVE FALSE
    OBVIOUS
  <2>1. p = R /\ Len(received) = Len(sent)
    BY DEF HoldsNothing
  <2>2. Stream(received) = S
    BY <2>1, AllReceived
  <2>3. p = Len(S)
    BY <2>1, <2>2
  <2> HIDE DEF S, R
  <2> QED BY <1>2, <1>4, <2>3
<1>6. ~ HoldsData(p)
  BY DEF HoldsData
<1>7. HoldsLength(p)
  BY <1>3, <1>5, <1>6
<1>8. Len(received) < Len(sent)
  BY <1>7 DEF HoldsLength
<1>9. /\ Len(h) \in Nat /\ \A i \in 1..Len(h) : S[R + i] = h[i]
  BY <1>8, ComingIs
<1>10. PICK j \in 0..Len(h)-1 : p = R + j /\ length = Value(0, SubSeq(h, 1, j))
  BY <1>7 DEF HoldsLength
<1>11. j \in Nat /\ j < Len(h)
  BY <1>9, <1>10
<1>12. ASSUME NEW i \in 1..Rest(t), j + i <= Len(h)
       PROVE  Unused(t)[i] = h[j + i]
  <2>1. j + i \in 1..Len(h) /\ p + i = R + (j + i)
    BY SMTT(30), <1>2, <1>4, <1>9, <1>10, <1>11, <1>12
  <2> QED BY <1>4, <1>9, <2>1
<1>13. AtHeader(t, p, j)
  BY <1>3, <1>8, <1>10, <1>11, <1>12 DEF AtHeader
<1> QED BY <1>4, <1>11, <1>13

-----------------------------------------------------------------------------
(* Nothing is read before the header begins.                               *)
LEMMA NoDigits ==
  ASSUME NEW s \in Bytes
  PROVE  Value(0, SubSeq(s, 1, 0)) = 0
<1>1. SubSeq(s, 1, 0) \in Bytes /\ Len(SubSeq(s, 1, 0)) = 0
  <2>1. SubSeq(s, 1, 0) \in Seq(Byte) /\ Len(SubSeq(s, 1, 0)) = 0 - 1 + 1
    BY PartIs, LenProperties DEF Bytes
  <2> QED BY <2>1 DEF Bytes
<1>2. SubSeq(s, 1, 0) = <<>>
  BY <1>1, EmptySeq DEF Bytes
<1>3. 0 \in Nat /\ <<>> \in Seq(Byte)
  BY EmptySeq
<1> QED BY <1>2, <1>3, ValueSmall

(* The server sends: the wire and the stream grow alike.                   *)
LEMMA SendKeepsWhole ==
  ASSUME TypeOK, TypeOK', ReceivedFirst, NEW m \in Message, ServerSends(m),
         NEW t \in Thread, Whole(t)
  PROVE  ReceivedFirst' /\ Whole(t)'
<1> DEFINE c == Compose(m)
           S == Stream(sent)
           A == Ahead(t)
           B == Ahead(t)'
<1>1. /\ sent \in Seq(Bytes) /\ Len(sent) \in Nat /\ received \in Seq(Bytes) /\ Len(received) \in Nat
      /\ m \in Bytes /\ Len(m) \in Nat /\ Len(m) # 0
  BY MessagesOf, MessageBytes DEF TypeOK
<1>2. /\ sent' = Append(sent, m) /\ wire' = wire \o c /\ received' = received
      /\ piece' = piece /\ offset' = offset
      /\ state' = state /\ length' = length /\ left' = left /\ buf' = buf
  BY DEF ServerSends, reading, composer
<1>3. /\ Stream(sent') = S \o c /\ c \in Bytes /\ S \in Bytes
      /\ Len(S) \in Nat /\ Len(Stream(received)) \in Nat
  BY <1>1, <1>2, StreamOfMore, StreamBytes
<1>4. /\ Len(sent') = Len(sent) + 1 /\ sent'[Len(sent) + 1] = m
      /\ \A i \in 1..Len(sent) : sent'[i] = sent[i]
  BY <1>1, <1>2, AppendProperties
<1>5. ReceivedFirst'
  BY <1>1, <1>2, <1>4 DEF ReceivedFirst
<1>6. \A v \in Thread \ {t} : Rest(v)' = 0
  BY <1>2 DEF Whole, Rest
<1>7. PICK p \in 0..Len(S) : /\ Follows(A, S, p)
                             /\ HoldsNothing(p) \/ HoldsLength(p) \/ HoldsData(p)
  BY DEF Whole
<1>8. Follows(B, S \o c, p)
  <2>1. Shows(A, piece[t], offset[t], wire)
    BY AheadShows
  <2>2. Shows(B, piece[t], offset[t], wire \o c)
    BY <1>2, AheadShowsNext
  <2>3. p \in Nat
    BY <1>3, <1>7
  <2> HIDE DEF A, B, S, c
  <2> QED BY <1>3, <1>7, <2>1, <2>2, <2>3, FollowsSend
<1>9. HoldsNothing(p) => HoldsLength(p)'
  <2> SUFFICES ASSUME HoldsNothing(p) PROVE HoldsLength(p)'
    OBVIOUS
  <2>1. /\ Len(received) = Len(sent) /\ state = "length" /\ length = 0
        /\ p = Len(Stream(received))
    BY DEF HoldsNothing
  <2>2. Coming' = m
    BY <1>2, <1>4, <2>1 DEF Coming
  <2>3. Header(Len(m)) \in Bytes /\ Len(Header(Len(m))) \in Nat /\ Len(Header(Len(m))) >= 1
    BY <1>1, HeaderMarked, LenProperties DEF Marked, Bytes
  <2>4. Value(0, SubSeq(Header(Len(m)), 1, 0)) = 0
    BY <2>3, NoDigits
  <2>5. 0 \in 0..Len(Header(Len(m)))-1 /\ p = Len(Stream(received)) + 0
    BY <1>3, <2>1, <2>3
  <2>6. Len(received') < Len(sent')
    BY <1>1, <1>2, <1>4, <2>1
  <2> QED BY <1>2, <2>1, <2>2, <2>4, <2>5, <2>6 DEF HoldsLength
<1>10. Len(received) < Len(sent) => Coming' = Coming /\ Len(received') < Len(sent')
  BY <1>1, <1>2, <1>4 DEF Coming
<1>11. HoldsLength(p) => HoldsLength(p)'
  BY <1>2, <1>10 DEF HoldsLength
<1>12. HoldsData(p) => HoldsData(p)'
  BY <1>2, <1>10 DEF HoldsData
<1>13. p \in Nat /\ Follows(Ahead(t)', Stream(sent'), p)
  BY <1>3, <1>7, <1>8
<1>14. HoldsNothing(p)' \/ HoldsLength(p)' \/ HoldsData(p)'
  BY <1>7, <1>9, <1>11, <1>12
<1> QED BY <1>5, <1>6, <1>13, <1>14, WholeNext

(* A read moves bytes from the wire to the thread that now has the whole   *)
(* stream.                                                                 *)
LEMMA ReadKeepsWhole ==
  ASSUME TypeOK, TypeOK', ReceivedFirst, NEW u \in Thread, NEW k \in 1..Len(wire), Read(u, k),
         broken = "no", broken' = "no", NEW t \in Thread, Whole(t)
  PROVE  ReceivedFirst' /\ Whole(u)'
<1> DEFINE S == Stream(sent)
           A == Ahead(t)
           C == Ahead(u)
           B == Ahead(u)'
<1>1. /\ sent' = sent /\ received' = received /\ state' = state /\ length' = length
      /\ left' = left /\ buf' = buf
  BY DEF Read, composer
<1>2. /\ piece'[u] = SubSeq(wire, 1, k) /\ offset'[u] = 0
      /\ wire' = SubSeq(wire, k + 1, Len(wire))
      /\ Rest(u) = 0
      /\ \A v \in Thread \ {u} : Rest(v)' = Rest(v)
  BY DEF Read, TypeOK, Rest
<1>3. \A v \in Thread \ {u} : Rest(v) = 0
  <2>1. ~ \E v \in Thread \ {u} : Rest(v) > 0
    BY DEF Read, Breaks
  <2>2. \A v \in Thread \ {u} : Rest(v) \in Nat
    BY RestIs
  <2> QED BY <2>1, <2>2
<1>4. \A v \in Thread \ {u} : Rest(v)' = 0
  BY <1>2, <1>3
<1>5. PICK p \in 0..Len(S) : /\ Follows(A, S, p)
                             /\ HoldsNothing(p) \/ HoldsLength(p) \/ HoldsData(p)
  BY DEF Whole
<1>6. S \in Bytes /\ Len(S) \in Nat
  <2>1. sent \in Seq(Bytes)
    BY MessagesOf DEF TypeOK
  <2> QED BY <2>1, StreamBytes
<1>7. p \in Nat
  BY <1>5, <1>6
<1>8. Follows(C, S, p)
  <2> DEFINE P == piece[t]
             o == offset[t]
             Q == piece[u]
             q == offset[u]
  <2>1. Shows(A, P, o, wire) /\ Shows(C, Q, q, wire)
    BY AheadShows
  <2>2. Rest(t) = 0
    BY <1>2, <1>3
  <2>3. Len(P) - o = 0 /\ Len(Q) - q = 0
    BY <1>2, <2>2 DEF Rest
  <2> HIDE DEF A, C, S, P, o, Q, q
  <2>4. 0 \in Nat /\ 0 <= Len(P) - o /\ Len(Q) - q = (Len(P) - o) - 0
    BY <2>3
  <2>5. \A i \in 1..Len(Q) - q : Q[q + i] = P[o + 0 + i]
    BY <2>3
  <2>6. Spends(A, P, o, C, Q, q, wire, 0, S, p)
    BY <1>5, <1>6, <1>7, <2>1, <2>4, <2>5 DEF Spends
  <2>7. Follows(C, S, p + 0)
    BY <2>6, FollowsUse
  <2> QED BY <1>7, <2>7
<1>9. Follows(B, S, p)
  <2>1. Shows(C, piece[u], offset[u], wire) /\ Len(piece[u]) - offset[u] = 0
    BY <1>2, AheadShows DEF Rest
  <2>2. Shows(B, SubSeq(wire, 1, k), 0, SubSeq(wire, k + 1, Len(wire)))
    BY <1>2, AheadShowsNext
  <2> HIDE DEF B, C, S
  <2> QED BY <1>6, <1>7, <1>8, <2>1, <2>2, FollowsRead
<1>10. HoldsNothing(p)' \/ HoldsLength(p)' \/ HoldsData(p)'
  BY <1>1, <1>5 DEF HoldsNothing, HoldsLength, HoldsData, Coming
<1>11. Follows(Ahead(u)', Stream(sent'), p)
  BY <1>1, <1>9
<1>12. ReceivedFirst'
  BY <1>1 DEF ReceivedFirst
<1> QED BY <1>4, <1>7, <1>10, <1>11, <1>12, WholeNext

(* The last byte of the header is read: its value is the length.           *)
LEMMA LengthKeepsWhole ==
  ASSUME TypeOK, TypeOK', ReceivedFirst, NEW u \in Thread, ReadLength(u),
         NEW t \in Thread, Whole(t)
  PROVE  ReceivedFirst' /\ Whole(t)'
<1> DEFINE S == Stream(sent)
           R == Len(Stream(received))
           h == Header(Len(Coming))
           x == Unused(u)
           r == Rest(u)
<1>1. PICK size \in HeaderEnds(u) :
        LET value == Value(length, SubSeq(x, 1, size))
        IN  /\ Use(u, size)
            /\ IF value = 0
               THEN /\ received' = Append(received, <<>>)
                    /\ UNCHANGED composer
               ELSE /\ state' = "data" /\ length' = value /\ left' = value /\ buf' = <<>>
                    /\ UNCHANGED received
  BY DEF ReadLength
<1>2. state = "length" /\ wire' = wire /\ sent' = sent
  BY DEF ReadLength
<1>3. size \in 1..r /\ x[size] < Base /\ \A i \in 1..size-1 : x[i] >= Base
  BY DEF HeaderEnds
<1>4. /\ r \in Nat /\ x \in Bytes /\ Len(x) = r /\ size \in Nat /\ size # 0
      /\ size \in 0..r /\ r # 0
  BY <1>3, RestIs
<1>5. u = t
  BY <1>4, OnlyReader
<1>6. PICK p \in Nat, j \in Nat : AtHeader(t, p, j)
  BY <1>2, <1>4, <1>5, ReachesHeader
<1>7. /\ Len(received) < Len(sent) /\ j < Len(h) /\ p = R + j
      /\ length = Value(0, SubSeq(h, 1, j))
      /\ Follows(Ahead(t), S, p)
      /\ \A i \in 1..r : j + i <= Len(h) => x[i] = h[j + i]
  BY <1>5, <1>6 DEF AtHeader
<1>8. /\ Coming \in Message /\ Coming \in Bytes /\ Len(Coming) \in Nat /\ Len(Coming) # 0
      /\ Marked(h) /\ Len(h) \in Nat /\ S \in Bytes /\ R \in Nat
  BY <1>7, ComingIs
<1>9. j + size = Len(h)
  <2> HIDE DEF h, x, r, S, R
  <2>1. \A n \in 1..r : x[n] < Base /\ (\A i \in 1..n-1 : x[i] >= Base) => j + n = Len(h)
    BY ZenonT(40), <1>4, <1>7, <1>8, HeaderEnding
  <2> QED BY <1>3, <2>1
<1> DEFINE d == SubSeq(x, 1, size)
<1>10. d \in Bytes /\ Len(d) = size /\ \A i \in 1..size : d[i] = h[j + i]
  <2> HIDE DEF h, x, r, S, R
  <2>1. /\ d \in Seq(Byte) /\ Len(d) = size - 1 + 1
        /\ \A i \in 1..size-1+1 : d[i] = x[1 + i - 1]
    BY <1>3, <1>4, PartIs DEF Bytes
  <2> HIDE DEF d
  <2>2. ASSUME NEW i \in 1..size
        PROVE  d[i] = h[j + i]
    <3>1. i \in 1..size-1+1 /\ 1 + i - 1 = i /\ i \in 1..r /\ j + i <= Len(h)
      BY <1>3, <1>4, <1>8, <1>9
    <3> QED BY <1>7, <2>1, <3>1
  <2> QED BY <1>4, <2>1, <2>2 DEF Bytes
<1>11. Value(length, d) = Len(Coming)
  <2> HIDE DEF x, r, S, R, d
  <2>1. j + size <= Len(Header(Len(Coming)))
    BY <1>8, <1>9
  <2>2. /\ Value(Value(0, SubSeq(h, 1, j)), d) = Value(0, SubSeq(h, 1, j + size))
        /\ j + size = Len(h) => Value(0, SubSeq(h, 1, j + size)) = Len(Coming)
    <3>1. ReadsOn(Len(Coming), j, size, d)
      BY <1>4, <1>8, <1>10, <2>1 DEF ReadsOn, h
    <3> QED BY <3>1, ValueGoesOn DEF h
  <2> QED BY <1>7, <1>9, <2>2
<1>12. /\ Use(u, size) /\ state' = "data" /\ length' = Len(Coming) /\ left' = Len(Coming)
       /\ buf' = <<>> /\ received' = received
  BY <1>1, <1>8, <1>11
<1>13. \A v \in Thread \ {t} : Rest(v) = 0
  BY DEF Whole
<1>14. Follows(Ahead(t)', S, p + size) /\ \A v \in Thread \ {t} : Rest(v)' = 0
  <2> HIDE DEF x, S, R, h, d
  <2> QED BY <1>2, <1>4, <1>5, <1>7, <1>8, <1>12, <1>13, UseFollows
<1>15. ReceivedFirst' /\ Coming' = Coming
  BY <1>2, <1>12 DEF ReceivedFirst, Coming
<1>16. Len(<<>>) = 0 /\ p + size = R + Len(h) + 0 /\ p + size \in Nat
  <2>1. Len(<<>>) = 0
    BY EmptySeq
  <2> HIDE DEF x, r, S, R, h, d
  <2>2. PICK n \in Nat : n = Len(h)
    BY <1>8
  <2>3. p = R + j /\ j + size = n /\ R \in Nat /\ size \in Nat
    BY <1>4, <1>7, <1>8, <1>9, <2>2
  <2>4. p + size = R + n + 0 /\ p + size \in Nat
    BY <2>3
  <2> QED BY <2>1, <2>2, <2>4
<1>17. HoldsData(p + size)'
  <2>1. \A i \in 1..Len(buf') : buf'[i] = Coming[i]
    BY <1>12, <1>16
  <2>2. Len(Coming) > 0
    BY <1>8
  <2> QED BY <1>2, <1>7, <1>12, <1>15, <1>16, <2>1, <2>2 DEF HoldsData
<1>18. Follows(Ahead(t)', Stream(sent'), p + size)
  BY <1>2, <1>14
<1> QED BY <1>14, <1>15, <1>16, <1>17, <1>18, WholeNext

(* Bytes of the header are read, and the last is not among them.           *)
LEMMA PartOfLengthKeepsWhole ==
  ASSUME TypeOK, TypeOK', ReceivedFirst, NEW u \in Thread, ReadPartOfLength(u),
         NEW t \in Thread, Whole(t)
  PROVE  ReceivedFirst' /\ Whole(t)'
<1> DEFINE S == Stream(sent)
           R == Len(Stream(received))
           h == Header(Len(Coming))
           x == Unused(u)
           y == piece[u]
           r == Rest(u)
<1>1. /\ state = "length" /\ wire' = wire /\ sent' = sent /\ received' = received
      /\ state' = state /\ left' = left /\ buf' = buf
      /\ r > 0 /\ HeaderEnds(u) = {} /\ offset[u] = 0
      /\ length' = Value(length, y) /\ Use(u, r)
  BY DEF ReadPartOfLength, history
<1>2. /\ r \in Nat /\ x \in Bytes /\ Len(x) = r /\ r # 0 /\ r \in 0..r
      /\ y \in Bytes /\ Len(y) = r
  BY <1>1, RestIs
<1>3. \A i \in 1..r : x[i] = y[i]
  <2>1. \A i \in 1..r : x[i] = piece[u][offset[u] + i]
    BY RestBytes
  <2>2. \A i \in 1..r : offset[u] + i = i
    BY <1>1
  <2> QED BY <2>1, <2>2
<1>5. u = t
  BY <1>2, OnlyReader
<1>6. PICK p \in Nat, j \in Nat : AtHeader(t, p, j)
  BY <1>1, <1>2, <1>5, ReachesHeader
<1>7. /\ Len(received) < Len(sent) /\ j < Len(h) /\ p = R + j
      /\ length = Value(0, SubSeq(h, 1, j))
      /\ Follows(Ahead(t), S, p)
      /\ \A i \in 1..r : j + i <= Len(h) => x[i] = h[j + i]
  BY <1>5, <1>6 DEF AtHeader
<1>8. /\ Coming \in Message /\ Coming \in Bytes /\ Len(Coming) \in Nat /\ Len(Coming) # 0
      /\ Marked(h) /\ Len(h) \in Nat /\ S \in Bytes /\ R \in Nat
  BY <1>7, ComingIs
<1>9. j + r < Len(h)
  <2>1. ~ \E n \in 1..r : x[n] < Base /\ (\A i \in 1..n-1 : x[i] >= Base)
    BY <1>1 DEF HeaderEnds
  <2> HIDE DEF h, x, r, S, R
  <2>2. r >= Len(h) - j => \E n \in 1..r : x[n] < Base /\ (\A i \in 1..n-1 : x[i] >= Base)
    BY <1>2, <1>7, <1>8, HeaderEnding
  <2> QED BY <1>2, <1>8, <2>1, <2>2
<1>10. \A i \in 1..r : y[i] = h[j + i]
  <2> HIDE DEF h, x, r, S, R, y
  <2>1. \A i \in 1..r : j + i <= Len(h)
    BY <1>2, <1>8, <1>9
  <2> QED BY <1>3, <1>7, <2>1
<1>11. length' = Value(0, SubSeq(h, 1, j + r))
  <2> HIDE DEF x, r, S, R, y
  <2>1. j + r <= Len(Header(Len(Coming)))
    BY <1>2, <1>8, <1>9
  <2>2. Value(Value(0, SubSeq(h, 1, j)), y) = Value(0, SubSeq(h, 1, j + r))
    <3>1. ReadsOn(Len(Coming), j, r, y)
      BY <1>2, <1>8, <1>10, <2>1 DEF ReadsOn, h
    <3> QED BY <3>1, ValueGoesOn DEF h
  <2> QED BY <1>1, <1>7, <2>2
<1>13. \A v \in Thread \ {t} : Rest(v) = 0
  BY DEF Whole
<1>14. Follows(Ahead(t)', S, p + r) /\ \A v \in Thread \ {t} : Rest(v)' = 0
  <2> HIDE DEF x, S, R, h, y
  <2> QED BY <1>1, <1>2, <1>5, <1>7, <1>8, <1>13, UseFollows
<1>15. ReceivedFirst' /\ Coming' = Coming
  BY <1>1 DEF ReceivedFirst, Coming
<1>16. p + r = R + (j + r) /\ p + r \in Nat /\ j + r \in 0..Len(h)-1
  <2> HIDE DEF x, r, S, R, h, y
  <2> QED BY <1>2, <1>7, <1>8, <1>9
<1>17. \A q \in Nat : q = p + r => HoldsLength(q)'
  <2> TAKE q \in Nat
  <2> HAVE q = p + r
  <2>1. Len(received') < Len(sent') /\ state' = "length" /\ q = Len(Stream(received')) + (j + r)
    BY <1>1, <1>7, <1>16
  <2>2. Header(Len(Coming')) = h
    BY <1>15
  <2> DEFINE k == j + r
  <2>3. k \in 0..Len(Header(Len(Coming')))-1 /\ length' = Value(0, SubSeq(Header(Len(Coming')), 1, k))
    BY <1>11, <1>16, <2>2
  <2> QED BY <2>1, <2>3 DEF HoldsLength
<1>18. PICK q \in Nat : q = p + r /\ HoldsLength(q)' /\ Follows(Ahead(t)', Stream(sent'), q)
  BY <1>1, <1>14, <1>16, <1>17
<1> QED BY <1>14, <1>15, <1>18, WholeNext

(* A length of one byte is not cut.                                        *)
LEMMA CutsALongOne ==
  ASSUME TypeOK, ReceivedFirst, NEW u \in Thread, CutLength(u),
         NEW t \in Thread, Whole(t)
  PROVE  \E i \in 1..Len(sent) : Len(sent[i]) >= Base
<1> DEFINE h == Header(Len(Coming))
           x == Unused(u)
           r == Rest(u)
<1>1. state = "length" /\ r > 0 /\ HeaderEnds(u) = {}
  BY DEF CutLength
<1>2. r \in Nat /\ r # 0
  BY <1>1, RestIs
<1>3. u = t
  BY <1>2, OnlyReader
<1>4. PICK p \in Nat, j \in Nat : AtHeader(t, p, j)
  BY <1>1, <1>2, <1>3, ReachesHeader
<1>5. /\ Len(received) < Len(sent) /\ j < Len(h)
      /\ \A i \in 1..r : j + i <= Len(h) => x[i] = h[j + i]
  BY <1>3, <1>4 DEF AtHeader
<1>6. Len(Coming) \in Nat /\ Len(Coming) # 0 /\ Marked(h) /\ Len(h) \in Nat
  BY <1>5, ComingIs
<1>7. Len(h) # 1
  <2>1. ~ \E n \in 1..r : x[n] < Base /\ (\A i \in 1..n-1 : x[i] >= Base)
    BY <1>1 DEF HeaderEnds
  <2> HIDE DEF h, x, r
  <2>2. r >= Len(h) - j => \E n \in 1..r : x[n] < Base /\ (\A i \in 1..n-1 : x[i] >= Base)
    BY <1>2, <1>5, <1>6, HeaderEnding
  <2>3. SUFFICES ASSUME Len(h) = 1 PROVE FALSE
    OBVIOUS
  <2>4. r >= Len(h) - j
    BY <1>2, <1>5, <2>3
  <2> QED BY <2>1, <2>2, <2>4
<1>8. Len(Coming) >= Base
  <2>1. Len(Coming) < Base => Len(h) = 1
    BY <1>6, HeaderIs
  <2> QED BY <1>6, <1>7, <2>1, ComposerAssumption
<1>9. Len(received) + 1 \in 1..Len(sent)
  BY <1>5, MessagesOf DEF TypeOK
<1> QED BY <1>8, <1>9 DEF Coming

-----------------------------------------------------------------------------
(* A thread with bytes of the next message, of which the Composer holds    *)
(* the header and b bytes and needs l.                                     *)
AtData(t, p, b, l) ==
  /\ Len(received) < Len(sent) /\ length = Len(Coming) /\ b = Len(buf) /\ l = left
  /\ l # 0 /\ b + l = Len(Coming)
  /\ \A i \in 1..b : buf[i] = Coming[i]
  /\ p = Len(Stream(received)) + Len(Header(Len(Coming))) + b
  /\ Follows(Ahead(t), Stream(sent), p)
  /\ \A i \in 1..Rest(t) : b + i <= Len(Coming) => Unused(t)[i] = Coming[b + i]

(* Bytes that wait while data is read are those of the message to come.    *)
LEMMA ReachesData ==
  ASSUME TypeOK, ReceivedFirst, NEW t \in Thread, Whole(t), state = "data"
  PROVE  \E p, b, l \in Nat : AtData(t, p, b, l)
<1> DEFINE S == Stream(sent)
           R == Len(Stream(received))
           h == Header(Len(Coming))
<1>1. sent \in Seq(Bytes) /\ received \in Seq(Bytes) /\ Len(sent) \in Nat /\ Len(received) \in Nat
  BY MessagesOf DEF TypeOK
<1>2. S \in Bytes /\ Len(S) \in Nat /\ R \in Nat
  BY <1>1, StreamBytes
<1>3. PICK p \in 0..Len(S) : /\ Follows(Ahead(t), S, p)
                             /\ HoldsNothing(p) \/ HoldsLength(p) \/ HoldsData(p)
  BY DEF Whole
<1>4. HoldsData(p)
  BY <1>3 DEF HoldsNothing, HoldsLength
<1>5. /\ Len(received) < Len(sent) /\ length = Len(Coming) /\ left > 0
      /\ \A i \in 1..Len(buf) : buf[i] = Coming[i]
      /\ p = R + Len(Header(length)) + Len(buf)
  BY <1>4 DEF HoldsData
<1>6. /\ Len(Coming) \in Nat /\ Len(h) \in Nat
      /\ \A i \in 1..Len(Coming) : S[R + Len(h) + i] = Coming[i]
  BY <1>5, ComingIs
<1>7. PICK b \in Nat, l \in Nat : b = Len(buf) /\ l = left /\ b + l = length
  <2>1. Len(buf) \in Nat
    BY LenProperties DEF TypeOK
  <2>2. left \in Nat /\ Len(buf) + left = length
    BY DEF TypeOK
  <2> QED BY <2>1, <2>2
<1>8. p = R + Len(h) + b /\ p \in Nat
  BY <1>2, <1>5, <1>6, <1>7
<1>9. \A i \in 1..Rest(t) : Unused(t)[i] = S[p + i]
  BY <1>2, <1>3, <1>8, HeldByThread
<1>10. ASSUME NEW i \in 1..Rest(t), b + i <= Len(Coming)
       PROVE  Unused(t)[i] = Coming[b + i]
  <2>1. Rest(t) \in Nat
    BY RestIs
  <2>2. b + i \in 1..Len(Coming) /\ p + i = R + Len(h) + (b + i)
    <3> HIDE DEF R, h
    <3> QED BY <1>2, <1>6, <1>8, <1>10, <2>1
  <2> QED BY <1>6, <1>9, <2>2
<1>11. l # 0 /\ b + l = Len(Coming)
  BY <1>5, <1>7
<1>12. AtData(t, p, b, l)
  BY <1>3, <1>5, <1>7, <1>8, <1>10, <1>11 DEF AtData
<1> QED BY <1>7, <1>8, <1>12

(* Bytes of the message are read, and the last is not among them.          *)
LEMMA PartOfDataKeepsWhole ==
  ASSUME TypeOK, TypeOK', ReceivedFirst, NEW u \in Thread, ReadPartOfData(u),
         NEW t \in Thread, Whole(t)
  PROVE  ReceivedFirst' /\ Whole(t)'
<1> DEFINE S == Stream(sent)
           R == Len(Stream(received))
           h == Header(Len(Coming))
           x == Unused(u)
           r == Rest(u)
<1>1. /\ state = "data" /\ wire' = wire /\ sent' = sent /\ received' = received
      /\ state' = state /\ length' = length
      /\ r > 0 /\ r < left /\ buf' = buf \o x /\ left' = left - r /\ Use(u, r)
  BY DEF ReadPartOfData, history
<1>2. r \in Nat /\ x \in Bytes /\ Len(x) = r /\ r # 0 /\ r \in 0..r
  BY <1>1, RestIs
<1>3. u = t
  BY <1>2, OnlyReader
<1>4. PICK p \in Nat, b \in Nat, l \in Nat : AtData(t, p, b, l)
  BY <1>1, ReachesData
<1>5. /\ Len(received) < Len(sent) /\ length = Len(Coming) /\ b = Len(buf) /\ l = left
      /\ b + l = Len(Coming)
      /\ \A i \in 1..b : buf[i] = Coming[i]
      /\ p = R + Len(h) + b
      /\ Follows(Ahead(t), S, p)
      /\ \A i \in 1..r : b + i <= Len(Coming) => x[i] = Coming[b + i]
  BY <1>3, <1>4 DEF AtData
<1>6. Len(Coming) \in Nat /\ Len(h) \in Nat /\ S \in Bytes /\ R \in Nat
  BY <1>5, ComingIs
<1>7. Len(buf') = b + r /\ \A i \in 1..b+r : buf'[i] = Coming[i]
  <2>1. buf \in Seq(Byte) /\ x \in Seq(Byte)
    BY <1>2 DEF TypeOK, Bytes
  <2>2. /\ Len(buf') = Len(buf) + Len(x)
        /\ \A i \in 1 .. Len(buf) + Len(x) : buf'[i] = IF i <= Len(buf) THEN buf[i] ELSE x[i - Len(buf)]
    BY <1>1, <2>1, ConcatProperties
  <2> HIDE DEF x, r
  <2>3. /\ Len(buf') = b + r
        /\ \A i \in 1..b+r : buf'[i] = IF i <= b THEN buf[i] ELSE x[i - b]
    BY <1>2, <1>5, <2>2
  <2>4. ASSUME NEW i \in 1..b+r
        PROVE  buf'[i] = Coming[i]
    <3>1. CASE i <= b
      BY <1>2, <1>5, <2>3, <3>1
    <3>2. CASE i > b
      <4>1. i - b \in 1..r /\ b + (i - b) = i /\ b + (i - b) <= Len(Coming)
        BY <1>1, <1>2, <1>5, <1>6, <3>2
      <4> QED BY <1>5, <2>3, <3>2, <4>1
    <3> QED BY <1>2, <3>1, <3>2
  <2> QED BY <2>3, <2>4
<1>8. \A v \in Thread \ {t} : Rest(v) = 0
  BY DEF Whole
<1>9. Follows(Ahead(t)', S, p + r) /\ \A v \in Thread \ {t} : Rest(v)' = 0
  <2> HIDE DEF x, S, R, h
  <2> QED BY <1>1, <1>2, <1>3, <1>5, <1>6, <1>8, UseFollows
<1>10. ReceivedFirst' /\ Coming' = Coming
  BY <1>1 DEF ReceivedFirst, Coming
<1>11. p + r \in Nat /\ p + r = R + Len(h) + (b + r) /\ left - r > 0
  <2> HIDE DEF x, S, R, h, r
  <2> QED BY <1>1, <1>2, <1>5, <1>6
<1>12. \A q \in Nat : q = p + r => HoldsData(q)'
  <2> HIDE DEF r
  <2>1. \A i \in 1..Len(buf') : buf'[i] = Coming'[i]
    BY <1>7, <1>10
  <2>2. p + r = Len(Stream(received')) + Len(Header(length')) + Len(buf')
    BY <1>1, <1>5, <1>7, <1>11
  <2>3. Len(received') < Len(sent') /\ state' = "data" /\ length' = Len(Coming') /\ left' > 0
    BY <1>1, <1>5, <1>10, <1>11
  <2> QED BY <2>1, <2>2, <2>3 DEF HoldsData
<1>13. PICK q \in Nat : q = p + r /\ HoldsData(q)' /\ Follows(Ahead(t)', Stream(sent'), q)
  BY <1>1, <1>9, <1>11, <1>12
<1> QED BY <1>9, <1>10, <1>13, WholeNext

(* The message is complete: onMessage gets what the server sent.           *)
LEMMA CompletesMessage ==
  ASSUME TypeOK, ReceivedFirst, NEW t \in Thread, Whole(t), state = "data",
         Rest(t) # 0, left <= Rest(t)
  PROVE  buf \o SubSeq(Unused(t), 1, left) = Coming
<1> DEFINE x == Unused(t)
           r == Rest(t)
<1>1. r \in Nat /\ x \in Bytes /\ Len(x) = r
  BY RestIs
<1>2. PICK p \in Nat, b \in Nat, l \in Nat : AtData(t, p, b, l)
  BY ReachesData
<1>3. /\ b = Len(buf) /\ l = left /\ l # 0 /\ b + l = Len(Coming) /\ Len(received) < Len(sent)
      /\ \A i \in 1..b : buf[i] = Coming[i]
      /\ \A i \in 1..r : b + i <= Len(Coming) => x[i] = Coming[b + i]
  BY <1>2 DEF AtData
<1>4. Len(Coming) \in Nat /\ Coming \in Bytes
  BY <1>3, ComingIs
<1>5. l <= r
  BY <1>3
<1> HIDE DEF x, r
<1> DEFINE d == SubSeq(x, 1, l)
           e == buf \o d
<1>6. d \in Seq(Byte) /\ Len(d) = l /\ \A i \in 1..l : d[i] = Coming[b + i]
  <2>1. /\ d \in Seq(Byte) /\ Len(d) = l - 1 + 1
        /\ \A i \in 1..l-1+1 : d[i] = x[1 + i - 1]
    BY <1>1, <1>5, PartIs DEF Bytes
  <2> HIDE DEF d
  <2>2. ASSUME NEW i \in 1..l
        PROVE  d[i] = Coming[b + i]
    <3>1. i \in 1..l-1+1 /\ 1 + i - 1 = i /\ i \in 1..r /\ b + i <= Len(Coming)
      BY <1>1, <1>3, <1>4, <1>5
    <3> QED BY <1>3, <2>1, <3>1
  <2> QED BY <2>1, <2>2
<1> HIDE DEF d
<1>7. e \in Seq(Byte) /\ Len(e) = b + l /\ \A i \in 1..b+l : e[i] = Coming[i]
  <2>1. buf \in Seq(Byte)
    BY DEF TypeOK
  <2>2. /\ e \in Seq(Byte) /\ Len(e) = Len(buf) + Len(d)
        /\ \A i \in 1 .. Len(buf) + Len(d) : e[i] = IF i <= Len(buf) THEN buf[i] ELSE d[i - Len(buf)]
    BY <1>6, <2>1, ConcatProperties
  <2> HIDE DEF e
  <2>3. /\ Len(e) = b + l
        /\ \A i \in 1..b+l : e[i] = IF i <= b THEN buf[i] ELSE d[i - b]
    BY <1>3, <1>6, <2>2
  <2>4. ASSUME NEW i \in 1..b+l
        PROVE  e[i] = Coming[i]
    <3>1. CASE i <= b
      BY <1>3, <2>3, <3>1
    <3>2. CASE i > b
      <4>1. i - b \in 1..l /\ b + (i - b) = i
        BY <3>2
      <4> QED BY <1>6, <2>3, <3>2, <4>1
    <3> QED BY <3>1, <3>2
  <2> QED BY <2>2, <2>3, <2>4
<1> HIDE DEF e
<1>8. e = Coming
  <2>1. Coming \in Seq(Byte) /\ Len(e) = Len(Coming) /\ \A i \in 1..Len(e) : e[i] = Coming[i]
    BY <1>3, <1>4, <1>7 DEF Bytes
  <2> QED BY <1>7, <2>1, SeqEqual
<1> QED BY <1>3, <1>8 DEF e, d, x

(* Completing a message delivers the one that was sent.                    *)
LEMMA DataKeepsWhole ==
  ASSUME TypeOK, TypeOK', ReceivedFirst, NEW u \in Thread, ReadData(u),
         broken = "no", broken' = "no", NEW t \in Thread, Whole(t)
  PROVE  ReceivedFirst' /\ Whole(t)'
<1> DEFINE S == Stream(sent)
           R == Len(Stream(received))
           h == Header(Len(Coming))
           x == Unused(u)
           r == Rest(u)
<1>1. /\ state = "data" /\ wire' = wire /\ sent' = sent
      /\ r > 0 /\ left <= r /\ received' = Append(received, buf \o SubSeq(x, 1, left))
      /\ state' = "length" /\ length' = 0 /\ left' = 0 /\ buf' = <<>>
  BY DEF ReadData, Reset
<1>2. Use(u, left) \/ (Drop(u) /\ left = r)
  <2>1. \/ Use(u, left)
        \/ Drop(u) /\ IF r > left THEN Breaks("handler") ELSE UNCHANGED broken
    BY DEF ReadData
  <2>2. r > left => ~ Breaks("handler")
    BY DEF Breaks
  <2>3. r \in Nat /\ left \in Nat
    <3>1. length \in Nat /\ left \in 0..length
      BY DEF TypeOK
    <3>2. r \in Nat
      BY RestIs
    <3> QED BY <3>1, <3>2
  <2>4. ~ (r > left) => left = r
    BY <1>1, <2>3
  <2> QED BY <2>1, <2>2, <2>4
<1>3. r \in Nat /\ r # 0
  BY <1>1, RestIs
<1>4. u = t
  BY <1>3, OnlyReader
<1>5. received' = Append(received, Coming)
  <2>1. buf \o SubSeq(Unused(u), 1, left) = Coming
    BY <1>1, <1>3, <1>4, CompletesMessage
  <2> QED BY <1>1, <2>1
<1>6. PICK p \in Nat, b \in Nat, l \in Nat : AtData(t, p, b, l)
  BY <1>1, ReachesData
<1>7. /\ Len(received) < Len(sent) /\ b + l = Len(Coming) /\ l = left
      /\ p = R + Len(h) + b
      /\ Follows(Ahead(t), S, p)
  BY <1>6 DEF AtData
<1>8. /\ Len(Coming) \in Nat /\ Coming \in Bytes /\ Len(h) \in Nat /\ S \in Bytes /\ R \in Nat
  BY <1>7, ComingIs
<1>9. received \in Seq(Bytes) /\ Len(received) \in Nat /\ Len(sent) \in Nat
  BY MessagesOf DEF TypeOK
<1>10. /\ Len(received') = Len(received) + 1 /\ received'[Len(received) + 1] = Coming
       /\ \A i \in 1..Len(received) : received'[i] = received[i]
  BY <1>5, <1>8, <1>9, AppendProperties
<1>11. ReceivedFirst'
  BY <1>1, <1>7, <1>9, <1>10 DEF ReceivedFirst, Coming
<1>12. Len(Stream(received')) = p + l
  <2>1. Len(Stream(received')) = R + Len(Compose(Coming))
    BY <1>5, <1>8, <1>9, StreamOfMore
  <2>2. Len(Compose(Coming)) = Len(h) + Len(Coming)
    BY <1>8, ComposeIs DEF Bytes
  <2> HIDE DEF R, h
  <2> QED BY <1>7, <1>8, <2>1, <2>2
<1>13. \A v \in Thread \ {t} : Rest(v) = 0
  BY DEF Whole
<1>14. Follows(Ahead(t)', S, p + l) /\ \A v \in Thread \ {t} : Rest(v)' = 0
  <2>1. l \in 0..Rest(t) /\ (Use(t, l) \/ (Drop(t) /\ l = Rest(t)))
    BY <1>1, <1>2, <1>3, <1>4, <1>7
  <2> HIDE DEF x, S, R, h, r
  <2> QED BY <1>1, <1>7, <1>8, <1>13, <2>1, UseFollows
<1>15. HoldsNothing(p + l)' \/ HoldsLength(p + l)'
  <2>1. CASE Len(received') = Len(sent')
    BY <1>1, <1>12, <2>1 DEF HoldsNothing
  <2>2. CASE Len(received') # Len(sent')
    <3>1. Len(received') < Len(sent')
      BY <1>1, <1>7, <1>9, <1>10, <2>2
    <3>2. Coming' \in Message
      <4>1. sent' \in Seq(Message)
        BY DEF TypeOK
      <4>2. Len(received') + 1 \in 1..Len(sent')
        BY <1>1, <1>9, <1>10, <3>1
      <4> QED BY <4>1, <4>2, ElementOfSeq DEF Coming
    <3>3. Coming' \in Bytes /\ Len(Coming') \in Nat /\ Len(Coming') # 0
      BY <3>2, MessageBytes
    <3> DEFINE g == Header(Len(Coming'))
    <3>4. g \in Bytes /\ Len(g) \in Nat /\ Len(g) >= 1
      BY <3>3, HeaderMarked, LenProperties DEF Marked, Bytes
    <3>5. Value(0, SubSeq(g, 1, 0)) = 0
      BY <3>4, NoDigits
    <3>6. 0 \in 0..Len(g)-1 /\ p + l = Len(Stream(received')) + 0
      <4> HIDE DEF g
      <4> QED BY <1>12, <3>4
    <3> QED BY <1>1, <3>1, <3>5, <3>6 DEF HoldsLength
  <2> QED BY <2>1, <2>2
<1>16. Follows(Ahead(t)', Stream(sent'), p + l) /\ p + l \in Nat
  BY <1>1, <1>14
<1> QED BY <1>11, <1>14, <1>15, <1>16, WholeNext

(* A new connection is whole when nothing was under way on the old one.    *)
LEMMA ReconnectIsWhole ==
  ASSUME TypeOK, TypeOK', Reconnect, broken' = "no", NEW t \in Thread
  PROVE  ReceivedFirst' /\ Whole(t)'
<1> DEFINE A == Ahead(t)'
           e == <<>>
<1>1. /\ wire' = e /\ sent' = e /\ received' = e
      /\ piece' = piece /\ offset' = offset /\ state' = state /\ length' = length
      /\ state = "length" /\ length = 0 /\ \A v \in Thread : Rest(v) = 0
  BY DEF Reconnect, reading, composer
<1>2. Stream(e) = e /\ Len(e) = 0 /\ e \in Bytes
  BY StreamEmpty, EmptySeq
<1>3. \A v \in Thread : Rest(v)' = 0
  BY <1>1 DEF Rest
<1>4. PICK r \in Nat, l \in Nat : Sized(A, piece'[t], offset'[t], wire', r, l)
  BY AheadShowsNext, ShowsSizes
<1>5. Len(A) = 0
  <2>1. r = Len(piece'[t]) - offset'[t] /\ l = Len(wire') /\ Len(A) = r + l
    BY <1>4 DEF Sized
  <2>2. Len(piece'[t]) - offset'[t] = 0
    BY <1>3 DEF Rest
  <2> HIDE DEF A, e
  <2> QED BY <1>1, <1>2, <2>1, <2>2
<1>6. Follows(A, Stream(sent'), 0)
  <2> HIDE DEF A
  <2>1. 0 + Len(A) = Len(Stream(sent')) /\ \A i \in 1..Len(A) : FALSE
    BY <1>1, <1>2, <1>5
  <2> QED BY <2>1 DEF Follows
<1>7. HoldsNothing(0)'
  BY <1>1, <1>2 DEF HoldsNothing
<1>8. ReceivedFirst'
  BY <1>1, <1>2 DEF ReceivedFirst
<1> QED BY <1>3, <1>6, <1>7, <1>8, WholeNext

-----------------------------------------------------------------------------
(* The first state satisfies the invariant.                                *)
LEMMA InitInv == Init => IInv
<1> SUFFICES ASSUME Init PROVE IInv
  OBVIOUS
<1>1. TypeOK
  BY InitTypes
<1>2. CutIsLong
  BY DEF Init, CutIsLong
<1>3. ReceivedFirst /\ 1 \in Thread /\ \A v \in Thread : Rest(v) = 0
  <2>1. Len(<<>>) = 0
    BY EmptySeq
  <2> QED BY <2>1, ComposerAssumption DEF Init, ReceivedFirst, Thread, Rest
<1>4. Whole(1)
  <2> DEFINE A == Ahead(1)
             e == <<>>
  <2>1. Shows(A, piece[1], offset[1], wire) /\ wire = e /\ sent = e /\ received = e
    BY <1>1, <1>3, AheadShows DEF Init
  <2>2. PICK r \in Nat, l \in Nat : Sized(A, piece[1], offset[1], wire, r, l)
    BY <2>1, ShowsSizes
  <2>3. Stream(e) = e /\ Len(e) = 0
    BY StreamEmpty, EmptySeq
  <2>4. Len(A) = 0
    <3>1. r = Len(piece[1]) - offset[1] /\ l = Len(wire) /\ Len(A) = r + l
      BY <2>2 DEF Sized
    <3>2. Len(piece[1]) - offset[1] = 0
      BY <1>3 DEF Rest
    <3> HIDE DEF A, e
    <3> QED BY <2>1, <2>3, <3>1, <3>2
  <2>5. Follows(A, Stream(sent), 0)
    <3> HIDE DEF A
    <3>1. 0 + Len(A) = Len(Stream(sent)) /\ \A i \in 1..Len(A) : FALSE
      BY <2>1, <2>3, <2>4
    <3> QED BY <3>1 DEF Follows
  <2>6. HoldsNothing(0) /\ 0 \in 0..Len(Stream(sent))
    BY <2>1, <2>3 DEF Init, HoldsNothing
  <2> QED BY <1>3, <2>5, <2>6 DEF Whole
<1> QED BY <1>1, <1>2, <1>3, <1>4 DEF IInv, StreamIsWhole

(* A break stays until the server is connected again.                      *)
LEMMA StaysBroken ==
  ASSUME TypeOK, [Next]_vars, ~ Reconnect, broken' = "no"
  PROVE  broken = "no"
<1>1. ASSUME NEW t \in Thread, Listen(t)
      PROVE  broken = "no"
  <2>1. CASE ReadLength(t)
    BY <2>1 DEF ReadLength
  <2>2. CASE ReadPartOfLength(t)
    BY <2>2 DEF ReadPartOfLength, history
  <2>3. CASE CutLength(t)
    BY <2>3 DEF CutLength, Breaks
  <2>4. CASE ReadPartOfData(t)
    BY <2>4 DEF ReadPartOfData, history
  <2>5. CASE ReadData(t)
    BY <2>5 DEF ReadData, Breaks
  <2>6. ASSUME NEW k \in 1..Len(wire), Read(t, k)
        PROVE  broken = "no"
    BY <2>6 DEF Read, Breaks
  <2> QED BY <1>1, <2>1, <2>2, <2>3, <2>4, <2>5, <2>6 DEF Listen, Feed
<1>2. ASSUME NEW m \in Message, ServerSends(m)
      PROVE  broken = "no"
  BY <1>2 DEF ServerSends
<1>3. CASE UNCHANGED vars
  BY <1>3 DEF vars, history
<1> QED BY <1>1, <1>2, <1>3 DEF Next

(* Every step keeps the stream whole or says why it broke.                 *)
LEMMA StepWhole ==
  ASSUME IInv, TypeOK', [Next]_vars
  PROVE  StreamIsWhole'
<1> SUFFICES ASSUME broken' = "no" PROVE ReceivedFirst' /\ \E t \in Thread : Whole(t)'
  BY DEF StreamIsWhole
<1>0. TypeOK
  BY DEF IInv
<1>1. CASE Reconnect
  <2>1. 1 \in Thread
    BY ComposerAssumption DEF Thread
  <2> QED BY <1>0, <1>1, <2>1, ReconnectIsWhole
<1>2. CASE ~ Reconnect
  <2>1. broken = "no"
    BY <1>0, <1>2, StaysBroken
  <2>2. ReceivedFirst /\ \E t \in Thread : Whole(t)
    BY <2>1 DEF IInv, StreamIsWhole
  <2>3. PICK t \in Thread : Whole(t)
    BY <2>2
  <2>4. ASSUME NEW m \in Message, ServerSends(m)
        PROVE  ReceivedFirst' /\ Whole(t)'
    BY <1>0, <2>2, <2>3, <2>4, SendKeepsWhole
  <2>5. ASSUME NEW u \in Thread, Listen(u)
        PROVE  ReceivedFirst' /\ \E v \in Thread : Whole(v)'
    <3>1. CASE ReadLength(u)
      BY <1>0, <2>2, <2>3, <3>1, LengthKeepsWhole
    <3>2. CASE ReadPartOfLength(u)
      BY <1>0, <2>2, <2>3, <3>2, PartOfLengthKeepsWhole
    <3>3. CASE CutLength(u)
      BY <2>1, <3>3 DEF CutLength, Breaks
    <3>4. CASE ReadPartOfData(u)
      BY <1>0, <2>2, <2>3, <3>4, PartOfDataKeepsWhole
    <3>5. CASE ReadData(u)
      BY <1>0, <2>1, <2>2, <2>3, <3>5, DataKeepsWhole
    <3>6. ASSUME NEW k \in 1..Len(wire), Read(u, k)
          PROVE  ReceivedFirst' /\ Whole(u)'
      BY <1>0, <2>1, <2>2, <2>3, <3>6, ReadKeepsWhole
    <3> QED BY <2>5, <3>1, <3>2, <3>3, <3>4, <3>5, <3>6 DEF Listen, Feed
  <2>6. CASE UNCHANGED vars
    <3>1. /\ wire' = wire /\ piece' = piece /\ offset' = offset /\ state' = state
          /\ length' = length /\ left' = left /\ buf' = buf /\ sent' = sent /\ received' = received
      BY <2>6 DEF vars, reading, composer, history
    <3>2. ReceivedFirst'
      BY <2>2, <3>1 DEF ReceivedFirst
    <3>3. \A p : HoldsNothing(p)' = HoldsNothing(p) /\ HoldsLength(p)' = HoldsLength(p) /\ HoldsData(p)' = HoldsData(p)
      BY <3>1 DEF HoldsNothing, HoldsLength, HoldsData, Coming
    <3>4. Ahead(t)' = Ahead(t) /\ \A v \in Thread : Rest(v)' = Rest(v)
      BY <3>1 DEF Ahead, Unused, Rest
    <3>5. Whole(t)'
      BY <2>3, <3>1, <3>3, <3>4 DEF Whole
    <3> QED BY <3>2, <3>5
  <2> QED BY <1>2, <2>4, <2>5, <2>6 DEF Next
<1> QED BY <1>1, <1>2

(* Only the length of a message of two digits or more can be cut.          *)
LEMMA StepCut ==
  ASSUME IInv, TypeOK', [Next]_vars
  PROVE  CutIsLong'
<1> SUFFICES ASSUME broken' = "cut" PROVE \E i \in 1..Len(sent') : Len(sent'[i]) >= Base
  BY DEF CutIsLong
<1>0. TypeOK
  BY DEF IInv
<1>1. ASSUME broken = "cut", sent' = sent
      PROVE  \E i \in 1..Len(sent') : Len(sent'[i]) >= Base
  BY <1>1 DEF IInv, CutIsLong
<1>2. ASSUME NEW m \in Message, ServerSends(m)
      PROVE  \E i \in 1..Len(sent') : Len(sent'[i]) >= Base
  <2>1. broken = "cut" /\ sent' = Append(sent, m)
    BY <1>2 DEF ServerSends
  <2>2. PICK i \in 1..Len(sent) : Len(sent[i]) >= Base
    BY <2>1 DEF IInv, CutIsLong
  <2>3. sent \in Seq(Bytes) /\ Len(sent) \in Nat /\ m \in Bytes
    BY <1>0, MessagesOf, MessageBytes DEF TypeOK
  <2>4. Len(sent') = Len(sent) + 1 /\ sent'[i] = sent[i]
    BY <2>1, <2>3, AppendProperties
  <2>5. i \in 1..Len(sent')
    BY <2>3, <2>4
  <2> QED BY <2>2, <2>4, <2>5
<1>3. ASSUME NEW u \in Thread, CutLength(u), broken = "no"
      PROVE  \E i \in 1..Len(sent') : Len(sent'[i]) >= Base
  <2>1. ReceivedFirst /\ \E t \in Thread : Whole(t)
    BY <1>3 DEF IInv, StreamIsWhole
  <2>2. sent' = sent
    BY <1>3 DEF CutLength
  <2> QED BY <1>0, <1>3, <2>1, <2>2, CutsALongOne
<1>4. ASSUME NEW u \in Thread, Listen(u)
      PROVE  \E i \in 1..Len(sent') : Len(sent'[i]) >= Base
  <2>1. CASE ReadLength(u)
    BY <1>1, <2>1 DEF ReadLength
  <2>2. CASE ReadPartOfLength(u)
    BY <1>1, <2>2 DEF ReadPartOfLength, history
  <2>3. CASE CutLength(u)
    BY <1>1, <1>3, <2>3 DEF CutLength, Breaks
  <2>4. CASE ReadPartOfData(u)
    BY <1>1, <2>4 DEF ReadPartOfData, history
  <2>5. CASE ReadData(u)
    BY <1>1, <2>5 DEF ReadData, Breaks
  <2>6. ASSUME NEW k \in 1..Len(wire), Read(u, k)
        PROVE  \E i \in 1..Len(sent') : Len(sent'[i]) >= Base
    BY <1>1, <2>6 DEF Read, Breaks
  <2> QED BY <1>4, <2>1, <2>2, <2>3, <2>4, <2>5, <2>6 DEF Listen, Feed
<1>5. ~ Reconnect
  BY DEF Reconnect
<1>6. CASE UNCHANGED vars
  BY <1>1, <1>6 DEF vars, history
<1> QED BY <1>2, <1>4, <1>5, <1>6 DEF Next

(* The Composer keeps the stream whole, or says why it broke.              *)
THEOREM Invariance == Spec => []IInv
<1>1. Init => IInv
  BY InitInv
<1>2. ASSUME IInv, [Next]_vars
      PROVE  IInv'
  <2>1. TypeOK'
    BY <1>2, StepTypes DEF IInv
  <2> QED BY <1>2, <2>1, StepWhole, StepCut DEF IInv
<1> QED BY <1>1, <1>2, PTL DEF Spec

(* The fields of the Composer, the pieces and the wire keep their types.   *)
THEOREM TypeCorrect == Spec => []TypeOK
<1>1. IInv => TypeOK
  BY DEF IInv
<1> QED BY <1>1, Invariance, PTL

-----------------------------------------------------------------------------
(* k is the value of the first j bytes of the header of n.                 *)
Partly(n, j, k) ==
  n \in Nat /\ j \in Nat /\ j < Len(Header(n)) /\ k = Value(0, SubSeq(Header(n), 1, j))

(* What is held of a header are its first bytes.                           *)
LEMMA HeldDigits ==
  ASSUME NEW n, NEW j, NEW k, Partly(n, j, k)
  PROVE  LET g == Mark(Digits(k), 1..Len(Digits(k)))
         IN  g \in Bytes /\ Len(g) = j /\ \A i \in 1..j : g[i] = Header(n)[i]
<1>0. n \in Nat /\ j \in Nat /\ j < Len(Header(n)) /\ k = Value(0, SubSeq(Header(n), 1, j))
  BY DEF Partly
<1> DEFINE h == Header(n)
           d == Digits(n)
           a == SubSeq(h, 1, j)
           f == SubSeq(d, 1, j)
           e == <<>>
           g == Mark(f, 1..Len(f))
<1>1. PICK l \in Nat : l = Len(d) /\ Len(h) = l /\ j < l
  BY <1>0, ValueOfDigits, HeaderIs, LenProperties
<1>2. d \in Seq(Digit) /\ d \in Seq(Byte) /\ h \in Seq(Byte)
  BY <1>0, ValueOfDigits, HeaderIs
<1>3. \A i \in 1..l : h[i] % Base = d[i] % Base
  BY <1>0, <1>1, HeaderIs
<1>4. \A i \in 1..l : h[i] = IF i < l THEN d[i] + Base ELSE d[i]
  <2> DEFINE P == 1 .. Len(d) - 1
  <2>1. h = Mark(d, P)
    BY <1>0 DEF Header
  <2>2. \A i \in 1..l : i \in P <=> i < l
    BY <1>0, <1>1
  <2> HIDE DEF P, d, h
  <2>3. \A i \in 1..l : Mark(d, P)[i] = IF i \in P THEN d[i] + Base ELSE d[i]
    BY <1>0, <1>1, <1>2, MarkIs
  <2> QED BY <1>0, <2>1, <2>2, <2>3
<1>5. f \in Seq(Digit) /\ f \in Seq(Byte) /\ Digits(Value(0, f)) = f
  <2>1. j \in 0..Len(d)
    BY <1>0, <1>1
  <2>2. Digits(Value(0, f)) = f
    BY <1>0, <2>1, FirstDigits
  <2> HIDE DEF d
  <2>3. f \in Seq(Digit)
    BY <1>0, <1>1, <1>2, PartIs
  <2> QED BY <1>0, <2>2, <2>3, DigitByte
<1> HIDE DEF h, d
<1>6. Len(f) = j /\ \A i \in 1..j : f[i] = d[i]
  <2>1. Len(f) = j - 1 + 1 /\ \A i \in 1..j-1+1 : f[i] = d[1 + i - 1]
    BY <1>0, <1>1, <1>2, PartIs
  <2> HIDE DEF f
  <2>2. ASSUME NEW i \in 1..j
        PROVE  f[i] = d[i]
    <3>1. i \in 1..j-1+1 /\ 1 + i - 1 = i
      BY <1>0
    <3> QED BY <1>0, <2>1, <3>1
  <2> QED BY <1>0, <2>1, <2>2
<1>7. a \in Seq(Byte) /\ Len(a) = j /\ \A i \in 1..j : a[i] = h[i]
  <2>1. a \in Seq(Byte) /\ Len(a) = j - 1 + 1 /\ \A i \in 1..j-1+1 : a[i] = h[1 + i - 1]
    BY <1>0, <1>1, <1>2, PartIs
  <2> HIDE DEF a
  <2>2. ASSUME NEW i \in 1..j
        PROVE  a[i] = h[i]
    <3>1. i \in 1..j-1+1 /\ 1 + i - 1 = i
      BY <1>0
    <3> QED BY <1>0, <2>1, <3>1
  <2> QED BY <1>0, <2>1, <2>2
<1>8. e \in Seq(Byte) /\ Len(e) = 0 /\ 0 \in Nat
  BY <1>0, EmptySeq
<1>9. Value(0, e) = 0
  BY <1>0, <1>8, ValueSmall
<1> HIDE DEF a, f, e
<1>10. \A i \in 1..j : a[i] % Base = f[i] % Base
  BY <1>0, <1>1, <1>3, <1>6, <1>7
<1>11. Joins(e, f, a)
  BY <1>0, <1>5, <1>6, <1>7, <1>8, <1>10 DEF Joins
<1>12. Value(0, f) = Value(0, a)
  BY <1>0, <1>8, <1>9, <1>11, ValueJoin
<1>13. k = Value(0, f)
  BY <1>0, <1>12 DEF a, h
<1>14. Digits(k) = f
  BY <1>0, <1>5, <1>13
<1>15. /\ g \in Seq(Byte) /\ Len(g) = j
       /\ \A i \in 1..j : g[i] = IF i \in 1..Len(f) THEN f[i] + Base ELSE f[i]
  BY <1>0, <1>5, <1>6, MarkIs
<1> HIDE DEF g
<1>16. \A i \in 1..j : g[i] = h[i]
  BY <1>0, <1>1, <1>4, <1>6, <1>15
<1> QED BY <1>0, <1>14, <1>15, <1>16 DEF g, h, Bytes

(* S begins with the sequence a, goes on with b and ends with c.           *)
Assembles(a, b, c, S) ==
  /\ a \in Bytes /\ b \in Bytes /\ c \in Bytes /\ S \in Bytes
  /\ Begins(a, S)
  /\ \A i \in 1..Len(b) : S[Len(a) + i] = b[i]
  /\ Follows(c, S, Len(a) + Len(b))

(* What is assembled of three parts is their concatenation.                *)
LEMMA Assembly ==
  ASSUME NEW a, NEW b, NEW c, NEW S, Assembles(a, b, c, S)
  PROVE  S = (a \o b) \o c
<1>1. a \in Seq(Byte) /\ b \in Seq(Byte) /\ c \in Seq(Byte) /\ S \in Seq(Byte)
  BY DEF Assembles, Bytes
<1>2. PICK x \in Nat, y \in Nat, z \in Nat, w \in Nat : x = Len(a) /\ y = Len(b) /\ z = Len(c) /\ w = Len(S)
  BY <1>1, LenProperties
<1>3. /\ x + y + z = w
      /\ \A i \in 1..x : S[i] = a[i]
      /\ \A i \in 1..y : S[x + i] = b[i]
      /\ \A i \in 1..z : S[x + y + i] = c[i]
  BY <1>2 DEF Assembles, Begins, Follows
<1> DEFINE e == a \o b
           f == e \o c
<1>4. e \in Seq(Byte) /\ Len(e) = x + y /\ \A i \in 1..x+y : e[i] = IF i <= x THEN a[i] ELSE b[i - x]
  <2>1. /\ e \in Seq(Byte) /\ Len(e) = Len(a) + Len(b)
        /\ \A i \in 1 .. Len(a) + Len(b) : e[i] = IF i <= Len(a) THEN a[i] ELSE b[i - Len(a)]
    BY <1>1, ConcatProperties
  <2> HIDE DEF e
  <2> QED BY <1>2, <2>1
<1> HIDE DEF e
<1>5. f \in Seq(Byte) /\ Len(f) = x + y + z
      /\ \A i \in 1..x+y+z : f[i] = IF i <= x + y THEN e[i] ELSE c[i - (x + y)]
  <2>1. /\ f \in Seq(Byte) /\ Len(f) = Len(e) + Len(c)
        /\ \A i \in 1 .. Len(e) + Len(c) : f[i] = IF i <= Len(e) THEN e[i] ELSE c[i - Len(e)]
    BY <1>1, <1>4, ConcatProperties
  <2> HIDE DEF f
  <2> QED BY <1>2, <1>4, <2>1
<1> HIDE DEF f
<1>6. ASSUME NEW i \in 1..w
      PROVE  S[i] = f[i]
  <2>1. CASE i <= x
    <3>1. i \in 1..x /\ i \in 1..x+y /\ i <= x + y /\ i \in 1..x+y+z
      BY <1>3, <2>1
    <3> QED BY <1>3, <1>4, <1>5, <2>1, <3>1
  <2>2. CASE i > x /\ i <= x + y
    <3>1. i - x \in 1..y /\ x + (i - x) = i /\ i \in 1..x+y /\ i \in 1..x+y+z /\ ~ (i <= x)
      BY <1>3, <2>2
    <3>2. f[i] = e[i] /\ e[i] = b[i - x]
      BY <1>4, <1>5, <2>2, <3>1
    <3>3. S[x + (i - x)] = b[i - x]
      BY <1>3, <3>1
    <3> QED BY <3>1, <3>2, <3>3
  <2>3. CASE i > x + y
    <3>1. i - (x + y) \in 1..z /\ x + y + (i - (x + y)) = i /\ i \in 1..x+y+z /\ ~ (i <= x + y)
      BY <1>3, <2>3
    <3>2. f[i] = c[i - (x + y)]
      BY <1>5, <3>1
    <3>3. S[x + y + (i - (x + y))] = c[i - (x + y)]
      BY <1>3, <3>1
    <3> QED BY <3>1, <3>2, <3>3
  <2> QED BY <2>1, <2>2, <2>3
<1>7. S = f
  <2>1. Len(S) = Len(f) /\ \A i \in 1..Len(S) : S[i] = f[i]
    BY <1>2, <1>3, <1>5, <1>6
  <2> QED BY <1>1, <1>5, <2>1, SeqEqual
<1> QED BY <1>7 DEF f, e

(* What the Composer holds lies in the stream behind what was received.    *)
LEMMA HeldInStream ==
  ASSUME TypeOK, ReceivedFirst, NEW p \in Nat,
         HoldsNothing(p) \/ HoldsLength(p) \/ HoldsData(p)
  PROVE  /\ Held \in Bytes /\ p = Len(Stream(received)) + Len(Held)
         /\ \A i \in 1..Len(Held) : Stream(sent)[Len(Stream(received)) + i] = Held[i]
<1> DEFINE S == Stream(sent)
           R == Len(Stream(received))
<1>1. received \in Seq(Bytes)
  BY MessagesOf DEF TypeOK
<1>2. R \in Nat
  BY <1>1, StreamBytes
<1>3. CASE HoldsNothing(p)
  <2>1. state = "length" /\ length = 0 /\ p = R
    BY <1>3 DEF HoldsNothing
  <2> DEFINE d == Digits(0)
             g == Mark(d, 1..Len(d))
  <2>2. 0 \in Nat
    OBVIOUS
  <2>3. d \in Seq(Digit) /\ d = <<>>
    BY <2>2, ValueOfDigits
  <2>4. Len(d) = 0
    BY <2>3, EmptySeq
  <2>5. g \in Seq(Byte) /\ Len(g) = Len(d)
    <3> HIDE DEF d
    <3> QED BY ZenonT(40), <2>3, MarkIs
  <2>6. Held = g
    BY <2>1 DEF Held
  <2> HIDE DEF g, d, S, R
  <2>7. Held \in Bytes /\ Len(Held) = 0
    BY <2>4, <2>5, <2>6 DEF Bytes
  <2> QED BY <1>2, <2>1, <2>7 DEF R, S
<1>4. CASE HoldsLength(p)
  <2> DEFINE n == Len(Coming)
             h == Header(n)
             g == Mark(Digits(length), 1..Len(Digits(length)))
  <2>1. Len(received) < Len(sent) /\ state = "length"
    BY <1>4 DEF HoldsLength
  <2>2. PICK j \in 0..Len(h)-1 : p = R + j /\ length = Value(0, SubSeq(h, 1, j))
    BY <1>4 DEF HoldsLength
  <2>3. n \in Nat /\ Len(h) \in Nat /\ \A i \in 1..Len(h) : S[R + i] = h[i]
    BY <2>1, ComingIs
  <2>4. j \in Nat /\ j < Len(h)
    BY <2>2, <2>3
  <2>5. g \in Bytes /\ Len(g) = j /\ \A i \in 1..j : g[i] = h[i]
    <3>1. Partly(n, j, length)
      BY <2>2, <2>3, <2>4 DEF Partly
    <3> HIDE DEF n
    <3> QED BY <3>1, HeldDigits
  <2>6. Held = g
    BY <2>1 DEF Held
  <2> HIDE DEF n, h, g, S, R
  <2>7. \A i \in 1..j : S[R + i] = g[i]
    BY <2>3, <2>4, <2>5
  <2> QED BY <2>2, <2>5, <2>6, <2>7 DEF S, R
<1>5. CASE HoldsData(p)
  <2> DEFINE n == Len(Coming)
             h == Header(n)
             g == h \o buf
  <2>1. /\ Len(received) < Len(sent) /\ state = "data" /\ length = n
        /\ \A i \in 1..Len(buf) : buf[i] = Coming[i]
        /\ p = R + Len(h) + Len(buf)
    BY <1>5 DEF HoldsData
  <2>2. PICK m \in Nat, b \in Nat : m = Len(h) /\ b = Len(buf) /\ b <= n
    <3>1. Len(buf) \in Nat /\ Len(buf) + left = length /\ left \in 0..length /\ length \in Nat
      <4>1. Len(buf) \in Nat
        BY LenProperties DEF TypeOK
      <4> QED BY <2>1, <4>1 DEF TypeOK
    <3>2. Len(buf) <= length
      BY <3>1
    <3>3. Len(h) \in Nat
      BY <2>1, ComingIs
    <3> QED BY <2>1, <3>1, <3>2, <3>3
  <2>3. /\ n \in Nat /\ h \in Seq(Byte) /\ buf \in Seq(Byte)
        /\ \A i \in 1..m : S[R + i] = h[i]
        /\ \A i \in 1..n : S[R + m + i] = Coming[i]
    BY <2>1, <2>2, ComingIs DEF Marked, Bytes, TypeOK
  <2>4. Held = g
    BY <2>1 DEF Held
  <2> HIDE DEF h, S, R, n
  <2>5. /\ g \in Seq(Byte) /\ Len(g) = m + b
        /\ \A i \in 1..m+b : g[i] = IF i <= m THEN h[i] ELSE buf[i - m]
    <3>1. /\ g \in Seq(Byte) /\ Len(g) = Len(h) + Len(buf)
          /\ \A i \in 1 .. Len(h) + Len(buf) : g[i] = IF i <= Len(h) THEN h[i] ELSE buf[i - Len(h)]
      BY <2>3, ConcatProperties
    <3> HIDE DEF g
    <3> QED BY <2>2, <3>1
  <2> HIDE DEF g
  <2>6. ASSUME NEW i \in 1..m+b
        PROVE  S[R + i] = g[i]
    <3>1. CASE i <= m
      <4>1. i \in 1..m
        BY <2>2, <3>1
      <4>2. g[i] = h[i]
        BY <2>5, <3>1
      <4> QED BY <2>3, <4>1, <4>2
    <3>2. CASE i > m
      <4>1. i - m \in 1..b /\ i - m \in 1..n /\ R + m + (i - m) = R + i /\ ~ (i <= m)
        BY <1>2, <2>2, <2>3, <3>2
      <4>2. g[i] = buf[i - m] /\ buf[i - m] = Coming[i - m]
        BY <2>1, <2>2, <2>5, <4>1
      <4>3. S[R + m + (i - m)] = Coming[i - m]
        BY <2>3, <4>1
      <4> QED BY <4>1, <4>2, <4>3
    <3> QED BY <3>1, <3>2
  <2>7. p = R + (m + b)
    BY SMTT(30), <1>2, <2>1, <2>2
  <2>8. Held \in Bytes /\ p = R + Len(Held) /\ \A i \in 1..Len(Held) : S[R + i] = Held[i]
    BY <2>4, <2>5, <2>6, <2>7 DEF Bytes
  <2> QED BY <2>8 DEF S, R
<1> QED BY <1>3, <1>4, <1>5

(* A whole stream is what was received, is held, is unused and is on the   *)
(* wire.                                                                   *)
LEMMA WholeLosesNothing ==
  ASSUME IInv
  PROVE  NoByteLost
<1>1. TypeOK /\ CutIsLong
  BY DEF IInv
<1>2. ASSUME broken = "no"
      PROVE  /\ Cardinality({t \in Thread : Rest(t) > 0}) <= 1
             /\ \E t \in Thread : Stream(sent) = Stream(received) \o Held \o Unused(t) \o wire
  <2>1. ReceivedFirst /\ \E t \in Thread : Whole(t)
    BY <1>2 DEF IInv, StreamIsWhole
  <2>2. PICK t \in Thread : Whole(t)
    BY <2>1
  <2> DEFINE a == Stream(received)
             b == Held
             x == Unused(t)
             S == Stream(sent)
  <2>3. received \in Seq(Bytes) /\ sent \in Seq(Bytes)
    BY <1>1, MessagesOf DEF TypeOK
  <2>4. a \in Bytes /\ S \in Bytes /\ Len(S) \in Nat /\ Len(a) \in Nat
    BY <2>3, StreamBytes
  <2>5. PICK p \in 0..Len(S) : /\ Follows(Ahead(t), S, p)
                               /\ HoldsNothing(p) \/ HoldsLength(p) \/ HoldsData(p)
    BY <2>2 DEF Whole
  <2>6. p \in Nat
    BY <2>4, <2>5
  <2>7. b \in Bytes /\ p = Len(a) + Len(b) /\ \A i \in 1..Len(b) : S[Len(a) + i] = b[i]
    BY <1>1, <2>1, <2>5, <2>6, HeldInStream
  <2>8. Begins(a, S)
    <3>1. First(received, sent)
      BY <2>1, <2>3 DEF First, ReceivedFirst
    <3> QED BY <3>1, StreamOfFirst
  <2>9. x \in Bytes /\ wire \in Bytes /\ Ahead(t) = x \o wire
    BY <1>1, RestIs DEF Ahead
  <2>10. S = a \o b \o x \o wire
    <3> HIDE DEF a, b, x, S
    <3> DEFINE c == x \o wire
    <3>1. c \in Bytes
      BY <2>9, ConcatProperties DEF Bytes
    <3>2. c = Ahead(t)
      BY <2>9
    <3> HIDE DEF c
    <3>3. Assembles(a, b, c, S)
      BY <2>4, <2>5, <2>7, <2>8, <3>1, <3>2 DEF Assembles
    <3>4. S = (a \o b) \o c
      BY <3>3, Assembly
    <3> DEFINE e == a \o b
    <3>5. e \in Seq(Byte) /\ x \in Seq(Byte) /\ wire \in Seq(Byte)
      BY <2>4, <2>7, <2>9, ConcatProperties DEF Bytes
    <3> HIDE DEF e
    <3>6. e \o (x \o wire) = (e \o x) \o wire
      BY SMTT(30), <3>5, ConcatAssociative
    <3>7. S = e \o (x \o wire)
      BY <3>4 DEF e, c
    <3> QED BY <3>6, <3>7 DEF e
  <2>11. Cardinality({v \in Thread : Rest(v) > 0}) <= 1
    <3> DEFINE T == {v \in Thread : Rest(v) > 0}
    <3>1. T \in SUBSET {t}
      BY <2>2 DEF Whole
    <3>2. IsFiniteSet({t}) /\ Cardinality({t}) = 1
      BY FS_Singleton
    <3> HIDE DEF T
    <3>3. Cardinality(T) <= 1
      BY <3>1, <3>2, FS_Subset
    <3> QED BY <3>3 DEF T
  <2>12. \E v \in Thread : S = a \o b \o Unused(v) \o wire
    BY <2>10
  <2> QED BY <2>11, <2>12
<1> QED BY <1>1, <1>2 DEF NoByteLost, CutIsLong

(* No byte is lost, repeated or out of place until the stream breaks, and  *)
(* only a message of two digits or more can be cut.                        *)
THEOREM LosesNothing == Spec => []NoByteLost
<1>1. IInv => NoByteLost
  BY WholeLosesNothing
<1> QED BY <1>1, Invariance, PTL

(* A step of the listener and the Composer is one of the link, or none.    *)
LEMMA StepOfLink ==
  ASSUME IInv, IInv', [Next]_vars
  PROVE  [L!Next]_(L!vars)
<1>0. TypeOK
  BY DEF IInv
<1>1. ASSUME sent' = sent, received' = received, broken' # "no"
      PROVE  L!Break
  BY <1>1 DEF L!Break
<1>2. ASSUME sent' = sent, received' = received, broken' = broken
      PROVE  UNCHANGED L!vars
  BY <1>2 DEF L!vars
<1>3. ASSUME NEW m \in Message, ServerSends(m)
      PROVE  L!Send(m)
  BY <1>3 DEF ServerSends, L!Send
<1>4. ASSUME NEW t \in Thread, ReadLength(t)
      PROVE  L!Next \/ UNCHANGED L!vars
  <2>1. sent' = sent /\ broken' = broken
        /\ (received' = received \/ received' = Append(received, <<>>))
    BY <1>4 DEF ReadLength
  <2>2. CASE received' = received
    BY <1>2, <2>1, <2>2
  <2>3. CASE received' # received /\ broken = "no"
    <3>1. received' = Append(received, <<>>) /\ ReceivedFirst'
      BY <2>1, <2>3 DEF IInv, StreamIsWhole
    <3>2. received \in Seq(Bytes) /\ Len(received) \in Nat /\ Len(sent) \in Nat /\ <<>> \in Bytes
      BY <1>0, MessagesOf, EmptySeq DEF TypeOK, Bytes
    <3> DEFINE k == Len(received) + 1
    <3>3. Len(received') = k /\ received'[k] = <<>>
      BY <3>1, <3>2, AppendProperties
    <3>4. k \in 1..Len(sent) /\ sent[k] = <<>>
      BY <2>1, <3>1, <3>2, <3>3 DEF ReceivedFirst
    <3>5. sent[k] \in Message
      BY <1>0, <3>4, ElementOfSeq DEF TypeOK
    <3>6. <<>> \notin Message
      BY ComposerAssumption
    <3> QED BY <3>4, <3>5, <3>6
  <2>4. CASE broken # "no"
    <3>1. L!Break
      BY <2>1, <2>4 DEF L!Break
    <3> QED BY <3>1 DEF L!Next
  <2> QED BY <2>2, <2>3, <2>4
<1>5. ASSUME NEW t \in Thread, ReadPartOfLength(t) \/ ReadPartOfData(t)
      PROVE  UNCHANGED L!vars
  BY <1>2, <1>5 DEF ReadPartOfLength, ReadPartOfData, history
<1>6. ASSUME NEW t \in Thread, CutLength(t)
      PROVE  L!Break
  <2>1. sent' = sent /\ received' = received /\ broken' # "no"
    BY <1>6 DEF CutLength, Breaks
  <2> QED BY <1>1, <2>1
<1>7. ASSUME NEW t \in Thread, NEW k \in 1..Len(wire), Read(t, k)
      PROVE  L!Break \/ UNCHANGED L!vars
  <2>1. sent' = sent /\ received' = received /\ (broken' = broken \/ broken' # "no")
    BY <1>7 DEF Read, Breaks
  <2> QED BY <1>1, <1>2, <2>1
<1>8. ASSUME NEW t \in Thread, ReadData(t)
      PROVE  L!Receive \/ L!Break
  <2>1. sent' = sent /\ (broken # "no" => broken' # "no")
    BY <1>8 DEF ReadData, Breaks
  <2>2. CASE broken = "no"
    <3>1. ReceivedFirst /\ \E u \in Thread : Whole(u)
      BY <2>2 DEF IInv, StreamIsWhole
    <3>2. PICK u \in Thread : Whole(u)
      BY <3>1
    <3>3. Rest(t) # 0 /\ left <= Rest(t) /\ state = "data"
      <4>1. Rest(t) \in Nat /\ Rest(t) > 0
        BY <1>0, <1>8, RestIs DEF ReadData
      <4> QED BY <1>8, <4>1 DEF ReadData
    <3>4. u = t
      BY <1>0, <3>2, <3>3, OnlyReader
    <3>5. received' = Append(received, Coming)
      <4>1. buf \o SubSeq(Unused(t), 1, left) = Coming
        BY <1>0, <3>1, <3>2, <3>3, <3>4, CompletesMessage
      <4> QED BY <1>8, <4>1 DEF ReadData
    <3>6. Len(received) < Len(sent)
      BY <3>2, <3>3 DEF Whole, HoldsNothing, HoldsLength, HoldsData
    <3>7. CASE broken' = "no"
      BY <2>1, <2>2, <3>5, <3>6, <3>7 DEF L!Receive, L!Pending, Coming
    <3>8. CASE broken' # "no"
      BY <2>1, <2>2, <3>5, <3>6, <3>8 DEF L!Break, L!Pending, Coming
    <3> QED BY <3>7, <3>8
  <2>3. CASE broken # "no"
    BY <2>1, <2>3 DEF L!Break
  <2> QED BY <2>2, <2>3
<1>9. ASSUME Reconnect
      PROVE  L!Reconnect
  BY <1>9 DEF Reconnect, L!Reconnect
<1>10. ASSUME UNCHANGED vars
       PROVE  UNCHANGED L!vars
  BY <1>2, <1>10 DEF vars, history
<1> QED BY <1>3, <1>4, <1>5, <1>6, <1>7, <1>8, <1>9, <1>10 DEF Next, Listen, Feed, L!Next

(* The listener and the Composer do no step the link they stand for would  *)
(* not: the safety half of IsLink.                                         *)
THEOREM StepsOfLink == Spec => L!Init /\ [][L!Next]_(L!vars)
<1>1. Init => L!Init
  BY DEF Init, L!Init
<1>2. IInv /\ IInv' /\ [Next]_vars => [L!Next]_(L!vars)
  BY StepOfLink
<1> QED BY <1>1, <1>2, Invariance, PTL DEF Spec
=============================================================================
