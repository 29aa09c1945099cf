---------------------------- MODULE CommonLemmas ---------------------------
(***************************************************************************)
(* What several proofs of this project need.  Two facts about natural      *)
(* numbers, for arguments about all lengths and positions: a non-empty set *)
(* of natural numbers has a least element, and a set that holds 0 and with *)
(* each number the next one holds all of them.  They are stated for sets,  *)
(* not for predicates, because the provers cannot instantiate a theorem    *)
(* whose parameter is an operator.  What is kept of a list (Sublists): the *)
(* entries at the chosen positions, all of them, in their order.  How many *)
(* elements finite sets have that are counted one by the other, or put     *)
(* together.  And what SubSeq takes of a list.                             *)
(***************************************************************************)
EXTENDS Integers, Sequences, Sublists, WellFoundedInduction, FiniteSetTheorems, TLAPS

\* A non-empty set of natural numbers has a least element.
LEMMA LeastNat ==
    ASSUME NEW T, T \subseteq Nat, T # {}
    PROVE  \E x \in T : \A y \in T : x <= y
<1> DEFINE R == OpToRel(<, Nat)
<1>1. IsWellFoundedOn(R, Nat)
    BY NatLessThanWellFounded
<1>2. ASSUME NEW a \in Nat, NEW b \in Nat, a < b
      PROVE  <<a, b>> \in R
    BY <1>2 DEF OpToRel
<1> HIDE DEF R
<1>3. PICK x \in T : \A y \in T : ~ (<<y, x>> \in R)
    BY <1>1, WFMin
<1>4. ASSUME NEW y \in T
      PROVE  x <= y
  <2>1. x \in Nat /\ y \in Nat
      OBVIOUS
  <2>2. ~(y < x)
      BY <1>2, <1>3, <2>1, Zenon
  <2> QED BY <2>1, <2>2
<1> QED BY <1>4

\* A set that holds 0, and with each number its successor, holds all numbers.
LEMMA NatInduct ==
    ASSUME NEW S, 0 \in S, \A n \in Nat : n \in S => n + 1 \in S
    PROVE  Nat \subseteq S
<1>1. SUFFICES ASSUME Nat \ S # {}
               PROVE  FALSE
    OBVIOUS
<1>2. PICK x \in Nat \ S : \A y \in Nat \ S : x <= y
    BY <1>1, LeastNat
<1>3. x # 0 /\ x - 1 \in Nat
    BY <1>2
<1>4. x - 1 \in S
    BY <1>2, <1>3
<1> QED BY <1>2, <1>3, <1>4

-----------------------------------------------------------------------------
(* What is kept of a list. *)

Ordinal(positions, p) == Cardinality({q \in positions : q <= p})

\* Every number up to the size of a set of positions is the ordinal of one of them.
LEMMA OrdinalExists ==
    ASSUME NEW N \in Nat, NEW R, R \subseteq 1 .. N, NEW i \in 1 .. Cardinality(R)
    PROVE  /\ \E p \in R : Ordinal(R, p) = i
           /\ Cardinality(R) \in Nat
<1> DEFINE Upto(p) == {q \in R : q <= p}
           c(p) == Cardinality(Upto(p))
           T == {p \in 0 .. N : i <= c(p)}
<1>1. IsFiniteSet(R) /\ Cardinality(R) \in Nat
  <2>1. IsFiniteSet(1 .. N)
      BY FS_Interval
  <2> QED BY <2>1, FS_Subset, FS_CardinalityType
<1>2. \A q \in R : q \in Nat /\ 1 <= q /\ q <= N
    OBVIOUS
<1>3. ASSUME NEW p
      PROVE  IsFiniteSet(Upto(p)) /\ c(p) \in Nat
  <2>1. Upto(p) \subseteq R
      OBVIOUS
  <2> HIDE DEF Upto
  <2> QED BY <1>1, <2>1, FS_Subset, FS_CardinalityType
<1>4. c(0) = 0
  <2>1. Upto(0) = {}
    <3>1. \A q \in R : ~(q <= 0)
        BY <1>2
    <3> QED BY <3>1
  <2> QED BY <2>1, FS_EmptySet
<1>5. c(N) = Cardinality(R)
  <2>1. Upto(N) = R
      BY <1>2
  <2> QED BY <2>1
<1>6. ASSUME NEW p \in 1 .. N
      PROVE  c(p) = IF p \in R THEN c(p - 1) + 1 ELSE c(p - 1)
  <2>1. CASE p \in R
    <3>1. \A q \in R : q <= p <=> q <= p - 1 \/ q = p
        BY <1>2
    <3>2. Upto(p) = Upto(p - 1) \union {p}
        BY <2>1, <3>1
    <3>3. p \notin Upto(p - 1)
        BY <1>2
    <3> HIDE DEF Upto
    <3> QED BY <1>3, <2>1, <3>2, <3>3, FS_AddElement
  <2>2. CASE p \notin R
    <3>1. \A q \in R : q <= p <=> q <= p - 1
        BY <1>2, <2>2
    <3>2. Upto(p) = Upto(p - 1)
        BY <3>1
    <3> HIDE DEF Upto
    <3> QED BY <2>2, <3>2
  <2> QED BY <2>1, <2>2
<1>7. \A p \in Nat : c(p) = Ordinal(R, p)
    BY DEF Ordinal
<1> HIDE DEF c, Upto
<1>8. \A p \in 0 .. N : c(p) \in Nat
    BY <1>3
<1>9. T \subseteq Nat /\ N \in T
    BY <1>1, <1>5
<1>10. PICK p \in T : \A t \in T : p <= t
  <2> HIDE DEF T
  <2> QED BY <1>9, LeastNat
<1>11. p # 0
    BY <1>4
<1>12. p \in 1 .. N /\ p - 1 \in 0 .. N /\ i <= c(p)
    BY <1>11
<1>13. c(p - 1) < i
  <2>1. p - 1 \notin T
      BY <1>10, <1>12
  <2>2. c(p - 1) \in Nat /\ i \in Nat
      BY <1>1, <1>8, <1>12
  <2> QED BY <1>12, <2>1, <2>2
<1>14. p \in R /\ c(p) = i
  <2>1. c(p) \in Nat /\ c(p - 1) \in Nat /\ i \in Nat
      BY <1>1, <1>8, <1>12
  <2>2. c(p) = IF p \in R THEN c(p - 1) + 1 ELSE c(p - 1)
      BY <1>6, <1>12
  <2> QED BY <1>12, <1>13, <2>1, <2>2
<1> QED BY <1>1, <1>2, <1>7, <1>14

\* The ordinal of a position lies between 1 and their number.
LEMMA OrdinalRange ==
    ASSUME NEW N \in Nat, NEW R, R \subseteq 1 .. N, NEW p \in R
    PROVE  Ordinal(R, p) \in 1 .. Cardinality(R)
<1> DEFINE U == {q \in R : q <= p}
<1>1. IsFiniteSet(R) /\ Cardinality(R) \in Nat
  <2>1. IsFiniteSet(1 .. N)
      BY FS_Interval
  <2> QED BY <2>1, FS_Subset, FS_CardinalityType
<1>2. p \in U /\ U \subseteq R
  <2>1. p <= p
      OBVIOUS
  <2> QED BY <2>1
<1>3. Ordinal(R, p) = Cardinality(U)
    BY DEF Ordinal
<1> HIDE DEF U
<1>4. IsFiniteSet(U) /\ Cardinality(U) \in Nat /\ Cardinality(U) <= Cardinality(R)
    BY <1>1, <1>2, FS_Subset, FS_CardinalityType
<1>5. Cardinality(U) # 0
    BY <1>2, <1>4, FS_EmptySet
<1> QED BY <1>1, <1>3, <1>4, <1>5

\* A position further on has a larger ordinal.
LEMMA OrdinalGrows ==
    ASSUME NEW N \in Nat, NEW R, R \subseteq 1 .. N, NEW p \in R, NEW q \in R, p < q
    PROVE  Ordinal(R, p) < Ordinal(R, q) /\ Ordinal(R, p) \in Nat /\ Ordinal(R, q) \in Nat
<1> DEFINE U == {r \in R : r <= p}
           V == {r \in R : r <= q}
<1>1. IsFiniteSet(R)
  <2>1. IsFiniteSet(1 .. N)
      BY FS_Interval
  <2> QED BY <2>1, FS_Subset
<1>2. \A r \in R : r \in Nat
    OBVIOUS
<1>3. U \subseteq V /\ V \subseteq R
  <2>1. \A r \in R : r <= p => r <= q
      BY <1>2
  <2> QED BY <2>1
<1>4. q \in V /\ q \notin U
    BY <1>2
<1>5. Ordinal(R, p) = Cardinality(U) /\ Ordinal(R, q) = Cardinality(V)
    BY DEF Ordinal
<1> HIDE DEF U, V
<1>6. IsFiniteSet(U) /\ IsFiniteSet(V)
    BY <1>1, <1>3, FS_Subset
<1>7. Cardinality(U) \in Nat /\ Cardinality(V) \in Nat
    BY <1>6, FS_CardinalityType
<1>8. Cardinality(U) < Cardinality(V)
  <2>1. U # V
      BY <1>4
  <2>2. Cardinality(U) <= Cardinality(V) /\ (Cardinality(U) = Cardinality(V) => U = V)
      BY <1>3, <1>6, FS_Subset
  <2> QED BY <1>7, <2>1, <2>2
<1> QED BY <1>5, <1>7, <1>8

\* A list k consists of the entries of s at some of the positions R, in their order.
TakenFrom(s, R, k, place) ==
    /\ place \in [DOMAIN k -> R]
    /\ \A i, j \in DOMAIN k : i < j => place[i] < place[j]
    /\ \A p \in R : \E i \in DOMAIN k : place[i] = p
    /\ \A i \in DOMAIN k : k[i] = s[place[i]]

\* What is kept of a list are its entries at the positions, all of them, in order.
LEMMA KeptAre ==
    ASSUME NEW S, NEW s \in Seq(S), NEW R, R \subseteq DOMAIN s
    PROVE  /\ Kept(s, R) \in Seq(S)
           /\ \E place : TakenFrom(s, R, Kept(s, R), place)
<1> DEFINE k == Cardinality(R)
           Pos(i) == CHOOSE p \in R : Ordinal(R, p) = i
           place == [i \in 1 .. k |-> Pos(i)]
<1>1. Len(s) \in Nat /\ DOMAIN s = 1 .. Len(s) /\ R \subseteq 1 .. Len(s)
    OBVIOUS
<1>2. k \in Nat /\ IsFiniteSet(R)
  <2>1. IsFiniteSet(1 .. Len(s))
      BY <1>1, FS_Interval
  <2> QED BY <1>1, <2>1, FS_Subset, FS_CardinalityType
<1>3. ASSUME NEW i \in 1 .. k
      PROVE  Pos(i) \in R /\ Ordinal(R, Pos(i)) = i
  <2>1. \E p \in R : Ordinal(R, p) = i
      BY <1>1, OrdinalExists
  <2> QED BY <2>1
<1>4. Kept(s, R) = [i \in 1 .. k |-> s[Pos(i)]]
    BY DEF Kept, Ordinal
<1>5. ASSUME NEW p \in R, NEW q \in R, p < q
      PROVE  Ordinal(R, p) < Ordinal(R, q) /\ Ordinal(R, p) \in Nat /\ Ordinal(R, q) \in Nat
    BY <1>1, <1>2, <1>5, OrdinalGrows
<1>6. ASSUME NEW p \in R
      PROVE  Ordinal(R, p) \in 1 .. k
    BY <1>1, <1>6, OrdinalRange
<1> HIDE DEF Pos, k
<1>7. \A i \in 1 .. k : s[Pos(i)] \in S
    BY <1>1, <1>3
<1>8. Kept(s, R) \in Seq(S) /\ DOMAIN Kept(s, R) = 1 .. k
    BY <1>2, <1>4, <1>7
<1>9. \A i \in 1 .. k : Kept(s, R)[i] = s[place[i]] /\ place[i] = Pos(i)
    BY <1>4
<1>10. place \in [1 .. k -> R]
    BY <1>3
<1>11. ASSUME NEW i \in 1 .. k, NEW j \in 1 .. k, i < j
       PROVE  place[i] < place[j]
  <2>1. Pos(i) \in Nat /\ Pos(j) \in Nat
      BY <1>1, <1>3
  <2>2. Pos(i) # Pos(j)
      BY <1>2, <1>3, <1>11
  <2>3. ~(Pos(j) < Pos(i))
    <3>1. SUFFICES ASSUME Pos(j) < Pos(i)
                   PROVE  FALSE
        OBVIOUS
    <3>2. Ordinal(R, Pos(j)) < Ordinal(R, Pos(i))
        BY <1>3, <1>5, <3>1
    <3>3. j < i
        BY <1>3, <3>2
    <3> QED BY <1>2, <1>11, <3>3
  <2> QED BY <1>9, <2>1, <2>2, <2>3
<1>12. ASSUME NEW p \in R
       PROVE  \E i \in 1 .. k : place[i] = p
  <2>1. PICK i \in 1 .. k : i = Ordinal(R, p)
      BY <1>6
  <2>2. Pos(i) \in R /\ Ordinal(R, Pos(i)) = Ordinal(R, p)
      BY <1>3, <2>1
  <2>3. ~(Pos(i) < p) /\ ~(p < Pos(i))
    <3>1. Ordinal(R, p) \in Nat
        BY <1>2, <2>1
    <3>2. ASSUME Pos(i) < p PROVE FALSE
        BY <1>5, <2>2, <3>1, <3>2
    <3>3. ASSUME p < Pos(i) PROVE FALSE
        BY <1>5, <2>2, <3>1, <3>3
    <3> QED BY <3>2, <3>3
  <2>4. Pos(i) = p
      BY <1>1, <2>2, <2>3
  <2> QED BY <1>9, <2>4
<1>13. TakenFrom(s, R, Kept(s, R), place)
    BY <1>8, <1>9, <1>10, <1>11, <1>12 DEF TakenFrom
<1> QED BY <1>8, <1>13

-----------------------------------------------------------------------------
(* Counting. *)

\* A map that takes different elements to different ones, and reaches all, keeps the number.
LEMMA SameCount ==
    ASSUME NEW S, NEW T, IsFiniteSet(S), NEW f \in [S -> T],
           \A x, y \in S : f[x] = f[y] => x = y,
           \A y \in T : \E x \in S : f[x] = y
    PROVE  IsFiniteSet(T) /\ Cardinality(T) = Cardinality(S) /\ Cardinality(S) \in Nat
<1>1. f \in Bijection(S, T)
    BY DEF Bijection, Injection, Surjection, IsInjective
<1>2. ExistsBijection(S, T)
    BY <1>1 DEF ExistsBijection
<1> QED BY <1>2, FS_Bijection, FS_CardinalityType

\* Of two sets that share nothing the numbers add up.
LEMMA CountBoth ==
    ASSUME NEW S, NEW T, IsFiniteSet(S), IsFiniteSet(T), S \cap T = {}
    PROVE  /\ IsFiniteSet(S \cup T)
           /\ Cardinality(S \cup T) = Cardinality(S) + Cardinality(T)
           /\ Cardinality(S) \in Nat /\ Cardinality(T) \in Nat
<1> DEFINE m == Cardinality(S)
           n == Cardinality(T)
<1>1. m \in Nat /\ n \in Nat /\ ExistsBijection(1 .. m, S) /\ ExistsBijection(1 .. n, T)
    BY FS_CardinalityType
<1> HIDE DEF m, n
<1>2. PICK f \in Bijection(1 .. m, S) : TRUE
    BY <1>1 DEF ExistsBijection
<1>3. PICK g \in Bijection(1 .. n, T) : TRUE
    BY <1>1 DEF ExistsBijection
<1>4. /\ f \in [1 .. m -> S] /\ \A a, b \in 1 .. m : f[a] = f[b] => a = b
      /\ \A y \in S : \E a \in 1 .. m : f[a] = y
    BY DEF Bijection, Injection, Surjection, IsInjective
<1>5. /\ g \in [1 .. n -> T] /\ \A a, b \in 1 .. n : g[a] = g[b] => a = b
      /\ \A y \in T : \E a \in 1 .. n : g[a] = y
    BY DEF Bijection, Injection, Surjection, IsInjective
<1> DEFINE h == [i \in 1 .. m + n |-> IF i <= m THEN f[i] ELSE g[i - m]]
<1>6. ASSUME NEW i \in 1 .. m + n
      PROVE  \/ i \in 1 .. m /\ h[i] = f[i] /\ h[i] \in S
             \/ i - m \in 1 .. n /\ h[i] = g[i - m] /\ h[i] \in T
  <2>1. CASE i <= m
    <3>1. i \in 1 .. m
        BY <1>1, <2>1
    <3> QED BY <1>4, <2>1, <3>1
  <2>2. CASE ~(i <= m)
    <3>1. i - m \in 1 .. n
        BY <1>1, <2>2
    <3> QED BY <1>5, <2>2, <3>1
  <2> QED BY <2>1, <2>2
<1>7. \A i \in 1 .. m : i \in 1 .. m + n /\ h[i] = f[i]
    BY <1>1
<1>8. \A i \in 1 .. n : i + m \in 1 .. m + n /\ h[i + m] = g[i]
  <2>1. \A i \in 1 .. n : i + m \in 1 .. m + n /\ ~(i + m <= m) /\ (i + m) - m = i
      BY <1>1
  <2> QED BY <2>1
<1>9. h \in [1 .. m + n -> S \cup T]
    BY <1>6
<1> HIDE DEF h
<1>10. ASSUME NEW i \in 1 .. m + n, NEW j \in 1 .. m + n, h[i] = h[j]
       PROVE  i = j
  <2>1. CASE i \in 1 .. m /\ h[i] = f[i] /\ h[i] \in S
    <3>1. j \in 1 .. m /\ h[j] = f[j]
        BY <1>6, <1>10, <2>1
    <3> QED BY <1>4, <1>10, <2>1, <3>1
  <2>2. CASE i - m \in 1 .. n /\ h[i] = g[i - m] /\ h[i] \in T
    <3>1. j - m \in 1 .. n /\ h[j] = g[j - m]
        BY <1>6, <1>10, <2>2
    <3>2. i - m = j - m
        BY <1>5, <1>10, <2>2, <3>1
    <3> QED BY <1>1, <3>2
  <2> QED BY <1>6, <2>1, <2>2
<1>11. ASSUME NEW y \in S \cup T
       PROVE  \E i \in 1 .. m + n : h[i] = y
  <2>1. CASE y \in S
      BY <1>4, <1>7, <2>1
  <2>2. CASE y \in T
    <3>1. PICK a \in 1 .. n : g[a] = y
        BY <1>5, <2>2
    <3> QED BY <1>8, <3>1
  <2> QED BY <2>1, <2>2
<1>12. IsFiniteSet(1 .. m + n) /\ Cardinality(1 .. m + n) = m + n
    BY <1>1, FS_Interval
<1>13. IsFiniteSet(S \cup T) /\ Cardinality(S \cup T) = m + n
  <2> DEFINE I == 1 .. m + n
             U == S \cup T
  <2>1. h \in [I -> U] /\ (\A i, j \in I : h[i] = h[j] => i = j) /\ (\A y \in U : \E i \in I : h[i] = y)
      BY <1>9, <1>10, <1>11
  <2>2. IsFiniteSet(I) /\ Cardinality(I) = m + n
      BY <1>12
  <2> HIDE DEF I, U
  <2>3. IsFiniteSet(U) /\ Cardinality(U) = m + n
      BY <2>1, <2>2, SameCount
  <2> QED BY <2>3 DEF U
<1> QED BY <1>1, <1>13 DEF m, n

\* At most n entries of a list, behind the first ones.
IsPiece(S, s, from, n, p) ==
  /\ p \in Seq(S)
  /\ Len(p) = IF from >= Len(s) THEN 0 ELSE IF from + n < Len(s) THEN n ELSE Len(s) - from
  /\ \A i \in 1 .. Len(p) : from + i \in 1 .. Len(s) /\ p[i] = s[from + i]

\* SubSeq takes a piece.
LEMMA PieceIs ==
    ASSUME NEW S, NEW s \in Seq(S), NEW from \in Nat, NEW n \in Nat
    PROVE  IsPiece(S, s, from, n, SubSeq(s, from + 1, IF from + n < Len(s) THEN from + n ELSE Len(s)))
<1> DEFINE e == IF from + n < Len(s) THEN from + n ELSE Len(s)
<1>1. Len(s) \in Nat
    OBVIOUS
<1>2. e \in Nat /\ e <= Len(s)
    BY <1>1
<1>3. CASE from + 1 <= e
  <2>1. from + 1 \in 1 .. Len(s) /\ e \in 1 .. Len(s)
      BY <1>1, <1>2, <1>3
  <2>2. /\ SubSeq(s, from + 1, e) \in Seq(S) /\ Len(SubSeq(s, from + 1, e)) = e - from
        /\ \A i \in 1 .. e - from : SubSeq(s, from + 1, e)[i] = s[from + i]
      BY <1>1, <1>2, <1>3, <2>1
  <2>3. e - from = IF from >= Len(s) THEN 0 ELSE IF from + n < Len(s) THEN n ELSE Len(s) - from
      BY <1>1, <1>3
  <2>4. \A i \in 1 .. e - from : from + i \in 1 .. Len(s)
      BY <1>1, <1>2
  <2> HIDE DEF e
  <2> QED BY <2>2, <2>3, <2>4 DEF IsPiece, e
<1>4. CASE ~(from + 1 <= e)
  <2>1. SubSeq(s, from + 1, e) = <<>>
      BY <1>1, <1>2, <1>4
  <2>2. from + n \in Nat /\ (from >= Len(s) \/ (from + n < Len(s) /\ n = 0))
      BY <1>1, <1>4
  <2>3. (IF from >= Len(s) THEN 0 ELSE IF from + n < Len(s) THEN n ELSE Len(s) - from) = 0
      BY <2>2
  <2>4. <<>> \in Seq(S) /\ Len(<<>>) = 0
      OBVIOUS
  <2>5. IsPiece(S, s, from, n, <<>>)
      BY <2>3, <2>4 DEF IsPiece
  <2> HIDE DEF e
  <2> QED BY <2>1, <2>5 DEF e
<1> QED BY <1>3, <1>4

\* A piece is what lies between two places.
LEMMA PieceIsSub ==
    ASSUME NEW S, NEW s \in Seq(S), NEW from \in Nat, NEW n \in Nat, NEW p, IsPiece(S, s, from, n, p)
    PROVE  p = SubSeq(s, from + 1, from + Len(p))
<1>1. p \in Seq(S) /\ Len(p) \in Nat /\ Len(s) \in Nat
    BY DEF IsPiece
<1>2. CASE Len(p) = 0
  <2>1. p = <<>>
      BY <1>1, <1>2
  <2>2. SubSeq(s, from + 1, from + 0) = <<>>
      BY <1>1
  <2> QED BY <1>2, <2>1, <2>2
<1>3. CASE Len(p) # 0
  <2>1. Len(p) = IF from >= Len(s) THEN 0 ELSE IF from + n < Len(s) THEN n ELSE Len(s) - from
      BY DEF IsPiece
  <2>2. from + 1 \in 1 .. Len(s) /\ from + Len(p) \in 1 .. Len(s) /\ from + 1 <= from + Len(p)
      BY <1>1, <1>3, <2>1
  <2> DEFINE q == SubSeq(s, from + 1, from + Len(p))
  <2>3. q \in Seq(S) /\ Len(q) = Len(p) /\ \A i \in 1 .. Len(p) : q[i] = s[from + i]
    <3> DEFINE e == from + Len(p)
    <3>1. e \in Nat /\ e - from = Len(p)
        BY <1>1
    <3> HIDE DEF e
    <3>2. SubSeq(s, from + 1, e) \in Seq(S) /\ Len(SubSeq(s, from + 1, e)) = e - from
          /\ \A i \in 1 .. e - from : SubSeq(s, from + 1, e)[i] = s[from + i]
        BY <2>2, <3>1 DEF e
    <3> QED BY <3>1, <3>2 DEF e
  <2> HIDE DEF q
  <2>4. \A i \in 1 .. Len(p) : p[i] = s[from + i]
      BY DEF IsPiece
  <2>5. q = p
      BY <1>1, <2>3, <2>4
  <2> QED BY <2>5 DEF q
<1> QED BY <1>2, <1>3
=============================================================================
