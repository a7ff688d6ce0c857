----------------------------- MODULE FoldProofs -----------------------------
(***************************************************************************)
(* Induction over the natural numbers and over folds, in a form that needs *)
(* no operator as a parameter: what is proved by induction is that a set   *)
(* holds every number.  NatInd follows from the well-foundedness of the    *)
(* natural numbers; Recursion says that a function defined by recursion on *)
(* them exists, FoldExists and FoldLeftExists that the function over sets  *)
(* of positions exists by which the community modules define their folds.  *)
(*                                                                         *)
(* A proof about FoldLeft(op, b, s) makes a function D of op (IsFoldStep), *)
(* takes the fold f of D (FoldLeftExists), shows that f satisfies the      *)
(* equation of the fold of op, so that the function the definition chooses *)
(* does, and goes on from the prefixes 1 .. k of the sequence.             *)
(***************************************************************************)
EXTENDS Integers, FiniteSets, FiniteSetTheorems, TLAPS, WellFoundedInduction

-----------------------------------------------------------------------------
(* Induction.                                                              *)

\* A set of natural numbers has a least one.
LEMMA LeastNat ==
    ASSUME NEW T, T \subseteq Nat, T # {}
    PROVE  \E m \in T : \A k \in T : m <= k
<1> DEFINE Less == OpToRel(<, Nat)
<1>1. IsWellFoundedOn(Less, Nat)
  BY NatLessThanWellFounded
<1>2. \A x, y \in Nat : x < y => <<x, y>> \in Less
  BY DEF OpToRel
<1> HIDE DEF Less
<1>3. PICK m \in T : \A y \in T : ~ (<<y, m>> \in Less)
  BY <1>1, WFMin
<1>4. ASSUME NEW k \in T
      PROVE  m <= k
  <2>1. k \in Nat /\ m \in Nat /\ ~ (<<k, m>> \in Less)
    BY <1>3
  <2>2. ~ (k < m)
    BY <2>1, <1>2
  <2> QED BY <2>1, <2>2
<1> QED BY <1>4

\* Induction: a set that has 0 and with n also n + 1 has every number.
LEMMA NatInd ==
    ASSUME NEW S, 0 \in S, \A n \in Nat : n \in S => n + 1 \in S
    PROVE  \A n \in Nat : n \in S
<1> DEFINE T == {n \in Nat : n \notin S}
<1> SUFFICES ASSUME T # {} PROVE FALSE
  OBVIOUS
<1>1. PICK m \in T : \A k \in T : m <= k
  BY LeastNat, T \subseteq Nat
<1>2. m # 0 /\ m \in Nat
  BY DEF T
<1>3. m - 1 \in Nat /\ m - 1 \notin T
  BY <1>1, <1>2
<1> QED BY <1>2, <1>3

\* A step of a recursion with values in S, and the function it defines from c.
IsStep(D, S) == D \in [S \X Nat -> S]
Iterates(g, S, c, D) == g \in [Nat -> S] /\ g[0] = c /\ \A n \in Nat : g[n + 1] = D[<<g[n], n>>]

\* A function defined by recursion on the natural numbers exists.
LEMMA Recursion ==
    ASSUME NEW S, NEW c \in S, NEW D, IsStep(D, S)
    PROVE  \E g : Iterates(g, S, c, D)
<1> USE DEF IsStep
<1> DEFINE Starts(f, n) == /\ f \in [0 .. n -> S] /\ f[0] = c
                           /\ \A k \in 0 .. n - 1 : f[k + 1] = D[<<f[k], k>>]
<1>1. ASSUME NEW n \in Nat, NEW f, NEW m \in Nat, NEW h, Starts(f, n), Starts(h, m)
      PROVE  \A k \in Nat : k <= n /\ k <= m => f[k] = h[k]
  <2> DEFINE T == {k \in Nat : k <= n /\ k <= m => f[k] = h[k]}
  <2>1. 0 \in T
    BY <1>1
  <2>2. ASSUME NEW k \in Nat, k \in T
        PROVE  k + 1 \in T
    <3> SUFFICES ASSUME k + 1 <= n, k + 1 <= m
                 PROVE  f[k + 1] = h[k + 1]
      OBVIOUS
    <3>1. k \in 0 .. n - 1 /\ k \in 0 .. m - 1 /\ f[k] = h[k]
      BY <2>2
    <3>2. f[k + 1] = D[<<f[k], k>>] /\ h[k + 1] = D[<<h[k], k>>]
      BY <1>1, <3>1
    <3> QED BY <3>1, <3>2
  <2> HIDE DEF T
  <2>3. \A k \in Nat : k \in T
    BY <2>1, <2>2, NatInd
  <2> QED BY <2>3 DEF T
<1>2. \A n \in Nat : \E f : Starts(f, n)
  <2> DEFINE T == {n \in Nat : \E f : Starts(f, n)}
  <2>1. 0 \in T
    <3> DEFINE f == [k \in 0 .. 0 |-> c]
    <3>1. Starts(f, 0)
      OBVIOUS
    <3> QED BY <3>1
  <2>2. ASSUME NEW n \in Nat, n \in T
        PROVE  n + 1 \in T
    <3>1. PICK f : Starts(f, n)
      BY <2>2
    <3> DEFINE h == [k \in 0 .. n + 1 |-> IF k <= n THEN f[k] ELSE D[<<f[n], n>>]]
    <3>2. f[n] \in S /\ D[<<f[n], n>>] \in S
      BY <3>1
    <3>3. h \in [0 .. n + 1 -> S] /\ h[0] = c
      BY <3>1, <3>2
    <3>4. ASSUME NEW k \in 0 .. (n + 1) - 1
          PROVE  h[k + 1] = D[<<h[k], k>>]
      <4>1. CASE k < n
        <5>1. k \in 0 .. n - 1 /\ k + 1 \in 0 .. n
          BY <4>1
        <5>2. f[k + 1] = D[<<f[k], k>>]
          BY <5>1, <3>1
        <5> QED BY <5>1, <5>2, SMTT(30)
      <4>2. CASE k = n
        <5>1. h[n + 1] = D[<<f[n], n>>] /\ h[n] = f[n]
          OBVIOUS
        <5> QED BY <4>2, <5>1
      <4> QED BY <4>1, <4>2
    <3> HIDE DEF h
    <3>5. Starts(h, n + 1)
      BY <3>3, <3>4
    <3> HIDE DEF Starts
    <3> QED BY <3>5
  <2> HIDE DEF T
  <2>3. \A n \in Nat : n \in T
    BY <2>1, <2>2, NatInd
  <2> QED BY <2>3 DEF T
<1> DEFINE F(n) == CHOOSE f : Starts(f, n)
           g    == [n \in Nat |-> F(n)[n]]
<1>3. \A n \in Nat : Starts(F(n), n)
  BY <1>2
<1> HIDE DEF F
<1>4. ASSUME NEW n \in Nat
      PROVE  g[n + 1] = D[<<g[n], n>>]
  <2>1. Starts(F(n), n) /\ Starts(F(n + 1), n + 1)
    BY <1>3
  <2>2. F(n + 1)[n] = F(n)[n]
    BY <1>1, <2>1
  <2>3. F(n + 1)[n + 1] = D[<<F(n + 1)[n], n>>]
    BY <2>1
  <2> QED BY <2>2, <2>3
<1>5. g \in [Nat -> S] /\ g[0] = c
  BY <1>3
<1> QED BY <1>4, <1>5 DEF Iterates

-----------------------------------------------------------------------------
(* Folds.                                                                  *)

\* A step of a fold over the elements of X with values in T; the order in
\* which the elements of a part are taken; the fold of all parts.
IsFoldStep(D, T, X) == D \in [T \X X -> T]
Picks(M, X) == \A s \in SUBSET X : s # {} => M[s] \in s
Folds(f, T, b, X, D, M) ==
    /\ f \in [SUBSET X -> T]
    /\ \A s \in SUBSET X : f[s] = IF s = {} THEN b ELSE D[<<f[s \ {M[s]}], M[s]>>]

\* The function by which a fold is defined exists, whatever the order.
LEMMA FoldExists ==
    ASSUME NEW T, NEW b \in T, NEW X, IsFiniteSet(X), NEW D, NEW M, IsFoldStep(D, T, X), Picks(M, X)
    PROVE  \E f : Folds(f, T, b, X, D, M)
<1> USE DEF IsFoldStep, Picks
<1> DEFINE A    == SUBSET X
           n    == Cardinality(X)
           U(f) == [s \in A |-> IF s = {} THEN b ELSE D[<<f[s \ {M[s]}], M[s]>>]]
           E    == [p \in [A -> T] \X Nat |-> U(p[1])]
           c    == [s \in A |-> b]
<1>1. \A f \in [A -> T] : U(f) \in [A -> T]
  <2> SUFFICES ASSUME NEW f \in [A -> T], NEW s \in A, s # {}
               PROVE  D[<<f[s \ {M[s]}], M[s]>>] \in T
    OBVIOUS
  <2>1. s \ {M[s]} \in A /\ M[s] \in X
    OBVIOUS
  <2> QED BY <2>1
<1>2. \A f \in [A -> T] : \A s \in A :
         U(f)[s] = IF s = {} THEN b ELSE D[<<f[s \ {M[s]}], M[s]>>]
  OBVIOUS
<1>3. c \in [A -> T] /\ \A s \in A : c[s] = b
  OBVIOUS
<1> HIDE DEF U, c, n
<1>4. E \in [[A -> T] \X Nat -> [A -> T]]
  <2> HIDE DEF A
  <2> QED BY <1>1
<1>5. \A f \in [A -> T] : \A k \in Nat : E[<<f, k>>] = U(f)
  <2> HIDE DEF A
  <2> QED OBVIOUS
<1> HIDE DEF E
<1>6. PICK g \in [Nat -> [A -> T]] : g[0] = c /\ \A k \in Nat : g[k + 1] = E[<<g[k], k>>]
  <2> DEFINE S == [A -> T]
  <2>1. c \in S /\ IsStep(E, S)
    BY <1>3, <1>4 DEF IsStep
  <2> HIDE DEF S
  <2>2. \E g : Iterates(g, S, c, E)
    BY <2>1, Recursion
  <2> QED BY <2>2 DEF S, Iterates
<1>7. \A k \in Nat : \A s \in A : g[k + 1][s] = IF s = {} THEN b ELSE D[<<g[k][s \ {M[s]}], M[s]>>]
  <2> HIDE DEF A
  <2> SUFFICES ASSUME NEW k \in Nat, NEW s \in A
               PROVE  g[k + 1][s] = IF s = {} THEN b ELSE D[<<g[k][s \ {M[s]}], M[s]>>]
    OBVIOUS
  <2>1. g[k + 1] = U(g[k]) /\ g[k] \in [A -> T]
    BY <1>5, <1>6
  <2> QED BY <2>1, <1>2
<1>8. \A s \in A : s # {} => s \ {M[s]} \in A
  OBVIOUS
<1>9. \A s \in A : IsFiniteSet(s) /\ Cardinality(s) \in Nat /\ Cardinality(s) <= n
  <2>1. IsFiniteSet(X) /\ Cardinality(X) = n
    BY DEF n
  <2>2. ASSUME NEW s \in A
        PROVE  IsFiniteSet(s) /\ Cardinality(s) \in Nat /\ Cardinality(s) <= n
    <3>1. s \in SUBSET X
      OBVIOUS
    <3>2. IsFiniteSet(s) /\ Cardinality(s) <= Cardinality(X)
      BY <2>1, <3>1, FS_Subset
    <3> QED BY <2>1, <3>2, FS_CardinalityType
  <2> QED BY <2>2
<1>10. \A s \in A : s # {} => Cardinality(s \ {M[s]}) = Cardinality(s) - 1
  BY <1>9, FS_RemoveElement
<1> DEFINE P == {k \in Nat : \A s \in A : Cardinality(s) <= k => \A j \in Nat : j >= k => g[j][s] = g[k][s]}
<1>11. 0 \in P
  <2> SUFFICES ASSUME NEW s \in A, Cardinality(s) <= 0, NEW j \in Nat
               PROVE  g[j][s] = b /\ g[0][s] = b
    OBVIOUS
  <2>1. s = {}
    BY <1>9, FS_EmptySet
  <2>2. g[0][s] = b
    BY <1>3, <1>6
  <2>3. CASE j # 0
    <3>1. j - 1 \in Nat /\ (j - 1) + 1 = j
      BY <2>3
    <3>2. g[(j - 1) + 1][s] = b
      BY <2>1, <3>1, <1>7
    <3> QED BY <3>1, <3>2, <2>2
  <2> QED BY <2>2, <2>3
<1>12. ASSUME NEW k \in Nat, k \in P
      PROVE  k + 1 \in P
  <2> SUFFICES ASSUME NEW s \in A, Cardinality(s) <= k + 1, NEW j \in Nat, j >= k + 1
               PROVE  g[j][s] = g[k + 1][s]
    OBVIOUS
  <2>1. j - 1 \in Nat /\ (j - 1) + 1 = j /\ j - 1 >= k
    OBVIOUS
  <2>2. g[(j - 1) + 1][s] = IF s = {} THEN b ELSE D[<<g[j - 1][s \ {M[s]}], M[s]>>]
    BY <2>1, <1>7
  <2>3. g[k + 1][s] = IF s = {} THEN b ELSE D[<<g[k][s \ {M[s]}], M[s]>>]
    BY <1>7
  <2>4. ASSUME s # {}
        PROVE  g[j - 1][s \ {M[s]}] = g[k][s \ {M[s]}]
    <3> DEFINE r == s \ {M[s]}
    <3>1. r \in A /\ Cardinality(r) <= k
      <4>1. Cardinality(r) = Cardinality(s) - 1 /\ Cardinality(s) \in Nat
        BY <1>9, <1>10, <2>4
      <4>2. r \in A
        BY <1>8, <2>4
      <4> HIDE DEF r
      <4> QED BY <4>1, <4>2
    <3> HIDE DEF r
    <3>2. g[j - 1][r] = g[k][r]
      BY <1>12, <2>1, <3>1
    <3> QED BY <3>2 DEF r
  <2> QED BY <2>1, <2>2, <2>3, <2>4
<1> HIDE DEF P
<1>13. \A k \in Nat : k \in P
  BY <1>11, <1>12, NatInd
<1>14. n \in Nat
  BY FS_CardinalityType DEF n
<1>15. \A s \in A : g[n + 1][s] = g[n][s]
  BY <1>13, <1>9, <1>14 DEF P
<1>16. g[n] \in [A -> T] /\ \A s \in A : g[n][s] = IF s = {} THEN b ELSE D[<<g[n][s \ {M[s]}], M[s]>>]
  BY <1>7, <1>14, <1>15
<1> QED BY <1>16 DEF Folds

\* Max of FiniteSetsExt, which FoldLeft takes first.
Greatest(S) == CHOOSE x \in S : \A y \in S : x >= y

\* The greatest position of a set of them.
LEMMA GreatestOfPart ==
    ASSUME NEW n \in Nat, NEW s \in SUBSET (1 .. n), s # {}
    PROVE  Greatest(s) \in s /\ \A k \in s : k <= Greatest(s)
<1> DEFINE T == {n - k : k \in s}
<1>1. \A k \in s : k \in 1 .. n
  OBVIOUS
<1>2. T \subseteq Nat /\ T # {}
  <2>1. \A k \in 1 .. n : n - k \in Nat
    OBVIOUS
  <2>2. PICK k \in s : TRUE
    OBVIOUS
  <2>3. n - k \in T
    OBVIOUS
  <2>4. T \subseteq Nat
    BY <2>1
  <2> QED BY <2>3, <2>4
<1>3. PICK m \in T : \A k \in T : m <= k
  <2> HIDE DEF T
  <2> QED BY <1>2, LeastNat
<1>4. PICK x \in s : m = n - x
  OBVIOUS
<1>5. \A k \in s : n - x <= n - k
  BY <1>3, <1>4
<1>6. \A k \in s : x >= k
  BY <1>1, <1>5
<1>7. \E y \in s : \A k \in s : y >= k
  BY <1>6
<1> DEFINE g == Greatest(s)
<1>8. g \in s /\ \A k \in s : g >= k
  BY <1>7 DEF Greatest
<1> HIDE DEF g
<1>9. \A k \in s : k <= g
  BY <1>1, <1>8
<1> QED BY <1>8, <1>9 DEF g

\* The last position of a prefix, and the prefix without it.
LEMMA GreatestOfSegment ==
    ASSUME NEW k \in Nat, k # 0
    PROVE  Greatest(1 .. k) = k /\ (1 .. k) \ {k} = 1 .. k - 1
<1>1. 1 .. k # {}
  OBVIOUS
<1>2. Greatest(1 .. k) \in 1 .. k /\ \A j \in 1 .. k : j <= Greatest(1 .. k)
  BY <1>1, GreatestOfPart
<1> QED BY <1>2

\* The order of a fold from the left.
FromLeft(n) == [s \in SUBSET (1 .. n) |-> Greatest(s)]

\* It takes one of the positions that are left.
LEMMA FromLeftPicks ==
    ASSUME NEW n \in Nat
    PROVE  Picks(FromLeft(n), 1 .. n)
<1>1. ASSUME NEW s \in SUBSET (1 .. n), s # {}
      PROVE  FromLeft(n)[s] \in s
  BY <1>1, GreatestOfPart DEF FromLeft
<1> QED BY <1>1 DEF Picks

\* f folds with step D from the left, from b.
FoldsLeft(f, T, b, n, D) ==
    /\ f \in [SUBSET (1 .. n) -> T]
    /\ \A s \in SUBSET (1 .. n) : f[s] = IF s = {} THEN b ELSE D[<<f[s \ {Greatest(s)}], Greatest(s)>>]

\* The function by which FoldLeft is defined exists.
LEMMA FoldLeftExists ==
    ASSUME NEW T, NEW b \in T, NEW n \in Nat, NEW D, IsFoldStep(D, T, 1 .. n)
    PROVE  \E f : FoldsLeft(f, T, b, n, D)
<1>1. PICK f : Folds(f, T, b, 1 .. n, D, FromLeft(n))
  <2>1. IsFiniteSet(1 .. n)
    BY FS_Interval
  <2> QED BY <2>1, FromLeftPicks, FoldExists
<1>2. ASSUME NEW s \in SUBSET (1 .. n)
      PROVE  f[s] = IF s = {} THEN b ELSE D[<<f[s \ {Greatest(s)}], Greatest(s)>>]
  <2>1. s # {} => FromLeft(n)[s] = Greatest(s)
    BY DEF FromLeft
  <2> QED BY <1>1, <2>1 DEF Folds
<1> QED BY <1>1, <1>2 DEF Folds, FoldsLeft

\* What such a fold is of a set of positions that is not empty.
LEMMA FoldsLeftStep ==
    ASSUME NEW T, NEW b, NEW n \in Nat, NEW D, NEW f, FoldsLeft(f, T, b, n, D),
           NEW s \in SUBSET (1 .. n), s # {}
    PROVE  /\ Greatest(s) \in 1 .. n /\ s \ {Greatest(s)} \in SUBSET (1 .. n)
           /\ f[s \ {Greatest(s)}] \in T
           /\ f[s] = D[<<f[s \ {Greatest(s)}], Greatest(s)>>]
<1>1. Greatest(s) \in s /\ \A k \in s : k \in 1 .. n
  BY GreatestOfPart
<1>2. s \ {Greatest(s)} \in SUBSET (1 .. n)
  OBVIOUS
<1> QED BY <1>1, <1>2 DEF FoldsLeft

\* The prefixes, when f folds from the left: the fold of the first k positions
\* comes from that of the first k - 1.
LEMMA PrefixStep ==
    ASSUME NEW n \in Nat, NEW k \in 1 .. n
    PROVE  /\ 1 .. k \in SUBSET (1 .. n) /\ 1 .. k # {}
           /\ (1 .. k) \ {Greatest(1 .. k)} = 1 .. k - 1 /\ Greatest(1 .. k) = k
BY GreatestOfSegment

\* What holds at the beginning of a fold and is kept by its steps holds at its
\* end.
LEMMA FoldStays ==
    ASSUME NEW T, NEW n \in Nat, NEW c, c[{}] \in T,
           \A k \in 1 .. n : c[1 .. k - 1] \in T => c[1 .. k] \in T
    PROVE  c[1 .. n] \in T
<1> DEFINE P == {k \in Nat : k <= n => c[1 .. k] \in T}
<1>1. 0 \in P
  <2>1. 1 .. 0 = {}
    OBVIOUS
  <2> QED BY <2>1
<1>2. ASSUME NEW k \in Nat, k \in P
      PROVE  k + 1 \in P
  <2> SUFFICES ASSUME k + 1 <= n PROVE c[1 .. k + 1] \in T
    OBVIOUS
  <2>1. k + 1 \in 1 .. n /\ (k + 1) - 1 = k /\ c[1 .. k] \in T
    BY <1>2
  <2> QED BY <2>1
<1> HIDE DEF P
<1>3. n \in P
  BY <1>1, <1>2, NatInd
<1> QED BY <1>3 DEF P

\* The same for all parts of what is folded, in whatever order.
LEMMA FoldKeeps ==
    ASSUME NEW T, NEW X, IsFiniteSet(X), NEW M, Picks(M, X), NEW c, c[{}] \in T,
           \A s \in SUBSET X : s # {} /\ c[s \ {M[s]}] \in T => c[s] \in T
    PROVE  c[X] \in T
<1>1. \A s \in SUBSET X : IsFiniteSet(s) /\ Cardinality(s) \in Nat
  BY FS_Subset, FS_CardinalityType
<1> DEFINE P == {k \in Nat : \A s \in SUBSET X : Cardinality(s) <= k => c[s] \in T}
<1>2. 0 \in P
  <2> SUFFICES ASSUME NEW s \in SUBSET X, Cardinality(s) <= 0 PROVE c[s] \in T
    OBVIOUS
  <2>1. s = {}
    BY <1>1, FS_EmptySet
  <2> QED BY <2>1
<1>3. ASSUME NEW k \in Nat, k \in P
      PROVE  k + 1 \in P
  <2> SUFFICES ASSUME NEW s \in SUBSET X, Cardinality(s) <= k + 1, s # {} PROVE c[s] \in T
    OBVIOUS
  <2> DEFINE r == s \ {M[s]}
  <2>1. M[s] \in s
    BY DEF Picks
  <2>2. Cardinality(r) = Cardinality(s) - 1
    BY <1>1, <2>1, FS_RemoveElement
  <2>3. r \in SUBSET X
    OBVIOUS
  <2>4. c[r] \in T
    <3> HIDE DEF r
    <3>1. Cardinality(r) <= k
      BY <1>1, <2>2
    <3> QED BY <1>3, <2>3, <3>1
  <2> QED BY <2>4
<1> HIDE DEF P
<1>4. Cardinality(X) \in P
  <2>1. \A k \in Nat : k \in P
    BY <1>2, <1>3, NatInd
  <2> QED BY <2>1, <1>1
<1> QED BY <1>1, <1>4 DEF P

-----------------------------------------------------------------------------
(* Folds from the right.                                                   *)

\* Min of FiniteSetsExt, which FoldRight takes first.
Least(S) == CHOOSE x \in S : \A y \in S : x <= y

\* A part of 1 .. n that is not empty has its least number in it.
LEMMA LeastOfPart ==
    ASSUME NEW n \in Nat, NEW s \in SUBSET (1 .. n), s # {}
    PROVE  Least(s) \in s
<1>1. s \subseteq Nat
  OBVIOUS
<1>2. \E m \in s : \A k \in s : m <= k
  BY <1>1, LeastNat
<1> QED BY <1>2 DEF Least

\* The order of a fold from the right.
FromRight(n) == [s \in SUBSET (1 .. n) |-> Least(s)]

\* f folds with step D from the right, from b.
FoldsRight(f, T, b, n, D) ==
    /\ f \in [SUBSET (1 .. n) -> T]
    /\ \A s \in SUBSET (1 .. n) : f[s] = IF s = {} THEN b ELSE D[<<f[s \ {Least(s)}], Least(s)>>]

\* FoldRight takes a number of the part it is at.
LEMMA FromRightPicks ==
    ASSUME NEW n \in Nat
    PROVE  Picks(FromRight(n), 1 .. n)
<1>1. ASSUME NEW s \in SUBSET (1 .. n), s # {}
      PROVE  FromRight(n)[s] \in s
  BY <1>1, LeastOfPart DEF FromRight
<1> QED BY <1>1 DEF Picks

\* The function by which FoldRight is defined exists.
LEMMA FoldRightExists ==
    ASSUME NEW T, NEW b \in T, NEW n \in Nat, NEW D, IsFoldStep(D, T, 1 .. n)
    PROVE  \E f : FoldsRight(f, T, b, n, D)
<1>1. PICK f : Folds(f, T, b, 1 .. n, D, FromRight(n))
  <2>1. IsFiniteSet(1 .. n)
    BY FS_Interval
  <2> QED BY <2>1, FromRightPicks, FoldExists
<1>2. ASSUME NEW s \in SUBSET (1 .. n)
      PROVE  f[s] = IF s = {} THEN b ELSE D[<<f[s \ {Least(s)}], Least(s)>>]
  <2>1. s # {} => FromRight(n)[s] = Least(s)
    BY DEF FromRight
  <2> QED BY <1>1, <2>1 DEF Folds
<1> QED BY <1>1, <1>2 DEF Folds, FoldsRight

\* What such a fold is of a set of positions that is not empty.
LEMMA FoldsRightStep ==
    ASSUME NEW T, NEW b, NEW n \in Nat, NEW D, NEW f, FoldsRight(f, T, b, n, D),
           NEW s \in SUBSET (1 .. n), s # {}
    PROVE  /\ Least(s) \in 1 .. n /\ s \ {Least(s)} \in SUBSET (1 .. n)
           /\ f[s \ {Least(s)}] \in T
           /\ f[s] = D[<<f[s \ {Least(s)}], Least(s)>>]
<1>1. Least(s) \in s /\ \A k \in s : k \in 1 .. n
  BY LeastOfPart
<1>2. s \ {Least(s)} \in SUBSET (1 .. n)
  OBVIOUS
<1> QED BY <1>1, <1>2 DEF FoldsRight

\* What holds at the beginning of a fold and is kept by its steps holds at its
\* end, from the left and from the right.
LEMMA LeftKeeps ==
    ASSUME NEW T, NEW n \in Nat, NEW c, c[{}] \in T,
           \A s \in SUBSET (1 .. n) :
               s # {} /\ Greatest(s) \in 1 .. n /\ c[s \ {Greatest(s)}] \in T => c[s] \in T
    PROVE  c[1 .. n] \in T
<1>1. \A s \in SUBSET (1 .. n) : s # {} => FromLeft(n)[s] = Greatest(s) /\ Greatest(s) \in 1 .. n
  BY GreatestOfPart DEF FromLeft
<1>2. IsFiniteSet(1 .. n) /\ Picks(FromLeft(n), 1 .. n)
  BY FS_Interval, FromLeftPicks
<1> QED BY <1>1, <1>2, FoldKeeps

\* A fold from the right keeps what each of its steps keeps.
LEMMA RightKeeps ==
    ASSUME NEW T, NEW n \in Nat, NEW c, c[{}] \in T,
           \A s \in SUBSET (1 .. n) :
               s # {} /\ Least(s) \in 1 .. n /\ c[s \ {Least(s)}] \in T => c[s] \in T
    PROVE  c[1 .. n] \in T
<1>1. ASSUME NEW s \in SUBSET (1 .. n), s # {}
      PROVE  FromRight(n)[s] = Least(s) /\ Least(s) \in 1 .. n
  BY <1>1, LeastOfPart DEF FromRight
<1>2. IsFiniteSet(1 .. n) /\ Picks(FromRight(n), 1 .. n)
  BY FS_Interval, FromRightPicks
<1> QED BY <1>1, <1>2, FoldKeeps
=============================================================================
