------------------------------ MODULE NldProofs ------------------------------
(***************************************************************************)
(* Two proofs about nld, for every command line.  It resolves archives:    *)
(* when it goes on behind one no name is missing that a member defines,    *)
(* and no unit is linked twice.  And what it writes can be loaded: its     *)
(* segments have pages of their own and bytes in the file, but for what    *)
(* SegmentsLoad excepts.                                                   *)
(*                                                                         *)
(* Compiling, making the index of an archive and sorting symbols are folds *)
(* over sequences, so that what is needed of them, that an object tells    *)
(* its unit and has a sequence of symbols and that every entry of an index *)
(* is a name its member defines, is by induction over those (FoldProofs).  *)
(* The invariant then says of what is linked which file it is of, and of   *)
(* a round over an index that has added nothing what it has passed.        *)
(*                                                                         *)
(* Packing sections is a fold too.  What it computes depends on the sizes  *)
(* and alignments of sections only, which relocation leaves, so that the   *)
(* invariant can say in every state what the program headers and places    *)
(* are of: of what is packed of the objects as they are.                   *)
(***************************************************************************)
EXTENDS FoldProofs, SequenceTheorems, TLAPS, Nld

-----------------------------------------------------------------------------
(* What the folds compute, prefix by prefix.                               *)

\* The sizes of parts of 1 .. n.
LEMMA PartSizes ==
    ASSUME NEW n \in Nat, NEW x \in SUBSET (1 .. n)
    PROVE  /\ Cardinality(x) \in Nat /\ Cardinality(x) <= n
           /\ x # {} => /\ Greatest(x) \in 1 .. n /\ x \ {Greatest(x)} \in SUBSET (1 .. n)
                        /\ Cardinality(x \ {Greatest(x)}) = Cardinality(x) - 1
           /\ Cardinality(x) = 0 => x = {}
<1>1. IsFiniteSet(1 .. n) /\ Cardinality(1 .. n) = n
  BY FS_Interval
<1>2. IsFiniteSet(x) /\ Cardinality(x) <= Cardinality(1 .. n)
  BY <1>1, FS_Subset
<1>3. Cardinality(x) \in Nat /\ (Cardinality(x) = 0 <=> x = {})
  BY <1>2, FS_CardinalityType, FS_EmptySet
<1>4. ASSUME x # {}
      PROVE  /\ Greatest(x) \in 1 .. n /\ x \ {Greatest(x)} \in SUBSET (1 .. n)
             /\ Cardinality(x \ {Greatest(x)}) = Cardinality(x) - 1
  <2>1. Greatest(x) \in x
    BY <1>4, GreatestOfPart
  <2>2. Cardinality(x \ {Greatest(x)}) = Cardinality(x) - 1
    BY <1>2, <2>1, FS_RemoveElement
  <2> QED BY <2>1, <2>2
<1> QED BY <1>1, <1>2, <1>3, <1>4

\* Naming the symbols of a member goes through them.
LEMMA NamedFold ==
    ASSUME NEW index, NEW syms, NEW m, Len(syms) \in Nat, DOMAIN syms = 1 .. Len(syms)
    PROVE  \E c : /\ c[{}] = index /\ Named(index, syms, m) = c[1 .. Len(syms)]
                  /\ \A k \in 1 .. Len(syms) : c[1 .. k] = IF syms[k].glob /\ syms[k].sec # Undef
                                               THEN Append(c[1 .. k - 1], [name |-> syms[k].name, member |-> m])
                                               ELSE c[1 .. k - 1]
<1> DEFINE n == Len(syms)
           t == syms
           b == index
           Then(q, x) == IF x.glob /\ x.sec # Undef THEN Append(q, [name |-> x.name, member |-> m]) ELSE q
           A == SUBSET (1 .. n)
           Good(f, x) == f[x] = Then(f[x \ {Greatest(x)}], t[Greatest(x)])
           Total(f) == f = [x \in A |-> f[x]] /\ f[{}] = b
           P == {k \in Nat : \E f : /\ Total(f)
                                   /\ \A x \in A : x # {} /\ Cardinality(x) <= k => Good(f, x)}
<1>1. n \in Nat /\ DOMAIN t = 1 .. n
  OBVIOUS
<1> HIDE DEF n, t, b, Then
<1>2. \A x \in A : /\ Cardinality(x) \in Nat /\ Cardinality(x) <= n
                   /\ x # {} => /\ Greatest(x) \in 1 .. n /\ x \ {Greatest(x)} \in A
                                 /\ Cardinality(x \ {Greatest(x)}) = Cardinality(x) - 1
                   /\ Cardinality(x) = 0 => x = {}
  BY <1>1, PartSizes
<1>3. 0 \in P
  <2> DEFINE f == [x \in A |-> b]
  <2>1. Total(f)
    OBVIOUS
  <2>2. ASSUME NEW x \in A, x # {}
        PROVE  ~ (Cardinality(x) <= 0)
    <3>1. Cardinality(x) \in Nat /\ Cardinality(x) # 0
      BY <1>2, <2>2
    <3> QED BY <3>1
  <2> HIDE DEF f, Total, Good
  <2> QED BY <2>1, <2>2
<1>4. ASSUME NEW k \in Nat, k \in P
      PROVE  k + 1 \in P
  <2>1. PICK f : /\ Total(f)
                 /\ \A x \in A : x # {} /\ Cardinality(x) <= k => Good(f, x)
    BY <1>4
  <2> DEFINE g == [x \in A |-> IF x = {} THEN b ELSE Then(f[x \ {Greatest(x)}], t[Greatest(x)])]
  <2>2. Total(g) /\ \A x \in A : x # {} => g[x] = Then(f[x \ {Greatest(x)}], t[Greatest(x)])
    OBVIOUS
  <2> HIDE DEF g
  <2>3. ASSUME NEW x \in A, x # {}, Cardinality(x) <= k + 1
        PROVE  Good(g, x)
    <3> DEFINE y == x \ {Greatest(x)}
    <3>1. y \in A /\ Cardinality(y) <= k
      <4>1. Cardinality(y) = Cardinality(x) - 1 /\ Cardinality(x) \in Nat /\ y \in A
        BY <1>2, <2>3
      <4> HIDE DEF y
      <4> QED BY <2>3, <4>1
    <3>2. f[y] = g[y]
      <4> HIDE DEF y
      <4>1. CASE y = {}
        BY <2>1, <2>2, <4>1
      <4>2. CASE y # {}
        BY <2>1, <2>2, <3>1, <4>2
      <4> QED BY <4>1, <4>2
    <3>3. g[x] = Then(f[y], t[Greatest(x)])
      BY <2>2, <2>3
    <3> QED BY <3>2, <3>3
  <2> HIDE DEF Total, Good
  <2>4. \A x \in A : x # {} /\ Cardinality(x) <= k + 1 => Good(g, x)
    BY <2>3
  <2>5. k + 1 \in Nat /\ Total(g)
    BY <2>2
  <2> HIDE DEF A
  <2> QED BY <2>4, <2>5
<1>5. n \in P
  <2> HIDE DEF P
  <2> QED BY <1>1, <1>3, <1>4, NatInd
<1>6. PICK f : Total(f) /\ \A x \in A : x # {} => Good(f, x)
  <2> HIDE DEF Total, Good
  <2> QED BY <1>2, <1>5
<1> DEFINE Solves(fold) == fold = [x \in SUBSET DOMAIN t |->
                            IF x = {} THEN b ELSE Then(fold[x \ {Greatest(x)}], t[Greatest(x)])]
           fold == CHOOSE fold : Solves(fold)
<1>7. Solves(f)
  BY <1>1, <1>6
<1>8. Solves(fold)
  BY <1>7
<1>9. Named(index, syms, m) = fold[DOMAIN t]
  BY Zenon DEF b, t, Then, Named, FoldLeft, MapThenFoldSet, Greatest, Max
<1> HIDE DEF fold
<1>10. /\ fold[{}] = b
       /\ \A x \in SUBSET (1 .. n) : x # {} =>
             fold[x] = Then(fold[x \ {Greatest(x)}], t[Greatest(x)])
  BY <1>1, <1>8
<1>11. \A k \in 1 .. n : fold[1 .. k] = Then(fold[1 .. k - 1], t[k])
  <2> SUFFICES ASSUME NEW k \in 1 .. n
               PROVE  fold[1 .. k] = Then(fold[1 .. k - 1], t[k])
    OBVIOUS
  <2>1. /\ 1 .. k \in SUBSET (1 .. n) /\ 1 .. k # {}
        /\ (1 .. k) \ {Greatest(1 .. k)} = 1 .. k - 1 /\ Greatest(1 .. k) = k
    BY <1>1, PrefixStep
  <2>2. fold[1 .. k] = Then(fold[(1 .. k) \ {Greatest(1 .. k)}], t[Greatest(1 .. k)])
    BY <1>10, <2>1
  <2> QED BY <2>1, <2>2
<1> QED BY <1>1, <1>9, <1>10, <1>11 DEF n, t, b, Then

\* The index goes through the members.
LEMMA IndexFold ==
    ASSUME NEW members, Len(members) \in Nat, DOMAIN members = 1 .. Len(members)
    PROVE  \E c : /\ c[{}] = <<>> /\ Index(members) = c[1 .. Len(members)]
                  /\ \A k \in 1 .. Len(members) : c[1 .. k] = Named(c[1 .. k - 1], members[k].syms, k)
<1> DEFINE n == Len(members)
           t == [m \in DOMAIN members |-> m]
           b == <<>>
           Then(q, x) == Named(q, members[x].syms, x)
           A == SUBSET (1 .. n)
           Good(f, x) == f[x] = Then(f[x \ {Greatest(x)}], t[Greatest(x)])
           Total(f) == f = [x \in A |-> f[x]] /\ f[{}] = b
           P == {k \in Nat : \E f : /\ Total(f)
                                   /\ \A x \in A : x # {} /\ Cardinality(x) <= k => Good(f, x)}
<1>1. n \in Nat /\ DOMAIN t = 1 .. n
  OBVIOUS
<1> HIDE DEF n, t, b, Then
<1>2. \A x \in A : /\ Cardinality(x) \in Nat /\ Cardinality(x) <= n
                   /\ x # {} => /\ Greatest(x) \in 1 .. n /\ x \ {Greatest(x)} \in A
                                 /\ Cardinality(x \ {Greatest(x)}) = Cardinality(x) - 1
                   /\ Cardinality(x) = 0 => x = {}
  BY <1>1, PartSizes
<1>3. 0 \in P
  <2> DEFINE f == [x \in A |-> b]
  <2>1. Total(f)
    OBVIOUS
  <2>2. ASSUME NEW x \in A, x # {}
        PROVE  ~ (Cardinality(x) <= 0)
    <3>1. Cardinality(x) \in Nat /\ Cardinality(x) # 0
      BY <1>2, <2>2
    <3> QED BY <3>1
  <2> HIDE DEF f, Total, Good
  <2> QED BY <2>1, <2>2
<1>4. ASSUME NEW k \in Nat, k \in P
      PROVE  k + 1 \in P
  <2>1. PICK f : /\ Total(f)
                 /\ \A x \in A : x # {} /\ Cardinality(x) <= k => Good(f, x)
    BY <1>4
  <2> DEFINE g == [x \in A |-> IF x = {} THEN b ELSE Then(f[x \ {Greatest(x)}], t[Greatest(x)])]
  <2>2. Total(g) /\ \A x \in A : x # {} => g[x] = Then(f[x \ {Greatest(x)}], t[Greatest(x)])
    OBVIOUS
  <2> HIDE DEF g
  <2>3. ASSUME NEW x \in A, x # {}, Cardinality(x) <= k + 1
        PROVE  Good(g, x)
    <3> DEFINE y == x \ {Greatest(x)}
    <3>1. y \in A /\ Cardinality(y) <= k
      <4>1. Cardinality(y) = Cardinality(x) - 1 /\ Cardinality(x) \in Nat /\ y \in A
        BY <1>2, <2>3
      <4> HIDE DEF y
      <4> QED BY <2>3, <4>1
    <3>2. f[y] = g[y]
      <4> HIDE DEF y
      <4>1. CASE y = {}
        BY <2>1, <2>2, <4>1
      <4>2. CASE y # {}
        BY <2>1, <2>2, <3>1, <4>2
      <4> QED BY <4>1, <4>2
    <3>3. g[x] = Then(f[y], t[Greatest(x)])
      BY <2>2, <2>3
    <3> QED BY <3>2, <3>3
  <2> HIDE DEF Total, Good
  <2>4. \A x \in A : x # {} /\ Cardinality(x) <= k + 1 => Good(g, x)
    BY <2>3
  <2>5. k + 1 \in Nat /\ Total(g)
    BY <2>2
  <2> HIDE DEF A
  <2> QED BY <2>4, <2>5
<1>5. n \in P
  <2> HIDE DEF P
  <2> QED BY <1>1, <1>3, <1>4, NatInd
<1>6. PICK f : Total(f) /\ \A x \in A : x # {} => Good(f, x)
  <2> HIDE DEF Total, Good
  <2> QED BY <1>2, <1>5
<1> DEFINE Solves(fold) == fold = [x \in SUBSET DOMAIN t |->
                            IF x = {} THEN b ELSE Then(fold[x \ {Greatest(x)}], t[Greatest(x)])]
           fold == CHOOSE fold : Solves(fold)
<1>7. Solves(f)
  BY <1>1, <1>6
<1>8. Solves(fold)
  BY <1>7
<1>9. Index(members) = fold[DOMAIN t]
  BY Zenon DEF b, t, Then, Index, FoldLeft, MapThenFoldSet, Greatest, Max
<1> HIDE DEF fold
<1>10. /\ fold[{}] = b
       /\ \A x \in SUBSET (1 .. n) : x # {} =>
             fold[x] = Then(fold[x \ {Greatest(x)}], t[Greatest(x)])
  BY <1>1, <1>8
<1>11. \A k \in 1 .. n : fold[1 .. k] = Then(fold[1 .. k - 1], t[k])
  <2> SUFFICES ASSUME NEW k \in 1 .. n
               PROVE  fold[1 .. k] = Then(fold[1 .. k - 1], t[k])
    OBVIOUS
  <2>1. /\ 1 .. k \in SUBSET (1 .. n) /\ 1 .. k # {}
        /\ (1 .. k) \ {Greatest(1 .. k)} = 1 .. k - 1 /\ Greatest(1 .. k) = k
    BY <1>1, PrefixStep
  <2>2. fold[1 .. k] = Then(fold[(1 .. k) \ {Greatest(1 .. k)}], t[Greatest(1 .. k)])
    BY <1>10, <2>1
  <2> QED BY <2>1, <2>2
<1> QED BY <1>1, <1>9, <1>10, <1>11 DEF n, t, b, Then

\* References are made one after the other.
LEMMA ReferFold ==
    ASSUME NEW u, NEW o, NEW d, Len(u.defs[d].refs) \in Nat,
           DOMAIN u.defs[d].refs = 1 .. Len(u.defs[d].refs)
    PROVE  \E c : /\ c[{}] = o /\ Refer(u, o, d) = c[1 .. Len(u.defs[d].refs)]
                  /\ \A k \in 1 .. Len(u.defs[d].refs) : c[1 .. k] = Refers(u, c[1 .. k - 1], d, u.defs[d].refs[k])
<1> DEFINE n == Len(u.defs[d].refs)
           t == u.defs[d].refs
           b == o
           Then(q, x) == Refers(u, q, d, x)
           A == SUBSET (1 .. n)
           Good(f, x) == f[x] = Then(f[x \ {Greatest(x)}], t[Greatest(x)])
           Total(f) == f = [x \in A |-> f[x]] /\ f[{}] = b
           P == {k \in Nat : \E f : /\ Total(f)
                                   /\ \A x \in A : x # {} /\ Cardinality(x) <= k => Good(f, x)}
<1>1. n \in Nat /\ DOMAIN t = 1 .. n
  OBVIOUS
<1> HIDE DEF n, t, b, Then
<1>2. \A x \in A : /\ Cardinality(x) \in Nat /\ Cardinality(x) <= n
                   /\ x # {} => /\ Greatest(x) \in 1 .. n /\ x \ {Greatest(x)} \in A
                                 /\ Cardinality(x \ {Greatest(x)}) = Cardinality(x) - 1
                   /\ Cardinality(x) = 0 => x = {}
  BY <1>1, PartSizes
<1>3. 0 \in P
  <2> DEFINE f == [x \in A |-> b]
  <2>1. Total(f)
    OBVIOUS
  <2>2. ASSUME NEW x \in A, x # {}
        PROVE  ~ (Cardinality(x) <= 0)
    <3>1. Cardinality(x) \in Nat /\ Cardinality(x) # 0
      BY <1>2, <2>2
    <3> QED BY <3>1
  <2> HIDE DEF f, Total, Good
  <2> QED BY <2>1, <2>2
<1>4. ASSUME NEW k \in Nat, k \in P
      PROVE  k + 1 \in P
  <2>1. PICK f : /\ Total(f)
                 /\ \A x \in A : x # {} /\ Cardinality(x) <= k => Good(f, x)
    BY <1>4
  <2> DEFINE g == [x \in A |-> IF x = {} THEN b ELSE Then(f[x \ {Greatest(x)}], t[Greatest(x)])]
  <2>2. Total(g) /\ \A x \in A : x # {} => g[x] = Then(f[x \ {Greatest(x)}], t[Greatest(x)])
    OBVIOUS
  <2> HIDE DEF g
  <2>3. ASSUME NEW x \in A, x # {}, Cardinality(x) <= k + 1
        PROVE  Good(g, x)
    <3> DEFINE y == x \ {Greatest(x)}
    <3>1. y \in A /\ Cardinality(y) <= k
      <4>1. Cardinality(y) = Cardinality(x) - 1 /\ Cardinality(x) \in Nat /\ y \in A
        BY <1>2, <2>3
      <4> HIDE DEF y
      <4> QED BY <2>3, <4>1
    <3>2. f[y] = g[y]
      <4> HIDE DEF y
      <4>1. CASE y = {}
        BY <2>1, <2>2, <4>1
      <4>2. CASE y # {}
        BY <2>1, <2>2, <3>1, <4>2
      <4> QED BY <4>1, <4>2
    <3>3. g[x] = Then(f[y], t[Greatest(x)])
      BY <2>2, <2>3
    <3> QED BY <3>2, <3>3
  <2> HIDE DEF Total, Good
  <2>4. \A x \in A : x # {} /\ Cardinality(x) <= k + 1 => Good(g, x)
    BY <2>3
  <2>5. k + 1 \in Nat /\ Total(g)
    BY <2>2
  <2> HIDE DEF A
  <2> QED BY <2>4, <2>5
<1>5. n \in P
  <2> HIDE DEF P
  <2> QED BY <1>1, <1>3, <1>4, NatInd
<1>6. PICK f : Total(f) /\ \A x \in A : x # {} => Good(f, x)
  <2> HIDE DEF Total, Good
  <2> QED BY <1>2, <1>5
<1> DEFINE Solves(fold) == fold = [x \in SUBSET DOMAIN t |->
                            IF x = {} THEN b ELSE Then(fold[x \ {Greatest(x)}], t[Greatest(x)])]
           fold == CHOOSE fold : Solves(fold)
<1>7. Solves(f)
  BY <1>1, <1>6
<1>8. Solves(fold)
  BY <1>7
<1>9. Refer(u, o, d) = fold[DOMAIN t]
  BY Zenon DEF b, t, Then, Refer, Refers, FoldLeft, MapThenFoldSet, Greatest, Max
<1> HIDE DEF fold
<1>10. /\ fold[{}] = b
       /\ \A x \in SUBSET (1 .. n) : x # {} =>
             fold[x] = Then(fold[x \ {Greatest(x)}], t[Greatest(x)])
  BY <1>1, <1>8
<1>11. \A k \in 1 .. n : fold[1 .. k] = Then(fold[1 .. k - 1], t[k])
  <2> SUFFICES ASSUME NEW k \in 1 .. n
               PROVE  fold[1 .. k] = Then(fold[1 .. k - 1], t[k])
    OBVIOUS
  <2>1. /\ 1 .. k \in SUBSET (1 .. n) /\ 1 .. k # {}
        /\ (1 .. k) \ {Greatest(1 .. k)} = 1 .. k - 1 /\ Greatest(1 .. k) = k
    BY <1>1, PrefixStep
  <2>2. fold[1 .. k] = Then(fold[(1 .. k) \ {Greatest(1 .. k)}], t[Greatest(1 .. k)])
    BY <1>10, <2>1
  <2> QED BY <2>1, <2>2
<1> QED BY <1>1, <1>9, <1>10, <1>11 DEF n, t, b, Then

\* ncc compiles one definition after the other.
LEMMA CompiledFold ==
    ASSUME NEW u, Len(u.defs) \in Nat, DOMAIN u.defs = 1 .. Len(u.defs)
    PROVE  \E c : /\ c[{}] = NoObject /\ Bare(u) = c[1 .. Len(u.defs)]
                  /\ \A k \in 1 .. Len(u.defs) : c[1 .. k] = Refer(u, Define(u, c[1 .. k - 1], k), k)
<1> DEFINE n == Len(u.defs)
           t == Order(u)
           b == NoObject
           Then(q, x) == Refer(u, Define(u, q, x), x)
           A == SUBSET (1 .. n)
           Good(f, x) == f[x] = Then(f[x \ {Greatest(x)}], t[Greatest(x)])
           Total(f) == f = [x \in A |-> f[x]] /\ f[{}] = b
           P == {k \in Nat : \E f : /\ Total(f)
                                   /\ \A x \in A : x # {} /\ Cardinality(x) <= k => Good(f, x)}
<1>1. n \in Nat /\ DOMAIN t = 1 .. n
  BY DEF Order
<1> HIDE DEF n, t, b, Then
<1>2. \A x \in A : /\ Cardinality(x) \in Nat /\ Cardinality(x) <= n
                   /\ x # {} => /\ Greatest(x) \in 1 .. n /\ x \ {Greatest(x)} \in A
                                 /\ Cardinality(x \ {Greatest(x)}) = Cardinality(x) - 1
                   /\ Cardinality(x) = 0 => x = {}
  BY <1>1, PartSizes
<1>3. 0 \in P
  <2> DEFINE f == [x \in A |-> b]
  <2>1. Total(f)
    OBVIOUS
  <2>2. ASSUME NEW x \in A, x # {}
        PROVE  ~ (Cardinality(x) <= 0)
    <3>1. Cardinality(x) \in Nat /\ Cardinality(x) # 0
      BY <1>2, <2>2
    <3> QED BY <3>1
  <2> HIDE DEF f, Total, Good
  <2> QED BY <2>1, <2>2
<1>4. ASSUME NEW k \in Nat, k \in P
      PROVE  k + 1 \in P
  <2>1. PICK f : /\ Total(f)
                 /\ \A x \in A : x # {} /\ Cardinality(x) <= k => Good(f, x)
    BY <1>4
  <2> DEFINE g == [x \in A |-> IF x = {} THEN b ELSE Then(f[x \ {Greatest(x)}], t[Greatest(x)])]
  <2>2. Total(g) /\ \A x \in A : x # {} => g[x] = Then(f[x \ {Greatest(x)}], t[Greatest(x)])
    OBVIOUS
  <2> HIDE DEF g
  <2>3. ASSUME NEW x \in A, x # {}, Cardinality(x) <= k + 1
        PROVE  Good(g, x)
    <3> DEFINE y == x \ {Greatest(x)}
    <3>1. y \in A /\ Cardinality(y) <= k
      <4>1. Cardinality(y) = Cardinality(x) - 1 /\ Cardinality(x) \in Nat /\ y \in A
        BY <1>2, <2>3
      <4> HIDE DEF y
      <4> QED BY <2>3, <4>1
    <3>2. f[y] = g[y]
      <4> HIDE DEF y
      <4>1. CASE y = {}
        BY <2>1, <2>2, <4>1
      <4>2. CASE y # {}
        BY <2>1, <2>2, <3>1, <4>2
      <4> QED BY <4>1, <4>2
    <3>3. g[x] = Then(f[y], t[Greatest(x)])
      BY <2>2, <2>3
    <3> QED BY <3>2, <3>3
  <2> HIDE DEF Total, Good
  <2>4. \A x \in A : x # {} /\ Cardinality(x) <= k + 1 => Good(g, x)
    BY <2>3
  <2>5. k + 1 \in Nat /\ Total(g)
    BY <2>2
  <2> HIDE DEF A
  <2> QED BY <2>4, <2>5
<1>5. n \in P
  <2> HIDE DEF P
  <2> QED BY <1>1, <1>3, <1>4, NatInd
<1>6. PICK f : Total(f) /\ \A x \in A : x # {} => Good(f, x)
  <2> HIDE DEF Total, Good
  <2> QED BY <1>2, <1>5
<1> DEFINE Solves(fold) == fold = [x \in SUBSET DOMAIN t |->
                            IF x = {} THEN b ELSE Then(fold[x \ {Greatest(x)}], t[Greatest(x)])]
           fold == CHOOSE fold : Solves(fold)
<1>7. Solves(f)
  BY <1>1, <1>6
<1>8. Solves(fold)
  BY <1>7
<1>9. Bare(u) = fold[DOMAIN t]
  BY Zenon DEF b, t, Then, Bare, FoldLeft, MapThenFoldSet, Greatest, Max
<1> HIDE DEF fold
<1>10. /\ fold[{}] = b
       /\ \A x \in SUBSET (1 .. n) : x # {} =>
             fold[x] = Then(fold[x \ {Greatest(x)}], t[Greatest(x)])
  BY <1>1, <1>8
<1>11. \A k \in 1 .. n : fold[1 .. k] = Then(fold[1 .. k - 1], t[k])
  <2> SUFFICES ASSUME NEW k \in 1 .. n
               PROVE  fold[1 .. k] = Then(fold[1 .. k - 1], t[k])
    OBVIOUS
  <2>1. /\ 1 .. k \in SUBSET (1 .. n) /\ 1 .. k # {}
        /\ (1 .. k) \ {Greatest(1 .. k)} = 1 .. k - 1 /\ Greatest(1 .. k) = k
    BY <1>1, PrefixStep
  <2>2. fold[1 .. k] = Then(fold[(1 .. k) \ {Greatest(1 .. k)}], t[Greatest(1 .. k)])
    BY <1>10, <2>1
  <2> QED BY <2>1, <2>2
<1> QED BY <1>1, <1>9, <1>10, <1>11 DEF n, t, b, Then, Order

\* The assembler writes its symbols,
LEMMA SymbolsFold ==
    ASSUME NEW u, Len(u.defs) \in Nat, DOMAIN u.defs = 1 .. Len(u.defs)
    PROVE  \E c : /\ c[{}] = NoObject /\ Symbols(u) = c[1 .. Len(u.defs)]
                  /\ \A k \in 1 .. Len(u.defs) : c[1 .. k] = Define(u, c[1 .. k - 1], k)
<1> DEFINE n == Len(u.defs)
           t == Order(u)
           b == NoObject
           Then(q, x) == Define(u, q, x)
           A == SUBSET (1 .. n)
           Good(f, x) == f[x] = Then(f[x \ {Greatest(x)}], t[Greatest(x)])
           Total(f) == f = [x \in A |-> f[x]] /\ f[{}] = b
           P == {k \in Nat : \E f : /\ Total(f)
                                   /\ \A x \in A : x # {} /\ Cardinality(x) <= k => Good(f, x)}
<1>1. n \in Nat /\ DOMAIN t = 1 .. n
  BY DEF Order
<1> HIDE DEF n, t, b, Then
<1>2. \A x \in A : /\ Cardinality(x) \in Nat /\ Cardinality(x) <= n
                   /\ x # {} => /\ Greatest(x) \in 1 .. n /\ x \ {Greatest(x)} \in A
                                 /\ Cardinality(x \ {Greatest(x)}) = Cardinality(x) - 1
                   /\ Cardinality(x) = 0 => x = {}
  BY <1>1, PartSizes
<1>3. 0 \in P
  <2> DEFINE f == [x \in A |-> b]
  <2>1. Total(f)
    OBVIOUS
  <2>2. ASSUME NEW x \in A, x # {}
        PROVE  ~ (Cardinality(x) <= 0)
    <3>1. Cardinality(x) \in Nat /\ Cardinality(x) # 0
      BY <1>2, <2>2
    <3> QED BY <3>1
  <2> HIDE DEF f, Total, Good
  <2> QED BY <2>1, <2>2
<1>4. ASSUME NEW k \in Nat, k \in P
      PROVE  k + 1 \in P
  <2>1. PICK f : /\ Total(f)
                 /\ \A x \in A : x # {} /\ Cardinality(x) <= k => Good(f, x)
    BY <1>4
  <2> DEFINE g == [x \in A |-> IF x = {} THEN b ELSE Then(f[x \ {Greatest(x)}], t[Greatest(x)])]
  <2>2. Total(g) /\ \A x \in A : x # {} => g[x] = Then(f[x \ {Greatest(x)}], t[Greatest(x)])
    OBVIOUS
  <2> HIDE DEF g
  <2>3. ASSUME NEW x \in A, x # {}, Cardinality(x) <= k + 1
        PROVE  Good(g, x)
    <3> DEFINE y == x \ {Greatest(x)}
    <3>1. y \in A /\ Cardinality(y) <= k
      <4>1. Cardinality(y) = Cardinality(x) - 1 /\ Cardinality(x) \in Nat /\ y \in A
        BY <1>2, <2>3
      <4> HIDE DEF y
      <4> QED BY <2>3, <4>1
    <3>2. f[y] = g[y]
      <4> HIDE DEF y
      <4>1. CASE y = {}
        BY <2>1, <2>2, <4>1
      <4>2. CASE y # {}
        BY <2>1, <2>2, <3>1, <4>2
      <4> QED BY <4>1, <4>2
    <3>3. g[x] = Then(f[y], t[Greatest(x)])
      BY <2>2, <2>3
    <3> QED BY <3>2, <3>3
  <2> HIDE DEF Total, Good
  <2>4. \A x \in A : x # {} /\ Cardinality(x) <= k + 1 => Good(g, x)
    BY <2>3
  <2>5. k + 1 \in Nat /\ Total(g)
    BY <2>2
  <2> HIDE DEF A
  <2> QED BY <2>4, <2>5
<1>5. n \in P
  <2> HIDE DEF P
  <2> QED BY <1>1, <1>3, <1>4, NatInd
<1>6. PICK f : Total(f) /\ \A x \in A : x # {} => Good(f, x)
  <2> HIDE DEF Total, Good
  <2> QED BY <1>2, <1>5
<1> DEFINE Solves(fold) == fold = [x \in SUBSET DOMAIN t |->
                            IF x = {} THEN b ELSE Then(fold[x \ {Greatest(x)}], t[Greatest(x)])]
           fold == CHOOSE fold : Solves(fold)
<1>7. Solves(f)
  BY <1>1, <1>6
<1>8. Solves(fold)
  BY <1>7
<1>9. Symbols(u) = fold[DOMAIN t]
  BY Zenon DEF b, t, Then, Symbols, FoldLeft, MapThenFoldSet, Greatest, Max
<1> HIDE DEF fold
<1>10. /\ fold[{}] = b
       /\ \A x \in SUBSET (1 .. n) : x # {} =>
             fold[x] = Then(fold[x \ {Greatest(x)}], t[Greatest(x)])
  BY <1>1, <1>8
<1>11. \A k \in 1 .. n : fold[1 .. k] = Then(fold[1 .. k - 1], t[k])
  <2> SUFFICES ASSUME NEW k \in 1 .. n
               PROVE  fold[1 .. k] = Then(fold[1 .. k - 1], t[k])
    OBVIOUS
  <2>1. /\ 1 .. k \in SUBSET (1 .. n) /\ 1 .. k # {}
        /\ (1 .. k) \ {Greatest(1 .. k)} = 1 .. k - 1 /\ Greatest(1 .. k) = k
    BY <1>1, PrefixStep
  <2>2. fold[1 .. k] = Then(fold[(1 .. k) \ {Greatest(1 .. k)}], t[Greatest(1 .. k)])
    BY <1>10, <2>1
  <2> QED BY <2>1, <2>2
<1> QED BY <1>1, <1>9, <1>10, <1>11 DEF n, t, b, Then, Order

\* then its relocations.
LEMMA AssembledFold ==
    ASSUME NEW u, Len(u.defs) \in Nat, DOMAIN u.defs = 1 .. Len(u.defs)
    PROVE  \E c : /\ c[{}] = Symbols(u) /\ Assembled(u) = c[1 .. Len(u.defs)]
                  /\ \A k \in 1 .. Len(u.defs) : c[1 .. k] = Refer(u, c[1 .. k - 1], k)
<1> DEFINE n == Len(u.defs)
           t == Order(u)
           b == Symbols(u)
           Then(q, x) == Refer(u, q, x)
           A == SUBSET (1 .. n)
           Good(f, x) == f[x] = Then(f[x \ {Greatest(x)}], t[Greatest(x)])
           Total(f) == f = [x \in A |-> f[x]] /\ f[{}] = b
           P == {k \in Nat : \E f : /\ Total(f)
                                   /\ \A x \in A : x # {} /\ Cardinality(x) <= k => Good(f, x)}
<1>1. n \in Nat /\ DOMAIN t = 1 .. n
  BY DEF Order
<1> HIDE DEF n, t, b, Then
<1>2. \A x \in A : /\ Cardinality(x) \in Nat /\ Cardinality(x) <= n
                   /\ x # {} => /\ Greatest(x) \in 1 .. n /\ x \ {Greatest(x)} \in A
                                 /\ Cardinality(x \ {Greatest(x)}) = Cardinality(x) - 1
                   /\ Cardinality(x) = 0 => x = {}
  BY <1>1, PartSizes
<1>3. 0 \in P
  <2> DEFINE f == [x \in A |-> b]
  <2>1. Total(f)
    OBVIOUS
  <2>2. ASSUME NEW x \in A, x # {}
        PROVE  ~ (Cardinality(x) <= 0)
    <3>1. Cardinality(x) \in Nat /\ Cardinality(x) # 0
      BY <1>2, <2>2
    <3> QED BY <3>1
  <2> HIDE DEF f, Total, Good
  <2> QED BY <2>1, <2>2
<1>4. ASSUME NEW k \in Nat, k \in P
      PROVE  k + 1 \in P
  <2>1. PICK f : /\ Total(f)
                 /\ \A x \in A : x # {} /\ Cardinality(x) <= k => Good(f, x)
    BY <1>4
  <2> DEFINE g == [x \in A |-> IF x = {} THEN b ELSE Then(f[x \ {Greatest(x)}], t[Greatest(x)])]
  <2>2. Total(g) /\ \A x \in A : x # {} => g[x] = Then(f[x \ {Greatest(x)}], t[Greatest(x)])
    OBVIOUS
  <2> HIDE DEF g
  <2>3. ASSUME NEW x \in A, x # {}, Cardinality(x) <= k + 1
        PROVE  Good(g, x)
    <3> DEFINE y == x \ {Greatest(x)}
    <3>1. y \in A /\ Cardinality(y) <= k
      <4>1. Cardinality(y) = Cardinality(x) - 1 /\ Cardinality(x) \in Nat /\ y \in A
        BY <1>2, <2>3
      <4> HIDE DEF y
      <4> QED BY <2>3, <4>1
    <3>2. f[y] = g[y]
      <4> HIDE DEF y
      <4>1. CASE y = {}
        BY <2>1, <2>2, <4>1
      <4>2. CASE y # {}
        BY <2>1, <2>2, <3>1, <4>2
      <4> QED BY <4>1, <4>2
    <3>3. g[x] = Then(f[y], t[Greatest(x)])
      BY <2>2, <2>3
    <3> QED BY <3>2, <3>3
  <2> HIDE DEF Total, Good
  <2>4. \A x \in A : x # {} /\ Cardinality(x) <= k + 1 => Good(g, x)
    BY <2>3
  <2>5. k + 1 \in Nat /\ Total(g)
    BY <2>2
  <2> HIDE DEF A
  <2> QED BY <2>4, <2>5
<1>5. n \in P
  <2> HIDE DEF P
  <2> QED BY <1>1, <1>3, <1>4, NatInd
<1>6. PICK f : Total(f) /\ \A x \in A : x # {} => Good(f, x)
  <2> HIDE DEF Total, Good
  <2> QED BY <1>2, <1>5
<1> DEFINE Solves(fold) == fold = [x \in SUBSET DOMAIN t |->
                            IF x = {} THEN b ELSE Then(fold[x \ {Greatest(x)}], t[Greatest(x)])]
           fold == CHOOSE fold : Solves(fold)
<1>7. Solves(f)
  BY <1>1, <1>6
<1>8. Solves(fold)
  BY <1>7
<1>9. Assembled(u) = fold[DOMAIN t]
  BY Zenon DEF b, t, Then, Assembled, FoldLeft, MapThenFoldSet, Greatest, Max
<1> HIDE DEF fold
<1>10. /\ fold[{}] = b
       /\ \A x \in SUBSET (1 .. n) : x # {} =>
             fold[x] = Then(fold[x \ {Greatest(x)}], t[Greatest(x)])
  BY <1>1, <1>8
<1>11. \A k \in 1 .. n : fold[1 .. k] = Then(fold[1 .. k - 1], t[k])
  <2> SUFFICES ASSUME NEW k \in 1 .. n
               PROVE  fold[1 .. k] = Then(fold[1 .. k - 1], t[k])
    OBVIOUS
  <2>1. /\ 1 .. k \in SUBSET (1 .. n) /\ 1 .. k # {}
        /\ (1 .. k) \ {Greatest(1 .. k)} = 1 .. k - 1 /\ Greatest(1 .. k) = k
    BY <1>1, PrefixStep
  <2>2. fold[1 .. k] = Then(fold[(1 .. k) \ {Greatest(1 .. k)}], t[Greatest(1 .. k)])
    BY <1>10, <2>1
  <2> QED BY <2>1, <2>2
<1> QED BY <1>1, <1>9, <1>10, <1>11 DEF n, t, b, Then, Order

-----------------------------------------------------------------------------
(* Sequences and objects.                                                  *)

\* Of what a sequence is does not matter.
Sequence(s) == \E S : s \in Seq(S)

\* Sequences have positions 1 to their lengths, and stay sequences in a larger
\* set.
LEMMA SequenceFacts ==
    ASSUME NEW s, Sequence(s)
    PROVE  Len(s) \in Nat /\ DOMAIN s = 1 .. Len(s)
<1>1. PICK S : s \in Seq(S)
  BY DEF Sequence
<1> QED BY <1>1, LenProperties

\* What maps 1 .. n is one.
LEMMA IsSequence ==
    ASSUME NEW s, NEW n \in Nat, DOMAIN s = 1 .. n, s = [i \in DOMAIN s |-> s[i]]
    PROVE  Sequence(s)
<1> DEFINE S == {s[i] : i \in 1 .. n}
<1>1. \A i \in 1 .. n : s[i] \in S
  OBVIOUS
<1>2. s \in [1 .. n -> S]
  <2> HIDE DEF S
  <2> QED BY <1>1
<1>3. s \in Seq(S)
  <2> HIDE DEF S
  <2> QED BY <1>2, SeqDef
<1> QED BY <1>3 DEF Sequence

\* A sequence is the function of its elements.
LEMMA SequenceIsFunction ==
    ASSUME NEW s, Sequence(s)
    PROVE  s = [i \in DOMAIN s |-> s[i]]
<1>1. PICK S : s \in Seq(S)
  BY DEF Sequence
<1>2. s \in UNION {[1 .. n -> S] : n \in Nat}
  BY <1>1, SeqDef
<1> QED BY <1>2

\* Appending to one gives one that begins with it.
LEMMA AppendSequence ==
    ASSUME NEW s, Sequence(s), NEW e
    PROVE  /\ Sequence(Append(s, e)) /\ Len(Append(s, e)) = Len(s) + 1
           /\ DOMAIN Append(s, e) = 1 .. Len(s) + 1
           /\ \A i \in 1 .. Len(s) : Append(s, e)[i] = s[i]
           /\ Append(s, e)[Len(s) + 1] = e
<1>1. PICK S : s \in Seq(S)
  BY DEF Sequence
<1> DEFINE T == S \cup {e}
<1>2. s \in Seq(T) /\ e \in T
  <2>1. s \in UNION {[1 .. n -> S] : n \in Nat}
    BY <1>1, SeqDef
  <2>2. s \in UNION {[1 .. n -> T] : n \in Nat}
    <3>1. PICK n \in Nat : s \in [1 .. n -> S]
      BY <2>1
    <3>2. s \in [1 .. n -> T]
      BY <3>1
    <3> QED BY <3>2
  <2> HIDE DEF T
  <2>3. s \in Seq(T)
    BY <2>2, SeqDef
  <2> QED BY <2>3 DEF T
<1> HIDE DEF T
<1>3. /\ Append(s, e) \in Seq(T) /\ Len(Append(s, e)) = Len(s) + 1
      /\ \A i \in 1 .. Len(s) : Append(s, e)[i] = s[i]
      /\ Append(s, e)[Len(s) + 1] = e
  BY <1>2, AppendProperties
<1>4. DOMAIN Append(s, e) = 1 .. Len(Append(s, e))
  BY <1>3, LenProperties
<1> QED BY <1>3, <1>4 DEF Sequence

\* So does changing an element.
LEMMA ExceptSequence ==
    ASSUME NEW s, Sequence(s), NEW i, NEW v
    PROVE  Sequence([s EXCEPT ![i] = v])
<1> DEFINE t == [s EXCEPT ![i] = v]
<1>1. Len(s) \in Nat /\ DOMAIN s = 1 .. Len(s)
  BY SequenceFacts
<1>2. DOMAIN t = 1 .. Len(s) /\ t = [j \in DOMAIN t |-> t[j]]
  BY <1>1
<1> HIDE DEF t
<1>3. Sequence(t)
  BY <1>1, <1>2, IsSequence
<1> QED BY <1>3 DEF t

\* Two of them one after the other are one.
LEMMA ConcatSequence ==
    ASSUME NEW s, Sequence(s), NEW t, Sequence(t)
    PROVE  Sequence(s \o t)
<1>1. PICK S : s \in Seq(S)
  BY DEF Sequence
<1>2. PICK T : t \in Seq(T)
  BY DEF Sequence
<1> DEFINE U == S \cup T
<1>3. s \in Seq(U)
  <2>1. PICK n \in Nat : s \in [1 .. n -> S]
    BY <1>1, SeqDef
  <2>2. s \in [1 .. n -> U]
    BY <2>1
  <2> HIDE DEF U
  <2> QED BY <2>2, SeqDef
<1>4. t \in Seq(U)
  <2>1. PICK n \in Nat : t \in [1 .. n -> T]
    BY <1>2, SeqDef
  <2>2. t \in [1 .. n -> U]
    BY <2>1
  <2> HIDE DEF U
  <2> QED BY <2>2, SeqDef
<1> HIDE DEF U
<1>5. s \o t \in Seq(U)
  BY <1>3, <1>4, ConcatProperties
<1> QED BY <1>5 DEF Sequence

\* The greatest of natural numbers that have a bound.
LEMMA MaxOfBounded ==
    ASSUME NEW S \in SUBSET Nat, S # {}, NEW b \in Nat, \A x \in S : x <= b
    PROVE  Max(S) \in S /\ \A x \in S : x <= Max(S)
<1> DEFINE T == {b - x : x \in S}
<1>1. \A x \in S : x \in Nat /\ b - x \in Nat
  OBVIOUS
<1>2. T \subseteq Nat /\ T # {}
  BY <1>1
<1>3. PICK m \in T : \A k \in T : m <= k
  <2> HIDE DEF T
  <2> QED BY <1>2, LeastNat
<1>4. PICK x \in S : m = b - x
  OBVIOUS
<1>5. \A y \in S : b - x <= b - y
  BY <1>3, <1>4
<1>6. \A y \in S : x >= y
  BY <1>1, <1>5
<1>7. Max(S) \in S /\ \A y \in S : Max(S) >= y
  BY <1>6 DEF Max
<1> QED BY <1>1, <1>7

\* Finitely many natural numbers have a bound.
LEMMA Bounded ==
    ASSUME NEW n \in Nat, NEW g, \A i \in 1 .. n : g[i] \in Nat
    PROVE  \E b \in Nat : \A i \in 1 .. n : g[i] <= b
<1> DEFINE P == {k \in Nat : k <= n => \E b \in Nat : \A i \in 1 .. k : g[i] <= b}
<1>1. 0 \in P
  <2>1. 1 .. 0 = {}
    OBVIOUS
  <2> QED BY <2>1
<1>2. ASSUME NEW k \in Nat, k \in P
      PROVE  k + 1 \in P
  <2> SUFFICES ASSUME k + 1 <= n
               PROVE  \E b \in Nat : \A i \in 1 .. k + 1 : g[i] <= b
    OBVIOUS
  <2>1. PICK b \in Nat : \A i \in 1 .. k : g[i] <= b
    BY <1>2
  <2>2. g[k + 1] \in Nat
    OBVIOUS
  <2>3. b + g[k + 1] \in Nat /\ \A i \in 1 .. k + 1 : g[i] <= b + g[k + 1]
    <3>1. ASSUME NEW i \in 1 .. k + 1
          PROVE  g[i] <= b + g[k + 1]
      <4>1. i \in 1 .. k \/ i = k + 1
        OBVIOUS
      <4>2. g[i] \in Nat
        OBVIOUS
      <4> QED BY <2>1, <2>2, <4>1, <4>2
    <3> QED BY <2>2, <3>1
  <2> QED BY <2>3
<1> HIDE DEF P
<1>3. n \in P
  BY <1>1, <1>2, NatInd
<1> QED BY <1>3 DEF P

\* An object in the making of which k definitions are there: symbols and the
\* bits of sections are sequences, and every definition has its place.
Begun(o, k) ==
    /\ {"syms", "bits", "bss", "starts"} \subseteq DOMAIN o
    /\ Sequence(o.syms)
    /\ DOMAIN o.bits = {"cs", "ds"} /\ Sequence(o.bits["cs"]) /\ Sequence(o.bits["ds"])
    /\ o.bss \in Nat
    /\ Sequence(o.starts) /\ Len(o.starts) = k
    /\ \A i \in 1 .. k : o.starts[i].off \in Nat

\* put_sym keeps it,
LEMMA PutSymKeeps ==
    ASSUME NEW syms, Sequence(syms), NEW name
    PROVE  Sequence(PutSym(syms, name))
BY AppendSequence DEF PutSym

\* and so does a definition,
LEMMA DefineKeeps ==
    ASSUME NEW k \in Nat, NEW o, Begun(o, k), NEW u, NEW d, u.defs[d] \in Definition
    PROVE  Begun(Define(u, o, d), k + 1)
<1> DEFINE def  == u.defs[d]
           syms == PutSym(o.syms, def.name)
           more == IF def.sec = "cs" THEN 0 ELSE Padding(def.len, AlignUnit(u))
           at   == Start(o, def.sec)
           sym  == [name |-> def.name, glob |-> def.glob, sec |-> def.sec, val |-> at]
           new  == [syms EXCEPT ![SymAt(syms, def.name)] = sym]
           plus == BitsFor(u, d) \o Blank(more)
           q    == Define(u, o, d)
<1>1. def.len \in Nat /\ def.sec \in {"cs", "ds", "bss"}
  BY DEF Definition
<1>2. SIZE_B \in Nat \ {0}
  BY IsaAssumption
<1>3. more \in Nat
  <2>1. AlignUnit(u) \in Nat \ {0}
    BY NldAssumption DEF AlignUnit
  <2> HIDE DEF def
  <2>2. Padding(def.len, AlignUnit(u)) \in Nat
    BY <1>1, <2>1 DEF Padding
  <2> QED BY <2>2
<1>4. at \in Nat
  <2>1. o.bss \in Nat
    BY DEF Begun
  <2>2. def.sec # "bss" => Len(o.bits[def.sec]) \in Nat
    BY <1>1, SequenceFacts DEF Begun
  <2>3. \A l \in Nat : l \div SIZE_B \in Nat
    BY <1>2
  <2> HIDE DEF def
  <2> QED BY <2>1, <2>2, <2>3 DEF Start
<1>5. Sequence(o.syms) /\ Sequence(syms)
  BY PutSymKeeps DEF Begun
<1>6. Sequence(new)
  <2> HIDE DEF syms, sym
  <2> QED BY <1>5, ExceptSequence
<1>7. Sequence(BitsFor(u, d)) /\ Sequence(Blank(more))
  <2>1. def.len * SIZE_B \in Nat /\ more * SIZE_B \in Nat
    <3>1. \A x \in Nat : x * SIZE_B \in Nat
      BY <1>2
    <3> QED BY <1>1, <1>3, <3>1
  <2>2. /\ DOMAIN BitsFor(u, d) = 1 .. def.len * SIZE_B
        /\ BitsFor(u, d) = [i \in DOMAIN BitsFor(u, d) |-> BitsFor(u, d)[i]]
    BY DEF BitsFor
  <2> HIDE DEF more, def
  <2>3. /\ DOMAIN Blank(more) = 1 .. more * SIZE_B
        /\ Blank(more) = [i \in DOMAIN Blank(more) |-> Blank(more)[i]]
    BY DEF Blank, Lit, Zeros
  <2> QED BY <2>1, <2>2, <2>3, IsSequence
<1>8. Sequence(o.bits["cs"] \o plus) /\ Sequence(o.bits["ds"] \o plus)
  <2>1. Sequence(plus)
    <3> HIDE DEF more
    <3> QED BY <1>7, ConcatSequence
  <2> HIDE DEF plus
  <2> QED BY <2>1, ConcatSequence DEF Begun
<1>9. {"syms", "bits", "bss", "starts"} \subseteq DOMAIN o
  BY DEF Begun
<1>10. /\ DOMAIN q = DOMAIN o
       /\ q.syms = IF Exported(u, def) THEN new ELSE o.syms
       /\ q.bits = [s \in DOMAIN o.bits |-> IF s # def.sec THEN o.bits[s]
                                            ELSE o.bits[s] \o BitsFor(u, d) \o Blank(more)]
       /\ q.bss = IF def.sec = "bss" THEN o.bss + def.len + more ELSE o.bss
       /\ q.starts = Append(o.starts, [sec |-> def.sec, off |-> at])
  BY <1>9, Zenon DEF Define
<1>11. DOMAIN q.bits = {"cs", "ds"} /\ Sequence(q.bits["cs"]) /\ Sequence(q.bits["ds"])
  <2> HIDE DEF q, def, more
  <2>1. ASSUME NEW s \in {"cs", "ds"}
        PROVE  Sequence(q.bits[s])
    <3>1. q.bits[s] = IF s # def.sec THEN o.bits[s] ELSE o.bits[s] \o BitsFor(u, d) \o Blank(more)
      BY <1>10 DEF Begun
    <3>2. Sequence(o.bits[s])
      BY DEF Begun
    <3>3. Sequence(o.bits[s] \o BitsFor(u, d) \o Blank(more))
      BY <1>7, <3>2, ConcatSequence
    <3> QED BY <3>1, <3>2, <3>3
  <2> QED BY <1>10, <2>1 DEF Begun
<1>12. q.bss \in Nat
  <2>1. o.bss \in Nat
    BY DEF Begun
  <2> HIDE DEF q, def, more
  <2> QED BY <1>1, <1>3, <1>10, <2>1
<1>13. Sequence(q.starts) /\ Len(q.starts) = k + 1 /\ \A i \in 1 .. k + 1 : q.starts[i].off \in Nat
  <2> DEFINE e == [sec |-> def.sec, off |-> at]
  <2>1. e.off \in Nat
    BY <1>4
  <2>2. Sequence(o.starts) /\ Len(o.starts) = k /\ \A i \in 1 .. k : o.starts[i].off \in Nat
    BY DEF Begun
  <2> HIDE DEF e
  <2>3. /\ Sequence(Append(o.starts, e)) /\ Len(Append(o.starts, e)) = k + 1
        /\ \A i \in 1 .. k : Append(o.starts, e)[i] = o.starts[i]
        /\ Append(o.starts, e)[k + 1] = e
    BY <2>2, AppendSequence
  <2>4. q.starts = Append(o.starts, e)
    BY <1>10 DEF e
  <2> HIDE DEF q
  <2>5. \A i \in 1 .. k + 1 : i \in 1 .. k \/ i = k + 1
    OBVIOUS
  <2> QED BY <2>1, <2>2, <2>3, <2>4, <2>5
<1> HIDE DEF q, new, def
<1> QED BY <1>5, <1>6, <1>9, <1>10, <1>11, <1>12, <1>13 DEF Begun, q

\* a reference,
LEMMA RefersKeeps ==
    ASSUME NEW k, NEW o, Begun(o, k), NEW u, NEW d, NEW r
    PROVE  Begun(Refers(u, o, d, r), k)
<1> DEFINE syms == PutSym(o.syms, r.name)
           q    == Refers(u, o, d, r)
<1>1. Sequence(syms) /\ Sequence(o.syms) /\ {"syms", "bits", "bss", "starts"} \subseteq DOMAIN o
  BY PutSymKeeps DEF Begun
<1>2. /\ DOMAIN q = DOMAIN o /\ q.bits = o.bits /\ q.bss = o.bss /\ q.starts = o.starts
      /\ q.syms = IF r.kind # "dead" \/ u.tool = "ncc" THEN syms ELSE o.syms
  BY <1>1 DEF Refers
<1> HIDE DEF syms, q
<1> QED BY <1>1, <1>2 DEF Begun, q

\* all references of a definition,
LEMMA ReferKeeps ==
    ASSUME NEW h, NEW u, NEW o, Begun(o, h), NEW d, Len(u.defs[d].refs) \in Nat,
           DOMAIN u.defs[d].refs = 1 .. Len(u.defs[d].refs)
    PROVE  Begun(Refer(u, o, d), h)
<1> DEFINE n == Len(u.defs[d].refs)
<1>1. PICK c : /\ c[{}] = o /\ Refer(u, o, d) = c[1 .. n]
               /\ \A k \in 1 .. n : c[1 .. k] = Refers(u, c[1 .. k - 1], d, u.defs[d].refs[k])
  BY ReferFold
<1>2. n \in Nat
  OBVIOUS
<1> HIDE DEF n
<1>3. Begun(c[{}], h)
  BY <1>1
<1> DEFINE P == {k \in Nat : k <= n => Begun(c[1 .. k], h)}
<1>4. 0 \in P
  <2>1. 1 .. 0 = {}
    OBVIOUS
  <2> QED BY <1>3, <2>1
<1>5. ASSUME NEW k \in Nat, k \in P
      PROVE  k + 1 \in P
  <2> SUFFICES ASSUME k + 1 <= n
               PROVE  Begun(c[1 .. k + 1], h)
    OBVIOUS
  <2>1. k + 1 \in 1 .. n /\ (k + 1) - 1 = k /\ Begun(c[1 .. k], h)
    BY <1>5, <1>2
  <2>2. c[1 .. k + 1] = Refers(u, c[1 .. k], d, u.defs[d].refs[k + 1])
    BY <1>1, <2>1
  <2> QED BY <2>1, <2>2, RefersKeeps
<1> HIDE DEF P
<1>6. n \in P
  BY <1>4, <1>5, <1>2, NatInd
<1> QED BY <1>1, <1>2, <1>6 DEF P

\* NoObject is one.
LEMMA NoObjectBegun ==
    Begun(NoObject, 0)
<1>1. PICK e : NoObject.syms = <<e>>
  BY DEF NoObject
<1>2. Sequence(NoObject.syms)
  <2> DEFINE s == <<e>>
  <2>1. DOMAIN s = 1 .. 1 /\ s = [i \in DOMAIN s |-> s[i]]
    OBVIOUS
  <2> HIDE DEF s
  <2>2. Sequence(s)
    BY <2>1, IsSequence
  <2> QED BY <1>1, <2>2 DEF s
<1>3. Sequence(<<>>) /\ Len(<<>>) = 0 /\ 1 .. 0 = {}
  <2>1. <<>> \in Seq({}) /\ Len(<<>>) = 0
    OBVIOUS
  <2> QED BY <2>1 DEF Sequence
<1> QED BY <1>2, <1>3 DEF NoObject, Begun

\* ncc makes objects,
LEMMA BareKeeps ==
    ASSUME NEW u, Len(u.defs) \in Nat, DOMAIN u.defs = 1 .. Len(u.defs),
           \A k \in 1 .. Len(u.defs) : /\ u.defs[k] \in Definition
                                      /\ Len(u.defs[k].refs) \in Nat
                                      /\ DOMAIN u.defs[k].refs = 1 .. Len(u.defs[k].refs)
    PROVE  Begun(Bare(u), Len(u.defs))
<1> DEFINE n == Len(u.defs)
<1>1. PICK c : /\ c[{}] = NoObject /\ Bare(u) = c[1 .. n]
               /\ \A k \in 1 .. n : c[1 .. k] = Refer(u, Define(u, c[1 .. k - 1], k), k)
  BY CompiledFold
<1>2. n \in Nat
  OBVIOUS
<1> HIDE DEF n
<1>3. Begun(c[{}], 0)
  BY <1>1, NoObjectBegun
<1> DEFINE P == {k \in Nat : k <= n => Begun(c[1 .. k], k)}
<1>4. 0 \in P
  <2>1. 1 .. 0 = {}
    OBVIOUS
  <2> QED BY <1>3, <2>1
<1>5. ASSUME NEW k \in Nat, k \in P
      PROVE  k + 1 \in P
  <2> SUFFICES ASSUME k + 1 <= n
               PROVE  Begun(c[1 .. k + 1], k + 1)
    OBVIOUS
  <2>1. k + 1 \in 1 .. n /\ (k + 1) - 1 = k /\ Begun(c[1 .. k], k)
    BY <1>5, <1>2
  <2>2. c[1 .. k + 1] = Refer(u, Define(u, c[1 .. k], k + 1), k + 1)
    BY <1>1, <2>1
  <2>3. Begun(Define(u, c[1 .. k], k + 1), k + 1)
    <3>1. u.defs[k + 1] \in Definition
      BY <2>1 DEF n
    <3> QED BY <2>1, <3>1, DefineKeeps
  <2>4. Len(u.defs[k + 1].refs) \in Nat /\ DOMAIN u.defs[k + 1].refs = 1 .. Len(u.defs[k + 1].refs)
    BY <2>1 DEF n
  <2> QED BY <2>2, <2>3, <2>4, ReferKeeps
<1> HIDE DEF P
<1>6. n \in P
  BY <1>4, <1>5, <1>2, NatInd
<1> QED BY <1>1, <1>2, <1>6 DEF P, n

\* the assembler makes them of symbols
LEMMA SymbolsKeep ==
    ASSUME NEW u, Len(u.defs) \in Nat, DOMAIN u.defs = 1 .. Len(u.defs),
           \A k \in 1 .. Len(u.defs) : u.defs[k] \in Definition
    PROVE  Begun(Symbols(u), Len(u.defs))
<1> DEFINE n == Len(u.defs)
<1>1. PICK c : /\ c[{}] = NoObject /\ Symbols(u) = c[1 .. n]
               /\ \A k \in 1 .. n : c[1 .. k] = Define(u, c[1 .. k - 1], k)
  BY SymbolsFold
<1>2. n \in Nat
  OBVIOUS
<1> HIDE DEF n
<1>3. Begun(c[{}], 0)
  BY <1>1, NoObjectBegun
<1> DEFINE P == {k \in Nat : k <= n => Begun(c[1 .. k], k)}
<1>4. 0 \in P
  <2>1. 1 .. 0 = {}
    OBVIOUS
  <2> QED BY <1>3, <2>1
<1>5. ASSUME NEW k \in Nat, k \in P
      PROVE  k + 1 \in P
  <2> SUFFICES ASSUME k + 1 <= n
               PROVE  Begun(c[1 .. k + 1], k + 1)
    OBVIOUS
  <2>1. k + 1 \in 1 .. n /\ (k + 1) - 1 = k /\ Begun(c[1 .. k], k)
    BY <1>5, <1>2
  <2>2. c[1 .. k + 1] = Define(u, c[1 .. k], k + 1)
    BY <1>1, <2>1
  <2>3. u.defs[k + 1] \in Definition
    BY <2>1 DEF n
  <2> QED BY <2>1, <2>2, <2>3, DefineKeeps
<1> HIDE DEF P
<1>6. n \in P
  BY <1>4, <1>5, <1>2, NatInd
<1> QED BY <1>1, <1>2, <1>6 DEF P, n

\* and relocations.
LEMMA AssembledKeeps ==
    ASSUME NEW u, Len(u.defs) \in Nat, DOMAIN u.defs = 1 .. Len(u.defs),
           \A k \in 1 .. Len(u.defs) : /\ u.defs[k] \in Definition
                                      /\ Len(u.defs[k].refs) \in Nat
                                      /\ DOMAIN u.defs[k].refs = 1 .. Len(u.defs[k].refs)
    PROVE  Begun(Assembled(u), Len(u.defs))
<1> DEFINE n == Len(u.defs)
<1>1. PICK c : /\ c[{}] = Symbols(u) /\ Assembled(u) = c[1 .. n]
               /\ \A k \in 1 .. n : c[1 .. k] = Refer(u, c[1 .. k - 1], k)
  BY AssembledFold
<1>2. n \in Nat
  OBVIOUS
<1> HIDE DEF n
<1>3. Begun(c[{}], n)
  BY <1>1, SymbolsKeep DEF n
<1> DEFINE P == {k \in Nat : k <= n => Begun(c[1 .. k], n)}
<1>4. 0 \in P
  <2>1. 1 .. 0 = {}
    OBVIOUS
  <2> QED BY <1>3, <2>1
<1>5. ASSUME NEW k \in Nat, k \in P
      PROVE  k + 1 \in P
  <2> SUFFICES ASSUME k + 1 <= n
               PROVE  Begun(c[1 .. k + 1], n)
    OBVIOUS
  <2>1. k + 1 \in 1 .. n /\ (k + 1) - 1 = k /\ Begun(c[1 .. k], n)
    BY <1>5, <1>2
  <2>2. c[1 .. k + 1] = Refer(u, c[1 .. k], k + 1)
    BY <1>1, <2>1
  <2>3. Len(u.defs[k + 1].refs) \in Nat /\ DOMAIN u.defs[k + 1].refs = 1 .. Len(u.defs[k + 1].refs)
    BY <2>1 DEF n
  <2>4. Begun(Refer(u, c[1 .. k], k + 1), n)
    BY <2>1, <2>3, ReferKeeps
  <2> QED BY <2>2, <2>4
<1> HIDE DEF P
<1>6. n \in P
  BY <1>4, <1>5, <1>2, NatInd
<1> QED BY <1>1, <1>2, <1>6 DEF P, n

\* syms_sort changes the order of symbols only.
LEMMA SortedKeeps ==
    ASSUME NEW k, NEW o, Begun(o, k)
    PROVE  Begun(Sorted(o), k)
<1> DEFINE mv == Moved(o.syms)
           t  == [i \in DOMAIN o.syms |-> o.syms[mv[i]]]
           q  == Sorted(o)
<1>1. Sequence(o.syms) /\ {"syms", "bits", "bss", "starts"} \subseteq DOMAIN o
  BY DEF Begun
<1>2. Len(o.syms) \in Nat /\ DOMAIN o.syms = 1 .. Len(o.syms)
  BY <1>1, SequenceFacts
<1>3. DOMAIN t = 1 .. Len(o.syms) /\ t = [i \in DOMAIN t |-> t[i]]
  BY <1>2
<1>4. DOMAIN q = DOMAIN o /\ q.syms = t /\ q.bits = o.bits /\ q.bss = o.bss /\ q.starts = o.starts
  BY <1>1 DEF Sorted
<1> HIDE DEF t, q
<1>5. Sequence(t)
  BY <1>2, <1>3, IsSequence
<1> QED BY <1>1, <1>4, <1>5 DEF Begun, q

\* The end of uninitialized data.
LEMMA BssLenIsNat ==
    ASSUME NEW u, Len(u.defs) \in Nat, DOMAIN u.defs = 1 .. Len(u.defs),
           \A k \in 1 .. Len(u.defs) : u.defs[k] \in Definition,
           NEW o, Begun(o, Len(u.defs))
    PROVE  BssLen(u, o) \in Nat
<1> DEFINE n == Len(u.defs)
           g == [i \in 1 .. n |-> o.starts[i].off + u.defs[i].len]
           D == {i \in DOMAIN u.defs : u.defs[i].sec = "bss"}
           S == {0} \cup {o.starts[i].off + u.defs[i].len : i \in D}
<1>1. \A i \in 1 .. n : g[i] \in Nat
  BY DEF Begun, Definition
<1>2. S = {0} \cup {g[i] : i \in D} /\ D \subseteq 1 .. n
  OBVIOUS
<1>3. n \in Nat
  OBVIOUS
<1> HIDE DEF g, S, D, n
<1>4. PICK b \in Nat : \A i \in 1 .. n : g[i] <= b
  BY <1>1, <1>3, Bounded
<1>5. S \in SUBSET Nat /\ S # {} /\ \A x \in S : x <= b
  BY <1>1, <1>2, <1>4
<1>6. Max(S) \in S
  BY <1>5, MaxOfBounded
<1> QED BY <1>5, <1>6 DEF BssLen, S, D

\* An object tells its unit; its symbols and sections are as the linker
\* expects them.
Shaped(o) ==
    /\ {"unit", "syms", "bits", "bss", "align", "secs"} \subseteq DOMAIN o
    /\ Sequence(o.syms)
    /\ DOMAIN o.bits = {"cs", "ds"} /\ Sequence(o.bits["cs"]) /\ Sequence(o.bits["ds"])
    /\ o.bss \in Nat /\ o.align \in Nat \ {0}

\* Every object of a unit is like that.
LEMMA ObjectOf ==
    ASSUME NEW u \in Unit
    PROVE  Shaped(Object(u)) /\ Object(u).unit = u
<1>1. Len(u.defs) \in Nat /\ DOMAIN u.defs = 1 .. Len(u.defs)
  <2>1. u.defs \in Seq(Definition)
    BY DEF Unit
  <2> QED BY <2>1, LenProperties
<1>2. ASSUME NEW k \in 1 .. Len(u.defs)
      PROVE  /\ u.defs[k] \in Definition
             /\ Len(u.defs[k].refs) \in Nat /\ DOMAIN u.defs[k].refs = 1 .. Len(u.defs[k].refs)
  <2>1. u.defs \in Seq(Definition)
    BY DEF Unit
  <2>2. u.defs[k] \in Definition
    BY <2>1, ElementOfSeq
  <2>3. u.defs[k].refs \in Seq(Reference)
    BY <2>2 DEF Definition
  <2> QED BY <2>2, <2>3, LenProperties
<1> DEFINE n == Len(u.defs)
<1>3. Begun(Bare(u), n) /\ Begun(Assembled(u), n)
  BY <1>1, <1>2, BareKeeps, AssembledKeeps
<1>4. Begun(Sorted(Bare(u)), n)
  BY <1>3, SortedKeeps
<1> DEFINE o == IF u.tool = "ncc" THEN Sorted(Bare(u)) ELSE Assembled(u)
<1>5. Begun(o, n)
  BY <1>3, <1>4
<1>6. /\ DOMAIN Object(u) = {"unit", "syms", "rels", "starts", "secs", "bits", "bss", "align"}
      /\ Object(u).unit = u /\ Object(u).syms = o.syms /\ Object(u).bits = o.bits
      /\ Object(u).bss = BssLen(u, o) /\ Object(u).align = AlignUnit(u)
  BY DEF Object
<1> HIDE DEF o
<1>7. BssLen(u, o) \in Nat
  BY <1>1, <1>2, <1>5, BssLenIsNat
<1>8. AlignUnit(u) \in Nat \ {0}
  BY NldAssumption DEF AlignUnit
<1> QED BY <1>5, <1>6, <1>7, <1>8 DEF Begun, Shaped

-----------------------------------------------------------------------------
(* The index of an archive.                                                *)

\* A name the index of an archive may have.
Listed(members, e) ==
    \E m \in DOMAIN members : \E i \in DOMAIN members[m].syms :
        /\ members[m].syms[i].glob /\ members[m].syms[i].sec # Undef
        /\ e = [name |-> members[m].syms[i].name, member |-> m]

\* Naming the symbols of a member keeps the index one of such names,
LEMMA NamedKeeps ==
    ASSUME NEW members, NEW m \in DOMAIN members, Sequence(members[m].syms),
           NEW index, Sequence(index), \A j \in DOMAIN index : Listed(members, index[j])
    PROVE  /\ Sequence(Named(index, members[m].syms, m))
           /\ \A j \in DOMAIN Named(index, members[m].syms, m) :
                 Listed(members, Named(index, members[m].syms, m)[j])
<1> DEFINE syms == members[m].syms
           n == Len(syms)
           Fine(q) == Sequence(q) /\ \A j \in DOMAIN q : Listed(members, q[j])
           New(k) == [name |-> syms[k].name, member |-> m]
           Takes(k) == syms[k].glob /\ syms[k].sec # Undef
<1>1. n \in Nat /\ DOMAIN syms = 1 .. n
  BY SequenceFacts
<1>2. \A k \in 1 .. n : Takes(k) => Listed(members, New(k))
  BY <1>1 DEF Listed
<1>3. PICK c : /\ c[{}] = index /\ Named(index, syms, m) = c[1 .. n]
               /\ \A k \in 1 .. n : c[1 .. k] = IF Takes(k) THEN Append(c[1 .. k - 1], New(k))
                                                          ELSE c[1 .. k - 1]
  BY <1>1, NamedFold
<1>4. Fine(index)
  OBVIOUS
<1>5. ASSUME NEW q, Fine(q), NEW e, Listed(members, e)
      PROVE  Fine(Append(q, e))
  <2> DEFINE t == Append(q, e)
  <2>1. /\ Sequence(t) /\ DOMAIN t = 1 .. Len(q) + 1
        /\ \A i \in 1 .. Len(q) : t[i] = q[i]
        /\ t[Len(q) + 1] = e
    BY <1>5, AppendSequence
  <2>2. Len(q) \in Nat /\ DOMAIN q = 1 .. Len(q)
    BY <1>5, SequenceFacts
  <2> HIDE DEF t
  <2>3. ASSUME NEW j \in DOMAIN t
        PROVE  Listed(members, t[j])
    <3>1. j \in 1 .. Len(q) \/ j = Len(q) + 1
      BY <2>1, <2>2
    <3>2. CASE j \in 1 .. Len(q)
      BY <1>5, <2>1, <2>2, <3>2
    <3>3. CASE j = Len(q) + 1
      BY <1>5, <2>1, <3>3
    <3> QED BY <3>1, <3>2, <3>3
  <2> QED BY <2>1, <2>3 DEF t
<1> HIDE DEF n, Fine, New, Takes, syms
<1> DEFINE P == {k \in Nat : k <= n => Fine(c[1 .. k])}
<1>6. 0 \in P
  <2>1. 1 .. 0 = {}
    OBVIOUS
  <2> QED BY <1>3, <1>4, <2>1
<1>7. ASSUME NEW k \in Nat, k \in P
      PROVE  k + 1 \in P
  <2> SUFFICES ASSUME k + 1 <= n
               PROVE  Fine(c[1 .. k + 1])
    OBVIOUS
  <2>1. k + 1 \in 1 .. n /\ (k + 1) - 1 = k /\ Fine(c[1 .. k])
    BY <1>1, <1>7
  <2>2. c[1 .. k + 1] = IF Takes(k + 1) THEN Append(c[1 .. k], New(k + 1)) ELSE c[1 .. k]
    BY <1>3, <2>1
  <2> QED BY <1>2, <1>5, <2>1, <2>2
<1> HIDE DEF P
<1>8. n \in P
  BY <1>1, <1>6, <1>7, NatInd
<1>9. Fine(Named(index, syms, m))
  BY <1>1, <1>3, <1>8 DEF P
<1> QED BY <1>9 DEF Fine, syms

\* and so the whole index is.
LEMMA IndexOf ==
    ASSUME NEW members, Len(members) \in Nat, DOMAIN members = 1 .. Len(members),
           \A m \in DOMAIN members : Sequence(members[m].syms)
    PROVE  /\ Sequence(Index(members))
           /\ \A j \in DOMAIN Index(members) : Listed(members, Index(members)[j])
<1> DEFINE n == Len(members)
           Fine(q) == Sequence(q) /\ \A j \in DOMAIN q : Listed(members, q[j])
<1>1. PICK c : /\ c[{}] = <<>> /\ Index(members) = c[1 .. n]
               /\ \A k \in 1 .. n : c[1 .. k] = Named(c[1 .. k - 1], members[k].syms, k)
  BY IndexFold
<1>2. Fine(<<>>)
  <2>1. <<>> \in Seq({}) /\ DOMAIN <<>> = {}
    OBVIOUS
  <2> QED BY <2>1 DEF Sequence
<1>3. n \in Nat /\ DOMAIN members = 1 .. n
  OBVIOUS
<1>4. ASSUME NEW q, Fine(q), NEW k \in 1 .. n
      PROVE  Fine(Named(q, members[k].syms, k))
  BY <1>3, <1>4, NamedKeeps
<1> HIDE DEF n, Fine
<1> DEFINE P == {k \in Nat : k <= n => Fine(c[1 .. k])}
<1>5. 0 \in P
  <2>1. 1 .. 0 = {}
    OBVIOUS
  <2> QED BY <1>1, <1>2, <2>1
<1>6. ASSUME NEW k \in Nat, k \in P
      PROVE  k + 1 \in P
  <2> SUFFICES ASSUME k + 1 <= n
               PROVE  Fine(c[1 .. k + 1])
    OBVIOUS
  <2>1. k + 1 \in 1 .. n /\ (k + 1) - 1 = k /\ Fine(c[1 .. k])
    BY <1>3, <1>6
  <2>2. c[1 .. k + 1] = Named(c[1 .. k], members[k + 1].syms, k + 1)
    BY <1>1, <2>1
  <2> QED BY <1>4, <2>1, <2>2
<1> HIDE DEF P
<1>7. n \in P
  BY <1>3, <1>5, <1>6, NatInd
<1>8. Fine(Index(members))
  BY <1>1, <1>3, <1>7 DEF P
<1> QED BY <1>8 DEF Fine

-----------------------------------------------------------------------------
(* The invariant.                                                          *)

\* The objects of file f of a command line.
MembersOf(l, f) == [m \in DOMAIN l.files[f].units |-> Object(l.files[f].units[m])]

\* What has been compiled are the first files.
FilesInv ==
    /\ link \in Links
    /\ Sequence(files) /\ Len(files) <= Len(link.files)
    /\ \A f \in DOMAIN files : files[f] = MembersOf(link, f)
    /\ IF st = "compile" THEN Len(files) < Len(link.files) /\ objs = <<>>
                         ELSE Len(files) = Len(link.files)

\* What is linked is of the files read so far, each unit once; relocation
\* changes bits only.
From(o, f, m) == /\ f <= arg /\ (f = arg => link.files[f].archive)
                 /\ o.unit = files[f][m].unit /\ o.syms = files[f][m].syms
ObjsInv ==
    /\ Sequence(objs)
    /\ \A n \in DOMAIN objs :
          /\ Shaped(objs[n])
          /\ \E f \in DOMAIN files : \E m \in DOMAIN files[f] : From(objs[n], f, m)
    /\ \A n, m \in DOMAIN objs : objs[n].unit = objs[m].unit => n = m

\* While a round has added nothing, what it has passed in the index is not
\* missing.
RoundInv ==
    /\ arg \in Nat \ {0} /\ entry \in Nat \ {0} /\ added \in Nat
    /\ st = "read" /\ arg <= Len(files) /\ link.files[arg].archive /\ added = 0 =>
          \A i \in DOMAIN Index(files[arg]) :
              i < entry => ~SymUndef(Index(files[arg])[i].name)

NldInv == FilesInv /\ ObjsInv /\ RoundInv

\* The files of a command line.
LEMMA FilesOf ==
    ASSUME NEW l \in Links
    PROVE  /\ Len(l.files) \in Nat \ {0} /\ DOMAIN l.files = 1 .. Len(l.files)
           /\ \A f \in DOMAIN l.files :
                 /\ l.files[f].archive \in BOOLEAN
                 /\ Len(l.files[f].units) \in Nat
                 /\ DOMAIN l.files[f].units = 1 .. Len(l.files[f].units)
                 /\ \A m \in DOMAIN l.files[f].units : l.files[f].units[m] \in Unit
<1> DEFINE File == [archive : BOOLEAN, units : Seq(Unit)]
<1>1. l.files \in Seq(File) /\ l.files # <<>>
  BY LinksAssumption
<1>2. \A f \in DOMAIN l.files : l.files[f] \in File
  <2> HIDE DEF File
  <2> QED BY <1>1, ElementOfSeq
<1>3. Len(l.files) \in Nat \ {0} /\ DOMAIN l.files = 1 .. Len(l.files)
  <2> HIDE DEF File
  <2> QED BY <1>1, LenProperties, EmptySeq
<1>4. ASSUME NEW f \in DOMAIN l.files
      PROVE  /\ l.files[f].archive \in BOOLEAN
             /\ Len(l.files[f].units) \in Nat
             /\ DOMAIN l.files[f].units = 1 .. Len(l.files[f].units)
             /\ \A m \in DOMAIN l.files[f].units : l.files[f].units[m] \in Unit
  <2>1. l.files[f].archive \in BOOLEAN /\ l.files[f].units \in Seq(Unit)
    BY <1>2
  <2> QED BY <2>1, LenProperties, ElementOfSeq
<1> QED BY <1>3, <1>4

\* Their objects.
LEMMA Members ==
    ASSUME NEW l \in Links, NEW f \in DOMAIN l.files
    PROVE  /\ Len(MembersOf(l, f)) \in Nat /\ DOMAIN MembersOf(l, f) = 1 .. Len(MembersOf(l, f))
           /\ DOMAIN MembersOf(l, f) = DOMAIN l.files[f].units
           /\ \A m \in DOMAIN MembersOf(l, f) :
                 /\ MembersOf(l, f)[m] = Object(l.files[f].units[m])
                 /\ Shaped(MembersOf(l, f)[m])
                 /\ MembersOf(l, f)[m].unit = l.files[f].units[m]
<1> DEFINE t == MembersOf(l, f)
           n == Len(l.files[f].units)
<1>1. n \in Nat /\ DOMAIN l.files[f].units = 1 .. n
  BY FilesOf
<1>2. DOMAIN t = 1 .. n /\ t = [m \in DOMAIN t |-> t[m]]
  BY <1>1 DEF MembersOf
<1>3. \A m \in DOMAIN t : t[m] = Object(l.files[f].units[m])
  BY DEF MembersOf
<1>4. ASSUME NEW m \in DOMAIN t
      PROVE  Shaped(t[m]) /\ t[m].unit = l.files[f].units[m]
  <2>1. l.files[f].units[m] \in Unit
    BY <1>1, <1>2, FilesOf
  <2> QED BY <1>3, <2>1, ObjectOf
<1> HIDE DEF t
<1>5. Len(t) \in Nat /\ DOMAIN t = 1 .. Len(t)
  <2>1. Sequence(t)
    BY <1>1, <1>2, IsSequence
  <2> QED BY <2>1, SequenceFacts
<1> QED BY <1>1, <1>2, <1>3, <1>4, <1>5 DEF t

\* The index of a file.
LEMMA IndexOfFile ==
    ASSUME FilesInv, NEW f \in DOMAIN files
    PROVE  /\ f \in DOMAIN link.files
           /\ Len(Index(files[f])) \in Nat /\ DOMAIN Index(files[f]) = 1 .. Len(Index(files[f]))
           /\ \A j \in DOMAIN Index(files[f]) : Listed(files[f], Index(files[f])[j])
<1>1. f \in DOMAIN link.files /\ link \in Links /\ files[f] = MembersOf(link, f)
  <2>1. Len(files) \in Nat /\ DOMAIN files = 1 .. Len(files) /\ Len(files) <= Len(link.files)
    BY SequenceFacts DEF FilesInv
  <2>2. link \in Links
    BY DEF FilesInv
  <2>3. Len(link.files) \in Nat /\ DOMAIN link.files = 1 .. Len(link.files)
    BY <2>2, FilesOf
  <2> QED BY <2>1, <2>2, <2>3 DEF FilesInv
<1>2. /\ Len(files[f]) \in Nat /\ DOMAIN files[f] = 1 .. Len(files[f])
      /\ \A m \in DOMAIN files[f] : Sequence(files[f][m].syms)
  BY <1>1, Members DEF Shaped
<1>3. /\ Sequence(Index(files[f]))
      /\ \A j \in DOMAIN Index(files[f]) : Listed(files[f], Index(files[f])[j])
  BY <1>2, IndexOf
<1> QED BY <1>1, <1>3, SequenceFacts

-----------------------------------------------------------------------------
(* Init and the steps.                                                     *)

\* Nothing is compiled or linked at first.
LEMMA InitNldInv == Init => NldInv
<1> SUFFICES ASSUME Init
             PROVE  NldInv
  OBVIOUS
<1>1. Sequence(<<>>) /\ Len(<<>>) = 0 /\ DOMAIN <<>> = {}
  <2>1. <<>> \in Seq({}) /\ Len(<<>>) = 0 /\ DOMAIN <<>> = {}
    OBVIOUS
  <2> QED BY <2>1 DEF Sequence
<1>2. link \in Links /\ files = <<>> /\ objs = <<>> /\ st = "compile"
      /\ arg = 1 /\ entry = 1 /\ added = 0
  BY DEF Init
<1>3. FilesInv
  <2>1. Len(link.files) \in Nat \ {0}
    BY <1>2, FilesOf
  <2> QED BY <1>1, <1>2, <2>1 DEF FilesInv
<1>4. ObjsInv
  BY <1>1, <1>2 DEF ObjsInv
<1>5. RoundInv
  BY <1>2 DEF RoundInv
<1> QED BY <1>3, <1>4, <1>5 DEF NldInv

\* A file is compiled at a time.
LEMMA CompileNldInv ==
    ASSUME NldInv, Compile
    PROVE  NldInv'
<1>1. /\ st = "compile" /\ link' = link /\ objs' = objs
      /\ arg' = arg /\ entry' = entry /\ added' = added
      /\ st' = IF Len(files) + 1 = Len(link.files) THEN "read" ELSE "compile"
      /\ files' = Append(files, MembersOf(link, Len(files) + 1))
  BY DEF Compile, reading, MembersOf
<1>2. /\ link \in Links /\ Sequence(files) /\ Len(files) < Len(link.files) /\ objs = <<>>
      /\ \A f \in DOMAIN files : files[f] = MembersOf(link, f)
  BY <1>1 DEF NldInv, FilesInv
<1>3. Len(files) \in Nat /\ DOMAIN files = 1 .. Len(files) /\ Len(link.files) \in Nat
  BY <1>2, SequenceFacts, FilesOf
<1>4. /\ Sequence(files') /\ Len(files') = Len(files) + 1
      /\ DOMAIN files' = 1 .. Len(files) + 1
      /\ \A i \in 1 .. Len(files) : files'[i] = files[i]
      /\ files'[Len(files) + 1] = MembersOf(link, Len(files) + 1)
  BY <1>1, <1>2, AppendSequence
<1>5. \A f \in DOMAIN files' : files'[f] = MembersOf(link, f)
  <2> SUFFICES ASSUME NEW f \in DOMAIN files'
               PROVE  files'[f] = MembersOf(link, f)
    OBVIOUS
  <2>1. f \in 1 .. Len(files) \/ f = Len(files) + 1
    BY <1>3, <1>4
  <2> QED BY <1>2, <1>3, <1>4, <2>1
<1>6. FilesInv'
  <2>1. Len(files') <= Len(link.files)
    BY <1>2, <1>3, <1>4
  <2>2. IF st' = "compile" THEN Len(files') < Len(link.files) /\ objs' = <<>>
                           ELSE Len(files') = Len(link.files)
    BY <1>1, <1>2, <1>3, <1>4
  <2>3. \A f \in DOMAIN files' : files'[f] = MembersOf(link', f)
    BY <1>1, <1>5
  <2> QED BY <1>1, <1>2, <1>4, <2>1, <2>2, <2>3 DEF FilesInv
<1>7. ObjsInv'
  <2>1. Sequence(<<>>) /\ DOMAIN <<>> = {}
    <3>1. <<>> \in Seq({}) /\ DOMAIN <<>> = {}
      OBVIOUS
    <3> QED BY <3>1 DEF Sequence
  <2> QED BY <1>1, <1>2, <2>1 DEF ObjsInv
<1>8. RoundInv'
  <2>1. arg \in Nat \ {0} /\ entry \in Nat \ {0} /\ added \in Nat
    BY DEF NldInv, RoundInv
  <2>2. \A name : ~SymUndef(name)'
    <3>1. DOMAIN <<>> = {}
      OBVIOUS
    <3> QED BY <1>1, <1>2, <3>1 DEF SymUndef
  <2>3. \A i : ~SymUndef(Index(files[arg])[i].name)'
    BY <1>1, <1>2 DEF SymUndef
  <2> QED BY <1>1, <2>1, <2>3 DEF RoundInv
<1> QED BY <1>6, <1>7, <1>8 DEF NldInv

\* A member of a file read, as an object.
LEMMA Member ==
    ASSUME FilesInv, NEW f \in DOMAIN files, NEW m \in DOMAIN files[f]
    PROVE  /\ f \in DOMAIN link.files /\ m \in DOMAIN link.files[f].units
           /\ files[f][m] = Object(link.files[f].units[m])
           /\ Shaped(files[f][m])
           /\ files[f][m].unit = link.files[f].units[m]
<1>1. f \in DOMAIN link.files /\ link \in Links /\ files[f] = MembersOf(link, f)
  BY IndexOfFile DEF FilesInv
<1> QED BY <1>1, Members

\* What reading a file leaves alone.
LEMMA Appended ==
    ASSUME NldInv, st # "compile", NEW f \in DOMAIN files, NEW m \in DOMAIN files[f],
           link' = link, files' = files,
           objs' = Append(objs, files[f][m]),
           \A n \in DOMAIN objs : objs[n].unit # files[f][m].unit,
           arg' \in Nat, arg <= arg', f <= arg', f = arg' => link.files[f].archive,
           arg' > arg \/ arg' = arg
    PROVE  ObjsInv'
<1> DEFINE o == files[f][m]
<1>1. Sequence(objs) /\ \A n, k \in DOMAIN objs : objs[n].unit = objs[k].unit => n = k
  BY DEF NldInv, ObjsInv
<1>2. Len(objs) \in Nat /\ DOMAIN objs = 1 .. Len(objs)
  BY <1>1, SequenceFacts
<1>3. /\ Sequence(objs') /\ DOMAIN objs' = 1 .. Len(objs) + 1
      /\ \A i \in 1 .. Len(objs) : objs'[i] = objs[i]
      /\ objs'[Len(objs) + 1] = o
  BY <1>1, AppendSequence
<1>4. DOMAIN files = 1 .. Len(files) /\ Len(files) \in Nat /\ arg \in Nat
  BY SequenceFacts DEF NldInv, FilesInv, RoundInv
<1>5. ASSUME NEW n \in DOMAIN objs'
      PROVE  /\ Shaped(objs'[n])
             /\ \E g \in DOMAIN files' : \E k \in DOMAIN files'[g] : From(objs[n], g, k)'
  <2>1. CASE n \in 1 .. Len(objs)
    <3>1. PICK g \in DOMAIN files : \E k \in DOMAIN files[g] : From(objs[n], g, k)
      BY <1>2, <2>1 DEF NldInv, ObjsInv
    <3>2. PICK k \in DOMAIN files[g] : From(objs[n], g, k)
      BY <3>1
    <3>3. /\ g <= arg /\ (g = arg => link.files[g].archive)
          /\ objs[n].unit = files[g][k].unit /\ objs[n].syms = files[g][k].syms
      BY <3>2 DEF From
    <3>4. g <= arg' /\ (g = arg' => link.files[g].archive)
      BY <1>4, <3>3
    <3>5. objs'[n] = objs[n] /\ Shaped(objs[n])
      BY <1>2, <1>3, <2>1 DEF NldInv, ObjsInv
    <3>6. From(objs[n], g, k)'
      BY <3>3, <3>4, <3>5 DEF From
    <3> QED BY <3>5, <3>6
  <2>2. CASE n = Len(objs) + 1
    <3>1. objs'[n] = files[f][m]
      BY <1>3, <2>2
    <3>2. Shaped(files[f][m])
      BY Member DEF NldInv
    <3>3. From(objs[n], f, m)'
      BY <3>1 DEF From
    <3> QED BY <3>1, <3>2, <3>3
  <2> QED BY <1>2, <1>3, <2>1, <2>2
<1>6. ASSUME NEW n \in DOMAIN objs', NEW k \in DOMAIN objs', objs'[n].unit = objs'[k].unit
      PROVE  n = k
  <2>1. (n \in DOMAIN objs \/ n = Len(objs) + 1) /\ (k \in DOMAIN objs \/ k = Len(objs) + 1)
    BY <1>2, <1>3
  <2>2. CASE n \in DOMAIN objs /\ k \in DOMAIN objs
    BY <1>1, <1>2, <1>3, <1>6, <2>2
  <2>3. CASE n \in DOMAIN objs /\ k = Len(objs) + 1
    BY <1>2, <1>3, <1>6, <2>3
  <2>4. CASE n = Len(objs) + 1 /\ k \in DOMAIN objs
    BY <1>2, <1>3, <1>6, <2>4
  <2> QED BY <2>1, <2>2, <2>3, <2>4
<1> QED BY <1>3, <1>5, <1>6 DEF ObjsInv

\* Where the reading of files stands.
LEMMA Reading ==
    ASSUME NldInv, NEW a \in BOOLEAN, Reads(a)
    PROVE  /\ st = "read" /\ arg \in DOMAIN files /\ link.files[arg].archive = a
           /\ arg \in Nat \ {0} /\ entry \in Nat \ {0} /\ added \in Nat
           /\ files' = files /\ link' = link /\ st' # "compile" => FilesInv'
<1>1. st = "read" /\ arg <= Len(files) /\ link.files[arg].archive = a
  BY DEF Reads
<1>2. arg \in Nat \ {0} /\ entry \in Nat \ {0} /\ added \in Nat
  BY DEF NldInv, RoundInv
<1>3. Len(files) \in Nat /\ DOMAIN files = 1 .. Len(files)
  BY SequenceFacts DEF NldInv, FilesInv
<1>4. arg \in DOMAIN files
  BY <1>1, <1>2, <1>3
<1>5. files' = files /\ link' = link /\ st' # "compile" => FilesInv'
  BY <1>1 DEF NldInv, FilesInv
<1> QED BY <1>1, <1>2, <1>4, <1>5

\* Going on to the next file leaves what is linked of the files read so far.
LEMMA GoneOn ==
    ASSUME NldInv, st = "read", link' = link, files' = files, objs' = objs,
           arg' = arg \/ arg' = arg + 1
    PROVE  ObjsInv'
<1>1. DOMAIN files = 1 .. Len(files) /\ Len(files) \in Nat /\ arg \in Nat
  BY SequenceFacts DEF NldInv, FilesInv, RoundInv
<1>2. ASSUME NEW n \in DOMAIN objs
      PROVE  \E g \in DOMAIN files : \E k \in DOMAIN files[g] : From(objs[n], g, k)'
  <2>1. PICK g \in DOMAIN files : \E k \in DOMAIN files[g] : From(objs[n], g, k)
    BY DEF NldInv, ObjsInv
  <2>2. PICK k \in DOMAIN files[g] : From(objs[n], g, k)
    BY <2>1
  <2>3. g <= arg' /\ (g = arg' => link.files[g].archive)
    BY <1>1, <2>2 DEF From
  <2>4. From(objs[n], g, k)'
    BY <2>2, <2>3 DEF From
  <2> QED BY <2>4
<1>3. /\ Sequence(objs) /\ \A n \in DOMAIN objs : Shaped(objs[n])
      /\ \A n, m \in DOMAIN objs : objs[n].unit = objs[m].unit => n = m
  BY DEF NldInv, ObjsInv
<1> QED BY <1>2, <1>3 DEF ObjsInv

\* An object is of a file that has not been read yet.
LEMMA AddObjectNldInv ==
    ASSUME NldInv, AddObject
    PROVE  NldInv'
<1>1. /\ Reads(FALSE) /\ Add(files[arg][1]) /\ NextFile /\ link' = link /\ files' = files
  BY DEF AddObject
<1>2. /\ st = "read" /\ arg \in DOMAIN files /\ ~link.files[arg].archive
      /\ arg \in Nat \ {0} /\ (st' # "compile" => FilesInv')
  BY <1>1, Reading
<1>3. arg' = arg + 1 /\ entry' = 1 /\ added' = 0
  BY <1>1 DEF NextFile
<1>4. st' # "compile"
  BY <1>1, <1>2 DEF Add
<1>5. RoundInv'
  <2>1. arg' \in Nat \ {0} /\ entry' \in Nat \ {0} /\ added' \in Nat
    BY <1>2, <1>3
  <2>2. \A i \in DOMAIN Index(files'[arg']) : i \in Nat \ {0}
          \/ ~(st' = "read" /\ arg' <= Len(files'))
    <3>1. CASE st' = "read" /\ arg' <= Len(files')
      <4>1. FilesInv' /\ arg' \in DOMAIN files'
        <5>1. Len(files) \in Nat /\ DOMAIN files = 1 .. Len(files)
          BY SequenceFacts DEF NldInv, FilesInv
        <5> QED BY <1>1, <1>2, <1>4, <2>1, <3>1, <5>1
      <4>2. FilesInv /\ arg' \in DOMAIN files
        BY <1>1, <4>1 DEF NldInv
      <4>3. Len(Index(files[arg'])) \in Nat
            /\ DOMAIN Index(files[arg']) = 1 .. Len(Index(files[arg']))
        BY <4>2, IndexOfFile
      <4> QED BY <1>1, <4>3
    <3> QED BY <3>1
  <2> QED BY <1>3, <2>1, <2>2 DEF RoundInv
<1>6. ObjsInv'
  <2>1. CASE Len(objs) = MAXOBJS
    <3>1. objs' = objs
      BY <1>1, <2>1 DEF Add
    <3> QED BY <1>1, <1>2, <1>3, <3>1, GoneOn
  <2>2. CASE Len(objs) # MAXOBJS
    <3>1. objs' = Append(objs, files[arg][1])
      BY <1>1, <2>2 DEF Add
    <3>2. FilesInv /\ link \in Links /\ arg \in DOMAIN link.files
      BY <1>2, IndexOfFile DEF NldInv, FilesInv
    <3>3. /\ Len(link.files[arg].units) = 1
          /\ \A g \in DOMAIN link.files : \A m \in DOMAIN link.files[g].units :
                link.files[g].units[m] = link.files[arg].units[1] => g = arg
      BY <1>2, <3>2, LinksAssumption
    <3>4. files[arg] = MembersOf(link, arg) /\ 1 \in DOMAIN files[arg]
      <4>1. files[arg] = MembersOf(link, arg)
        BY <1>2, <3>2 DEF FilesInv
      <4>2. DOMAIN link.files[arg].units = 1 .. Len(link.files[arg].units)
        BY <3>2, FilesOf
      <4>3. DOMAIN MembersOf(link, arg) = DOMAIN link.files[arg].units
        BY <3>2, Members
      <4> QED BY <3>3, <4>1, <4>2, <4>3
    <3>5. files[arg][1].unit = link.files[arg].units[1]
      BY <1>2, <3>2, <3>4, Member
    <3>6. ASSUME NEW n \in DOMAIN objs
          PROVE  objs[n].unit # files[arg][1].unit
      <4>1. PICK g \in DOMAIN files : \E k \in DOMAIN files[g] : From(objs[n], g, k)
        BY DEF NldInv, ObjsInv
      <4>2. PICK k \in DOMAIN files[g] : From(objs[n], g, k)
        BY <4>1
      <4>3. /\ g \in DOMAIN link.files /\ k \in DOMAIN link.files[g].units
            /\ files[g][k].unit = link.files[g].units[k]
        BY <3>2, Member
      <4>4. g # arg
        BY <1>2, <4>2 DEF From
      <4> QED BY <3>3, <3>5, <4>2, <4>3, <4>4 DEF From
    <3>7. arg' \in Nat /\ arg <= arg' /\ (arg = arg' => link.files[arg].archive) /\ arg' > arg
      BY <1>2, <1>3
    <3> QED BY <1>1, <1>2, <3>1, <3>4, <3>6, <3>7, Appended
  <2> QED BY <2>1, <2>2
<1> QED BY <1>2, <1>4, <1>5, <1>6 DEF NldInv

\* A member is added for a name it defines and nothing linked does, so it is
\* not linked yet; a round that adds nothing has passed one more name.
LEMMA ArLinkNldInv ==
    ASSUME NldInv, ArLink
    PROVE  NldInv'
<1> DEFINE index == Index(files[arg])
           name == index[entry].name
<1>1. /\ Reads(TRUE) /\ entry <= Len(index)
      /\ IF SymUndef(name) THEN Add(files[arg][index[entry].member]) /\ added' = added + 1
                           ELSE UNCHANGED <<objs, st, added>>
      /\ entry' = entry + 1 /\ link' = link /\ files' = files /\ arg' = arg
  BY DEF ArLink
<1>2. /\ st = "read" /\ arg \in DOMAIN files /\ link.files[arg].archive
      /\ arg \in Nat \ {0} /\ entry \in Nat \ {0} /\ added \in Nat
      /\ st' # "compile" => FilesInv'
  BY <1>1, Reading
<1>3. FilesInv /\ Len(index) \in Nat /\ DOMAIN index = 1 .. Len(index)
      /\ \A j \in DOMAIN index : Listed(files[arg], index[j])
  BY <1>2, IndexOfFile DEF NldInv
<1>4. CASE ~SymUndef(name)
  <2>1. objs' = objs /\ st' = st /\ added' = added
    BY <1>1, <1>4
  <2>2. ObjsInv'
    BY <1>1, <1>2, <2>1, GoneOn
  <2>3. \A x : SymUndef(x)' = SymUndef(x)
    BY <2>1 DEF SymUndef, Finders, Defines, Globals
  <2>4. ASSUME added' = 0, NEW i \in DOMAIN index, i < entry + 1
        PROVE  ~SymUndef(index[i].name)
    <3>1. i < entry \/ i = entry
      BY <1>2, <1>3, <2>4
    <3>2. CASE i < entry
      <4>1. arg <= Len(files)
        BY <1>1 DEF Reads
      <4> QED BY <1>2, <2>1, <2>4, <3>2, <4>1 DEF NldInv, RoundInv
    <3> QED BY <1>4, <3>1, <3>2
  <2>5. added' = 0 => \A i \in DOMAIN Index(files'[arg']) :
                         i < entry' => ~SymUndef(Index(files[arg])[i].name)'
    <3>1. Index(files'[arg']) = index
      BY <1>1
    <3>2. \A i : SymUndef(Index(files[arg])[i].name)' <=> SymUndef(index[i].name)
      BY <1>1, <2>1 DEF SymUndef, Finders, Defines, Globals
    <3> QED BY <1>1, <2>4, <3>1, <3>2
  <2>6. RoundInv'
    <3>1. arg' \in Nat \ {0} /\ entry' \in Nat \ {0} /\ added' \in Nat
      BY <1>1, <1>2, <2>1
    <3> QED BY <2>5, <3>1 DEF RoundInv
  <2> QED BY <1>2, <2>1, <2>2, <2>6 DEF NldInv
<1>5. CASE SymUndef(name)
  <2> DEFINE m == index[entry].member
             o == files[arg][m]
  <2>1. Add(o) /\ added' = added + 1
    BY <1>1, <1>5
  <2>2. st' # "compile"
    BY <1>2, <2>1 DEF Add
  <2>3. RoundInv'
    <3>1. arg' \in Nat \ {0} /\ entry' \in Nat \ {0} /\ added' \in Nat /\ added' # 0
      BY <1>1, <1>2, <2>1
    <3> QED BY <3>1 DEF RoundInv
  <2>4. entry \in DOMAIN index
    BY <1>1, <1>2, <1>3
  <2>5. /\ m \in DOMAIN files[arg]
        /\ \E i \in DOMAIN o.syms : o.syms[i].glob /\ o.syms[i].sec # Undef /\ o.syms[i].name = name
    <3>1. Listed(files[arg], index[entry])
      BY <1>3, <2>4
    <3> HIDE DEF index
    <3>2. PICK mm \in DOMAIN files[arg] :
             \E i \in DOMAIN files[arg][mm].syms :
                /\ files[arg][mm].syms[i].glob /\ files[arg][mm].syms[i].sec # Undef
                /\ index[entry] = [name |-> files[arg][mm].syms[i].name, member |-> mm]
      BY <3>1 DEF Listed
    <3>3. m = mm
      BY <3>2
    <3> QED BY <3>2, <3>3
  <2>6. ASSUME NEW n \in DOMAIN objs
        PROVE  objs[n].unit # o.unit
    <3>1. PICK g \in DOMAIN files : \E k \in DOMAIN files[g] : From(objs[n], g, k)
      BY DEF NldInv, ObjsInv
    <3>2. PICK k \in DOMAIN files[g] : From(objs[n], g, k)
      BY <3>1
    <3>3. /\ files[g][k] = Object(link.files[g].units[k])
          /\ files[g][k].unit = link.files[g].units[k]
      BY <1>3, Member
    <3>4. o = Object(link.files[arg].units[m]) /\ o.unit = link.files[arg].units[m]
      BY <1>2, <1>3, <2>5, Member
    <3> HIDE DEF o, m, name, index
    <3>5. SUFFICES ASSUME objs[n].unit = o.unit
                   PROVE  FALSE
      OBVIOUS
    <3>6. objs[n].syms = o.syms
      BY <3>2, <3>3, <3>4, <3>5 DEF From
    <3>7. Defines(objs[n], name)
      BY <2>5, <3>6 DEF Defines, Globals, o
    <3> QED BY <1>5, <3>7 DEF SymUndef, Finders
  <2>7. ObjsInv'
    <3>1. CASE Len(objs) = MAXOBJS
      <4>1. objs' = objs
        BY <2>1, <3>1 DEF Add
      <4> QED BY <1>1, <1>2, <4>1, GoneOn
    <3>2. CASE Len(objs) # MAXOBJS
      <4>1. objs' = Append(objs, o)
        BY <2>1, <3>2 DEF Add
      <4>2. arg' \in Nat /\ arg <= arg' /\ (arg = arg' => link.files[arg].archive) /\ arg' = arg
        BY <1>1, <1>2
      <4> HIDE DEF m
      <4> QED BY <1>1, <1>2, <2>5, <2>6, <4>1, <4>2, Appended
    <3> QED BY <3>1, <3>2
  <2> QED BY <1>2, <2>2, <2>3, <2>7 DEF NldInv
<1> QED BY <1>4, <1>5

\* A new round has passed nothing yet.
LEMMA ArEndNldInv ==
    ASSUME NldInv, ArEnd
    PROVE  NldInv'
<1>1. /\ Reads(TRUE) /\ st' = st /\ link' = link /\ files' = files /\ objs' = objs
      /\ entry' = 1 /\ added' = 0 /\ (arg' = arg \/ arg' = arg + 1)
  BY DEF ArEnd, NextFile
<1>2. /\ st = "read" /\ arg \in Nat \ {0} /\ (st' # "compile" => FilesInv')
  BY <1>1, Reading
<1>3. ObjsInv'
  BY <1>1, <1>2, GoneOn
<1>4. RoundInv'
  <2>1. arg' \in Nat \ {0} /\ entry' \in Nat \ {0} /\ added' \in Nat
    BY <1>1, <1>2
  <2>2. ASSUME arg' <= Len(files'), NEW i \in DOMAIN Index(files'[arg']), i < entry'
        PROVE  FALSE
    <3>1. Len(files) \in Nat /\ DOMAIN files = 1 .. Len(files)
      BY SequenceFacts DEF NldInv, FilesInv
    <3>2. FilesInv /\ arg' \in DOMAIN files
      BY <1>1, <2>1, <2>2, <3>1 DEF NldInv
    <3>3. Len(Index(files[arg'])) \in Nat
          /\ DOMAIN Index(files[arg']) = 1 .. Len(Index(files[arg']))
      BY <3>2, IndexOfFile
    <3>4. Index(files'[arg']) = Index(files[arg'])
      BY <1>1
    <3> QED BY <1>1, <2>2, <3>3, <3>4
  <2> QED BY <2>1, <2>2 DEF RoundInv
<1> QED BY <1>1, <1>2, <1>3, <1>4 DEF NldInv

\* Object q is o but for the values of bits.
Alike(o, q) ==
    /\ Shaped(q)
    /\ q.unit = o.unit /\ q.syms = o.syms /\ q.secs = o.secs /\ q.align = o.align /\ q.bss = o.bss
    /\ Len(q.bits["cs"]) = Len(o.bits["cs"]) /\ Len(q.bits["ds"]) = Len(o.bits["ds"])
AllAlike(os, qs) == /\ Sequence(qs) /\ DOMAIN qs = DOMAIN os
                    /\ \A n \in DOMAIN os : Alike(os[n], qs[n])

\* Steps behind the reading of files change the bits of objects at most.
LEMMA BehindNldInv ==
    ASSUME NldInv, st # "compile", st' \notin {"compile", "read"},
           link' = link, files' = files, arg' = arg, entry' = entry, added' = added,
           AllAlike(objs, objs')
    PROVE  NldInv'
<1>1. FilesInv'
  BY DEF NldInv, FilesInv
<1>2. /\ Sequence(objs') /\ DOMAIN objs' = DOMAIN objs
      /\ \A n \in DOMAIN objs : Shaped(objs'[n]) /\ objs'[n].unit = objs[n].unit
                                                /\ objs'[n].syms = objs[n].syms
  BY DEF AllAlike, Alike
<1>3. ObjsInv'
  <2>1. ASSUME NEW n \in DOMAIN objs
        PROVE  \E g \in DOMAIN files : \E k \in DOMAIN files[g] : From(objs[n], g, k)'
    <3>1. PICK g \in DOMAIN files : \E k \in DOMAIN files[g] : From(objs[n], g, k)
      BY DEF NldInv, ObjsInv
    <3>2. PICK k \in DOMAIN files[g] : From(objs[n], g, k)
      BY <3>1
    <3>3. From(objs[n], g, k)'
      BY <1>2, <3>2 DEF From
    <3> QED BY <3>3
  <2>2. \A n, m \in DOMAIN objs : objs[n].unit = objs[m].unit => n = m
    BY DEF NldInv, ObjsInv
  <2> QED BY <1>2, <2>1, <2>2 DEF ObjsInv
<1>4. RoundInv'
  BY DEF NldInv, RoundInv
<1> QED BY <1>1, <1>3, <1>4 DEF NldInv

\* What is alike.
LEMMA ItselfAlike ==
    ASSUME NldInv
    PROVE  AllAlike(objs, objs)
BY DEF NldInv, ObjsInv, AllAlike, Alike

\* A step of relocation changes the values of bits only.
LEMMA RelocatedAlike ==
    ASSUME NldInv, Relocate
    PROVE  AllAlike(objs, objs')
<1> DEFINE n == rel[1]
           r == objs[n].rels[rel[2]]
           b(v) == Resolved(objs[n].bits[r.sec], r.off, v)
<1>1. Sequence(objs) /\ \A k \in DOMAIN objs : Shaped(objs[k])
  BY DEF NldInv, ObjsInv
<1>2. CASE objs' = objs
  BY <1>2, ItselfAlike
<1>3. CASE \E v : objs' = [objs EXCEPT ![n].bits[r.sec] = b(v)]
  <2>1. PICK v : objs' = [objs EXCEPT ![n].bits[r.sec] = b(v)]
    BY <1>3
  <2>2. /\ DOMAIN b(v) = DOMAIN objs[n].bits[r.sec]
        /\ b(v) = [j \in DOMAIN b(v) |-> b(v)[j]]
    BY DEF Resolved
  <2> DEFINE w == b(v)
  <2> HIDE DEF n, r, b
  <2>3. DOMAIN objs' = DOMAIN objs /\ objs' = [k \in DOMAIN objs' |-> objs'[k]]
    BY <2>1
  <2>4. Len(objs) \in Nat /\ DOMAIN objs = 1 .. Len(objs)
    BY <1>1, SequenceFacts
  <2>5. Sequence(objs')
    BY <2>3, <2>4, IsSequence
  <2>6. ASSUME NEW k \in DOMAIN objs
        PROVE  Alike(objs[k], objs'[k])
    <3> DEFINE o == objs[k]
               q == objs'[k]
    <3>1. Shaped(o)
      BY <1>1
    <3>2. CASE k # n
      <4>1. q = o
        BY <2>1, <3>2
      <4> HIDE DEF o, q
      <4> QED BY <3>1, <4>1 DEF Alike, o, q
    <3>3. CASE k = n
      <4>1. q = [o EXCEPT !.bits = [@ EXCEPT ![r.sec] = w]]
        BY <2>1, <3>3
      <4>2. DOMAIN w = DOMAIN o.bits[r.sec] /\ w = [j \in DOMAIN w |-> w[j]]
        BY <2>2, <3>3
      <4> HIDE DEF o, q, w
      <4>3. /\ {"unit", "syms", "bits", "bss", "align", "secs"} \subseteq DOMAIN o
            /\ DOMAIN o.bits = {"cs", "ds"}
            /\ \A s \in {"cs", "ds"} : Sequence(o.bits[s])
        BY <3>1 DEF Shaped
      <4>4. /\ DOMAIN q = DOMAIN o
            /\ q.unit = o.unit /\ q.syms = o.syms /\ q.secs = o.secs
            /\ q.align = o.align /\ q.bss = o.bss
            /\ DOMAIN q.bits = DOMAIN o.bits
            /\ \A s \in DOMAIN o.bits : q.bits[s] = IF s = r.sec THEN w ELSE o.bits[s]
        BY <4>1, <4>3
      <4>5. ASSUME NEW s \in {"cs", "ds"}
            PROVE  Sequence(q.bits[s]) /\ Len(q.bits[s]) = Len(o.bits[s])
        <5>1. CASE s # r.sec
          BY <4>3, <4>4, <5>1
        <5>2. CASE s = r.sec
          <6>1. q.bits[s] = w
            BY <4>3, <4>4, <5>2
          <6>2. Len(o.bits[s]) \in Nat /\ DOMAIN o.bits[s] = 1 .. Len(o.bits[s])
            BY <4>3, SequenceFacts
          <6>3. DOMAIN w = 1 .. Len(o.bits[s])
            BY <4>2, <5>2, <6>2
          <6>4. Sequence(w)
            BY <4>2, <6>2, <6>3, IsSequence
          <6>5. Len(w) \in Nat /\ DOMAIN w = 1 .. Len(w)
            BY <6>4, SequenceFacts
          <6>6. Len(w) = Len(o.bits[s])
            BY <6>2, <6>3, <6>5
          <6> QED BY <6>1, <6>4, <6>6
        <5> QED BY <5>1, <5>2
      <4> QED BY <3>1, <4>3, <4>4, <4>5 DEF Alike, Shaped, o, q
    <3> QED BY <3>2, <3>3
  <2> QED BY <2>3, <2>5, <2>6 DEF AllAlike
<1>4. objs' = objs \/ \E v : objs' = [objs EXCEPT ![n].bits[r.sec] = b(v)]
  BY DEF Relocate
<1> QED BY <1>2, <1>3, <1>4

\* So it keeps the invariant.
LEMMA RelocateNldInv ==
    ASSUME NldInv, Relocate
    PROVE  NldInv'
<1>1. /\ st = "reloc" /\ st' \in {"reloc", "died"} /\ link' = link /\ files' = files
      /\ arg' = arg /\ entry' = entry /\ added' = added
  BY DEF Relocate, reading
<1> QED BY <1>1, RelocatedAlike, BehindNldInv

\* Every step keeps the invariant.
LEMMA NextNldInv ==
    ASSUME NldInv, [Next]_vars
    PROVE  NldInv'
<1>1. CASE Compile
  BY <1>1, CompileNldInv
<1>2. CASE AddObject
  BY <1>2, AddObjectNldInv
<1>3. CASE ArLink
  BY <1>3, ArLinkNldInv
<1>4. CASE ArEnd
  BY <1>4, ArEndNldInv
<1>5. CASE Relocate
  BY <1>5, RelocateNldInv
<1>6. CASE UNCHANGED vars
  BY <1>6 DEF vars, reading, NldInv, FilesInv, ObjsInv, From, RoundInv, SymUndef, Finders, Defines, Globals
<1>7. CASE LinkCs \/ LinkDs \/ LinkBss \/ NextObject \/ Write \/ LoadSegment
  <2>1. /\ st # "compile" /\ st' \notin {"compile", "read"}
        /\ link' = link /\ files' = files /\ objs' = objs
        /\ arg' = arg /\ entry' = entry /\ added' = added
    <3>1. CASE LinkCs
      BY <3>1 DEF LinkCs, LayOut, reading
    <3>2. CASE LinkDs
      BY <3>2 DEF LinkDs, LayOut, reading
    <3>3. CASE LinkBss
      BY <3>3 DEF LinkBss, LayOut, reading
    <3>4. CASE NextObject
      BY <3>4 DEF NextObject, reading
    <3>5. CASE Write
      BY <3>5 DEF Write, reading
    <3>6. CASE LoadSegment
      BY <3>6 DEF LoadSegment, reading
    <3> QED BY <1>7, <3>1, <3>2, <3>3, <3>4, <3>5, <3>6
  <2>2. AllAlike(objs, objs')
    BY <2>1, ItselfAlike
  <2> QED BY <2>1, <2>2, BehindNldInv
<1> QED BY <1>1, <1>2, <1>3, <1>4, <1>5, <1>6, <1>7 DEF Next, Rest

\* Nothing is missing when nld goes on.
LEMMA NothingMissing ==
    ASSUME NldInv, [Next]_vars
    PROVE  [arg' > arg /\ link.files[arg].archive =>
              \A i \in DOMAIN Index(files[arg]) : ~SymUndef(Index(files[arg])[i].name)]_vars
<1> SUFFICES ASSUME Next, arg' > arg, link.files[arg].archive, NEW i \in DOMAIN Index(files[arg])
             PROVE  ~SymUndef(Index(files[arg])[i].name)
  BY DEF vars, reading
<1>1. arg \in Nat
  BY DEF NldInv, RoundInv
<1>2. ~(arg' = arg)
  BY <1>1
<1>3. AddObject \/ ArEnd
  BY <1>2 DEF Next, Compile, ArLink, LinkCs, LinkDs, LinkBss, LayOut, Relocate, NextObject, Write,
              LoadSegment, Rest, vars, reading
<1>4. ArEnd
  BY <1>3 DEF AddObject, Reads
<1>5. Reads(TRUE) /\ entry > Len(Index(files[arg])) /\ ~AnotherRound
  BY <1>2, <1>4 DEF ArEnd
<1>6. /\ st = "read" /\ arg \in DOMAIN files /\ entry \in Nat /\ added \in Nat
  BY <1>5, Reading
<1>7. added = 0
  BY <1>5, <1>6 DEF AnotherRound
<1>8. Len(Index(files[arg])) \in Nat /\ DOMAIN Index(files[arg]) = 1 .. Len(Index(files[arg]))
  BY <1>6, IndexOfFile DEF NldInv
<1>9. i < entry
  BY <1>5, <1>6, <1>8
<1>10. arg <= Len(files)
  BY <1>5 DEF Reads
<1> QED BY <1>6, <1>7, <1>9, <1>10 DEF NldInv, RoundInv

\* When nld goes on behind an archive, no name is missing that a member of it
\* defines; and no unit is linked twice (outelf_archive and outelf_ar_link,
\* nld.c, lines 643 to 707).
THEOREM MembersLinkedOnce == Spec => ArchiveResolves
<1> DEFINE Once == \A n, m \in DOMAIN objs : objs[n].unit = objs[m].unit => n = m
           Going == arg' > arg /\ link.files[arg].archive =>
                       \A i \in DOMAIN Index(files[arg]) : ~SymUndef(Index(files[arg])[i].name)
<1>1. Init => NldInv
  BY InitNldInv
<1>2. NldInv /\ [Next]_vars => NldInv'
  BY NextNldInv
<1>3. NldInv => Once
  BY DEF NldInv, ObjsInv
<1>4. NldInv /\ [Next]_vars => [Going]_vars
  BY NothingMissing
<1>5. Spec => [][Going]_vars /\ []Once
  BY <1>1, <1>2, <1>3, <1>4, PTL DEF Spec
<1> QED BY <1>5 DEF ArchiveResolves

-----------------------------------------------------------------------------
(* Packing.                                                                *)

\* Packing goes through the objects.
LEMMA PackedFold ==
    ASSUME NEW os, NEW kind, NEW base, NEW len, Len(os) \in Nat, DOMAIN os = 1 .. Len(os)
    PROVE  \E c : /\ c[{}] = [len |-> len, at |-> <<>>] /\ Packed(os, kind, base, len) = c[1 .. Len(os)]
                  /\ \A k \in 1 .. Len(os) : c[1 .. k] = Pack(os, kind, base, c[1 .. k - 1], k)
<1> DEFINE n == Len(os)
           t == [m \in DOMAIN os |-> m]
           b == [len |-> len, at |-> <<>>]
           Then(q, x) == Pack(os, kind, base, q, x)
           A == SUBSET (1 .. n)
           Good(f, x) == f[x] = Then(f[x \ {Greatest(x)}], t[Greatest(x)])
           Total(f) == f = [x \in A |-> f[x]] /\ f[{}] = b
           P == {k \in Nat : \E f : /\ Total(f)
                                   /\ \A x \in A : x # {} /\ Cardinality(x) <= k => Good(f, x)}
<1>1. n \in Nat /\ DOMAIN t = 1 .. n
  OBVIOUS
<1> HIDE DEF n, t, b, Then
<1>2. \A x \in A : /\ Cardinality(x) \in Nat /\ Cardinality(x) <= n
                   /\ x # {} => /\ Greatest(x) \in 1 .. n /\ x \ {Greatest(x)} \in A
                                 /\ Cardinality(x \ {Greatest(x)}) = Cardinality(x) - 1
                   /\ Cardinality(x) = 0 => x = {}
  BY <1>1, PartSizes
<1>3. 0 \in P
  <2> DEFINE f == [x \in A |-> b]
  <2>1. Total(f)
    OBVIOUS
  <2>2. ASSUME NEW x \in A, x # {}
        PROVE  ~ (Cardinality(x) <= 0)
    <3>1. Cardinality(x) \in Nat /\ Cardinality(x) # 0
      BY <1>2, <2>2
    <3> QED BY <3>1
  <2> HIDE DEF f, Total, Good
  <2> QED BY <2>1, <2>2
<1>4. ASSUME NEW k \in Nat, k \in P
      PROVE  k + 1 \in P
  <2>1. PICK f : /\ Total(f)
                 /\ \A x \in A : x # {} /\ Cardinality(x) <= k => Good(f, x)
    BY <1>4
  <2> DEFINE g == [x \in A |-> IF x = {} THEN b ELSE Then(f[x \ {Greatest(x)}], t[Greatest(x)])]
  <2>2. Total(g) /\ \A x \in A : x # {} => g[x] = Then(f[x \ {Greatest(x)}], t[Greatest(x)])
    OBVIOUS
  <2> HIDE DEF g
  <2>3. ASSUME NEW x \in A, x # {}, Cardinality(x) <= k + 1
        PROVE  Good(g, x)
    <3> DEFINE y == x \ {Greatest(x)}
    <3>1. y \in A /\ Cardinality(y) <= k
      <4>1. Cardinality(y) = Cardinality(x) - 1 /\ Cardinality(x) \in Nat /\ y \in A
        BY <1>2, <2>3
      <4> HIDE DEF y
      <4> QED BY <2>3, <4>1
    <3>2. f[y] = g[y]
      <4> HIDE DEF y
      <4>1. CASE y = {}
        BY <2>1, <2>2, <4>1
      <4>2. CASE y # {}
        BY <2>1, <2>2, <3>1, <4>2
      <4> QED BY <4>1, <4>2
    <3>3. g[x] = Then(f[y], t[Greatest(x)])
      BY <2>2, <2>3
    <3> QED BY <3>2, <3>3
  <2> HIDE DEF Total, Good
  <2>4. \A x \in A : x # {} /\ Cardinality(x) <= k + 1 => Good(g, x)
    BY <2>3
  <2>5. k + 1 \in Nat /\ Total(g)
    BY <2>2
  <2> HIDE DEF A
  <2> QED BY <2>4, <2>5
<1>5. n \in P
  <2> HIDE DEF P
  <2> QED BY <1>1, <1>3, <1>4, NatInd
<1>6. PICK f : Total(f) /\ \A x \in A : x # {} => Good(f, x)
  <2> HIDE DEF Total, Good
  <2> QED BY <1>2, <1>5
<1> DEFINE Solves(fold) == fold = [x \in SUBSET DOMAIN t |->
                            IF x = {} THEN b ELSE Then(fold[x \ {Greatest(x)}], t[Greatest(x)])]
           fold == CHOOSE fold : Solves(fold)
<1>7. Solves(f)
  BY <1>1, <1>6
<1>8. Solves(fold)
  BY <1>7
<1>9. Packed(os, kind, base, len) = fold[DOMAIN t]
  BY Zenon DEF b, t, Then, Packed, FoldLeft, MapThenFoldSet, Greatest, Max
<1> HIDE DEF fold
<1>10. /\ fold[{}] = b
       /\ \A x \in SUBSET (1 .. n) : x # {} =>
             fold[x] = Then(fold[x \ {Greatest(x)}], t[Greatest(x)])
  BY <1>1, <1>8
<1>11. \A k \in 1 .. n : fold[1 .. k] = Then(fold[1 .. k - 1], t[k])
  <2> SUFFICES ASSUME NEW k \in 1 .. n
               PROVE  fold[1 .. k] = Then(fold[1 .. k - 1], t[k])
    OBVIOUS
  <2>1. /\ 1 .. k \in SUBSET (1 .. n) /\ 1 .. k # {}
        /\ (1 .. k) \ {Greatest(1 .. k)} = 1 .. k - 1 /\ Greatest(1 .. k) = k
    BY <1>1, PrefixStep
  <2>2. fold[1 .. k] = Then(fold[(1 .. k) \ {Greatest(1 .. k)}], t[Greatest(1 .. k)])
    BY <1>10, <2>1
  <2> QED BY <2>1, <2>2
<1> QED BY <1>1, <1>9, <1>10, <1>11 DEF n, t, b, Then

\* Rounding up goes up, less than a whole unit.
LEMMA AlignToRange ==
    ASSUME NEW x \in Int, NEW a \in Nat \ {0}
    PROVE  AlignTo(x, a) \in Int /\ x <= AlignTo(x, a) /\ AlignTo(x, a) < x + a
<1>1. (-x) % a \in 0 .. a - 1
  OBVIOUS
<1> QED BY <1>1 DEF AlignTo, Padding

\* Sections have sizes and alignments.
LEMMA SectionSizes ==
    ASSUME NEW o, Shaped(o), NEW kind \in {"cs", "ds", "bss"}
    PROVE  /\ SizeOf(o, kind) \in Nat /\ AlignOf(o, kind) \in Nat \ {0}
           /\ kind = "ds" => AlignOf(o, kind) = 1
<1>1. SIZE_B \in Nat \ {0}
  BY IsaAssumption
<1>2. kind # "bss" => Len(o.bits[kind]) \in Nat
  BY SequenceFacts DEF Shaped
<1>3. \A l \in Nat : l \div SIZE_B \in Nat
  BY <1>1
<1>4. SizeOf(o, kind) \in Nat
  BY <1>2, <1>3 DEF SizeOf, Shaped
<1>5. AlignOf(o, kind) \in Nat \ {0}
  <2>1. o.align \in Nat \ {0}
    BY DEF Shaped
  <2>2. Max({o.align, 4}) \in {o.align, 4}
    <3> DEFINE S == {o.align, 4}
    <3>1. S \in SUBSET Nat /\ S # {} /\ o.align + 4 \in Nat /\ \A x \in S : x <= o.align + 4
      BY <2>1
    <3> HIDE DEF S
    <3>2. Max(S) \in S
      BY <3>1, MaxOfBounded
    <3> QED BY <3>2 DEF S
  <2> QED BY <2>1, <2>2 DEF AlignOf
<1> QED BY <1>4, <1>5 DEF AlignOf

\* What is packed of the first k objects, from len on: sections lie behind each
\* other up to the length, the last one to its end; and data without gaps.
Tight(os, kind, len, q, k) ==
    /\ q = [len |-> q.len, at |-> q.at]
    /\ q.len \in Nat /\ len <= q.len
    /\ q.at = [n \in DOMAIN q.at |-> q.at[n]]
    /\ DOMAIN q.at = {n \in 1 .. k : kind \in os[n].secs}
    /\ \A n \in DOMAIN q.at :
          /\ q.at[n] \in Nat /\ q.at[n] + SizeOf(os[n], kind) <= q.len
          /\ (\A m \in DOMAIN q.at : m <= n) => q.at[n] + SizeOf(os[n], kind) = q.len
    /\ kind = "ds" => \/ q.len = len
                      \/ \E n \in DOMAIN q.at : /\ SizeOf(os[n], kind) > 0
                                                /\ q.at[n] + SizeOf(os[n], kind) = q.len

\* One more object is packed behind.
LEMMA PackTight ==
    ASSUME NEW os, NEW kind \in {"cs", "ds", "bss"}, NEW base \in Nat, NEW len \in Nat,
           NEW k \in Nat, \A n \in 1 .. k + 1 : Shaped(os[n]), NEW q, Tight(os, kind, len, q, k)
    PROVE  Tight(os, kind, len, Pack(os, kind, base, q, k + 1), k + 1)
<1> DEFINE n == k + 1
           o == os[n]
           at == AlignTo(base + q.len, AlignOf(o, kind)) - base
           p == Pack(os, kind, base, q, n)
           D == DOMAIN q.at
<1>1. CASE kind \notin o.secs
  <2>1. p = q
    BY <1>1 DEF Pack
  <2>2. {i \in 1 .. k + 1 : kind \in os[i].secs} = {i \in 1 .. k : kind \in os[i].secs}
    <3>1. \A i \in 1 .. k + 1 : i \in 1 .. k \/ i = k + 1
      OBVIOUS
    <3> QED BY <1>1, <3>1
  <2> HIDE DEF p
  <2>3. Tight(os, kind, len, q, k + 1)
    BY <2>2 DEF Tight
  <2> QED BY <2>1, <2>3 DEF p
<1>2. CASE kind \in o.secs
  <2>1. /\ SizeOf(o, kind) \in Nat /\ AlignOf(o, kind) \in Nat \ {0}
        /\ kind = "ds" => AlignOf(o, kind) = 1
    <3>1. Shaped(o)
      OBVIOUS
    <3> QED BY <3>1, SectionSizes
  <2>2. q.len \in Nat /\ len <= q.len
    BY DEF Tight
  <2> HIDE DEF o
  <2>3. at \in Nat /\ q.len <= at /\ (kind = "ds" => at = q.len)
    <3>1. /\ AlignTo(base + q.len, AlignOf(o, kind)) \in Int
          /\ base + q.len <= AlignTo(base + q.len, AlignOf(o, kind))
          /\ AlignTo(base + q.len, AlignOf(o, kind)) < base + q.len + AlignOf(o, kind)
      <4>1. base + q.len \in Int /\ AlignOf(o, kind) \in Nat \ {0}
        BY <2>1, <2>2
      <4> QED BY <4>1, AlignToRange
    <3> QED BY <2>1, <2>2, <3>1
  <2>4. p = [len |-> at + SizeOf(o, kind),
             at  |-> [i \in D \cup {n} |-> IF i = n THEN at ELSE q.at[i]]]
    BY <1>2 DEF Pack, o
  <2> HIDE DEF at, p
  <2>5. D = {i \in 1 .. k : kind \in os[i].secs} /\ n \notin D
    BY DEF Tight
  <2>6. /\ DOMAIN p.at = D \cup {n} /\ p.at = [i \in DOMAIN p.at |-> p.at[i]]
        /\ p.at[n] = at /\ \A i \in D : p.at[i] = q.at[i]
    <3>1. p.at = [i \in D \cup {n} |-> IF i = n THEN at ELSE q.at[i]]
      BY <2>4
    <3> HIDE DEF D, n
    <3> QED BY <2>5, <3>1
  <2>7. D \cup {n} = {i \in 1 .. k + 1 : kind \in os[i].secs}
    <3>1. \A i \in 1 .. k + 1 : i \in 1 .. k \/ i = k + 1
      OBVIOUS
    <3>2. 1 .. k \subseteq 1 .. k + 1 /\ k + 1 \in 1 .. k + 1
      OBVIOUS
    <3> QED BY <1>2, <2>5, <3>1, <3>2 DEF o
  <2>8. p.len = at + SizeOf(o, kind) /\ p = [len |-> p.len, at |-> p.at]
    BY <2>4
  <2>9. p.len \in Nat /\ q.len <= p.len /\ len <= p.len
    BY <2>1, <2>2, <2>3, <2>8
  <2>10. \A i \in D : i \in Nat /\ i < n /\ q.at[i] \in Nat /\ q.at[i] + SizeOf(os[i], kind) <= q.len
    BY <2>5 DEF Tight
  <2> HIDE DEF D
  <2>11. ASSUME NEW i \in DOMAIN p.at
         PROVE  /\ p.at[i] \in Nat /\ p.at[i] + SizeOf(os[i], kind) <= p.len
                /\ (\A m \in DOMAIN p.at : m <= i) => p.at[i] + SizeOf(os[i], kind) = p.len
    <3>1. CASE i = n
      BY <2>1, <2>3, <2>6, <2>8, <2>9, <3>1 DEF o
    <3>2. CASE i \in D
      <4>1. p.at[i] = q.at[i] /\ q.at[i] \in Nat /\ q.at[i] + SizeOf(os[i], kind) <= q.len
            /\ ~(n <= i) /\ n \in DOMAIN p.at
        BY <2>6, <2>10, <3>2
      <4>2. q.at[i] + SizeOf(os[i], kind) <= p.len
        <5>1. i \in 1 .. k
          BY <2>5, <3>2
        <5>2. SizeOf(os[i], kind) \in Nat
          <6>1. Shaped(os[i])
            BY <5>1
          <6> QED BY <6>1, SectionSizes
        <5> QED BY <2>2, <2>9, <4>1, <5>2
      <4> QED BY <4>1, <4>2
    <3> QED BY <2>6, <3>1, <3>2
  <2>12. ASSUME kind = "ds"
         PROVE  \/ p.len = len
                \/ \E i \in DOMAIN p.at : /\ SizeOf(os[i], kind) > 0
                                          /\ p.at[i] + SizeOf(os[i], kind) = p.len
    <3>1. CASE SizeOf(o, kind) > 0
      BY <2>6, <2>8, <3>1 DEF o
    <3>2. CASE SizeOf(o, kind) = 0
      <4>1. p.len = q.len
        BY <2>1, <2>2, <2>3, <2>8, <2>12, <3>2
      <4>2. CASE q.len = len
        BY <4>1, <4>2
      <4>3. CASE q.len # len
        <5>1. PICK i \in D : /\ SizeOf(os[i], kind) > 0
                             /\ q.at[i] + SizeOf(os[i], kind) = q.len
          BY <2>12, <4>3 DEF Tight, D
        <5>2. i \in DOMAIN p.at /\ p.at[i] = q.at[i]
          BY <2>6
        <5> QED BY <4>1, <5>1, <5>2
      <4> QED BY <4>2, <4>3
    <3> QED BY <2>1, <3>1, <3>2
  <2> QED BY <2>6, <2>7, <2>8, <2>9, <2>11, <2>12 DEF Tight, p
<1> QED BY <1>1, <1>2

\* So all are.
LEMMA PackedTight ==
    ASSUME NEW os, Sequence(os), \A n \in DOMAIN os : Shaped(os[n]),
           NEW kind \in {"cs", "ds", "bss"}, NEW base \in Nat, NEW len \in Nat
    PROVE  Tight(os, kind, len, Packed(os, kind, base, len), Len(os))
<1> DEFINE n == Len(os)
<1>1. n \in Nat /\ DOMAIN os = 1 .. n
  BY SequenceFacts
<1>2. PICK c : /\ c[{}] = [len |-> len, at |-> <<>>] /\ Packed(os, kind, base, len) = c[1 .. n]
               /\ \A k \in 1 .. n : c[1 .. k] = Pack(os, kind, base, c[1 .. k - 1], k)
  BY <1>1, PackedFold
<1> HIDE DEF n
<1> DEFINE P == {k \in Nat : k <= n => Tight(os, kind, len, c[1 .. k], k)}
<1>3. 0 \in P
  <2>1. 1 .. 0 = {}
    OBVIOUS
  <2> DEFINE q == c[1 .. 0]
  <2>2. q = [len |-> len, at |-> <<>>]
    BY <1>2, <2>1
  <2> HIDE DEF q
  <2>3. q.len = len /\ q.at = <<>> /\ DOMAIN <<>> = {}
    BY <2>2
  <2>4. q.at = [i \in DOMAIN q.at |-> q.at[i]]
    BY <2>3
  <2>5. Tight(os, kind, len, q, 0)
    BY <2>1, <2>2, <2>3, <2>4 DEF Tight
  <2> QED BY <2>5 DEF q
<1>4. ASSUME NEW k \in Nat, k \in P
      PROVE  k + 1 \in P
  <2> SUFFICES ASSUME k + 1 <= n
               PROVE  Tight(os, kind, len, c[1 .. k + 1], k + 1)
    OBVIOUS
  <2>1. k + 1 \in 1 .. n /\ (k + 1) - 1 = k /\ Tight(os, kind, len, c[1 .. k], k)
    BY <1>1, <1>4
  <2>2. c[1 .. k + 1] = Pack(os, kind, base, c[1 .. k], k + 1)
    BY <1>2, <2>1
  <2>3. \A i \in 1 .. k + 1 : Shaped(os[i])
    BY <1>1, <2>1
  <2> QED BY <2>1, <2>2, <2>3, PackTight
<1> HIDE DEF P
<1>5. n \in P
  BY <1>1, <1>3, <1>4, NatInd
<1> QED BY <1>1, <1>2, <1>5 DEF P, n

\* Objects that are alike are packed alike.
LEMMA PackedAlike ==
    ASSUME NEW os, Sequence(os), NEW qs, AllAlike(os, qs),
           NEW kind \in {"cs", "ds", "bss"}, NEW base, NEW len
    PROVE  Packed(qs, kind, base, len) = Packed(os, kind, base, len)
<1> DEFINE n == Len(os)
<1>1. n \in Nat /\ DOMAIN os = 1 .. n /\ Len(qs) = n /\ DOMAIN qs = 1 .. n
  <2>1. Len(os) \in Nat /\ DOMAIN os = 1 .. Len(os) /\ Len(qs) \in Nat /\ DOMAIN qs = 1 .. Len(qs)
    BY SequenceFacts DEF AllAlike
  <2>2. 1 .. Len(os) = 1 .. Len(qs)
    BY <2>1 DEF AllAlike
  <2>3. \A a, b \in Nat : 1 .. a = 1 .. b => a = b
    <3> SUFFICES ASSUME NEW a \in Nat, NEW b \in Nat, 1 .. a = 1 .. b
                 PROVE  a = b
      OBVIOUS
    <3>1. (a \in 1 .. a <=> a \in 1 .. b) /\ (b \in 1 .. a <=> b \in 1 .. b)
      OBVIOUS
    <3>2. (a >= 1 => a <= b) /\ (b >= 1 => b <= a)
      BY <3>1
    <3> QED BY <3>2
  <2> QED BY <2>1, <2>2, <2>3
<1>2. PICK c : /\ c[{}] = [len |-> len, at |-> <<>>] /\ Packed(os, kind, base, len) = c[1 .. n]
               /\ \A k \in 1 .. n : c[1 .. k] = Pack(os, kind, base, c[1 .. k - 1], k)
  <2>1. Len(os) \in Nat /\ DOMAIN os = 1 .. Len(os)
    BY <1>1
  <2>2. \E c : /\ c[{}] = [len |-> len, at |-> <<>>] /\ Packed(os, kind, base, len) = c[1 .. Len(os)]
               /\ \A k \in 1 .. Len(os) : c[1 .. k] = Pack(os, kind, base, c[1 .. k - 1], k)
    BY <2>1, PackedFold
  <2> QED BY <2>2
<1>3. PICK d : /\ d[{}] = [len |-> len, at |-> <<>>] /\ Packed(qs, kind, base, len) = d[1 .. n]
               /\ \A k \in 1 .. n : d[1 .. k] = Pack(qs, kind, base, d[1 .. k - 1], k)
  <2>1. Len(qs) \in Nat /\ DOMAIN qs = 1 .. Len(qs)
    BY <1>1
  <2>2. \E d : /\ d[{}] = [len |-> len, at |-> <<>>] /\ Packed(qs, kind, base, len) = d[1 .. Len(qs)]
               /\ \A k \in 1 .. Len(qs) : d[1 .. k] = Pack(qs, kind, base, d[1 .. k - 1], k)
    BY <2>1, PackedFold
  <2>3. Len(qs) = n
    BY <1>1
  <2> HIDE DEF n
  <2> QED BY <2>2, <2>3
<1>4. ASSUME NEW k \in 1 .. n, NEW q
      PROVE  Pack(qs, kind, base, q, k) = Pack(os, kind, base, q, k)
  <2>1. Alike(os[k], qs[k])
    BY <1>1 DEF AllAlike
  <2>2. SizeOf(qs[k], kind) = SizeOf(os[k], kind) /\ AlignOf(qs[k], kind) = AlignOf(os[k], kind)
        /\ qs[k].secs = os[k].secs
    BY <2>1 DEF Alike, SizeOf, AlignOf
  <2> QED BY <2>2 DEF Pack
<1> HIDE DEF n
<1> DEFINE P == {k \in Nat : k <= n => d[1 .. k] = c[1 .. k]}
<1>5. 0 \in P
  <2>1. 1 .. 0 = {}
    OBVIOUS
  <2> QED BY <1>2, <1>3, <2>1
<1>6. ASSUME NEW k \in Nat, k \in P
      PROVE  k + 1 \in P
  <2> SUFFICES ASSUME k + 1 <= n
               PROVE  d[1 .. k + 1] = c[1 .. k + 1]
    OBVIOUS
  <2>1. k + 1 \in 1 .. n /\ (k + 1) - 1 = k /\ d[1 .. k] = c[1 .. k]
    BY <1>1, <1>6
  <2> QED BY <1>2, <1>3, <1>4, <2>1
<1> HIDE DEF P
<1>7. n \in P
  BY <1>1, <1>5, <1>6, NatInd
<1> QED BY <1>1, <1>2, <1>3, <1>7 DEF P

-----------------------------------------------------------------------------
(* Pages.                                                                  *)

\* Division, for any integer.
LEMMA Divided ==
    ASSUME NEW x \in Int, NEW d \in Nat \ {0}
    PROVE  /\ x = d * (x \div d) + (x % d)
           /\ x \div d \in Int /\ x % d \in 0 .. d - 1
OBVIOUS

\* Rounding down and up to pages.
LEMMA PageBounds ==
    ASSUME NEW x \in Nat
    PROVE  /\ PageDown(x) \in Nat /\ PageDown(x) <= x /\ x < PageDown(x) + PageSize
           /\ PageUp(x) \in Nat /\ x <= PageUp(x) /\ PageUp(x) < x + PageSize
           /\ \E i \in Int : PageDown(x) = PageSize * i
           /\ \E i \in Int : PageUp(x) = PageSize * i
<1>1. PageSize \in Nat \ {0}
  BY IsaAssumption
<1>2. /\ x = PageSize * (x \div PageSize) + (x % PageSize)
      /\ x \div PageSize \in Int /\ x % PageSize \in 0 .. PageSize - 1
  BY <1>1, Divided
<1>3. /\ -x = PageSize * ((-x) \div PageSize) + ((-x) % PageSize)
      /\ (-x) \div PageSize \in Int /\ (-x) % PageSize \in 0 .. PageSize - 1
  <2>1. -x \in Int
    OBVIOUS
  <2> QED BY <1>1, <2>1, Divided
<1>4. PageDown(x) = PageSize * (x \div PageSize) /\ x % PageSize <= x
  <2>1. x \div PageSize \in Nat
    BY <1>1
  <2>2. PageSize * (x \div PageSize) \in Nat
    BY <1>1, <2>1
  <2> QED BY <1>1, <1>2, <2>2 DEF PageDown
<1>5. PageUp(x) = PageSize * (-((-x) \div PageSize))
  <2> DEFINE q == (-x) \div PageSize
             m == (-x) % PageSize
  <2>1. q \in Int /\ m \in Int /\ -x = PageSize * q + m
    BY <1>3
  <2>2. PageUp(x) = x + m
    BY DEF PageUp, Padding
  <2> HIDE DEF q, m
  <2>3. PageSize * (-q) = -(PageSize * q)
    BY <1>1, <2>1
  <2>4. PageSize * q \in Int
    BY <1>1, <2>1
  <2>5. PageUp(x) = PageSize * (-q)
    BY <2>1, <2>2, <2>3, <2>4
  <2> QED BY <2>5 DEF q
<1>6. -((-x) \div PageSize) \in Int
  BY <1>3
<1>7. /\ PageDown(x) \in Nat /\ PageDown(x) <= x /\ x < PageDown(x) + PageSize
  BY <1>1, <1>2, <1>4 DEF PageDown
<1>8. PageUp(x) \in Nat /\ x <= PageUp(x) /\ PageUp(x) < x + PageSize
  BY <1>1, <1>3 DEF PageUp, Padding
<1> QED BY <1>2, <1>4, <1>5, <1>6, <1>7, <1>8

\* Between whole pages there is a page at least.
LEMMA WholePages ==
    ASSUME NEW i \in Int, NEW k \in Int, PageSize * i < PageSize * k + PageSize
    PROVE  PageSize * i <= PageSize * k
<1>1. PageSize \in Nat \ {0}
  BY IsaAssumption
<1>2. CASE i <= k
  BY <1>1, <1>2
<1>3. CASE i >= k + 1
  <2>1. PageSize * i >= PageSize * (k + 1)
    BY <1>1, <1>3
  <2>2. PageSize * (k + 1) = PageSize * k + PageSize
    BY <1>1
  <2>3. PageSize * i \in Int /\ PageSize * k \in Int
    BY <1>1
  <2> QED BY <1>1, <2>1, <2>2, <2>3
<1> QED BY <1>2, <1>3

\* A segment that follows another with a page's length between them.
Follows(s, t) == s.vaddr + s.memsz + PageSize <= t.vaddr
\* They have no page in common.
LEMMA PagesApart ==
    ASSUME NEW s, NEW t, s.vaddr \in Nat, s.memsz \in Nat, t.vaddr \in Nat, Follows(s, t)
    PROVE  Pages(s) \cap Pages(t) = {}
<1> DEFINE e == s.vaddr + s.memsz
           v == t.vaddr
<1>1. PageSize \in Nat \ {0} /\ e \in Nat /\ v \in Nat /\ e + PageSize <= v
  BY IsaAssumption DEF Follows
<1> HIDE DEF e, v
<1>2. PICK i \in Int : PageUp(e) = PageSize * i
  BY <1>1, PageBounds
<1>3. PICK k \in Int : PageDown(v) = PageSize * k
  BY <1>1, PageBounds
<1>4. /\ PageUp(e) \in Nat /\ PageUp(e) < e + PageSize
      /\ PageDown(v) \in Nat /\ v < PageDown(v) + PageSize
  BY <1>1, PageBounds
<1>5. PageSize * i < PageSize * k + PageSize
  BY <1>1, <1>2, <1>3, <1>4
<1>6. PageUp(e) <= PageDown(v)
  BY <1>2, <1>3, <1>5, WholePages
<1>7. PageDown(s.vaddr) \in Nat
  BY PageBounds
<1>8. \A a \in Pages(s) : a \in Int /\ a < PageUp(e)
  BY <1>4, <1>7 DEF Pages, e
<1>9. \A a \in Pages(t) : a >= PageDown(v)
  BY <1>4 DEF Pages, v
<1> QED BY <1>4, <1>6, <1>8, <1>9

\* A segment without pages is empty and begins a page.
LEMMA NoPages ==
    ASSUME NEW s, s.vaddr \in Nat, s.memsz \in Nat, Pages(s) = {}
    PROVE  s.memsz = 0 /\ s.vaddr % PageSize = 0
<1> DEFINE e == s.vaddr + s.memsz
<1>1. e \in Nat /\ PageSize \in Nat \ {0}
  BY IsaAssumption
<1>2. /\ PageDown(s.vaddr) \in Nat /\ PageDown(s.vaddr) <= s.vaddr
      /\ PageUp(e) \in Nat /\ e <= PageUp(e)
  BY <1>1, PageBounds
<1>3. PageUp(e) <= PageDown(s.vaddr)
  <2>1. SUFFICES ASSUME PageDown(s.vaddr) < PageUp(e)
                 PROVE  FALSE
    BY <1>2
  <2>2. PageDown(s.vaddr) \in Pages(s)
    BY <1>2, <2>1 DEF Pages, e
  <2> QED BY <2>2
<1>4. s.memsz = 0 /\ PageDown(s.vaddr) = s.vaddr
  BY <1>2, <1>3 DEF e
<1>5. s.vaddr % PageSize \in Int
  BY <1>1
<1> QED BY <1>4, <1>5 DEF PageDown

-----------------------------------------------------------------------------
(* What is laid out.                                                       *)

\* Where the code begins in the file and in its segment, and what is packed.
CodeOff  == PageDown(AlignTo(HdrLen, Align))
CodeHdr  == AlignTo(HdrLen, Align) % PageSize
PackCode == Packed(objs, "cs", CodeAddr, CodeHdr)
PackData == Packed(objs, "ds", phdr[2].vaddr, 0)

\* The sections of a kind are in the file, from f on.
Placed(kind, p, f) == \A n \in DOMAIN p.at : /\ <<n, kind>> \in DOMAIN place
                                             /\ place[<<n, kind>>].faddr = f + p.at[n]

\* The code is laid out,
CodeLaid ==
    1 \in DOMAIN phdr =>
        /\ phdr[1] = [vaddr |-> CodeAddr, off |-> CodeOff, filesz |-> PackCode.len, memsz |-> PackCode.len]
        /\ CodeOff + PackCode.len <= faddr
        /\ Placed("cs", PackCode, CodeOff)
\* behind it the data, filled to words,
DataLaid ==
    2 \in DOMAIN phdr =>
        /\ phdr[2].vaddr \in Nat /\ phdr[2].off \in Nat
        /\ phdr[2].memsz = AlignTo(PackData.len, 4) /\ phdr[2].filesz = phdr[2].memsz
        /\ IF link.data = NoAddr THEN Follows(phdr[1], phdr[2]) ELSE link.data <= phdr[2].vaddr
        /\ phdr[1].off + phdr[1].filesz <= phdr[2].off
        /\ phdr[2].off + phdr[2].filesz <= faddr
        /\ Placed("ds", PackData, phdr[2].off)
\* and what is uninitialized, which is not in the file.
BssLaid ==
    3 \in DOMAIN phdr => /\ phdr[3].vaddr \in Nat /\ phdr[3].memsz \in Nat /\ phdr[3].filesz = 0
                         /\ Follows(phdr[2], phdr[3])
\* No section ends behind the next place in the file.
InsideFile ==
    \A k \in DOMAIN place : k[2] # "bss" =>
        /\ k[1] \in DOMAIN objs /\ k[2] \in {"cs", "ds"}
        /\ place[k].faddr \in Nat /\ place[k].faddr + SizeOf(objs[k[1]], k[2]) <= faddr
\* How far it is; and what is mapped are the pages of the segments loaded.
Stage ==
    /\ faddr \in Nat /\ Sequence(phdr)
    /\ st \in {"compile", "read"} => Len(phdr) = 0 /\ DOMAIN place = {}
    /\ st = "ds" => Len(phdr) = 1 /\ \A k \in DOMAIN place : k[2] = "cs"
    /\ st = "bss" => Len(phdr) = 2
    /\ st \in {"reloc", "load", "fatal", "spins"} => Len(phdr) = 3
    /\ st \in {"compile", "read", "ds", "bss", "reloc"} => seg = 1 /\ DOMAIN mem = {}
    /\ st \in {"load", "fatal", "spins"} =>
          seg \in 1 .. 3 /\ DOMAIN mem = UNION {Pages(phdr[k]) : k \in 1 .. seg - 1}

LaidInv == CodeLaid /\ DataLaid /\ BssLaid /\ InsideFile /\ Stage

\* The number of segments laid out so far.
LEMMA Headers ==
    ASSUME Stage
    PROVE  Len(phdr) \in Nat /\ DOMAIN phdr = 1 .. Len(phdr)
BY SequenceFacts DEF Stage

\* Rounding takes a positive unit.
LEMMA Units ==
    /\ Align \in Nat \ {0} /\ HdrLen \in Nat /\ CodeAddr \in Nat /\ PageSize \in Nat \ {0}
    /\ CodeOff \in Nat /\ CodeHdr \in Nat
<1>1. PageSize \in Nat \ {0}
  BY IsaAssumption
<1>2. SecAlign \in Nat \ {0} /\ HdrLen \in Nat /\ CodeAddr \in Nat
  BY NldAssumption
<1>3. Align \in Nat \ {0}
  BY <1>1, <1>2 DEF Align
<1>4. AlignTo(HdrLen, Align) \in Nat
  BY <1>2, <1>3, AlignToRange
<1>5. CodeOff \in Nat /\ CodeHdr \in Nat
  <2> DEFINE x == AlignTo(HdrLen, Align)
  <2>1. CodeOff = PageDown(x) /\ CodeHdr = x % PageSize
    BY DEF CodeOff, CodeHdr
  <2>2. x \in Nat
    BY <1>4
  <2> HIDE DEF x
  <2>3. PageDown(x) \in Nat
    BY <2>2, PageBounds
  <2>4. x % PageSize \in Nat
    BY <1>1, <2>2
  <2> QED BY <2>1, <2>3, <2>4
<1> QED BY <1>1, <1>2, <1>3, <1>5

\* The sections of a kind that are packed.
Keys(kind, p) == {<<n, kind>> : n \in DOMAIN p.at}

\* What a segment that is laid out leaves.
Laid(kind, v, f, p, fs, ms) ==
    /\ Sequence(phdr') /\ Len(phdr') = Len(phdr) + 1
    /\ DOMAIN phdr' = 1 .. Len(phdr) + 1
    /\ \A i \in 1 .. Len(phdr) : phdr'[i] = phdr[i]
    /\ phdr'[Len(phdr) + 1] = [vaddr |-> v, off |-> f, filesz |-> fs, memsz |-> ms]
    /\ DOMAIN place' = DOMAIN place \cup Keys(kind, p)
    /\ \A k \in DOMAIN place : place'[k] = place[k]
    /\ kind # "bss" => \A n \in DOMAIN p.at : <<n, kind>> \notin DOMAIN place =>
                           place'[<<n, kind>>].faddr = f + p.at[n]
    /\ link' = link /\ objs' = objs /\ seg' = seg /\ mem' = mem

\* LayOut does that.
LEMMA LaidOut ==
    ASSUME NEW kind, NEW v, NEW f, NEW p, NEW fs, NEW ms, LayOut(kind, v, f, p, fs, ms), Stage
    PROVE  Laid(kind, v, f, p, fs, ms)
<1> DEFINE N == {<<n, kind>> : n \in DOMAIN p.at}
           g == [k \in N |-> [vaddr |-> v + p.at[k[1]],
                              faddr |-> IF kind = "bss" THEN f ELSE f + p.at[k[1]]]]
<1>1. phdr' = Append(phdr, [vaddr |-> v, off |-> f, filesz |-> fs, memsz |-> ms])
  BY DEF LayOut
<1>2. /\ Sequence(phdr') /\ Len(phdr') = Len(phdr) + 1
      /\ DOMAIN phdr' = 1 .. Len(phdr) + 1
      /\ \A i \in 1 .. Len(phdr) : phdr'[i] = phdr[i]
      /\ phdr'[Len(phdr) + 1] = [vaddr |-> v, off |-> f, filesz |-> fs, memsz |-> ms]
  BY <1>1, AppendSequence DEF Stage
<1>3. place' = Joined(place, g)
  BY Zenon DEF LayOut
<1>4. DOMAIN place' = DOMAIN place \cup N /\ \A k \in DOMAIN place : place'[k] = place[k]
  <2>1. DOMAIN g = N
    OBVIOUS
  <2> HIDE DEF N, g
  <2> QED BY <1>3, <2>1 DEF Joined
<1>5. ASSUME kind # "bss", NEW n \in DOMAIN p.at, <<n, kind>> \notin DOMAIN place
      PROVE  place'[<<n, kind>>].faddr = f + p.at[n]
  <2>1. <<n, kind>> \in N /\ <<n, kind>>[1] = n
    OBVIOUS
  <2>2. g[<<n, kind>>].faddr = f + p.at[n]
    BY <1>5, <2>1
  <2>3. DOMAIN g = N
    OBVIOUS
  <2> HIDE DEF N, g
  <2>4. place'[<<n, kind>>] = g[<<n, kind>>]
    BY <1>3, <1>5, <2>1, <2>3 DEF Joined
  <2> QED BY <2>2, <2>4
<1>6. link' = link /\ objs' = objs /\ seg' = seg /\ mem' = mem
  BY DEF LayOut, loading
<1> QED BY <1>2, <1>4, <1>5, <1>6 DEF Laid, Keys

\* What is packed is in the objects.
LEMMA PackedIn ==
    ASSUME NldInv, NEW kind \in {"cs", "ds", "bss"}, NEW base \in Nat, NEW len \in Nat,
           NEW p, p = Packed(objs, kind, base, len)
    PROVE  /\ p.len \in Nat /\ len <= p.len
           /\ DOMAIN p.at = {n \in DOMAIN objs : kind \in objs[n].secs}
           /\ \A n \in DOMAIN p.at :
                 /\ SizeOf(objs[n], kind) \in Nat
                 /\ p.at[n] \in Nat /\ p.at[n] + SizeOf(objs[n], kind) <= p.len
                 /\ (\A m \in DOMAIN p.at : m <= n) => p.at[n] + SizeOf(objs[n], kind) = p.len
           /\ kind = "ds" => \/ p.len = len
                             \/ \E n \in DOMAIN p.at : /\ SizeOf(objs[n], kind) > 0
                                                       /\ p.at[n] + SizeOf(objs[n], kind) = p.len
<1>1. Sequence(objs) /\ \A n \in DOMAIN objs : Shaped(objs[n])
  BY DEF NldInv, ObjsInv
<1>2. DOMAIN objs = 1 .. Len(objs)
  BY <1>1, SequenceFacts
<1>3. Tight(objs, kind, len, p, Len(objs))
  BY <1>1, PackedTight
<1>4. \A n \in DOMAIN objs : SizeOf(objs[n], kind) \in Nat
  BY <1>1, SectionSizes
<1>5. DOMAIN p.at = {n \in DOMAIN objs : kind \in objs[n].secs}
  BY <1>2, <1>3 DEF Tight
<1> QED BY <1>3, <1>4, <1>5 DEF Tight

\* The code is laid out.
LEMMA LinkCsLaid ==
    ASSUME NldInv, LaidInv, LinkCs
    PROVE  LaidInv'
<1> DEFINE p == PackCode
<1>1. LayOut("cs", CodeAddr, CodeOff, p, p.len, p.len) /\ st = "read" /\ st' = "ds"
  BY DEF LinkCs, PackCode, CodeOff, CodeHdr
<1>2. Len(phdr) = 0 /\ DOMAIN place = {} /\ seg = 1 /\ DOMAIN mem = {} /\ Stage
  BY <1>1 DEF LaidInv, Stage
<1>3. /\ Sequence(phdr') /\ Len(phdr') = 1 /\ DOMAIN phdr' = {1}
      /\ phdr'[1] = [vaddr |-> CodeAddr, off |-> CodeOff, filesz |-> p.len, memsz |-> p.len]
      /\ DOMAIN place' = Keys("cs", p)
      /\ \A n \in DOMAIN p.at : place'[<<n, "cs">>].faddr = CodeOff + p.at[n]
      /\ link' = link /\ objs' = objs /\ seg' = seg /\ mem' = mem
  <2> HIDE DEF p
  <2>1. 1 .. 0 + 1 = {1}
    OBVIOUS
  <2>2. Laid("cs", CodeAddr, CodeOff, p, p.len, p.len)
    BY <1>1, <1>2, LaidOut
  <2>3. \A n \in DOMAIN p.at : <<n, "cs">> \notin DOMAIN place
    BY <1>2
  <2> QED BY <1>2, <2>1, <2>2, <2>3 DEF Laid
<1>4. p' = p /\ CodeOff' = CodeOff
  BY <1>3 DEF PackCode, CodeHdr, CodeOff, Align
<1>5. /\ p.len \in Nat /\ DOMAIN p.at \subseteq DOMAIN objs
      /\ \A n \in DOMAIN p.at : /\ SizeOf(objs[n], "cs") \in Nat
                                /\ p.at[n] \in Nat /\ p.at[n] + SizeOf(objs[n], "cs") <= p.len
  BY Units, PackedIn DEF PackCode
<1>6. faddr' \in Nat /\ CodeOff + p.len <= faddr'
  <2>1. faddr' = AlignTo(CodeOff + p.len, Align)
    BY <1>1 DEF LayOut
  <2>2. CodeOff + p.len \in Nat
    BY <1>5, Units
  <2> DEFINE x == CodeOff + p.len
  <2> HIDE DEF p, x
  <2>3. x \in Nat /\ faddr' = AlignTo(x, Align)
    BY <2>1, <2>2 DEF x
  <2>4. faddr' \in Int /\ x <= faddr'
    BY <2>3, Units, AlignToRange
  <2> QED BY <2>3, <2>4 DEF x
<1>7. CodeLaid'
  <2>1. Placed("cs", p, CodeOff)'
    BY <1>3, <1>4 DEF Placed, Keys
  <2> HIDE DEF p
  <2> QED BY <1>3, <1>4, <1>6, <2>1 DEF CodeLaid, p
<1>8. DataLaid' /\ BssLaid'
  BY <1>3 DEF DataLaid, BssLaid
<1>9. InsideFile'
  <2> HIDE DEF p
  <2> SUFFICES ASSUME NEW k \in DOMAIN place'
               PROVE  /\ k[1] \in DOMAIN objs /\ k[2] \in {"cs", "ds"}
                      /\ place'[k].faddr \in Nat
                      /\ place'[k].faddr + SizeOf(objs[k[1]], k[2]) <= faddr'
    BY <1>3 DEF InsideFile
  <2>1. PICK n \in DOMAIN p.at : k = <<n, "cs">>
    BY <1>3 DEF Keys
  <2>2. k[1] = n /\ k[2] = "cs" /\ place'[k].faddr = CodeOff + p.at[n]
    BY <1>3, <2>1
  <2> QED BY <1>5, <1>6, <2>2, Units
<1>10. Stage'
  <2>1. \A k \in DOMAIN place' : k[2] = "cs"
    BY <1>3 DEF Keys
  <2> QED BY <1>1, <1>2, <1>3, <1>6, <2>1 DEF Stage
<1> QED BY <1>7, <1>8, <1>9, <1>10 DEF LaidInv

\* An address that is given is one.
LEMMA DataAddress ==
    ASSUME NldInv, link.data # NoAddr
    PROVE  link.data \in Nat
<1>1. link \in Links
  BY DEF NldInv, FilesInv
<1> QED BY <1>1, NldAssumption

\* The data is laid out behind the code.
LEMMA LinkDsLaid ==
    ASSUME NldInv, LaidInv, LinkDs
    PROVE  LaidInv'
<1> DEFINE v == IF link.data # NoAddr THEN link.data + (faddr % PageSize)
                ELSE Above(CodeAddr, faddr - phdr[1].off)
           p == Packed(objs, "ds", v, 0)
           len == AlignTo(p.len, 4)
           s == [vaddr |-> v, off |-> faddr, filesz |-> len, memsz |-> len]
<1>1. LayOut("ds", v, faddr, p, len, len) /\ st = "ds" /\ st' = "bss"
  BY DEF LinkDs
<1>2. /\ Len(phdr) = 1 /\ (\A k \in DOMAIN place : k[2] = "cs") /\ seg = 1 /\ DOMAIN mem = {}
      /\ Stage /\ faddr \in Nat /\ DOMAIN phdr = 1 .. 1
  BY <1>1, Headers DEF LaidInv, Stage
<1>3. /\ phdr[1] = [vaddr |-> CodeAddr, off |-> CodeOff, filesz |-> PackCode.len, memsz |-> PackCode.len]
      /\ CodeOff + PackCode.len <= faddr
      /\ Placed("cs", PackCode, CodeOff)
  BY <1>2 DEF LaidInv, CodeLaid
<1>4. PackCode.len \in Nat
  BY Units, PackedIn DEF PackCode
<1>5. /\ v \in Nat
      /\ IF link.data = NoAddr THEN CodeAddr + PackCode.len + PageSize <= v ELSE link.data <= v
  <2>1. CASE link.data = NoAddr
    <3>1. v = CodeAddr + PageSize + (faddr - CodeOff)
      BY <1>3, <2>1 DEF Above
    <3> HIDE DEF v
    <3> QED BY <1>2, <1>3, <1>4, <2>1, <3>1, Units
  <2>2. CASE link.data # NoAddr
    <3>1. v = link.data + (faddr % PageSize)
      BY <2>2
    <3>2. faddr % PageSize \in Nat
      BY <1>2, Units
    <3> HIDE DEF v
    <3> QED BY <2>2, <3>1, <3>2, DataAddress
  <2> QED BY <2>1, <2>2
<1> HIDE DEF v
<1>6. /\ p.len \in Nat /\ DOMAIN p.at \subseteq DOMAIN objs
      /\ \A n \in DOMAIN p.at : /\ SizeOf(objs[n], "ds") \in Nat
                                /\ p.at[n] \in Nat /\ p.at[n] + SizeOf(objs[n], "ds") <= p.len
  BY <1>5, PackedIn
<1> HIDE DEF p
<1>7. len \in Nat /\ p.len <= len
  <2>1. len \in Int /\ p.len <= len
    BY <1>6, AlignToRange
  <2> HIDE DEF len
  <2> QED BY <1>6, <2>1
<1> HIDE DEF len
<1>8. /\ Sequence(phdr') /\ Len(phdr') = 2 /\ DOMAIN phdr' = 1 .. 2
      /\ phdr'[1] = phdr[1] /\ phdr'[2] = s
      /\ DOMAIN place' = DOMAIN place \cup Keys("ds", p)
      /\ \A k \in DOMAIN place : place'[k] = place[k]
      /\ \A n \in DOMAIN p.at : place'[<<n, "ds">>].faddr = faddr + p.at[n]
      /\ link' = link /\ objs' = objs /\ seg' = seg /\ mem' = mem
  <2>1. Laid("ds", v, faddr, p, len, len)
    BY <1>1, <1>2, LaidOut
  <2>2. \A n \in DOMAIN p.at : <<n, "ds">> \notin DOMAIN place
    BY <1>2
  <2>3. 1 \in 1 .. 1
    OBVIOUS
  <2> QED BY <1>2, <2>1, <2>2, <2>3 DEF Laid
<1>9. PackData' = p /\ PackCode' = PackCode /\ CodeOff' = CodeOff
  <2>1. PackData' = Packed(objs, "ds", phdr'[2].vaddr, 0)
    BY <1>8 DEF PackData
  <2>2. PackCode' = PackCode /\ CodeOff' = CodeOff
    BY <1>8 DEF PackCode, CodeHdr, CodeOff, Align
  <2>3. phdr'[2].vaddr = v
    BY <1>8
  <2> QED BY <2>1, <2>2, <2>3 DEF p
<1>10. faddr' \in Nat /\ faddr + len <= faddr'
  <2>1. faddr' = AlignTo(faddr + len, Align)
    BY <1>1 DEF LayOut
  <2> DEFINE x == faddr + len
  <2>2. x \in Nat
    BY <1>2, <1>7
  <2> HIDE DEF x
  <2>3. faddr' = AlignTo(x, Align)
    BY <2>1 DEF x
  <2>4. faddr' \in Int /\ x <= faddr'
    BY <2>2, <2>3, Units, AlignToRange
  <2> QED BY <2>2, <2>4 DEF x
<1>11. CodeLaid'
  <2>1. Placed("cs", PackCode, CodeOff)'
    BY <1>3, <1>8, <1>9 DEF Placed
  <2>2. CodeOff + PackCode.len <= faddr'
    BY <1>2, <1>3, <1>4, <1>7, <1>10, Units
  <2> QED BY <1>3, <1>8, <1>9, <2>1, <2>2 DEF CodeLaid
<1>12. DataLaid'
  <2>1. phdr'[2].off = faddr
    BY <1>8
  <2>2. \A n \in DOMAIN p.at : <<n, "ds">> \in DOMAIN place' /\ place'[<<n, "ds">>].faddr = phdr'[2].off + p.at[n]
    BY <1>8, <2>1 DEF Keys
  <2>3. Placed("ds", PackData, phdr[2].off)'
    BY <1>9, <2>2 DEF Placed
  <2>4. IF link.data = NoAddr THEN Follows(phdr'[1], phdr'[2]) ELSE link.data <= phdr'[2].vaddr
    BY <1>3, <1>5, <1>8 DEF Follows
  <2>5. /\ phdr'[2].vaddr \in Nat /\ phdr'[2].off \in Nat
        /\ phdr'[2].memsz = AlignTo(p.len, 4) /\ phdr'[2].filesz = phdr'[2].memsz
        /\ phdr'[1].off + phdr'[1].filesz <= phdr'[2].off
        /\ phdr'[2].off + phdr'[2].filesz <= faddr'
    BY <1>2, <1>3, <1>5, <1>8, <1>10 DEF len
  <2> QED BY <1>8, <1>9, <2>3, <2>4, <2>5 DEF DataLaid
<1>13. BssLaid'
  BY <1>8 DEF BssLaid
<1>14. InsideFile'
  <2> SUFFICES ASSUME NEW k \in DOMAIN place', k[2] # "bss"
               PROVE  /\ k[1] \in DOMAIN objs /\ k[2] \in {"cs", "ds"}
                      /\ place'[k].faddr \in Nat
                      /\ place'[k].faddr + SizeOf(objs[k[1]], k[2]) <= faddr'
    BY <1>8 DEF InsideFile
  <2>1. CASE k \in DOMAIN place
    <3>1. /\ k[1] \in DOMAIN objs /\ k[2] \in {"cs", "ds"} /\ place[k].faddr \in Nat
          /\ place[k].faddr + SizeOf(objs[k[1]], k[2]) <= faddr
      BY <2>1 DEF LaidInv, InsideFile
    <3>2. SizeOf(objs[k[1]], k[2]) \in Nat
      BY <3>1, SectionSizes DEF NldInv, ObjsInv
    <3> QED BY <1>2, <1>7, <1>8, <1>10, <2>1, <3>1, <3>2
  <2>2. CASE k \in Keys("ds", p)
    <3>1. PICK n \in DOMAIN p.at : k = <<n, "ds">>
      BY <2>2 DEF Keys
    <3>2. k[1] = n /\ k[2] = "ds" /\ place'[k].faddr = faddr + p.at[n]
      BY <1>8, <3>1
    <3> QED BY <1>2, <1>6, <1>7, <1>10, <3>2
  <2> QED BY <1>8, <2>1, <2>2
<1>15. Stage'
  BY <1>1, <1>2, <1>8, <1>10 DEF Stage
<1> QED BY <1>11, <1>12, <1>13, <1>14, <1>15 DEF LaidInv

\* What is uninitialized is laid out behind the data.
LEMMA LinkBssLaid ==
    ASSUME NldInv, LaidInv, LinkBss
    PROVE  LaidInv'
<1> DEFINE v == Above(phdr[2].vaddr, faddr - phdr[2].off)
           p == Packed(objs, "bss", v, 0)
           s == [vaddr |-> v, off |-> faddr, filesz |-> 0, memsz |-> p.len]
<1>1. LayOut("bss", v, faddr, p, 0, p.len) /\ st = "bss" /\ st' = "reloc"
  BY DEF LinkBss
<1>2. /\ Len(phdr) = 2 /\ seg = 1 /\ DOMAIN mem = {} /\ Stage /\ faddr \in Nat /\ DOMAIN phdr = 1 .. 2
  BY <1>1, Headers DEF LaidInv, Stage
<1>3. /\ phdr[2].vaddr \in Nat /\ phdr[2].off \in Nat
      /\ phdr[2].memsz = AlignTo(PackData.len, 4) /\ phdr[2].filesz = phdr[2].memsz
      /\ phdr[2].off + phdr[2].filesz <= faddr
  BY <1>2 DEF LaidInv, DataLaid
<1>4. phdr[2].memsz \in Nat
  <2>1. PackData.len \in Nat
    BY <1>3, PackedIn DEF PackData
  <2> DEFINE l == PackData.len
  <2>2. phdr[2].memsz = AlignTo(l, 4)
    BY <1>3
  <2>3. l \in Nat
    BY <2>1
  <2> HIDE DEF l
  <2>4. AlignTo(l, 4) \in Int /\ l <= AlignTo(l, 4)
    BY <2>3, AlignToRange
  <2> QED BY <2>2, <2>3, <2>4
<1>5. v \in Nat /\ phdr[2].vaddr + phdr[2].memsz + PageSize <= v
  <2>1. v = phdr[2].vaddr + PageSize + (faddr - phdr[2].off)
    BY DEF Above
  <2> DEFINE a == phdr[2].vaddr
             m == phdr[2].memsz
             o == phdr[2].off
  <2>2. v = a + PageSize + (faddr - o) /\ o + m <= faddr
    BY <1>3, <2>1
  <2>3. a \in Nat /\ m \in Nat /\ o \in Nat /\ faddr \in Nat /\ PageSize \in Nat
    BY <1>2, <1>3, <1>4, Units
  <2> HIDE DEF v, a, m, o
  <2>4. v \in Nat /\ a + m + PageSize <= v
    BY <2>2, <2>3
  <2> QED BY <2>4 DEF a, m
<1> HIDE DEF v
<1>6. p.len \in Nat
  BY <1>5, PackedIn
<1> HIDE DEF p
<1>7. /\ Sequence(phdr') /\ Len(phdr') = 3 /\ DOMAIN phdr' = 1 .. 3
      /\ phdr'[1] = phdr[1] /\ phdr'[2] = phdr[2] /\ phdr'[3] = s
      /\ DOMAIN place' = DOMAIN place \cup Keys("bss", p)
      /\ \A k \in DOMAIN place : place'[k] = place[k]
      /\ link' = link /\ objs' = objs /\ seg' = seg /\ mem' = mem
  <2>1. Laid("bss", v, faddr, p, 0, p.len)
    BY <1>1, <1>2, LaidOut
  <2>2. 1 \in 1 .. 2 /\ 2 \in 1 .. 2
    OBVIOUS
  <2> QED BY <1>2, <2>1, <2>2 DEF Laid
<1>8. PackData' = PackData /\ PackCode' = PackCode /\ CodeOff' = CodeOff
  BY <1>7 DEF PackData, PackCode, CodeHdr, CodeOff, Align
<1>9. faddr' = faddr
  BY <1>1 DEF LayOut
<1>10. CodeLaid' /\ DataLaid'
  <2>1. 1 \in DOMAIN phdr /\ 2 \in DOMAIN phdr
    BY <1>2
  <2>2. Placed("cs", PackCode, CodeOff) /\ Placed("ds", PackData, phdr[2].off)
    BY <2>1 DEF LaidInv, CodeLaid, DataLaid
  <2>3. Placed("cs", PackCode, CodeOff)' /\ Placed("ds", PackData, phdr[2].off)'
    BY <1>7, <1>8, <2>2 DEF Placed
  <2>4. CodeLaid'
    BY <1>7, <1>8, <1>9, <2>1, <2>3 DEF LaidInv, CodeLaid
  <2>5. IF link.data = NoAddr THEN Follows(phdr'[1], phdr'[2]) ELSE link.data <= phdr'[2].vaddr
    BY <1>7, <2>1 DEF LaidInv, DataLaid
  <2>6. DataLaid'
    BY <1>7, <1>8, <1>9, <2>1, <2>3, <2>5 DEF LaidInv, DataLaid
  <2> QED BY <2>4, <2>6
<1>11. BssLaid'
  BY <1>5, <1>6, <1>7 DEF BssLaid, Follows
<1>12. InsideFile'
  <2> SUFFICES ASSUME NEW k \in DOMAIN place', k[2] # "bss"
               PROVE  /\ k[1] \in DOMAIN objs /\ k[2] \in {"cs", "ds"}
                      /\ place'[k].faddr \in Nat
                      /\ place'[k].faddr + SizeOf(objs[k[1]], k[2]) <= faddr'
    BY <1>7 DEF InsideFile
  <2>1. k \notin Keys("bss", p)
    BY DEF Keys
  <2> QED BY <1>7, <1>9, <2>1 DEF LaidInv, InsideFile
<1>13. Stage'
  BY <1>1, <1>2, <1>7, <1>9 DEF Stage
<1> QED BY <1>10, <1>11, <1>12, <1>13 DEF LaidInv

\* What is laid out is for objects that are alike.
LEMMA AlikeLaid ==
    ASSUME NldInv, LaidInv, AllAlike(objs, objs'),
           link' = link, place' = place, phdr' = phdr, faddr' = faddr
    PROVE  CodeLaid' /\ DataLaid' /\ BssLaid' /\ InsideFile'
<1>1. Sequence(objs)
  BY DEF NldInv, ObjsInv
<1>2. \A kind \in {"cs", "ds", "bss"} : \A base, len :
         Packed(objs', kind, base, len) = Packed(objs, kind, base, len)
  BY <1>1, PackedAlike
<1>3. PackCode' = PackCode /\ PackData' = PackData /\ CodeOff' = CodeOff
  <2>1. CodeHdr' = CodeHdr /\ CodeOff' = CodeOff
    BY DEF CodeHdr, CodeOff, Align
  <2>2. PackCode' = Packed(objs', "cs", CodeAddr, CodeHdr)
    BY <2>1 DEF PackCode
  <2>3. PackData' = Packed(objs', "ds", phdr[2].vaddr, 0)
    BY DEF PackData
  <2> QED BY <1>2, <2>1, <2>2, <2>3 DEF PackCode, PackData
<1>4. CodeLaid'
  <2>1. Placed("cs", PackCode, CodeOff)' <=> Placed("cs", PackCode, CodeOff)
    BY <1>3 DEF Placed
  <2> QED BY <1>3, <2>1 DEF LaidInv, CodeLaid
<1>5. DataLaid'
  <2>1. Placed("ds", PackData, phdr[2].off)' <=> Placed("ds", PackData, phdr[2].off)
    BY <1>3 DEF Placed
  <2> QED BY <1>3, <2>1 DEF LaidInv, DataLaid
<1>6. InsideFile'
  <2> SUFFICES ASSUME NEW k \in DOMAIN place, k[2] # "bss"
               PROVE  /\ k[1] \in DOMAIN objs' /\ k[2] \in {"cs", "ds"}
                      /\ place[k].faddr \in Nat
                      /\ place[k].faddr + SizeOf(objs'[k[1]], k[2]) <= faddr
    BY DEF InsideFile
  <2>1. /\ k[1] \in DOMAIN objs /\ k[2] \in {"cs", "ds"}
        /\ place[k].faddr \in Nat
        /\ place[k].faddr + SizeOf(objs[k[1]], k[2]) <= faddr
    BY DEF LaidInv, InsideFile
  <2>2. Alike(objs[k[1]], objs'[k[1]]) /\ DOMAIN objs' = DOMAIN objs
    BY <2>1 DEF AllAlike
  <2>3. SizeOf(objs'[k[1]], k[2]) = SizeOf(objs[k[1]], k[2])
    BY <2>1, <2>2 DEF Alike, SizeOf
  <2> QED BY <2>1, <2>2, <2>3
<1> QED BY <1>4, <1>5, <1>6 DEF LaidInv, BssLaid

\* Before anything is laid out there is nothing to say of it.
LEMMA NothingLaid ==
    ASSUME LaidInv, st \in {"compile", "read"}, st' \in {"compile", "read", "died"},
           place' = place, phdr' = phdr, faddr' = faddr, seg' = seg, mem' = mem
    PROVE  LaidInv'
<1>1. DOMAIN phdr = {} /\ DOMAIN place = {} /\ Stage
  <2>1. 1 .. 0 = {}
    OBVIOUS
  <2> QED BY <2>1, Headers DEF LaidInv, Stage
<1>2. CodeLaid' /\ DataLaid' /\ BssLaid' /\ InsideFile'
  BY <1>1 DEF CodeLaid, DataLaid, BssLaid, InsideFile
<1>3. Stage'
  BY <1>1 DEF Stage
<1> QED BY <1>2, <1>3 DEF LaidInv

\* At first nothing is.
LEMMA InitLaid ==
    ASSUME Init
    PROVE  LaidInv
<1>1. /\ DOMAIN phdr = {} /\ DOMAIN place = {} /\ DOMAIN mem = {} /\ Len(phdr) = 0
      /\ faddr = 0 /\ seg = 1 /\ st = "compile"
  BY DEF Init
<1>2. Sequence(phdr)
  <2>1. phdr \in Seq({})
    BY DEF Init
  <2> QED BY <2>1 DEF Sequence
<1>3. Stage
  BY <1>1, <1>2 DEF Stage
<1> QED BY <1>1, <1>3 DEF LaidInv, CodeLaid, DataLaid, BssLaid, InsideFile

\* Relocating and writing leave what is laid out.
LEMMA RelocLaid ==
    ASSUME NldInv, LaidInv, Relocate \/ NextObject \/ Write
    PROVE  LaidInv'
<1>1. /\ st = "reloc" /\ st' \in {"reloc", "died", "load"} /\ link' = link
      /\ place' = place /\ phdr' = phdr /\ faddr' = faddr /\ seg' = seg /\ mem' = mem
  <2>1. CASE Relocate
    BY <2>1 DEF Relocate, laid, loading
  <2>2. CASE NextObject
    BY <2>2 DEF NextObject, laid, loading
  <2>3. CASE Write
    BY <2>3 DEF Write, laid, loading
  <2> QED BY <2>1, <2>2, <2>3
<1>2. AllAlike(objs, objs')
  <2>1. CASE Relocate
    BY <2>1, RelocatedAlike
  <2>2. CASE NextObject \/ Write
    <3>1. objs' = objs
      BY <2>2 DEF NextObject, Write
    <3> QED BY <3>1, ItselfAlike
  <2> QED BY <2>1, <2>2
<1>3. Stage'
  <2>1. UNION {Pages(phdr[k]) : k \in 1 .. 1 - 1} = {}
    <3>1. 1 .. 1 - 1 = {}
      OBVIOUS
    <3> QED BY <3>1
  <2> QED BY <1>1, <2>1 DEF LaidInv, Stage
<1> QED BY <1>1, <1>2, <1>3, AlikeLaid DEF LaidInv

\* A segment that is loaded has its pages.
LEMMA LoadLaid ==
    ASSUME NldInv, LaidInv, LoadSegment
    PROVE  LaidInv'
<1>1. /\ st = "load" /\ link' = link /\ objs' = objs
      /\ place' = place /\ phdr' = phdr /\ faddr' = faddr
  BY DEF LoadSegment, laid
<1>2. AllAlike(objs, objs')
  BY <1>1, ItselfAlike
<1>3. /\ Len(phdr) = 3 /\ seg \in 1 .. 3 /\ faddr \in Nat /\ Sequence(phdr)
      /\ DOMAIN mem = UNION {Pages(phdr[k]) : k \in 1 .. seg - 1}
  BY <1>1 DEF LaidInv, Stage
<1>4. CASE st' \in {"fatal", "spins"} /\ seg' = seg /\ mem' = mem
  BY <1>1, <1>2, <1>3, <1>4, AlikeLaid DEF LaidInv, Stage
<1>5. CASE \E g : /\ mem' = Joined(mem, [a \in Pages(phdr[seg]) |-> g[a]]) /\ seg' = seg + 1
                  /\ st' = IF seg = 3 THEN "loaded" ELSE "load"
  <2>1. DOMAIN mem' = DOMAIN mem \cup Pages(phdr[seg])
    BY <1>5 DEF Joined
  <2>2. \A k \in 1 .. seg : k \in 1 .. seg - 1 \/ k = seg
    BY <1>3
  <2>3. 1 .. seg - 1 \subseteq 1 .. seg /\ seg \in 1 .. seg /\ seg' - 1 = seg
    BY <1>3, <1>5
  <2>4. DOMAIN mem' = UNION {Pages(phdr[k]) : k \in 1 .. seg' - 1}
    BY <1>3, <2>1, <2>2, <2>3
  <2>5. st' = "load" => seg' \in 1 .. 3
    BY <1>3, <1>5
  <2>6. Stage'
    BY <1>1, <1>3, <1>5, <2>4, <2>5 DEF Stage
  <2> QED BY <1>1, <1>2, <2>6, AlikeLaid DEF LaidInv
<1>6. \/ st' \in {"fatal", "spins"} /\ seg' = seg /\ mem' = mem
      \/ \E g : /\ mem' = Joined(mem, [a \in Pages(phdr[seg]) |-> g[a]]) /\ seg' = seg + 1
                /\ st' = IF seg = 3 THEN "loaded" ELSE "load"
  <2> DEFINE s == phdr[seg]
             byte(a) == IF a \notin s.vaddr .. s.vaddr + s.memsz - 1 THEN Junk
                        ELSE IF a >= s.vaddr + s.filesz THEN Blank(1)
                        ELSE elf.bytes[s.off + a - s.vaddr]
             g == [a \in Pages(s) |-> byte(a)]
  <2>1. \/ st' \in {"fatal", "spins"} /\ seg' = seg /\ mem' = mem
        \/ /\ mem' = Joined(mem, g) /\ seg' = seg + 1
           /\ st' = IF seg = 3 THEN "loaded" ELSE "load"
    BY <1>1, <1>3 DEF LoadSegment, loading
  <2>2. g = [a \in Pages(s) |-> g[a]]
    OBVIOUS
  <2> HIDE DEF g
  <2> QED BY <2>1, <2>2
<1> QED BY <1>4, <1>5, <1>6

\* Every step leaves what is laid out so.
LEMMA NextLaid ==
    ASSUME NldInv, LaidInv, [Next]_vars
    PROVE  LaidInv'
<1>1. CASE Compile \/ AddObject \/ ArLink \/ ArEnd
  <2>1. /\ st \in {"compile", "read"} /\ st' \in {"compile", "read", "died"}
        /\ place' = place /\ phdr' = phdr /\ faddr' = faddr /\ seg' = seg /\ mem' = mem
    <3>1. CASE Compile
      BY <3>1 DEF Compile, laid, loading
    <3>2. CASE AddObject
      BY <3>2 DEF AddObject, Reads, Add, laid, loading
    <3>3. CASE ArLink
      BY <3>3 DEF ArLink, Reads, Add, laid, loading
    <3>4. CASE ArEnd
      BY <3>4 DEF ArEnd, Reads, laid, loading
    <3> QED BY <1>1, <3>1, <3>2, <3>3, <3>4
  <2> QED BY <2>1, NothingLaid
<1>2. CASE UNCHANGED vars
  <2>1. AllAlike(objs, objs')
    BY <1>2, ItselfAlike DEF vars
  <2>2. CodeLaid' /\ DataLaid' /\ BssLaid' /\ InsideFile'
    BY <1>2, <2>1, AlikeLaid DEF vars, laid
  <2>3. Stage'
    BY <1>2 DEF vars, laid, loading, LaidInv, Stage
  <2> QED BY <2>2, <2>3 DEF LaidInv
<1> QED BY <1>1, <1>2, LinkCsLaid, LinkDsLaid, LinkBssLaid, RelocLaid, LoadLaid DEF Next, Rest

-----------------------------------------------------------------------------
(* Loading.                                                                *)

\* The file holds the headers, every section that is not empty, and the tables
\* behind them unless they are stripped.
LEMMA FileHolds ==
    ASSUME NldInv, LaidInv
    PROVE  /\ FileEnd \in Nat
           /\ \A k \in InFile : place[k].faddr + SizeOf(objs[k[1]], k[2]) <= FileEnd
           /\ ~link.strip => faddr + 1 <= FileEnd
<1> DEFINE E == {place[k].faddr + SizeOf(objs[k[1]], k[2]) : k \in InFile}
           T == IF link.strip THEN {} ELSE {faddr + 1}
           S == {HdrLen} \cup E \cup T
<1>1. faddr \in Nat /\ HdrLen \in Nat
  BY Units DEF LaidInv, Stage
<1>2. \A k \in InFile : /\ place[k].faddr + SizeOf(objs[k[1]], k[2]) \in Nat
                        /\ place[k].faddr + SizeOf(objs[k[1]], k[2]) <= faddr
  <2> SUFFICES ASSUME NEW k \in InFile
               PROVE  /\ place[k].faddr + SizeOf(objs[k[1]], k[2]) \in Nat
                      /\ place[k].faddr + SizeOf(objs[k[1]], k[2]) <= faddr
    OBVIOUS
  <2>1. k \in DOMAIN place /\ k[2] # "bss"
    BY DEF InFile
  <2>2. /\ k[1] \in DOMAIN objs /\ k[2] \in {"cs", "ds"} /\ place[k].faddr \in Nat
        /\ place[k].faddr + SizeOf(objs[k[1]], k[2]) <= faddr
    BY <2>1 DEF LaidInv, InsideFile
  <2>3. SizeOf(objs[k[1]], k[2]) \in Nat
    <3>1. Shaped(objs[k[1]])
      BY <2>2 DEF NldInv, ObjsInv
    <3> QED BY <2>2, <3>1, SectionSizes
  <2> QED BY <2>2, <2>3
<1>3. \A x \in E : x \in Nat /\ x <= faddr
  BY <1>2
<1>4. \A x \in T : x = faddr + 1
  OBVIOUS
<1>5. ~link.strip => faddr + 1 \in T
  OBVIOUS
<1>6. \A k \in InFile : place[k].faddr + SizeOf(objs[k[1]], k[2]) \in E
  OBVIOUS
<1>7. FileEnd = Max(S)
  BY DEF FileEnd
<1> HIDE DEF E, T
<1>8. S \in SUBSET Nat /\ S # {} /\ \A x \in S : x <= HdrLen + faddr + 1
  <2>1. \A x \in S : x \in Nat /\ x <= HdrLen + faddr + 1
    BY <1>1, <1>3, <1>4
  <2> QED BY <2>1
<1>9. HdrLen + faddr + 1 \in Nat /\ E \subseteq S /\ T \subseteq S
  BY <1>1
<1> HIDE DEF S
<1>10. Max(S) \in S /\ \A x \in S : x <= Max(S)
  BY <1>8, <1>9, MaxOfBounded
<1>11. FileEnd \in Nat /\ \A x \in S : x <= FileEnd
  BY <1>7, <1>8, <1>10
<1> QED BY <1>5, <1>6, <1>9, <1>11

\* An address given with -md keeps the data, and what is behind it, off the
\* pages of the code, and is one the emulator maps.
DataClear ==
    link.data # NoAddr =>
        /\ MMAP_MIN_ADDR <= link.data
        /\ \A k \in DOMAIN phdr : k > 1 => Pages(phdr[1]) \cap Pages(phdr[k]) = {}

\* The segments have sizes, addresses that can be mapped, and pages of their
\* own.
LEMMA SegmentsApart ==
    ASSUME NldInv, LaidInv, DataClear, Len(phdr) = 3
    PROVE  /\ \A k \in 1 .. 3 : /\ phdr[k].vaddr \in Nat /\ phdr[k].memsz \in Nat
                                /\ MMAP_MIN_ADDR <= phdr[k].vaddr
           /\ \A k \in 1 .. 3 : \A i \in 1 .. k - 1 : Pages(phdr[i]) \cap Pages(phdr[k]) = {}
<1>1. DOMAIN phdr = 1 .. 3
  BY Headers DEF LaidInv
<1>2. /\ phdr[1] = [vaddr |-> CodeAddr, off |-> CodeOff, filesz |-> PackCode.len, memsz |-> PackCode.len]
      /\ phdr[2].vaddr \in Nat /\ phdr[2].off \in Nat
      /\ phdr[2].memsz = AlignTo(PackData.len, 4)
      /\ IF link.data = NoAddr THEN Follows(phdr[1], phdr[2]) ELSE link.data <= phdr[2].vaddr
      /\ phdr[3].vaddr \in Nat /\ phdr[3].memsz \in Nat
      /\ Follows(phdr[2], phdr[3])
  BY <1>1 DEF LaidInv, CodeLaid, DataLaid, BssLaid
<1>3. PackCode.len \in Nat
  BY Units, PackedIn DEF PackCode
<1>4. phdr[2].memsz \in Nat
  <2>1. PackData.len \in Nat
    BY <1>2, PackedIn DEF PackData
  <2> DEFINE l == PackData.len
  <2>2. phdr[2].memsz = AlignTo(l, 4)
    BY <1>2
  <2>3. l \in Nat
    BY <2>1
  <2> HIDE DEF l
  <2>4. AlignTo(l, 4) \in Int /\ l <= AlignTo(l, 4)
    BY <2>3, AlignToRange
  <2> QED BY <2>2, <2>3, <2>4
<1>5. phdr[1].vaddr = CodeAddr /\ phdr[1].memsz = PackCode.len
  BY <1>2
<1>6. MMAP_MIN_ADDR \in Nat /\ CodeAddr \in Nat /\ MMAP_MIN_ADDR <= CodeAddr /\ PageSize \in Nat
  BY NldAssumption, Units
<1>7. MMAP_MIN_ADDR <= phdr[2].vaddr
  <2>1. CASE link.data = NoAddr
    <3>1. CodeAddr + PackCode.len + PageSize <= phdr[2].vaddr
      BY <1>2, <1>5, <2>1 DEF Follows
    <3> QED BY <1>2, <1>3, <1>6, <3>1
  <2>2. CASE link.data # NoAddr
    <3>1. link.data \in Nat
      BY <2>2, DataAddress
    <3> QED BY <1>2, <1>6, <2>2, <3>1 DEF DataClear
  <2> QED BY <2>1, <2>2
<1>8. MMAP_MIN_ADDR <= phdr[3].vaddr
  <2>1. phdr[2].vaddr + phdr[2].memsz + PageSize <= phdr[3].vaddr
    BY <1>2 DEF Follows
  <2> QED BY <1>2, <1>4, <1>6, <1>7, <2>1
<1>9. Pages(phdr[2]) \cap Pages(phdr[3]) = {}
  BY <1>2, <1>4, PagesApart
<1>10. Pages(phdr[1]) \cap Pages(phdr[2]) = {} /\ Pages(phdr[1]) \cap Pages(phdr[3]) = {}
  <2>1. CASE link.data = NoAddr
    <3>1. Follows(phdr[1], phdr[2])
      BY <1>2, <2>1
    <3>2. Follows(phdr[1], phdr[3])
      <4>1. /\ phdr[1].vaddr + phdr[1].memsz + PageSize <= phdr[2].vaddr
            /\ phdr[2].vaddr + phdr[2].memsz + PageSize <= phdr[3].vaddr
        BY <1>2, <3>1 DEF Follows
      <4>2. phdr[1].vaddr \in Nat /\ phdr[1].memsz \in Nat
        BY <1>3, <1>5, <1>6
      <4>3. phdr[1].vaddr + phdr[1].memsz + PageSize <= phdr[3].vaddr
        BY <1>2, <1>4, <1>6, <4>1, <4>2
      <4> QED BY <4>3 DEF Follows
    <3>3. phdr[1].vaddr \in Nat /\ phdr[1].memsz \in Nat
      BY <1>3, <1>5, <1>6
    <3> QED BY <1>2, <3>1, <3>2, <3>3, PagesApart
  <2>2. CASE link.data # NoAddr
    <3>1. 2 \in DOMAIN phdr /\ 3 \in DOMAIN phdr /\ 2 > 1 /\ 3 > 1
      BY <1>1
    <3> QED BY <2>2, <3>1 DEF DataClear
  <2> QED BY <2>1, <2>2
<1>11. ASSUME NEW k \in 1 .. 3
       PROVE  /\ phdr[k].vaddr \in Nat /\ phdr[k].memsz \in Nat /\ MMAP_MIN_ADDR <= phdr[k].vaddr
  <2>1. k = 1 \/ k = 2 \/ k = 3
    OBVIOUS
  <2> QED BY <1>2, <1>3, <1>4, <1>5, <1>6, <1>7, <1>8, <2>1
<1>12. ASSUME NEW k \in 1 .. 3, NEW i \in 1 .. k - 1
       PROVE  Pages(phdr[i]) \cap Pages(phdr[k]) = {}
  <2>1. (i = 1 /\ k = 2) \/ (i = 1 /\ k = 3) \/ (i = 2 /\ k = 3)
    OBVIOUS
  <2> QED BY <1>9, <1>10, <2>1
<1> QED BY <1>11, <1>12

\* A segment that cannot be mapped is empty and begins a page.
LEMMA EmptyIfFatal ==
    ASSUME NldInv, LaidInv, DataClear, st = "load", ~Mappable(phdr[seg])
    PROVE  phdr[seg].memsz = 0 /\ phdr[seg].vaddr % PageSize = 0
<1>1. /\ Len(phdr) = 3 /\ seg \in 1 .. 3
      /\ DOMAIN mem = UNION {Pages(phdr[k]) : k \in 1 .. seg - 1}
  BY DEF LaidInv, Stage
<1>2. /\ phdr[seg].vaddr \in Nat /\ phdr[seg].memsz \in Nat /\ MMAP_MIN_ADDR <= phdr[seg].vaddr
      /\ \A i \in 1 .. seg - 1 : Pages(phdr[i]) \cap Pages(phdr[seg]) = {}
  BY <1>1, SegmentsApart
<1>3. Pages(phdr[seg]) \cap DOMAIN mem = {}
  BY <1>1, <1>2
<1>4. Pages(phdr[seg]) = {}
  BY <1>2, <1>3 DEF Mappable
<1> QED BY <1>2, <1>4, NoPages

\* A segment that the file does not hold was stripped of what is behind it: it
\* is code and there is no data and its last section is empty, or it is data
\* that does not fill its words.
LEMMA StrippedIfShort ==
    ASSUME NldInv, LaidInv, st = "load",
           phdr[seg].off + phdr[seg].filesz > FileEnd, phdr[seg].filesz > 0
    PROVE  /\ link.strip
           /\ \/ seg = 1 /\ phdr[2].filesz = 0 /\ ~EndsInCode
              \/ seg = 2 /\ PackData.len % 4 # 0
<1>1. /\ Len(phdr) = 3 /\ seg \in 1 .. 3 /\ faddr \in Nat /\ DOMAIN phdr = 1 .. 3
  BY Headers DEF LaidInv, Stage
<1>2. /\ FileEnd \in Nat
      /\ \A k \in InFile : place[k].faddr + SizeOf(objs[k[1]], k[2]) <= FileEnd
      /\ ~link.strip => faddr + 1 <= FileEnd
  BY FileHolds
<1>3. /\ phdr[1] = [vaddr |-> CodeAddr, off |-> CodeOff, filesz |-> PackCode.len, memsz |-> PackCode.len]
      /\ CodeOff + PackCode.len <= faddr
      /\ Placed("cs", PackCode, CodeOff)
      /\ phdr[2].vaddr \in Nat /\ phdr[2].off \in Nat
      /\ phdr[2].filesz = AlignTo(PackData.len, 4)
      /\ phdr[1].off + phdr[1].filesz <= phdr[2].off
      /\ phdr[2].off + phdr[2].filesz <= faddr
      /\ Placed("ds", PackData, phdr[2].off)
      /\ phdr[3].filesz = 0
  BY <1>1 DEF LaidInv, CodeLaid, DataLaid, BssLaid
<1> DEFINE c == PackCode
           d == PackData
<1>4. /\ c.len \in Nat /\ DOMAIN c.at = {n \in DOMAIN objs : "cs" \in objs[n].secs}
      /\ \A n \in DOMAIN c.at :
            /\ SizeOf(objs[n], "cs") \in Nat /\ c.at[n] \in Nat
            /\ (\A m \in DOMAIN c.at : m <= n) => c.at[n] + SizeOf(objs[n], "cs") = c.len
  BY Units, PackedIn DEF PackCode
<1>5. /\ d.len \in Nat
      /\ \A n \in DOMAIN d.at : SizeOf(objs[n], "ds") \in Nat /\ d.at[n] \in Nat
      /\ d.len = 0 \/ \E n \in DOMAIN d.at : /\ SizeOf(objs[n], "ds") > 0
                                             /\ d.at[n] + SizeOf(objs[n], "ds") = d.len
  <2> DEFINE v == phdr[2].vaddr
  <2>1. v \in Nat /\ d = Packed(objs, "ds", v, 0)
    BY <1>3 DEF PackData
  <2> HIDE DEF v, d
  <2>2. \A n \in DOMAIN d.at : SizeOf(objs[n], "ds") \in Nat /\ d.at[n] \in Nat
    BY <2>1, PackedIn
  <2>3. d.len \in Nat
    BY <2>1, PackedIn
  <2>4. \/ d.len = 0
        \/ \E n \in DOMAIN d.at : /\ SizeOf(objs[n], "ds") > 0
                                  /\ d.at[n] + SizeOf(objs[n], "ds") = d.len
    <3>1. Sequence(objs) /\ \A n \in DOMAIN objs : Shaped(objs[n])
      BY DEF NldInv, ObjsInv
    <3>2. Tight(objs, "ds", 0, d, Len(objs))
      BY <2>1, <3>1, PackedTight
    <3> QED BY <3>2 DEF Tight
  <2> QED BY <2>2, <2>3, <2>4
<1> HIDE DEF c, d
<1>6. CodeOff \in Nat /\ phdr[1].off = CodeOff /\ phdr[1].filesz = c.len
  BY <1>3, Units DEF c
<1>7. phdr[2].filesz \in Nat /\ d.len <= phdr[2].filesz /\ (d.len % 4 = 0 => phdr[2].filesz = d.len)
  <2>1. phdr[2].filesz = AlignTo(d.len, 4)
    BY <1>3 DEF d
  <2> DEFINE l == d.len
             m == (-l) % 4
  <2>2. l \in Nat
    BY <1>5
  <2>3. phdr[2].filesz = l + m
    BY <2>1 DEF AlignTo, Padding
  <2>4. m \in Nat /\ (l % 4 = 0 => m = 0)
    <3> HIDE DEF l
    <3> QED BY <2>2
  <2> HIDE DEF l, m
  <2>5. phdr[2].filesz \in Nat /\ l <= phdr[2].filesz /\ (l % 4 = 0 => phdr[2].filesz = l)
    BY <2>2, <2>3, <2>4
  <2> QED BY <2>5 DEF l
<1>8. seg \in {1, 2}
  BY <1>1, <1>3
<1>9. ASSUME d.len # 0
      PROVE  phdr[2].off + d.len <= FileEnd
  <2>1. PICK n \in DOMAIN d.at : /\ SizeOf(objs[n], "ds") > 0
                                 /\ d.at[n] + SizeOf(objs[n], "ds") = d.len
    BY <1>5, <1>9
  <2> DEFINE k == <<n, "ds">>
  <2>2. k \in DOMAIN place /\ place[k].faddr = phdr[2].off + d.at[n] /\ k[1] = n /\ k[2] = "ds"
    BY <1>3 DEF Placed, d
  <2>3. k \in InFile
    BY <2>1, <2>2 DEF InFile
  <2> HIDE DEF k
  <2>4. place[k].faddr + SizeOf(objs[n], "ds") <= FileEnd
    BY <1>2, <2>2, <2>3
  <2>5. SizeOf(objs[n], "ds") \in Nat /\ d.at[n] \in Nat
    BY <1>5
  <2> QED BY <1>3, <2>1, <2>2, <2>4, <2>5
<1>10. ASSUME EndsInCode
       PROVE  CodeOff + c.len <= FileEnd
  <2>1. PICK n \in DOMAIN objs : /\ "cs" \in objs[n].secs /\ SizeOf(objs[n], "cs") > 0
                                 /\ \A m \in DOMAIN objs : m > n => "cs" \notin objs[m].secs
    BY <1>10 DEF EndsInCode
  <2>2. n \in DOMAIN c.at /\ \A m \in DOMAIN c.at : m <= n
    <3>1. DOMAIN objs = 1 .. Len(objs) /\ Len(objs) \in Nat
      BY SequenceFacts DEF NldInv, ObjsInv
    <3>2. \A m \in DOMAIN objs : m \in Nat
      BY <3>1
    <3> QED BY <1>4, <2>1, <3>2
  <2>3. c.at[n] + SizeOf(objs[n], "cs") = c.len /\ SizeOf(objs[n], "cs") \in Nat /\ c.at[n] \in Nat
    BY <1>4, <2>2
  <2> DEFINE k == <<n, "cs">>
  <2>4. k \in DOMAIN place /\ place[k].faddr = CodeOff + c.at[n] /\ k[1] = n /\ k[2] = "cs"
    BY <1>3, <2>2 DEF Placed, c
  <2>5. k \in InFile
    BY <2>1, <2>4 DEF InFile
  <2> HIDE DEF k
  <2>6. place[k].faddr + SizeOf(objs[n], "cs") <= FileEnd
    BY <1>2, <2>4, <2>5
  <2> QED BY <1>6, <2>3, <2>4, <2>6
<1>11. phdr[seg].off + phdr[seg].filesz <= faddr
  BY <1>3, <1>8
<1>12. link.strip
  <2>1. phdr[seg].off + phdr[seg].filesz \in Nat
    BY <1>3, <1>4, <1>6, <1>7, <1>8
  <2> QED BY <1>1, <1>2, <1>11, <2>1
<1>13. CASE seg = 1
  <2>1. CodeOff + c.len > FileEnd
    BY <1>6, <1>13
  <2>2. ~EndsInCode
    BY <1>2, <1>4, <1>6, <1>10, <2>1
  <2>3. d.len = 0
    <3>1. CASE d.len # 0
      <4>1. phdr[2].off + d.len <= FileEnd /\ CodeOff + c.len <= phdr[2].off
        BY <1>3, <1>6, <1>9, <3>1
      <4> QED BY <1>2, <1>3, <1>4, <1>5, <1>6, <2>1, <4>1
    <3> QED BY <3>1
  <2>4. phdr[2].filesz = 0
    <3>1. d.len % 4 = 0
      BY <2>3
    <3> QED BY <1>7, <2>3, <3>1
  <2> QED BY <1>12, <1>13, <2>2, <2>4
<1>14. CASE seg = 2
  <2>1. phdr[2].off + phdr[2].filesz > FileEnd /\ phdr[2].filesz > 0
    BY <1>14
  <2>2. CASE d.len % 4 = 0
    <3>1. phdr[2].filesz = d.len
      BY <1>7, <2>2
    <3>2. phdr[2].off + d.len <= FileEnd
      BY <1>5, <1>9, <2>1, <3>1
    <3> QED BY <1>2, <1>3, <1>5, <2>1, <3>1, <3>2
  <2> QED BY <1>12, <1>14, <2>2 DEF d
<1> QED BY <1>8, <1>13, <1>14

\* What nld writes can be loaded, unless an address given with -md lays the
\* data over the code: segments do not overlap by pages and all bytes they
\* count are in the file, but for the empty and the stripped ones named in
\* SegmentsLoad (outelf_link, nld.c, lines 463 to 626; load_elf).
THEOREM SegmentsAreLoaded == Spec /\ []DataClear => []SegmentsLoad
<1> DEFINE IInv == NldInv /\ LaidInv /\ SegmentsLoad
<1>1. Init => IInv
  <2>1. Init => SegmentsLoad
    BY DEF Init, SegmentsLoad
  <2> QED BY <2>1, InitNldInv, InitLaid
<1>2. IInv /\ DataClear /\ [Next]_vars => IInv'
  <2> SUFFICES ASSUME IInv, DataClear, [Next]_vars
               PROVE  SegmentsLoad'
    BY NextNldInv, NextLaid
  <2>1. CASE LoadSegment
    <3>1. CASE st' = "fatal"
      <4>1. st = "load" /\ seg' = seg /\ phdr' = phdr /\ ~Mappable(phdr[seg])
        BY <2>1, <3>1 DEF LoadSegment, laid, loading
      <4>2. phdr[seg].memsz = 0 /\ phdr[seg].vaddr % PageSize = 0
        BY <4>1, EmptyIfFatal
      <4> QED BY <3>1, <4>1, <4>2 DEF SegmentsLoad
    <3>2. CASE st' = "spins"
      <4>1. /\ st = "load" /\ seg' = seg /\ phdr' = phdr /\ objs' = objs /\ link' = link
            /\ phdr[seg].off + phdr[seg].filesz > FileEnd /\ phdr[seg].filesz > 0
        BY <2>1, <3>2 DEF LoadSegment, laid, loading
      <4>2. /\ link.strip
            /\ \/ seg = 1 /\ phdr[2].filesz = 0 /\ ~EndsInCode
               \/ seg = 2 /\ PackData.len % 4 # 0
        BY <4>1, StrippedIfShort
      <4>3. EndsInCode' = EndsInCode
        BY <4>1 DEF EndsInCode
      <4>4. phdr[seg].filesz # 0
        BY <4>1
      <4>5. SegmentsLoad' <=> /\ link.strip /\ phdr[seg].filesz # 0
                              /\ \/ seg = 1 /\ phdr[2].filesz = 0 /\ ~EndsInCode
                                 \/ seg = 2 /\ PackData.len % 4 # 0
        BY <3>2, <4>1, <4>3 DEF SegmentsLoad, PackData
      <4> QED BY <4>2, <4>4, <4>5
    <3>3. CASE st' \notin {"fatal", "spins"}
      BY <3>3 DEF SegmentsLoad
    <3> QED BY <3>1, <3>2, <3>3
  <2>2. CASE UNCHANGED vars
    BY <2>2 DEF vars, laid, loading, SegmentsLoad, EndsInCode
  <2>3. CASE ~LoadSegment /\ ~(UNCHANGED vars)
    <3>1. st' \notin {"fatal", "spins"}
      BY <2>3 DEF Next, Compile, AddObject, ArLink, ArEnd, Reads, Add, LinkCs, LinkDs, LinkBss, LayOut,
                  Relocate, NextObject, Write, Rest
    <3> QED BY <3>1 DEF SegmentsLoad
  <2> QED BY <2>1, <2>2, <2>3
<1>3. IInv => SegmentsLoad
  OBVIOUS
<1> QED BY <1>1, <1>2, <1>3, PTL DEF Spec
=============================================================================
