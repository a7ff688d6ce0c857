----------------------------- MODULE StdioProofs -----------------------------
(***************************************************************************)
(* Proofs about streams, for any size of buffers, any strings and any way  *)
(* in which the kernel takes and gives bytes: output is kept until a write *)
(* fails, and none of it is skipped when writes do, a string is cut where  *)
(* its room ends, input is read once.                                      *)
(***************************************************************************)
EXTENDS SequenceTheorems, TLAPS, FoldProofs, Stdio

-----------------------------------------------------------------------------
(* Sequences.                                                              *)

LEMMA Single ==
    ASSUME NEW S, NEW e \in S
    PROVE  <<e>> \in Seq(S) /\ Len(<<e>>) = 1 /\ <<e>>[1] = e
OBVIOUS

\* A byte moves from the front of t to the end of s.
LEMMA Shift ==
    ASSUME NEW S, NEW s \in Seq(S), NEW t \in Seq(S), NEW e \in S
    PROVE  Append(s, e) \o t = s \o (<<e>> \o t)
<1>1. <<e>> \in Seq(S)
  OBVIOUS
<1> QED BY <1>1, AppendIsConcat, ConcatAssociative

LEMMA AppendBehind ==
    ASSUME NEW S, NEW s \in Seq(S), NEW t \in Seq(S), NEW e \in S
    PROVE  s \o Append(t, e) = Append(s \o t, e)
<1>1. <<e>> \in Seq(S) /\ s \o t \in Seq(S)
  BY ConcatProperties
<1>2. Append(t, e) = t \o <<e>> /\ Append(s \o t, e) = (s \o t) \o <<e>>
  BY <1>1, AppendIsConcat
<1> QED BY <1>1, <1>2, ConcatAssociative

\* Concatenation under a name of its own, which the provers leave alone.
Cat(s, t) == s \o t

LEMMA CatMeans ==
    \A S : \A s, t, u \in Seq(S) : /\ Cat(s, t) \in Seq(S)
                                   /\ Cat(Cat(s, t), u) = Cat(s, Cat(t, u))
BY ConcatAssociative, ConcatProperties, SMTT(30) DEF Cat

LEMMA Regroup ==
    ASSUME NEW S, NEW s \in Seq(S), NEW t \in Seq(S), NEW u \in Seq(S), NEW v \in Seq(S)
    PROVE  Cat(Cat(Cat(s, t), u), v) = Cat(s, Cat(t, Cat(u, v)))
BY CatMeans

LEMMA HeadThenTail ==
    ASSUME NEW S, NEW s \in Seq(S), s # <<>>
    PROVE  /\ Head(s) \in S /\ Tail(s) \in Seq(S) /\ s = <<Head(s)>> \o Tail(s)
<1>1. Head(s) \in S /\ Tail(s) \in Seq(S) /\ Len(s) \in Nat \ {0} /\ Head(s) = s[1]
  BY HeadTailProperties, EmptySeq
<1>2. SubSeq(s, 1, Len(s)) = <<s[1]>> \o SubSeq(s, 2, Len(s))
  BY <1>1, SubSeqRecursiveFirst
<1> QED BY <1>1, <1>2, SubSeqFull, TailIsSubSeq

LEMMA FrontThenLast ==
    ASSUME NEW S, NEW s \in Seq(S), s # <<>>
    PROVE  /\ s[Len(s)] \in S /\ SubSeq(s, 1, Len(s) - 1) \in Seq(S)
           /\ s = SubSeq(s, 1, Len(s) - 1) \o <<s[Len(s)]>>
<1>1. Len(s) \in Nat \ {0}
  BY EmptySeq
<1>2. \A i \in 1 .. Len(s) : s[i] \in S
  BY ElementOfSeq
<1>3. SubSeq(s, 1, Len(s)) = SubSeq(s, 1, Len(s) - 1) \o <<s[Len(s)]>>
  BY <1>1, SubSeqRecursiveSecond
<1>4. SubSeq(s, 1, Len(s) - 1) \in Seq(S)
  <2>1. \A i \in 1 .. Len(s) - 1 : s[i] \in S
    BY <1>1, <1>2
  <2> QED BY <1>1, <2>1, SubSeqProperties
<1> QED BY <1>1, <1>2, <1>3, <1>4, SubSeqFull

\* A sequence in three: its head, the rest up to n, and what follows.
LEMMA HeadThenTwo ==
    ASSUME NEW S, NEW s \in Seq(S), NEW n \in 1 .. Len(s)
    PROVE  /\ s[1] \in S /\ SubSeq(s, 2, n) \in Seq(S) /\ SubSeq(s, n + 1, Len(s)) \in Seq(S)
           /\ s = <<s[1]>> \o (SubSeq(s, 2, n) \o SubSeq(s, n + 1, Len(s)))
<1>1. Len(s) \in Nat /\ n \in Nat /\ 1 <= n /\ n <= Len(s)
  BY LenProperties
<1>2. \A i \in 1 .. Len(s) : s[i] \in S
  BY ElementOfSeq
<1>3. SubSeq(s, 2, n) \in Seq(S) /\ SubSeq(s, n + 1, Len(s)) \in Seq(S)
  <2>1. (\A i \in 2 .. n : s[i] \in S) /\ (\A i \in n + 1 .. Len(s) : s[i] \in S)
    BY <1>1, <1>2
  <2>2. SubSeq(s, 2, n) \in Seq(S)
    BY <1>1, <2>1, SubSeqProperties
  <2>3. SubSeq(s, n + 1, Len(s)) \in Seq(S)
    BY <1>1, <2>1, SubSeqProperties
  <2> QED BY <2>2, <2>3
<1>4. SubSeq(s, 2, n) \o SubSeq(s, n + 1, Len(s)) = SubSeq(s, 2, Len(s))
  <2>1. 2 \in 1 .. Len(s) + 1 /\ n \in 2 - 1 .. Len(s) /\ Len(s) \in n .. Len(s)
    BY <1>1
  <2> QED BY <2>1, ConcatAdjacentSubSeq
<1>5. SubSeq(s, 1, Len(s)) = <<s[1]>> \o SubSeq(s, 2, Len(s))
  <2>1. 1 \in 1 .. Len(s) /\ Len(s) \in 1 .. Len(s)
    BY <1>1
  <2>2. 1 + 1 = 2
    OBVIOUS
  <2> QED BY <2>1, <2>2, SubSeqRecursiveFirst
<1>6. s[1] \in S
  BY <1>1, <1>2
<1>7. s = <<s[1]>> \o SubSeq(s, 2, Len(s))
  BY <1>5, SubSeqFull
<1> QED BY <1>3, <1>4, <1>6, <1>7

\* What a string of size n keeps.
Cut(s, n) == IF Len(s) <= n THEN s ELSE SubSeq(s, 1, n)

LEMMA CutMeans ==
    ASSUME NEW S, NEW s \in Seq(S), NEW n \in Nat
    PROVE  /\ Cut(s, n) \in Seq(S)
           /\ Len(Cut(s, n)) = IF Len(s) <= n THEN Len(s) ELSE n
           /\ \A i \in 1 .. Len(Cut(s, n)) : Cut(s, n)[i] = s[i]
<1>1. Len(s) \in Nat /\ \A i \in 1 .. Len(s) : s[i] \in S
  BY LenProperties, ElementOfSeq
<1>2. CASE Len(s) <= n
  BY <1>1, <1>2 DEF Cut
<1>3. CASE ~(Len(s) <= n)
  <2>1. \A i \in 1 .. n : s[i] \in S
    BY <1>1, <1>3
  <2>2. /\ SubSeq(s, 1, n) \in Seq(S)
        /\ Len(SubSeq(s, 1, n)) = IF 1 <= n THEN n - 1 + 1 ELSE 0
        /\ \A i \in 1 .. n - 1 + 1 : SubSeq(s, 1, n)[i] = s[1 + i - 1]
    BY <2>1, SubSeqProperties
  <2> QED BY <1>3, <2>2 DEF Cut
<1> QED BY <1>2, <1>3

LEMMA CutAppend ==
    ASSUME NEW S, NEW s \in Seq(S), NEW n \in Nat, NEW e \in S
    PROVE  Cut(Append(s, e), n) = IF Len(Cut(s, n)) < n THEN Append(Cut(s, n), e) ELSE Cut(s, n)
<1> DEFINE t == Append(s, e)
<1>1. /\ t \in Seq(S) /\ Len(t) = Len(s) + 1 /\ Len(s) \in Nat
      /\ \A i \in 1 .. Len(s) : t[i] = s[i]
  BY AppendProperties, LenProperties
<1>2. /\ Cut(t, n) \in Seq(S)
      /\ Len(Cut(t, n)) = IF Len(t) <= n THEN Len(t) ELSE n
      /\ \A i \in 1 .. Len(Cut(t, n)) : Cut(t, n)[i] = t[i]
  BY <1>1, CutMeans
<1>3. /\ Cut(s, n) \in Seq(S)
      /\ Len(Cut(s, n)) = IF Len(s) <= n THEN Len(s) ELSE n
      /\ \A i \in 1 .. Len(Cut(s, n)) : Cut(s, n)[i] = s[i]
  BY CutMeans
<1>4. CASE Len(s) < n
  <2>1. Cut(s, n) = s /\ Cut(t, n) = t
    BY <1>1, <1>4 DEF Cut
  <2> QED BY <1>4, <2>1
<1>5. CASE ~(Len(s) < n)
  <2>1. Len(Cut(s, n)) = n /\ Len(Cut(t, n)) = n
    BY <1>1, <1>2, <1>3, <1>5
  <2>2. \A i \in 1 .. n : Cut(t, n)[i] = Cut(s, n)[i]
    BY <1>1, <1>2, <1>3, <1>5, <2>1
  <2>3. Cut(t, n) = Cut(s, n)
    BY <1>2, <1>3, <2>1, <2>2, SeqEqual
  <2> QED BY <2>1, <2>3
<1> QED BY <1>4, <1>5

-----------------------------------------------------------------------------
(* Looking for bytes in order, and where they are.                         *)

\* A step of NoneSkipped: the next byte may be the first that is looked for.
Match(rest, c) == IF rest # <<>> /\ Head(rest) = c THEN Tail(rest) ELSE rest
\* What is left of s after all of t.
Matched(s, t) ==
    FoldLeft(LAMBDA rest, c : IF rest # <<>> /\ Head(rest) = c THEN Tail(rest) ELSE rest, s, t)

\* The prefixes of t, and what each leaves to find.
LEMMA MatchedPrefixes ==
    ASSUME NEW S, NEW s \in Seq(S), NEW t \in Seq(S)
    PROVE  \E c : /\ Matched(s, t) = c[1 .. Len(t)]
                  /\ c[{}] = s
                  /\ \A k \in 1 .. Len(t) : c[1 .. k] = Match(c[1 .. k - 1], t[k])
<1> DEFINE n == Len(t)
           T == Seq(S)
           D == [p \in T \X (1 .. n) |-> Match(p[1], t[p[2]])]
<1>1. n \in Nat /\ DOMAIN t = 1 .. n /\ \A k \in 1 .. n : t[k] \in S
  BY LenProperties, ElementOfSeq
<1>2. \A x \in T, b \in S : Match(x, b) \in T
  BY HeadTailProperties DEF Match
<1> HIDE DEF n, T
<1>3. IsFoldStep(D, T, 1 .. n) /\ \A x \in T : \A k \in 1 .. n : D[<<x, k>>] = Match(x, t[k])
  BY <1>1, <1>2 DEF IsFoldStep
<1> HIDE DEF D
<1>4. PICK f : FoldsLeft(f, T, s, n, D)
  BY <1>1, <1>3, FoldLeftExists DEF T
<1> DEFINE Def(c) == c = [x \in SUBSET DOMAIN t |->
                            IF x = {} THEN s ELSE Match(c[x \ {Greatest(x)}], t[Greatest(x)])]
           c == CHOOSE c : Def(c)
<1>5. Def(f)
  <2>1. ASSUME NEW x \in SUBSET (1 .. n), x # {}
        PROVE  f[x] = Match(f[x \ {Greatest(x)}], t[Greatest(x)])
    <3>1. /\ Greatest(x) \in 1 .. n /\ f[x \ {Greatest(x)}] \in T
          /\ f[x] = D[<<f[x \ {Greatest(x)}], Greatest(x)>>]
      BY <1>1, <1>4, <2>1, FoldsLeftStep
    <3> QED BY <1>3, <3>1
  <2> QED BY <1>1, <1>4, <2>1 DEF FoldsLeft
<1>6. Def(c)
  BY <1>5
<1>7. Matched(s, t) = c[DOMAIN t]
  BY Zenon DEF Matched, FoldLeft, MapThenFoldSet, Greatest, Max, Match
<1> HIDE DEF c
<1>8. c[{}] = s
  BY <1>6
<1>9. ASSUME NEW k \in 1 .. n
      PROVE  c[1 .. k] = Match(c[1 .. k - 1], t[k])
  <2>1. /\ 1 .. k \in SUBSET (1 .. n) /\ 1 .. k # {}
        /\ (1 .. k) \ {Greatest(1 .. k)} = 1 .. k - 1 /\ Greatest(1 .. k) = k
    BY <1>1, PrefixStep
  <2>2. \A x \in SUBSET (1 .. n) : x # {} => c[x] = Match(c[x \ {Greatest(x)}], t[Greatest(x)])
    BY <1>1, <1>6
  <2> QED BY <2>1, <2>2
<1> QED BY <1>1, <1>7, <1>8, <1>9 DEF n

\* e tells where each byte of p is in t, in order.
Within(p, t, e) == /\ e \in [1 .. Len(p) -> 1 .. Len(t)]
                   /\ \A i, j \in 1 .. Len(p) : i < j => e[i] < e[j]
                   /\ \A i \in 1 .. Len(p) : t[e[i]] = p[i]

\* If the bytes of s are in t, in order, then none is left to find.
LEMMA AllMatched ==
    ASSUME NEW S, NEW s \in Seq(S), NEW t \in Seq(S), NEW e, Within(s, t, e)
    PROVE  Matched(s, t) = <<>>
<1>1. PICK c : /\ Matched(s, t) = c[1 .. Len(t)]
               /\ c[{}] = s
               /\ \A k \in 1 .. Len(t) : c[1 .. k] = Match(c[1 .. k - 1], t[k])
  BY MatchedPrefixes
<1> DEFINE Rest(m) == SubSeq(s, m + 1, Len(s))
           P == {k \in Nat : k <= Len(t) =>
                    \E m \in 0 .. Len(s) : /\ c[1 .. k] = Rest(m)
                                           /\ \A i \in 1 .. Len(s) : e[i] <= k => i <= m}
<1>2. Len(s) \in Nat /\ Len(t) \in Nat
  BY LenProperties
<1>3. ASSUME NEW m \in 0 .. Len(s)
      PROVE  IF m = Len(s) THEN Rest(m) = <<>>
             ELSE Rest(m) # <<>> /\ Head(Rest(m)) = s[m + 1] /\ Tail(Rest(m)) = Rest(m + 1)
  <2>1. CASE m = Len(s)
    BY <1>2, <2>1, SubSeqEmpty
  <2>2. CASE m # Len(s)
    <3>1. m + 1 \in 1 .. Len(s) /\ Len(s) \in m + 1 .. Len(s) /\ \A i \in 1 .. Len(s) : s[i] \in S
      BY <1>2, <2>2, ElementOfSeq
    <3>2. Rest(m) \in Seq(S) /\ Len(Rest(m)) = Len(s) - m
      BY <1>2, <2>2, <3>1, SubSeqProperties
    <3>3. Head(Rest(m)) = s[m + 1] /\ Tail(Rest(m)) = Rest(m + 1)
      BY <3>1, HeadTailOfSubSeq
    <3>4. Rest(m) # <<>>
      <4>1. Len(<<>>) = 0
        OBVIOUS
      <4> HIDE DEF Rest
      <4> QED BY <1>2, <2>2, <3>2, <4>1
    <3> QED BY <2>2, <3>3, <3>4
  <2> QED BY <2>1, <2>2
<1> HIDE DEF Rest
<1>4. 0 \in P
  <2>1. Rest(0) = s
    BY SubSeqFull DEF Rest
  <2>2. 1 .. 0 = {}
    OBVIOUS
  <2>3. \A i \in 1 .. Len(s) : ~(e[i] <= 0)
    BY DEF Within
  <2> QED BY <1>1, <1>2, <2>1, <2>2, <2>3
<1>5. ASSUME NEW k \in Nat, k \in P
      PROVE  k + 1 \in P
  <2> SUFFICES ASSUME k + 1 <= Len(t)
               PROVE  \E m \in 0 .. Len(s) : /\ c[1 .. k + 1] = Rest(m)
                                             /\ \A i \in 1 .. Len(s) : e[i] <= k + 1 => i <= m
    OBVIOUS
  <2>1. PICK m \in 0 .. Len(s) : c[1 .. k] = Rest(m) /\ \A i \in 1 .. Len(s) : e[i] <= k => i <= m
    BY <1>2, <1>5
  <2>2. c[1 .. k + 1] = Match(Rest(m), t[k + 1])
    BY <1>1, <1>2, <2>1
  <2>3. \A i \in 1 .. Len(s) : e[i] \in 1 .. Len(t) /\ t[e[i]] = s[i]
    BY DEF Within
  <2>4. \A i \in 1 .. Len(s) : e[i] <= k + 1 => i <= m + 1
    <3> SUFFICES ASSUME NEW i \in 1 .. Len(s), e[i] = k + 1, i # 1
                 PROVE  i - 1 <= m
      BY <1>2, <2>1, <2>3
    <3>1. i - 1 \in 1 .. Len(s) /\ e[i - 1] < e[i]
      BY <1>2 DEF Within
    <3> QED BY <1>2, <2>1, <2>3, <3>1
  <2>5. CASE m = Len(s)
    <3>1. c[1 .. k + 1] = Rest(m)
      BY <1>3, <2>2, <2>5 DEF Match
    <3> QED BY <1>2, <2>5, <3>1
  <2>6. CASE m # Len(s) /\ s[m + 1] = t[k + 1]
    <3>1. c[1 .. k + 1] = Rest(m + 1)
      BY <1>3, <2>2, <2>6 DEF Match
    <3> QED BY <1>2, <2>4, <2>6, <3>1
  <2>7. CASE m # Len(s) /\ s[m + 1] # t[k + 1]
    <3>1. c[1 .. k + 1] = Rest(m)
      BY <1>3, <2>2, <2>7 DEF Match
    <3>2. \A i \in 1 .. Len(s) : e[i] <= k + 1 => i <= m
      BY <1>2, <2>1, <2>3, <2>4, <2>7
    <3> QED BY <3>1, <3>2
  <2> QED BY <2>5, <2>6, <2>7
<1> HIDE DEF P
<1>6. Len(t) \in P
  BY <1>2, <1>4, <1>5, NatInd
<1>7. PICK m \in 0 .. Len(s) : /\ c[1 .. Len(t)] = Rest(m)
                               /\ \A i \in 1 .. Len(s) : e[i] <= Len(t) => i <= m
  BY <1>2, <1>6 DEF P
<1>8. m = Len(s)
  BY <1>2, <1>7 DEF Within
<1> QED BY <1>1, <1>3, <1>7, <1>8

\* What is in a file is still there when more is written.
LEMMA WithinMore ==
    ASSUME NEW S, NEW p \in Seq(S), NEW t \in Seq(S), NEW u \in Seq(S), NEW e, Within(p, t, e)
    PROVE  Within(p, t \o u, e)
<1>1. /\ Len(t \o u) = Len(t) + Len(u) /\ Len(t) \in Nat /\ Len(u) \in Nat
      /\ \A i \in 1 .. Len(t) : (t \o u)[i] = t[i]
  BY ConcatProperties, LenProperties
<1>2. \A i \in 1 .. Len(p) : e[i] \in 1 .. Len(t \o u) /\ (t \o u)[e[i]] = p[i]
  BY <1>1, SMTT(30) DEF Within
<1> QED BY <1>2 DEF Within

\* What is written at the end of both is in both.
LEMMA WithinBoth ==
    ASSUME NEW S, NEW p \in Seq(S), NEW t \in Seq(S), NEW b \in Seq(S), NEW e, Within(p, t, e)
    PROVE  \E f : Within(p \o b, t \o b, f)
<1> DEFINE n == Len(p)
           f == [i \in 1 .. Len(p \o b) |-> IF i <= n THEN e[i] ELSE Len(t) + (i - n)]
<1>1. /\ Len(p \o b) = n + Len(b) /\ n \in Nat /\ Len(b) \in Nat
      /\ \A i \in 1 .. Len(p \o b) : (p \o b)[i] = IF i <= n THEN p[i] ELSE b[i - n]
  BY ConcatProperties, LenProperties
<1>2. /\ Len(t \o b) = Len(t) + Len(b) /\ Len(t) \in Nat
      /\ \A i \in 1 .. Len(t \o b) : (t \o b)[i] = IF i <= Len(t) THEN t[i] ELSE b[i - Len(t)]
  BY ConcatProperties, LenProperties
<1>3. \A i \in 1 .. n : e[i] \in 1 .. Len(t) /\ t[e[i]] = p[i]
  BY DEF Within
<1>4. \A i \in 1 .. Len(p \o b) : f[i] = IF i <= n THEN e[i] ELSE Len(t) + (i - n)
  OBVIOUS
<1>5. f \in [1 .. Len(p \o b) -> 1 .. Len(t \o b)]
  BY <1>1, <1>2, <1>3
<1>6. \A i, j \in 1 .. n : i < j => e[i] < e[j]
  BY DEF Within
<1> HIDE DEF f, n
<1>7. ASSUME NEW i \in 1 .. Len(p \o b), NEW j \in 1 .. Len(p \o b), i < j
      PROVE  f[i] < f[j]
  <2>1. CASE j <= n
    <3>1. i \in 1 .. n /\ j \in 1 .. n
      BY <1>1, <1>7, <2>1
    <3>2. f[i] = e[i] /\ f[j] = e[j]
      BY <1>1, <1>4, <3>1
    <3>3. i \in Int /\ j \in Int /\ e[i] \in Int /\ e[j] \in Int
      BY <1>1, <1>2, <1>3, <3>1
    <3>4. e[i] < e[j]
      BY <1>6, <1>7, <3>1, <3>3
    <3> QED BY <3>2, <3>3, <3>4
  <2>2. CASE i <= n /\ ~(j <= n)
    <3>1. i \in 1 .. n /\ j \in Nat
      BY <1>1, <2>2
    <3>2. f[i] = e[i] /\ f[j] = Len(t) + (j - n)
      BY <1>1, <1>4, <2>2
    <3>3. e[i] \in 1 .. Len(t)
      BY <1>3, <3>1
    <3> QED BY <1>1, <1>2, <2>2, <3>1, <3>2, <3>3
  <2>3. CASE ~(i <= n)
    BY <1>1, <1>2, <1>4, <1>7, <2>3
  <2> QED BY <1>1, <1>7, <2>1, <2>2, <2>3
<1>8. ASSUME NEW i \in 1 .. Len(p \o b)
      PROVE  (t \o b)[f[i]] = (p \o b)[i]
  <2>1. CASE i <= n
    BY <1>1, <1>2, <1>3, <1>4, <2>1
  <2>2. CASE ~(i <= n)
    <3>1. f[i] = Len(t) + (i - n) /\ f[i] \in 1 .. Len(t \o b)
      BY <1>4, <1>5, <2>2
    <3>2. f[i] - Len(t) = i - n /\ ~(f[i] <= Len(t))
      BY <1>1, <1>2, <2>2, <3>1
    <3> QED BY <1>1, <1>2, <2>2, <3>1, <3>2
  <2> QED BY <2>1, <2>2
<1>9. Within(p \o b, t \o b, f)
  BY <1>5, <1>7, <1>8 DEF Within
<1> QED BY <1>9

-----------------------------------------------------------------------------
(* The inductive invariant: types, and a part for each of the theorems.    *)

OutNames == {"fputs", "fwrite", "vfprintf"}
InNames  == {"fgets", "fread"}
OutCalls == [fn : OutNames, rest : Seq(OutChars), beg : Nat, n : Nat]

\* The variables of output; which calls run on which streams.
OutType ==
    /\ fd \in {"out", "in", "closed", "none"} /\ osize \in Nat
    /\ obuf \in Seq(OutChars) /\ asked \in Seq(OutChars) /\ file \in Seq(OutChars)
    /\ ostat \in Nat /\ fails \in Nat
    /\ call.fn \in OutNames => call \in OutCalls /\ fd \in {"out", "none"}
    /\ call.fn \in InNames => "fn" \in DOMAIN call /\ fd = "in"

\* Until a write fails nothing is lost, and the buffer is never full.
KeptInv ==
    /\ fd # "none" => osize > 0
    /\ fd # "none" /\ fails = 0 =>
         /\ file \o obuf = asked
         /\ Len(obuf) < osize /\ \A k \in DOMAIN obuf : obuf[k] # NL

\* A string: the one call it gets, and what it has kept.
CutInv ==
    fd = "none" =>
        /\ obuf = Cut(asked, osize) /\ ostat = Len(obuf)
        /\ result.fn = "vfprintf" => asked # <<>> /\ call = Idle /\ result.n = Len(obuf)
        /\ call.fn \in OutNames => /\ call.fn = "vfprintf" /\ call.beg = 0
                                   /\ asked = <<>> => call.rest # <<>>

Pushed == IF back = EOF THEN <<>> ELSE <<back>>

\* What was read and what is still to be read is the file.
InInv ==
    fd = "in" =>
        /\ back \in InChars \cup {EOF}
        /\ got \in Seq(InChars) /\ ibuf \in Seq(InChars) /\ left \in Seq(InChars)
        /\ got \o (Pushed \o (ibuf \o left)) \in Inputs

SInv == OutType /\ KeptInv /\ CutInv /\ InInv

LEMMA Chars ==
    /\ EOF \notin InChars /\ \A s \in Inputs : s \in Seq(InChars)
    /\ \A n \in OutSizes : n \in Nat /\ n > 0
    /\ \A n \in StrSizes : n \in Nat /\ n > 0
    /\ NL \in Int
<1>1. \A c \in InChars : c \in 0 .. 255
  BY StdioAssumption
<1>2. EOF \notin InChars
  BY <1>1 DEF EOF
<1>3. \A n \in OutSizes \cup StrSizes : n \in Nat /\ n > 0
  BY StdioAssumption
<1> QED BY <1>2, <1>3, StdioAssumption DEF NL

LEMMA InitStream == Init => SInv
<1> SUFFICES ASSUME Init PROVE SInv
  OBVIOUS
<1>1. <<>> \in Seq(OutChars) /\ <<>> \in Seq(InChars) /\ Len(<<>>) = 0 /\ <<>> \o <<>> = <<>>
  BY EmptySeq, ConcatEmptySeq
<1>2. osize \in Nat /\ fd \in {"out", "in", "none"} /\ (fd # "none" => osize > 0)
  BY Chars DEF Init
<1>3. OutType /\ KeptInv
  BY <1>1, <1>2 DEF Init, OutType, KeptInv, Idle, OutNames, InNames
<1>4. CutInv
  BY <1>1, <1>2 DEF Init, CutInv, Cut, Idle, OutNames
<1>5. InInv
  <2> SUFFICES ASSUME fd = "in" PROVE InInv
    BY DEF InInv
  <2>1. left \in Seq(InChars) /\ left \in Inputs
    BY Chars DEF Init
  <2>2. <<>> \o (<<>> \o (<<>> \o left)) = left
    BY <2>1, ConcatEmptySeq
  <2> QED BY <1>1, <2>1, <2>2 DEF Init, InInv, Pushed
<1> QED BY <1>3, <1>4, <1>5 DEF SInv

-----------------------------------------------------------------------------
(* Output.                                                                 *)

\* fflush, successful: the file has the bytes, and the buffer is empty.
LEMMA FlushMeans ==
    ASSUME NEW b \in Seq(OutChars), NEW good \in BOOLEAN, Flush(b, good), OutType
    PROVE  /\ fails' \in Nat /\ file' \in Seq(OutChars) /\ obuf' \in Seq(OutChars)
           /\ fd = "none" => obuf' = b
           /\ fd # "none" /\ fails' = 0 =>
                good /\ fails = 0 /\ file' = file \o b /\ obuf' = <<>>
<1>1. CASE fd = "none"
  BY <1>1 DEF Flush, OutType
<1>2. CASE fd # "none"
  <2>1. PICK n \in {EOF} \cup 0 .. Len(b) :
            /\ good <=> n = Len(b)
            /\ fails' = IF good THEN fails ELSE fails + 1
            /\ file' = file \o SubSeq(b, 1, n)
            /\ obuf' = After(b, n)
    BY <1>2 DEF Flush
  <2>2. Len(b) \in Nat /\ n \in Int /\ n <= Len(b) /\ \A i \in 1 .. Len(b) : b[i] \in OutChars
    BY LenProperties, ElementOfSeq DEF EOF
  <2>3. SubSeq(b, 1, n) \in Seq(OutChars)
    <3>1. \A i \in 1 .. n : b[i] \in OutChars
      BY <2>2
    <3> QED BY <2>2, <3>1, SubSeqProperties
  <2>4. file' \in Seq(OutChars) /\ obuf' \in Seq(OutChars)
    BY <2>1, <2>3, ConcatProperties, EmptySeq DEF OutType, After
  <2>5. fails' = 0 => good /\ fails = 0
    BY <2>1 DEF OutType
  <2>6. good => file' = file \o b /\ obuf' = <<>>
    BY <2>1, SubSeqFull DEF After
  <2>7. fails' \in Nat
    BY <2>1 DEF OutType
  <2> QED BY <1>2, <2>4, <2>5, <2>6, <2>7
<1> QED BY <1>1, <1>2

LEMMA OcKeeps ==
    ASSUME SInv, Oc
    PROVE  SInv'
<1> DEFINE c  == Head(call.rest)
           b  == IF Len(obuf) < osize THEN Append(obuf, c) ELSE obuf
           on == [call EXCEPT !.rest = Tail(@)]
<1>1. /\ call \in OutCalls /\ fd \in {"out", "none"} /\ call.rest # <<>>
      /\ call.rest \in Seq(OutChars) /\ call.fn \in OutNames
  BY DEF Oc, SInv, OutType, OutNames, OutCalls
<1>2. c \in OutChars /\ Tail(call.rest) \in Seq(OutChars)
  BY <1>1, HeadTailProperties
<1>3. on \in OutCalls /\ on.fn = call.fn /\ on.beg = call.beg
  BY <1>1, <1>2 DEF OutCalls
<1>4. /\ asked' = Append(asked, c) /\ ostat' = IF Len(obuf) < osize THEN ostat + 1 ELSE ostat
      /\ fd' = fd /\ osize' = osize /\ UNCHANGED inVars
      /\ \/ /\ ~Flushes(c, b) /\ obuf' = b /\ call' = on
            /\ UNCHANGED <<file, fails, result>>
         \/ \E good \in BOOLEAN :
                /\ Flush(b, good)
                /\ IF good \/ call.fn # "fwrite" THEN call' = on /\ UNCHANGED result
                   ELSE call' = Idle /\ result'.fn = "fwrite"
  BY DEF Oc, Counts
<1>5. b \in Seq(OutChars) /\ asked' \in Seq(OutChars) /\ asked' # <<>>
      /\ ostat' \in Nat
  <2>1. obuf \in Seq(OutChars) /\ asked \in Seq(OutChars) /\ ostat \in Nat
    BY DEF SInv, OutType
  <2>2. b \in Seq(OutChars)
    BY <1>2, <2>1, AppendProperties
  <2>3. asked' \in Seq(OutChars) /\ asked' # <<>>
    BY <1>2, <1>4, <2>1, AppendProperties
  <2> QED BY <1>4, <2>1, <2>2, <2>3
<1> HIDE DEF c, b, on
<1>6. /\ fails' \in Nat /\ file' \in Seq(OutChars) /\ obuf' \in Seq(OutChars)
      /\ fd = "none" => obuf' = b
      /\ call' = on \/ (call' = Idle /\ call.fn = "fwrite")
      /\ UNCHANGED result \/ call.fn = "fwrite"
  BY <1>4, <1>5, FlushMeans DEF SInv, OutType
<1>7. OutType'
  BY <1>1, <1>3, <1>4, <1>5, <1>6 DEF SInv, OutType, Idle, OutNames, InNames
<1>8. KeptInv'
  <2> SUFFICES ASSUME fd # "none", fails' = 0 PROVE KeptInv'
    BY <1>4 DEF SInv, KeptInv
  <2>1. osize > 0 /\ osize \in Nat
    BY DEF SInv, KeptInv, OutType
  <2>2. fails = 0
    BY <1>4, <1>5, FlushMeans DEF SInv
  <2>3. /\ file \o obuf = asked /\ Len(obuf) < osize
        /\ \A k \in DOMAIN obuf : obuf[k] # NL
        /\ file \in Seq(OutChars) /\ obuf \in Seq(OutChars)
    BY <2>2 DEF SInv, KeptInv, OutType
  <2>4. b = Append(obuf, c) /\ Len(b) = Len(obuf) + 1 /\ Len(obuf) \in Nat
    BY <1>2, <2>3, AppendProperties, LenProperties DEF b
  <2>5. file \o b = asked'
    <3>1. file \in Seq(OutChars) /\ obuf \in Seq(OutChars)
      BY <2>3
    <3>2. file \o Append(obuf, c) = Append(file \o obuf, c)
      BY <1>2, <3>1, AppendBehind
    <3> QED BY <1>4, <2>3, <2>4, <3>2
  <2>6. CASE ~Flushes(c, b) /\ obuf' = b /\ call' = on /\ UNCHANGED <<file, fails, result>>
    <3>1. c # NL /\ Len(b) < osize
      BY <2>1, <2>3, <2>4, <2>6 DEF Flushes
    <3>2. \A k \in DOMAIN b : b[k] # NL
      <4>1. DOMAIN b = 1 .. Len(obuf) + 1 /\ DOMAIN obuf = 1 .. Len(obuf)
        BY <1>5, <2>3, <2>4, LenProperties
      <4>2. \A k \in 1 .. Len(obuf) : b[k] = obuf[k]
        BY <1>2, <2>3, <2>4, AppendProperties
      <4>3. b[Len(obuf) + 1] = c
        BY <1>2, <2>3, <2>4, AppendProperties
      <4>4. \A k \in DOMAIN b : k \in DOMAIN obuf \/ k = Len(obuf) + 1
        BY <2>4, <4>1
      <4> QED BY <2>3, <3>1, <4>1, <4>2, <4>3, <4>4
    <3> QED BY <1>4, <2>1, <2>5, <2>6, <3>1, <3>2 DEF KeptInv
  <2>7. CASE \E good \in BOOLEAN : Flush(b, good)
    <3>1. file' = file \o b /\ obuf' = <<>>
      BY <1>5, <2>7, FlushMeans DEF SInv
    <3>2. file' \o obuf' = asked' /\ Len(obuf') = 0 /\ DOMAIN obuf' = {}
      <4>1. file' \o <<>> = file'
        BY <1>6, ConcatEmptySeq
      <4> QED BY <2>5, <3>1, <4>1, EmptySeq
    <3> QED BY <1>4, <2>1, <3>2 DEF KeptInv
  <2> QED BY <1>4, <2>6, <2>7
<1>9. CutInv'
  <2> SUFFICES ASSUME fd = "none" PROVE CutInv'
    BY <1>4 DEF CutInv
  <2>1. /\ obuf = Cut(asked, osize) /\ ostat = Len(obuf) /\ call.fn = "vfprintf" /\ call.beg = 0
        /\ result.fn # "vfprintf" /\ osize \in Nat /\ asked \in Seq(OutChars)
    BY <1>1 DEF SInv, CutInv, OutType, Idle, OutNames
  <2>2. obuf' = b /\ call' = on /\ UNCHANGED result
    BY <1>6, <2>1
  <2>3. obuf' = Cut(asked', osize')
    BY <1>2, <1>4, <2>1, <2>2, CutAppend DEF b
  <2>4. ostat' = Len(obuf')
    BY <1>2, <1>4, <2>1, <2>2, AppendProperties DEF b, SInv, OutType
  <2> QED BY <1>3, <1>5, <2>1, <2>2, <2>3, <2>4 DEF CutInv
<1>10. InInv'
  BY <1>1, <1>4 DEF SInv, InInv, inVars, Pushed
<1> QED BY <1>7, <1>8, <1>9, <1>10 DEF SInv

LEMMA OutputKeeps ==
    ASSUME SInv, NEW fn \in OutNames, NEW s \in Writes, Output(fn, s)
    PROVE  SInv'
<1>1. s \in Seq(OutChars) /\ s # <<>> /\ Len(s) \in Nat
  <2>1. PICK n \in 1 .. MaxPut : s \in [1 .. n -> OutChars]
    BY DEF Writes
  <2>2. n \in Nat /\ n > 0
    BY <2>1, StdioAssumption
  <2>3. s \in Seq(OutChars)
    BY <2>1, <2>2, SeqDef
  <2>4. 1 \in DOMAIN s
    BY <2>1, <2>2
  <2> QED BY <2>3, <2>4, LenProperties, EmptySeq
<1>2. /\ call' = [fn |-> fn, rest |-> s, beg |-> ostat, n |-> Len(s)]
      /\ fd' = fd /\ UNCHANGED <<outVars, inVars>> /\ result' = result
      /\ fd = "out" \/ (fd = "none" /\ fn = "vfprintf" /\ asked = <<>>)
  BY DEF Output
<1>3. call' \in OutCalls /\ call'.fn = fn /\ call'.rest = s /\ call'.beg = ostat
  BY <1>1, <1>2 DEF OutCalls, SInv, OutType
<1>4. OutType'
  BY <1>2, <1>3 DEF SInv, OutType, outVars, InNames, OutNames
<1>5. KeptInv'
  BY <1>2 DEF SInv, KeptInv, outVars
<1>6. CutInv'
  <2> SUFFICES ASSUME fd = "none" PROVE CutInv'
    BY <1>2 DEF CutInv
  <2>1. /\ obuf = Cut(asked, osize) /\ ostat = Len(obuf) /\ result.fn # "vfprintf"
        /\ asked = <<>> /\ osize \in Nat
    BY <1>2 DEF SInv, CutInv, OutType
  <2>2. ostat = 0
    BY <2>1, EmptySeq DEF Cut
  <2> QED BY <1>1, <1>2, <1>3, <2>1, <2>2 DEF CutInv, outVars
<1>7. InInv'
  BY <1>2 DEF SInv, InInv, inVars, Pushed
<1> QED BY <1>4, <1>5, <1>6, <1>7 DEF SInv

LEMMA ReturnedKeeps ==
    ASSUME SInv, Returned
    PROVE  SInv'
<1>1. /\ call' = Idle /\ fd' = fd /\ UNCHANGED <<outVars, inVars>>
      /\ call.fn \in OutNames /\ call.rest = <<>> /\ result'.fn = call.fn
      /\ call.fn = "vfprintf" => result'.n = ostat - call.beg
  BY DEF Returned, OutNames
<1>2. OutType'
  BY <1>1 DEF SInv, OutType, outVars, Idle, OutNames, InNames
<1>3. KeptInv'
  BY <1>1 DEF SInv, KeptInv, outVars
<1>4. CutInv'
  <2> SUFFICES ASSUME fd = "none" PROVE CutInv'
    BY <1>1 DEF CutInv
  <2>1. /\ obuf = Cut(asked, osize) /\ ostat = Len(obuf) /\ ostat \in Nat
        /\ call.fn = "vfprintf" /\ call.beg = 0 /\ asked # <<>>
    BY <1>1 DEF SInv, CutInv, OutType
  <2> QED BY <1>1, <2>1 DEF CutInv, outVars, Idle, OutNames
<1>5. InInv'
  BY <1>1 DEF SInv, InInv, inVars, Pushed
<1> QED BY <1>2, <1>3, <1>4, <1>5 DEF SInv

LEMMA FflushKeeps ==
    ASSUME SInv, Fflush
    PROVE  SInv'
<1>1. PICK good \in BOOLEAN : Flush(obuf, good)
  BY DEF Fflush
<1>2. /\ call = Idle /\ fd = "out" /\ fd' = fd /\ osize' = osize /\ ostat' = ostat
      /\ asked' = asked /\ UNCHANGED inVars /\ call' = call
      /\ obuf \in Seq(OutChars) /\ osize \in Nat /\ osize > 0
  BY DEF Fflush, SInv, OutType, KeptInv
<1>3. /\ fails' \in Nat /\ file' \in Seq(OutChars) /\ obuf' \in Seq(OutChars)
      /\ fails' = 0 => good /\ fails = 0 /\ file' = file \o obuf /\ obuf' = <<>>
  BY <1>1, <1>2, FlushMeans DEF SInv
<1>4. OutType'
  BY <1>2, <1>3 DEF SInv, OutType
<1>5. KeptInv'
  <2> SUFFICES ASSUME fails' = 0 PROVE KeptInv'
    BY <1>2 DEF KeptInv
  <2>1. file \o obuf = asked
    BY <1>2, <1>3 DEF SInv, KeptInv
  <2>2. file' \o obuf' = asked
    <3>1. file' \o <<>> = file'
      BY <1>3, ConcatEmptySeq
    <3> QED BY <1>3, <2>1, <3>1
  <2>3. Len(obuf') = 0 /\ DOMAIN obuf' = {}
    BY <1>3, EmptySeq
  <2> QED BY <1>2, <2>2, <2>3 DEF KeptInv
<1>6. CutInv' /\ InInv'
  BY <1>2 DEF CutInv, InInv
<1> QED BY <1>4, <1>5, <1>6 DEF SInv

-----------------------------------------------------------------------------
(* Input.                                                                  *)

\* What is read leaves the front of what there is to read.
LEMMA GetsKeeps ==
    ASSUME SInv, fd = "in", NEW c \in InChars \cup {EOF}, Gets(c), fd' = fd
    PROVE  InInv'
<1> DEFINE rest == ibuf \o left
<1>1. /\ back \in InChars \cup {EOF} /\ got \in Seq(InChars) /\ ibuf \in Seq(InChars)
      /\ left \in Seq(InChars) /\ got \o (Pushed \o (ibuf \o left)) \in Inputs
  BY DEF SInv, InInv
<1>2. Ic(c) /\ got' = IF c = EOF THEN got ELSE Append(got, c)
  BY DEF Gets
<1>3. ibuf \o left \in Seq(InChars) /\ \A s \in Seq(InChars) : <<>> \o s = s
  BY <1>1, ConcatProperties, ConcatEmptySeq
\* It is enough that the byte and the rest after are the rest before.
<1>4. ASSUME c # EOF, back' = EOF, ibuf' \in Seq(InChars), left' \in Seq(InChars),
             <<c>> \o (ibuf' \o left') = Pushed \o (ibuf \o left)
      PROVE  InInv'
  <2>1. c \in InChars /\ got' = Append(got, c) /\ got' \in Seq(InChars) /\ Pushed' = <<>>
    BY <1>1, <1>2, <1>4, AppendProperties DEF Pushed
  <2>2. ibuf' \o left' \in Seq(InChars)
    BY <1>4, ConcatProperties
  <2>3. Append(got, c) \o (ibuf' \o left') = got \o (<<c>> \o (ibuf' \o left'))
    <3> DEFINE t == ibuf' \o left'
    <3>1. t \in Seq(InChars) /\ got \in Seq(InChars) /\ c \in InChars
      BY <1>1, <2>1, <2>2
    <3> HIDE DEF t
    <3>2. Append(got, c) \o t = got \o (<<c>> \o t)
      BY <3>1, Shift
    <3> QED BY <3>2 DEF t
  <2>4. got' \o (Pushed' \o (ibuf' \o left')) \in Inputs
    BY <1>1, <1>3, <1>4, <2>1, <2>2, <2>3
  <2> QED BY <1>4, <2>1, <2>4 DEF InInv
<1>5. CASE back # EOF /\ c = back /\ back' = EOF /\ UNCHANGED <<ibuf, left>>
  <2>1. Pushed = <<c>>
    BY <1>5 DEF Pushed
  <2> QED BY <1>1, <1>4, <1>5, <2>1
<1>6. CASE back = EOF /\ ibuf # <<>> /\ c = Head(ibuf) /\ ibuf' = Tail(ibuf)
           /\ UNCHANGED <<back, left>>
  <2>1. c \in InChars /\ ibuf' \in Seq(InChars) /\ ibuf = <<c>> \o ibuf'
    BY <1>1, <1>6, HeadThenTail
  <2>2. <<c>> \o (ibuf' \o left') = ibuf \o left
    <3> DEFINE e == <<c>>
    <3>1. e \in Seq(InChars)
      BY <2>1, Single
    <3> HIDE DEF e
    <3>2. (e \o ibuf') \o left = e \o (ibuf' \o left)
      BY <1>1, <2>1, <3>1, ConcatAssociative
    <3> QED BY <1>6, <2>1, <3>2 DEF e
  <2>3. Pushed = <<>>
    BY <1>6 DEF Pushed
  <2> QED BY <1>1, <1>3, <1>4, <1>6, <2>1, <2>2, <2>3, Chars
<1>7. CASE c = EOF /\ UNCHANGED <<back, ibuf, left>>
  BY <1>1, <1>2, <1>7 DEF InInv, Pushed
<1>8. ASSUME back = EOF, ibuf = <<>>, NEW n \in {k \in 1 .. InSize : k <= Len(left)},
             c = left[1], ibuf' = SubSeq(left, 2, n),
             left' = SubSeq(left, n + 1, Len(left)), UNCHANGED back
      PROVE  InInv'
  <2>1. n \in 1 .. Len(left)
    BY <1>1, <1>8, LenProperties
  <2>2. /\ c \in InChars /\ ibuf' \in Seq(InChars) /\ left' \in Seq(InChars)
        /\ left = <<c>> \o (ibuf' \o left')
    BY <1>1, <1>8, <2>1, HeadThenTwo
  <2>3. Pushed = <<>> /\ ibuf \o left = left
    BY <1>1, <1>3, <1>8 DEF Pushed
  <2>4. <<c>> \o (ibuf' \o left') = Pushed \o (ibuf \o left)
    BY <1>1, <1>3, <2>2, <2>3
  <2> QED BY <1>4, <1>8, <2>2, <2>4, Chars
<1> QED BY <1>2, <1>5, <1>6, <1>7, <1>8 DEF Ic

LEMMA UngetcKeeps ==
    ASSUME SInv, Ungetc
    PROVE  SInv'
<1>1. /\ call = Idle /\ got # <<>> /\ result'.fn = "ungetc"
      /\ UNCHANGED <<fd, outVars, ibuf, left, call>>
      /\ IF back = EOF THEN back' = got[Len(got)] /\ got' = SubSeq(got, 1, Len(got) - 1)
                       ELSE UNCHANGED <<back, got>>
  BY DEF Ungetc, Pushes
<1>2. OutType' /\ KeptInv' /\ CutInv'
  BY <1>1 DEF SInv, OutType, KeptInv, CutInv, outVars, Idle, OutNames
<1>3. InInv'
  <2> SUFFICES ASSUME fd = "in" PROVE InInv'
    BY <1>1 DEF InInv
  <2>1. /\ back \in InChars \cup {EOF} /\ got \in Seq(InChars) /\ ibuf \in Seq(InChars)
        /\ left \in Seq(InChars) /\ got \o (Pushed \o (ibuf \o left)) \in Inputs
    BY DEF SInv, InInv
  <2>2. CASE back # EOF
    BY <1>1, <2>1, <2>2 DEF InInv, Pushed
  <2>3. CASE back = EOF
    <3>1. /\ back' \in InChars /\ got' \in Seq(InChars) /\ got = got' \o <<back'>>
      BY <1>1, <2>1, <2>3, FrontThenLast, ZenonT(30)
    <3>2. Pushed = <<>> /\ Pushed' = <<back'>> /\ <<back'>> \in Seq(InChars)
      BY <2>3, <3>1, Single, Chars DEF Pushed
    <3>3. ibuf \o left \in Seq(InChars) /\ <<>> \o (ibuf \o left) = ibuf \o left
      BY <2>1, ConcatProperties, ConcatEmptySeq
    <3>4. (got' \o <<back'>>) \o (ibuf \o left) = got' \o (<<back'>> \o (ibuf \o left))
      <4> DEFINE g == got'
                 e == <<back'>>
                 t == ibuf \o left
      <4>1. g \in Seq(InChars) /\ e \in Seq(InChars) /\ t \in Seq(InChars)
        BY <3>1, <3>2, <3>3
      <4> HIDE DEF g, e, t
      <4>2. (g \o e) \o t = g \o (e \o t)
        BY <4>1, ConcatAssociative
      <4> QED BY <4>2 DEF g, e, t
    <3> QED BY <1>1, <2>1, <3>1, <3>2, <3>3, <3>4 DEF InInv
  <2> QED BY <2>2, <2>3
<1> QED BY <1>2, <1>3 DEF SInv

LEMMA NextStream == SInv /\ [Next]_vars => SInv'
<1> SUFFICES ASSUME SInv, [Next]_vars PROVE SInv'
  OBVIOUS
<1>1. ASSUME NEW fn \in {"fputs", "fwrite", "vfprintf"}, NEW s \in Writes, Output(fn, s)
      PROVE  SInv'
  BY <1>1, OutputKeeps DEF OutNames
<1>2. CASE Oc
  BY <1>2, OcKeeps
<1>3. CASE Returned
  BY <1>3, ReturnedKeeps
<1>4. CASE Fflush
  BY <1>4, FflushKeeps
<1>5. CASE Fclose
  <2>1. /\ fd = "out" /\ fd' = "closed" /\ call = Idle /\ call' = Idle
        /\ UNCHANGED <<outVars, inVars>>
    BY <1>5 DEF Fclose
  <2>2. OutType' /\ KeptInv' /\ CutInv' /\ InInv'
    BY <2>1 DEF SInv, OutType, KeptInv, CutInv, InInv, outVars, Idle, OutNames
  <2> QED BY <2>2 DEF SInv
\* A step of input leaves output alone.
<1>6. ASSUME fd = "in", UNCHANGED <<fd, outVars>>, call'.fn \notin OutNames,
             call'.fn \in InNames => "fn" \in DOMAIN call', InInv'
      PROVE  SInv'
  BY <1>6 DEF SInv, OutType, KeptInv, CutInv, outVars
<1>7. CASE Fgetc
  <2>1. PICK c \in InChars \cup {EOF} : Gets(c)
    BY <1>7 DEF Fgetc
  <2>2. fd = "in" /\ UNCHANGED <<fd, outVars>> /\ call'.fn \notin OutNames \cup InNames
    BY <1>7 DEF Fgetc, Idle, OutNames, InNames
  <2>3. InInv'
    BY <2>1, <2>2, GetsKeeps
  <2> QED BY <1>6, <2>2, <2>3
<1>8. CASE Ungetc
  BY <1>8, UngetcKeeps
<1>9. ASSUME NEW n \in 1 .. InSize + 1, NEW fn \in InNames, Input(fn, n) PROVE SInv'
  <2>1. /\ fd = "in" /\ UNCHANGED <<fd, outVars, inVars>>
        /\ call'.fn \notin OutNames /\ "fn" \in DOMAIN call'
    BY <1>9 DEF Input, InNames, OutNames
  <2>2. InInv'
    BY <2>1 DEF SInv, InInv, inVars, Pushed
  <2> QED BY <1>6, <2>1, <2>2
<1>10. ASSUME NEW c \in InChars \cup {EOF}, InByte(c) PROVE SInv'
  <2>1. /\ fd = "in" /\ "fn" \in DOMAIN call /\ call.fn \in InNames
        /\ Gets(c) /\ UNCHANGED <<fd, outVars>>
    BY <1>10 DEF InByte, SInv, OutType, InNames
  <2>2. call'.fn = call.fn /\ "fn" \in DOMAIN call'
    BY <1>10, <2>1 DEF InByte
  <2>3. InInv'
    BY <2>1, GetsKeeps
  <2> QED BY <1>6, <2>1, <2>2, <2>3 DEF InNames, OutNames
<1>11. CASE InReturned
  <2>1. /\ fd = "in" /\ UNCHANGED <<fd, outVars, inVars>>
        /\ call'.fn \notin OutNames \cup InNames
    BY <1>11 DEF InReturned, SInv, OutType, Idle, InNames, OutNames
  <2>2. InInv'
    BY <2>1 DEF SInv, InInv, inVars, Pushed
  <2> QED BY <1>6, <2>1, <2>2
<1>12. CASE UNCHANGED vars
  BY <1>12 DEF vars, outVars, inVars, SInv, OutType, KeptInv, CutInv, InInv, Pushed
<1> QED BY <1>1, <1>2, <1>3, <1>4, <1>5, <1>7, <1>8, <1>9, <1>10, <1>11, <1>12 DEF Next, InNames

\* The invariant of a stream.
THEOREM StreamInvariant == Spec => []SInv
<1> QED BY InitStream, NextStream, PTL DEF Spec

\* Until a write fails, file and buffer are what was put, whatever the calls,
\* the lines and the size of the buffer (oc, fflush), and between calls the
\* buffer holds no line.
THEOREM OutputIsKept == Spec => []OutputKept
<1>1. SInv => OutputKept
  BY DEF SInv, KeptInv, OutputKept
<1> QED BY <1>1, StreamInvariant, PTL

\* vsnprintf cuts the string at its size, and vfprintf counts what it kept.
THEOREM StringIsCut == Spec => []StringCut
<1>1. SInv => StringCut
  BY DEF SInv, CutInv, StringCut, Cut
<1> QED BY <1>1, StreamInvariant, PTL

\* What was read and what can still be read is the file, whatever the kernel
\* gives at a time, and with bytes pushed back (ic, ungetc).
THEOREM InputReadOnce == Spec => []ReadOnce
<1>1. SInv => ReadOnce
  <2> SUFFICES ASSUME SInv, fd = "in"
               PROVE  ((got \o Pushed) \o ibuf) \o left \in Inputs
    BY DEF ReadOnce, Pushed
  <2>1. /\ back \in InChars \cup {EOF} /\ got \in Seq(InChars) /\ ibuf \in Seq(InChars)
        /\ left \in Seq(InChars) /\ got \o (Pushed \o (ibuf \o left)) \in Inputs
    BY DEF SInv, InInv
  <2>2. Pushed \in Seq(InChars)
    BY <2>1, Single, EmptySeq DEF Pushed
  <2>3. ((got \o Pushed) \o ibuf) \o left = got \o (Pushed \o (ibuf \o left))
    <3>1. /\ got \in Seq(InChars) /\ Pushed \in Seq(InChars)
          /\ ibuf \in Seq(InChars) /\ left \in Seq(InChars)
      BY <2>1, <2>2
    <3>2. Cat(Cat(Cat(got, Pushed), ibuf), left) = Cat(got, Cat(Pushed, Cat(ibuf, left)))
      BY <3>1, Regroup
    <3> QED BY <3>2 DEF Cat
  <2> QED BY <2>1, <2>3
<1> QED BY <1>1, StreamInvariant, PTL

-----------------------------------------------------------------------------
(* Writes that fail.                                                       *)

\* stored is in the file, in order, and then in the buffer.
SkipInv ==
    \E p \in Seq(OutChars) : \E e : stored = p \o obuf /\ Within(p, file, e)

\* A short write adds bytes to the file and keeps the buffer; a complete one
\* moves it.
LEMMA FlushSkipsNone ==
    ASSUME NEW b \in Seq(OutChars), NEW good \in BOOLEAN, Flush(b, good), file \in Seq(OutChars),
           NEW p \in Seq(OutChars), NEW e, Within(p, file, e)
    PROVE  \E q \in Seq(OutChars) : \E f : p \o b = q \o obuf' /\ Within(q, file', f)
<1>1. CASE fd = "none"
  BY <1>1 DEF Flush
<1>2. CASE fd # "none"
  <2>1. PICK n \in {EOF} \cup 0 .. Len(b) :
            file' = file \o SubSeq(b, 1, n) /\ obuf' = After(b, n)
    BY <1>2 DEF Flush
  <2>2. Len(b) \in Nat /\ n \in Int /\ n <= Len(b) /\ \A i \in 1 .. Len(b) : b[i] \in OutChars
    BY LenProperties, ElementOfSeq DEF EOF
  <2>3. CASE n = Len(b)
    <3>1. file' = file \o b /\ obuf' = <<>>
      BY <2>1, <2>3, SubSeqFull DEF After
    <3>2. p \o b \in Seq(OutChars) /\ (p \o b) \o <<>> = p \o b
      BY ConcatProperties, ConcatEmptySeq
    <3>3. \E f : Within(p \o b, file \o b, f)
      BY WithinBoth
    <3> QED BY <3>1, <3>2, <3>3
  <2>4. CASE n # Len(b)
    <3>1. SubSeq(b, 1, n) \in Seq(OutChars)
      <4>1. \A i \in 1 .. n : b[i] \in OutChars
        BY <2>2
      <4> QED BY <2>2, <4>1, SubSeqProperties
    <3>2. Within(p, file', e)
      BY <2>1, <3>1, WithinMore
    <3> QED BY <2>1, <2>4, <3>2 DEF After
  <2> QED BY <2>3, <2>4
<1> QED BY <1>1, <1>2

\* So NoneSkipped finds every byte of stored.
LEMMA SkipInvMeans ==
    ASSUME SkipInv, file \in Seq(OutChars), obuf \in Seq(OutChars)
    PROVE  NoneSkipped
<1>1. PICK p \in Seq(OutChars) : \E e : stored = p \o obuf /\ Within(p, file, e)
  BY DEF SkipInv
<1>2. PICK e : stored = p \o obuf /\ Within(p, file, e)
  BY <1>1
<1>3. \E f : Within(stored, file \o obuf, f)
  BY <1>2, WithinBoth
<1>4. stored \in Seq(OutChars) /\ file \o obuf \in Seq(OutChars)
  BY <1>2, ConcatProperties
<1>5. Matched(stored, file \o obuf) = <<>>
  BY <1>3, <1>4, AllMatched
<1> QED BY <1>5 DEF Matched, NoneSkipped

LEMMA InitSkip == Init => SkipInv
<1> SUFFICES ASSUME Init PROVE SkipInv
  OBVIOUS
<1>1. /\ stored = <<>> /\ obuf = <<>> /\ file = <<>> /\ <<>> \in Seq(OutChars)
      /\ <<>> \o <<>> = <<>> /\ Len(<<>>) = 0
  BY EmptySeq, ConcatEmptySeq DEF Init
<1>2. Within(<<>>, <<>>, <<>>)
  BY <1>1 DEF Within
<1> QED BY <1>1, <1>2 DEF SkipInv

LEMMA NextSkip == SInv /\ SkipInv /\ [Next]_vars => SkipInv'
<1> SUFFICES ASSUME SInv, SkipInv, [Next]_vars PROVE SkipInv'
  OBVIOUS
<1>1. obuf \in Seq(OutChars) /\ file \in Seq(OutChars)
  BY DEF SInv, OutType
<1>2. PICK p \in Seq(OutChars) : \E e : stored = p \o obuf /\ Within(p, file, e)
  BY DEF SkipInv
<1>3. PICK e : stored = p \o obuf /\ Within(p, file, e)
  BY <1>2
<1>4. CASE Oc
  <2> DEFINE c == Head(call.rest)
             b == IF Len(obuf) < osize THEN Append(obuf, c) ELSE obuf
  <2>1. c \in OutChars
    BY <1>4, HeadTailProperties DEF Oc, SInv, OutType, OutNames, OutCalls
  <2>2. /\ stored' = IF Len(obuf) < osize THEN Append(stored, c) ELSE stored
        /\ \/ obuf' = b /\ UNCHANGED file
           \/ \E good \in BOOLEAN : Flush(b, good)
    BY <1>4 DEF Oc
  <2>3. b \in Seq(OutChars) /\ stored' = p \o b
    <3>1. p \o Append(obuf, c) = Append(p \o obuf, c)
      BY <1>1, <1>3, <2>1, AppendBehind
    <3>2. Append(obuf, c) \in Seq(OutChars)
      BY <1>1, <2>1, AppendProperties
    <3> QED BY <1>1, <1>3, <2>2, <3>1, <3>2
  <2> HIDE DEF b
  <2>4. CASE obuf' = b /\ UNCHANGED file
    BY <1>3, <2>3, <2>4 DEF SkipInv
  <2>5. CASE \E good \in BOOLEAN : Flush(b, good)
    <3>1. \E q \in Seq(OutChars) : \E f : p \o b = q \o obuf' /\ Within(q, file', f)
      BY <1>1, <1>3, <2>3, <2>5, FlushSkipsNone
    <3> QED BY <2>3, <3>1 DEF SkipInv
  <2> QED BY <2>2, <2>4, <2>5
<1>5. CASE Fflush
  <2>1. stored' = stored /\ \E good \in BOOLEAN : Flush(obuf, good)
    BY <1>5 DEF Fflush
  <2>2. \E q \in Seq(OutChars) : \E f : p \o obuf = q \o obuf' /\ Within(q, file', f)
    BY <1>1, <1>3, <2>1, FlushSkipsNone
  <2> QED BY <1>3, <2>1, <2>2 DEF SkipInv
<1>6. CASE UNCHANGED <<stored, obuf, file>>
  BY <1>6 DEF SkipInv
\* No other step writes.
<1>7. \/ Oc \/ Fflush \/ UNCHANGED <<stored, obuf, file>>
  BY DEF Next, Output, Returned, Fclose, Fgetc, Ungetc, Input, InByte, InReturned, vars, outVars
<1> QED BY <1>4, <1>5, <1>6, <1>7

\* Whether writes are complete or not, no byte that oc stored is skipped: the
\* file has them in order up to those that are still in the buffer (fflush).
THEOREM NoByteSkipped == Spec => []NoneSkipped
<1>1. SInv /\ SkipInv => NoneSkipped
  BY SkipInvMeans DEF SInv, OutType
<1>2. Spec => []SkipInv
  BY StreamInvariant, InitSkip, NextSkip, PTL DEF Spec
<1> QED BY <1>1, <1>2, StreamInvariant, PTL
=============================================================================
