---------------------------- MODULE LayoutProofs ----------------------------
(***************************************************************************)
(* Proofs about Layout, for every intermediate code, every frame and every *)
(* size of immediates.  io_deadcode keeps what is needed and nothing else, *)
(* in order, with every operand and every jump's target (NothingLost).     *)
(* The passes after it keep an invariant, LayoutInv: what is written and   *)
(* what is still to come make the code of the instructions, and the tables *)
(* say where in it relocations and jumps are.  So no bit of the finished   *)
(* code is lost or doubled (WholeCode), and every relocation is where a    *)
(* symbol is (RelocsHit).  They keep a second one, LandInv: jumps have     *)
(* the labels they go to, labels are right before what they are labels of, *)
(* and the sizes chosen for jumps stay large enough.  So every jump of the *)
(* finished code, read bit by bit, goes where its source says (JumpsLand). *)
(***************************************************************************)
EXTENDS SequenceTheorems, TLAPS, FoldProofs, Layout

-----------------------------------------------------------------------------
(* Intermediate code.                                                      *)

\* What ic_get works on: an operand is the value of an earlier instruction, a
\* target a place in the code or its end.
WellFormed(c) ==
    /\ c \in Seq(Ins)
    /\ \A i \in DOMAIN c : /\ c[i].id = i /\ c[i].a3 <= Len(c)
                           /\ c[i].op \in Readers => c[i].a1 < i - 1

\* The return that ic_get adds is like that.
LEMMA WithRetWellFormed ==
    ASSUME NEW s \in Sources \cup More
    PROVE  WellFormed(WithRet(s))
<1>1. /\ s \in Seq(Ins)
      /\ \A i \in DOMAIN s : /\ s[i].id = i /\ s[i].a3 <= Len(s)
                             /\ s[i].op \in Readers => s[i].a1 < i - 1
  BY LayoutAssumption
<1> DEFINE mov == [op |-> "mov", a1 |-> 0, a3 |-> 0, w |-> 1, id |-> Len(s) + 1]
           ret == [op |-> "ret", a1 |-> Len(s), a3 |-> 0, w |-> 0, id |-> Len(s) + 2]
           c   == s \o <<mov, ret>>
<1>2. Len(s) \in Nat
  BY <1>1
<1>3. mov \in Ins /\ ret \in Ins
  BY <1>2 DEF Ins, Ops
<1>4. mov.op = "mov" /\ mov.a3 = 0 /\ mov.id = Len(s) + 1
  OBVIOUS
<1>5. ret.op = "ret" /\ ret.a1 = Len(s) /\ ret.a3 = 0 /\ ret.id = Len(s) + 2
  OBVIOUS
<1>6. "mov" \notin Readers
  BY DEF Readers
<1>7. WithRet(s) = s \/ WithRet(s) = c
  BY DEF WithRet
<1> HIDE DEF mov, ret
<1>8. CASE WithRet(s) = c
  <2>1. c \in Seq(Ins) /\ Len(c) = Len(s) + 2
    BY <1>1, <1>3
  <2>2. \A i \in 1 .. Len(s) : c[i] = s[i]
    BY <1>1, <1>3
  <2>3. c[Len(s) + 1] = mov /\ c[Len(s) + 2] = ret
    BY <1>1, <1>3
  <2>4. \A i \in DOMAIN c : i \in 1 .. Len(s) \/ i = Len(s) + 1 \/ i = Len(s) + 2
    BY <2>1
  <2>5. ASSUME NEW i \in 1 .. Len(s)
        PROVE  s[i].a3 \in Nat /\ s[i].a3 <= Len(s)
    <3>1. s[i] \in Ins /\ i \in DOMAIN s
      BY <1>1
    <3> QED BY <3>1, <1>1 DEF Ins
  <2> HIDE DEF c
  <2>6. ASSUME NEW i \in DOMAIN c
        PROVE  c[i].id = i /\ c[i].a3 <= Len(c) /\ (c[i].op \in Readers => c[i].a1 < i - 1)
    <3>1. CASE i \in 1 .. Len(s)
      BY <3>1, <1>1, <1>2, <2>1, <2>2, <2>5
    <3>2. CASE i = Len(s) + 1
      BY <3>2, <1>2, <2>1, <2>3, <1>4, <1>6
    <3>3. CASE i = Len(s) + 2
      BY <3>3, <1>2, <2>1, <2>3, <1>5
    <3> QED BY <3>1, <3>2, <3>3, <2>4
  <2> QED BY <1>8, <2>1, <2>6 DEF WellFormed
<1>9. CASE WithRet(s) = s
  BY <1>9, <1>1 DEF WellFormed
<1> QED BY <1>7, <1>8, <1>9

\* An instruction reads the value of one before it.
LEMMA ReadsEarlier ==
    ASSUME NEW c, WellFormed(c), NEW j \in DOMAIN c, NEW i \in Reads(c, j)
    PROVE  i = c[j].a1 + 1 /\ c[j].a1 \in Nat /\ i \in DOMAIN c /\ i < j /\ c[j].op \in Readers
<1>1. c[j].op \in Readers /\ i = c[j].a1 + 1
  BY DEF Reads
<1>2. c \in Seq(Ins) /\ j \in 1 .. Len(c) /\ DOMAIN c = 1 .. Len(c) /\ Len(c) \in Nat
  BY DEF WellFormed
<1>3. c[j] \in Ins
  BY <1>2
<1>4. c[j].a1 \in Nat /\ c[j].a1 < j - 1
  BY <1>1, <1>3 DEF WellFormed, Ins
<1> QED BY <1>1, <1>2, <1>4

-----------------------------------------------------------------------------
(* What is live.                                                           *)

\* The instructions with an effect; a set of instructions with everything they
\* read; and the least such set around the effects.
Effects(c)       == {i \in DOMAIN c : ~IsOut(c, i) \/ c[i].op \in {"call", "callsym"}}
ClosedIn(c, S)   == \A j \in S : Reads(c, j) \subseteq S
Around(c, S)     == S \in SUBSET DOMAIN c /\ Effects(c) \subseteq S /\ ClosedIn(c, S)
LeastAround(c)   == {i \in DOMAIN c : \A S \in SUBSET DOMAIN c : Around(c, S) => i \in S}

\* All of the code is such a set, and so is the least one.
LEMMA LeastIsAround ==
    ASSUME NEW c, WellFormed(c)
    PROVE  Around(c, LeastAround(c)) /\ \A S : Around(c, S) => LeastAround(c) \subseteq S
<1>1. Effects(c) \subseteq LeastAround(c)
  BY DEF LeastAround, Around, Effects
<1>2. ASSUME NEW j \in LeastAround(c), NEW i \in Reads(c, j)
      PROVE  i \in LeastAround(c)
  <2>1. j \in DOMAIN c
    BY DEF LeastAround
  <2>2. i \in DOMAIN c
    BY <2>1, ReadsEarlier
  <2>3. ASSUME NEW S \in SUBSET DOMAIN c, Around(c, S)
        PROVE  i \in S
    BY <2>3 DEF LeastAround, Around, ClosedIn
  <2> QED BY <2>2, <2>3 DEF LeastAround
<1>3. LeastAround(c) \in SUBSET DOMAIN c
  BY DEF LeastAround
<1>4. \A S : Around(c, S) => LeastAround(c) \subseteq S
  BY DEF LeastAround, Around
<1> QED BY <1>1, <1>2, <1>3, <1>4 DEF Around, ClosedIn

\* The equation of live[].
LiveFrom(c, f) == [i \in DOMAIN c |-> \/ ~IsOut(c, i) \/ c[i].op \in {"call", "callsym"}
                                      \/ \E j \in i + 1 .. Len(c) : i \in Reads(c, j) /\ f[j]]

\* An instruction that is live by it is read by one that is, or has an effect.
LEMMA LiveBy ==
    ASSUME NEW c, WellFormed(c), NEW f, f = LiveFrom(c, f), NEW i \in DOMAIN c
    PROVE  f[i] <=> i \in Effects(c) \/ \E j \in DOMAIN c : i < j /\ i \in Reads(c, j) /\ f[j]
<1>1. f[i] = (\/ ~IsOut(c, i) \/ c[i].op \in {"call", "callsym"}
              \/ \E j \in i + 1 .. Len(c) : i \in Reads(c, j) /\ f[j])
  <2>1. LiveFrom(c, f)[i] = (\/ ~IsOut(c, i) \/ c[i].op \in {"call", "callsym"}
                             \/ \E j \in i + 1 .. Len(c) : i \in Reads(c, j) /\ f[j])
    BY DEF LiveFrom
  <2> QED BY <2>1
<1>2. DOMAIN c = 1 .. Len(c) /\ Len(c) \in Nat
  BY DEF WellFormed
<1>3. \A j : j \in i + 1 .. Len(c) <=> j \in DOMAIN c /\ i < j
  BY <1>2
<1>4. i \in Effects(c) <=> (~IsOut(c, i) \/ c[i].op \in {"call", "callsym"})
  BY DEF Effects
<1>5. f[i] <=> i \in Effects(c) \/ \E j \in i + 1 .. Len(c) : i \in Reads(c, j) /\ f[j]
  BY <1>1, <1>4
<1> QED BY <1>3, <1>5, Zenon

\* The least set satisfies it.
LEMMA LiveExists ==
    ASSUME NEW c, WellFormed(c)
    PROVE  LET f == [i \in DOMAIN c |-> i \in LeastAround(c)] IN f = LiveFrom(c, f)
<1> DEFINE L == LeastAround(c)
           f == [i \in DOMAIN c |-> i \in L]
<1>1. Around(c, L) /\ \A S : Around(c, S) => L \subseteq S
  BY LeastIsAround
<1> HIDE DEF L
<1>2. DOMAIN c = 1 .. Len(c) /\ Len(c) \in Nat
  BY DEF WellFormed
<1>3. ASSUME NEW i \in DOMAIN c
      PROVE  (i \in L) = (\/ ~IsOut(c, i) \/ c[i].op \in {"call", "callsym"}
                          \/ \E j \in i + 1 .. Len(c) : i \in Reads(c, j) /\ f[j])
  <2>1. ASSUME ~IsOut(c, i) \/ c[i].op \in {"call", "callsym"}
        PROVE  i \in L
    BY <1>1, <2>1 DEF Around, Effects
  <2>2. ASSUME NEW j \in i + 1 .. Len(c), i \in Reads(c, j), f[j]
        PROVE  i \in L
    <3>1. j \in DOMAIN c
      BY <1>2
    <3>2. j \in L
      BY <3>1, <2>2
    <3> QED BY <3>2, <2>2, <1>1 DEF Around, ClosedIn
  <2>3. ASSUME i \in L, i \notin Effects(c),
               \A j \in i + 1 .. Len(c) : i \in Reads(c, j) => ~ f[j]
        PROVE  FALSE
    <3> DEFINE S == L \ {i}
    <3>1. S \in SUBSET DOMAIN c /\ Effects(c) \subseteq S
      BY <1>1, <2>3 DEF Around
    <3>2. ASSUME NEW j \in S, NEW k \in Reads(c, j)
          PROVE  k \in S
      <4>1. k \in L /\ j \in DOMAIN c /\ j \in L
        BY <1>1 DEF Around, ClosedIn
      <4>2. k < j /\ k \in DOMAIN c
        BY <4>1, ReadsEarlier
      <4>3. CASE k = i
        <5>1. j \in i + 1 .. Len(c)
          BY <4>1, <4>2, <4>3, <1>2
        <5>2. ~ f[j]
          BY <5>1, <2>3, <4>3
        <5>3. f[j]
          BY <4>1
        <5> QED BY <5>2, <5>3
      <4> QED BY <4>1, <4>3
    <3> HIDE DEF S
    <3>3. Around(c, S)
      BY <3>1, <3>2 DEF Around, ClosedIn
    <3> QED BY <1>1, <3>3, <2>3 DEF S
  <2>4. i \in Effects(c) <=> (~IsOut(c, i) \/ c[i].op \in {"call", "callsym"})
    BY DEF Effects
  <2> DEFINE R == \/ ~IsOut(c, i) \/ c[i].op \in {"call", "callsym"}
                  \/ \E j \in i + 1 .. Len(c) : i \in Reads(c, j) /\ f[j]
  <2>5. R => i \in L
    BY <2>1, <2>2
  <2>6. i \in L => R
    BY <2>3, <2>4
  <2> HIDE DEF R
  <2>7. R \in BOOLEAN
    BY DEF R
  <2>8. (i \in L) = R
    BY <2>5, <2>6, <2>7
  <2> QED BY <2>8 DEF R
<1>4. f = [i \in DOMAIN c |-> \/ ~IsOut(c, i) \/ c[i].op \in {"call", "callsym"}
                              \/ \E j \in i + 1 .. Len(c) : i \in Reads(c, j) /\ f[j]]
  <2> DEFINE g == [i \in DOMAIN c |-> \/ ~IsOut(c, i) \/ c[i].op \in {"call", "callsym"}
                              \/ \E j \in i + 1 .. Len(c) : i \in Reads(c, j) /\ f[j]]
  <2>1. \A i \in DOMAIN c : f[i] = (i \in L)
    OBVIOUS
  <2>2. \A i \in DOMAIN c : g[i] = (\/ ~IsOut(c, i) \/ c[i].op \in {"call", "callsym"}
                          \/ \E j \in i + 1 .. Len(c) : i \in Reads(c, j) /\ f[j])
    BY Zenon
  <2>3. \A i \in DOMAIN c : f[i] = g[i]
    <3> HIDE DEF f, g
    <3> QED BY <2>1, <2>2, <1>3, Zenon
  <2> QED BY <2>3, Zenon
<1> QED BY <1>4 DEF LiveFrom, L

\* live[] marks the least set around the effects.
LEMMA LiveIsLeast ==
    ASSUME NEW c, WellFormed(c)
    PROVE  Live(c) = LeastAround(c)
<1> DEFINE f == CHOOSE f : f = LiveFrom(c, f)
           L == LeastAround(c)
           P == {i \in DOMAIN c : f[i]}
<1>1. Live(c) = P
  BY DEF Live, LiveFrom
<1>2. \E g : g = LiveFrom(c, g)
  BY LiveExists
<1>3. f = LiveFrom(c, f)
  BY <1>2
<1> HIDE DEF f
<1>4. Around(c, L) /\ \A S : Around(c, S) => L \subseteq S
  BY LeastIsAround
<1> HIDE DEF L
<1>5. DOMAIN c = 1 .. Len(c) /\ Len(c) \in Nat
  BY DEF WellFormed
<1>6. \A i \in DOMAIN c : i \in P <=> i \in Effects(c) \/ \E j \in P : i < j /\ i \in Reads(c, j)
  <2>1. \A i \in DOMAIN c : f[i] <=> i \in Effects(c) \/ \E j \in DOMAIN c : i < j /\ i \in Reads(c, j) /\ f[j]
    BY <1>3, LiveBy
  <2> QED BY <2>1, Zenon
<1>7. P \subseteq DOMAIN c
  OBVIOUS
<1> HIDE DEF P
<1>8. Around(c, P)
  <2>1. Effects(c) \subseteq P
    BY <1>6 DEF Effects
  <2>2. ASSUME NEW j \in P, NEW i \in Reads(c, j)
        PROVE  i \in P
    <3>1. i \in DOMAIN c /\ i < j
      BY <1>7, ReadsEarlier
    <3> QED BY <3>1, <1>6
  <2> QED BY <1>7, <2>1, <2>2 DEF Around, ClosedIn
<1>9. ASSUME P \ L # {}
      PROVE  FALSE
  <2> DEFINE M == P \ L
  <2>1. M \in SUBSET (1 .. Len(c))
    BY <1>5, <1>7
  <2>2. Greatest(M) \in M /\ \A k \in M : k <= Greatest(M)
    BY <2>1, <1>5, <1>9, GreatestOfPart
  <2>3. PICK m \in M : \A k \in M : k <= m
    BY <2>2
  <2>4. m \in DOMAIN c /\ m \in P /\ m \notin L
    BY <1>7
  <2>5. m \notin Effects(c)
    BY <2>4, <1>4 DEF Around
  <2>6. PICK j \in P : m < j /\ m \in Reads(c, j)
    BY <2>4, <2>5, <1>6
  <2>7. j \notin M
    BY <2>3, <2>6, <2>1, <1>5, <1>7
  <2>8. j \in L
    BY <2>7
  <2> QED BY <2>8, <2>6, <2>4, <1>4 DEF Around, ClosedIn
<1> QED BY <1>1, <1>4, <1>8, <1>9 DEF L

-----------------------------------------------------------------------------
(* New indices.                                                            *)

\* How many of S there are up to i.
Count(S, i) == Cardinality({j \in S : j <= i})

\* It goes up by one at every element of S, and nowhere else.
LEMMA CountStep ==
    ASSUME NEW n \in Nat, NEW S \in SUBSET (1 .. n)
    PROVE  /\ \A i \in Nat : Count(S, i) \in Nat
           /\ Count(S, 0) = 0 /\ Count(S, n) = Cardinality(S)
           /\ \A i \in Nat : Count(S, i + 1) = IF i + 1 \in S THEN Count(S, i) + 1 ELSE Count(S, i)
<1>1. IsFiniteSet(S)
  <2>1. IsFiniteSet(1 .. n)
    BY FS_Interval
  <2> QED BY <2>1, FS_Subset
<1>2. \A i \in Nat : IsFiniteSet({j \in S : j <= i})
  BY <1>1, FS_Subset
<1>3. \A i \in Nat : Count(S, i) \in Nat
  BY <1>2, FS_CardinalityType DEF Count
<1>4. {j \in S : j <= 0} = {} /\ {j \in S : j <= n} = S
  <2>1. \A j \in S : j \in 1 .. n
    OBVIOUS
  <2>2. \A j \in S : j <= n /\ ~ (j <= 0)
    BY <2>1
  <2> QED BY <2>2
<1>5. Count(S, 0) = 0
  BY <1>4, FS_EmptySet DEF Count
<1>6. ASSUME NEW i \in Nat
      PROVE  Count(S, i + 1) = IF i + 1 \in S THEN Count(S, i) + 1 ELSE Count(S, i)
  <2> DEFINE T == {j \in S : j <= i}
             U == {j \in S : j <= i + 1}
  <2>1. IsFiniteSet(T) /\ i + 1 \notin T
    BY <1>2
  <2>2. U = IF i + 1 \in S THEN T \cup {i + 1} ELSE T
    <3>1. \A j \in S : j \in Int /\ (j <= i + 1 <=> j <= i \/ j = i + 1)
      OBVIOUS
    <3> QED BY <3>1
  <2> HIDE DEF T, U
  <2>3. Cardinality(U) = IF i + 1 \in S THEN Cardinality(T) + 1 ELSE Cardinality(T)
    BY <2>1, <2>2, FS_AddElement
  <2> QED BY <2>3 DEF Count, T, U
<1> QED BY <1>3, <1>4, <1>5, <1>6 DEF Count

\* It never goes down, and goes up to every element of S.
LEMMA CountUp ==
    ASSUME NEW n \in Nat, NEW S \in SUBSET (1 .. n), NEW i \in Nat, NEW k \in Nat
    PROVE  /\ i <= k => Count(S, i) <= Count(S, k)
           /\ i < k /\ k \in S => Count(S, i) < Count(S, k)
<1>1. /\ \A j \in Nat : Count(S, j) \in Nat
      /\ \A j \in Nat : Count(S, j + 1) = IF j + 1 \in S THEN Count(S, j) + 1 ELSE Count(S, j)
  BY CountStep
<1> DEFINE T == {m \in Nat : i <= m => Count(S, i) <= Count(S, m)}
<1>2. 0 \in T
  BY <1>1
<1>3. ASSUME NEW m \in Nat, m \in T
      PROVE  m + 1 \in T
  <2>1. Count(S, m + 1) \in Nat /\ Count(S, m) \in Nat /\ Count(S, i) \in Nat
    BY <1>1
  <2>2. Count(S, m) <= Count(S, m + 1)
    BY <1>1, <2>1
  <2>3. i <= m + 1 => i <= m \/ i = m + 1
    OBVIOUS
  <2> QED BY <1>3, <2>1, <2>2, <2>3
<1>4. \A m \in Nat : m \in T
  <2> HIDE DEF T
  <2> QED BY <1>2, <1>3, NatInd
<1>5. i <= k => Count(S, i) <= Count(S, k)
  BY <1>4
<1>6. ASSUME i < k, k \in S
      PROVE  Count(S, i) < Count(S, k)
  <2>1. k - 1 \in Nat /\ (k - 1) + 1 = k /\ i <= k - 1
    BY <1>6
  <2>2. Count(S, k) = Count(S, k - 1) + 1
    BY <2>1, <1>1, <1>6
  <2>3. Count(S, i) <= Count(S, k - 1)
    BY <2>1, <1>4
  <2> QED BY <2>1, <2>2, <2>3, <1>1
<1> QED BY <1>5, <1>6

\* The k-th element of S.
IsNth(S, k, i) == i \in S /\ Count(S, i - 1) = k - 1
Nth(S, k)      == CHOOSE i \in S : Count(S, i - 1) = k - 1

\* There is a k-th element for every k up to the size of S, and only one.
LEMMA NthExists ==
    ASSUME NEW n \in Nat, NEW S \in SUBSET (1 .. n), NEW k \in 1 .. Cardinality(S)
    PROVE  IsNth(S, k, Nth(S, k))
<1>1. /\ \A i \in Nat : Count(S, i) \in Nat
      /\ Count(S, 0) = 0 /\ Count(S, n) = Cardinality(S)
      /\ \A i \in Nat : Count(S, i + 1) = IF i + 1 \in S THEN Count(S, i) + 1 ELSE Count(S, i)
  BY CountStep
<1>2. Cardinality(S) \in Nat
  BY <1>1
<1> DEFINE T == {i \in Nat : Count(S, i) >= k}
<1>3. n \in T
  BY <1>1, <1>2
<1>4. PICK m \in T : \A i \in T : m <= i
  <2> HIDE DEF T
  <2>1. T \subseteq Nat
    BY DEF T
  <2> QED BY <1>3, <2>1, LeastNat
<1>5. m \in Nat /\ Count(S, m) >= k /\ m # 0
  BY <1>1
<1>6. m - 1 \in Nat /\ (m - 1) + 1 = m
  BY <1>5
<1>7. Count(S, m - 1) < k
  BY <1>1, <1>4, <1>6
<1>8. Count(S, m) = IF m \in S THEN Count(S, m - 1) + 1 ELSE Count(S, m - 1)
  BY <1>1, <1>6
<1>9. m \in S /\ Count(S, m - 1) = k - 1
  BY <1>1, <1>5, <1>6, <1>7, <1>8, SMTT(30)
<1> QED BY <1>9 DEF Nth, IsNth

\* What it is, for an element of S; and in what order.
LEMMA NthIs ==
    ASSUME NEW n \in Nat, NEW S \in SUBSET (1 .. n)
    PROVE  /\ \A k \in 1 .. Cardinality(S) : Nth(S, k) \in S /\ Count(S, Nth(S, k)) = k
           /\ \A i \in S : Count(S, i) \in 1 .. Cardinality(S) /\ Nth(S, Count(S, i)) = i
           /\ \A j, k \in 1 .. Cardinality(S) : j < k => Nth(S, j) < Nth(S, k)
<1>1. /\ \A i \in Nat : Count(S, i) \in Nat
      /\ Count(S, 0) = 0 /\ Count(S, n) = Cardinality(S)
      /\ \A i \in Nat : Count(S, i + 1) = IF i + 1 \in S THEN Count(S, i) + 1 ELSE Count(S, i)
  BY CountStep
<1>2. Cardinality(S) \in Nat
  BY <1>1
<1>3. ASSUME NEW i \in S
      PROVE  /\ i \in Nat /\ i - 1 \in Nat /\ i <= n
             /\ Count(S, i - 1) \in Nat /\ Count(S, i) = Count(S, i - 1) + 1
             /\ Count(S, i) \in 1 .. Cardinality(S)
  <2>1. i \in Nat /\ i - 1 \in Nat /\ (i - 1) + 1 = i /\ i <= n
    OBVIOUS
  <2>2. Count(S, i) = Count(S, i - 1) + 1 /\ Count(S, i - 1) \in Nat
    BY <1>1, <2>1
  <2>3. Count(S, i) <= Count(S, n)
    BY <2>1, CountUp
  <2> QED BY <1>1, <2>1, <2>2, <2>3
<1>4. ASSUME NEW k \in 1 .. Cardinality(S)
      PROVE  Nth(S, k) \in S /\ Count(S, Nth(S, k)) = k
  <2>1. IsNth(S, k, Nth(S, k))
    BY NthExists
  <2> DEFINE i == Nth(S, k)
  <2>2. i \in S /\ Count(S, i - 1) = k - 1
    BY <2>1 DEF IsNth
  <2> HIDE DEF i
  <2>3. Count(S, i) = Count(S, i - 1) + 1
    BY <1>3, <2>2
  <2>4. Count(S, i) = k
    BY <1>2, <2>2, <2>3
  <2> QED BY <2>2, <2>4 DEF i
<1>5. ASSUME NEW i \in S, NEW j \in S, Count(S, i) = Count(S, j)
      PROVE  i = j
  <2>1. i < j => Count(S, i) < Count(S, j)
    BY <1>3, CountUp
  <2>2. j < i => Count(S, j) < Count(S, i)
    BY <1>3, CountUp
  <2> QED BY <1>3, <1>5, <2>1, <2>2
<1>6. ASSUME NEW i \in S
      PROVE  Nth(S, Count(S, i)) = i
  <2>1. Count(S, i) \in 1 .. Cardinality(S)
    BY <1>3
  <2>2. Nth(S, Count(S, i)) \in S /\ Count(S, Nth(S, Count(S, i))) = Count(S, i)
    BY <1>4, <2>1
  <2> QED BY <1>5, <2>2
<1>7. ASSUME NEW j \in 1 .. Cardinality(S), NEW k \in 1 .. Cardinality(S), j < k
      PROVE  Nth(S, j) < Nth(S, k)
  <2> DEFINE x == Nth(S, j)
             y == Nth(S, k)
  <2>1. x \in S /\ y \in S /\ Count(S, x) = j /\ Count(S, y) = k
    BY <1>4
  <2> HIDE DEF x, y
  <2>2. y <= x => Count(S, y) <= Count(S, x)
    BY <1>3, <2>1, CountUp
  <2>3. x < y
    BY <1>3, <2>1, <2>2, <1>7, <1>2
  <2> QED BY <2>3 DEF x, y
<1> QED BY <1>3, <1>4, <1>6, <1>7

-----------------------------------------------------------------------------
(* Dead code.                                                              *)

\* The function that ic_get has been given goes through the passes unchanged.
GotCode == pc # "idle" \/ funcs > 0 => src \in Sources \cup More /\ ic = Alive(WithRet(src))

\* No step but GetCode touches it.
LEMMA CodeIsGot == Spec => []GotCode
<1>1. Init => GotCode
  BY DEF Init, GotCode
<1>2. GotCode /\ [Next]_vars => GotCode'
  <2> SUFFICES ASSUME GotCode, [Next]_vars PROVE GotCode'
    OBVIOUS
  <2> USE DEF GotCode
  <2>1. ASSUME NEW s \in Sources \cup More, GetCode(s)
        PROVE  GotCode'
    BY <2>1 DEF GetCode
  <2>2. CASE Emit
    <3>1. UNCHANGED <<pc, src, ic>>
      BY <2>2 DEF Emit, EmitPlain, EmitSym, EmitCall, EmitCallSym, EmitJump, EmitRet, Emitted
    <3>2. pc # "idle"
      BY <2>2 DEF Emit, EmitPlain, EmitSym, EmitCall, EmitCallSym, EmitJump, EmitRet, Emitting
    <3> QED BY <3>1, <3>2
  <2>3. CASE Generated
    BY <2>3 DEF Generated
  <2>4. ASSUME NEW f \in Frames, Wrap(f)
        PROVE  GotCode'
    BY <2>4 DEF Wrap
  <2>5. CASE AlignStep
    BY <2>5 DEF AlignStep
  <2>6. CASE AlignDone
    BY <2>6 DEF AlignDone
  <2>7. CASE JumpSizes
    BY <2>7 DEF JumpSizes
  <2>8. CASE ShrinkStep
    BY <2>8 DEF ShrinkStep
  <2>9. CASE ShrinkDone
    BY <2>9 DEF ShrinkDone
  <2>10. CASE WriteJump
    BY <2>10 DEF WriteJump
  <2>11. CASE Code
    BY <2>11 DEF Code
  <2>12. CASE UNCHANGED vars
    BY <2>12 DEF vars
  <2>13. CASE Compiled
    BY <2>12, <2>13 DEF Compiled
  <2> QED BY <2>1, <2>2, <2>3, <2>4, <2>5, <2>6, <2>7, <2>8, <2>9, <2>10, <2>11, <2>12, <2>13 DEF Next
<1> QED BY <1>1, <1>2, PTL DEF Spec

\* The code that is left, by the instructions it is of.
LEMMA AliveIs ==
    ASSUME NEW c, WellFormed(c), NEW k \in DOMAIN Alive(c)
    PROVE  /\ DOMAIN Alive(c) = 1 .. Cardinality(Live(c)) /\ Live(c) \in SUBSET (1 .. Len(c)) /\ Len(c) \in Nat
           /\ k \in 1 .. Cardinality(Live(c))
           /\ Alive(c)[k] = Renumbered(c, Nth(Live(c), k)) /\ Nth(Live(c), k) \in Live(c)
<1>1. DOMAIN c = 1 .. Len(c) /\ Len(c) \in Nat
  BY DEF WellFormed
<1>2. Live(c) \in SUBSET (1 .. Len(c))
  BY <1>1, LiveIsLeast DEF LeastAround
<1>3. DOMAIN Alive(c) = 1 .. Cardinality(Live(c))
  BY DEF Alive
<1>4. Alive(c)[k] = Renumbered(c, CHOOSE i \in Live(c) : NewIndex(c, i - 1) = k - 1)
  BY <1>3 DEF Alive
<1>5. Nth(Live(c), k) = CHOOSE i \in Live(c) : NewIndex(c, i - 1) = k - 1
  BY DEF Nth, NewIndex, Count
<1>6. Nth(Live(c), k) \in Live(c)
  BY <1>1, <1>2, <1>3, NthIs
<1> QED BY <1>1, <1>2, <1>3, <1>4, <1>5, <1>6

\* What Renumbered changes and what it leaves.
LEMMA RenumberedIs ==
    ASSUME NEW c, WellFormed(c), NEW i \in DOMAIN c
    PROVE  LET r == Renumbered(c, i) IN
           /\ r.id = i /\ r.op = c[i].op /\ r.w = c[i].w
           /\ c[i].op \in Readers => r.a1 = NewIndex(c, c[i].a1)
           /\ Jumps(c, i) => r.a3 = NewIndex(c, c[i].a3)
<1>1. c[i] \in Ins /\ c[i].id = i
  BY DEF WellFormed
<1>2. c[i].op \in Readers => Reads(c, i) # {}
  BY DEF Reads
<1> QED BY <1>1, <1>2 DEF Renumbered, Ins

\* What NothingLost says of the code that is left of c.
Complete(c, a) ==
    /\ {a[k].id : k \in DOMAIN a} = LeastAround(c)
    /\ \A j, k \in DOMAIN a : j < k => a[j].id < a[k].id
    /\ \A k \in DOMAIN a :
          /\ a[k].op = c[a[k].id].op /\ a[k].w = c[a[k].id].w
          /\ Reads(a, k) # {} => a[a[k].a1 + 1].id = c[a[k].id].a1 + 1
          /\ Jumps(a, k) => \A j \in DOMAIN a : j <= a[k].a3 <=> a[j].id <= c[a[k].id].a3

\* io_deadcode keeps what is needed and nothing else.
LEMMA AliveIsComplete ==
    ASSUME NEW c, WellFormed(c)
    PROVE  Complete(c, Alive(c))
<1> DEFINE a    == Alive(c)
           L    == Live(c)
           i(k) == Nth(L, k)
<1>1. c \in Seq(Ins) /\ DOMAIN c = 1 .. Len(c) /\ Len(c) \in Nat
  BY DEF WellFormed
<1>2. L = LeastAround(c)
  BY LiveIsLeast
<1>3. L \in SUBSET (1 .. Len(c))
  BY <1>1, <1>2 DEF LeastAround
<1>4. DOMAIN a = 1 .. Cardinality(L)
  BY DEF Alive
<1>5. /\ \A k \in 1 .. Cardinality(L) : i(k) \in L /\ Count(L, i(k)) = k
      /\ \A m \in L : Count(L, m) \in 1 .. Cardinality(L) /\ Nth(L, Count(L, m)) = m
      /\ \A j, k \in 1 .. Cardinality(L) : j < k => i(j) < i(k)
  BY <1>1, <1>3, NthIs
<1>6. \A m \in Nat : NewIndex(c, m) = Count(L, m)
  BY DEF NewIndex, Count
<1>7. \A k \in DOMAIN a : a[k] = Renumbered(c, i(k)) /\ i(k) \in L
  BY AliveIs
<1> HIDE DEF a, L, i
<1>8. ASSUME NEW k \in DOMAIN a
      PROVE  /\ a[k].id = i(k) /\ i(k) \in L /\ i(k) \in DOMAIN c
             /\ a[k].op = c[i(k)].op /\ a[k].w = c[i(k)].w
             /\ c[i(k)].op \in Readers => a[k].a1 = NewIndex(c, c[i(k)].a1)
             /\ Jumps(c, i(k)) => a[k].a3 = NewIndex(c, c[i(k)].a3)
  <2>1. a[k] = Renumbered(c, i(k)) /\ i(k) \in L
    BY <1>7
  <2>2. i(k) \in DOMAIN c
    BY <2>1, <1>1, <1>3
  <2> QED BY <2>1, <2>2, RenumberedIs
<1>9. {a[k].id : k \in DOMAIN a} = L
  <2>1. ASSUME NEW m \in L
        PROVE  \E k \in DOMAIN a : a[k].id = m
    <3>1. Count(L, m) \in DOMAIN a /\ i(Count(L, m)) = m
      BY <1>4, <1>5 DEF i
    <3> QED BY <3>1, <1>8
  <2> QED BY <2>1, <1>8
<1>10. \A j, k \in DOMAIN a : j < k => a[j].id < a[k].id
  BY <1>4, <1>5, <1>8
<1>11. ASSUME NEW k \in DOMAIN a, Reads(a, k) # {}
       PROVE  a[a[k].a1 + 1].id = c[a[k].id].a1 + 1
  <2> DEFINE x == c[i(k)].a1
  <2>1. a[k].op \in Readers
    BY <1>11 DEF Reads
  <2>2. c[i(k)].op \in Readers /\ a[k].a1 = NewIndex(c, x) /\ a[k].id = i(k)
    BY <2>1, <1>8
  <2>3. Reads(c, i(k)) = {x + 1}
    BY <2>2 DEF Reads
  <2>4. x \in Nat /\ x + 1 \in L
    <3>1. x \in Nat
      BY <2>3, <1>8, ReadsEarlier
    <3>2. Around(c, L) /\ i(k) \in L
      BY <1>2, <1>8, LeastIsAround
    <3> QED BY <3>1, <3>2, <2>3 DEF Around, ClosedIn
  <2> HIDE DEF x
  <2>5. a[k].a1 = Count(L, x)
    BY <2>2, <2>4, <1>6
  <2>6. Count(L, x + 1) = Count(L, x) + 1
    BY <2>4, <1>1, <1>3, CountStep
  <2>7. Count(L, x + 1) \in DOMAIN a /\ i(Count(L, x + 1)) = x + 1
    BY <2>4, <1>4, <1>5 DEF i
  <2>8. a[Count(L, x + 1)].id = x + 1
    BY <2>7, <1>8
  <2>9. a[k].a1 + 1 = Count(L, x + 1)
    BY <2>5, <2>6
  <2>10. a[a[k].a1 + 1].id = x + 1
    BY <2>8, <2>9
  <2> QED BY <2>10, <2>2 DEF x
<1>12. ASSUME NEW k \in DOMAIN a, Jumps(a, k), NEW j \in DOMAIN a
       PROVE  j <= a[k].a3 <=> a[j].id <= c[a[k].id].a3
  <2> DEFINE t == c[i(k)].a3
             m == i(j)
  <2>1. Jumps(c, i(k))
    BY <1>12, <1>8 DEF Jumps
  <2>2. a[k].a3 = NewIndex(c, t) /\ a[k].id = i(k) /\ a[j].id = m /\ m \in L
    BY <2>1, <1>8
  <2>3. t \in Nat
    <3>1. c[i(k)] \in Ins
      BY <1>8, <1>1
    <3> QED BY <3>1 DEF Ins
  <2>4. Count(L, m) = j
    BY <1>4, <1>5
  <2> HIDE DEF t, m
  <2>5. a[k].a3 = Count(L, t)
    BY <2>2, <2>3, <1>6
  <2>6. m \in Nat
    BY <2>2, <1>3
  <2>7. m <= t => Count(L, m) <= Count(L, t)
    BY <2>3, <2>6, <1>1, <1>3, CountUp
  <2>8. t < m => Count(L, t) < Count(L, m)
    BY <2>2, <2>3, <2>6, <1>1, <1>3, CountUp
  <2>9. Count(L, t) \in Nat /\ j \in Nat
    BY <2>3, <2>4, <2>6, <1>1, <1>3, CountStep
  <2>10. j <= Count(L, t) <=> m <= t
    BY <2>3, <2>4, <2>6, <2>7, <2>8, <2>9
  <2> QED BY <2>2, <2>5, <2>10 DEF t
<1>13. {a[k].id : k \in DOMAIN a} = LeastAround(c)
  BY <1>2, <1>9
<1>14. \A k \in DOMAIN a : a[k].op = c[a[k].id].op /\ a[k].w = c[a[k].id].w
  BY <1>8
<1> QED BY <1>10, <1>11, <1>12, <1>13, <1>14 DEF Complete, a

\* The set that NothingLost asks for is the least one around the effects.
LEMMA NeededIsLeast ==
    ASSUME WellFormed(Whole)
    PROVE  Needed = LeastAround(Whole)
<1> DEFINE c == Whole
           E == {i \in DOMAIN Whole : ~IsOut(Whole, i) \/ Whole[i].op \in {"call", "callsym"}}
           L == LeastAround(c)
           Is(S) == /\ E \subseteq S /\ Closed(S)
                    /\ \A T \in SUBSET S : E \subseteq T /\ Closed(T) => T = S
<1>1. \A S : Closed(S) <=> ClosedIn(c, S)
  BY DEF Closed, ClosedIn
<1>2. E = Effects(c)
  BY DEF Effects
<1>3. Around(c, L) /\ \A S : Around(c, S) => L \subseteq S
  BY LeastIsAround
<1>4. Needed = CHOOSE S \in SUBSET DOMAIN c : Is(S)
  BY DEF Needed
<1> HIDE DEF c, E, L
<1>5. L \in SUBSET DOMAIN c /\ Is(L)
  BY <1>1, <1>2, <1>3 DEF Around
<1>6. ASSUME NEW S \in SUBSET DOMAIN c, Is(S)
      PROVE  S = L
  <2>1. Around(c, S)
    BY <1>1, <1>2, <1>6 DEF Around
  <2>2. L \subseteq S
    BY <2>1, <1>3
  <2> QED BY <2>2, <1>5, <1>6
<1> HIDE DEF Is
<1>7. Needed = L
  BY <1>4, <1>5, <1>6
<1> QED BY <1>7 DEF L, c

\* io_deadcode (cc/int.c) removes the instructions whose value nothing needs
\* and no other, and leaves operands and targets at the instructions they were
\* of, for every intermediate code.
THEOREM NothingNeededIsLost == Spec => []NothingLost
<1>1. GotCode => NothingLost
  <2> SUFFICES ASSUME GotCode, pc = "gen" PROVE NothingLost
    BY DEF NothingLost
  <2>1. src \in Sources \cup More /\ ic = Alive(Whole)
    BY DEF GotCode, Whole
  <2>2. WellFormed(Whole)
    BY <2>1, WithRetWellFormed DEF Whole
  <2>3. Complete(Whole, ic)
    BY <2>1, <2>2, AliveIsComplete
  <2>4. Needed = LeastAround(Whole)
    BY <2>2, NeededIsLeast
  <2> QED BY <2>3, <2>4 DEF Complete, NothingLost
<1> QED BY <1>1, CodeIsGot, PTL

-----------------------------------------------------------------------------
(* The code as it will be.                                                 *)

\* Bits.  The value of one that is to be read is some remainder.
Values == {(v \div Pow2[j]) % 2 : v \in Int, j \in Int}
LitT   == {Lit} \X Values
BitT   == LitT \cup (Int \X Int)

\* The bits of the first n instructions, and those that belong to the tables.
InstrBits(c, n) == UNION {BitsOf(c, k) : k \in 0 .. n - 1}
SymBits(c, n)   == {<<k, c[k + 1].w + 1>> : k \in {k \in 0 .. n - 1 : c[k + 1].op \in {"movsym", "callsym"}}}
HeadBits(c, n)  == {<<k, Width(c, k)>> : k \in {k \in 0 .. n - 1 : c[k + 1].op \in {"jmp", "jz", "ret"}}}

Reals(s)      == {b \in {s[p] : p \in DOMAIN s} : Real(b)}
Ordered(c, s) == \A p, q \in DOMAIN s : p < q /\ Real(s[p]) /\ Real(s[q]) => Before(c, s[p], s[q])

\* T are the places of the bits in B, in order.
Places(s, B)  == {p \in 0 .. Len(s) - 1 : s[p + 1] \in B}
Hits(T, s, B) == /\ {T[r] : r \in DOMAIN T} = Places(s, B)
                 /\ \A q, r \in DOMAIN T : q < r => T[q] < T[r]

\* J are the places of the immediates of jumps, right behind their heads and the
\* field for the size, and F their sizes: nothing real is in them, and they do
\* not overlap.
Heads(J) == [j \in DOMAIN J |-> J[j] - SZ_SZ - 1]
JumpsAt(c, s, n, J, F) ==
    /\ Hits(Heads(J), s, HeadBits(c, n))
    /\ \A j \in DOMAIN J : J[j] \in Int /\ F[j] \in Nat /\ J[j] + F[j] <= Len(s)
    /\ \A j \in DOMAIN J : \A p \in J[j] - SZ_SZ + 1 .. J[j] + F[j] : ~ Real(s[p])
    /\ \A j, l \in DOMAIN J : j < l => J[j] + F[j] <= J[l] - SZ_SZ - 1

\* A table whose entries from the cursor on have yet to move by d; and one of
\* which a part has moved by d.
Ahead(T, cur, d) == [r \in DOMAIN T |-> T[r] + IF r >= cur THEN d ELSE 0]
Shifted(T, from, to, d) == [r \in DOMAIN T |-> T[r] + IF Within(r, from, to) THEN d ELSE 0]
\* A table of integers; an increasing table R of n places; and U, which is R but
\* for the entries from b on, which are e ahead.
IntTable(T)      == \A r \in DOMAIN T : T[r] \in Int
Rising(R, n)     == \A q, r \in 1 .. n : q < r => R[q] < R[r]
Lags(U, R, b, e) == /\ DOMAIN U = DOMAIN R
                    /\ \A r \in DOMAIN R : R[r] \in Int /\ U[r] = R[r] + IF r >= b THEN e ELSE 0

\* Entries before the cursor are before place e.
Passed(T, n, cur, e) == cur \in 1 .. n + 1 /\ \A r \in 1 .. n : r < cur => T[r] < e
\* Where a cursor stops that runs while entries are below lim, and what is before it then.
StopsAt(T, n, cur, lim) == Stop({r \in 1 .. n : T[r] < lim}, cur, n)
Splits(R, n, a, b, p)   == b \in a .. n + 1 /\ \A r \in 1 .. n : r < b <=> R[r] < p

-----------------------------------------------------------------------------
(* Putting bits in and taking them out.                                    *)

\* A piece of code is as long as it says, and has the bits that are there.
LEMMA CutIs ==
    ASSUME NEW S, NEW s \in Seq(S), NEW p \in Nat, NEW q \in Nat, p <= q, q <= Len(s)
    PROVE  /\ Cut(s, p, q) \in Seq(S) /\ Len(Cut(s, p, q)) = q - p
           /\ \A j \in 1 .. q - p : Cut(s, p, q)[j] = s[p + j]
<1>1. p + 1 \in 1 .. Len(s) + 1 /\ q \in p .. Len(s) /\ q \in (p + 1) - 1 .. Len(s)
  OBVIOUS
<1>2. SubSeq(s, p + 1, q) \in Seq(S) /\ Len(SubSeq(s, p + 1, q)) = q - p
  BY <1>1, SubSeqProperties
<1>3. ASSUME NEW j \in 1 .. q - p
      PROVE  SubSeq(s, p + 1, q)[j] = s[p + j]
  <2>1. SubSeq(s, p + 1, q)[j] = s[p + 1 + j - 1]
    BY <1>1, SubSeqProperties
  <2>2. p + 1 + j - 1 = p + j
    OBVIOUS
  <2> QED BY <2>1, <2>2
<1> QED BY <1>2, <1>3 DEF Cut

\* Two pieces put together.
LEMMA JoinIs ==
    ASSUME NEW S, NEW a \in Seq(S), NEW b \in Seq(S)
    PROVE  /\ a \o b \in Seq(S) /\ Len(a \o b) = Len(a) + Len(b) /\ Len(a) \in Nat /\ Len(b) \in Nat
           /\ \A p \in 1 .. Len(a) : (a \o b)[p] = a[p]
           /\ \A p \in Len(a) + 1 .. Len(a) + Len(b) : (a \o b)[p] = b[p - Len(a)]
OBVIOUS

\* s2 is s with n bits that are not real in place of those from position P up to
\* Q, which are not real either; where position x of s is then.
Spliced(s, s2, P, Q, n) ==
    /\ P \in Nat /\ Q \in Nat /\ n \in Nat /\ P <= Q /\ Q <= Len(s)
    /\ s \in Seq(BitT) /\ s2 \in Seq(BitT) /\ Len(s2) = Len(s) - (Q - P) + n
    /\ \A p \in 1 .. P : s2[p] = s[p]
    /\ \A p \in Q + 1 .. Len(s) : s2[p + n - (Q - P)] = s[p]
    /\ \A p \in P + 1 .. Q : ~ Real(s[p])
    /\ \A p \in P + 1 .. P + n : ~ Real(s2[p])
Moved(x, P, Q, n) == IF x < P THEN x ELSE x + n - (Q - P)

\* Code is spliced by putting pieces together.
LEMMA SpliceIs ==
    ASSUME NEW s \in Seq(BitT), NEW P \in Nat, NEW Q \in Nat, P <= Q, Q <= Len(s),
           \A p \in P + 1 .. Q : ~ Real(s[p]), NEW t \in Seq(LitT),
           NEW a \in Seq(BitT), NEW b \in Seq(BitT), Len(a) = P, Len(b) = Len(s) - Q,
           \A p \in 1 .. P : a[p] = s[p], \A p \in 1 .. Len(s) - Q : b[p] = s[Q + p]
    PROVE  Spliced(s, (a \o t) \o b, P, Q, Len(t))
<1> DEFINE n == Len(t)
           u == a \o t
           v == u \o b
<1>1. n \in Nat /\ Len(s) \in Nat
  OBVIOUS
<1>2. t \in Seq(BitT) /\ \A p \in 1 .. n : ~ Real(t[p])
  <2>1. \A p \in 1 .. n : t[p] \in LitT
    OBVIOUS
  <2>2. t \in Seq(BitT)
    BY DEF BitT
  <2> QED BY <2>1, <2>2 DEF LitT, Real
<1>3. /\ u \in Seq(BitT) /\ Len(u) = P + n
      /\ \A p \in 1 .. P : u[p] = a[p]
      /\ \A p \in P + 1 .. P + n : u[p] = t[p - P]
  <2>1. /\ u \in Seq(BitT) /\ Len(u) = Len(a) + Len(t)
        /\ \A p \in 1 .. Len(a) : u[p] = a[p]
        /\ \A p \in Len(a) + 1 .. Len(a) + Len(t) : u[p] = t[p - Len(a)]
    <3>1. a \in Seq(BitT) /\ t \in Seq(BitT)
      BY <1>2
    <3>2. /\ a \o t \in Seq(BitT) /\ Len(a \o t) = Len(a) + Len(t)
          /\ \A p \in 1 .. Len(a) : (a \o t)[p] = a[p]
          /\ \A p \in Len(a) + 1 .. Len(a) + Len(t) : (a \o t)[p] = t[p - Len(a)]
      BY ONLY <3>1, JoinIs, Zenon
    <3> QED BY <3>2
  <2> QED BY <2>1
<1> HIDE DEF u
<1>4. /\ v \in Seq(BitT) /\ Len(v) = (P + n) + (Len(s) - Q)
      /\ \A p \in 1 .. P + n : v[p] = u[p]
      /\ \A p \in (P + n) + 1 .. (P + n) + (Len(s) - Q) : v[p] = b[p - (P + n)]
  <2>1. u \in Seq(BitT)
    BY <1>3
  <2>2. /\ v \in Seq(BitT) /\ Len(v) = Len(u) + Len(b)
        /\ \A p \in 1 .. Len(u) : v[p] = u[p]
        /\ \A p \in Len(u) + 1 .. Len(u) + Len(b) : v[p] = b[p - Len(u)]
    BY <2>1, JoinIs
  <2> QED BY <2>2, <1>3, SMTT(30)
<1> HIDE DEF v, n
<1>5. \A p \in 1 .. P : v[p] = s[p]
  BY <1>1, <1>3, <1>4
<1>6. ASSUME NEW p \in Q + 1 .. Len(s)
      PROVE  v[p + n - (Q - P)] = s[p]
  <2> DEFINE x == p + n - (Q - P)
  <2>1. x \in (P + n) + 1 .. (P + n) + (Len(s) - Q)
    BY <1>1
  <2>2. x - (P + n) = p - Q /\ p - Q \in 1 .. Len(s) - Q /\ Q + (p - Q) = p
    BY <1>1
  <2>3. b[p - Q] = s[Q + (p - Q)]
    BY <2>2
  <2> HIDE DEF x
  <2>4. v[x] = b[x - (P + n)]
    BY <2>1, <1>4
  <2>5. v[x] = s[p]
    BY <2>2, <2>3, <2>4
  <2> QED BY <2>5 DEF x
<1>7. ASSUME NEW p \in P + 1 .. P + n
      PROVE  ~ Real(v[p])
  <2>1. p - P \in 1 .. n /\ p \in 1 .. P + n
    BY <1>1
  <2> QED BY <2>1, <1>2, <1>3, <1>4
<1>8. Len(v) = Len(s) - (Q - P) + n
  BY <1>1, <1>4
<1> QED BY <1>1, <1>4, <1>5, <1>6, <1>7, <1>8 DEF Spliced, v, u, n

\* A real bit is where it has moved to, and nothing else is there.
LEMMA SplicedForth ==
    ASSUME NEW s, NEW s2, NEW P, NEW Q, NEW n, Spliced(s, s2, P, Q, n),
           NEW x \in 0 .. Len(s) - 1, Real(s[x + 1])
    PROVE  /\ Moved(x, P, Q, n) \in 0 .. Len(s2) - 1
           /\ s2[Moved(x, P, Q, n) + 1] = s[x + 1]
           /\ x < P \/ x >= Q
<1> USE DEF Spliced
<1>1. Len(s) \in Nat /\ Len(s2) \in Nat
  OBVIOUS
<1>2. CASE x < P
  <2>1. x + 1 \in 1 .. P
    BY <1>1, <1>2
  <2>2. s2[x + 1] = s[x + 1]
    BY <2>1
  <2> QED BY <1>1, <1>2, <2>2 DEF Moved
<1>3. CASE ~ (x < P)
  <2>1. ~ (x + 1 \in P + 1 .. Q)
    OBVIOUS
  <2>2. x + 1 \in Q + 1 .. Len(s)
    BY <2>1, <1>1, <1>3
  <2>3. s2[x + 1 + n - (Q - P)] = s[x + 1]
    BY <2>2
  <2>4. x + 1 + n - (Q - P) = (x + n - (Q - P)) + 1
    BY <1>1
  <2>5. Moved(x, P, Q, n) = x + n - (Q - P)
    BY <1>3 DEF Moved
  <2>6. x + n - (Q - P) \in 0 .. Len(s2) - 1
    BY <1>1, <2>2
  <2> QED BY <2>2, <2>3, <2>4, <2>5, <2>6, <1>1
<1> QED BY <1>2, <1>3

\* And a real bit has moved from somewhere.
LEMMA SplicedBack ==
    ASSUME NEW s, NEW s2, NEW P, NEW Q, NEW n, Spliced(s, s2, P, Q, n),
           NEW y \in 0 .. Len(s2) - 1, Real(s2[y + 1])
    PROVE  \E x \in 0 .. Len(s) - 1 : y = Moved(x, P, Q, n) /\ s[x + 1] = s2[y + 1]
<1> USE DEF Spliced
<1>1. Len(s) \in Nat /\ Len(s2) \in Nat
  OBVIOUS
<1>2. CASE y < P
  <2>1. y + 1 \in 1 .. P /\ y \in 0 .. Len(s) - 1
    BY <1>1, <1>2
  <2>2. s2[y + 1] = s[y + 1]
    BY <2>1
  <2> QED BY <1>1, <1>2, <2>1, <2>2 DEF Moved
<1>3. CASE ~ (y < P)
  <2>1. ~ (y + 1 \in P + 1 .. P + n)
    OBVIOUS
  <2> DEFINE x == y - n + (Q - P)
  <2>2. x + 1 \in Q + 1 .. Len(s) /\ x \in 0 .. Len(s) - 1 /\ ~ (x < P)
    BY <2>1, <1>1, <1>3
  <2>3. s2[x + 1 + n - (Q - P)] = s[x + 1]
    BY <2>2
  <2>4. x + 1 + n - (Q - P) = y + 1 /\ x + n - (Q - P) = y
    BY <1>1
  <2> HIDE DEF x
  <2>5. Moved(x, P, Q, n) = y
    BY <2>2, <2>4 DEF Moved
  <2> QED BY <2>2, <2>3, <2>4, <2>5
<1> QED BY <1>2, <1>3

\* Real bits stay in order.
LEMMA MovedUp ==
    ASSUME NEW s, NEW s2, NEW P, NEW Q, NEW n, Spliced(s, s2, P, Q, n),
           NEW x \in 0 .. Len(s) - 1, NEW y \in 0 .. Len(s) - 1, Real(s[x + 1]), Real(s[y + 1])
    PROVE  x < y <=> Moved(x, P, Q, n) < Moved(y, P, Q, n)
<1>1. (x < P \/ x >= Q) /\ (y < P \/ y >= Q)
  BY SplicedForth
<1>2. P \in Nat /\ Q \in Nat /\ n \in Nat /\ P <= Q
  BY DEF Spliced
<1> QED BY <1>1, <1>2 DEF Moved

\* The same bits, in the same order, and tables that move with them.
LEMMA SplicedKeeps ==
    ASSUME NEW c, NEW s, NEW s2, NEW P, NEW Q, NEW n, Spliced(s, s2, P, Q, n)
    PROVE  /\ Reals(s2) = Reals(s)
           /\ Ordered(c, s) => Ordered(c, s2)
<1>1. DOMAIN s = 1 .. Len(s) /\ DOMAIN s2 = 1 .. Len(s2) /\ Len(s) \in Nat /\ Len(s2) \in Nat
  BY DEF Spliced
<1>2. ASSUME NEW p \in DOMAIN s, Real(s[p])
      PROVE  \E q \in DOMAIN s2 : s2[q] = s[p]
  <2>1. p - 1 \in 0 .. Len(s) - 1 /\ (p - 1) + 1 = p
    BY <1>1
  <2>2. Moved(p - 1, P, Q, n) \in 0 .. Len(s2) - 1 /\ s2[Moved(p - 1, P, Q, n) + 1] = s[p]
    BY <2>1, <1>2, SplicedForth
  <2> QED BY <2>2, <1>1
<1>3. ASSUME NEW q \in DOMAIN s2, Real(s2[q])
      PROVE  \E x \in 0 .. Len(s) - 1 : q - 1 = Moved(x, P, Q, n) /\ s[x + 1] = s2[q]
  <2>1. q - 1 \in 0 .. Len(s2) - 1 /\ (q - 1) + 1 = q
    BY <1>1
  <2> QED BY <2>1, <1>3, SplicedBack
<1>4. Reals(s2) = Reals(s)
  <2>1. ASSUME NEW q \in DOMAIN s2, Real(s2[q])
        PROVE  \E p \in DOMAIN s : s[p] = s2[q]
    <3>1. PICK x \in 0 .. Len(s) - 1 : s[x + 1] = s2[q]
      BY <1>3, <2>1
    <3>2. x + 1 \in DOMAIN s
      BY <1>1
    <3> QED BY <3>1, <3>2
  <2> QED BY <1>2, <2>1 DEF Reals
<1>5. ASSUME Ordered(c, s), NEW p \in DOMAIN s2, NEW q \in DOMAIN s2, p < q, Real(s2[p]), Real(s2[q])
      PROVE  Before(c, s2[p], s2[q])
  <2>1. PICK x \in 0 .. Len(s) - 1 : p - 1 = Moved(x, P, Q, n) /\ s[x + 1] = s2[p]
    BY <1>3, <1>5
  <2>2. PICK y \in 0 .. Len(s) - 1 : q - 1 = Moved(y, P, Q, n) /\ s[y + 1] = s2[q]
    BY <1>3, <1>5
  <2>3. Real(s[x + 1]) /\ Real(s[y + 1])
    BY <2>1, <2>2, <1>5
  <2>4. p - 1 < q - 1
    BY <1>1, <1>5
  <2>5. x < y
    BY <2>1, <2>2, <2>3, <2>4, MovedUp
  <2>6. x + 1 \in DOMAIN s /\ y + 1 \in DOMAIN s /\ x + 1 < y + 1
    BY <1>1, <2>5
  <2> QED BY <2>1, <2>2, <2>3, <2>6, <1>5 DEF Ordered
<1> QED BY <1>4, <1>5 DEF Ordered

\* A table that hits real bits goes on hitting them when its entries move.
LEMMA SplicedHits ==
    ASSUME NEW s, NEW s2, NEW P, NEW Q, NEW n, Spliced(s, s2, P, Q, n),
           NEW B, \A b \in B : Real(b), NEW T, NEW T2, Hits(T, s, B),
           DOMAIN T2 = DOMAIN T, \A r \in DOMAIN T : T2[r] = Moved(T[r], P, Q, n)
    PROVE  Hits(T2, s2, B)
<1>1. \A r \in DOMAIN T : T[r] \in 0 .. Len(s) - 1 /\ s[T[r] + 1] \in B /\ Real(s[T[r] + 1])
  BY DEF Hits, Places
<1>2. ASSUME NEW r \in DOMAIN T
      PROVE  T2[r] \in 0 .. Len(s2) - 1 /\ s2[T2[r] + 1] \in B
  BY <1>1, SplicedForth
<1>3. ASSUME NEW y \in 0 .. Len(s2) - 1, s2[y + 1] \in B
      PROVE  \E r \in DOMAIN T2 : T2[r] = y
  <2>1. PICK x \in 0 .. Len(s) - 1 : y = Moved(x, P, Q, n) /\ s[x + 1] = s2[y + 1]
    BY <1>3, SplicedBack
  <2>2. x \in {T[r] : r \in DOMAIN T}
    BY <2>1, <1>3 DEF Hits, Places
  <2> QED BY <2>1, <2>2
<1>4. {T2[r] : r \in DOMAIN T2} = Places(s2, B)
  BY <1>2, <1>3 DEF Places
<1>5. ASSUME NEW q \in DOMAIN T2, NEW r \in DOMAIN T2, q < r
      PROVE  T2[q] < T2[r]
  <2>1. T[q] < T[r]
    BY <1>5 DEF Hits
  <2> QED BY <2>1, <1>1, MovedUp
<1> QED BY <1>4, <1>5 DEF Hits

\* So do stretches without real bits, before the splice or behind it.
LEMMA SplicedField ==
    ASSUME NEW s, NEW s2, NEW P, NEW Q, NEW n, Spliced(s, s2, P, Q, n),
           NEW a \in Nat, NEW b \in Nat, b <= Len(s), \A p \in a + 1 .. b : ~ Real(s[p])
    PROVE  /\ b <= P => \A p \in a + 1 .. b : ~ Real(s2[p])
           /\ Q <= a => \A p \in a + n - (Q - P) + 1 .. b + n - (Q - P) : ~ Real(s2[p])
<1> USE DEF Spliced
<1>1. Len(s) \in Nat
  OBVIOUS
<1>2. ASSUME b <= P, NEW p \in a + 1 .. b
      PROVE  ~ Real(s2[p])
  <2>1. p \in 1 .. P
    BY <1>2
  <2> QED BY <2>1
<1>3. ASSUME Q <= a, NEW p \in a + n - (Q - P) + 1 .. b + n - (Q - P)
      PROVE  ~ Real(s2[p])
  <2> DEFINE x == p - n + (Q - P)
  <2>1. x \in a + 1 .. b /\ x \in Q + 1 .. Len(s) /\ x + n - (Q - P) = p
    BY <1>1, <1>3
  <2> HIDE DEF x
  <2>2. s2[x + n - (Q - P)] = s[x]
    BY <2>1
  <2> QED BY <2>1, <2>2
<1> QED BY <1>2, <1>3

-----------------------------------------------------------------------------
(* Instructions put behind one another.                                    *)

\* The bits of the first n instructions.
LEMMA InstrBitsAre ==
    ASSUME NEW c, NEW n \in Nat
    PROVE  \A b : b \in InstrBits(c, n) <=> \E k \in 0 .. n - 1 : \E j \in 1 .. Width(c, k) : b = <<k, j>>
BY DEF InstrBits, BitsOf

\* One more.
LEMMA InstrBitsNext ==
    ASSUME NEW c, NEW n \in Nat
    PROVE  InstrBits(c, n + 1) = InstrBits(c, n) \cup BitsOf(c, n)
<1>1. 0 .. (n + 1) - 1 = (0 .. n - 1) \cup {n}
  OBVIOUS
<1> QED BY <1>1 DEF InstrBits

\* s2 is s, then instruction k and n bits that are not real.
Appended(c, s, s2, k, n) ==
    /\ k \in Nat /\ n \in Nat /\ Width(c, k) \in Nat
    /\ s \in Seq(BitT) /\ s2 \in Seq(BitT) /\ Len(s2) = Len(s) + Width(c, k) + n
    /\ \A p \in 1 .. Len(s) : s2[p] = s[p]
    /\ \A j \in 1 .. Width(c, k) : s2[Len(s) + j] = <<k, j>>
    /\ \A p \in Len(s) + Width(c, k) + 1 .. Len(s2) : ~ Real(s2[p])

\* Its bits are there then, behind those of the ones before.
LEMMA AppendedKeeps ==
    ASSUME NEW c, NEW s, NEW s2, NEW k, NEW n, Appended(c, s, s2, k, n),
           Ordered(c, s), Reals(s) = InstrBits(c, k)
    PROVE  Ordered(c, s2) /\ Reals(s2) = InstrBits(c, k + 1)
<1> DEFINE w == Width(c, k)
           l == Len(s)
<1>1. /\ k \in Nat /\ n \in Nat /\ w \in Nat /\ l \in Nat
      /\ DOMAIN s = 1 .. l /\ DOMAIN s2 = 1 .. l + w + n
      /\ \A p \in 1 .. l : s2[p] = s[p]
      /\ \A j \in 1 .. w : s2[l + j] = <<k, j>>
      /\ \A p \in l + w + 1 .. l + w + n : ~ Real(s2[p])
  BY DEF Appended
<1> HIDE DEF w, l
<1>2. \A p \in DOMAIN s2 : p \in 1 .. l \/ (p - l \in 1 .. w /\ p = l + (p - l)) \/ p \in l + w + 1 .. l + w + n
  BY <1>1
<1>3. ASSUME NEW p \in DOMAIN s2, Real(s2[p])
      PROVE  \/ p \in 1 .. l /\ s2[p] = s[p] /\ \E m \in 0 .. k - 1 : \E j \in 1 .. Width(c, m) : s2[p] = <<m, j>>
             \/ p > l /\ p - l \in 1 .. w /\ s2[p] = <<k, p - l>>
  <2>1. CASE p \in 1 .. l
    <3>1. s2[p] = s[p] /\ s[p] \in InstrBits(c, k)
      BY <1>1, <1>3, <2>1 DEF Reals
    <3>2. \E m \in 0 .. k - 1 : \E j \in 1 .. Width(c, m) : s[p] = <<m, j>>
      BY <1>1, <3>1, InstrBitsAre
    <3> QED BY <2>1, <3>1, <3>2
  <2>2. CASE p - l \in 1 .. w
    <3>1. s2[l + (p - l)] = <<k, p - l>>
      BY <1>1, <2>2
    <3>2. l + (p - l) = p /\ p > l
      BY <1>1, <2>2
    <3> QED BY <2>2, <3>1, <3>2
  <2>3. p \notin l + w + 1 .. l + w + n
    BY <1>1, <1>3
  <2> QED BY <1>2, <2>1, <2>2, <2>3
<1>4. Reals(s2) = Reals(s) \cup BitsOf(c, k)
  <2>1. ASSUME NEW b \in Reals(s2)
        PROVE  b \in Reals(s) \cup BitsOf(c, k)
    <3>1. PICK p \in DOMAIN s2 : s2[p] = b /\ Real(b)
      BY DEF Reals
    <3>2. CASE p \in 1 .. l /\ s2[p] = s[p]
      BY <1>1, <3>1, <3>2 DEF Reals
    <3>3. CASE p - l \in 1 .. w /\ s2[p] = <<k, p - l>>
      BY <3>1, <3>3 DEF BitsOf, w
    <3> QED BY <1>3, <3>1, <3>2, <3>3
  <2>2. ASSUME NEW b \in Reals(s)
        PROVE  b \in Reals(s2)
    <3>1. PICK p \in DOMAIN s : s[p] = b /\ Real(b)
      BY DEF Reals
    <3>2. p \in DOMAIN s2 /\ s2[p] = b
      BY <1>1, <3>1
    <3> QED BY <3>1, <3>2 DEF Reals
  <2>3. ASSUME NEW j \in 1 .. w
        PROVE  <<k, j>> \in Reals(s2)
    <3>1. l + j \in DOMAIN s2 /\ s2[l + j] = <<k, j>>
      BY <1>1
    <3>2. Real(<<k, j>>)
      BY <1>1 DEF Real, Lit
    <3> QED BY <3>1, <3>2 DEF Reals
  <2> QED BY <2>1, <2>2, <2>3 DEF BitsOf, w
<1>5. ASSUME NEW p \in DOMAIN s2, NEW q \in DOMAIN s2, p < q, Real(s2[p]), Real(s2[q])
      PROVE  Before(c, s2[p], s2[q])
  <2>1. CASE q \in 1 .. l
    <3>1. p \in 1 .. l
      BY <1>1, <1>5, <2>1
    <3> QED BY <1>1, <1>5, <2>1, <3>1 DEF Ordered
  <2>2. CASE q > l /\ q - l \in 1 .. w /\ s2[q] = <<k, q - l>>
    <3>1. CASE p > l /\ p - l \in 1 .. w /\ s2[p] = <<k, p - l>>
      <4>1. p - l < q - l
        BY <1>1, <1>5
      <4> QED BY <2>2, <3>1, <4>1 DEF Before
    <3>2. ASSUME NEW m \in 0 .. k - 1, NEW j \in 1 .. Width(c, m), s2[p] = <<m, j>>
          PROVE  Before(c, s2[p], s2[q])
      <4>1. Rank(c, s2[p]) = m /\ Rank(c, s2[q]) = k
        BY <1>1, <2>2, <3>2 DEF Rank, Pro, Epi
      <4> QED BY <1>1, <4>1 DEF Before
    <3> QED BY <1>3, <1>5, <3>1, <3>2
  <2> QED BY <1>3, <1>5, <2>1, <2>2
<1>6. Reals(s2) = InstrBits(c, k + 1)
  BY <1>1, <1>4, InstrBitsNext
<1> QED BY <1>5, <1>6 DEF Ordered

\* A table of bits that were there still hits them; and with one more entry, the
\* new bit too.
LEMMA AppendedHits ==
    ASSUME NEW c, NEW s, NEW s2, NEW k, NEW n, Appended(c, s, s2, k, n),
           Reals(s) = InstrBits(c, k),
           NEW B, B \subseteq InstrBits(c, k), NEW T, Hits(T, s, B)
    PROVE  /\ Hits(T, s2, B)
           /\ \A x \in 1 .. Width(c, k) : \A m \in Nat : \A T2 :
                 /\ DOMAIN T = 1 .. m /\ DOMAIN T2 = 1 .. m + 1
                 /\ \A r \in 1 .. m : T2[r] = T[r]
                 /\ T2[m + 1] = Len(s) + x - 1
                 => Hits(T2, s2, B \cup {<<k, x>>})
<1> DEFINE w == Width(c, k)
           l == Len(s)
<1>1. /\ k \in Nat /\ n \in Nat /\ w \in Nat /\ l \in Nat /\ Len(s2) = l + w + n
      /\ \A p \in 1 .. l : s2[p] = s[p]
      /\ \A j \in 1 .. w : s2[l + j] = <<k, j>>
      /\ \A p \in l + w + 1 .. l + w + n : ~ Real(s2[p])
  BY DEF Appended
<1> HIDE DEF w, l
<1>2. ASSUME NEW b \in B
      PROVE  Real(b) /\ \A j : b # <<k, j>>
  <2>1. PICK m \in 0 .. k - 1 : \E j \in 1 .. Width(c, m) : b = <<m, j>>
    BY <1>1, InstrBitsAre
  <2>2. m # k /\ m # Lit
    BY <1>1 DEF Lit
  <2> QED BY <2>1, <2>2 DEF Real
<1>3. Places(s2, B) = Places(s, B)
  <2>1. ASSUME NEW y \in 0 .. Len(s2) - 1, s2[y + 1] \in B
        PROVE  y \in 0 .. l - 1 /\ s[y + 1] = s2[y + 1]
    <3>1. y + 1 \notin l + w + 1 .. l + w + n
      BY <1>1, <1>2, <2>1
    <3>2. CASE y + 1 - l \in 1 .. w
      <4>1. s2[l + (y + 1 - l)] = <<k, y + 1 - l>>
        BY <1>1, <3>2
      <4>2. l + (y + 1 - l) = y + 1
        BY <1>1
      <4> QED BY <4>1, <4>2, <1>2, <2>1
    <3>3. CASE y + 1 \in 1 .. l
      BY <1>1, <3>3
    <3> QED BY <1>1, <3>1, <3>2, <3>3
  <2>2. ASSUME NEW y \in 0 .. l - 1
        PROVE  y \in 0 .. Len(s2) - 1 /\ s2[y + 1] = s[y + 1]
    BY <1>1
  <2> QED BY <2>1, <2>2 DEF Places, l
<1>4. Hits(T, s2, B)
  BY <1>3 DEF Hits
<1>5. ASSUME NEW x \in 1 .. w, NEW m \in Nat, NEW T2, DOMAIN T = 1 .. m, DOMAIN T2 = 1 .. m + 1,
             \A r \in 1 .. m : T2[r] = T[r], T2[m + 1] = l + x - 1
      PROVE  Hits(T2, s2, B \cup {<<k, x>>})
  <2>1. l + x - 1 \in 0 .. Len(s2) - 1 /\ s2[(l + x - 1) + 1] = <<k, x>>
    <3>1. s2[l + x] = <<k, x>>
      BY <1>1
    <3>2. (l + x - 1) + 1 = l + x /\ l + x - 1 \in 0 .. Len(s2) - 1
      BY <1>1
    <3> QED BY <3>1, <3>2
  <2>2. ASSUME NEW y \in 0 .. Len(s2) - 1, s2[y + 1] = <<k, x>>
        PROVE  y = l + x - 1
    <3>1. Real(s2[y + 1])
      BY <1>1, <2>2 DEF Real, Lit
    <3>2. y + 1 \notin l + w + 1 .. l + w + n
      BY <3>1, <1>1
    <3>3. CASE y + 1 \in 1 .. l
      <4>1. s[y + 1] = <<k, x>>
        BY <1>1, <2>2, <3>3
      <4>2. s[y + 1] \in Reals(s)
        BY <3>1, <3>3, <4>1, <2>2, SMTT(30) DEF Reals, l, Appended
      <4>3. PICK h \in 0 .. k - 1 : \E j \in 1 .. Width(c, h) : <<k, x>> = <<h, j>>
        BY <4>1, <4>2, <1>1, InstrBitsAre
      <4> QED BY <4>3, <1>1
    <3>4. CASE y + 1 - l \in 1 .. w
      <4>1. s2[l + (y + 1 - l)] = <<k, y + 1 - l>>
        BY <1>1, <3>4
      <4>2. l + (y + 1 - l) = y + 1
        BY <1>1
      <4>3. y + 1 - l = x
        BY <4>1, <4>2, <2>2
      <4> QED BY <4>3, <1>1
    <3> QED BY <1>1, <3>2, <3>3, <3>4, SMTT(30)
  <2>3. Places(s2, B \cup {<<k, x>>}) = Places(s2, B) \cup {l + x - 1}
    BY <2>1, <2>2 DEF Places
  <2>4. {T2[r] : r \in DOMAIN T2} = {T[r] : r \in DOMAIN T} \cup {l + x - 1}
    <3>1. 1 .. m + 1 = (1 .. m) \cup {m + 1}
      OBVIOUS
    <3> QED BY <1>5, <3>1
  <2>5. \A r \in DOMAIN T : T[r] \in 0 .. l - 1
    BY DEF Hits, Places, l
  <2>6. ASSUME NEW q \in DOMAIN T2, NEW r \in DOMAIN T2, q < r
        PROVE  T2[q] < T2[r]
    <3>1. q \in 1 .. m
      BY <1>5, <2>6
    <3>2. CASE r \in 1 .. m
      BY <1>5, <2>6, <3>1, <3>2 DEF Hits
    <3>3. CASE r = m + 1
      BY <1>1, <1>5, <2>5, <3>1, <3>3
    <3> QED BY <1>5, <3>2, <3>3
  <2> QED BY <1>4, <2>3, <2>4, <2>6 DEF Hits
<1> QED BY <1>4, <1>5 DEF w, l

\* Sizes of immediates are at least one bit and at most a word.
LEMMA SizesAre ==
    SIZE_W \in Nat \ {0} /\ \A k \in 1 .. Sizes : SIZE_B * k \in 1 .. SIZE_W
<1>1. SIZE_B \in Nat \ {0} /\ Sizes \in Nat \ {0}
  BY LayoutAssumption
<1>2. ASSUME NEW k \in 1 .. Sizes
      PROVE  SIZE_B * k \in 1 .. Sizes * SIZE_B
  <2>1. k \in Nat \ {0} /\ Sizes - k \in Nat
    BY <1>1
  <2>2. SIZE_B * (Sizes - k) >= 0 /\ SIZE_B * k \in Nat /\ SIZE_B * k > 0 /\ SIZE_B * Sizes \in Nat
    BY <1>1, <2>1
  <2>3. SIZE_B * (Sizes - k) = SIZE_B * Sizes - SIZE_B * k /\ SIZE_B * Sizes = Sizes * SIZE_B
    BY <1>1, <2>1
  <2> QED BY <2>2, <2>3
<1>3. SIZE_W \in Nat \ {0}
  BY <1>1 DEF SIZE_W
<1> QED BY <1>2, <1>3 DEF SIZE_W

\* The bits of the tables are among those of the instructions.
LEMMA TableBits ==
    ASSUME NEW c \in Seq(Ins), NEW n \in 0 .. Len(c)
    PROVE  /\ SymBits(c, n) \subseteq InstrBits(c, n) /\ HeadBits(c, n) \subseteq InstrBits(c, n)
           /\ \A b \in SymBits(c, n) \cup HeadBits(c, n) : Real(b)
<1>1. /\ JumpHead \in Nat \ {0} /\ SIZE_W \in Nat \ {0}
      /\ \A k \in 0 .. n - 1 : c[k + 1].w \in Nat
  <2>1. \A k \in 0 .. n - 1 : c[k + 1] \in Ins
    OBVIOUS
  <2>2. \A x \in Ins : x.w \in Nat
    BY DEF Ins
  <2>3. JumpHead \in Nat \ {0}
    BY LayoutAssumption
  <2> QED BY <2>1, <2>2, <2>3, SizesAre
<1>2. ASSUME NEW k \in 0 .. n - 1, NEW j \in 1 .. Width(c, k)
      PROVE  <<k, j>> \in InstrBits(c, n) /\ Real(<<k, j>>)
  BY InstrBitsAre DEF Real, Lit
<1>3. ASSUME NEW k \in 0 .. n - 1, c[k + 1].op \in {"movsym", "callsym"}
      PROVE  c[k + 1].w + 1 \in 1 .. Width(c, k)
  BY <1>1, <1>3 DEF Width
<1>4. ASSUME NEW k \in 0 .. n - 1, c[k + 1].op \in {"jmp", "jz", "ret"}
      PROVE  Width(c, k) \in 1 .. Width(c, k)
  BY <1>1, <1>4 DEF Width
<1> QED BY <1>2, <1>3, <1>4 DEF SymBits, HeadBits

\* The bits of the tables, with one more instruction.
LEMMA TableBitsNext ==
    ASSUME NEW c, NEW n \in Nat
    PROVE  /\ SymBits(c, n + 1) = IF c[n + 1].op \in {"movsym", "callsym"}
                                  THEN SymBits(c, n) \cup {<<n, c[n + 1].w + 1>>} ELSE SymBits(c, n)
           /\ HeadBits(c, n + 1) = IF c[n + 1].op \in {"jmp", "jz", "ret"}
                                   THEN HeadBits(c, n) \cup {<<n, Width(c, n)>>} ELSE HeadBits(c, n)
<1>1. 0 .. (n + 1) - 1 = (0 .. n - 1) \cup {n}
  OBVIOUS
<1> QED BY <1>1 DEF SymBits, HeadBits

-----------------------------------------------------------------------------
(* The frame.                                                              *)

\* s2 is the first e bits of s between a prologue and an epilogue.
Framed(s, s2, f, e) ==
    /\ f[1] \in Nat /\ f[2] \in Nat /\ e \in 0 .. Len(s)
    /\ s \in Seq(BitT) /\ s2 \in Seq(BitT) /\ Len(s2) = f[1] + e + f[2]
    /\ \A p \in 1 .. f[1] : s2[p] = <<Pro, p>>
    /\ \A p \in 1 .. e : s2[f[1] + p] = s[p]
    /\ \A p \in 1 .. f[2] : s2[f[1] + e + p] = <<Epi, p>>

\* What instruction k had, the last one, is gone then, and the frame is there.
LEMMA FramedKeeps ==
    ASSUME NEW c, Len(c) \in Nat, NEW k \in Nat, k < Len(c), NEW s, NEW s2, NEW f, NEW e, Framed(s, s2, f, e),
           Ordered(c, s), Reals(s) = InstrBits(c, k + 1),
           \A p \in 1 .. Len(s) : Real(s[p]) => (p > e <=> s[p][1] = k)
    PROVE  /\ Ordered(c, s2) /\ Reals(s2) = Framing(f) \cup InstrBits(c, k)
           /\ \A B, T, T2 :
                 /\ B \subseteq InstrBits(c, k) /\ Hits(T, s, B)
                 /\ DOMAIN T2 = DOMAIN T /\ \A r \in DOMAIN T : T2[r] = T[r] + f[1]
                 => Hits(T2, s2, B)
<1> DEFINE a == f[1]
           z == f[2]
           l == Len(s)
<1>1. /\ a \in Nat /\ z \in Nat /\ e \in Nat /\ l \in Nat /\ e <= l
      /\ DOMAIN s = 1 .. l /\ DOMAIN s2 = 1 .. a + e + z /\ Len(s2) = a + e + z
      /\ \A p \in 1 .. a : s2[p] = <<Pro, p>>
      /\ \A p \in 1 .. e : s2[a + p] = s[p]
      /\ \A p \in 1 .. z : s2[a + e + p] = <<Epi, p>>
  BY DEF Framed
<1>2. \A b : b \in Framing(f) <=> (\E p \in 1 .. a : b = <<Pro, p>>) \/ (\E p \in 1 .. z : b = <<Epi, p>>)
  BY DEF Framing
<1> HIDE DEF a, z, l
<1>3. ASSUME NEW p \in DOMAIN s, Real(s[p])
      PROVE  \E m \in 0 .. k : s[p][1] = m /\ (\E j \in 1 .. Width(c, m) : s[p] = <<m, j>>) /\ (m < k <=> p <= e)
  <2>1. s[p] \in InstrBits(c, k + 1)
    BY <1>3 DEF Reals
  <2>2. PICK m \in 0 .. (k + 1) - 1 : \E j \in 1 .. Width(c, m) : s[p] = <<m, j>>
    BY <2>1, InstrBitsAre
  <2>3. s[p][1] = m /\ m \in 0 .. k
    BY <2>2
  <2>4. p > e <=> m = k
    BY <1>1, <1>3, <2>3 DEF l
  <2>5. m < k <=> p <= e
    BY <1>1, <2>3, <2>4
  <2> QED BY <2>2, <2>3, <2>5
<1>4. ASSUME NEW p \in DOMAIN s2, Real(s2[p])
      PROVE  \/ p \in 1 .. a /\ s2[p] = <<Pro, p>> /\ Rank(c, s2[p]) = -1
             \/ /\ p - a \in 1 .. e /\ p - a \in DOMAIN s /\ s2[p] = s[p - a]
                /\ Rank(c, s2[p]) \in 0 .. k - 1 /\ s2[p] \in InstrBits(c, k)
             \/ p - a - e \in 1 .. z /\ s2[p] = <<Epi, p - a - e>> /\ Rank(c, s2[p]) = Len(c)
  <2>1. CASE p \in 1 .. a
    BY <1>1, <2>1 DEF Rank
  <2>2. CASE p - a \in 1 .. e
    <3>1. s2[a + (p - a)] = s[p - a] /\ a + (p - a) = p /\ p - a \in DOMAIN s
      BY <1>1, <2>2
    <3>2. s2[p] = s[p - a]
      BY <3>1
    <3>3. PICK m \in 0 .. k : /\ s[p - a][1] = m /\ (\E j \in 1 .. Width(c, m) : s[p - a] = <<m, j>>)
                              /\ (m < k <=> p - a <= e)
      BY <1>3, <1>4, <3>1, <3>2
    <3>4. m \in 0 .. k - 1
      BY <2>2, <3>3
    <3>5. Rank(c, s2[p]) = m
      BY <3>2, <3>3 DEF Rank, Pro, Epi
    <3>6. s2[p] \in InstrBits(c, k)
      BY <3>2, <3>3, <3>4, InstrBitsAre
    <3> QED BY <2>2, <3>1, <3>2, <3>4, <3>5, <3>6
  <2>3. CASE p - a - e \in 1 .. z
    <3>1. s2[a + e + (p - a - e)] = <<Epi, p - a - e>> /\ a + e + (p - a - e) = p
      BY <1>1, <2>3, SMTT(30)
    <3>2. s2[p] = <<Epi, p - a - e>>
      BY <3>1
    <3>3. Rank(c, s2[p]) = Len(c)
      BY <3>2 DEF Rank, Pro, Epi
    <3> QED BY <2>3, <3>2, <3>3
  <2>4. p \in 1 .. a \/ p - a \in 1 .. e \/ p - a - e \in 1 .. z
    BY <1>1, SMTT(30)
  <2> QED BY <2>1, <2>2, <2>3, <2>4
<1>5. ASSUME NEW p \in DOMAIN s2, NEW q \in DOMAIN s2, p < q, Real(s2[p]), Real(s2[q])
      PROVE  Before(c, s2[p], s2[q])
  <2> DEFINE InPro(x) == x \in 1 .. a /\ s2[x] = <<Pro, x>> /\ Rank(c, s2[x]) = -1
             InBody(x) == /\ x - a \in 1 .. e /\ x - a \in DOMAIN s /\ s2[x] = s[x - a]
                          /\ Rank(c, s2[x]) \in 0 .. k - 1
             InEpi(x) == x - a - e \in 1 .. z /\ s2[x] = <<Epi, x - a - e>> /\ Rank(c, s2[x]) = Len(c)
  <2>1. (InPro(p) \/ InBody(p) \/ InEpi(p)) /\ (InPro(q) \/ InBody(q) \/ InEpi(q))
    BY <1>4, <1>5
  <2>2. CASE InPro(p) /\ InPro(q)
    BY <1>5, <2>2 DEF Before
  <2>3. CASE InBody(p) /\ InBody(q)
    <3>1. p - a < q - a
      BY <1>1, <1>5
    <3> QED BY <1>5, <2>3, <3>1 DEF Ordered
  <2>4. CASE InEpi(p) /\ InEpi(q)
    <3>1. p - a - e < q - a - e
      BY <1>1, <1>5
    <3> QED BY <2>4, <3>1 DEF Before
  <2>5. CASE (InPro(p) /\ ~ InPro(q)) \/ (InBody(p) /\ InEpi(q))
    <3>1. Rank(c, s2[p]) < Rank(c, s2[q])
      BY <2>1, <2>5
    <3> QED BY <3>1 DEF Before
  <2>6. CASE (InBody(p) \/ InEpi(p)) /\ InPro(q)
    <3>1. p > a /\ q <= a
      BY <1>1, <2>6, SMTT(30)
    <3> QED BY <1>1, <1>5, <3>1
  <2>7. CASE InEpi(p) /\ InBody(q)
    <3>1. p - a - e \in 1 .. z /\ q - a \in 1 .. e
      BY <2>7
    <3>2. p \in Int /\ q \in Int
      BY <1>1
    <3>3. q < p
      BY <1>1, <3>1, <3>2, SMTT(30)
    <3> QED BY <1>5, <3>2, <3>3
  <2> HIDE DEF InPro, InBody, InEpi
  <2> QED BY <2>1, <2>2, <2>3, <2>4, <2>5, <2>6, <2>7
<1>6. Reals(s2) = Framing(f) \cup InstrBits(c, k)
  <2>1. ASSUME NEW b \in Reals(s2)
        PROVE  b \in Framing(f) \cup InstrBits(c, k)
    <3>1. PICK p \in DOMAIN s2 : s2[p] = b /\ Real(b)
      BY DEF Reals
    <3>2. \/ p \in 1 .. a /\ b = <<Pro, p>>
          \/ b \in InstrBits(c, k)
          \/ p - a - e \in 1 .. z /\ b = <<Epi, p - a - e>>
      BY <1>4, <3>1
    <3> QED BY <1>2, <3>2
  <2>2. ASSUME NEW p \in 1 .. a
        PROVE  <<Pro, p>> \in Reals(s2)
    <3>1. p \in DOMAIN s2 /\ s2[p] = <<Pro, p>>
      BY <1>1
    <3> QED BY <3>1 DEF Reals, Real, Pro, Lit
  <2>3. ASSUME NEW p \in 1 .. z
        PROVE  <<Epi, p>> \in Reals(s2)
    <3>1. a + e + p \in DOMAIN s2 /\ s2[a + e + p] = <<Epi, p>>
      BY <1>1
    <3> QED BY <3>1 DEF Reals, Real, Epi, Lit
  <2>4. ASSUME NEW b \in InstrBits(c, k)
        PROVE  b \in Reals(s2)
    <3>1. b \in Reals(s)
      BY InstrBitsNext
    <3>2. PICK p \in DOMAIN s : s[p] = b /\ Real(b)
      BY <3>1 DEF Reals
    <3>3. PICK h \in 0 .. k - 1 : \E j \in 1 .. Width(c, h) : b = <<h, j>>
      BY InstrBitsAre
    <3>4. PICK m \in 0 .. k : s[p][1] = m /\ (m < k <=> p <= e)
      BY <1>3, <3>2
    <3>5. m = h /\ p <= e
      BY <3>2, <3>3, <3>4
    <3>6. a + p \in DOMAIN s2 /\ s2[a + p] = b
      BY <1>1, <3>2, <3>5
    <3> QED BY <3>2, <3>6 DEF Reals
  <2> QED BY <1>2, <2>1, <2>2, <2>3, <2>4
<1>7. ASSUME NEW B, NEW T, NEW T2, B \subseteq InstrBits(c, k), Hits(T, s, B),
             DOMAIN T2 = DOMAIN T, \A r \in DOMAIN T : T2[r] = T[r] + a
      PROVE  Hits(T2, s2, B)
  <2>1. ASSUME NEW b \in B
        PROVE  Real(b) /\ b[1] \in 0 .. k - 1
    <3>1. PICK h \in 0 .. k - 1 : \E j \in 1 .. Width(c, h) : b = <<h, j>>
      BY <1>7, InstrBitsAre
    <3> QED BY <3>1 DEF Real, Lit
  <2>2. ASSUME NEW x \in 0 .. l - 1, s[x + 1] \in B
        PROVE  x + a \in 0 .. Len(s2) - 1 /\ s2[x + a + 1] = s[x + 1]
    <3>1. x + 1 \in DOMAIN s
      BY <1>1
    <3>2. PICK m \in 0 .. k : s[x + 1][1] = m /\ (m < k <=> x + 1 <= e)
      BY <1>3, <2>1, <2>2, <3>1
    <3>3. x + 1 \in 1 .. e
      BY <2>1, <2>2, <3>1, <3>2, <1>1
    <3>4. s2[a + (x + 1)] = s[x + 1]
      BY <3>3, <1>1
    <3>5. a + (x + 1) = x + a + 1
      BY <1>1
    <3> QED BY <3>3, <3>4, <3>5, <1>1
  <2>3. ASSUME NEW y \in 0 .. Len(s2) - 1, s2[y + 1] \in B
        PROVE  y - a \in 0 .. l - 1 /\ s[(y - a) + 1] = s2[y + 1]
    <3>1. y + 1 \in DOMAIN s2 /\ Real(s2[y + 1]) /\ s2[y + 1][1] \in 0 .. k - 1
      BY <1>1, <2>1, <2>3, SMTT(30)
    <3>2. y + 1 - a \in 1 .. e /\ s2[y + 1] = s[y + 1 - a]
      <4>1. PICK x : x = y + 1
        OBVIOUS
      <4>2. x \in DOMAIN s2 /\ Real(s2[x]) /\ s2[x][1] \in 0 .. k - 1
        BY <4>1, <3>1
      <4>3. s2[x] # <<Pro, x>> /\ s2[x] # <<Epi, x - a - e>>
        BY <4>2 DEF Pro, Epi
      <4>4. \/ s2[x] = <<Pro, x>>
            \/ x - a \in 1 .. e /\ s2[x] = s[x - a]
            \/ s2[x] = <<Epi, x - a - e>>
        BY <1>4, <4>2
      <4>5. x - a \in 1 .. e /\ s2[x] = s[x - a]
        BY <4>3, <4>4
      <4> QED BY <1>1, <4>1, <4>5
    <3>3. y + 1 - a = (y - a) + 1
      BY <1>1
    <3> QED BY <1>1, <3>2, <3>3
  <2>4. \A r \in DOMAIN T : T[r] \in 0 .. l - 1 /\ s[T[r] + 1] \in B
    BY <1>7 DEF Hits, Places, l
  <2>5. \A r \in DOMAIN T2 : T2[r] \in Places(s2, B)
    BY <1>7, <2>2, <2>4 DEF Places
  <2>6. ASSUME NEW y \in Places(s2, B)
        PROVE  \E r \in DOMAIN T2 : T2[r] = y
    <3>1. y \in 0 .. Len(s2) - 1 /\ s2[y + 1] \in B
      BY DEF Places
    <3>2. y - a \in Places(s, B)
      BY <2>3, <3>1 DEF Places, l
    <3>3. PICK r \in DOMAIN T : T[r] = y - a
      BY <3>2, <1>7 DEF Hits
    <3> QED BY <1>1, <1>7, <3>1, <3>3
  <2>7. \A q, r \in DOMAIN T2 : q < r => T2[q] < T2[r]
    <3>1. \A q, r \in DOMAIN T : q < r => T[q] < T[r]
      BY <1>7 DEF Hits
    <3> QED BY <1>1, <1>7, <2>4, <3>1
  <2> QED BY <2>5, <2>6, <2>7 DEF Hits
<1> QED BY <1>5, <1>6, <1>7 DEF Ordered, a

-----------------------------------------------------------------------------
(* Cursors and sizes.                                                      *)

\* Where a loop over a table stops.
LEMMA StopIs ==
    ASSUME NEW below, NEW at \in Nat, NEW n \in Nat, at <= n + 1, n + 1 \notin below
    PROVE  /\ Stop(below, at, n) \in at .. n + 1
           /\ at .. Stop(below, at, n) - 1 \subseteq below /\ Stop(below, at, n) \notin below
<1> DEFINE M == {k \in Nat : at <= k /\ k \notin below}
<1>1. n + 1 \in M
  OBVIOUS
<1>2. PICK m \in M : \A k \in M : m <= k
  <2>1. M \subseteq Nat /\ M # {}
    BY <1>1
  <2> HIDE DEF M
  <2> QED BY <2>1, LeastNat
<1>3. m \in at .. n + 1 /\ m \notin below
  BY <1>1, <1>2
<1>4. ASSUME NEW k \in at .. m - 1
      PROVE  k \in below
  <2>1. k \in Nat /\ k < m /\ at <= k
    BY <1>3
  <2> QED BY <1>2, <2>1
<1>5. \E k \in at .. n + 1 : at .. k - 1 \subseteq below /\ k \notin below
  BY <1>3, <1>4
<1> QED BY <1>5 DEF Stop

\* imm_size finds a size, if there is one.
LEMMA ImmSizeIs ==
    ASSUME NEW v, \E k \in 1 .. Sizes : FitsIn(v, k)
    PROVE  \E k \in 1 .. Sizes : ImmSize(v) = SIZE_B * k /\ FitsIn(v, k)
<1>1. Sizes \in Nat
  BY LayoutAssumption
<1> DEFINE M == {k \in 1 .. Sizes : FitsIn(v, k)}
<1>2. PICK m \in M : \A k \in M : m <= k
  <2>1. M \subseteq Nat /\ M # {}
    BY <1>1
  <2> HIDE DEF M
  <2> QED BY <2>1, LeastNat
<1>3. ASSUME NEW k \in 1 .. m - 1
      PROVE  ~ FitsIn(v, k)
  <2>1. k \in 1 .. Sizes /\ k < m
    BY <1>1
  <2> QED BY <1>2, <2>1
<1>4. \E k \in 1 .. Sizes : FitsIn(v, k) /\ \A j \in 1 .. k - 1 : ~ FitsIn(v, j)
  BY <1>3
<1> QED BY <1>4 DEF ImmSize

-----------------------------------------------------------------------------
(* Jumps.                                                                  *)

\* A jump's head is a place of the code, and its immediate comes right after.
LEMMA JumpsAre ==
    ASSUME NEW c, NEW s, s \in Seq(BitT), NEW n, NEW J, NEW F, JumpsAt(c, s, n, J, F), NEW j \in DOMAIN J
    PROVE  /\ SZ_SZ \in Nat \ {0} /\ Len(s) \in Nat
           /\ J[j] \in Nat /\ J[j] - SZ_SZ - 1 \in 0 .. Len(s) - 1 /\ F[j] \in Nat /\ J[j] + F[j] <= Len(s)
           /\ s[J[j] - SZ_SZ] \in HeadBits(c, n)
<1>1. SZ_SZ \in Nat \ {0} /\ Len(s) \in Nat
  BY LayoutAssumption
<1>2. Heads(J)[j] = J[j] - SZ_SZ - 1 /\ j \in DOMAIN Heads(J)
  BY DEF Heads
<1>3. Heads(J)[j] \in Places(s, HeadBits(c, n))
  BY <1>2 DEF JumpsAt, Hits
<1>4. J[j] - SZ_SZ - 1 \in 0 .. Len(s) - 1 /\ s[(J[j] - SZ_SZ - 1) + 1] \in HeadBits(c, n)
  BY <1>2, <1>3 DEF Places
<1>5. J[j] \in Int /\ F[j] \in Nat /\ J[j] + F[j] <= Len(s)
  BY DEF JumpsAt
<1>6. (J[j] - SZ_SZ - 1) + 1 = J[j] - SZ_SZ
  BY <1>1, <1>5
<1> QED BY <1>1, <1>2, <1>4, <1>5, <1>6

\* An immediate of f bits at x, now of f2 bits at x2: in front of the splice,
\* behind it, or the one the splice takes the end of.
InFront(x, f, x2, f2, P)          == x + f <= P /\ x2 = x /\ f2 = f
Behind(x, f, x2, f2, P, Q, m)     == Q <= x - SZ_SZ - 1 /\ x2 = x + m - (Q - P) /\ f2 = f
Inside(x, f, x2, f2, P, Q, m)     == m = 0 /\ P = x + f2 /\ Q = x + f /\ x2 = x /\ f2 \in Nat
JumpMoves(x, f, x2, f2, P, Q, m)  == InFront(x, f, x2, f2, P) \/ Behind(x, f, x2, f2, P, Q, m) \/ Inside(x, f, x2, f2, P, Q, m)

JumpsMove(J, F, J2, F2, P, Q, m) ==
    DOMAIN J2 = DOMAIN J /\ \A j \in DOMAIN J : JumpMoves(J[j], F[j], J2[j], F2[j], P, Q, m)

\* What the cases say of its head, its end, and its bits from a up to b.
Bounds(x, f, x2, f2, P, Q, m, L) ==
    /\ x2 \in Int /\ f2 \in Nat /\ x2 + f2 <= L - (Q - P) + m
    /\ x2 - SZ_SZ - 1 = Moved(x - SZ_SZ - 1, P, Q, m)
    /\ LET a == x - SZ_SZ
           b == x + f
       IN  \/ b <= P /\ x2 - SZ_SZ = a /\ x2 + f2 = b
           \/ Q <= a /\ x2 - SZ_SZ = a + m - (Q - P) /\ x2 + f2 = b + m - (Q - P)
           \/ P <= b /\ x2 - SZ_SZ = a /\ x2 + f2 = P

\* What the cases say of one immediate, and of two that do not overlap.
LEMMA OneMoves ==
    ASSUME NEW P \in Nat, NEW Q \in Nat, NEW m \in Nat, P <= Q, NEW L \in Nat, Q <= L,
           NEW x \in Nat, NEW f \in Nat, SZ_SZ \in Nat, x + f <= L, x - SZ_SZ - 1 >= 0,
           NEW x2, NEW f2, JumpMoves(x, f, x2, f2, P, Q, m)
    PROVE  Bounds(x, f, x2, f2, P, Q, m, L)
BY DEF Bounds, JumpMoves, InFront, Behind, Inside, Moved

\* The same of two of them.
LEMMA TwoMove ==
    ASSUME NEW P \in Nat, NEW Q \in Nat, NEW m \in Nat, P <= Q, SZ_SZ \in Nat,
           NEW x \in Nat, NEW f \in Nat, NEW y \in Nat, NEW g \in Nat, x + f <= y - SZ_SZ - 1,
           NEW x2, NEW f2, JumpMoves(x, f, x2, f2, P, Q, m),
           NEW y2, NEW g2, JumpMoves(y, g, y2, g2, P, Q, m)
    PROVE  x2 + f2 <= y2 - SZ_SZ - 1
BY DEF JumpMoves, InFront, Behind, Inside

\* Jumps stay jumps when something is put in or taken out between them, or at the
\* end of the immediate of one of them.
LEMMA SplicedJumps ==
    ASSUME NEW c, NEW n, \A b \in HeadBits(c, n) : Real(b),
           NEW s, NEW s2, NEW P, NEW Q, NEW m, Spliced(s, s2, P, Q, m),
           NEW J, NEW F, JumpsAt(c, s, n, J, F), NEW J2, NEW F2, JumpsMove(J, F, J2, F2, P, Q, m)
    PROVE  JumpsAt(c, s2, n, J2, F2)
<1>1. /\ P \in Nat /\ Q \in Nat /\ m \in Nat /\ P <= Q /\ Q <= Len(s) /\ s \in Seq(BitT)
      /\ Len(s2) = Len(s) - (Q - P) + m /\ Len(s) \in Nat /\ SZ_SZ \in Nat
  BY LayoutAssumption DEF Spliced
<1>2. ASSUME NEW j \in DOMAIN J
      PROVE  /\ J[j] \in Nat /\ J[j] - SZ_SZ - 1 >= 0 /\ F[j] \in Nat /\ J[j] + F[j] <= Len(s)
  <2>1. /\ J[j] \in Nat /\ J[j] - SZ_SZ - 1 \in 0 .. Len(s) - 1
        /\ F[j] \in Nat /\ J[j] + F[j] <= Len(s)
    BY <1>1, JumpsAre
  <2>2. J[j] - SZ_SZ - 1 >= 0
    BY <2>1
  <2> QED BY <2>1, <2>2
<1>3. DOMAIN J2 = DOMAIN J
  BY DEF JumpsMove
<1>4. ASSUME NEW j \in DOMAIN J
      PROVE  Bounds(J[j], F[j], J2[j], F2[j], P, Q, m, Len(s))
  <2>1. JumpMoves(J[j], F[j], J2[j], F2[j], P, Q, m)
    BY DEF JumpsMove
  <2> QED BY <1>1, <1>2, <2>1, OneMoves
<1>5. Hits(Heads(J2), s2, HeadBits(c, n))
  <2>1. \A j \in DOMAIN J : Heads(J2)[j] = Moved(Heads(J)[j], P, Q, m)
    BY <1>4, <1>3 DEF Heads, Bounds
  <2>2. DOMAIN Heads(J2) = DOMAIN J /\ DOMAIN Heads(J) = DOMAIN J
    BY <1>3 DEF Heads
  <2>3. Hits(Heads(J), s, HeadBits(c, n))
    BY DEF JumpsAt
  <2> QED BY <2>1, <2>2, <2>3, SplicedHits
<1>6. ASSUME NEW j \in DOMAIN J
      PROVE  \A p \in J2[j] - SZ_SZ + 1 .. J2[j] + F2[j] : ~ Real(s2[p])
  <2>1. PICK a, b : a = J[j] - SZ_SZ /\ b = J[j] + F[j]
    OBVIOUS
  <2>2. a \in Nat /\ b \in Nat /\ b <= Len(s)
    <3>1. J[j] \in Nat /\ J[j] - SZ_SZ - 1 >= 0 /\ F[j] \in Nat /\ J[j] + F[j] <= Len(s)
      BY <1>2
    <3>2. J[j] - SZ_SZ \in Nat /\ J[j] + F[j] \in Nat
      BY <1>1, <3>1, SMTT(30)
    <3> QED BY <2>1, <3>1, <3>2
  <2>3. \A q \in a + 1 .. b : ~ Real(s[q])
    BY <2>1 DEF JumpsAt
  <2>4. PICK x2, y2 : x2 = J2[j] - SZ_SZ /\ y2 = J2[j] + F2[j]
    OBVIOUS
  <2>5. SUFFICES \A p \in x2 + 1 .. y2 : ~ Real(s2[p])
    BY <2>4
  <2>6. CASE b <= P /\ x2 = a /\ y2 = b
    <3>1. \A q \in a + 1 .. b : ~ Real(s2[q])
      BY <2>2, <2>3, <2>6, SplicedField
    <3> QED BY <2>6, <3>1
  <2>7. CASE Q <= a /\ x2 = a + m - (Q - P) /\ y2 = b + m - (Q - P)
    <3>1. \A q \in a + m - (Q - P) + 1 .. b + m - (Q - P) : ~ Real(s2[q])
      BY <2>2, <2>3, <2>7, SplicedField
    <3> QED BY <2>7, <3>1
  <2>8. CASE P <= b /\ x2 = a /\ y2 = P
    <3>1. \A q \in a + 1 .. P : ~ Real(s[q])
      BY <1>1, <2>2, <2>3, <2>8
    <3>2. \A q \in a + 1 .. P : ~ Real(s2[q])
      <4>1. P <= Len(s) /\ P <= P
        BY <1>1
      <4> QED BY <1>1, <2>2, <3>1, <4>1, SplicedField
    <3> QED BY <2>8, <3>2
  <2>9. \/ b <= P /\ x2 = a /\ y2 = b
        \/ Q <= a /\ x2 = a + m - (Q - P) /\ y2 = b + m - (Q - P)
        \/ P <= b /\ x2 = a /\ y2 = P
    BY <1>4, <2>1, <2>4 DEF Bounds
  <2> QED BY <2>6, <2>7, <2>8, <2>9
<1>7. ASSUME NEW j \in DOMAIN J, NEW l \in DOMAIN J, j < l
      PROVE  J2[j] + F2[j] <= J2[l] - SZ_SZ - 1
  <2>1. J[j] + F[j] <= J[l] - SZ_SZ - 1
    BY <1>7 DEF JumpsAt
  <2>2. JumpMoves(J[j], F[j], J2[j], F2[j], P, Q, m) /\ JumpMoves(J[l], F[l], J2[l], F2[l], P, Q, m)
    BY DEF JumpsMove
  <2> QED BY <1>1, <1>2, <2>1, <2>2, TwoMove
<1>8. \A j \in DOMAIN J : J2[j] \in Int /\ F2[j] \in Nat /\ J2[j] + F2[j] <= Len(s2)
  BY <1>1, <1>4 DEF Bounds
<1> QED BY <1>5, <1>6, <1>7, <1>8, <1>3 DEF JumpsAt

-----------------------------------------------------------------------------
(* The table of labels.                                                    *)

\* The equation of the size that lab_add finds room for id with.
SizeFrom(id, f) == [m \in Nat |-> IF id < m THEN m ELSE f[Doubled(m)]]

\* Doubling makes the table longer.
LEMMA DoubledIs ==
    ASSUME NEW m \in Nat
    PROVE  Doubled(m) \in Nat /\ Doubled(m) > m
<1>1. LabMin \in Nat \ {0}
  BY LayoutAssumption
<1> QED BY <1>1 DEF Doubled

\* There is such a size.
LEMMA SizeExists ==
    ASSUME NEW id \in Nat
    PROVE  \E f : f = SizeFrom(id, f)
<1> DEFINE Part(k, f) == /\ DOMAIN f = Nat
                         /\ \A m \in Nat : m >= k => f[m] = IF id < m THEN m ELSE f[Doubled(m)]
           B == {j \in Nat : j <= id + 1 /\ ~ \E f : Part(id + 1 - j, f)}
<1>1. ASSUME B # {}
      PROVE  FALSE
  <2>1. PICK j \in B : \A i \in B : j <= i
    <3>1. B \subseteq Nat
      OBVIOUS
    <3> HIDE DEF B
    <3> QED BY <3>1, <1>1, LeastNat
  <2>2. j \in Nat /\ j <= id + 1 /\ ~ \E f : Part(id + 1 - j, f)
    OBVIOUS
  <2>3. CASE j = 0
    <3> DEFINE g == [m \in Nat |-> m]
    <3>1. Part(id + 1 - j, g)
      BY <2>3
    <3> QED BY <2>2, <3>1
  <2>4. CASE j > 0
    <3> DEFINE k == id + 1 - j
    <3>1. j - 1 \in Nat /\ j - 1 <= id + 1 /\ ~ (j <= j - 1) /\ id + 1 - (j - 1) = k + 1 /\ k \in Nat
      BY <2>2, <2>4
    <3>2. j - 1 \notin B
      BY <2>1, <3>1
    <3>3. PICK f : Part(k + 1, f)
      BY <3>1, <3>2
    <3> HIDE DEF k
    <3> DEFINE g == [m \in Nat |-> IF m = k THEN (IF id < k THEN k ELSE f[Doubled(k)]) ELSE f[m]]
    <3>4. ASSUME NEW m \in Nat, m >= k
          PROVE  g[m] = IF id < m THEN m ELSE g[Doubled(m)]
      <4>1. Doubled(m) \in Nat /\ Doubled(m) > m
        BY DoubledIs
      <4>2. g[Doubled(m)] = f[Doubled(m)]
        BY <3>1, <3>4, <4>1
      <4>3. CASE m = k
        BY <4>2, <4>3
      <4>4. CASE m > k
        <5>1. g[m] = f[m] /\ m >= k + 1
          BY <3>1, <4>4
        <5> QED BY <3>3, <4>2, <5>1
      <4> QED BY <3>1, <3>4, <4>3, <4>4
    <3>5. Part(k, g)
      BY <3>4
    <3> QED BY <2>2, <3>5 DEF k
  <2> QED BY <2>2, <2>3, <2>4
<1>2. \E f : Part(0, f)
  <2>1. id + 1 \in Nat /\ id + 1 <= id + 1 /\ id + 1 - (id + 1) = 0
    OBVIOUS
  <2>2. id + 1 \notin B
    BY <1>1
  <2> QED BY <2>1, <2>2
<1>3. PICK f : Part(0, f)
  BY <1>2
<1>4. \A m \in Nat : f[m] = IF id < m THEN m ELSE f[Doubled(m)]
  BY <1>3
<1>5. Part(0, [m \in Nat |-> f[m]])
  <2>1. \A m \in Nat : Doubled(m) \in Nat
    BY DoubledIs
  <2> QED BY <1>4, <2>1
<1> DEFINE h == [m \in Nat |-> f[m]]
<1>6. h = SizeFrom(id, h)
  <2>1. \A m \in Nat : h[m] = SizeFrom(id, h)[m]
    BY <1>5 DEF SizeFrom
  <2>2. DOMAIN SizeFrom(id, h) = Nat /\ SizeFrom(id, h) = [m \in Nat |-> SizeFrom(id, h)[m]]
    BY DEF SizeFrom
  <2> QED BY <2>1, <2>2
<1> QED BY <1>6

\* There is room for id then, and for all that was there.
LEMMA CapacityIs ==
    ASSUME NEW n \in Nat, NEW id \in Nat
    PROVE  Capacity(n, id) \in Nat /\ Capacity(n, id) > id /\ Capacity(n, id) >= n
<1> DEFINE f == CHOOSE f : f = SizeFrom(id, f)
<1>1. f = SizeFrom(id, f)
  BY SizeExists
<1>2. Capacity(n, id) = f[n]
  BY DEF Capacity, SizeFrom
<1> HIDE DEF f
<1>3. \A m \in Nat : f[m] = IF id < m THEN m ELSE f[Doubled(m)]
  <2>1. \A m \in Nat : SizeFrom(id, f)[m] = IF id < m THEN m ELSE f[Doubled(m)]
    BY DEF SizeFrom
  <2> QED BY <1>1, <2>1
<1> DEFINE Fits(m) == f[m] \in Nat /\ f[m] > id /\ f[m] >= m
           B == {j \in Nat : j <= id /\ ~ Fits(id - j)}
<1>4. \A m \in Nat : m > id => Fits(m)
  BY <1>3
<1>5. ASSUME B # {}
      PROVE  FALSE
  <2>1. PICK j \in B : \A i \in B : j <= i
    <3>1. B \subseteq Nat
      OBVIOUS
    <3> HIDE DEF B
    <3> QED BY <3>1, <1>5, LeastNat
  <2> DEFINE m == id - j
             d == Doubled(m)
  <2>2. m \in Nat /\ m <= id /\ ~ Fits(m) /\ j = id - m
    OBVIOUS
  <2> HIDE DEF m
  <2>3. d \in Nat /\ d > m
    BY <2>2, DoubledIs
  <2> HIDE DEF d
  <2>4. f[m] = f[d]
    BY <1>3, <2>2 DEF d
  <2>5. Fits(d)
    <3>1. CASE d > id
      BY <1>4, <2>3, <3>1
    <3>2. CASE d <= id
      <4>1. id - d \in Nat /\ id - d <= id /\ ~ (j <= id - d) /\ id - (id - d) = d
        BY <2>2, <2>3, <3>2
      <4>2. id - d \notin B
        BY <2>1, <4>1
      <4> QED BY <4>1, <4>2
    <3> QED BY <2>3, <3>1, <3>2
  <2>6. Fits(m)
    BY <2>2, <2>3, <2>4, <2>5
  <2> QED BY <2>2, <2>6
<1>6. Fits(n)
  <2>1. CASE n <= id
    <3>1. id - n \in Nat /\ id - n <= id /\ id - (id - n) = n
      BY <2>1
    <3>2. id - n \notin B
      BY <1>5
    <3> QED BY <3>1, <3>2
  <2>2. CASE n > id
    BY <1>4, <2>2
  <2> QED BY <2>1, <2>2
<1> QED BY <1>2, <1>6

\* A table of labels.
Labels(labs) == /\ \E N \in Nat : DOMAIN labs = 0 .. N - 1
                /\ \A x \in DOMAIN labs : labs[x] \in Int

\* What lab_add leaves is one, with the id in it.
LEMMA LabAddIs ==
    ASSUME NEW labs, Labels(labs), NEW id \in Nat, NEW p \in Int
    PROVE  /\ Labels(LabAdd(labs, id, p))
           /\ \A x \in DOMAIN labs \cup {id} : x \in DOMAIN LabAdd(labs, id, p)
<1>1. PICK N \in Nat : DOMAIN labs = 0 .. N - 1
  BY DEF Labels
<1>2. Cardinality(DOMAIN labs) = N
  BY <1>1, FS_Interval
<1> DEFINE M == Capacity(N, id)
           l == LabAdd(labs, id, p)
<1>3. M \in Nat /\ M > id /\ M >= N
  BY CapacityIs
<1>4. l = [x \in 0 .. M - 1 |-> IF x = id THEN p ELSE IF x \in DOMAIN labs THEN labs[x] ELSE 0]
  BY <1>2 DEF LabAdd
<1> HIDE DEF M, l
<1>5. \A x \in 0 .. M - 1 : l[x] \in Int
  BY <1>4 DEF Labels
<1>6. DOMAIN l = 0 .. M - 1
  BY <1>4
<1>7. \A x \in DOMAIN labs \cup {id} : x \in DOMAIN l
  BY <1>1, <1>3, <1>6
<1> QED BY <1>3, <1>5, <1>6, <1>7 DEF Labels, l

-----------------------------------------------------------------------------
(* Writing over what is not real.                                          *)

Overwritten(s, s2) ==
    /\ s \in Seq(BitT) /\ s2 \in Seq(BitT) /\ Len(s2) = Len(s)
    /\ \A p \in DOMAIN s : s2[p] = s[p] \/ (~ Real(s[p]) /\ ~ Real(s2[p]))

\* What o_iat does to bits that are not real.
LEMMA OverIs ==
    ASSUME NEW s \in Seq(BitT), NEW p \in Nat, NEW t \in Seq(LitT), p + Len(t) <= Len(s),
           \A q \in p + 1 .. p + Len(t) : ~ Real(s[q])
    PROVE  Overwritten(s, Over(s, p, t))
<1> DEFINE n == Len(t)
           v == Over(s, p, t)
<1>1. n \in Nat /\ Len(s) \in Nat /\ DOMAIN s = 1 .. Len(s)
  OBVIOUS
<1>2. \A q \in 1 .. n : t[q] \in BitT /\ ~ Real(t[q])
  <2>1. \A q \in 1 .. n : t[q] \in LitT
    OBVIOUS
  <2> QED BY <2>1 DEF LitT, BitT, Real
<1>3. v = [j \in 1 .. Len(s) |-> IF p < j /\ j <= p + n THEN t[j - p] ELSE s[j]]
  BY <1>1 DEF Over
<1> HIDE DEF n, v
<1>4. ASSUME NEW j \in 1 .. Len(s)
      PROVE  v[j] \in BitT /\ (v[j] = s[j] \/ (~ Real(s[j]) /\ ~ Real(v[j])))
  <2>1. CASE p < j /\ j <= p + n
    <3>1. j - p \in 1 .. n /\ j \in p + 1 .. p + n
      BY <1>1, <2>1
    <3> QED BY <1>2, <1>3, <2>1, <3>1 DEF n
  <2>2. CASE ~ (p < j /\ j <= p + n)
    <3>1. v[j] = s[j] /\ s[j] \in BitT
      BY <1>3, <2>2
    <3> QED BY <3>1
  <2> QED BY <2>1, <2>2
<1>5. v \in Seq(BitT) /\ Len(v) = Len(s)
  <2>1. v \in [1 .. Len(s) -> BitT]
    BY <1>3, <1>4
  <2> QED BY <1>1, <2>1
<1> QED BY <1>1, <1>4, <1>5 DEF Overwritten, v

\* It changes no real bit.
LEMMA OverwrittenKeeps ==
    ASSUME NEW s, NEW s2, Overwritten(s, s2)
    PROVE  /\ Reals(s2) = Reals(s)
           /\ \A c : Ordered(c, s) => Ordered(c, s2)
           /\ \A B, T : (\A b \in B : Real(b)) /\ Hits(T, s, B) => Hits(T, s2, B)
<1>1. DOMAIN s2 = DOMAIN s /\ DOMAIN s = 1 .. Len(s) /\ Len(s) \in Nat /\ Len(s2) = Len(s)
  BY DEF Overwritten
<1>2. \A p \in DOMAIN s : (Real(s[p]) <=> Real(s2[p])) /\ (Real(s[p]) => s2[p] = s[p])
  BY DEF Overwritten
<1>3. Reals(s2) = Reals(s)
  BY <1>1, <1>2 DEF Reals
<1>4. \A c : Ordered(c, s) => Ordered(c, s2)
  BY <1>1, <1>2 DEF Ordered
<1>5. ASSUME NEW B, NEW T, \A b \in B : Real(b), Hits(T, s, B)
      PROVE  Hits(T, s2, B)
  <2>1. \A p \in 0 .. Len(s) - 1 : p + 1 \in DOMAIN s
    BY <1>1
  <2>2. \A p \in 0 .. Len(s) - 1 : s[p + 1] \in B <=> s2[p + 1] \in B
    BY <1>2, <1>5, <2>1
  <2>3. Places(s2, B) = Places(s, B)
    BY <1>1, <2>2 DEF Places
  <2> QED BY <1>5, <2>3 DEF Hits
<1> QED BY <1>3, <1>4, <1>5

\* Jumps included.
LEMMA OverwrittenJumps ==
    ASSUME NEW s, NEW s2, Overwritten(s, s2), NEW c, NEW n, \A b \in HeadBits(c, n) : Real(b),
           NEW J, NEW F, JumpsAt(c, s, n, J, F)
    PROVE  JumpsAt(c, s2, n, J, F)
<1>1. Hits(Heads(J), s2, HeadBits(c, n))
  BY OverwrittenKeeps DEF JumpsAt
<1>2. s \in Seq(BitT) /\ DOMAIN s = 1 .. Len(s) /\ Len(s) \in Nat /\ Len(s2) = Len(s)
  BY DEF Overwritten
<1>3. ASSUME NEW j \in DOMAIN J, NEW p \in J[j] - SZ_SZ + 1 .. J[j] + F[j]
      PROVE  ~ Real(s2[p])
  <2>1. ~ Real(s[p])
    BY DEF JumpsAt
  <2>2. p \in DOMAIN s
    <3>1. /\ SZ_SZ \in Nat /\ J[j] \in Nat /\ J[j] - SZ_SZ - 1 \in 0 .. Len(s) - 1
          /\ F[j] \in Nat /\ J[j] + F[j] <= Len(s)
      BY <1>2, JumpsAre
    <3> QED BY <1>2, <3>1
  <2> QED BY <2>1, <2>2 DEF Overwritten
<1> QED BY <1>1, <1>2, <1>3 DEF JumpsAt

\* Bits that are to be read for their value.
LEMMA ImmIs ==
    ASSUME NEW v \in Int, NEW n \in Nat
    PROVE  Imm(v, n) \in Seq(LitT) /\ Len(Imm(v, n)) = n
<1>1. ASSUME NEW j \in 1 .. n
      PROVE  <<Lit, (v \div Pow2[j - 1]) % 2>> \in LitT
  <2>1. j - 1 \in Int
    OBVIOUS
  <2>2. (v \div Pow2[j - 1]) % 2 \in Values
    BY <2>1 DEF Values
  <2> QED BY <2>2 DEF LitT
<1>2. Imm(v, n) \in [1 .. n -> LitT]
  BY <1>1 DEF Imm
<1> QED BY <1>2

\* So is padding.
LEMMA PadIs ==
    ASSUME NEW n \in Nat
    PROVE  Pad(n) \in Seq(LitT) /\ Len(Pad(n)) \in Nat
<1>1. SIZE_B \in Nat \ {0}
  BY LayoutAssumption
<1>2. (-n) % SIZE_B \in Nat
  BY <1>1
<1> QED BY <1>2, ImmIs DEF Pad

\* J2 is J with one more immediate of F2[N + 1] bits, behind the head that ends at x.
Another(J, F, J2, F2, N, x) ==
    /\ DOMAIN J = 1 .. N /\ DOMAIN J2 = 1 .. N + 1
    /\ \A j \in 1 .. N : J2[j] = J[j] /\ F2[j] = F[j]
    /\ J2[N + 1] = x + SZ_SZ /\ F2[N + 1] \in Nat

\* With one more instruction the jumps there were are still jumps, and one more is
\* if the instruction is one.
LEMMA AppendedJumps ==
    ASSUME NEW c \in Seq(Ins), NEW s, NEW s2, NEW k, NEW m, Appended(c, s, s2, k, m), k < Len(c),
           Reals(s) = InstrBits(c, k), NEW J, NEW F, JumpsAt(c, s, k, J, F)
    PROVE  /\ c[k + 1].op \notin {"jmp", "jz", "ret"} => JumpsAt(c, s2, k + 1, J, F)
           /\ \A N \in Nat : \A J2, F2 :
                 /\ c[k + 1].op \in {"jmp", "jz", "ret"}
                 /\ Another(J, F, J2, F2, N, Len(s) + Width(c, k)) /\ m = SZ_SZ + F2[N + 1]
                 => JumpsAt(c, s2, k + 1, J2, F2)
<1> DEFINE w == Width(c, k)
           l == Len(s)
<1>1. /\ k \in Nat /\ m \in Nat /\ w \in Nat /\ l \in Nat /\ Len(s2) = l + w + m /\ s \in Seq(BitT)
      /\ \A p \in 1 .. l : s2[p] = s[p]
      /\ \A p \in l + w + 1 .. l + w + m : ~ Real(s2[p])
  BY DEF Appended
<1> HIDE DEF w, l
<1>2. SZ_SZ \in Nat \ {0} /\ JumpHead \in Nat \ {0}
  BY LayoutAssumption
<1>3. ASSUME NEW j \in DOMAIN J
      PROVE  J[j] \in Nat /\ J[j] - SZ_SZ - 1 >= 0 /\ F[j] \in Nat /\ J[j] + F[j] <= l
  <2>1. J[j] \in Nat /\ J[j] - SZ_SZ - 1 \in 0 .. l - 1 /\ F[j] \in Nat /\ J[j] + F[j] <= l
    BY <1>1, JumpsAre DEF l
  <2>2. J[j] - SZ_SZ - 1 >= 0
    BY <1>1, <2>1
  <2> QED BY <2>1, <2>2
<1>4. ASSUME NEW j \in DOMAIN J, NEW p \in J[j] - SZ_SZ + 1 .. J[j] + F[j]
      PROVE  ~ Real(s2[p])
  <2>1. ~ Real(s[p])
    BY DEF JumpsAt
  <2>2. p \in 1 .. l
    <3>1. J[j] \in Nat /\ J[j] - SZ_SZ - 1 >= 0 /\ F[j] \in Nat /\ J[j] + F[j] <= l
      BY <1>3
    <3> QED BY <1>1, <1>2, <3>1, SMTT(30)
  <2> QED BY <1>1, <2>1, <2>2
<1>5. HeadBits(c, k) \subseteq InstrBits(c, k) /\ Hits(Heads(J), s, HeadBits(c, k))
  <2>1. k \in 0 .. Len(c)
    BY <1>1
  <2> QED BY <2>1, TableBits DEF JumpsAt
<1>6. ASSUME c[k + 1].op \notin {"jmp", "jz", "ret"}
      PROVE  JumpsAt(c, s2, k + 1, J, F)
  <2>1. HeadBits(c, k + 1) = HeadBits(c, k)
    BY <1>1, <1>6, TableBitsNext
  <2>2. Hits(Heads(J), s2, HeadBits(c, k + 1))
    BY <1>5, <2>1, AppendedHits
  <2>3. \A j \in DOMAIN J : J[j] \in Int /\ F[j] \in Nat /\ J[j] + F[j] <= Len(s2)
    <3>1. ASSUME NEW j \in DOMAIN J
          PROVE  J[j] \in Int /\ F[j] \in Nat /\ J[j] + F[j] <= Len(s2)
      <4>1. J[j] \in Nat /\ F[j] \in Nat /\ J[j] + F[j] <= l
        BY <1>3
      <4> QED BY <1>1, <4>1
    <3> QED BY <3>1
  <2>4. \A j, i \in DOMAIN J : j < i => J[j] + F[j] <= J[i] - SZ_SZ - 1
    BY DEF JumpsAt
  <2> QED BY <1>4, <2>2, <2>3, <2>4 DEF JumpsAt
<1>7. ASSUME NEW N \in Nat, NEW J2, NEW F2, c[k + 1].op \in {"jmp", "jz", "ret"},
             Another(J, F, J2, F2, N, l + w), NEW g, g = F2[N + 1], m = SZ_SZ + g
      PROVE  JumpsAt(c, s2, k + 1, J2, F2)
  <2>1. /\ DOMAIN J = 1 .. N /\ DOMAIN J2 = 1 .. N + 1
        /\ \A j \in 1 .. N : J2[j] = J[j] /\ F2[j] = F[j]
    BY <1>7 DEF Another
  <2> DEFINE y == l + w + SZ_SZ
  <2>2. J2[N + 1] = y /\ F2[N + 1] = g /\ g \in Nat
    BY <1>7 DEF Another
  <2>3. m = SZ_SZ + g /\ c[k + 1].op \in {"jmp", "jz", "ret"}
    BY <1>7
  <2>4. y \in Nat /\ y + g = l + w + m /\ y - SZ_SZ - 1 = l + w - 1 /\ y - SZ_SZ + 1 = l + w + 1
    BY <1>1, <1>2, <2>2, <2>3
  <2> HIDE DEF y
  <2>5. w \in 1 .. w
    <3>1. c[k + 1] \in Ins
      BY <1>1
    <3>2. c[k + 1].w \in Nat
      BY <3>1 DEF Ins
    <3>3. w = c[k + 1].w + JumpHead
      BY <2>3 DEF Width, w
    <3>4. c[k + 1].w + JumpHead \in Nat \ {0}
      BY <1>2, <3>2
    <3> QED BY <3>3, <3>4
  <2>6. HeadBits(c, k + 1) = HeadBits(c, k) \cup {<<k, w>>}
    BY <1>1, <1>7, TableBitsNext DEF w
  <2>7. Hits(Heads(J2), s2, HeadBits(c, k + 1))
    <3>1. DOMAIN Heads(J) = 1 .. N /\ DOMAIN Heads(J2) = 1 .. N + 1
      BY <2>1 DEF Heads
    <3>2. \A r \in 1 .. N : Heads(J2)[r] = Heads(J)[r]
      BY <2>1 DEF Heads
    <3>3. Heads(J2)[N + 1] = l + w - 1
      <4>1. N + 1 \in DOMAIN J2
        BY <2>1
      <4> QED BY <2>2, <2>4, <4>1 DEF Heads
    <3> QED BY <1>5, <2>5, <2>6, <3>1, <3>2, <3>3, AppendedHits DEF w, l
  <2>8. \A j \in 1 .. N + 1 : j \in 1 .. N \/ j = N + 1
    OBVIOUS
  <2>9. ASSUME NEW j \in 1 .. N
        PROVE  J2[j] \in Nat /\ F2[j] \in Nat /\ J2[j] + F2[j] <= l /\ J2[j] = J[j] /\ F2[j] = F[j]
    <3>1. J[j] \in Nat /\ F[j] \in Nat /\ J[j] + F[j] <= l
      BY <1>3, <2>1
    <3> QED BY <2>1, <3>1
  <2>10. \A j \in DOMAIN J2 : J2[j] \in Int /\ F2[j] \in Nat /\ J2[j] + F2[j] <= Len(s2)
    <3>1. ASSUME NEW j \in 1 .. N
          PROVE  J2[j] \in Int /\ F2[j] \in Nat /\ J2[j] + F2[j] <= Len(s2)
      <4>1. J2[j] \in Nat /\ F2[j] \in Nat /\ J2[j] + F2[j] <= l
        BY <2>9
      <4> QED BY <1>1, <4>1
    <3>2. J2[N + 1] \in Int /\ F2[N + 1] \in Nat /\ J2[N + 1] + F2[N + 1] <= Len(s2)
      BY <1>1, <2>2, <2>4
    <3> QED BY <2>1, <2>8, <3>1, <3>2
  <2>11. \A j \in DOMAIN J2 : \A p \in J2[j] - SZ_SZ + 1 .. J2[j] + F2[j] : ~ Real(s2[p])
    <3>1. ASSUME NEW p \in J2[N + 1] - SZ_SZ + 1 .. J2[N + 1] + F2[N + 1]
          PROVE  ~ Real(s2[p])
      <4>1. J2[N + 1] - SZ_SZ + 1 = l + w + 1 /\ J2[N + 1] + F2[N + 1] = l + w + m
        BY <2>2, <2>4
      <4> QED BY <1>1, <4>1
    <3>2. \A j \in 1 .. N : \A p \in J2[j] - SZ_SZ + 1 .. J2[j] + F2[j] : ~ Real(s2[p])
      BY <1>4, <2>1
    <3> QED BY <2>1, <2>8, <3>1, <3>2
  <2>12. ASSUME NEW j \in DOMAIN J2, NEW i \in DOMAIN J2, j < i
        PROVE  J2[j] + F2[j] <= J2[i] - SZ_SZ - 1
    <3>1. CASE i \in 1 .. N
      <4>1. j \in 1 .. N
        BY <2>1, <2>12, <3>1
      <4>2. J[j] + F[j] <= J[i] - SZ_SZ - 1
        BY <2>1, <2>12, <3>1, <4>1 DEF JumpsAt
      <4> QED BY <2>1, <3>1, <4>1, <4>2
    <3>2. CASE i = N + 1
      <4>1. j \in 1 .. N
        BY <2>1, <2>12, <3>2
      <4>2. J2[j] + F2[j] <= l /\ J2[j] \in Nat /\ F2[j] \in Nat
        BY <2>9, <4>1
      <4>3. J2[i] - SZ_SZ - 1 = l + w - 1
        BY <2>2, <2>4, <3>2
      <4> QED BY <1>1, <2>5, <4>2, <4>3
    <3> QED BY <2>1, <2>8, <3>1, <3>2
  <2> QED BY <2>7, <2>10, <2>11, <2>12 DEF JumpsAt
<1> QED BY <1>6, <1>7 DEF w, l

\* J2 are the first N places of J, all in front of e, moved by a; the next is not.
FrameMoves(J, F, J2, F2, N, a, e) ==
    /\ DOMAIN J = 1 .. N + 1 /\ J[N + 1] - SZ_SZ - 1 >= e /\ \A j \in 1 .. N : J[j] + F[j] <= e
    /\ DOMAIN J2 = 1 .. N /\ \A j \in 1 .. N : J2[j] = J[j] + a /\ F2[j] = F[j]

\* The jumps in front of the last return are jumps between the frame, too.
LEMMA FramedJumps ==
    ASSUME NEW c \in Seq(Ins), NEW k \in Nat, Len(c) = k + 1, NEW s, NEW s2, NEW f, NEW e,
           Framed(s, s2, f, e), Ordered(c, s), Reals(s) = InstrBits(c, k + 1),
           \A p \in 1 .. Len(s) : Real(s[p]) => (p > e <=> s[p][1] = k),
           NEW N \in Nat, NEW J, NEW F, JumpsAt(c, s, k + 1, J, F),
           NEW J2, NEW F2, FrameMoves(J, F, J2, F2, N, f[1], e)
    PROVE  JumpsAt(c, s2, k, J2, F2)
<1> DEFINE a == f[1]
           z == f[2]
           l == Len(s)
           T == [j \in 1 .. N |-> J[j] - SZ_SZ - 1]
<1>1. /\ a \in Nat /\ z \in Nat /\ e \in Nat /\ l \in Nat /\ e <= l /\ Len(s2) = a + e + z
      /\ s \in Seq(BitT) /\ \A p \in 1 .. e : s2[a + p] = s[p]
  BY DEF Framed
<1> HIDE DEF a, z, l
<1>2. DOMAIN J = 1 .. N + 1 /\ DOMAIN J2 = 1 .. N
  BY DEF FrameMoves, a
<1>3. SZ_SZ \in Nat \ {0}
  BY LayoutAssumption
<1>4. 1 .. N + 1 = (1 .. N) \cup {N + 1}
  OBVIOUS
<1>5. ASSUME NEW j \in 1 .. N + 1
      PROVE  /\ J[j] \in Nat /\ J[j] - SZ_SZ - 1 \in 0 .. l - 1 /\ F[j] \in Nat /\ J[j] + F[j] <= l
             /\ s[J[j] - SZ_SZ] \in HeadBits(c, k + 1)
  BY <1>2, <1>1, JumpsAre DEF l
<1>6. HeadBits(c, k) \subseteq InstrBits(c, k) /\ \A b \in HeadBits(c, k + 1) : Real(b)
  <2>1. k \in 0 .. Len(c) /\ k + 1 \in 0 .. Len(c)
    OBVIOUS
  <2> QED BY <2>1, TableBits
<1>7. \A b : b \in HeadBits(c, k) <=> b \in HeadBits(c, k + 1) /\ b[1] # k
  <2>1. \A b \in HeadBits(c, k) : b[1] \in 0 .. k - 1 /\ b \in HeadBits(c, k + 1)
    BY TableBitsNext DEF HeadBits
  <2>2. \A b \in HeadBits(c, k + 1) : b \in HeadBits(c, k) \/ b[1] = k
    <3>1. HeadBits(c, k + 1) = HeadBits(c, k) \/ HeadBits(c, k + 1) = HeadBits(c, k) \cup {<<k, Width(c, k)>>}
      BY TableBitsNext
    <3> QED BY <3>1
  <2> QED BY <2>1, <2>2
<1>8. Hits(T, s, HeadBits(c, k))
  <2>1. Places(s, HeadBits(c, k + 1)) = {Heads(J)[j] : j \in DOMAIN Heads(J)} /\ DOMAIN Heads(J) = 1 .. N + 1
    BY <1>2 DEF JumpsAt, Hits, Heads
  <2>2. \A j \in 1 .. N : T[j] = Heads(J)[j]
    BY <1>2, <1>4 DEF Heads
  <2>3. ASSUME NEW j \in 1 .. N
        PROVE  T[j] \in Places(s, HeadBits(c, k))
    <3>1. PICK x : x = J[j] - SZ_SZ - 1
      OBVIOUS
    <3>2. x \in 0 .. l - 1 /\ x + 1 \in 1 .. l /\ ~ (x + 1 > e) /\ x + 1 = J[j] - SZ_SZ
      <4>1. PICK v, g : v = J[j] /\ g = F[j]
        OBVIOUS
      <4>2. /\ v \in Nat /\ v - SZ_SZ - 1 \in 0 .. l - 1 /\ g \in Nat
        BY <1>4, <1>5, <4>1
      <4>3. v + g <= e
        BY <4>1 DEF FrameMoves
      <4>4. x = v - SZ_SZ - 1
        BY <3>1, <4>1
      <4>5. x \in 0 .. l - 1 /\ x + 1 \in 1 .. l /\ ~ (x + 1 > e) /\ x + 1 = v - SZ_SZ
        BY <1>1, <1>3, <4>2, <4>3, <4>4
      <4> QED BY <4>1, <4>5
    <3>3. s[x + 1] \in HeadBits(c, k + 1) /\ Real(s[x + 1])
      BY <1>4, <1>5, <1>6, <3>2
    <3>4. s[x + 1][1] # k
      BY <3>2, <3>3 DEF l
    <3>5. s[x + 1] \in HeadBits(c, k)
      BY <1>7, <3>3, <3>4
    <3> QED BY <3>1, <3>2, <3>5 DEF Places, l
  <2>4. ASSUME NEW y \in Places(s, HeadBits(c, k))
        PROVE  \E j \in 1 .. N : T[j] = y
    <3>1. y \in 0 .. l - 1 /\ s[y + 1] \in HeadBits(c, k)
      BY DEF Places, l
    <3>2. y \in Places(s, HeadBits(c, k + 1))
      BY <1>7, <3>1 DEF Places, l
    <3>3. PICK j \in 1 .. N + 1 : Heads(J)[j] = y
      BY <2>1, <3>2
    <3>4. j # N + 1
      <4>1. SUFFICES ASSUME j = N + 1 PROVE FALSE
        OBVIOUS
      <4>2. y = J[N + 1] - SZ_SZ - 1
        BY <1>2, <1>4, <3>3, <4>1 DEF Heads
      <4>3. y + 1 > e /\ y + 1 \in 1 .. l
        <5>1. y >= e
          BY <4>2 DEF FrameMoves, a
        <5> QED BY <1>1, <3>1, <5>1
      <4>4. Real(s[y + 1])
        BY <1>6, <1>7, <3>1
      <4>5. s[y + 1][1] = k
        BY <4>3, <4>4 DEF l
      <4> QED BY <1>7, <3>1, <4>5
    <3> QED BY <1>4, <2>2, <3>3, <3>4
  <2>5. {T[j] : j \in DOMAIN T} = Places(s, HeadBits(c, k))
    BY <2>3, <2>4
  <2>6. \A q, r \in DOMAIN T : q < r => T[q] < T[r]
    <3>1. \A q, r \in DOMAIN Heads(J) : q < r => Heads(J)[q] < Heads(J)[r]
      BY DEF JumpsAt, Hits
    <3> HIDE DEF T
    <3>2. DOMAIN T = 1 .. N
      BY DEF T
    <3> QED BY <1>4, <2>1, <2>2, <3>1, <3>2
  <2> HIDE DEF T
  <2> QED BY <2>5, <2>6 DEF Hits
<1>9. Hits(Heads(J2), s2, HeadBits(c, k))
  <2>1. DOMAIN Heads(J2) = DOMAIN T
    BY <1>2 DEF Heads
  <2>2. ASSUME NEW j \in DOMAIN T
        PROVE  Heads(J2)[j] = T[j] + a
    <3>1. PICK x : x = J[j]
      OBVIOUS
    <3>2. x \in Nat
      BY <1>4, <1>5, <3>1
    <3>3. J2[j] = x + a /\ T[j] = x - SZ_SZ - 1
      BY <3>1 DEF FrameMoves, a
    <3>4. Heads(J2)[j] = (x + a) - SZ_SZ - 1
      BY <1>2, <3>3 DEF Heads
    <3> QED BY <1>1, <1>3, <3>2, <3>3, <3>4
  <2> HIDE DEF T
  <2>3. Len(c) \in Nat /\ k < Len(c)
    OBVIOUS
  <2> QED BY <1>6, <1>8, <2>1, <2>2, <2>3, FramedKeeps, SMTT(30) DEF a
<1>10. ASSUME NEW j \in 1 .. N
      PROVE  /\ J2[j] \in Int /\ F2[j] \in Nat /\ J2[j] + F2[j] <= Len(s2)
             /\ \A p \in J2[j] - SZ_SZ + 1 .. J2[j] + F2[j] : ~ Real(s2[p])
  <2>1. PICK x, g : x = J[j] /\ g = F[j]
    OBVIOUS
  <2>2. x \in Nat /\ g \in Nat /\ x - SZ_SZ - 1 \in 0 .. l - 1 /\ x + g <= e
    BY <1>4, <1>5, <2>1 DEF FrameMoves, a
  <2>3. J2[j] = x + a /\ F2[j] = g
    BY <2>1 DEF FrameMoves, a
  <2>4. ASSUME NEW p \in (x + a) - SZ_SZ + 1 .. (x + a) + g
        PROVE  ~ Real(s2[p])
    <3>1. p - a \in 1 .. e /\ p - a \in x - SZ_SZ + 1 .. x + g /\ a + (p - a) = p
      BY <1>1, <1>3, <2>2
    <3>2. ~ Real(s[p - a])
      BY <1>2, <1>4, <2>1, <3>1 DEF JumpsAt
    <3>3. s2[a + (p - a)] = s[p - a]
      BY <1>1, <3>1
    <3> QED BY <3>1, <3>2, <3>3
  <2>5. x + a \in Int /\ (x + a) + g <= Len(s2)
    BY <1>1, <2>2
  <2> QED BY <2>2, <2>3, <2>4, <2>5
<1>11. ASSUME NEW j \in 1 .. N, NEW i \in 1 .. N, j < i
       PROVE  J2[j] + F2[j] <= J2[i] - SZ_SZ - 1
  <2>1. PICK x, g, y : x = J[j] /\ g = F[j] /\ y = J[i]
    OBVIOUS
  <2>2. x \in Nat /\ g \in Nat /\ y \in Nat
    BY <1>4, <1>5, <2>1
  <2>3. x + g <= y - SZ_SZ - 1
    BY <1>2, <1>4, <1>11, <2>1 DEF JumpsAt
  <2>4. (x + a) + g <= (y + a) - SZ_SZ - 1
    BY <1>1, <1>3, <2>2, <2>3
  <2> QED BY <2>1, <2>4 DEF FrameMoves, a
<1> QED BY <1>2, <1>9, <1>10, <1>11 DEF JumpsAt

-----------------------------------------------------------------------------
(* Tables that a pass moves.                                               *)

\* What a pass has moved by d, up to its new cursor, and has yet to move by d + e.
LEMMA AheadOfShifted ==
    ASSUME NEW T, IntTable(T), DOMAIN T \subseteq Nat,
           NEW a \in Nat, NEW b \in Nat, a <= b, NEW d \in Int, NEW e \in Int, NEW d2, d2 = d + e
    PROVE  Lags(Ahead(Shifted(T, a, b, d), b, d2), Ahead(T, a, d), b, e)
<1> USE DEF IntTable
<1>1. ASSUME NEW r \in DOMAIN T
      PROVE  /\ Ahead(T, a, d)[r] \in Int
             /\ Ahead(Shifted(T, a, b, d), b, d + e)[r] = Ahead(T, a, d)[r] + IF r >= b THEN e ELSE 0
  <2>1. PICK x, k : x = T[r] /\ k = r
    OBVIOUS
  <2>2. x \in Int /\ k \in Nat
    BY <2>1
  <2>3. Ahead(T, a, d)[r] = x + IF k >= a THEN d ELSE 0
    BY <2>1 DEF Ahead
  <2>4. Shifted(T, a, b, d)[r] = x + IF a <= k /\ k < b THEN d ELSE 0
    BY <2>1 DEF Shifted, Within
  <2>5. Ahead(Shifted(T, a, b, d), b, d + e)[r] = (x + IF a <= k /\ k < b THEN d ELSE 0) + IF k >= b THEN d + e ELSE 0
    BY <2>1, <2>4 DEF Ahead, Shifted
  <2> QED BY <2>1, <2>2, <2>3, <2>5
<1> QED BY <1>1 DEF Ahead, Shifted, Lags

\* At the end all of it has moved.
LEMMA ShiftedToTheEnd ==
    ASSUME NEW n \in Nat, NEW T, DOMAIN T = 1 .. n, NEW a, NEW d
    PROVE  Shifted(T, a, n + 1, d) = Ahead(T, a, d)
<1>1. \A r \in DOMAIN T : Within(r, a, n + 1) <=> r >= a
  BY DEF Within
<1> QED BY <1>1 DEF Shifted, Ahead

\* Nothing is yet to move.
LEMMA AheadOfNothing ==
    ASSUME NEW n, NEW T, T = [r \in 1 .. n |-> T[r]], \A r \in 1 .. n : T[r] \in Int, NEW a
    PROVE  Ahead(T, a, 0) = T
<1>1. \A r \in 1 .. n : T[r] + (IF r >= a THEN 0 ELSE 0) = T[r]
  OBVIOUS
<1>2. DOMAIN T = 1 .. n
  OBVIOUS
<1> QED BY <1>1, <1>2 DEF Ahead

\* The cursor stops between the entries that are below the place and those that
\* are not.
LEMMA CursorStops ==
    ASSUME NEW n \in Nat, NEW T, DOMAIN T = 1 .. n, IntTable(T),
           NEW a, NEW d \in Int, NEW this \in Int, NEW p, p = this + d,
           NEW R, R = Ahead(T, a, d), Rising(R, n), Passed(R, n, a, p),
           NEW b, b = StopsAt(T, n, a, this)
    PROVE  Splits(R, n, a, b, p)
<1> USE DEF IntTable, Rising, Passed, Splits
<1> DEFINE below == {r \in 1 .. n : T[r] < this}
<1>1. n + 1 \notin below /\ b = Stop(below, a, n) /\ a \in Nat /\ a <= n + 1
      /\ \A r \in 1 .. n : r \in below <=> T[r] < this
  BY DEF StopsAt
<1> HIDE DEF below
<1>2. b \in a .. n + 1 /\ a .. b - 1 \subseteq below /\ b \notin below
  <2>1. a \in Nat /\ n \in Nat /\ a <= n + 1 /\ n + 1 \notin below
    BY <1>1
  <2>2. /\ Stop(below, a, n) \in a .. n + 1
        /\ a .. Stop(below, a, n) - 1 \subseteq below /\ Stop(below, a, n) \notin below
    BY ONLY <2>1, StopIs
  <2> QED BY <1>1, <2>2, Zenon
<1>3. b \in Nat /\ a <= b /\ b <= n + 1 /\ a \in Nat
  BY <1>2
<1>4. ASSUME NEW r \in 1 .. n, r >= a
      PROVE  R[r] = T[r] + d /\ T[r] \in Int
  BY <1>4 DEF Ahead
<1>5. ASSUME NEW r \in 1 .. n, r < b
      PROVE  R[r] < this + d
  <2>1. CASE r < a
    BY <2>1
  <2>2. CASE r >= a
    <3>1. r \in a .. b - 1
      BY <1>3, <1>5, <2>2
    <3>2. T[r] < this
      BY <1>1, <1>2, <3>1
    <3> QED BY <1>4, <2>2, <3>2
  <2> QED BY <1>3, <2>1, <2>2
<1>6. ASSUME NEW r \in 1 .. n, ~ (r < b)
      PROVE  ~ (R[r] < this + d)
  <2>1. b \in 1 .. n /\ b >= a /\ b <= r
    BY <1>3, <1>6
  <2>2. ~ (T[b] < this)
    BY <1>1, <1>2, <2>1
  <2>3. R[b] = T[b] + d /\ T[b] \in Int
    BY <1>4, <2>1
  <2>4. R[b] \in Int /\ ~ (R[b] < this + d)
    BY <2>2, <2>3
  <2>5. R[r] \in Int
    <3>1. r >= a
      BY <1>3, <2>1
    <3>2. R[r] = T[r] + d /\ T[r] \in Int
      BY <1>4, <3>1
    <3> QED BY <3>2
  <2>6. r = b \/ R[b] < R[r]
    BY <2>1
  <2> QED BY <2>4, <2>5, <2>6
<1> QED BY <1>2, <1>5, <1>6

-----------------------------------------------------------------------------
(* The intermediate code that is emitted.                                  *)

\* It ends in a return, and its jumps go to places in it or to its end.
Complies(c) == /\ c \in Seq(Ins) /\ Len(c) > 0
               /\ c[Len(c)].op = "ret"
               /\ \A k \in DOMAIN c : /\ c[k].op = "ret" => c[k].w = 0
                                      /\ Jumps(c, k) => c[k].a3 < Len(c)

\* What ic_get works on ends in a return, and a return is no more than its jump.
LEMMA WithRetEnds ==
    ASSUME NEW s \in Sources \cup More
    PROVE  LET c == WithRet(s) IN /\ Len(c) > 0 /\ c[Len(c)].op = "ret"
                                 /\ \A i \in DOMAIN c : /\ c[i].op = "ret" => c[i].w = 0
                                                        /\ Jumps(c, i) => c[i].a3 < Len(c)
<1>1. s \in Seq(Ins) /\ \A i \in DOMAIN s : (s[i].op = "ret" => s[i].w = 0) /\ s[i].a3 <= Len(s)
  BY LayoutAssumption
<1> DEFINE mov == [op |-> "mov", a1 |-> 0, a3 |-> 0, w |-> 1, id |-> Len(s) + 1]
           ret == [op |-> "ret", a1 |-> Len(s), a3 |-> 0, w |-> 0, id |-> Len(s) + 2]
           c   == s \o <<mov, ret>>
<1>2. Len(s) \in Nat
  BY <1>1
<1>3. mov \in Ins /\ ret \in Ins /\ ret.op = "ret" /\ ret.w = 0 /\ mov.op = "mov"
  BY <1>2 DEF Ins, Ops
<1>4. CASE NeedsRet(s)
  <2>1. WithRet(s) = c
    BY <1>4 DEF WithRet
  <2> HIDE DEF mov, ret
  <2>2. /\ Len(c) = Len(s) + 2 /\ c[Len(s) + 1] = mov /\ c[Len(s) + 2] = ret
        /\ \A i \in 1 .. Len(s) : c[i] = s[i]
    BY <1>1, <1>3
  <2>3. DOMAIN c = 1 .. Len(s) + 2
    BY <1>1, <1>3
  <2> HIDE DEF c
  <2>4. ASSUME NEW i \in DOMAIN c
        PROVE  (c[i].op = "ret" => c[i].w = 0) /\ (Jumps(c, i) => c[i].a3 < Len(c))
    <3>1. CASE i \in 1 .. Len(s)
      <4>1. i \in DOMAIN s /\ c[i] = s[i]
        BY <1>1, <2>2, <3>1
      <4>2. s[i].a3 \in Nat /\ s[i].a3 <= Len(s)
        <5>1. s[i] \in Ins
          BY <1>1, <4>1
        <5> QED BY <1>1, <4>1, <5>1 DEF Ins
      <4>3. c[i].a3 < Len(c)
        BY <1>2, <2>2, <4>1, <4>2
      <4> QED BY <1>1, <4>1, <4>3
    <3>2. CASE i = Len(s) + 1
      BY <1>3, <2>2, <3>2 DEF Jumps
    <3>3. CASE i = Len(s) + 2
      BY <1>3, <2>2, <3>3 DEF Jumps
    <3> QED BY <1>2, <2>3, <3>1, <3>2, <3>3
  <2> QED BY <1>2, <1>3, <2>1, <2>2, <2>4
<1>5. CASE ~ NeedsRet(s)
  <2>1. WithRet(s) = s /\ s # <<>> /\ s[Len(s)].op = "ret"
    BY <1>5 DEF WithRet, NeedsRet
  <2>2. Len(s) > 0 /\ Len(s) \in DOMAIN s
    BY <1>1, <2>1
  <2>3. ASSUME NEW i \in DOMAIN s, Jumps(s, i)
        PROVE  s[i].a3 < Len(s)
    <3>1. s[i].a3 # Len(s)
      BY <1>5, <2>3 DEF NeedsRet
    <3>2. s[i] \in Ins
      BY <1>1
    <3>3. s[i].a3 \in Nat /\ s[i].a3 <= Len(s)
      BY <1>1, <3>2 DEF Ins
    <3> QED BY <1>2, <3>1, <3>3
  <2> QED BY <1>1, <2>1, <2>2, <2>3
<1> QED BY <1>4, <1>5

\* So does what io_deadcode leaves of it.
LEMMA AliveComplies ==
    ASSUME NEW s \in Sources \cup More
    PROVE  Complies(Alive(WithRet(s)))
<1> DEFINE c == WithRet(s)
           L == Live(c)
           a == Alive(c)
           n == Cardinality(L)
<1>1. /\ WellFormed(c) /\ Len(c) > 0 /\ c[Len(c)].op = "ret"
      /\ \A i \in DOMAIN c : /\ c[i].op = "ret" => c[i].w = 0
                             /\ Jumps(c, i) => c[i].a3 < Len(c)
  BY WithRetWellFormed, WithRetEnds
<1> HIDE DEF c
<1>2. c \in Seq(Ins) /\ DOMAIN c = 1 .. Len(c) /\ Len(c) \in Nat /\ Len(c) \in DOMAIN c
  BY <1>1 DEF WellFormed
<1>3. L = LeastAround(c) /\ L \in SUBSET (1 .. Len(c)) /\ Len(c) \in L
  <2>1. L = LeastAround(c)
    BY <1>1, LiveIsLeast
  <2>2. ~ IsOut(c, Len(c))
    BY <1>1 DEF IsOut
  <2>3. Len(c) \in Effects(c)
    BY <1>2, <2>2 DEF Effects
  <2>4. Around(c, L)
    BY <1>1, <2>1, LeastIsAround
  <2> QED BY <1>2, <2>1, <2>3, <2>4 DEF Around
<1>4. IsFiniteSet(L) /\ n \in Nat
  <2>1. IsFiniteSet(1 .. Len(c))
    BY <1>2, FS_Interval
  <2>2. L \subseteq 1 .. Len(c)
    BY <1>3
  <2> HIDE DEF L
  <2>3. IsFiniteSet(L)
    BY <2>1, <2>2, FS_Subset
  <2> QED BY <2>3, FS_CardinalityType
<1>5. DOMAIN a = 1 .. n
  BY DEF Alive
<1>6. ASSUME NEW t \in Nat
      PROVE  NewIndex(c, t) \in Nat /\ NewIndex(c, t) <= n
  <2>1. {j \in L : j <= t} \subseteq L
    OBVIOUS
  <2>2. IsFiniteSet({j \in L : j <= t}) /\ Cardinality({j \in L : j <= t}) <= n
    BY <1>4, <2>1, FS_Subset
  <2>3. Cardinality({j \in L : j <= t}) \in Nat
    BY <2>2, FS_CardinalityType
  <2> QED BY <2>2, <2>3 DEF NewIndex
<1>7. ASSUME NEW t \in Nat, t < Len(c)
       PROVE  NewIndex(c, t) < n
  <2>1. \A i \in Nat : Count(L, i) = NewIndex(c, i)
    BY DEF Count, NewIndex
  <2>2. L \in SUBSET (1 .. Len(c)) /\ Len(c) \in L /\ Len(c) \in Nat
    BY <1>2, <1>3
  <2> HIDE DEF L
  <2>3. Count(L, t) < Count(L, Len(c)) /\ Count(L, Len(c)) = n
    BY <1>7, <2>2, CountUp, CountStep
  <2> QED BY <2>1, <2>3
<1>8. ASSUME NEW k \in 1 .. n
      PROVE  a[k] \in Ins /\ (Jumps(a, k) => a[k].a3 < n)
  <2> DEFINE i == Nth(L, k)
  <2>1. a[k] = Renumbered(c, i) /\ i \in DOMAIN c
    BY <1>1, <1>2, <1>3, <1>5, AliveIs
  <2> HIDE DEF i
  <2>2. c[i] \in Ins
    BY <1>2, <2>1
  <2>3. c[i].a1 \in Nat /\ c[i].a3 \in Nat
    BY <2>2 DEF Ins
  <2>4. NewIndex(c, c[i].a1) \in Nat /\ NewIndex(c, c[i].a3) \in Nat /\ NewIndex(c, c[i].a3) <= n
    BY <1>6, <2>3
  <2>5. Renumbered(c, i) \in Ins
    BY <2>2, <2>4 DEF Renumbered, Ins
  <2>6. Renumbered(c, i).op = c[i].op /\ (Jumps(c, i) => Renumbered(c, i).a3 = NewIndex(c, c[i].a3))
    BY <1>1, <2>1, RenumberedIs
  <2>7. Jumps(c, i) => NewIndex(c, c[i].a3) < n
    BY <1>1, <1>7, <2>1, <2>3
  <2> HIDE DEF a, n
  <2> QED BY <2>1, <2>4, <2>5, <2>6, <2>7 DEF Jumps
<1>9. a \in Seq(Ins) /\ Len(a) = n
  <2>1. a = [k \in 1 .. n |-> a[k]]
    BY DEF Alive
  <2>2. a \in [1 .. n -> Ins]
    <3> HIDE DEF a
    <3> QED BY <1>8, <2>1
  <2> HIDE DEF a, n
  <2> QED BY <1>4, <2>2
<1>10. Complete(c, a)
  BY <1>1, AliveIsComplete
<1> HIDE DEF a, n
<1>11. PICK k \in 1 .. n : a[k].id = Len(c)
  <2>1. Len(c) \in {a[k].id : k \in DOMAIN a}
    BY <1>3, <1>10 DEF Complete
  <2> QED BY <1>5, <2>1
<1>12. n \in 1 .. n /\ k <= n /\ k \in Nat
  BY <1>4, <1>11
<1>13. a[n].id = Len(c)
  <2>1. a[n].id \in L
    BY <1>3, <1>5, <1>10, <1>12 DEF Complete
  <2>2. a[n].id <= Len(c) /\ a[n].id \in Nat
    BY <1>3, <2>1
  <2>3. k < n => a[k].id < a[n].id
    BY <1>5, <1>10, <1>11, <1>12 DEF Complete
  <2>4. ~ (k < n)
    BY <1>2, <1>11, <2>2, <2>3
  <2>5. k = n
    BY <1>4, <1>12, <2>4
  <2> QED BY <1>11, <2>5
<1>14. a[n].op = "ret"
  BY <1>1, <1>5, <1>10, <1>12, <1>13 DEF Complete
<1>15. ASSUME NEW j \in 1 .. n, a[j].op = "ret"
       PROVE  a[j].w = 0
  <2>1. a[j].id \in L /\ a[j].op = c[a[j].id].op /\ a[j].w = c[a[j].id].w
    BY <1>3, <1>5, <1>10 DEF Complete
  <2> QED BY <1>1, <1>2, <1>3, <1>15, <2>1
<1>16. Len(a) > 0
  BY <1>4, <1>9, <1>12
<1> QED BY <1>5, <1>8, <1>9, <1>14, <1>16, <1>15 DEF Complies, a, c

-----------------------------------------------------------------------------
(* The invariant.                                                          *)

\* What is written so far and what is still to come, and how far that will move.
Virtual == IF pc = "idle" THEN Cut(text, outDef, Len(text)) ELSE cs \o Cut(loc.c, loc.prev, Len(loc.c))
Shift   == IF pc = "shrink" THEN -loc.diff ELSE loc.diff

\* The tables, as if the running pass had ended, and the sizes of immediates.
VRels == IF pc = "idle" THEN [r \in DOMAIN outRels |-> outRels[r] - outDef] ELSE Ahead(rels, loc.rel, Shift)
Offs  == [j \in DOMAIN jmps |-> jmps[j].off]
VJmps == Ahead(Offs, IF pc = "shrink" THEN loc.i ELSE loc.jmp, Shift)
Field == [j \in DOMAIN jmps |-> IF pc = "write" \/ (pc = "shrink" /\ j < loc.i) THEN loc.sz[j] ELSE SIZE_W]

\* The instructions there are, what is there besides, and the labels given.
There  == IF pc = "gen" THEN loc.i - 1 ELSE IF pc = "wrap" THEN Len(ic) ELSE Len(ic) - 1
Beside == IF pc \in {"gen", "wrap"} THEN {{}} ELSE {Framing(f) : f \in Frames}
Given  == IF pc = "gen" THEN 1 .. loc.i - 1 ELSE IF pc = "wrap" THEN 1 .. Len(ic) + 1 ELSE 0 .. Len(ic) + 1

\* Code with n instructions and its relocations.
CodeAt(c, s, n, bs, R) ==
    /\ s \in Seq(BitT) /\ Ordered(c, s) /\ Hits(R, s, SymBits(c, n))
    /\ \E B \in bs : Reals(s) = B \cup InstrBits(c, n)

\* A return of N jumps at e, the last of the code.
ReturnAt(s, k, J, N, e) ==
    /\ Len(s) = e + JumpHead + SZ_SZ + SIZE_W
    /\ N > 0 /\ J[N] - SZ_SZ - 1 >= e /\ \A j \in 1 .. N - 1 : J[j] + SIZE_W <= e
    /\ \A p \in 1 .. Len(s) : Real(s[p]) => (p > e <=> s[p][1] = k)

\* No place from entry i on, moved by d, is before m, behind the end, or in a jump.
PadsAt(T, i, d, m, s, J) ==
    \A k \in DOMAIN T : k >= i =>
        /\ m <= T[k] + d /\ T[k] + d <= Len(s)
        /\ \A j \in DOMAIN J : T[k] + d <= J[j] - SZ_SZ - 1 \/ J[j] + SIZE_W <= T[k] + d
Phases == {"idle", "gen", "wrap", "align", "sizes", "shrink", "write"}
\* Of loc.lab nothing has to be known.
Locals == [c : Seq(BitT), i : Nat \ {0}, prev : Nat, diff : Int, rel : Nat, jmp : Nat,
           lab : {loc.lab}, sz : Seq(Nat)]

Types ==
    /\ pc \in Phases /\ loc \in Locals
    /\ cs \in Seq(BitT) /\ text \in Seq(BitT) /\ outDef \in 0 .. Len(text)
    /\ rels \in Seq(Int) /\ pads \in Seq(Int) /\ outRels \in Seq(Int)
    /\ jmps \in Seq([off : Int, dst : Nat]) /\ jmp_ret \in Nat /\ Labels(lab_loc)

PassInv ==
    /\ pc = "idle" => cs = <<>> /\ rels = <<>> /\ jmps = <<>> /\ pads = <<>>
    /\ pc # "idle" => outDef = Len(text)
    /\ pc = "gen" => loc.i <= Len(ic) + 1
    /\ pc = "align" => loc.i <= Len(pads) + 1
    /\ pc = "sizes" => loc = NoLocals
    /\ pc \in {"shrink", "write"} => loc.i <= Len(jmps) + 1
    /\ pc \in {"align", "shrink"} => Len(cs) = loc.prev + Shift /\ loc.prev <= Len(loc.c)
    /\ pc \notin {"align", "shrink"} => loc.c = <<>> /\ loc.prev = 0 /\ loc.diff = 0
    /\ pc \in {"shrink", "write"} => loc.sz \in [1 .. Len(jmps) -> {SIZE_B * k : k \in 1 .. Sizes}]

TablesInv ==
    /\ pc \in {"align", "shrink"} => Passed(VRels, Len(rels), loc.rel, Len(cs))
    /\ pc = "align" => Passed(VJmps, Len(jmps), loc.jmp, Len(cs))
    /\ pc = "shrink" => \A j \in 1 .. Len(jmps) : j >= loc.i => Len(cs) <= VJmps[j]

PadInv ==
    /\ pc \in {"gen", "wrap"} => PadsAt(pads, 1, 0, 0, cs, VJmps)
    /\ pc = "align" => PadsAt(pads, loc.i, loc.diff, Len(cs), Virtual, VJmps)
    /\ \A i, l \in DOMAIN pads : i < l => pads[i] <= pads[l]

LabInv == pc # "idle" => /\ Given \subseteq DOMAIN lab_loc
                         /\ \A j \in DOMAIN jmps : jmps[j].dst <= Len(ic) + 1

RetInv == pc \in {"gen", "wrap"} /\ There > 0 /\ ic[There].op = "ret" =>
    /\ ReturnAt(cs, There - 1, Offs, Len(jmps), jmp_ret)
    /\ \A i \in DOMAIN pads : pads[i] <= jmp_ret

CodeInv ==
    /\ Complies(ic) /\ CodeAt(ic, Virtual, There, Beside, VRels)
    /\ pc # "idle" => JumpsAt(ic, Virtual, There, VJmps, Field)
    /\ TablesInv /\ PadInv /\ LabInv /\ RetInv

LayoutInv == Types /\ PassInv /\ (pc # "idle" \/ funcs > 0 => CodeInv)

\* What a step of a pass does to the code and its jumps: it puts n bits in place of
\* those from P up to Q, or leaves all as it was.
Splices(P, Q, n) == /\ Spliced(Virtual, Virtual', P, Q, n)
                    /\ JumpsMove(VJmps, Field, VJmps', Field', P, Q, n)
Stays            == Virtual' = Virtual /\ VJmps' = VJmps /\ Field' = Field

\* i_wrap puts frame f around the code up to e; i_align puts n bits in at P;
\* i_shortjumps takes out those from P up to Q; i_code puts n bits in at the end.
WrapsAt(f, e)   == /\ e = jmp_ret /\ e \in Nat /\ Framed(Virtual, Virtual', f, e) /\ Virtual = cs
                   /\ FrameMoves(VJmps, Field, VJmps', Field', Len(jmps) - 1, f[1], e)
                   /\ Len(jmps) - 1 \in Nat /\ Len(jmps') = Len(jmps) - 1
                   /\ \A j \in 1 .. Len(jmps) - 1 : jmps'[j].dst = jmps[j].dst
                   /\ \A p \in 1 .. Len(cs) : Real(cs[p]) => (p > e <=> cs[p][1] = Len(ic) - 1)
                   /\ \A i \in DOMAIN pads : pads[i] <= e
                   /\ loc'.lab = 1 /\ Shift' = 0
                   /\ lab_loc' = [l \in DOMAIN LabAdd(lab_loc, LAB_RET, e) |->
                                     LabAdd(lab_loc, LAB_RET, e)[l] + f[1]]
AlignsAt(P, n)  == /\ P = pads[loc.i] + loc.diff /\ n = Len(Pad(P)) /\ Splices(P, P, n)
                   /\ Len(cs) <= P /\ Len(cs') = P + n /\ Shift = loc.diff /\ Shift' = Shift + n
                   /\ loc'.lab = Stop({l \in DOMAIN lab_loc : Below(lab_loc[l], pads[loc.i])}, loc.lab, LastLab)
ShrinksAt(P, Q) == /\ P = VJmps[loc.i] + loc.sz[loc.i] /\ Q = VJmps[loc.i] + SIZE_W /\ Splices(P, Q, 0)
                   /\ VJmps[loc.i] = jmps[loc.i].off + Shift /\ loc.sz[loc.i] \in 1 .. SIZE_W
                   /\ Field[loc.i] = SIZE_W
                   /\ Len(cs) <= VJmps[loc.i] /\ Len(cs') = P /\ Shift' = Shift + (0 - (Q - P))
                   /\ loc'.lab = Stop({l \in DOMAIN lab_loc : lab_loc[l] <= jmps[loc.i].off}, loc.lab, LastLab)
EndsWith(n)     == /\ n = Len(Pad(Len(cs))) /\ Virtual = cs /\ Spliced(Virtual, Virtual', Len(cs), Len(cs), n)
                   /\ text' = text \o Virtual'

-----------------------------------------------------------------------------
(* Phases.                                                                 *)

\* Where no pass moves anything, the code is what it will be.
LEMMA Standing ==
    Types /\ PassInv /\ pc \notin {"idle", "align", "shrink"}
        => Virtual = cs /\ VRels = rels /\ VJmps = Offs
<1> SUFFICES ASSUME Types, PassInv, pc \notin {"idle", "align", "shrink"}
             PROVE  Virtual = cs /\ VRels = rels /\ VJmps = Offs
  OBVIOUS
<1>1. cs \in Seq(BitT) /\ rels \in Seq(Int) /\ jmps \in Seq([off : Int, dst : Nat])
  BY DEF Types
<1>2. loc.c = <<>> /\ loc.prev = 0 /\ Shift = 0
  BY DEF PassInv, Shift
<1>3. Virtual = cs
  <2>1. Cut(<<>>, 0, Len(<<>>)) = <<>>
    BY DEF Cut
  <2> QED BY <1>1, <1>2, <2>1 DEF Virtual
<1>4. VRels = rels
  <2>1. rels = [r \in 1 .. Len(rels) |-> rels[r]] /\ \A r \in 1 .. Len(rels) : rels[r] \in Int
    BY <1>1
  <2> QED BY <1>2, <2>1, AheadOfNothing DEF VRels
<1>5. VJmps = Offs
  <2>1. Offs = [r \in 1 .. Len(jmps) |-> Offs[r]]
    BY <1>1 DEF Offs
  <2>2. \A r \in 1 .. Len(jmps) : Offs[r] \in Int
    <3>1. \A S : jmps \in Seq(S) => \A r \in 1 .. Len(jmps) : jmps[r] \in S
      BY ElementOfSeq
    <3>2. \A r \in 1 .. Len(jmps) : jmps[r] \in [off : Int, dst : Nat]
      BY <1>1, <3>1
    <3> QED BY <1>1, <3>2 DEF Offs
  <2> QED BY <1>2, <2>1, <2>2, AheadOfNothing DEF VJmps
<1> QED BY <1>3, <1>4, <1>5

-----------------------------------------------------------------------------
(* Emitting an instruction.                                                *)

\* u are w bits of instruction k, and n that are not real.
Piece(u, k, w, n) ==
    /\ k \in Nat /\ w \in Nat /\ n \in Nat /\ u \in Seq(BitT) /\ Len(u) = w + n
    /\ \A j \in 1 .. w : u[j] = <<k, j>>
    /\ \A p \in w + 1 .. w + n : ~ Real(u[p])

\* The bits of an instruction are.
LEMMA BitsIs ==
    ASSUME NEW k \in Nat, NEW w \in Nat
    PROVE  Piece(Bits(k, w), k, w, 0)
<1>1. Bits(k, w) = [j \in 1 .. w |-> <<k, j>>]
  BY DEF Bits
<1>2. \A j \in 1 .. w : <<k, j>> \in BitT
  BY DEF BitT
<1> QED BY <1>1, <1>2 DEF Piece

\* With bits that are to be read for their value behind them, they still are.
LEMMA PieceAndMore ==
    ASSUME NEW u, NEW k, NEW w, NEW n, Piece(u, k, w, n), NEW t \in Seq(LitT)
    PROVE  Piece(u \o t, k, w, n + Len(t))
<1> DEFINE v == u \o t
           m == Len(t)
<1>1. m \in Nat /\ u \in Seq(BitT) /\ Len(u) = w + n /\ k \in Nat /\ w \in Nat /\ n \in Nat
  BY DEF Piece
<1>2. t \in Seq(BitT) /\ \A p \in 1 .. m : ~ Real(t[p])
  <2>1. \A p \in 1 .. m : t[p] \in LitT
    OBVIOUS
  <2>2. t \in Seq(BitT)
    BY DEF BitT
  <2> QED BY <2>1, <2>2 DEF LitT, Real
<1>3. /\ v \in Seq(BitT) /\ Len(v) = Len(u) + m
      /\ \A p \in 1 .. Len(u) : v[p] = u[p]
      /\ \A p \in Len(u) + 1 .. Len(u) + m : v[p] = t[p - Len(u)]
  <2>1. u \in Seq(BitT) /\ t \in Seq(BitT)
    BY <1>1, <1>2
  <2> QED BY <2>1, JoinIs
<1> HIDE DEF v, m
<1>4. \A j \in 1 .. w : v[j] = <<k, j>>
  BY <1>1, <1>3 DEF Piece
<1>5. ASSUME NEW p \in w + 1 .. w + (n + m)
      PROVE  ~ Real(v[p])
  <2>1. CASE p <= w + n
    <3>1. p \in w + 1 .. w + n /\ p \in 1 .. Len(u)
      BY <1>1, <2>1
    <3> QED BY <1>3, <3>1 DEF Piece
  <2>2. CASE p > w + n
    <3>1. p \in Len(u) + 1 .. Len(u) + m /\ p - Len(u) \in 1 .. m
      BY <1>1, <2>2
    <3> QED BY <1>2, <1>3, <3>1
  <2> QED BY <1>1, <2>1, <2>2
<1>6. Len(v) = w + (n + m) /\ n + m \in Nat
  BY <1>1, <1>3
<1> QED BY <1>1, <1>3, <1>4, <1>5, <1>6 DEF Piece, v, m

\* So are those of a jump.
LEMMA JumpBitsIs ==
    ASSUME NEW k \in Nat, NEW w \in Nat
    PROVE  Piece(JumpBits(k, w), k, JumpHead + w, SZ_SZ + SIZE_W)
<1>1. JumpHead \in Nat /\ SZ_SZ \in Nat /\ SIZE_W \in Nat /\ Sizes - 1 \in Int /\ 0 \in Int
  BY LayoutAssumption, SizesAre
<1> DEFINE v == JumpHead + w
           a == Imm(Sizes - 1, SZ_SZ)
           b == Imm(0, SIZE_W)
<1>2. v \in Nat /\ 0 + SZ_SZ = SZ_SZ
  BY <1>1
<1>3. a \in Seq(LitT) /\ Len(a) = SZ_SZ
  BY <1>1, ImmIs
<1>4. b \in Seq(LitT) /\ Len(b) = SIZE_W
  BY <1>1, ImmIs
<1> HIDE DEF v, a, b
<1>5. Piece(Bits(k, v), k, v, 0)
  BY <1>2, BitsIs
<1>6. Piece(Bits(k, v) \o a, k, v, 0 + Len(a))
  BY <1>3, <1>5, PieceAndMore
<1>7. Piece((Bits(k, v) \o a) \o b, k, v, (0 + Len(a)) + Len(b))
  BY <1>4, <1>6, PieceAndMore
<1>8. (0 + Len(a)) + Len(b) = SZ_SZ + SIZE_W
  BY <1>1, <1>3, <1>4
<1> QED BY <1>7, <1>8 DEF JumpBits, v, a, b

\* A piece put behind the code of the instructions before.
LEMMA PieceAppended ==
    ASSUME NEW c, NEW s \in Seq(BitT), NEW u, NEW k, NEW n, Piece(u, k, Width(c, k), n)
    PROVE  Appended(c, s, s \o u, k, n)
<1> DEFINE v == s \o u
           w == Width(c, k)
           l == Len(s)
<1>1. l \in Nat /\ u \in Seq(BitT) /\ Len(u) = w + n /\ k \in Nat /\ w \in Nat /\ n \in Nat
  BY DEF Piece
<1>2. /\ v \in Seq(BitT) /\ Len(v) = l + Len(u)
      /\ \A p \in 1 .. l : v[p] = s[p]
      /\ \A p \in l + 1 .. l + Len(u) : v[p] = u[p - l]
  <2>1. u \in Seq(BitT)
    BY <1>1
  <2> QED BY <2>1, JoinIs
<1>3. (\A j \in 1 .. w : u[j] = <<k, j>>) /\ (\A p \in w + 1 .. w + n : ~ Real(u[p]))
  BY DEF Piece
<1> HIDE DEF v, w, l
<1>4. ASSUME NEW j \in 1 .. w
      PROVE  v[l + j] = <<k, j>>
  <2>1. l + j \in l + 1 .. l + Len(u) /\ (l + j) - l = j
    BY <1>1
  <2> QED BY <1>2, <1>3, <2>1
<1>5. ASSUME NEW p \in l + w + 1 .. l + Len(u)
      PROVE  ~ Real(v[p])
  <2>1. p \in l + 1 .. l + Len(u) /\ p - l \in w + 1 .. w + n
    BY <1>1
  <2> QED BY <1>2, <1>3, <2>1
<1>6. Len(v) = l + w + n
  BY <1>1, <1>2
<1>7. \A p \in l + w + 1 .. Len(v) : ~ Real(v[p])
  BY <1>2, <1>5
<1> QED BY <1>1, <1>2, <1>4, <1>6, <1>7 DEF Appended, v, w, l

\* What emitting instruction loc.i does, with m bits that are not real: what each
\* of the kinds of instructions adds to the tables.
Issues(m, d) ==
    LET k    == loc.i - 1
        op   == ic[loc.i].op
        jump == op \in {"jmp", "jz", "ret"}
    IN  /\ pc = "gen" /\ loc.i <= Len(ic) /\ Appended(ic, cs, cs', k, m)
        /\ rels' = IF op \in {"movsym", "callsym"} THEN Append(rels, Len(cs) + ic[loc.i].w) ELSE rels
        /\ jmps' = IF jump THEN Append(jmps, [off |-> Len(cs) + Width(ic, k) + SZ_SZ, dst |-> d]) ELSE jmps
        /\ m = IF jump THEN SZ_SZ + SIZE_W ELSE 0
        /\ pads' = IF op \in {"call", "callsym"} THEN Append(pads, Len(cs')) ELSE pads
        /\ jmp_ret' = IF op = "ret" THEN Len(cs) ELSE jmp_ret
        /\ d \in Nat /\ d <= Len(ic) + 1
        /\ lab_loc' = LabAdd(lab_loc, loc.i, Len(cs)) /\ loc' = [loc EXCEPT !.i = @ + 1]
        /\ UNCHANGED <<pc, ic, text, outDef, outRels>>

\* Pads and jumps there were are where they were; a new jump is behind s, a new pad
\* at the end of s2.
MoreJumps(J, J2, l, l2) ==
    \A j \in DOMAIN J2 : /\ J2[j] \in Int /\ J2[j] + SIZE_W <= l2
                         /\ (j \in DOMAIN J /\ J2[j] = J[j]) \/ J2[j] - SZ_SZ - 1 >= l
MorePads(T, T2, l2) == \A k \in DOMAIN T2 : (k \in DOMAIN T /\ T2[k] = T[k]) \/ T2[k] = l2

\* None is in a jump.
LEMMA MorePadsAt ==
    ASSUME NEW s, NEW s2, NEW l \in Nat, NEW l2 \in Nat, l = Len(s), l2 = Len(s2), l <= l2,
           NEW T, NEW T2, \A k \in DOMAIN T : T[k] \in Int, MorePads(T, T2, l2),
           NEW J, NEW J2, MoreJumps(J, J2, l, l2), PadsAt(T, 1, 0, 0, s, J)
    PROVE  PadsAt(T2, 1, 0, 0, s2, J2)
<1> SUFFICES ASSUME NEW k \in DOMAIN T2, k >= 1
             PROVE  /\ 0 <= T2[k] + 0 /\ T2[k] + 0 <= Len(s2)
                    /\ \A j \in DOMAIN J2 : T2[k] + 0 <= J2[j] - SZ_SZ - 1 \/ J2[j] + SIZE_W <= T2[k] + 0
  BY DEF PadsAt
<1>1. SZ_SZ \in Nat /\ SIZE_W \in Nat
  BY LayoutAssumption, SizesAre
<1>2. CASE T2[k] = l2
  <2>1. ASSUME NEW j \in DOMAIN J2
        PROVE  J2[j] \in Int /\ J2[j] + SIZE_W <= l2
    BY DEF MoreJumps
  <2>2. 0 <= l2 + 0 /\ l2 + 0 <= l2 /\ l2 + 0 = l2
    OBVIOUS
  <2> QED BY <1>2, <2>1, <2>2
<1>3. CASE k \in DOMAIN T /\ T2[k] = T[k]
  <2>1. PICK t : t = T[k]
    OBVIOUS
  <2>2. t \in Int
    BY <1>3, <2>1
  <2>3. 0 <= t + 0 /\ t + 0 <= l
    BY <1>3, <2>1 DEF PadsAt
  <2>4. ASSUME NEW j \in DOMAIN J2
        PROVE  t + 0 <= J2[j] - SZ_SZ - 1 \/ J2[j] + SIZE_W <= t + 0
    <3>1. PICK x : x = J2[j]
      OBVIOUS
    <3>2. x \in Int /\ ((j \in DOMAIN J /\ x = J[j]) \/ x - SZ_SZ - 1 >= l)
      BY <3>1 DEF MoreJumps
    <3>3. CASE j \in DOMAIN J /\ x = J[j]
      <4>1. t + 0 <= x - SZ_SZ - 1 \/ x + SIZE_W <= t + 0
        BY <1>3, <2>1, <3>3 DEF PadsAt
      <4> QED BY <3>1, <4>1
    <3>4. CASE x - SZ_SZ - 1 >= l
      <4>1. t + 0 <= x - SZ_SZ - 1
        BY <1>1, <2>2, <2>3, <3>2, <3>4
      <4> QED BY <3>1, <4>1
    <3> QED BY <3>2, <3>3, <3>4
  <2>5. t + 0 <= l2
    BY <2>2, <2>3
  <2> QED BY <1>3, <2>1, <2>3, <2>4, <2>5
<1> QED BY <1>2, <1>3 DEF MorePads

\* A return that has been emitted is the last of the code.
LEMMA ReturnIs ==
    ASSUME NEW c, NEW s, NEW s2, NEW k, NEW m, Appended(c, s, s2, k, m),
           Reals(s) = InstrBits(c, k), Width(c, k) = JumpHead, m = SZ_SZ + SIZE_W,
           NEW N \in Nat, NEW J, NEW J2, NEW F, NEW F2, JumpsAt(c, s, k, J, F),
           \A j \in DOMAIN J : F[j] = SIZE_W, Another(J, F, J2, F2, N, Len(s) + JumpHead)
    PROVE  ReturnAt(s2, k, J2, N + 1, Len(s))
<1> DEFINE l == Len(s)
<1>1. SZ_SZ \in Nat /\ SIZE_W \in Nat /\ JumpHead \in Nat \ {0}
  BY LayoutAssumption, SizesAre
<1>2. /\ k \in Nat /\ l \in Nat /\ s \in Seq(BitT) /\ DOMAIN s = 1 .. l
      /\ Len(s2) = l + JumpHead + (SZ_SZ + SIZE_W)
      /\ \A p \in 1 .. l : s2[p] = s[p]
      /\ \A j \in 1 .. JumpHead : s2[l + j] = <<k, j>>
      /\ \A p \in l + JumpHead + 1 .. Len(s2) : ~ Real(s2[p])
  BY DEF Appended
<1>3. DOMAIN J = 1 .. N /\ J2[N + 1] = l + JumpHead + SZ_SZ /\ \A j \in 1 .. N : J2[j] = J[j]
  BY DEF Another
<1>4. ASSUME NEW j \in 1 .. N
      PROVE  J[j] + SIZE_W <= l
  <2>1. j \in DOMAIN J /\ F[j] = SIZE_W
    BY <1>3
  <2> QED BY <2>1 DEF JumpsAt
<1> HIDE DEF l
<1>5. Len(s2) = l + JumpHead + SZ_SZ + SIZE_W
  BY <1>1, <1>2
<1>6. PICK x : x = J2[N + 1]
  OBVIOUS
<1>7. x = l + JumpHead + SZ_SZ
  BY <1>3, <1>6
<1>8. x - SZ_SZ - 1 >= l
  BY <1>1, <1>2, <1>7
<1>9. \A j \in 1 .. (N + 1) - 1 : J2[j] + SIZE_W <= l
  <2>1. (N + 1) - 1 = N
    OBVIOUS
  <2> QED BY <1>3, <1>4, <2>1
<1>10. ASSUME NEW p \in 1 .. Len(s2), Real(s2[p])
      PROVE  p > l <=> s2[p][1] = k
  <2>1. CASE p <= l
    <3>1. p \in 1 .. l
      BY <1>2, <2>1
    <3>2. s2[p] = s[p] /\ s[p] \in Reals(s)
      BY <1>2, <1>10, <3>1 DEF Reals
    <3>3. \E i \in 0 .. k - 1 : \E j \in 1 .. Width(c, i) : s[p] = <<i, j>>
      BY <1>2, <3>2, InstrBitsAre
    <3>4. s[p][1] \in 0 .. k - 1
      BY <3>3
    <3>5. s2[p][1] # k
      BY <1>2, <3>2, <3>4
    <3> QED BY <1>2, <2>1, <3>5
  <2>2. CASE p > l
    <3>1. p \in l + 1 .. Len(s2) /\ ~ (p \in l + JumpHead + 1 .. Len(s2))
      BY <1>2, <1>10, <2>2
    <3>2. p - l \in 1 .. JumpHead /\ l + (p - l) = p
      BY <1>1, <1>2, <1>5, <3>1
    <3>3. s2[l + (p - l)] = <<k, p - l>>
      BY <1>2, <3>2
    <3>4. s2[p] = <<k, p - l>>
      BY <3>2, <3>3
    <3> QED BY <2>2, <3>4
  <2> QED BY <1>2, <1>5, <2>1, <2>2
<1>11. N + 1 > 0
  OBVIOUS
<1> QED BY <1>5, <1>6, <1>8, <1>9, <1>10, <1>11 DEF ReturnAt, l

\* The places of the jumps.
LEMMA OffsAre ==
    ASSUME jmps \in Seq([off : Int, dst : Nat])
    PROVE  /\ DOMAIN Offs = 1 .. Len(jmps) /\ DOMAIN Field = 1 .. Len(jmps) /\ Len(jmps) \in Nat
           /\ \A j \in 1 .. Len(jmps) : Offs[j] = jmps[j].off /\ Offs[j] \in Int /\ jmps[j].dst \in Nat
<1>1. \A S : jmps \in Seq(S) => \A r \in 1 .. Len(jmps) : jmps[r] \in S
  BY ElementOfSeq
<1>2. \A r \in 1 .. Len(jmps) : jmps[r] \in [off : Int, dst : Nat]
  BY <1>1
<1>3. DOMAIN jmps = 1 .. Len(jmps) /\ Len(jmps) \in Nat
  OBVIOUS
<1> QED BY <1>2, <1>3 DEF Offs, Field

\* The same of the next state.
LEMMA OffsNext ==
    jmps' \in Seq([off : Int, dst : Nat])
        => /\ DOMAIN Offs' = 1 .. Len(jmps') /\ DOMAIN Field' = 1 .. Len(jmps') /\ Len(jmps') \in Nat
           /\ \A j \in 1 .. Len(jmps') : Offs'[j] = jmps'[j].off /\ Offs'[j] \in Int /\ jmps'[j].dst \in Nat
<1>1. (jmps \in Seq([off : Int, dst : Nat])
        => /\ DOMAIN Offs = 1 .. Len(jmps) /\ DOMAIN Field = 1 .. Len(jmps) /\ Len(jmps) \in Nat
           /\ \A j \in 1 .. Len(jmps) : Offs[j] = jmps[j].off /\ Offs[j] \in Int /\ jmps[j].dst \in Nat)'
  <2>1. jmps \in Seq([off : Int, dst : Nat])
        => /\ DOMAIN Offs = 1 .. Len(jmps) /\ DOMAIN Field = 1 .. Len(jmps) /\ Len(jmps) \in Nat
           /\ \A j \in 1 .. Len(jmps) : Offs[j] = jmps[j].off /\ Offs[j] \in Int /\ jmps[j].dst \in Nat
    BY OffsAre
  <2> QED BY <2>1, PTL
<1> QED BY <1>1

\* The same of the next state.
LEMMA StandingNext ==
    Types' /\ PassInv' /\ pc' \notin {"idle", "align", "shrink"}
        => Virtual' = cs' /\ VRels' = rels' /\ VJmps' = Offs'
<1>1. (Types /\ PassInv /\ pc \notin {"idle", "align", "shrink"}
        => Virtual = cs /\ VRels = rels /\ VJmps = Offs)'
  BY Standing, PTL
<1> QED BY <1>1

\* The constants are positive.
LEMMA ConstantsAre == {SZ_SZ, JumpHead, SIZE_W} \subseteq Nat \ {0}
<1>1. SZ_SZ \in Nat \ {0} /\ JumpHead \in Nat \ {0}
  BY LayoutAssumption
<1> QED BY <1>1, SizesAre

\* The locals when the next instruction has been done.
LEMMA LocNext ==
    ASSUME loc \in Locals, loc' = [loc EXCEPT !.i = @ + 1]
    PROVE  /\ loc' \in Locals' /\ loc'.i = loc.i + 1 /\ loc'.c = loc.c /\ loc'.prev = loc.prev
           /\ loc'.diff = loc.diff /\ loc'.rel = loc.rel /\ loc'.jmp = loc.jmp /\ loc'.sz = loc.sz
<1>1. /\ loc'.i = loc.i + 1 /\ loc'.c = loc.c /\ loc'.prev = loc.prev /\ loc'.lab = loc.lab
      /\ loc'.diff = loc.diff /\ loc'.rel = loc.rel /\ loc'.jmp = loc.jmp /\ loc'.sz = loc.sz
  BY DEF Locals
<1>2. loc' = [c |-> loc.c, i |-> loc.i + 1, prev |-> loc.prev, diff |-> loc.diff,
              rel |-> loc.rel, jmp |-> loc.jmp, lab |-> loc.lab, sz |-> loc.sz]
  BY DEF Locals
<1>3. /\ loc.c \in Seq(BitT) /\ loc.i + 1 \in Nat \ {0} /\ loc.prev \in Nat /\ loc.diff \in Int
      /\ loc.rel \in Nat /\ loc.jmp \in Nat /\ loc.sz \in Seq(Nat)
  BY DEF Locals
<1>4. loc' \in Locals'
  BY <1>1, <1>2, <1>3 DEF Locals
<1> QED BY <1>1, <1>4

\* What an instruction of any kind needs to be so emitted.
LEMMA IssueKeeps ==
    ASSUME NEW m, NEW d, LayoutInv, Issues(m, d)
    PROVE  LayoutInv'
<1> DEFINE k  == loc.i - 1
           w  == Width(ic, k)
           l  == Len(cs)
           op == ic[loc.i].op
           jump == op \in {"jmp", "jz", "ret"}
           sym  == op \in {"movsym", "callsym"}
<1>1. Types /\ PassInv /\ CodeInv /\ pc = "gen" /\ loc.i <= Len(ic)
  BY DEF LayoutInv, Issues
<1>2. /\ cs \in Seq(BitT) /\ rels \in Seq(Int) /\ pads \in Seq(Int) /\ jmps \in Seq([off : Int, dst : Nat])
      /\ Labels(lab_loc) /\ loc.i \in Nat \ {0} /\ loc \in Locals
  BY <1>1 DEF Types, Locals
<1>3. Appended(ic, cs, cs', k, m)
  BY DEF Issues
<1>4. /\ rels' = IF sym THEN Append(rels, l + ic[loc.i].w) ELSE rels
      /\ jmps' = IF jump THEN Append(jmps, [off |-> l + w + SZ_SZ, dst |-> d]) ELSE jmps
      /\ m = IF jump THEN SZ_SZ + SIZE_W ELSE 0
      /\ pads' = IF op \in {"call", "callsym"} THEN Append(pads, Len(cs')) ELSE pads
      /\ jmp_ret' = IF op = "ret" THEN l ELSE jmp_ret
      /\ d \in Nat /\ d <= Len(ic) + 1
      /\ lab_loc' = LabAdd(lab_loc, loc.i, l) /\ loc' = [loc EXCEPT !.i = @ + 1]
      /\ pc' = pc /\ ic' = ic /\ text' = text /\ outDef' = outDef /\ outRels' = outRels
  BY DEF Issues
<1>5. /\ ic \in Seq(Ins) /\ Len(ic) \in Nat /\ k \in Nat /\ k < Len(ic) /\ k + 1 = loc.i
      /\ ic[loc.i] \in Ins /\ ic[loc.i].w \in Nat /\ SZ_SZ \in Nat /\ SIZE_W \in Nat /\ JumpHead \in Nat
      /\ l \in Nat /\ w \in Nat /\ cs' \in Seq(BitT) /\ Len(cs') = l + w + m /\ m \in Nat
  <2>1. ic \in Seq(Ins) /\ Len(ic) \in Nat
    BY <1>1 DEF CodeInv, Complies
  <2>2. loc.i \in 1 .. Len(ic)
    BY <1>1, <1>2, <2>1
  <2>3. ic[loc.i] \in Ins
    BY <2>1, <2>2
  <2>4. w \in Nat /\ m \in Nat /\ cs' \in Seq(BitT) /\ Len(cs') = l + w + m
    BY <1>3 DEF Appended
  <2>5. ic[loc.i].w \in Nat
    BY <2>3 DEF Ins
  <2>6. l \in Nat
    BY <1>2
  <2>7. k \in Nat /\ k < Len(ic) /\ k + 1 = loc.i
    BY <2>1, <2>2
  <2> QED BY <2>1, <2>3, <2>4, <2>5, <2>6, <2>7, ConstantsAre
<1>6. Virtual = cs /\ VRels = rels /\ VJmps = Offs
  BY <1>1, Standing
<1>7. There = k /\ Beside = {{}}
  BY <1>1 DEF There, Beside
<1>8. /\ Ordered(ic, cs) /\ Hits(rels, cs, SymBits(ic, k)) /\ Reals(cs) = InstrBits(ic, k)
      /\ JumpsAt(ic, cs, k, Offs, Field)
  BY <1>1, <1>6, <1>7 DEF CodeInv, CodeAt
<1> HIDE DEF w, l, op, jump, sym
<1>9. Labels(lab_loc') /\ \A x \in DOMAIN lab_loc \cup {loc.i} : x \in DOMAIN lab_loc'
  <2>1. Labels(lab_loc) /\ loc.i \in Nat /\ l \in Int
    BY <1>2, <1>5
  <2>2. lab_loc' = LabAdd(lab_loc, loc.i, l)
    BY <1>4
  <2>3. /\ Labels(LabAdd(lab_loc, loc.i, l))
        /\ \A x \in DOMAIN lab_loc \cup {loc.i} : x \in DOMAIN LabAdd(lab_loc, loc.i, l)
    BY <2>1, LabAddIs
  <2> QED BY <2>2, <2>3, Zenon
<1>10. /\ loc' \in Locals' /\ loc'.i = loc.i + 1 /\ loc'.c = loc.c /\ loc'.prev = loc.prev
       /\ loc'.diff = loc.diff
  BY <1>2, <1>4, LocNext
<1>11. Types'
  <2>1. rels' \in Seq(Int) /\ pads' \in Seq(Int)
    <3>1. l + ic[loc.i].w \in Int /\ Len(cs') \in Int
      BY <1>5
    <3>2. Append(rels, l + ic[loc.i].w) \in Seq(Int) /\ Append(pads, Len(cs')) \in Seq(Int)
      BY <1>2, <3>1
    <3> QED BY <1>2, <1>4, <3>2
  <2>2. jmps' \in Seq([off : Int, dst : Nat])
    <3>1. [off |-> l + w + SZ_SZ, dst |-> d] \in [off : Int, dst : Nat]
      BY <1>4, <1>5
    <3>2. Append(jmps, [off |-> l + w + SZ_SZ, dst |-> d]) \in Seq([off : Int, dst : Nat])
      BY <1>2, <3>1
    <3> QED BY <1>2, <1>4, <3>2
  <2>3. Labels(lab_loc')
    BY <1>9
  <2>4. jmp_ret' \in Nat
    BY <1>1, <1>4, <1>5 DEF Types
  <2>5. loc' \in Locals'
    BY <1>10
  <2> QED BY <1>1, <1>4, <1>5, <2>1, <2>2, <2>3, <2>4, <2>5 DEF Types
<1>12. loc'.i = k + 2 /\ loc'.c = loc.c /\ loc'.prev = loc.prev /\ loc'.diff = loc.diff
  BY <1>5, <1>10
<1>13. PassInv'
  BY <1>1, <1>4, <1>5, <1>12, SMTT(30) DEF PassInv
<1>14. Virtual' = cs' /\ VRels' = rels' /\ VJmps' = Offs' /\ pc' = "gen"
  BY <1>1, <1>4, <1>11, <1>13, StandingNext
<1>15. There' = k + 1 /\ Beside' = {{}} /\ Given' = 1 .. k + 1
  BY <1>5, <1>12, <1>14 DEF There, Beside, Given
<1>16. Ordered(ic, cs') /\ Reals(cs') = InstrBits(ic, k + 1)
  BY <1>3, <1>8, AppendedKeeps
<1>17. SymBits(ic, k) \subseteq InstrBits(ic, k)
  BY <1>5, TableBits
<1>18. Hits(rels', cs', SymBits(ic, k + 1))
  <2>1. CASE sym
    <3>1. SymBits(ic, k + 1) = SymBits(ic, k) \cup {<<k, ic[loc.i].w + 1>>}
      BY <1>5, <2>1, TableBitsNext DEF sym, op
    <3>2. w = ic[loc.i].w + SIZE_W
      BY <1>5, <2>1 DEF Width, w, sym, op
    <3> DEFINE x == ic[loc.i].w + 1
               n == Len(rels)
    <3>3. x \in 1 .. w /\ l + x - 1 = l + ic[loc.i].w
      <4>1. SIZE_W \in Nat \ {0}
        BY ConstantsAre
      <4>2. PICK v : v = ic[loc.i].w
        OBVIOUS
      <4>3. v \in Nat /\ w = v + SIZE_W
        BY <1>5, <3>2, <4>2
      <4>4. v + 1 \in 1 .. w /\ l + (v + 1) - 1 = l + v
        BY <1>5, <4>1, <4>3
      <4> QED BY <4>2, <4>4
    <3>4. n \in Nat /\ DOMAIN rels = 1 .. n
      BY <1>2
    <3>5. /\ DOMAIN rels' = 1 .. n + 1 /\ rels'[n + 1] = l + ic[loc.i].w
          /\ \A r \in 1 .. n : rels'[r] = rels[r]
      BY <1>2, <1>4, <1>5, <2>1
    <3> HIDE DEF x, n
    <3>6. rels'[n + 1] = l + x - 1
      BY <3>3, <3>5
    <3>7. \A y \in 1 .. Width(ic, k) : \A i \in Nat : \A T2 :
             /\ DOMAIN rels = 1 .. i /\ DOMAIN T2 = 1 .. i + 1
             /\ \A r \in 1 .. i : T2[r] = rels[r]
             /\ T2[i + 1] = Len(cs) + y - 1
             => Hits(T2, cs', SymBits(ic, k) \cup {<<k, y>>})
      BY <1>3, <1>8, <1>17, AppendedHits
    <3>8. \A T2 : /\ DOMAIN rels = 1 .. n /\ DOMAIN T2 = 1 .. n + 1
                  /\ \A r \in 1 .. n : T2[r] = rels[r]
                  /\ T2[n + 1] = Len(cs) + x - 1
                  => Hits(T2, cs', SymBits(ic, k) \cup {<<k, x>>})
      BY <3>3, <3>4, <3>7 DEF w
    <3>9. Hits(rels', cs', SymBits(ic, k) \cup {<<k, x>>})
      BY <3>4, <3>5, <3>6, <3>8 DEF l
    <3> QED BY <3>1, <3>9 DEF x
  <2>2. CASE ~ sym
    <3>1. SymBits(ic, k + 1) = SymBits(ic, k)
      BY <1>5, <2>2, TableBitsNext DEF sym, op
    <3>2. Hits(rels, cs', SymBits(ic, k))
      BY <1>3, <1>8, <1>17, AppendedHits
    <3> QED BY <1>4, <2>2, <3>1, <3>2
  <2> QED BY <2>1, <2>2
<1>19. CodeAt(ic, Virtual, There, Beside, VRels)'
  <2>1. \E B \in {{}} : Reals(cs') = B \cup InstrBits(ic, k + 1)
    BY <1>16
  <2> QED BY <1>4, <1>5, <1>14, <1>15, <1>16, <1>18, <2>1 DEF CodeAt
<1>20. /\ DOMAIN Offs = 1 .. Len(jmps) /\ DOMAIN Field = 1 .. Len(jmps) /\ Len(jmps) \in Nat
       /\ DOMAIN Offs' = 1 .. Len(jmps') /\ DOMAIN Field' = 1 .. Len(jmps')
       /\ \A j \in 1 .. Len(jmps) : Offs[j] = jmps[j].off /\ Offs[j] \in Int /\ jmps[j].dst \in Nat
       /\ \A j \in 1 .. Len(jmps') : Offs'[j] = jmps'[j].off /\ Offs'[j] \in Int /\ jmps'[j].dst \in Nat
  BY <1>2, <1>11, OffsAre, OffsNext DEF Types
<1>21. (\A j \in 1 .. Len(jmps) : Field[j] = SIZE_W) /\ (\A j \in 1 .. Len(jmps') : Field'[j] = SIZE_W)
  BY <1>1, <1>14, <1>20 DEF Field
<1>22. jump => Another(Offs, Field, Offs', Field', Len(jmps), l + w)
  <2>1. CASE jump
    <3>1. /\ Len(jmps') = Len(jmps) + 1 /\ jmps'[Len(jmps) + 1] = [off |-> l + w + SZ_SZ, dst |-> d]
          /\ \A j \in 1 .. Len(jmps) : jmps'[j] = jmps[j]
      BY <1>2, <1>4, <2>1
    <3>2. Len(jmps) + 1 \in 1 .. Len(jmps') /\ \A j \in 1 .. Len(jmps) : j \in 1 .. Len(jmps')
      BY <1>20, <3>1
    <3>3. Offs'[Len(jmps) + 1] = l + w + SZ_SZ /\ \A j \in 1 .. Len(jmps) : Offs'[j] = Offs[j]
      <4>1. Offs'[Len(jmps) + 1] = jmps'[Len(jmps) + 1].off
        BY <1>20, <3>2
      <4>2. ASSUME NEW j \in 1 .. Len(jmps)
            PROVE  Offs'[j] = Offs[j]
        <5>1. j \in 1 .. Len(jmps')
          BY <3>2
        <5>2. Offs'[j] = jmps'[j].off /\ Offs[j] = jmps[j].off
          BY <1>20, <5>1
        <5> QED BY <3>1, <5>2
      <4> QED BY <3>1, <4>1, <4>2
    <3>4. Field'[Len(jmps) + 1] \in Nat /\ \A j \in 1 .. Len(jmps) : Field'[j] = Field[j]
      BY <1>5, <1>21, <3>2
    <3> QED BY <1>20, <3>1, <3>3, <3>4 DEF Another
  <2> QED BY <2>1
<1>23. ~ jump => Offs' = Offs /\ Field' = Field
  BY <1>1, <1>4, <1>14 DEF Offs, Field
<1>24. JumpsAt(ic, cs', k + 1, Offs', Field')
  <2>1. CASE jump
    <3>1. m = SZ_SZ + Field'[Len(jmps) + 1]
      <4>1. Len(jmps) + 1 \in 1 .. Len(jmps')
        BY <1>20, <1>22, <2>1 DEF Another
      <4> QED BY <1>4, <1>21, <2>1, <4>1
    <3> DEFINE N == Len(jmps)
    <3>2. N \in Nat
      BY <1>20
    <3>3. Another(Offs, Field, Offs', Field', N, Len(cs) + Width(ic, k)) /\ m = SZ_SZ + Field'[N + 1]
      BY <1>22, <2>1, <3>1 DEF l, w
    <3>4. \A J2, F2 :
                 /\ ic[k + 1].op \in {"jmp", "jz", "ret"}
                 /\ Another(Offs, Field, J2, F2, N, Len(cs) + Width(ic, k)) /\ m = SZ_SZ + F2[N + 1]
                 => JumpsAt(ic, cs', k + 1, J2, F2)
      <4> HIDE DEF N
      <4> QED BY <1>3, <1>5, <1>8, <3>2, AppendedJumps
    <3> HIDE DEF N
    <3> QED BY <1>5, <2>1, <3>3, <3>4 DEF jump, op
  <2>2. CASE ~ jump
    <3>1. JumpsAt(ic, cs', k + 1, Offs, Field)
      BY <1>3, <1>5, <1>8, <2>2, AppendedJumps DEF jump, op
    <3> QED BY <1>23, <2>2, <3>1
  <2> QED BY <2>1, <2>2
<1>25. TablesInv'
  BY <1>14 DEF TablesInv
<1>26. PadInv'
  <2>1. PadsAt(pads, 1, 0, 0, cs, Offs) /\ \A i, j \in DOMAIN pads : i < j => pads[i] <= pads[j]
    BY <1>1, <1>6 DEF CodeInv, PadInv
  <2>2. MoreJumps(Offs, Offs', l, Len(cs'))
    <3>1. ASSUME NEW j \in DOMAIN Offs'
          PROVE  Offs'[j] \in Int /\ Offs'[j] + SIZE_W <= Len(cs')
      <4>1. j \in 1 .. Len(jmps') /\ Field'[j] = SIZE_W
        BY <1>20, <1>21
      <4> QED BY <1>20, <1>24, <4>1 DEF JumpsAt
    <3>2. ASSUME NEW j \in DOMAIN Offs', ~ (j \in DOMAIN Offs /\ Offs'[j] = Offs[j])
          PROVE  Offs'[j] - SZ_SZ - 1 >= l
      <4>1. jump
        BY <1>23, <3>2
      <4>2. j = Len(jmps) + 1 /\ Offs'[j] = l + w + SZ_SZ
        BY <1>20, <1>22, <3>2, <4>1 DEF Another
      <4>3. w >= 1
        BY <1>5, <4>1, ConstantsAre, SMTT(30) DEF Width, w, jump, op
      <4>4. (l + w + SZ_SZ) - SZ_SZ - 1 >= l
        BY <1>5, <4>3
      <4> QED BY <4>2, <4>4
    <3> QED BY <3>1, <3>2 DEF MoreJumps
  <2>3. MorePads(pads, pads', Len(cs'))
    <3>1. CASE op \in {"call", "callsym"}
      <4>1. pads' = Append(pads, Len(cs'))
        BY <1>4, <3>1
      <4>2. /\ DOMAIN pads' = 1 .. Len(pads) + 1 /\ DOMAIN pads = 1 .. Len(pads) /\ Len(pads) \in Nat
            /\ pads'[Len(pads) + 1] = Len(cs') /\ \A i \in 1 .. Len(pads) : pads'[i] = pads[i]
        BY <1>2, <1>5, <4>1, SMTT(30)
      <4> QED BY <4>2 DEF MorePads
    <3>2. CASE ~ (op \in {"call", "callsym"})
      BY <1>4, <3>2 DEF MorePads
    <3> QED BY <3>1, <3>2
  <2>4. PadsAt(pads', 1, 0, 0, cs', Offs')
    <3>1. l = Len(cs) /\ Len(cs') \in Nat /\ l <= Len(cs') /\ \A i \in DOMAIN pads : pads[i] \in Int
      BY <1>2, <1>5 DEF l
    <3> DEFINE l2 == Len(cs')
    <3>2. l2 \in Nat /\ l2 = Len(cs') /\ l <= l2
      BY <3>1
    <3> HIDE DEF l2
    <3>3. MorePads(pads, pads', l2) /\ MoreJumps(Offs, Offs', l, l2)
      BY <2>2, <2>3 DEF l2
    <3> QED BY <1>5, <2>1, <3>1, <3>2, <3>3, MorePadsAt
  <2>5. \A i, j \in DOMAIN pads' : i < j => pads'[i] <= pads'[j]
    <3>1. \A i \in DOMAIN pads : pads[i] \in Int /\ pads[i] <= Len(cs')
      <4>1. ASSUME NEW i \in DOMAIN pads
            PROVE  pads[i] \in Int /\ pads[i] <= l
        <5>1. i \in Nat /\ i >= 1 /\ pads[i] \in Int
          BY <1>2
        <5>2. pads[i] + 0 <= Len(cs)
          BY <2>1, <5>1 DEF PadsAt
        <5> QED BY <5>1, <5>2 DEF l
      <4> QED BY <1>5, <4>1
    <3>2. CASE op \in {"call", "callsym"}
      <4>1. pads' = Append(pads, Len(cs'))
        BY <1>4, <3>2
      <4>2. /\ DOMAIN pads' = 1 .. Len(pads) + 1 /\ DOMAIN pads = 1 .. Len(pads) /\ Len(pads) \in Nat
            /\ pads'[Len(pads) + 1] = Len(cs') /\ \A i \in 1 .. Len(pads) : pads'[i] = pads[i]
        BY <1>2, <1>5, <4>1, SMTT(30)
      <4> QED BY <2>1, <3>1, <4>2
    <3>3. CASE ~ (op \in {"call", "callsym"})
      BY <1>4, <2>1, <3>3
    <3> QED BY <3>2, <3>3
  <2> QED BY <1>14, <2>4, <2>5 DEF PadInv
<1>27. LabInv'
  <2>1. Given = 1 .. k /\ Given \subseteq DOMAIN lab_loc /\ \A j \in DOMAIN jmps : jmps[j].dst <= Len(ic) + 1
    BY <1>1 DEF CodeInv, LabInv, Given
  <2>2. Given' \subseteq DOMAIN lab_loc'
    <3>1. \A x \in 1 .. k + 1 : x \in 1 .. k \/ x = loc.i
      BY <1>5
    <3> QED BY <1>15, <1>9, <2>1, <3>1
  <2>3. ASSUME NEW j \in DOMAIN jmps'
        PROVE  jmps'[j].dst <= Len(ic) + 1
    <3>1. CASE jump
      <4>1. /\ DOMAIN jmps' = 1 .. Len(jmps) + 1 /\ DOMAIN jmps = 1 .. Len(jmps) /\ Len(jmps) \in Nat
            /\ jmps'[Len(jmps) + 1] = [off |-> l + w + SZ_SZ, dst |-> d]
            /\ \A i \in 1 .. Len(jmps) : jmps'[i] = jmps[i]
        BY <1>2, <1>4, <3>1
      <4>2. CASE j = Len(jmps) + 1
        BY <1>4, <4>1, <4>2
      <4>3. CASE j \in 1 .. Len(jmps)
        BY <2>1, <4>1, <4>3
      <4> QED BY <4>1, <4>2, <4>3
    <3>2. CASE ~ jump
      BY <1>4, <2>1, <3>2
    <3> QED BY <3>1, <3>2
  <2> QED BY <1>4, <2>2, <2>3 DEF LabInv
<1>28. RetInv'
  <2>1. SUFFICES ASSUME op = "ret"
                 PROVE  /\ ReturnAt(cs', k, Offs', Len(jmps'), l)
                        /\ \A i \in DOMAIN pads' : pads'[i] <= l
    <3>1. jmp_ret' = l /\ There' = loc.i /\ There' - 1 = k /\ ic'[There'].op = "ret"
          => RetInv' \/ ~ (ReturnAt(cs', k, Offs', Len(jmps'), l) /\ \A i \in DOMAIN pads' : pads'[i] <= l)
      BY DEF RetInv
    <3>2. There' = loc.i /\ There' - 1 = k /\ ic'[There'].op = op
      BY <1>4, <1>5, <1>15 DEF op
    <3>3. op = "ret" => jmp_ret' = l
      BY <1>4
    <3>4. op # "ret" => RetInv'
      BY <3>2 DEF RetInv
    <3> QED BY <3>1, <3>2, <3>3, <3>4
  <2>2. jump /\ ~ (op \in {"call", "callsym"})
    BY <2>1 DEF jump
  <2>3. w = JumpHead
    <3>1. ic[loc.i].w = 0
      <4>1. loc.i \in DOMAIN ic
        BY <1>5
      <4> QED BY <1>1, <2>1, <4>1 DEF CodeInv, Complies, op
    <3> QED BY <1>5, <2>1, <3>1, SMTT(30) DEF Width, w, op
  <2>4. Len(jmps') = Len(jmps) + 1
    BY <1>2, <1>4, <2>2
  <2>5. ReturnAt(cs', k, Offs', Len(jmps) + 1, l)
    <3> DEFINE N == Len(jmps)
    <3>1. N \in Nat /\ Another(Offs, Field, Offs', Field', N, Len(cs) + JumpHead)
      BY <1>20, <1>22, <2>2, <2>3 DEF l
    <3>2. \A j \in DOMAIN Offs : Field[j] = SIZE_W
      BY <1>20, <1>21
    <3>3. m = SZ_SZ + SIZE_W /\ Width(ic, k) = JumpHead
      BY <1>4, <2>2, <2>3 DEF w
    <3> HIDE DEF N
    <3>4. ReturnAt(cs', k, Offs', N + 1, Len(cs))
      BY <1>3, <1>8, <3>1, <3>2, <3>3, ReturnIs
    <3> QED BY <3>4 DEF N, l
  <2>6. \A i \in DOMAIN pads' : pads'[i] <= l
    <3>1. pads' = pads
      BY <1>4, <2>2
    <3>2. PadsAt(pads, 1, 0, 0, cs, VJmps)
      BY <1>1 DEF CodeInv, PadInv
    <3>3. ASSUME NEW i \in DOMAIN pads
          PROVE  pads[i] <= l
      <4>1. i \in Nat /\ i >= 1 /\ pads[i] \in Int
        BY <1>2
      <4>2. pads[i] + 0 <= Len(cs)
        BY <3>2, <4>1 DEF PadsAt
      <4> QED BY <4>1, <4>2 DEF l
    <3> QED BY <3>1, <3>3
  <2> QED BY <2>4, <2>5, <2>6
<1>29. Complies(ic')
  BY <1>1, <1>4 DEF CodeInv
<1>30. (pc # "idle" => JumpsAt(ic, Virtual, There, VJmps, Field))'
  BY <1>4, <1>14, <1>15, <1>24
<1> QED BY <1>11, <1>13, <1>19, <1>25, <1>26, <1>27, <1>28, <1>29, <1>30 DEF LayoutInv, CodeInv

\* Every kind of instruction is emitted like that.
LEMMA EmitIssues ==
    ASSUME LayoutInv, Emit
    PROVE  \E m, d : Issues(m, d)
<1> DEFINE k  == loc.i - 1
           w  == ic[loc.i].w
           l  == Len(cs)
           op == ic[loc.i].op
<1>1. /\ pc = "gen" /\ loc.i <= Len(ic) /\ CodeInv /\ cs \in Seq(BitT) /\ loc.i \in Nat \ {0}
      /\ lab_loc' = LabAdd(lab_loc, loc.i, Len(cs)) /\ loc' = [loc EXCEPT !.i = @ + 1]
      /\ pc' = pc /\ ic' = ic /\ text' = text /\ outDef' = outDef /\ outRels' = outRels
  <2>1. pc = "gen" /\ loc.i <= Len(ic)
    BY DEF Emit, EmitPlain, EmitSym, EmitCall, EmitCallSym, EmitJump, EmitRet, Emitting
  <2>2. CodeInv /\ cs \in Seq(BitT) /\ loc.i \in Nat \ {0}
    BY <2>1 DEF LayoutInv, Types, Locals
  <2>3. PICK bits : Emitted(bits)
    BY DEF Emit, EmitPlain, EmitSym, EmitCall, EmitCallSym, EmitJump, EmitRet
  <2> QED BY <2>1, <2>2, <2>3 DEF Emitted, outs
<1>2. /\ k \in Nat /\ k + 1 = loc.i /\ w \in Nat /\ l \in Nat /\ ic[loc.i].a3 \in Nat /\ Len(ic) \in Nat
      /\ op = "ret" => w = 0
      /\ op \in {"jmp", "jz"} => ic[loc.i].a3 <= Len(ic)
  <2>1. ic \in Seq(Ins) /\ Len(ic) \in Nat
    BY <1>1 DEF CodeInv, Complies
  <2>2. loc.i \in 1 .. Len(ic) /\ loc.i \in DOMAIN ic
    BY <1>1, <2>1
  <2>3. ic[loc.i] \in Ins
    BY <2>1, <2>2
  <2>4. op = "ret" => w = 0
    BY <1>1, <2>2 DEF CodeInv, Complies
  <2>5. w \in Nat /\ ic[loc.i].a3 \in Nat
    BY <2>3 DEF Ins
  <2>6. op \in {"jmp", "jz"} => ic[loc.i].a3 <= Len(ic)
    <3>1. op \in {"jmp", "jz"} => ic[loc.i].a3 < Len(ic)
      BY <1>1, <2>2 DEF CodeInv, Complies, Jumps
    <3> QED BY <2>1, <2>5, <3>1
  <2> QED BY <1>1, <2>1, <2>2, <2>4, <2>6, <2>5
<1>3. SZ_SZ \in Nat /\ SIZE_W \in Nat /\ JumpHead \in Nat
  BY ConstantsAre
<1>4. Width(ic, k) = w + IF op \in {"movsym", "callsym"} THEN SIZE_W
                         ELSE IF op \in {"jmp", "jz", "ret"} THEN JumpHead ELSE 0
  BY <1>2 DEF Width
\* A piece as long as the instruction, and how long the code is with it.
<1>5. ASSUME NEW u, NEW n \in Nat, Piece(u, k, Width(ic, k), n), cs' = cs \o u
      PROVE  Appended(ic, cs, cs', k, n) /\ Len(cs') = l + Width(ic, k) + n
  <2>1. Appended(ic, cs, cs \o u, k, n)
    BY <1>1, <1>5, PieceAppended
  <2> QED BY <1>5, <2>1 DEF Appended
<1>6. CASE EmitPlain
  <2>1. /\ op \in {"mov", "add", "st"} /\ cs' = cs \o Bits(k, w)
        /\ jmps' = jmps /\ rels' = rels /\ pads' = pads /\ jmp_ret' = jmp_ret
    BY <1>6 DEF EmitPlain, Emitting, Emitted
  <2>2. Width(ic, k) = w
    BY <1>2, <1>4, <2>1
  <2>3. Piece(Bits(k, w), k, Width(ic, k), 0)
    BY <1>2, <2>2, BitsIs
  <2>4. Appended(ic, cs, cs', k, 0)
    BY <1>5, <2>1, <2>3
  <2>5. Issues(0, 0)
    BY <1>1, <1>2, <2>1, <2>4, SMTT(30) DEF Issues
  <2> QED BY <2>5
<1>7. CASE EmitCall
  <2>1. /\ op \in {"call"} /\ cs' = cs \o Bits(k, w)
        /\ jmps' = jmps /\ rels' = rels /\ pads' = Append(pads, Len(cs')) /\ jmp_ret' = jmp_ret
    BY <1>7 DEF EmitCall, Emitting, Emitted
  <2>2. Width(ic, k) = w
    BY <1>2, <1>4, <2>1
  <2>3. Piece(Bits(k, w), k, Width(ic, k), 0)
    BY <1>2, <2>2, BitsIs
  <2>4. Appended(ic, cs, cs', k, 0)
    BY <1>5, <2>1, <2>3
  <2>5. Issues(0, 0)
    BY <1>1, <1>2, <2>1, <2>4, SMTT(30) DEF Issues
  <2> QED BY <2>5
<1>8. CASE EmitSym \/ EmitCallSym
  <2>1. /\ op \in {"movsym", "callsym"} /\ cs' = cs \o Bits(k, w + SIZE_W)
        /\ rels' = Append(rels, Len(cs') - SIZE_W) /\ jmps' = jmps /\ jmp_ret' = jmp_ret
        /\ pads' = IF op \in {"call", "callsym"} THEN Append(pads, Len(cs')) ELSE pads
    BY <1>8 DEF EmitSym, EmitCallSym, Emitting, Emitted
  <2>2. Width(ic, k) = w + SIZE_W /\ w + SIZE_W \in Nat
    BY <1>2, <1>3, <1>4, <2>1, SMTT(30)
  <2>3. Piece(Bits(k, w + SIZE_W), k, Width(ic, k), 0)
    BY <1>2, <2>2, BitsIs
  <2>4. Appended(ic, cs, cs', k, 0) /\ Len(cs') = l + Width(ic, k) + 0
    BY <1>5, <2>1, <2>3
  <2>5. Len(cs') - SIZE_W = l + w
    <3>1. PICK x, y, z, v : x = Len(cs') /\ y = w /\ z = l /\ v = SIZE_W
      OBVIOUS
    <3>2. x = z + (y + v) + 0 /\ y \in Nat /\ z \in Nat /\ v \in Nat
      BY <1>2, <1>3, <2>2, <2>4, <3>1
    <3>3. x - v = z + y
      BY <3>2
    <3> QED BY <3>1, <3>3
  <2>6. rels' = Append(rels, l + w)
    BY <2>1, <2>5
  <2>7. /\ pc = "gen" /\ loc.i <= Len(ic) /\ 0 \in Nat /\ 0 <= Len(ic) + 1
        /\ ~ (op \in {"jmp", "jz", "ret"}) /\ op # "ret"
    BY <1>1, <1>2, <2>1, SMTT(30)
  <2>8. Issues(0, 0)
    BY <1>1, <2>1, <2>4, <2>6, <2>7 DEF Issues
  <2> QED BY <2>8
<1>9. CASE EmitJump
  <2> DEFINE d == ic[loc.i].a3 + 1
             m == SZ_SZ + SIZE_W
  <2>1. /\ op \in {"jmp", "jz"} /\ cs' = cs \o JumpBits(k, w)
        /\ jmps' = Append(jmps, [off |-> Len(cs') - SIZE_W, dst |-> d])
        /\ rels' = rels /\ pads' = pads /\ jmp_ret' = jmp_ret
    BY <1>9 DEF EmitJump, Emitting, Emitted
  <2>2. Width(ic, k) = JumpHead + w /\ m \in Nat /\ d \in Nat /\ d <= Len(ic) + 1
    <3>1. PICK x, y : x = ic[loc.i].a3 /\ y = w
      OBVIOUS
    <3>2. x \in Nat /\ x <= Len(ic) /\ y \in Nat
      BY <1>2, <2>1, <3>1
    <3>3. x + 1 \in Nat /\ x + 1 <= Len(ic) + 1
      BY <1>2, <3>2
    <3>4. Width(ic, k) = y + JumpHead
      BY <1>4, <2>1, <3>1
    <3>5. Width(ic, k) = JumpHead + y /\ m \in Nat
      BY <1>3, <3>2, <3>4
    <3> QED BY <3>1, <3>3, <3>5
  <2>3. Piece(JumpBits(k, w), k, Width(ic, k), m)
    BY <1>2, <2>2, JumpBitsIs
  <2>4. Appended(ic, cs, cs', k, m) /\ Len(cs') = l + Width(ic, k) + m
    BY <1>5, <2>1, <2>2, <2>3
  <2>5. Len(cs') - SIZE_W = l + Width(ic, k) + SZ_SZ
    <3>1. PICK x, y, z : x = Len(cs') /\ y = Width(ic, k) /\ z = l
      OBVIOUS
    <3>2. y \in Nat
      BY <2>3, <3>1 DEF Piece
    <3>3. x = z + y + (SZ_SZ + SIZE_W) /\ z \in Nat
      BY <1>2, <2>4, <3>1
    <3>4. x - SIZE_W = z + y + SZ_SZ
      BY <1>3, <3>2, <3>3
    <3> QED BY <3>1, <3>4
  <2>6. jmps' = Append(jmps, [off |-> l + Width(ic, k) + SZ_SZ, dst |-> d])
    BY <2>1, <2>5
  <2>7. Issues(m, d)
    <3> HIDE DEF d
    <3> QED BY <1>1, <1>2, <2>1, <2>2, <2>4, <2>6 DEF Issues
  <2> QED BY <2>7
<1>10. CASE EmitRet
  <2> DEFINE m == SZ_SZ + SIZE_W
  <2>1. /\ op = "ret" /\ cs' = cs \o JumpBits(k, 0)
        /\ jmps' = Append(jmps, [off |-> Len(cs') - SIZE_W, dst |-> 0])
        /\ rels' = rels /\ pads' = pads /\ jmp_ret' = l
    BY <1>10 DEF EmitRet, Emitting, Emitted, LAB_RET
  <2>2. Width(ic, k) = JumpHead + 0 /\ m \in Nat
    BY <1>2, <1>3, <1>4, <2>1
  <2>3. Piece(JumpBits(k, 0), k, Width(ic, k), m)
    BY <1>2, <2>2, JumpBitsIs
  <2>4. Appended(ic, cs, cs', k, m) /\ Len(cs') = l + Width(ic, k) + m
    BY <1>5, <2>1, <2>2, <2>3
  <2>5. Len(cs') - SIZE_W = l + Width(ic, k) + SZ_SZ
    <3>1. PICK x, y, z : x = Len(cs') /\ y = Width(ic, k) /\ z = l
      OBVIOUS
    <3>2. y \in Nat
      BY <2>3, <3>1 DEF Piece
    <3>3. x = z + y + (SZ_SZ + SIZE_W) /\ z \in Nat
      BY <1>2, <2>4, <3>1
    <3>4. x - SIZE_W = z + y + SZ_SZ
      BY <1>3, <3>2, <3>3
    <3> QED BY <3>1, <3>4
  <2>6. jmps' = Append(jmps, [off |-> l + Width(ic, k) + SZ_SZ, dst |-> 0])
    BY <2>1, <2>5
  <2>7. Issues(m, 0)
    BY <1>1, <1>2, <2>1, <2>4, <2>6, SMTT(30) DEF Issues
  <2> QED BY <2>7
<1> QED BY <1>6, <1>7, <1>8, <1>9, <1>10 DEF Emit

\* Emitting an instruction keeps the invariant.
LEMMA EmitKeeps == LayoutInv /\ Emit => LayoutInv'
BY EmitIssues, IssueKeeps

-----------------------------------------------------------------------------
(* The beginning of a function, and the end of its code.                   *)

\* No code is what no instructions make.
LEMMA NoCode ==
    ASSUME NEW c, NEW R, DOMAIN R = {}, NEW J, DOMAIN J = {}, NEW F
    PROVE  CodeAt(c, <<>>, 0, {{}}, R) /\ JumpsAt(c, <<>>, 0, J, F)
<1>1. <<>> \in Seq(BitT) /\ DOMAIN <<>> = {} /\ Len(<<>>) = 0
  OBVIOUS
<1>2. 0 .. 0 - 1 = {}
  OBVIOUS
<1>3. InstrBits(c, 0) = {} /\ SymBits(c, 0) = {} /\ HeadBits(c, 0) = {}
  BY <1>2 DEF InstrBits, SymBits, HeadBits
<1>4. Reals(<<>>) = {} /\ Ordered(c, <<>>)
  BY <1>1 DEF Reals, Ordered
<1>5. \A B : Places(<<>>, B) = {}
  BY <1>1, <1>2 DEF Places
<1>6. Hits(R, <<>>, {}) /\ Hits(Heads(J), <<>>, {})
  BY <1>5 DEF Hits, Heads
<1>7. CodeAt(c, <<>>, 0, {{}}, R)
  BY <1>1, <1>3, <1>4, <1>6 DEF CodeAt
<1> QED BY <1>3, <1>6, <1>7 DEF JumpsAt

\* A function begins with no code.
LEMMA GetCodeKeeps ==
    ASSUME LayoutInv, NEW s \in Sources \cup More, GetCode(s)
    PROVE  LayoutInv'
<1>1. /\ Types /\ pc = "idle" /\ pc' = "gen" /\ ic' = Alive(WithRet(s)) /\ loc' = NoLocals
      /\ outDef' = Len(text) /\ outRels' = <<>> /\ text' = text
      /\ cs' = cs /\ lab_loc' = lab_loc /\ jmps' = jmps /\ rels' = rels /\ pads' = pads /\ jmp_ret' = jmp_ret
  BY DEF LayoutInv, GetCode, tables
<1>2. cs' = <<>> /\ rels' = <<>> /\ jmps' = <<>> /\ pads' = <<>>
  BY <1>1 DEF LayoutInv, PassInv
<1>3. Complies(ic')
  BY <1>1, AliveComplies
<1>4. loc' \in Locals' /\ loc'.i = 1 /\ loc'.c = <<>> /\ loc'.prev = 0 /\ loc'.diff = 0
  BY <1>1 DEF NoLocals, Locals
<1>5. Types'
  <2>1. Len(text) \in 0 .. Len(text)
    BY <1>1 DEF Types
  <2> QED BY <1>1, <1>2, <1>4, <2>1 DEF Types, Phases
<1>6. Len(ic') \in Nat
  BY <1>3 DEF Complies
<1>7. PassInv'
  BY <1>1, <1>2, <1>4, <1>6 DEF PassInv
<1>8. Virtual' = <<>> /\ VRels' = <<>> /\ VJmps' = Offs' /\ DOMAIN Offs' = {}
  <2>1. Virtual' = cs' /\ VRels' = rels' /\ VJmps' = Offs'
    BY <1>1, <1>5, <1>7, StandingNext
  <2> QED BY <1>2, <2>1 DEF Offs
<1>9. There' = 0 /\ Beside' = {{}} /\ Given' = {}
  BY <1>1, <1>4 DEF There, Beside, Given
<1>10. CodeAt(ic, Virtual, There, Beside, VRels)' /\ JumpsAt(ic, Virtual, There, VJmps, Field)'
  <2>1. DOMAIN <<>> = {}
    OBVIOUS
  <2> QED BY <1>8, <1>9, <2>1, NoCode
<1>11. TablesInv' /\ RetInv'
  BY <1>1, <1>9 DEF TablesInv, RetInv
<1>12. PadInv' /\ LabInv'
  BY <1>1, <1>2, <1>9 DEF PadInv, PadsAt, LabInv
<1> QED BY <1>3, <1>5, <1>7, <1>10, <1>11, <1>12 DEF LayoutInv, CodeInv

\* The code ends with a label.
LEMMA GeneratedKeeps == LayoutInv /\ Generated => LayoutInv'
<1> SUFFICES ASSUME LayoutInv, Generated PROVE LayoutInv'
  OBVIOUS
<1>1. /\ pc = "gen" /\ loc.i = Len(ic) + 1 /\ lab_loc' = LabAdd(lab_loc, loc.i, Len(cs)) /\ pc' = "wrap"
      /\ ic' = ic /\ cs' = cs /\ jmps' = jmps /\ rels' = rels /\ pads' = pads /\ jmp_ret' = jmp_ret
      /\ loc' = loc /\ text' = text /\ outDef' = outDef /\ outRels' = outRels
  BY DEF Generated, outs
<1>2. Types /\ PassInv /\ CodeInv
  BY <1>1 DEF LayoutInv
<1>3. /\ loc \in Locals /\ loc.i \in Nat \ {0} /\ cs \in Seq(BitT) /\ Labels(lab_loc)
      /\ Len(ic) \in Nat
  BY <1>2 DEF Types, Locals, CodeInv, Complies
<1>4. Labels(lab_loc') /\ \A x \in DOMAIN lab_loc \cup {loc.i} : x \in DOMAIN lab_loc'
  <2>1. Labels(lab_loc) /\ loc.i \in Nat /\ Len(cs) \in Int
    BY <1>3
  <2>2. /\ Labels(LabAdd(lab_loc, loc.i, Len(cs)))
        /\ \A x \in DOMAIN lab_loc \cup {loc.i} : x \in DOMAIN LabAdd(lab_loc, loc.i, Len(cs))
    BY <2>1, LabAddIs
  <2> QED BY <1>1, <2>2, Zenon
<1>5. Types'
  BY <1>1, <1>2, <1>4 DEF Types, Phases, Locals
<1>6. PassInv'
  BY <1>1, <1>2 DEF PassInv
<1>7. Virtual = cs /\ VRels = rels /\ VJmps = Offs
  BY <1>1, <1>2, Standing
<1>8. Virtual' = cs /\ VRels' = rels /\ VJmps' = Offs
  <2>1. Virtual' = cs' /\ VRels' = rels' /\ VJmps' = Offs'
    BY <1>1, <1>5, <1>6, StandingNext
  <2> QED BY <1>1, <2>1 DEF Offs
<1>9. There = Len(ic) /\ There' = There /\ Beside = {{}} /\ Beside' = Beside /\ Field' = Field
  BY <1>1, <1>3 DEF There, Beside, Field
<1>10. Given = 1 .. Len(ic) /\ Given' = 1 .. Len(ic) + 1
  BY <1>1, <1>3 DEF Given
<1>11. Complies(ic') /\ CodeAt(ic, Virtual, There, Beside, VRels)' /\ JumpsAt(ic, Virtual, There, VJmps, Field)'
  BY <1>1, <1>2, <1>7, <1>8, <1>9 DEF CodeInv
<1>12. TablesInv'
  BY <1>1 DEF TablesInv
<1>13. PadInv'
  BY <1>1, <1>2, <1>7, <1>8 DEF CodeInv, PadInv
<1>14. LabInv'
  <2>1. \A x \in 1 .. Len(ic) + 1 : x \in 1 .. Len(ic) \/ x = loc.i
    BY <1>1, <1>3
  <2>2. Given' \subseteq DOMAIN lab_loc'
    BY <1>1, <1>2, <1>4, <1>10, <2>1 DEF CodeInv, LabInv
  <2> QED BY <1>1, <1>2, <2>2 DEF CodeInv, LabInv
<1>15. RetInv'
  BY <1>1, <1>2, <1>9 DEF CodeInv, RetInv, Offs
<1> QED BY <1>5, <1>6, <1>11, <1>12, <1>13, <1>14, <1>15 DEF LayoutInv, CodeInv

\* A step that changes nothing.
LEMMA StutterKeeps == LayoutInv /\ UNCHANGED vars => LayoutInv'
<1> SUFFICES ASSUME LayoutInv, UNCHANGED vars PROVE LayoutInv'
  OBVIOUS
<1>1. /\ pc' = pc /\ ic' = ic /\ cs' = cs /\ lab_loc' = lab_loc /\ jmps' = jmps /\ rels' = rels
      /\ pads' = pads /\ jmp_ret' = jmp_ret /\ loc' = loc /\ text' = text /\ outDef' = outDef
      /\ outRels' = outRels /\ funcs' = funcs
  BY DEF vars, tables, outs
<1>2. Shift' = Shift /\ Offs' = Offs /\ Field' = Field /\ There' = There /\ Beside' = Beside /\ Given' = Given
  BY <1>1 DEF Shift, Offs, Field, There, Beside, Given
<1>3. Virtual' = Virtual /\ VRels' = VRels /\ VJmps' = VJmps
  BY <1>1, <1>2 DEF Virtual, VRels, VJmps
<1>4. Types' = Types /\ PassInv' = PassInv
  BY <1>1, <1>2 DEF Types, PassInv, Locals
<1>5. TablesInv' = TablesInv /\ PadInv' = PadInv /\ LabInv' = LabInv /\ RetInv' = RetInv
  BY <1>1, <1>2, <1>3 DEF TablesInv, PadInv, LabInv, RetInv
<1> QED BY <1>1, <1>2, <1>3, <1>4, <1>5 DEF LayoutInv, CodeInv

-----------------------------------------------------------------------------
(* The frame comes around the code.                                        *)

\* Nothing, and all of the code behind it.
LEMMA WholeCut ==
    ASSUME NEW c \in Seq(BitT)
    PROVE  <<>> \o Cut(c, 0, Len(c)) = c
<1> DEFINE d == Cut(c, 0, Len(c))
           n == Len(c)
<1>1. n \in Nat /\ 0 \in Nat /\ 0 <= n /\ n <= Len(c)
  OBVIOUS
<1>2. d \in Seq(BitT) /\ Len(d) = n - 0 /\ \A j \in 1 .. n - 0 : d[j] = c[0 + j]
  <2> HIDE DEF n
  <2>1. /\ Cut(c, 0, n) \in Seq(BitT) /\ Len(Cut(c, 0, n)) = n - 0
        /\ \A j \in 1 .. n - 0 : Cut(c, 0, n)[j] = c[0 + j]
    BY <1>1, CutIs
  <2> QED BY <2>1 DEF n
<1>3. d \in Seq(BitT) /\ Len(d) = Len(c) /\ \A j \in 1 .. Len(c) : d[j] = c[j]
  <2> HIDE DEF d
  <2>1. \A j \in 1 .. n : j \in 1 .. n - 0 /\ 0 + j = j
    BY <1>1
  <2>2. ASSUME NEW j \in 1 .. n
        PROVE  d[j] = c[j]
    BY <1>2, <2>1
  <2> QED BY <1>1, <1>2, <2>2
<1> HIDE DEF d
<1>4. d = c
  BY <1>3
<1>5. <<>> \o d = d
  BY <1>3
<1> QED BY <1>4, <1>5 DEF d

\* The bits of a frame.
LEMMA FrameBits ==
    ASSUME NEW k \in Int, NEW n \in Nat
    PROVE  Bits(k, n) \in Seq(BitT) /\ Len(Bits(k, n)) = n /\ \A p \in 1 .. n : Bits(k, n)[p] = <<k, p>>
<1>1. Bits(k, n) = [j \in 1 .. n |-> <<k, j>>] /\ \A j \in 1 .. n : <<k, j>> \in BitT
  BY DEF Bits, BitT
<1> QED BY <1>1

\* What i_wrap makes of the code.
LEMMA FramedIs ==
    ASSUME NEW s \in Seq(BitT), NEW e \in 0 .. Len(s), NEW f, f[1] \in Nat, f[2] \in Nat
    PROVE  Framed(s, Bits(Pro, f[1]) \o Cut(s, 0, e) \o Bits(Epi, f[2]), f, e)
<1> DEFINE a == Bits(Pro, f[1])
           b == Cut(s, 0, e)
           z == Bits(Epi, f[2])
           u == a \o b
           v == u \o z
           A == f[1]
           Z == f[2]
<1>1. a \in Seq(BitT) /\ Len(a) = A /\ \A p \in 1 .. A : a[p] = <<Pro, p>>
  <2>1. Pro \in Int
    BY DEF Pro
  <2> QED BY <2>1, FrameBits
<1>2. z \in Seq(BitT) /\ Len(z) = Z /\ \A p \in 1 .. Z : z[p] = <<Epi, p>>
  <2>1. Epi \in Int
    BY DEF Epi
  <2> QED BY <2>1, FrameBits
<1>3. b \in Seq(BitT) /\ Len(b) = e /\ \A p \in 1 .. e : b[p] = s[p]
  <2>1. 0 \in Nat /\ e \in Nat /\ 0 <= e /\ e <= Len(s) /\ e - 0 = e
    OBVIOUS
  <2>2. b \in Seq(BitT) /\ Len(b) = e - 0 /\ \A j \in 1 .. e - 0 : b[j] = s[0 + j]
    BY <2>1, CutIs
  <2>3. \A j \in 1 .. e : 0 + j = j
    OBVIOUS
  <2>4. ASSUME NEW j \in 1 .. e
        PROVE  b[j] = s[j]
    BY <2>1, <2>2, <2>3
  <2> QED BY <2>1, <2>2, <2>4
<1>4. A \in Nat /\ Z \in Nat /\ e \in Nat
  OBVIOUS
<1> HIDE DEF a, b, z, A, Z
<1>5. /\ u \in Seq(BitT) /\ Len(u) = A + e
      /\ \A p \in 1 .. A : u[p] = a[p]
      /\ \A p \in A + 1 .. A + e : u[p] = b[p - A]
  <2>1. /\ u \in Seq(BitT) /\ Len(u) = Len(a) + Len(b)
        /\ \A p \in 1 .. Len(a) : u[p] = a[p]
        /\ \A p \in Len(a) + 1 .. Len(a) + Len(b) : u[p] = b[p - Len(a)]
    BY <1>1, <1>3, JoinIs
  <2> QED BY <1>1, <1>3, <2>1
<1> HIDE DEF u
<1>6. /\ v \in Seq(BitT) /\ Len(v) = A + e + Z
      /\ \A p \in 1 .. A + e : v[p] = u[p]
      /\ \A p \in (A + e) + 1 .. (A + e) + Z : v[p] = z[p - (A + e)]
  <2>1. /\ v \in Seq(BitT) /\ Len(v) = Len(u) + Len(z)
        /\ \A p \in 1 .. Len(u) : v[p] = u[p]
        /\ \A p \in Len(u) + 1 .. Len(u) + Len(z) : v[p] = z[p - Len(u)]
    BY <1>2, <1>5, JoinIs
  <2> QED BY <1>2, <1>5, <2>1
<1> HIDE DEF v
<1>7. \A p \in 1 .. A : v[p] = <<Pro, p>>
  BY <1>1, <1>4, <1>5, <1>6
<1>8. ASSUME NEW p \in 1 .. e
      PROVE  v[A + p] = s[p]
  <2>1. A + p \in A + 1 .. A + e /\ A + p \in 1 .. A + e /\ (A + p) - A = p
    BY <1>4
  <2>2. v[A + p] = u[A + p] /\ u[A + p] = b[(A + p) - A]
    BY <1>5, <1>6, <2>1
  <2> QED BY <1>3, <2>1, <2>2
<1>9. ASSUME NEW p \in 1 .. Z
      PROVE  v[A + e + p] = <<Epi, p>>
  <2>1. A + e + p \in (A + e) + 1 .. (A + e) + Z /\ (A + e + p) - (A + e) = p
    BY <1>4
  <2>2. v[A + e + p] = z[(A + e + p) - (A + e)]
    BY <1>6, <2>1
  <2> QED BY <1>2, <2>1, <2>2
<1>10. Framed(s, v, f, e)
  BY <1>4, <1>6, <1>7, <1>8, <1>9 DEF Framed, A, Z
<1> QED BY <1>10 DEF v, u, a, b, z, A, Z

\* A table of integers is one when its entries have changed.
LEMMA IntSeq ==
    ASSUME NEW T \in Seq(Int), NEW T2, T2 = [r \in DOMAIN T |-> T2[r]], \A r \in DOMAIN T : T2[r] \in Int
    PROVE  T2 \in Seq(Int) /\ Len(T2) = Len(T) /\ DOMAIN T2 = 1 .. Len(T)
<1>1. DOMAIN T = 1 .. Len(T) /\ Len(T) \in Nat
  OBVIOUS
<1>2. T2 \in [1 .. Len(T) -> Int]
  BY <1>1
<1> QED BY <1>1, <1>2

\* A table of integers; a table of places up to e that have moved by a.
IntsAt(J) == \A j \in DOMAIN J : J[j] \in Int
PadsMove(T, T2, a, e) ==
    /\ DOMAIN T2 = DOMAIN T /\ \A k \in DOMAIN T : k >= 1 /\ T[k] \in Int /\ T[k] <= e
    /\ \A k \in DOMAIN T : T2[k] = T[k] + a

\* Places for padding in front of the last return are places between the frame.
LEMMA FramedPads ==
    ASSUME NEW s, NEW s2, NEW f, NEW e, Framed(s, s2, f, e), NEW T, NEW T2, PadsMove(T, T2, f[1], e),
           NEW N, NEW J, NEW F, NEW J2, NEW F2, FrameMoves(J, F, J2, F2, N, f[1], e),
           N \in Nat, IntsAt(J), PadsAt(T, 1, 0, 0, s, J)
    PROVE  PadsAt(T2, 1, 0, 0, s2, J2)
<1> USE DEF PadsMove, IntsAt
<1> SUFFICES ASSUME NEW k \in DOMAIN T2, k >= 1
             PROVE  /\ 0 <= T2[k] + 0 /\ T2[k] + 0 <= Len(s2)
                    /\ \A j \in DOMAIN J2 : T2[k] + 0 <= J2[j] - SZ_SZ - 1 \/ J2[j] + SIZE_W <= T2[k] + 0
  BY DEF PadsAt
<1> DEFINE a == f[1]
<1>1. SZ_SZ \in Nat /\ SIZE_W \in Nat
  BY ConstantsAre
<1>2. a \in Nat /\ f[2] \in Nat /\ e \in Nat /\ Len(s2) = a + e + f[2]
  <2>1. a \in Nat /\ f[2] \in Nat /\ e \in 0 .. Len(s) /\ s \in Seq(BitT) /\ Len(s2) = a + e + f[2]
    BY DEF Framed
  <2>2. Len(s) \in Nat
    BY <2>1
  <2> QED BY <2>1, <2>2
<1>3. PICK t : t = T[k]
  OBVIOUS
<1>4. t \in Int /\ t <= e /\ T2[k] = t + a
  BY <1>3
<1>5. 0 <= t + 0 /\ \A j \in DOMAIN J : t + 0 <= J[j] - SZ_SZ - 1 \/ J[j] + SIZE_W <= t + 0
  BY <1>3 DEF PadsAt
<1> HIDE DEF a
<1>6. 0 <= (t + a) + 0 /\ (t + a) + 0 <= Len(s2)
  BY <1>2, <1>4, <1>5
<1>7. ASSUME NEW j \in DOMAIN J2
      PROVE  (t + a) + 0 <= J2[j] - SZ_SZ - 1 \/ J2[j] + SIZE_W <= (t + a) + 0
  <2>1. j \in 1 .. N /\ j \in DOMAIN J /\ J2[j] = J[j] + a
    BY DEF FrameMoves, a
  <2>2. PICK x : x = J[j]
    OBVIOUS
  <2>3. x \in Int /\ J2[j] = x + a
    BY <2>1, <2>2
  <2>4. t + 0 <= x - SZ_SZ - 1 \/ x + SIZE_W <= t + 0
    BY <1>5, <2>1, <2>2
  <2>5. (t + a) + 0 <= (x + a) - SZ_SZ - 1 \/ (x + a) + SIZE_W <= (t + a) + 0
    BY <1>1, <1>2, <1>4, <2>3, <2>4
  <2> QED BY <2>3, <2>5
<1> QED BY <1>4, <1>6, <1>7

\* At the end of the code is the return that the frame replaces.
LEMMA WrapKeeps ==
    ASSUME LayoutInv, NEW f \in Frames, Wrap(f)
    PROVE  LayoutInv' /\ \E e : WrapsAt(f, e)
<1> DEFINE e    == jmp_ret
           N    == Len(jmps) - 1
           k    == Len(ic) - 1
           a    == f[1]
           labs == LabAdd(lab_loc, LAB_RET, Len(Cut(cs, 0, e)))
           c    == Bits(Pro, f[1]) \o Cut(cs, 0, e) \o Bits(Epi, f[2])
<1>1. Types /\ PassInv /\ CodeInv /\ pc = "wrap"
  BY DEF LayoutInv, Wrap
<1>2. /\ cs \in Seq(BitT) /\ rels \in Seq(Int) /\ pads \in Seq(Int) /\ jmps \in Seq([off : Int, dst : Nat])
      /\ Labels(lab_loc) /\ jmp_ret \in Nat /\ text \in Seq(BitT)
  BY <1>1 DEF Types
<1>3. Complies(ic) /\ ic \in Seq(Ins) /\ Len(ic) \in Nat /\ Len(ic) > 0 /\ ic[Len(ic)].op = "ret"
  BY <1>1 DEF CodeInv, Complies
<1>4. Virtual = cs /\ VRels = rels /\ VJmps = Offs /\ There = Len(ic) /\ Beside = {{}}
  BY <1>1, Standing DEF There, Beside
<1>5. /\ ReturnAt(cs, k, Offs, Len(jmps), e) /\ \A i \in DOMAIN pads : pads[i] <= e
  BY <1>1, <1>3, <1>4 DEF CodeInv, RetInv
<1>6. SZ_SZ \in Nat /\ SIZE_W \in Nat /\ JumpHead \in Nat /\ a \in Nat /\ f[2] \in Nat
  <2>1. f \in Nat \X (Nat \ {0})
    BY LayoutAssumption
  <2>2. a \in Nat /\ f[2] \in Nat
    BY <2>1
  <2> QED BY <2>2, ConstantsAre
<1>7. /\ EndsInRet /\ Len(cs) = e + JumpHead + SZ_SZ + SIZE_W /\ N + 1 = Len(jmps) /\ N \in Nat
      /\ e \in 0 .. Len(cs)
  <2>1. Len(cs) = e + JumpHead + SZ_SZ + SIZE_W /\ Len(jmps) > 0
    BY <1>5 DEF ReturnAt
  <2>2. Len(jmps) \in Nat /\ Len(cs) \in Nat /\ e \in Nat
    BY <1>2
  <2>3. N + 1 = Len(jmps) /\ N \in Nat /\ e \in 0 .. Len(cs)
    BY <1>6, <2>1, <2>2
  <2> QED BY <2>1, <2>3 DEF EndsInRet
<1>8. /\ pc' = "align" /\ loc' = [NoLocals EXCEPT !.c = c] /\ cs' = <<>>
      /\ rels' = [r \in DOMAIN rels |-> rels[r] + a]
      /\ jmps' = [j \in DOMAIN SubSeq(jmps, 1, N) |-> [SubSeq(jmps, 1, N)[j] EXCEPT !.off = @ + a]]
      /\ lab_loc' = [l \in DOMAIN labs |-> labs[l] + a]
      /\ pads' = [p \in DOMAIN pads |-> pads[p] + a]
      /\ ic' = ic /\ jmp_ret' = jmp_ret /\ text' = text /\ outDef' = outDef /\ outRels' = outRels
  BY <1>7 DEF Wrap, outs
<1>9. Framed(cs, c, f, e)
  BY <1>2, <1>6, <1>7, FramedIs
<1>10. c \in Seq(BitT) /\ Len(c) \in Nat
  BY <1>9 DEF Framed
<1> HIDE DEF c
<1>11. /\ loc' \in Locals' /\ loc'.c = c /\ loc'.i = 1 /\ loc'.prev = 0 /\ loc'.diff = 0
       /\ loc'.rel = 1 /\ loc'.jmp = 1
  <2>1. loc' = [c |-> c, i |-> 1, prev |-> 0, diff |-> 0, rel |-> 1, jmp |-> 1, lab |-> LAB_RET + 1, sz |-> <<>>]
    BY <1>8 DEF NoLocals
  <2>2. <<>> \in Seq(Nat) /\ loc'.lab = LAB_RET + 1
    BY <2>1
  <2>3. loc' \in Locals'
    BY <1>10, <2>1, <2>2 DEF Locals
  <2> QED BY <2>1, <2>3
<1>12. rels' \in Seq(Int) /\ DOMAIN rels' = 1 .. Len(rels) /\ Len(rels') = Len(rels) /\ DOMAIN rels = 1 .. Len(rels)
       /\ Len(rels) \in Nat
  <2>1. rels' = [r \in DOMAIN rels |-> rels'[r]] /\ \A r \in DOMAIN rels : rels'[r] \in Int
    BY <1>2, <1>6, <1>8, SMTT(30)
  <2>2. DOMAIN rels = 1 .. Len(rels) /\ Len(rels) \in Nat
    BY <1>2
  <2>3. rels' \in Seq(Int) /\ Len(rels') = Len(rels) /\ DOMAIN rels' = 1 .. Len(rels)
    BY <1>2, <2>1, IntSeq
  <2> QED BY <2>2, <2>3
<1>13. pads' \in Seq(Int) /\ DOMAIN pads' = DOMAIN pads /\ Len(pads') = Len(pads) /\ Len(pads) \in Nat
  <2>1. pads' = [r \in DOMAIN pads |-> pads'[r]] /\ \A r \in DOMAIN pads : pads'[r] \in Int
    BY <1>2, <1>6, <1>8, SMTT(30)
  <2>2. DOMAIN pads = 1 .. Len(pads) /\ Len(pads) \in Nat
    BY <1>2
  <2>3. pads' \in Seq(Int) /\ Len(pads') = Len(pads) /\ DOMAIN pads' = 1 .. Len(pads)
    BY <1>2, <2>1, IntSeq
  <2> QED BY <2>2, <2>3
<1>14. /\ jmps' \in Seq([off : Int, dst : Nat]) /\ Len(jmps') = N /\ DOMAIN jmps' = 1 .. N
       /\ \A j \in 1 .. N : jmps'[j].off = jmps[j].off + a /\ jmps'[j].dst = jmps[j].dst
  <2> DEFINE left == SubSeq(jmps, 1, N)
  <2>1. 1 \in 1 .. Len(jmps) + 1 /\ N \in 1 - 1 .. Len(jmps) /\ N - 1 + 1 = N
    BY <1>2, <1>7
  <2>2. left \in Seq([off : Int, dst : Nat]) /\ Len(left) = N
    <3>1. \A S, n, s : s \in Seq(S) /\ 1 \in 1 .. Len(s) + 1 /\ n \in 1 - 1 .. Len(s)
                          => SubSeq(s, 1, n) \in Seq(S) /\ Len(SubSeq(s, 1, n)) = n - 1 + 1
      BY SubSeqProperties
    <3>2. SubSeq(jmps, 1, N) \in Seq([off : Int, dst : Nat]) /\ Len(SubSeq(jmps, 1, N)) = N - 1 + 1
      BY ONLY <1>2, <2>1, <3>1, Zenon
    <3> QED BY <2>1, <3>2
  <2>3. DOMAIN left = 1 .. N
    BY <2>2
  <2>4. ASSUME NEW j \in 1 .. N
        PROVE  left[j] = jmps[j]
    <3>1. 1 + j - 1 = j /\ j \in 1 .. N - 1 + 1
      BY <1>7
    <3> QED BY <1>2, <2>1, <3>1, SubSeqProperties, SMTT(30)
  <2> HIDE DEF left
  <2>5. \A S : left \in Seq(S) => \A r \in 1 .. Len(left) : left[r] \in S
    BY ElementOfSeq
  <2>6. \A j \in 1 .. N : left[j] \in [off : Int, dst : Nat]
    BY <2>2, <2>5
  <2>7. jmps' = [j \in 1 .. N |-> [left[j] EXCEPT !.off = @ + a]]
    BY <1>8, <2>3 DEF left
  <2>8. ASSUME NEW x \in [off : Int, dst : Nat]
        PROVE  /\ [x EXCEPT !.off = @ + a] \in [off : Int, dst : Nat]
               /\ [x EXCEPT !.off = @ + a].off = x.off + a /\ [x EXCEPT !.off = @ + a].dst = x.dst
    BY <1>6
  <2>9. jmps' \in [1 .. N -> [off : Int, dst : Nat]]
    BY <2>6, <2>7, <2>8
  <2>10. jmps' \in Seq([off : Int, dst : Nat]) /\ Len(jmps') = N /\ DOMAIN jmps' = 1 .. N
    <3>1. N \in Nat
      BY <1>7
    <3>2. \A S, n, g : n \in Nat /\ g \in [1 .. n -> S] => g \in Seq(S) /\ Len(g) = n /\ DOMAIN g = 1 .. n
      OBVIOUS
    <3> HIDE DEF N
    <3> QED BY <2>9, <3>1, <3>2, Zenon
  <2>11. ASSUME NEW j \in 1 .. N
         PROVE  jmps'[j].off = jmps[j].off + a /\ jmps'[j].dst = jmps[j].dst
    <3>1. jmps'[j] = [left[j] EXCEPT !.off = @ + a] /\ left[j] \in [off : Int, dst : Nat]
      BY <2>6, <2>7
    <3>2. jmps'[j].off = left[j].off + a /\ jmps'[j].dst = left[j].dst
      BY <2>8, <3>1
    <3> QED BY <2>4, <3>2
  <2> QED BY <2>10, <2>11
<1>15. Labels(labs) /\ \A x \in DOMAIN lab_loc \cup {0} : x \in DOMAIN labs
  <2> DEFINE y == Len(Cut(cs, 0, e))
  <2>1. 0 \in Nat /\ e \in Nat /\ 0 <= e /\ e <= Len(cs)
    BY <1>2, <1>7
  <2>2. Cut(cs, 0, e) \in Seq(BitT)
    BY <1>2, <2>1, CutIs
  <2>3. y \in Int
    BY <2>2
  <2> HIDE DEF y
  <2>4. /\ Labels(LabAdd(lab_loc, 0, y))
        /\ \A x \in DOMAIN lab_loc \cup {0} : x \in DOMAIN LabAdd(lab_loc, 0, y)
    BY <1>2, <2>3, LabAddIs
  <2> QED BY <2>4 DEF y, LAB_RET
<1> HIDE DEF labs
<1>16. Labels(lab_loc') /\ DOMAIN lab_loc' = DOMAIN labs
  <2>1. \A x \in DOMAIN labs : labs[x] + a \in Int
    BY <1>6, <1>15 DEF Labels
  <2>2. DOMAIN lab_loc' = DOMAIN labs /\ \A x \in DOMAIN labs : lab_loc'[x] = labs[x] + a
    BY <1>8
  <2> QED BY <1>15, <2>1, <2>2 DEF Labels
<1>17. Types'
  <2>1. cs' \in Seq(BitT)
    BY <1>8
  <2> QED BY <1>1, <1>8, <1>11, <1>12, <1>13, <1>14, <1>16, <2>1 DEF Types, Phases
<1>18. Shift' = 0
  BY <1>8, <1>11 DEF Shift
<1>19. PassInv'
  <2>1. Len(cs') = 0
    BY <1>8
  <2>2. loc'.i <= Len(pads') + 1 /\ Len(cs') = loc'.prev + Shift' /\ loc'.prev <= Len(loc'.c)
    BY <1>10, <1>11, <1>13, <1>18, <2>1
  <2> QED BY <1>1, <1>8, <2>2 DEF PassInv
<1>20. Virtual' = c
  BY <1>8, <1>10, <1>11, WholeCut DEF Virtual
<1>21. VRels' = rels'
  <2>1. rels' = [r \in 1 .. Len(rels') |-> rels'[r]] /\ \A r \in 1 .. Len(rels') : rels'[r] \in Int
    BY <1>12
  <2>2. Ahead(rels', loc'.rel, 0) = rels'
    BY <2>1, AheadOfNothing
  <2> QED BY <1>8, <1>18, <2>2 DEF VRels
<1>22. /\ DOMAIN Offs = 1 .. N + 1 /\ DOMAIN Offs' = 1 .. N /\ DOMAIN Field' = 1 .. N
       /\ \A j \in 1 .. N + 1 : Offs[j] = jmps[j].off /\ Offs[j] \in Int /\ Field[j] = SIZE_W
       /\ \A j \in 1 .. N : Offs'[j] = Offs[j] + a /\ Offs'[j] \in Int /\ Field'[j] = SIZE_W
  <2>1. /\ DOMAIN Offs = 1 .. Len(jmps) /\ DOMAIN Field = 1 .. Len(jmps)
        /\ \A j \in 1 .. Len(jmps) : Offs[j] = jmps[j].off /\ Offs[j] \in Int
    BY <1>2, OffsAre
  <2>2. /\ DOMAIN Offs' = 1 .. Len(jmps') /\ DOMAIN Field' = 1 .. Len(jmps')
        /\ \A j \in 1 .. Len(jmps') : Offs'[j] = jmps'[j].off /\ Offs'[j] \in Int
    BY <1>14, OffsNext
  <2>3. \A j \in 1 .. Len(jmps) : Field[j] = SIZE_W
    BY <1>1, <2>1 DEF Field
  <2>4. \A j \in 1 .. Len(jmps') : Field'[j] = SIZE_W
    BY <1>8, <2>2 DEF Field
  <2>5. \A j \in 1 .. N : j \in 1 .. Len(jmps)
    BY <1>7
  <2>6. ASSUME NEW j \in 1 .. N
        PROVE  Offs'[j] = Offs[j] + a
    BY <1>14, <2>1, <2>2, <2>5
  <2> QED BY <1>7, <1>14, <2>1, <2>2, <2>3, <2>4, <2>6
<1>23. VJmps' = Offs'
  <2>1. Offs' = [r \in 1 .. N |-> Offs'[r]]
    BY <1>14 DEF Offs
  <2>2. \A J : \A i : J = [r \in 1 .. N |-> J[r]] /\ (\A r \in 1 .. N : J[r] \in Int) => Ahead(J, i, 0) = J
    BY AheadOfNothing
  <2>3. Ahead(Offs', loc'.jmp, 0) = Offs'
    BY <1>22, <2>1, <2>2
  <2> QED BY <1>8, <1>18, <2>3 DEF VJmps
<1>24. There' = k /\ Beside' = {Framing(g) : g \in Frames} /\ Given' = 0 .. Len(ic) + 1
  BY <1>8 DEF There, Beside, Given
<1>25. k \in Nat /\ k < Len(ic) /\ Len(ic) = k + 1 /\ ic[k + 1].op = "ret"
  BY <1>3
<1>26. /\ Ordered(ic, cs) /\ Hits(rels, cs, SymBits(ic, k + 1)) /\ Reals(cs) = InstrBits(ic, k + 1)
       /\ JumpsAt(ic, cs, k + 1, Offs, Field)
  BY <1>1, <1>4, <1>25 DEF CodeInv, CodeAt
<1>27. \A p \in 1 .. Len(cs) : Real(cs[p]) => (p > e <=> cs[p][1] = k)
  BY <1>5 DEF ReturnAt
<1> HIDE DEF k
<1>28. /\ Ordered(ic, c) /\ Reals(c) = Framing(f) \cup InstrBits(ic, k)
       /\ \A B, T, T2 :
             /\ B \subseteq InstrBits(ic, k) /\ Hits(T, cs, B)
             /\ DOMAIN T2 = DOMAIN T /\ \A r \in DOMAIN T : T2[r] = T[r] + f[1]
             => Hits(T2, c, B)
  BY <1>3, <1>9, <1>25, <1>26, <1>27, FramedKeeps
<1>29. Hits(rels', c, SymBits(ic, k))
  <2>1. SymBits(ic, k + 1) = SymBits(ic, k)
    BY <1>25, TableBitsNext
  <2>2. SymBits(ic, k) \subseteq InstrBits(ic, k)
    BY <1>3, <1>25, TableBits
  <2>3. DOMAIN rels' = DOMAIN rels /\ \A r \in DOMAIN rels : rels'[r] = rels[r] + f[1]
    BY <1>8
  <2> QED BY <1>26, <1>28, <2>1, <2>2, <2>3
<1>30. CodeAt(ic, Virtual, There, Beside, VRels)'
  <2>1. \E B \in {Framing(g) : g \in Frames} : Reals(c) = B \cup InstrBits(ic, k)
    BY <1>28
  <2> QED BY <1>8, <1>10, <1>20, <1>21, <1>24, <1>28, <1>29, <2>1 DEF CodeAt, k
<1>31. FrameMoves(Offs, Field, Offs', Field', N, f[1], e)
  <2>1. Offs[N + 1] - SZ_SZ - 1 >= e
    BY <1>5, <1>7 DEF ReturnAt
  <2>2. ASSUME NEW j \in 1 .. N
        PROVE  Offs[j] + Field[j] <= e
    <3>1. j \in 1 .. Len(jmps) - 1 /\ j \in 1 .. N + 1
      BY <1>7
    <3>2. Offs[j] + SIZE_W <= e
      BY <1>5, <3>1 DEF ReturnAt
    <3> QED BY <1>22, <3>1, <3>2
  <2>3. \A j \in 1 .. N : j \in 1 .. N + 1
    BY <1>7
  <2> QED BY <1>22, <2>1, <2>2, <2>3 DEF FrameMoves
<1>32. JumpsAt(ic, c, k, Offs', Field')
  <2> HIDE DEF N
  <2> QED BY <1>3, <1>7, <1>9, <1>25, <1>26, <1>27, <1>31, FramedJumps
<1>33. TablesInv'
  <2>1. Passed(VRels, Len(rels), loc.rel, Len(cs))'
    BY <1>11, <1>12 DEF Passed
  <2>2. Passed(VJmps, Len(jmps), loc.jmp, Len(cs))'
    BY <1>7, <1>11, <1>14 DEF Passed
  <2> QED BY <1>8, <2>1, <2>2 DEF TablesInv
<1>34. PadInv'
  <2>1. PadsAt(pads, 1, 0, 0, cs, Offs) /\ \A i, l \in DOMAIN pads : i < l => pads[i] <= pads[l]
    BY <1>1, <1>4 DEF CodeInv, PadInv
  <2>2. \A i \in DOMAIN pads : i >= 1 /\ pads[i] \in Int /\ pads[i] <= e
    BY <1>2, <1>5
  <2>3. \A i \in DOMAIN pads : pads'[i] = pads[i] + a
    BY <1>8
  <2>4. PadsAt(pads', 1, 0, 0, c, Offs')
    <3> DEFINE M == N
               A == f[1]
    <3>1. M \in Nat /\ IntsAt(Offs)
      BY <1>7, <1>22 DEF IntsAt
    <3>2. FrameMoves(Offs, Field, Offs', Field', M, f[1], e)
      BY <1>31
    <3>3. PadsMove(pads, pads', f[1], e)
      BY <1>13, <2>2, <2>3 DEF PadsMove
    <3>4. PadsAt(pads, 1, 0, 0, cs, Offs)
      BY <2>1
    <3> HIDE DEF M, N, a
    <3> QED BY ONLY <1>9, <3>1, <3>2, <3>3, <3>4, FramedPads
  <2>5. Len(cs') = 0
    BY <1>8
  <2>6. \A i, l \in DOMAIN pads' : i < l => pads'[i] <= pads'[l]
    BY <1>6, <1>13, <2>1, <2>2, <2>3, SMTT(30)
  <2> QED BY <1>8, <1>11, <1>20, <1>23, <2>4, <2>5, <2>6 DEF PadInv
<1>35. LabInv'
  <2>1. 1 .. Len(ic) + 1 \subseteq DOMAIN lab_loc /\ \A j \in DOMAIN jmps : jmps[j].dst <= Len(ic) + 1
    BY <1>1 DEF CodeInv, LabInv, Given
  <2>2. \A x \in 0 .. Len(ic) + 1 : x \in 1 .. Len(ic) + 1 \/ x = 0
    BY <1>3
  <2>3. Given' \subseteq DOMAIN lab_loc'
    BY <1>15, <1>16, <1>24, <2>1, <2>2
  <2>4. \A j \in 1 .. N : j \in DOMAIN jmps
    BY <1>2, <1>7
  <2> QED BY <1>8, <1>14, <2>1, <2>3, <2>4 DEF LabInv
<1>36. RetInv'
  BY <1>8 DEF RetInv
<1>37. (pc # "idle" => JumpsAt(ic, Virtual, There, VJmps, Field))'
  BY <1>8, <1>20, <1>23, <1>24, <1>32 DEF k
<1>38. Complies(ic')
  BY <1>3, <1>8
<1>39. WrapsAt(f, e)
  <2>1. Len(Cut(cs, 0, e)) = e
    <3>1. 0 \in Nat /\ e \in Nat /\ 0 <= e /\ e <= Len(cs)
      BY <1>2, <1>7
    <3>2. Len(Cut(cs, 0, e)) = e - 0
      BY <1>2, <3>1, CutIs
    <3> QED BY <3>1, <3>2
  <2>2. lab_loc' = [l \in DOMAIN LabAdd(lab_loc, LAB_RET, e) |-> LabAdd(lab_loc, LAB_RET, e)[l] + f[1]]
    BY <1>8, <2>1 DEF labs
  <2>3. loc'.lab = 1
    BY <1>8 DEF NoLocals, LAB_RET
  <2>4. FrameMoves(VJmps, Field, VJmps', Field', Len(jmps) - 1, f[1], e)
    BY <1>4, <1>23, <1>31
  <2>5. Framed(Virtual, Virtual', f, e)
    BY <1>4, <1>9, <1>20
  <2>6. /\ \A p \in 1 .. Len(cs) : Real(cs[p]) => (p > e <=> cs[p][1] = Len(ic) - 1)
        /\ \A i \in DOMAIN pads : pads[i] <= e
    BY <1>5, <1>27 DEF k
  <2>7. /\ Len(jmps) - 1 \in Nat /\ Len(jmps') = Len(jmps) - 1
        /\ \A j \in 1 .. Len(jmps) - 1 : jmps'[j].dst = jmps[j].dst
    BY <1>7, <1>14
  <2>8. e = jmp_ret /\ e \in Nat
    BY <1>2
  <2> HIDE DEF e, N
  <2> QED BY <1>4, <1>18, <2>2, <2>3, <2>4, <2>5, <2>6, <2>7, <2>8 DEF WrapsAt
<1> HIDE DEF e
<1> QED BY <1>17, <1>19, <1>30, <1>33, <1>34, <1>35, <1>36, <1>37, <1>38, <1>39 DEF LayoutInv, CodeInv

-----------------------------------------------------------------------------
(* The passes that move code.                                              *)

\* There is nothing real from position p up to q, and no place of B between p and q.
Gap(s, p, q)         == \A j \in p + 1 .. q : ~ Real(s[j])
SameSide(s, B, p, q) == (\A b \in B : Real(b)) /\ \A x \in Places(s, B) : x < p <=> x < q

\* s is o and the rest of c, from v on; x and y of c are at P and Q then.
Cutting(o, c, v, x, y, s, P, Q) ==
    /\ o \in Seq(BitT) /\ c \in Seq(BitT) /\ s = o \o Cut(c, v, Len(c))
    /\ v \in Nat /\ x \in Nat /\ y \in Nat /\ v <= x /\ x <= y /\ y <= Len(c)
    /\ P = Len(o) + x - v /\ Q = Len(o) + y - v

\* What is written up to x, t, and what comes from y on.
LEMMA PassCut ==
    ASSUME NEW o, NEW c, NEW v, NEW x, NEW y, NEW s, NEW P, NEW Q, Cutting(o, c, v, x, y, s, P, Q),
           Gap(s, P, Q), NEW t \in Seq(LitT)
    PROVE  /\ Spliced(s, ((o \o Cut(c, v, x)) \o t) \o Cut(c, y, Len(c)), P, Q, Len(t))
           /\ o \o Cut(c, v, x) \in Seq(BitT) /\ Len(o \o Cut(c, v, x)) = P
           /\ s \in Seq(BitT) /\ Len(s) = Len(o) + Len(c) - v
<1> USE DEF Cutting
<1> DEFINE l == Len(o)
           z == Len(c)
           h == Cut(c, v, x)
           g == Cut(c, v, z)
           b == Cut(c, y, z)
           a == o \o h
<1>1. l \in Nat /\ z \in Nat /\ x <= z /\ v <= z /\ z <= z
  OBVIOUS
<1>2. x \in Nat /\ y \in Nat /\ v \in Nat /\ v <= x /\ x <= y /\ y <= z
  OBVIOUS
<1>3. h \in Seq(BitT) /\ Len(h) = x - v /\ \A j \in 1 .. x - v : h[j] = c[v + j]
  BY <1>1, CutIs, ZenonT(30)
<1>4. g \in Seq(BitT) /\ Len(g) = z - v /\ \A j \in 1 .. z - v : g[j] = c[v + j]
  BY <1>1, CutIs, ZenonT(30)
<1>5. b \in Seq(BitT) /\ Len(b) = z - y /\ \A j \in 1 .. z - y : b[j] = c[y + j]
  BY <1>1, CutIs, ZenonT(30)
<1> HIDE DEF l, z, h, g, b
<1>6. /\ a \in Seq(BitT) /\ Len(a) = l + (x - v)
      /\ \A p \in 1 .. l : a[p] = o[p]
      /\ \A p \in l + 1 .. l + (x - v) : a[p] = h[p - l]
  <2>1. /\ a \in Seq(BitT) /\ Len(a) = Len(o) + Len(h)
        /\ \A p \in 1 .. Len(o) : a[p] = o[p]
        /\ \A p \in Len(o) + 1 .. Len(o) + Len(h) : a[p] = h[p - Len(o)]
    BY <1>3, JoinIs, ZenonT(30)
  <2> QED BY <1>3, <2>1 DEF l
<1>7. /\ s \in Seq(BitT) /\ Len(s) = l + (z - v)
      /\ \A p \in 1 .. l : s[p] = o[p]
      /\ \A p \in l + 1 .. l + (z - v) : s[p] = g[p - l]
  <2>1. s = o \o g
    BY DEF g, z
  <2>2. /\ o \o g \in Seq(BitT) /\ Len(o \o g) = Len(o) + Len(g)
        /\ \A p \in 1 .. Len(o) : (o \o g)[p] = o[p]
        /\ \A p \in Len(o) + 1 .. Len(o) + Len(g) : (o \o g)[p] = g[p - Len(o)]
    BY <1>4, JoinIs, ZenonT(30)
  <2> QED BY <1>4, <2>1, <2>2 DEF l
<1> HIDE DEF a
<1>8. P = l + x - v /\ Q = l + y - v /\ P \in Nat /\ Q \in Nat /\ P <= Q /\ Q <= Len(s) /\ Len(a) = P
      /\ Len(b) = Len(s) - Q /\ Len(s) = l + z - v
  <2>1. P = l + x - v /\ Q = l + y - v
    BY DEF l
  <2>2. Len(a) = l + (x - v) /\ Len(b) = z - y /\ Len(s) = l + (z - v)
    BY <1>5, <1>6, <1>7
  <2> QED BY ONLY <1>2, <1>1, <2>1, <2>2
<1>9. ASSUME NEW p \in 1 .. P
      PROVE  a[p] = s[p]
  <2>1. CASE p \in 1 .. l
    BY <1>6, <1>7, <2>1
  <2>2. CASE p > l
    <3>1. p \in l + 1 .. l + (x - v) /\ p \in l + 1 .. l + (z - v) /\ p - l \in 1 .. x - v /\ p - l \in 1 .. z - v
      <4>1. p \in Int /\ p <= P
        BY <1>8
      <4> QED BY ONLY <1>2, <1>1, <1>8, <2>2, <4>1
    <3>2. a[p] = h[p - l] /\ s[p] = g[p - l]
      BY <1>6, <1>7, <3>1
    <3> QED BY <1>3, <1>4, <3>1, <3>2
  <2>3. p \in 1 .. l \/ p > l
    <3>1. p \in 1 .. P
      OBVIOUS
    <3> QED BY ONLY <1>1, <1>8, <3>1
  <2> QED BY <2>1, <2>2, <2>3
<1>10. ASSUME NEW p \in 1 .. Len(s) - Q
      PROVE  b[p] = s[Q + p]
  <2>1. /\ p \in 1 .. z - y /\ Q + p \in l + 1 .. l + (z - v) /\ (Q + p) - l \in 1 .. z - v
        /\ v + ((Q + p) - l) = y + p
    <3>1. p \in 1 .. Len(s) - Q
      OBVIOUS
    <3> QED BY ONLY <1>2, <1>1, <1>8, <3>1
  <2>2. s[Q + p] = g[(Q + p) - l]
    BY <1>7, <2>1
  <2>3. g[(Q + p) - l] = c[v + ((Q + p) - l)]
    BY <1>4, <2>1
  <2>4. b[p] = c[y + p]
    BY <1>5, <2>1
  <2> QED BY <2>1, <2>2, <2>3, <2>4
<1>11. Spliced(s, (a \o t) \o b, P, Q, Len(t))
  BY <1>5, <1>6, <1>7, <1>8, <1>9, <1>10, SpliceIs DEF Gap
<1> QED BY <1>6, <1>7, <1>8, <1>11 DEF a, h, b, l, z

\* A table of a pass, when its cursor stops at the places that stay.
LEMMA TableMoves ==
    ASSUME NEW s, NEW s2, NEW P, NEW Q, NEW m, Spliced(s, s2, P, Q, m),
           NEW B, NEW N \in Nat, NEW T, DOMAIN T = 1 .. N, IntTable(T),
           NEW a, NEW d \in Int, NEW e \in Int, NEW lim \in Int, NEW p, p = lim + d, e <= p,
           Hits(Ahead(T, a, d), s, B), Passed(Ahead(T, a, d), N, a, e),
           SameSide(s, B, p, P), NEW b, b = StopsAt(T, N, a, lim),
           NEW d2, d2 = d + (m - (Q - P)), NEW R2, R2 = Ahead(Shifted(T, a, b, d), b, d2)
    PROVE  Hits(R2, s2, B) /\ Passed(R2, N, b, P + m)
<1> DEFINE R == Ahead(T, a, d)
<1>1. P \in Nat /\ Q \in Nat /\ m \in Nat /\ P <= Q
  BY DEF Spliced
<1>2. a \in 1 .. N + 1 /\ \A r \in 1 .. N : r < a => R[r] < e
  BY DEF Passed
<1>3. DOMAIN R = 1 .. N
  BY DEF Ahead
<1>4. \A r \in 1 .. N : R[r] \in Places(s, B)
  BY <1>3 DEF Hits
<1>5. Rising(R, N)
  BY <1>3 DEF Hits, Rising
<1>6. s \in Seq(BitT)
  BY DEF Spliced
<1>7. \A r \in 1 .. N : R[r] \in Int
  BY <1>4, <1>6 DEF Places
<1> HIDE DEF R
<1>8. Passed(R, N, a, p)
  BY <1>2, <1>7 DEF Passed
<1>9. b \in a .. N + 1 /\ \A r \in 1 .. N : r < b <=> R[r] < p
  <2>1. R = Ahead(T, a, d)
    BY DEF R
  <2>2. DOMAIN T = 1 .. N /\ IntTable(T)
    OBVIOUS
  <2>3. b = StopsAt(T, N, a, lim) /\ N \in Nat /\ d \in Int /\ lim \in Int /\ p = lim + d
    OBVIOUS
  <2>4. Splits(R, N, a, b, p)
    BY ONLY <1>5, <1>8, <2>1, <2>2, <2>3, CursorStops
  <2> QED BY <2>4 DEF Splits
<1>10. \A r \in 1 .. N : r < b <=> R[r] < P
  BY <1>4, <1>9 DEF SameSide
<1> DEFINE w == m - (Q - P)
<1>11. w \in Int /\ d2 = d + w
  BY <1>1
<1> HIDE DEF w
<1>12. a \in Nat /\ b \in Nat /\ a <= b
  BY <1>2, <1>9
<1>13. DOMAIN R2 = 1 .. N /\ \A r \in 1 .. N : R2[r] = R[r] + IF r >= b THEN w ELSE 0
  <2>1. DOMAIN T \subseteq Nat /\ IntTable(T)
    OBVIOUS
  <2>2. Lags(Ahead(Shifted(T, a, b, d), b, d2), Ahead(T, a, d), b, w)
    <3>1. d \in Int
      OBVIOUS
    <3> QED BY ONLY <1>11, <1>12, <2>1, <3>1, AheadOfShifted
  <2>3. Lags(R2, R, b, w)
    BY <2>2 DEF R
  <2> QED BY <1>3, <2>3 DEF Lags
<1>14. ASSUME NEW r \in 1 .. N
       PROVE  R2[r] = Moved(R[r], P, Q, m) /\ (r < b => R2[r] < P + m)
  <2>1. CASE r < b
    <3>1. ~ (r >= b) /\ R[r] < P
      BY <1>10, <1>12, <2>1
    <3>2. R2[r] = R[r]
      BY <1>7, <1>13, <3>1
    <3> QED BY <1>1, <1>7, <3>1, <3>2 DEF Moved
  <2>2. CASE r >= b
    <3>1. ~ (r < b) /\ ~ (R[r] < P)
      BY <1>10, <1>12, <2>2
    <3>2. R2[r] = R[r] + w
      BY <1>13, <2>2
    <3>3. R[r] + w = R[r] + m - (Q - P)
      BY <1>1, <1>7 DEF w
    <3> QED BY <3>1, <3>2, <3>3 DEF Moved
  <2> QED BY <1>12, <2>1, <2>2
<1>15. Hits(R2, s2, B)
  <2>1. Hits(R, s, B)
    BY DEF R
  <2> QED BY <1>3, <1>13, <1>14, <2>1, SplicedHits DEF SameSide
<1>16. Passed(R2, N, b, P + m)
  <2>1. b \in 1 .. N + 1
    BY <1>2, <1>9
  <2> QED BY <1>14, <2>1 DEF Passed
<1> QED BY <1>15, <1>16

\* U is R, but for the entries that are not below p, which are w ahead; entry b is
\* the first of those.
Pushed(R, U, N, b, p, w) ==
    /\ b \in 1 .. N + 1 /\ DOMAIN R = 1 .. N /\ DOMAIN U = 1 .. N
    /\ \A r \in 1 .. N : /\ R[r] \in Int /\ (r < b <=> R[r] < p)
                         /\ U[r] = R[r] + IF R[r] < p THEN 0 ELSE w

\* A table of a pass, whatever it is a table of.
LEMMA CursorMoves ==
    ASSUME NEW N \in Nat, NEW T, DOMAIN T = 1 .. N, IntTable(T),
           NEW a, NEW d \in Int, NEW lim \in Int, NEW p, p = lim + d,
           NEW R, R = Ahead(T, a, d), Rising(R, N), Passed(R, N, a, p),
           NEW b, b = StopsAt(T, N, a, lim), NEW w \in Int, NEW d2, d2 = d + w,
           NEW U, U = Ahead(Shifted(T, a, b, d), b, d2)
    PROVE  Pushed(R, U, N, b, p, w)
<1>1. Splits(R, N, a, b, p)
  BY CursorStops
<1>2. a \in 1 .. N + 1 /\ b \in a .. N + 1 /\ \A r \in 1 .. N : r < b <=> R[r] < p
  BY <1>1 DEF Splits, Passed
<1>3. a \in Nat /\ b \in Nat /\ a <= b
  BY <1>2
<1>4. Lags(U, R, b, w)
  <2>1. DOMAIN T \subseteq Nat /\ d \in Int /\ w \in Int /\ IntTable(T) /\ d2 = d + w
    OBVIOUS
  <2>2. Lags(Ahead(Shifted(T, a, b, d), b, d2), Ahead(T, a, d), b, w)
    BY ONLY <1>3, <2>1, AheadOfShifted
  <2> QED BY <2>2
<1>5. DOMAIN R = 1 .. N
  BY DEF Ahead
<1>6. DOMAIN U = 1 .. N /\ \A r \in 1 .. N : R[r] \in Int /\ U[r] = R[r] + IF r >= b THEN w ELSE 0
  BY <1>4, <1>5 DEF Lags
<1>7. \A r \in 1 .. N : r >= b <=> ~ (R[r] < p)
  BY <1>2, <1>3
<1>8. b \in 1 .. N + 1
  BY <1>2
<1> QED BY <1>2, <1>5, <1>6, <1>7, <1>8 DEF Pushed

\* What is written and what is to come are code together.
LEMMA RestIs ==
    ASSUME NEW o \in Seq(BitT), NEW c \in Seq(BitT), NEW v \in Nat, v <= Len(c)
    PROVE  o \o Cut(c, v, Len(c)) \in Seq(BitT) /\ Len(o \o Cut(c, v, Len(c))) = Len(o) + Len(c) - v
<1> DEFINE g == Cut(c, v, Len(c))
<1>1. g \in Seq(BitT) /\ Len(g) = Len(c) - v
  <2>1. Len(c) \in Nat /\ Len(c) <= Len(c)
    OBVIOUS
  <2> QED BY <2>1, CutIs
<1> HIDE DEF g
<1>2. o \o g \in Seq(BitT) /\ Len(o \o g) = Len(o) + Len(g) /\ Len(o) \in Nat
  BY <1>1, JoinIs
<1>3. Len(o) + (Len(c) - v) = Len(o) + Len(c) - v
  <2>1. Len(c) \in Nat
    OBVIOUS
  <2> QED BY <1>2, <2>1
<1> QED BY <1>1, <1>2, <1>3 DEF g

\* Tables after a step of a pass.
LEMMA RelsShift ==
    ASSUME rels \in Seq(Int), NEW a, NEW b, NEW d \in Int, rels' = ShiftRels(a, b, d)
    PROVE  /\ rels' \in Seq(Int) /\ Len(rels') = Len(rels) /\ rels' = Shifted(rels, a, b, d)
           /\ DOMAIN rels = 1 .. Len(rels) /\ Len(rels) \in Nat /\ IntTable(rels)
<1>1. rels' = Shifted(rels, a, b, d)
  BY DEF ShiftRels, Shifted
<1>2. \A r \in DOMAIN rels : rels[r] \in Int
  OBVIOUS
<1>3. rels' = [r \in DOMAIN rels |-> rels'[r]] /\ \A r \in DOMAIN rels : rels'[r] \in Int
  BY <1>1, <1>2 DEF Shifted
<1>4. rels' \in Seq(Int) /\ Len(rels') = Len(rels)
  BY <1>3, IntSeq
<1> QED BY <1>1, <1>2, <1>4 DEF IntTable

\* The same of the jumps, whose targets stay.
LEMMA JmpsShift ==
    ASSUME jmps \in Seq([off : Int, dst : Nat]), NEW a, NEW b, NEW d \in Int, jmps' = ShiftJmps(a, b, d)
    PROVE  /\ jmps' \in Seq([off : Int, dst : Nat]) /\ Len(jmps') = Len(jmps) /\ Offs' = Shifted(Offs, a, b, d)
           /\ \A j \in DOMAIN jmps' : j \in DOMAIN jmps /\ jmps'[j].dst = jmps[j].dst
           /\ DOMAIN Offs = 1 .. Len(jmps) /\ Len(jmps) \in Nat /\ IntTable(Offs)
<1> DEFINE S == [off : Int, dst : Nat]
           N == Len(jmps)
<1>1. N \in Nat /\ DOMAIN jmps = 1 .. N
  OBVIOUS
<1>2. \A j \in 1 .. N : jmps[j] \in S
  <2>1. \A Z : jmps \in Seq(Z) => \A r \in 1 .. Len(jmps) : jmps[r] \in Z
    BY ElementOfSeq
  <2> QED BY <2>1
<1> HIDE DEF N
<1>3. ASSUME NEW x \in S, NEW y \in Int
      PROVE  /\ [x EXCEPT !.off = @ + y] \in S /\ [x EXCEPT !.off = @ + y].off = x.off + y
             /\ [x EXCEPT !.off = @ + y].dst = x.dst
  BY SMTT(30)
<1>4. jmps' = [j \in 1 .. N |-> [jmps[j] EXCEPT !.off = @ + IF Within(j, a, b) THEN d ELSE 0]]
  BY <1>1 DEF ShiftJmps
<1>5. ASSUME NEW j \in 1 .. N
      PROVE  /\ jmps'[j] \in S /\ jmps'[j].off = jmps[j].off + (IF Within(j, a, b) THEN d ELSE 0)
             /\ jmps'[j].dst = jmps[j].dst
  <2> DEFINE y == IF Within(j, a, b) THEN d ELSE 0
  <2>1. y \in Int
    OBVIOUS
  <2>2. jmps'[j] = [jmps[j] EXCEPT !.off = @ + y]
    BY <1>4
  <2> HIDE DEF y
  <2>3. jmps'[j] \in S /\ jmps'[j].off = jmps[j].off + y /\ jmps'[j].dst = jmps[j].dst
    BY <1>2, <1>3, <2>1, <2>2
  <2> QED BY <2>3 DEF y
<1>6. jmps' \in [1 .. N -> S]
  BY <1>4, <1>5
<1>7. jmps' \in Seq(S) /\ Len(jmps') = N /\ DOMAIN jmps' = 1 .. N
  <2>1. \A Z, n, g : n \in Nat /\ g \in [1 .. n -> Z] => g \in Seq(Z) /\ Len(g) = n /\ DOMAIN g = 1 .. n
    OBVIOUS
  <2> QED BY <1>1, <1>6, <2>1, Zenon
<1>8. DOMAIN Offs = 1 .. N /\ \A j \in 1 .. N : Offs[j] = jmps[j].off /\ Offs[j] \in Int
  BY <1>1, <1>2 DEF Offs
<1>9. Offs' = [j \in 1 .. N |-> jmps'[j].off]
  BY <1>7 DEF Offs
<1>10. Shifted(Offs, a, b, d) = [j \in 1 .. N |-> jmps[j].off + IF Within(j, a, b) THEN d ELSE 0]
  BY <1>8 DEF Shifted
<1>11. Offs' = Shifted(Offs, a, b, d)
  BY <1>5, <1>9, <1>10
<1> QED BY <1>1, <1>5, <1>7, <1>8, <1>11 DEF N, IntTable

\* The same of the labels.
LEMMA LabsShift ==
    ASSUME Labels(lab_loc), NEW a, NEW b, NEW d \in Int
    PROVE  Labels(ShiftLabs(a, b, d)) /\ DOMAIN ShiftLabs(a, b, d) = DOMAIN lab_loc
<1>1. DOMAIN ShiftLabs(a, b, d) = DOMAIN lab_loc
  BY DEF ShiftLabs
<1>2. \A x \in DOMAIN lab_loc : lab_loc[x] \in Int
  BY DEF Labels
<1>3. \A x \in DOMAIN lab_loc : ShiftLabs(a, b, d)[x] \in Int
  BY <1>2 DEF ShiftLabs
<1> QED BY <1>1, <1>3 DEF Labels

\* Code that is spliced is the same code.
LEMMA SplicedCode ==
    ASSUME NEW s, NEW s2, NEW P, NEW Q, NEW m, Spliced(s, s2, P, Q, m),
           NEW c, NEW n, NEW bs, NEW R, CodeAt(c, s, n, bs, R), NEW R2, Hits(R2, s2, SymBits(c, n))
    PROVE  CodeAt(c, s2, n, bs, R2)
<1>1. Reals(s2) = Reals(s) /\ (Ordered(c, s) => Ordered(c, s2)) /\ s2 \in Seq(BitT)
  BY SplicedKeeps DEF Spliced
<1> QED BY <1>1 DEF CodeAt

\* Padding at the next place moves no place into a jump.
LEMMA AlignedPads ==
    ASSUME NEW T, NEW i \in Nat, i \in DOMAIN T, \A k \in DOMAIN T : k \in Nat /\ T[k] \in Int,
           \A k, l \in DOMAIN T : k < l => T[k] <= T[l],
           NEW d \in Int, NEW e, NEW s, NEW J, PadsAt(T, i, d, e, s, J), NEW P \in Nat, P = T[i] + d,
           NEW n \in Nat, NEW s2, Len(s) \in Nat, Len(s2) = Len(s) + n,
           NEW N, NEW U, NEW b, Pushed(J, U, N, b, P, n),
           NEW i2, i2 = i + 1, NEW d2, d2 = d + n, NEW e2, e2 = P + n
    PROVE  PadsAt(T, i2, d2, e2, s2, U)
<1>1. SZ_SZ \in Nat /\ SIZE_W \in Nat
  BY ConstantsAre
<1>2. ASSUME NEW k \in DOMAIN T, k >= i2
      PROVE  /\ e2 <= T[k] + d2 /\ T[k] + d2 <= Len(s2)
             /\ \A j \in DOMAIN U : T[k] + d2 <= U[j] - SZ_SZ - 1 \/ U[j] + SIZE_W <= T[k] + d2
  <2>1. PICK t : t = T[k]
    OBVIOUS
  <2>2. k \in Nat /\ t \in Int /\ i < k /\ k >= i
    BY <1>2, <2>1, SMTT(30)
  <2>3. T[i] <= t /\ T[i] \in Int
    BY <2>1, <2>2
  <2>4. P <= t + d
    BY <2>2, <2>3
  <2>5. t + d <= Len(s) /\ \A j \in DOMAIN J : t + d <= J[j] - SZ_SZ - 1 \/ J[j] + SIZE_W <= t + d
    BY <2>1, <2>2 DEF PadsAt
  <2>6. e2 <= t + d2 /\ t + d2 <= Len(s2)
    BY <2>2, <2>4, <2>5
  <2>7. ASSUME NEW j \in DOMAIN U
        PROVE  t + d2 <= U[j] - SZ_SZ - 1 \/ U[j] + SIZE_W <= t + d2
    <3>1. PICK x, y : x = J[j] /\ y = U[j]
      OBVIOUS
    <3>2. x \in Int /\ y = x + IF x < P THEN 0 ELSE n
      BY <3>1 DEF Pushed
    <3>3. t + d <= x - SZ_SZ - 1 \/ x + SIZE_W <= t + d
      BY <2>5, <3>1 DEF Pushed
    <3>4. t + d2 <= y - SZ_SZ - 1 \/ y + SIZE_W <= t + d2
      <4>1. d2 = d + n /\ n \in Nat /\ d \in Int /\ P \in Nat
        OBVIOUS
      <4> QED BY ONLY <1>1, <2>2, <2>4, <3>2, <3>3, <4>1
    <3> QED BY <3>1, <3>4
  <2> QED BY <2>1, <2>6, <2>7
<1> QED BY <1>2 DEF PadsAt

\* Nor into the one it is put before, or behind.
LEMMA AlignedJumps ==
    ASSUME NEW T, NEW i, i \in DOMAIN T, i >= i, NEW d, NEW e, NEW s, NEW J, PadsAt(T, i, d, e, s, J),
           NEW P \in Nat, P = T[i] + d, NEW n \in Nat, NEW N, NEW U, NEW b, Pushed(J, U, N, b, P, n),
           NEW F, NEW G, \A j \in DOMAIN J : F[j] = SIZE_W /\ G[j] = SIZE_W
    PROVE  JumpsMove(J, F, U, G, P, P, n)
<1>1. SZ_SZ \in Nat /\ SIZE_W \in Nat /\ SIZE_W > 0
  BY ConstantsAre
<1>2. DOMAIN U = DOMAIN J
  BY DEF Pushed
<1>3. ASSUME NEW j \in DOMAIN J
      PROVE  JumpMoves(J[j], F[j], U[j], G[j], P, P, n)
  <2>1. PICK x, y : x = J[j] /\ y = U[j]
    OBVIOUS
  <2>2. x \in Int /\ y = x + IF x < P THEN 0 ELSE n
    BY <2>1 DEF Pushed
  <2>3. P <= x - SZ_SZ - 1 \/ x + SIZE_W <= P
    BY <2>1 DEF PadsAt
  <2>4. JumpMoves(x, SIZE_W, y, SIZE_W, P, P, n)
    BY <1>1, <2>2, <2>3 DEF JumpMoves, InFront, Behind
  <2> QED BY <2>1, <2>4
<1> QED BY <1>2, <1>3 DEF JumpsMove

\* What is to move is a number, before and after.
LEMMA AheadInts ==
    ASSUME NEW T, IntTable(T), NEW a, NEW d \in Int, NEW R, R = Ahead(T, a, d)
    PROVE  DOMAIN R = DOMAIN T /\ \A r \in DOMAIN T : R[r] \in Int
<1>1. \A r \in DOMAIN T : T[r] \in Int
  BY DEF IntTable
<1>2. ASSUME NEW r \in DOMAIN T
      PROVE  R[r] \in Int
  <2>1. R[r] = T[r] + IF r >= a THEN d ELSE 0
    BY DEF Ahead
  <2>2. CASE r >= a
    BY <1>1, <2>1, <2>2
  <2>3. CASE ~ (r >= a)
    BY <1>1, <2>1, <2>3
  <2> QED BY <2>2, <2>3
<1> QED BY <1>2 DEF Ahead

\* Jumps are in order.
LEMMA JumpsRise ==
    ASSUME NEW c, NEW s \in Seq(BitT), NEW n, NEW J, NEW F, JumpsAt(c, s, n, J, F), NEW N, DOMAIN J = 1 .. N
    PROVE  Rising(J, N)
<1>1. SZ_SZ \in Nat /\ \A j \in 1 .. N : J[j] \in Int
  BY ConstantsAre DEF JumpsAt
<1>2. \A q, r \in 1 .. N : q < r => J[q] - SZ_SZ - 1 < J[r] - SZ_SZ - 1
  BY DEF JumpsAt, Hits, Heads
<1> QED BY <1>1, <1>2 DEF Rising

\* The code up to the next call, and what is put in behind it.
LEMMA AlignKeeps ==
    ASSUME LayoutInv, AlignStep
    PROVE  LayoutInv' /\ \E P, n : AlignsAt(P, n)
<1> DEFINE c    == loc.c
           v    == loc.prev
           i    == loc.i
           d    == loc.diff
           s    == Virtual
           this == pads[i]
           P    == this + d
           n    == Len(Pad(P))
           s2   == Virtual'
           b    == Stop({r \in DOMAIN rels : Below(rels[r], this)}, loc.rel, Len(rels))
           h    == Stop({j \in DOMAIN jmps : Below(jmps[j].off, this)}, loc.jmp, Len(jmps))
           lab  == Stop({l \in DOMAIN lab_loc : Below(lab_loc[l], this)}, loc.lab, LastLab)
           done == cs \o Cut(c, v, this)
           w    == Len(Pad(Len(done)))
<1>1. Types /\ PassInv /\ CodeInv /\ pc = "align" /\ i <= Len(pads)
  BY DEF LayoutInv, AlignStep
<1>2. /\ cs \in Seq(BitT) /\ rels \in Seq(Int) /\ pads \in Seq(Int) /\ jmps \in Seq([off : Int, dst : Nat])
      /\ Labels(lab_loc)
  BY <1>1 DEF Types
<1>3. /\ c \in Seq(BitT) /\ i \in Nat \ {0} /\ v \in Nat /\ d \in Int /\ loc.rel \in Nat /\ loc.jmp \in Nat
      /\ loc.sz \in Seq(Nat)
  BY <1>1 DEF Types, Locals
<1>4. /\ rels' = ShiftRels(loc.rel, b, d) /\ jmps' = ShiftJmps(loc.jmp, h, d)
      /\ lab_loc' = ShiftLabs(loc.lab, lab, d)
      /\ cs' = done \o Pad(Len(done))
      /\ loc' = [loc EXCEPT !.rel = b, !.jmp = h, !.lab = lab, !.i = @ + 1, !.prev = this, !.diff = @ + w]
      /\ pc' = pc /\ ic' = ic /\ pads' = pads /\ jmp_ret' = jmp_ret
      /\ text' = text /\ outDef' = outDef /\ outRels' = outRels
  BY DEF AlignStep, outs
<1>5. /\ s = cs \o Cut(c, v, Len(c)) /\ Shift = d /\ Len(cs) = v + d /\ v <= Len(c)
      /\ There = Len(ic) - 1 /\ VRels = Ahead(rels, loc.rel, d) /\ VJmps = Ahead(Offs, loc.jmp, d)
  BY <1>1 DEF Virtual, Shift, VRels, VJmps, There, PassInv
<1>6. s \in Seq(BitT) /\ Len(s) = Len(c) + d /\ Len(s) \in Nat /\ Len(cs) \in Nat /\ Len(c) \in Nat
  <2>1. cs \o Cut(c, v, Len(c)) \in Seq(BitT) /\ Len(cs \o Cut(c, v, Len(c))) = Len(cs) + Len(c) - v
    BY <1>2, <1>3, <1>5, RestIs
  <2>2. s \in Seq(BitT) /\ Len(s) = Len(cs) + Len(c) - v
    BY <1>5, <2>1
  <2>3. Len(s) \in Nat /\ Len(cs) \in Nat /\ Len(c) \in Nat
    BY <1>2, <1>3, <2>2
  <2> HIDE DEF c, v, i, d, s
  <2>4. Len(cs) + Len(c) - v = Len(c) + d
    BY <1>3, <1>5, <2>3
  <2> QED BY <2>2, <2>3, <2>4
<1>7. PadsAt(pads, i, d, Len(cs), s, VJmps) /\ \A k, l \in DOMAIN pads : k < l => pads[k] <= pads[l]
  BY <1>1 DEF CodeInv, PadInv
<1>8. /\ i \in DOMAIN pads /\ this \in Int /\ Len(cs) <= this + d /\ this + d <= Len(s)
      /\ \A k \in DOMAIN pads : k \in Nat /\ pads[k] \in Int
  <2>1. DOMAIN pads = 1 .. Len(pads) /\ \A k \in DOMAIN pads : pads[k] \in Int
    BY <1>2
  <2>2. i \in DOMAIN pads /\ i >= i
    BY <1>1, <1>3, <2>1
  <2>3. Len(cs) <= this + d /\ this + d <= Len(s)
    BY <1>7, <2>2 DEF PadsAt
  <2> QED BY <2>1, <2>2, <2>3
<1> HIDE DEF c, v, i, d, s, this
<1>9. v <= this /\ this <= Len(c) /\ this \in Nat /\ P \in Nat /\ P = Len(cs) + this - v /\ this <= this
  BY <1>3, <1>5, <1>6, <1>8
<1>10. Pad(P) \in Seq(LitT) /\ n \in Nat
  BY <1>9, PadIs
<1>11. /\ Spliced(s, (done \o Pad(P)) \o Cut(c, this, Len(c)), P, P, n)
       /\ done \in Seq(BitT) /\ Len(done) = P
  <2>1. Gap(s, P, P)
    BY <1>9 DEF Gap
  <2> HIDE DEF P
  <2>2. Cutting(cs, c, v, this, this, s, P, P)
    BY <1>2, <1>3, <1>5, <1>9 DEF Cutting
  <2> QED BY ONLY <1>10, <2>1, <2>2, PassCut
<1>12. w = n /\ cs' = done \o Pad(P) /\ cs' \in Seq(BitT) /\ Len(cs') = P + n
  <2>1. w = n /\ cs' = done \o Pad(P)
    BY <1>4, <1>11
  <2>2. Pad(P) \in Seq(BitT)
    BY <1>10 DEF BitT
  <2>3. done \o Pad(P) \in Seq(BitT) /\ Len(done \o Pad(P)) = Len(done) + n
    BY <1>11, <2>2, JoinIs
  <2> QED BY <1>11, <2>1, <2>3
<1> HIDE DEF w, done, lab
<1>13. loc' = [c |-> c, i |-> i + 1, prev |-> this, diff |-> d + n, rel |-> b, jmp |-> h, lab |-> lab, sz |-> loc.sz]
  <2>1. loc \in Locals
    BY <1>1 DEF Types
  <2>2. loc = [c |-> c, i |-> i, prev |-> v, diff |-> d, rel |-> loc.rel, jmp |-> loc.jmp,
               lab |-> loc.lab, sz |-> loc.sz]
    BY <2>1 DEF Locals, c, i, v, d
  <2> HIDE DEF b, h, P, n
  <2>3. loc' = [c |-> loc.c, i |-> loc.i + 1, prev |-> this, diff |-> loc.diff + w, rel |-> b, jmp |-> h,
                lab |-> lab, sz |-> loc.sz]
    BY <1>4, <2>1 DEF Locals
  <2> QED BY <1>12, <2>3 DEF c, i, d
<1> HIDE DEF b, h, P, n
<1>14. /\ loc'.c = c /\ loc'.i = i + 1 /\ loc'.prev = this /\ loc'.diff = d + n /\ loc'.rel = b
       /\ loc'.jmp = h /\ loc'.lab = lab /\ loc'.sz = loc.sz
  BY <1>13
<1>15. pc' = "align" /\ pc = "align"
  BY <1>1, <1>4
<1>16. s2 = cs' \o Cut(c, this, Len(c)) /\ Spliced(s, s2, P, P, n)
  <2>1. s2 = cs' \o Cut(c, this, Len(c))
    BY <1>14, <1>15 DEF Virtual
  <2> QED BY <1>11, <1>12, <2>1
<1> HIDE DEF s2
<1> USE DEF b, h
<1>17. b = StopsAt(rels, Len(rels), loc.rel, this)
  <2>1. DOMAIN rels = 1 .. Len(rels)
    BY <1>2
  <2> QED BY <2>1 DEF StopsAt, Below
<1>18. h = StopsAt(Offs, Len(jmps), loc.jmp, this)
  <2>1. DOMAIN jmps = 1 .. Len(jmps)
    BY <1>2
  <2>2. \A j \in DOMAIN jmps : Offs[j] = jmps[j].off
    BY DEF Offs
  <2>3. {j \in DOMAIN jmps : Below(jmps[j].off, this)} = {j \in 1 .. Len(jmps) : Offs[j] < this}
    BY <2>1, <2>2 DEF Below
  <2> QED BY <2>3 DEF StopsAt
<1> HIDE DEF b, h, n, P
<1>19. /\ rels' \in Seq(Int) /\ Len(rels') = Len(rels) /\ rels' = Shifted(rels, loc.rel, b, d)
       /\ DOMAIN rels = 1 .. Len(rels) /\ Len(rels) \in Nat /\ IntTable(rels)
  BY <1>2, <1>3, <1>4, RelsShift
<1>20. /\ jmps' \in Seq([off : Int, dst : Nat]) /\ Len(jmps') = Len(jmps) /\ Offs' = Shifted(Offs, loc.jmp, h, d)
       /\ \A j \in DOMAIN jmps' : j \in DOMAIN jmps /\ jmps'[j].dst = jmps[j].dst
       /\ DOMAIN Offs = 1 .. Len(jmps) /\ Len(jmps) \in Nat /\ IntTable(Offs)
  BY <1>2, <1>3, <1>4, JmpsShift
<1>21. Labels(lab_loc') /\ DOMAIN lab_loc' = DOMAIN lab_loc
  BY <1>2, <1>3, <1>4, LabsShift
<1>22. /\ Shift' = d + n /\ VRels' = Ahead(rels', b, d + n) /\ VJmps' = Ahead(Offs', h, d + n)
       /\ There' = There /\ Beside' = Beside /\ Given' = Given
  BY <1>4, <1>14, <1>15 DEF Shift, VRels, VJmps, There, Beside, Given
<1>23. /\ CodeAt(ic, s, There, Beside, VRels) /\ JumpsAt(ic, s, There, VJmps, Field) /\ Complies(ic)
       /\ Passed(VRels, Len(rels), loc.rel, Len(cs)) /\ Passed(VJmps, Len(jmps), loc.jmp, Len(cs))
  BY <1>1 DEF CodeInv, TablesInv, s
<1>24. \A x \in SymBits(ic, There) \cup HeadBits(ic, There) : Real(x)
  <2>1. ic \in Seq(Ins) /\ Len(ic) \in Nat /\ Len(ic) > 0
    BY <1>23 DEF Complies
  <2>2. There \in 0 .. Len(ic)
    BY <1>5, <2>1
  <2> QED BY <2>1, <2>2, TableBits
<1>25. Hits(VRels', s2, SymBits(ic, There)) /\ Passed(VRels', Len(rels), b, P + n)
  <2>1. Hits(VRels, s, SymBits(ic, There))
    BY <1>23 DEF CodeAt
  <2>2. P = this + d /\ Len(cs) <= P /\ Len(cs) \in Int /\ this \in Int /\ d \in Int
    BY <1>3, <1>6, <1>8 DEF P
  <2>3. d + n = d + (n - (P - P))
    BY <1>3, <1>9, <1>10
  <2> DEFINE B  == SymBits(ic, There)
             T  == rels
             d2 == d + n
             U  == VRels'
             e  == Len(cs)
             N  == Len(rels)
             a  == loc.rel
             q  == P
  <2>4. /\ N \in Nat /\ DOMAIN T = 1 .. N /\ IntTable(T) /\ d \in Int /\ e \in Int /\ this \in Int
        /\ q = this + d /\ e <= q /\ Hits(Ahead(T, a, d), s, B) /\ Passed(Ahead(T, a, d), N, a, e)
        /\ b = StopsAt(T, N, a, this) /\ d2 = d + (n - (P - P)) /\ U = Ahead(Shifted(T, a, b, d), b, d2)
    BY <1>5, <1>17, <1>19, <1>22, <1>23, <1>24, <2>1, <2>2, <2>3
  <2> HIDE DEF B, T, d2, U, e, N, a, q
  <2>5. SameSide(s, B, q, P)
    BY <1>24 DEF q, B, SameSide
  <2>6. Hits(U, s2, B) /\ Passed(U, N, b, P + n)
    BY ONLY <1>16, <2>4, <2>5, TableMoves
  <2> QED BY <2>6 DEF U, B, N
<1>26. Pushed(VJmps, VJmps', Len(jmps), h, P, n)
  <2> DEFINE N == Len(jmps)
             R == VJmps
             U == VJmps'
             T == Offs
             a == loc.jmp
             w2 == n
             d2 == d + n
  <2>1. Rising(R, N)
    <3>1. DOMAIN R = 1 .. N
      BY <1>5, <1>20 DEF Ahead
    <3> QED BY <1>6, <1>23, <3>1, JumpsRise
  <2>2. Passed(R, N, a, P)
    <3>1. Passed(R, N, a, Len(cs)) /\ Len(cs) <= P /\ Len(cs) \in Int /\ P \in Int
      BY <1>5, <1>6, <1>8, <1>9, <1>23 DEF P
    <3>2. \A r \in 1 .. N : R[r] \in Int
      <4>1. DOMAIN T = 1 .. N /\ IntTable(T)
        BY <1>20
      <4>2. R = Ahead(T, a, d) /\ d \in Int
        BY <1>3, <1>5
      <4> HIDE DEF R, T, a, N
      <4> QED BY <4>1, <4>2, AheadInts
    <3> QED BY <3>1, <3>2 DEF Passed
  <2>3. /\ N \in Nat /\ DOMAIN T = 1 .. N /\ IntTable(T) /\ d \in Int /\ this \in Int /\ P = this + d
        /\ R = Ahead(T, a, d) /\ h = StopsAt(T, N, a, this) /\ w2 \in Int
        /\ d2 = d + w2 /\ U = Ahead(Shifted(T, a, h, d), h, d2)
    BY <1>3, <1>5, <1>8, <1>10, <1>18, <1>20, <1>22 DEF P
  <2> HIDE DEF N, R, U, T, a, w2, d2
  <2>4. Pushed(R, U, N, h, P, w2)
    BY ONLY <2>1, <2>2, <2>3, CursorMoves
  <2> QED BY <2>4 DEF N, R, U, w2
<1>27. PadsAt(pads, i + 1, d + n, P + n, s2, VJmps')
  <2>1. Len(s2) = Len(s) + n
    BY <1>6, <1>9, <1>10, <1>16 DEF Spliced
  <2>2. /\ i \in Nat /\ i \in DOMAIN pads /\ d \in Int /\ P \in Nat /\ P = pads[i] + d /\ n \in Nat /\ Len(s) \in Nat
        /\ \A k \in DOMAIN pads : k \in Nat /\ pads[k] \in Int
    BY <1>3, <1>6, <1>8, <1>9, <1>10 DEF P, this
  <2> DEFINE i2 == i + 1
             d2 == d + n
             e2 == P + n
  <2>3. i2 = i + 1 /\ d2 = d + n /\ e2 = P + n
    OBVIOUS
  <2> HIDE DEF i2, d2, e2
  <2>4. PadsAt(pads, i2, d2, e2, s2, VJmps')
    BY <1>7, <1>26, <2>1, <2>2, <2>3, AlignedPads
  <2> QED BY <2>4 DEF i2, d2, e2
<1>28. /\ DOMAIN VJmps = 1 .. Len(jmps) /\ DOMAIN VJmps' = 1 .. Len(jmps)
       /\ \A j \in DOMAIN VJmps : Field[j] = SIZE_W /\ Field'[j] = SIZE_W
  <2>1. DOMAIN VJmps = 1 .. Len(jmps) /\ DOMAIN VJmps' = 1 .. Len(jmps)
    BY <1>26 DEF Pushed
  <2>2. DOMAIN jmps = 1 .. Len(jmps) /\ DOMAIN jmps' = 1 .. Len(jmps)
    BY <1>2, <1>20
  <2> QED BY <1>15, <2>1, <2>2 DEF Field
<1>29. JumpsAt(ic, s2, There, VJmps', Field')
  <2>1. i >= i /\ P = pads[i] + d
    BY <1>3 DEF P, this
  <2>2. JumpsMove(VJmps, Field, VJmps', Field', P, P, n)
    BY <1>7, <1>8, <1>9, <1>10, <1>26, <1>28, <2>1, AlignedJumps
  <2> QED BY <1>16, <1>23, <1>24, <2>2, SplicedJumps
<1>30. CodeAt(ic, s2, There, Beside, VRels')
  BY <1>16, <1>23, <1>25, SplicedCode
<1>31. loc' \in Locals'
  <2>1. i + 1 \in Nat \ {0} /\ d + n \in Int /\ b \in Nat /\ h \in Nat
    <3>1. b \in 1 .. Len(rels) + 1 /\ h \in 1 .. Len(jmps) + 1
      BY <1>25, <1>26 DEF Passed, Pushed
    <3> QED BY <1>3, <1>10, <1>19, <1>20, <3>1
  <2> QED BY <1>3, <1>9, <1>13, <1>14, <2>1 DEF Locals
<1>32. Types'
  <2>1. text \in Seq(BitT) /\ outDef \in 0 .. Len(text) /\ outRels \in Seq(Int) /\ jmp_ret \in Nat
    BY <1>1 DEF Types
  <2> QED BY <1>2, <1>4, <1>12, <1>19, <1>20, <1>21, <1>15, <1>31, <2>1 DEF Types, Phases
<1>33. PassInv'
  <2>1. i + 1 <= Len(pads) + 1
    <3>1. i <= Len(pads) /\ Len(pads) \in Nat
      BY <1>1, <1>2 DEF i
    <3> QED BY <1>3, <3>1
  <2>2. Len(cs') = this + (d + n) /\ this <= Len(c)
    BY <1>3, <1>9, <1>10, <1>12 DEF P
  <2>3. outDef = Len(text)
    BY <1>1 DEF PassInv
  <2> QED BY <1>4, <1>22, <1>14, <1>15, <2>1, <2>2, <2>3 DEF PassInv
<1>34. Passed(VJmps', Len(jmps), h, P + n)
  <2>1. \A r \in 1 .. Len(jmps) : r < h => VJmps'[r] < P + n
    BY <1>9, <1>10, <1>26 DEF Pushed
  <2>2. h \in 1 .. Len(jmps) + 1
    BY <1>26 DEF Pushed
  <2> QED BY <2>1, <2>2 DEF Passed
<1>35. TablesInv'
  BY <1>12, <1>19, <1>20, <1>25, <1>14, <1>15, <1>34 DEF TablesInv
<1>36. PadInv'
  BY <1>4, <1>7, <1>12, <1>14, <1>15, <1>27 DEF PadInv, s2
<1>37. LabInv'
  <2>1. Given \subseteq DOMAIN lab_loc /\ \A j \in DOMAIN jmps : jmps[j].dst <= Len(ic) + 1
    BY <1>1 DEF CodeInv, LabInv
  <2> QED BY <1>4, <1>20, <1>21, <1>22, <2>1 DEF LabInv
<1>38. RetInv'
  BY <1>15 DEF RetInv
<1>39. CodeInv'
  <2>1. CodeAt(ic, Virtual, There, Beside, VRels)' /\ (pc # "idle" => JumpsAt(ic, Virtual, There, VJmps, Field))'
    BY <1>4, <1>22, <1>29, <1>30 DEF s2
  <2>2. Complies(ic')
    BY <1>4, <1>23
  <2> QED BY <1>35, <1>36, <1>37, <1>38, <2>1, <2>2 DEF CodeInv
<1>40. AlignsAt(P, n)
  <2>1. Splices(P, P, n)
    <3>1. i >= i /\ P = pads[i] + d
      BY <1>3 DEF P, this
    <3>2. JumpsMove(VJmps, Field, VJmps', Field', P, P, n)
      BY <1>7, <1>8, <1>9, <1>10, <1>26, <1>28, <3>1, AlignedJumps
    <3> QED BY <1>16, <3>2 DEF Splices, s, s2
  <2>2. P = pads[loc.i] + loc.diff /\ n = Len(Pad(P)) /\ Len(cs) <= P
    BY <1>8 DEF P, n, this, i, d
  <2>3. loc'.lab = Stop({l \in DOMAIN lab_loc : Below(lab_loc[l], pads[loc.i])}, loc.lab, LastLab)
    BY <1>14 DEF lab, this, i
  <2>4. Shift = loc.diff /\ Shift' = Shift + n
    BY <1>5, <1>22 DEF d
  <2> HIDE DEF P, n, i, d, this
  <2> QED BY <1>12, <2>1, <2>2, <2>3, <2>4 DEF AlignsAt
<1> QED BY <1>32, <1>33, <1>39, <1>40 DEF LayoutInv

\* When nothing is left to move, the code is there as it was to be.
LEMMA LabsEnd ==
    ASSUME Labels(lab_loc), NEW a, NEW b, NEW d \in Int, NEW x \in Int,
           lab_loc' = [ShiftLabs(a, b, d) EXCEPT ![LAB_RET] = @ + x]
    PROVE  Labels(lab_loc') /\ DOMAIN lab_loc' = DOMAIN lab_loc
<1> DEFINE l == ShiftLabs(a, b, d)
<1>1. Labels(l) /\ DOMAIN l = DOMAIN lab_loc
  BY LabsShift
<1>2. lab_loc' = [l EXCEPT ![LAB_RET] = @ + x]
  OBVIOUS
<1> HIDE DEF l
<1>3. DOMAIN lab_loc' = DOMAIN l
  BY <1>2
<1>4. \A y \in DOMAIN l : l[y] \in Int
  BY <1>1 DEF Labels
<1>5. ASSUME NEW y \in DOMAIN l
      PROVE  lab_loc'[y] \in Int
  <2>1. lab_loc'[y] = IF y = LAB_RET THEN l[y] + x ELSE l[y]
    BY <1>2
  <2> QED BY <1>4, <2>1
<1> QED BY <1>1, <1>3, <1>5 DEF Labels

\* What is left moves on by all the padding.
LEMMA AlignDoneKeeps ==
    ASSUME LayoutInv, AlignDone
    PROVE  LayoutInv' /\ Stays
<1> DEFINE d == loc.diff
           s == Virtual
           N == Len(rels)
           M == Len(jmps)
<1>1. Types /\ PassInv /\ CodeInv /\ pc = "align"
  BY DEF LayoutInv, AlignDone
<1>2. /\ cs \in Seq(BitT) /\ rels \in Seq(Int) /\ pads \in Seq(Int) /\ jmps \in Seq([off : Int, dst : Nat])
      /\ Labels(lab_loc)
  BY <1>1 DEF Types
<1>3. /\ loc.c \in Seq(BitT) /\ loc.prev \in Nat /\ d \in Int /\ loc.rel \in Nat /\ loc.jmp \in Nat
  BY <1>1 DEF Types, Locals
<1>4. /\ rels' = ShiftRels(loc.rel, N + 1, d) /\ jmps' = ShiftJmps(loc.jmp, M + 1, d)
      /\ lab_loc' = [ShiftLabs(loc.lab, LastLab + 1, d) EXCEPT ![LAB_RET] = @ + d]
      /\ cs' = cs \o Cut(loc.c, loc.prev, Len(loc.c))
      /\ loc' = NoLocals /\ pc' = "sizes" /\ ic' = ic /\ pads' = pads /\ jmp_ret' = jmp_ret
      /\ text' = text /\ outDef' = outDef /\ outRels' = outRels
  BY DEF AlignDone, outs
<1>5. /\ s = cs' /\ Shift = d /\ loc.prev <= Len(loc.c)
      /\ VRels = Ahead(rels, loc.rel, d) /\ VJmps = Ahead(Offs, loc.jmp, d)
  BY <1>1, <1>4 DEF Virtual, Shift, VRels, VJmps, PassInv
<1>6. cs' \in Seq(BitT)
  <2>1. cs \o Cut(loc.c, loc.prev, Len(loc.c)) \in Seq(BitT)
    BY <1>2, <1>3, <1>5, RestIs
  <2> QED BY <1>4, <2>1
<1> HIDE DEF d, s
<1>7. /\ rels' \in Seq(Int) /\ Len(rels') = N /\ rels' = Shifted(rels, loc.rel, N + 1, d)
      /\ DOMAIN rels = 1 .. N /\ N \in Nat /\ IntTable(rels)
  BY <1>2, <1>3, <1>4, RelsShift
<1>8. /\ jmps' \in Seq([off : Int, dst : Nat]) /\ Len(jmps') = M /\ Offs' = Shifted(Offs, loc.jmp, M + 1, d)
      /\ \A j \in DOMAIN jmps' : j \in DOMAIN jmps /\ jmps'[j].dst = jmps[j].dst
      /\ DOMAIN Offs = 1 .. M /\ M \in Nat /\ IntTable(Offs)
  BY <1>2, <1>3, <1>4, JmpsShift
<1>9. Labels(lab_loc') /\ DOMAIN lab_loc' = DOMAIN lab_loc
  BY <1>2, <1>3, <1>4, LabsEnd
<1> HIDE DEF N, M
<1>10. rels' = VRels /\ Offs' = VJmps
  BY <1>5, <1>7, <1>8, ShiftedToTheEnd
<1>11. loc' = [c |-> <<>>, i |-> 1, prev |-> 0, diff |-> 0, rel |-> 1, jmp |-> 1, lab |-> LAB_RET + 1, sz |-> <<>>]
  BY <1>4 DEF NoLocals
<1>12. Types'
  <2>1. text \in Seq(BitT) /\ outDef \in 0 .. Len(text) /\ outRels \in Seq(Int) /\ jmp_ret \in Nat
    BY <1>1 DEF Types
  <2>2. <<>> \in Seq(BitT) /\ <<>> \in Seq(Nat) /\ loc'.lab = LAB_RET + 1
    BY <1>11
  <2>3. loc' \in Locals'
    BY <1>11, <2>2 DEF Locals
  <2> QED BY <1>2, <1>4, <1>6, <1>7, <1>8, <1>9, <2>1, <2>3 DEF Types, Phases
<1>13. PassInv'
  <2>1. outDef = Len(text)
    BY <1>1 DEF PassInv
  <2>2. loc'.c = <<>> /\ loc'.prev = 0 /\ loc'.diff = 0
    BY <1>11
  <2> QED BY <1>4, <2>1, <2>2 DEF PassInv
<1>14. Virtual' = s /\ VRels' = VRels /\ VJmps' = VJmps
  BY <1>4, <1>5, <1>10, <1>12, <1>13, StandingNext
<1>15. There' = There /\ Beside' = Beside /\ Given' = Given
  BY <1>1, <1>4 DEF There, Beside, Given
<1>16. Field' = Field
  <2>1. DOMAIN jmps = 1 .. M /\ DOMAIN jmps' = 1 .. M
    BY <1>2, <1>8 DEF M
  <2> QED BY <1>1, <1>4, <2>1 DEF Field
<1>17. CodeInv'
  <2>1. CodeAt(ic, s, There, Beside, VRels) /\ JumpsAt(ic, s, There, VJmps, Field) /\ Complies(ic)
    BY <1>1 DEF CodeInv, s
  <2>2. CodeAt(ic, Virtual, There, Beside, VRels)' /\ (pc # "idle" => JumpsAt(ic, Virtual, There, VJmps, Field))'
    BY <1>4, <1>14, <1>15, <1>16, <2>1
  <2>3. TablesInv' /\ RetInv'
    BY <1>4 DEF TablesInv, RetInv
  <2>4. PadInv'
    BY <1>1, <1>4 DEF CodeInv, PadInv
  <2>5. LabInv'
    <3>1. Given \subseteq DOMAIN lab_loc /\ \A j \in DOMAIN jmps : jmps[j].dst <= Len(ic) + 1
      BY <1>1 DEF CodeInv, LabInv
    <3> QED BY <1>4, <1>8, <1>9, <1>15, <3>1 DEF LabInv
  <2>6. Complies(ic')
    BY <1>4, <2>1
  <2> QED BY <2>2, <2>3, <2>4, <2>5, <2>6 DEF CodeInv
<1>18. Stays
  BY <1>14, <1>16 DEF Stays, s
<1> QED BY <1>12, <1>13, <1>17, <1>18 DEF LayoutInv

\* The sizes of immediates, before any of them changes.
LEMMA JumpSizesKeeps ==
    ASSUME LayoutInv, JumpSizes
    PROVE  LayoutInv' /\ Stays
<1> DEFINE sz == [j \in DOMAIN jmps |-> ImmSize(LongDistance(j))]
           K  == {SIZE_B * k : k \in 1 .. Sizes}
<1>1. Types /\ PassInv /\ CodeInv /\ pc = "sizes"
  BY DEF LayoutInv, JumpSizes
<1>2. /\ cs \in Seq(BitT) /\ rels \in Seq(Int) /\ jmps \in Seq([off : Int, dst : Nat])
  BY <1>1 DEF Types
<1>3. /\ pc' = "shrink" /\ loc' = [loc EXCEPT !.c = cs, !.sz = sz] /\ cs' = <<>>
      /\ ic' = ic /\ pads' = pads /\ jmp_ret' = jmp_ret /\ jmps' = jmps /\ rels' = rels /\ lab_loc' = lab_loc
      /\ text' = text /\ outDef' = outDef /\ outRels' = outRels
  BY DEF JumpSizes, outs, tables
<1>4. sz \in [1 .. Len(jmps) -> K] /\ sz \in Seq(Nat)
  <2>1. DOMAIN jmps = 1 .. Len(jmps) /\ Len(jmps) \in Nat
    BY <1>2
  <2>2. ASSUME NEW j \in DOMAIN jmps
        PROVE  ImmSize(LongDistance(j)) \in K
    <3>1. \E k \in 1 .. Sizes : FitsIn(LongDistance(j), k)
      BY DEF JumpSizes
    <3> QED BY <3>1, ImmSizeIs
  <2>3. K \subseteq Nat
    BY SizesAre
  <2>4. sz \in [1 .. Len(jmps) -> K] /\ sz \in [1 .. Len(jmps) -> Nat]
    BY <2>1, <2>2, <2>3
  <2>5. \A n, g : n \in Nat /\ g \in [1 .. n -> Nat] => g \in Seq(Nat)
    OBVIOUS
  <2> QED BY <2>1, <2>4, <2>5
<1> HIDE DEF sz, K
<1>5. loc = NoLocals
  BY <1>1 DEF PassInv
<1>6. loc' = [c |-> cs, i |-> 1, prev |-> 0, diff |-> 0, rel |-> 1, jmp |-> 1, lab |-> LAB_RET + 1, sz |-> sz]
  BY <1>3, <1>5 DEF NoLocals
<1>7. Types'
  <2>1. /\ text \in Seq(BitT) /\ outDef \in 0 .. Len(text) /\ outRels \in Seq(Int) /\ jmp_ret \in Nat
        /\ pads \in Seq(Int) /\ Labels(lab_loc)
    BY <1>1 DEF Types
  <2>2. <<>> \in Seq(BitT) /\ loc'.lab = LAB_RET + 1
    BY <1>6
  <2>3. loc' \in Locals'
    BY <1>2, <1>4, <1>6, <2>2 DEF Locals
  <2> QED BY <1>2, <1>3, <2>1, <2>2, <2>3 DEF Types, Phases
<1>8. /\ loc'.c = cs /\ loc'.i = 1 /\ loc'.prev = 0 /\ loc'.diff = 0 /\ loc'.rel = 1 /\ loc'.sz = sz /\ Shift' = 0
  <2>1. loc'.c = cs /\ loc'.i = 1 /\ loc'.prev = 0 /\ loc'.diff = 0 /\ loc'.rel = 1 /\ loc'.sz = sz
    BY <1>6
  <2>2. Shift' = -(loc'.diff)
    BY <1>3 DEF Shift
  <2>3. -(loc'.diff) = 0
    <3>1. \A x \in Int : -x = 0 - x
      OBVIOUS
    <3>2. loc'.diff = 0 /\ loc'.diff \in Int
      BY <2>1
    <3>3. -(loc'.diff) = 0 - loc'.diff
      BY <3>1, <3>2, Zenon
    <3>4. 0 - loc'.diff = 0
      BY <3>2
    <3> QED BY <3>3, <3>4, Zenon
  <2> QED BY <2>1, <2>2, <2>3
<1>9. PassInv'
  <2>1. outDef = Len(text)
    BY <1>1 DEF PassInv
  <2>2. Len(cs') = 0 /\ Len(cs) \in Nat /\ Len(jmps) \in Nat
    BY <1>2, <1>3
  <2> QED BY <1>3, <1>4, <1>8, <2>1, <2>2 DEF PassInv, K
<1>10. Virtual = cs /\ VRels = rels /\ VJmps = Offs
  BY <1>1, Standing
<1>11. Virtual' = cs
  BY <1>2, <1>3, <1>8, WholeCut DEF Virtual
<1>12. VRels' = rels /\ VJmps' = Offs
  <2>1. rels = [r \in 1 .. Len(rels) |-> rels[r]] /\ \A r \in 1 .. Len(rels) : rels[r] \in Int
    BY <1>2
  <2>2. Offs' = Offs
    BY <1>3 DEF Offs
  <2>3. Offs = [r \in 1 .. Len(jmps) |-> Offs[r]] /\ \A r \in 1 .. Len(jmps) : Offs[r] \in Int
    BY <1>2, OffsAre DEF Offs
  <2>4. Ahead(rels, 1, 0) = rels /\ Ahead(Offs, 1, 0) = Offs
    BY <2>1, <2>3, AheadOfNothing
  <2> QED BY <1>3, <1>8, <2>2, <2>4 DEF VRels, VJmps
<1>13. There' = There /\ Beside' = Beside /\ Given' = Given
  BY <1>1, <1>3 DEF There, Beside, Given
<1>14. Field' = Field
  <2>1. DOMAIN jmps = 1 .. Len(jmps)
    BY <1>2
  <2>2. \A j \in DOMAIN jmps : ~ (j < 1)
    BY <2>1
  <2> QED BY <1>1, <1>3, <1>8, <2>2 DEF Field
<1>15. CodeInv'
  <2>1. CodeAt(ic, cs, There, Beside, rels) /\ JumpsAt(ic, cs, There, Offs, Field) /\ Complies(ic)
    BY <1>1, <1>10 DEF CodeInv
  <2>2. CodeAt(ic, Virtual, There, Beside, VRels)' /\ (pc # "idle" => JumpsAt(ic, Virtual, There, VJmps, Field))'
    BY <1>3, <1>11, <1>12, <1>13, <1>14, <2>1
  <2>3. RetInv'
    BY <1>3 DEF RetInv
  <2>4. PadInv'
    BY <1>1, <1>3 DEF CodeInv, PadInv
  <2>5. LabInv'
    BY <1>1, <1>3, <1>13 DEF CodeInv, LabInv
  <2>6. TablesInv'
    <3>1. Passed(rels, Len(rels), 1, 0)
      BY <1>2 DEF Passed
    <3>2. ASSUME NEW j \in 1 .. Len(jmps)
          PROVE  0 <= Offs[j]
      <4>1. j \in DOMAIN Offs
        BY <1>2, OffsAre
      <4>2. Offs[j] \in Nat
        BY <1>2, <2>1, <4>1, JumpsAre
      <4> QED BY <4>2
    <3>3. Len(cs') = 0
      BY <1>3
    <3> QED BY <1>3, <1>8, <1>12, <3>1, <3>2, <3>3 DEF TablesInv
  <2>7. Complies(ic')
    BY <1>3, <2>1
  <2> QED BY <2>2, <2>3, <2>4, <2>5, <2>6, <2>7 DEF CodeInv
<1>16. Stays
  BY <1>10, <1>11, <1>12, <1>14 DEF Stays
<1> QED BY <1>7, <1>9, <1>15, <1>16 DEF LayoutInv

\* F with size z at i; a table whose entries from k on are at P or behind it.
SizedAt(F, G, N, i, z)   == G[i] = z /\ \A j \in 1 .. N : j # i => G[j] = F[j]
NoneBefore(U, N, k, P)   == \A j \in 1 .. N : j >= k => P <= U[j]

\* What is taken out of one immediate.
LEMMA ShrunkJumps ==
    ASSUME NEW c, NEW s \in Seq(BitT), NEW n, NEW J, NEW F, JumpsAt(c, s, n, J, F), NEW N, DOMAIN J = 1 .. N,
           NEW i \in 1 .. N, N \in Nat, F[i] = SIZE_W, NEW z \in 1 .. SIZE_W,
           NEW P, P = J[i] + z, NEW Q, Q = J[i] + SIZE_W,
           NEW U, NEW k, k = i + 1, NEW w, w = 0 - (Q - P), Lags(U, J, k, w),
           NEW G, SizedAt(F, G, N, i, z)
    PROVE  /\ JumpsMove(J, F, U, G, P, Q, 0) /\ P \in Nat /\ Q \in Nat /\ P <= Q /\ Q <= Len(s)
           /\ NoneBefore(U, N, k, P)
<1> USE DEF SizedAt
<1>1. SZ_SZ \in Nat /\ SIZE_W \in Nat
  BY ConstantsAre
<1>2. PICK x : x = J[i]
  OBVIOUS
<1>3. x \in Nat /\ x + SIZE_W <= Len(s) /\ P = x + z /\ Q = x + SIZE_W
  <2>1. J[i] \in Nat /\ J[i] + F[i] <= Len(s)
    BY JumpsAre
  <2> QED BY <1>2, <2>1
<1>4. z \in Nat /\ z <= SIZE_W /\ i \in Nat
  BY <1>1
<1>5. P \in Nat /\ Q \in Nat /\ P <= Q /\ Q <= Len(s) /\ w = z - SIZE_W
  BY <1>1, <1>3, <1>4
<1>6. ASSUME NEW j \in 1 .. N
      PROVE  JumpMoves(J[j], F[j], U[j], G[j], P, Q, 0) /\ (j >= k => P <= U[j])
  <2>1. PICK y, f, u, g : y = J[j] /\ f = F[j] /\ u = U[j] /\ g = G[j]
    OBVIOUS
  <2>2. y \in Nat /\ f \in Nat
    BY <2>1, JumpsAre
  <2>3. u = y + IF j >= k THEN w ELSE 0
    BY <2>1 DEF Lags
  <2>4. CASE j < i
    <3>1. y + f <= x - SZ_SZ - 1
      BY <1>2, <2>1, <2>4 DEF JumpsAt
    <3>2. u = y /\ g = f
      BY <1>4, <2>1, <2>2, <2>3, <2>4
    <3>3. y + f <= P /\ ~ (j >= k)
      BY <1>1, <1>3, <1>4, <2>2, <2>4, <3>1
    <3>4. JumpMoves(y, f, u, g, P, Q, 0)
      BY <3>2, <3>3 DEF JumpMoves, InFront
    <3> QED BY <2>1, <3>3, <3>4
  <2>5. CASE j = i
    <3>1. y = x /\ f = SIZE_W /\ g = z
      BY <1>2, <2>1, <2>5
    <3>2. u = x /\ ~ (j >= k)
      BY <1>3, <1>4, <2>3, <2>5, <3>1
    <3>3. JumpMoves(y, f, u, g, P, Q, 0)
      BY <1>3, <1>4, <3>1, <3>2 DEF JumpMoves, Inside
    <3> QED BY <2>1, <3>2, <3>3
  <2>6. CASE j > i
    <3>1. x + SIZE_W <= y - SZ_SZ - 1
      <4>1. J[i] + F[i] <= J[j] - SZ_SZ - 1
        BY <2>6 DEF JumpsAt
      <4> QED BY <1>2, <2>1, <4>1
    <3>2. u = y + w /\ g = f /\ Q <= y - SZ_SZ - 1
      BY <1>3, <1>4, <2>1, <2>3, <2>6, <3>1
    <3>3. u = y + 0 - (Q - P) /\ P <= u
      BY ONLY <1>1, <1>3, <1>4, <1>5, <2>2, <3>1, <3>2
    <3>4. JumpMoves(y, f, u, g, P, Q, 0)
      BY <3>2, <3>3 DEF JumpMoves, Behind
    <3> QED BY <2>1, <3>3, <3>4
  <2> QED BY <1>4, <2>4, <2>5, <2>6
<1>7. DOMAIN U = DOMAIN J
  BY DEF Lags
<1> QED BY <1>5, <1>6, <1>7 DEF JumpsMove, NoneBefore

\* A jump is shortened: what it does not need is taken out behind it.
LEMMA ShrinkKeeps ==
    ASSUME LayoutInv, ShrinkStep
    PROVE  LayoutInv' /\ \E P, Q : ShrinksAt(P, Q)
<1> DEFINE c    == loc.c
           v    == loc.prev
           i    == loc.i
           d    == -loc.diff
           s    == Virtual
           this == jmps[i].off
           z    == loc.sz[i]
           N    == Len(jmps)
           P    == VJmps[i] + z
           Q    == VJmps[i] + SIZE_W
           s2   == Virtual'
           x    == this + z
           y    == this + SIZE_W
           b    == Stop({r \in DOMAIN rels : rels[r] <= this}, loc.rel, Len(rels))
           lab  == Stop({l \in DOMAIN lab_loc : lab_loc[l] <= this}, loc.lab, LastLab)
           D    == d + (0 - (Q - P))
<1>1. Types /\ PassInv /\ CodeInv /\ pc = "shrink" /\ i <= N
  BY DEF LayoutInv, ShrinkStep
<1>2. /\ cs \in Seq(BitT) /\ rels \in Seq(Int) /\ jmps \in Seq([off : Int, dst : Nat]) /\ Labels(lab_loc)
  BY <1>1 DEF Types
<1>3. /\ c \in Seq(BitT) /\ i \in Nat \ {0} /\ v \in Nat /\ loc.diff \in Int /\ loc.rel \in Nat /\ loc.jmp \in Nat
      /\ loc.sz \in Seq(Nat)
  BY <1>1 DEF Types, Locals
<1>4. d \in Int
  BY <1>3
<1>5. /\ rels' = ShiftRels(loc.rel, b, d) /\ jmps' = ShiftJmps(i, i + 1, d)
      /\ lab_loc' = ShiftLabs(loc.lab, lab, d) /\ cs' = cs \o Cut(c, v, x)
      /\ loc' = [loc EXCEPT !.rel = b, !.lab = lab, !.i = @ + 1, !.prev = y, !.diff = @ + SIZE_W - z]
      /\ pc' = pc /\ ic' = ic /\ pads' = pads /\ jmp_ret' = jmp_ret
      /\ text' = text /\ outDef' = outDef /\ outRels' = outRels
  BY DEF ShrinkStep, outs
<1>6. /\ s = cs \o Cut(c, v, Len(c)) /\ Shift = d /\ Len(cs) = v + d /\ v <= Len(c)
      /\ There = Len(ic) - 1 /\ VRels = Ahead(rels, loc.rel, d) /\ VJmps = Ahead(Offs, i, d)
      /\ loc.sz \in [1 .. N -> {SIZE_B * k : k \in 1 .. Sizes}]
  BY <1>1 DEF Virtual, Shift, VRels, VJmps, There, PassInv
<1> HIDE DEF d
<1>7. N \in Nat /\ i \in 1 .. N /\ DOMAIN jmps = 1 .. N
  <2>1. N \in Nat /\ DOMAIN jmps = 1 .. N
    BY <1>2
  <2> QED BY <1>1, <1>3, <2>1
<1>8. /\ CodeAt(ic, s, There, Beside, VRels) /\ JumpsAt(ic, s, There, VJmps, Field) /\ Complies(ic)
      /\ Passed(VRels, Len(rels), loc.rel, Len(cs)) /\ \A j \in 1 .. N : j >= i => Len(cs) <= VJmps[j]
  BY <1>1 DEF CodeInv, TablesInv
<1>9. z \in 1 .. SIZE_W /\ SIZE_W \in Nat /\ z \in Nat
  <2>1. z \in {SIZE_B * k : k \in 1 .. Sizes}
    BY <1>6, <1>7
  <2> QED BY <2>1, SizesAre
<1>10. /\ DOMAIN Offs = 1 .. N /\ IntTable(Offs) /\ Offs[i] = this /\ this \in Int
       /\ VJmps[i] = this + d /\ DOMAIN VJmps = 1 .. N
  <2>1. DOMAIN Offs = 1 .. N /\ \A j \in 1 .. N : Offs[j] = jmps[j].off /\ Offs[j] \in Int
    BY <1>2, OffsAre
  <2>2. Offs[i] = this /\ this \in Int
    BY <1>7, <2>1
  <2>3. VJmps[i] = Offs[i] + IF i >= i THEN d ELSE 0
    BY <1>6, <1>7, <2>1 DEF Ahead
  <2>4. i >= i
    BY <1>7
  <2>5. DOMAIN VJmps = 1 .. N
    BY <1>6, <2>1 DEF Ahead
  <2> QED BY <2>1, <2>2, <2>3, <2>4, <2>5 DEF IntTable
<1>11. s \in Seq(BitT) /\ Len(s) = Len(c) + d /\ Len(s) \in Nat /\ Len(cs) \in Nat /\ Len(c) \in Nat
  <2>1. cs \o Cut(c, v, Len(c)) \in Seq(BitT) /\ Len(cs \o Cut(c, v, Len(c))) = Len(cs) + Len(c) - v
    BY <1>2, <1>3, <1>6, RestIs
  <2>2. s \in Seq(BitT) /\ Len(s) = Len(cs) + Len(c) - v
    BY <1>6, <2>1
  <2>3. Len(s) \in Nat /\ Len(cs) \in Nat /\ Len(c) \in Nat
    BY <1>2, <1>3, <2>2
  <2> HIDE DEF c, v, i, s
  <2>4. Len(cs) + Len(c) - v = Len(c) + d
    BY <1>3, <1>4, <1>6, <2>3
  <2> QED BY <2>2, <2>3, <2>4
<1>12. Field[i] = SIZE_W /\ \A j \in 1 .. N : Field[j] = IF j < i THEN loc.sz[j] ELSE SIZE_W
  <2>1. \A j \in 1 .. N : Field[j] = IF j < i THEN loc.sz[j] ELSE SIZE_W
    BY <1>1, <1>7 DEF Field
  <2>2. ~ (i < i)
    BY <1>7
  <2> QED BY <1>7, <2>1, <2>2
<1> HIDE DEF c, v, i, s, this, z, N
<1>13. P \in Nat /\ Q \in Nat /\ P <= Q /\ Q <= Len(s) /\ P = this + d + z /\ Q = this + d + SIZE_W
  <2>1. VJmps[i] \in Nat /\ VJmps[i] + Field[i] <= Len(s)
    BY <1>7, <1>8, <1>10, <1>11, JumpsAre
  <2>2. PICK k : k = VJmps[i]
    OBVIOUS
  <2>3. k \in Nat /\ k + SIZE_W <= Len(s) /\ P = k + z /\ Q = k + SIZE_W /\ k = this + d
    BY <1>10, <1>12, <2>1, <2>2
  <2> HIDE DEF P, Q
  <2> QED BY <1>4, <1>9, <1>10, <1>11, <2>3
<1>14. /\ v <= x /\ x <= y /\ y <= Len(c) /\ x \in Nat /\ y \in Nat
       /\ P = Len(cs) + x - v /\ Q = Len(cs) + y - v
  <2>1. Len(cs) <= this + d
    <3>1. i >= i
      BY <1>7
    <3> QED BY <1>7, <1>8, <1>10, <3>1
  <2> HIDE DEF P, Q
  <2> QED BY <1>3, <1>4, <1>6, <1>9, <1>10, <1>11, <1>13, <2>1, SMTT(30)
<1>15. Gap(s, VJmps[i], Q)
  <2>1. \A p \in VJmps[i] - SZ_SZ + 1 .. VJmps[i] + Field[i] : ~ Real(s[p])
    BY <1>7, <1>8, <1>10 DEF JumpsAt
  <2>2. SZ_SZ \in Nat /\ VJmps[i] \in Int
    BY <1>4, <1>10, ConstantsAre
  <2>3. \A p \in VJmps[i] + 1 .. Q : p \in VJmps[i] - SZ_SZ + 1 .. VJmps[i] + Field[i]
    BY <1>9, <1>12, <2>2
  <2> QED BY <2>1, <2>3 DEF Gap
<1>16. Gap(s, P, Q)
  <2>1. VJmps[i] \in Int
    BY <1>4, <1>10
  <2>2. \A p \in P + 1 .. Q : p \in VJmps[i] + 1 .. Q
    BY <1>9, <2>1
  <2> QED BY <1>15, <2>2 DEF Gap
<1> HIDE DEF P, Q, x, y
<1>17. /\ Spliced(s, cs' \o Cut(c, y, Len(c)), P, Q, 0) /\ cs' \in Seq(BitT) /\ Len(cs') = P
  <2>1. Cutting(cs, c, v, x, y, s, P, Q)
    BY <1>2, <1>3, <1>6, <1>14 DEF Cutting
  <2>2. <<>> \in Seq(LitT) /\ Len(<<>>) = 0
    OBVIOUS
  <2>3. /\ Spliced(s, ((cs \o Cut(c, v, x)) \o <<>>) \o Cut(c, y, Len(c)), P, Q, Len(<<>>))
        /\ cs \o Cut(c, v, x) \in Seq(BitT) /\ Len(cs \o Cut(c, v, x)) = P
    BY <1>16, <2>1, <2>2, PassCut
  <2>4. cs' = cs \o Cut(c, v, x)
    BY <1>5
  <2>5. cs' \in Seq(BitT)
    BY <2>3, <2>4
  <2>6. cs' \o <<>> = cs'
    BY <2>5
  <2> QED BY <2>2, <2>3, <2>4, <2>6
<1> HIDE DEF b, lab, D
<1>18. loc' = [c |-> c, i |-> i + 1, prev |-> y, diff |-> loc.diff + SIZE_W - z, rel |-> b, jmp |-> loc.jmp,
               lab |-> lab, sz |-> loc.sz]
  <2>1. loc \in Locals
    BY <1>1 DEF Types
  <2>2. loc' = [c |-> loc.c, i |-> loc.i + 1, prev |-> y, diff |-> loc.diff + SIZE_W - z, rel |-> b, jmp |-> loc.jmp,
                lab |-> lab, sz |-> loc.sz]
    BY <1>5, <2>1 DEF Locals
  <2> QED BY <2>2 DEF c, i
<1>19. /\ loc'.c = c /\ loc'.i = i + 1 /\ loc'.prev = y /\ loc'.diff = loc.diff + SIZE_W - z /\ loc'.rel = b
       /\ loc'.jmp = loc.jmp /\ loc'.lab = lab /\ loc'.sz = loc.sz
  BY <1>18
<1>20. pc' = "shrink" /\ pc = "shrink"
  BY <1>1, <1>5
<1>21. s2 = cs' \o Cut(c, y, Len(c)) /\ Spliced(s, s2, P, Q, 0)
  <2>1. s2 = cs' \o Cut(c, y, Len(c))
    BY <1>19, <1>20 DEF Virtual
  <2> QED BY <1>17, <2>1
<1> HIDE DEF s2
<1>22. Shift' = D /\ D \in Int /\ D = d + (0 - (Q - P))
  <2>1. Shift' = -(loc.diff + SIZE_W - z)
    BY <1>19, <1>20 DEF Shift
  <2>2. D = d + (0 - (Q - P)) /\ Q - P = SIZE_W - z
    BY <1>4, <1>9, <1>10, <1>13 DEF D
  <2>3. -(loc.diff + SIZE_W - z) = d + (0 - (SIZE_W - z))
    BY <1>3, <1>9 DEF d
  <2>4. D \in Int
    BY <1>4, <1>9, <2>2
  <2> QED BY <2>1, <2>2, <2>3, <2>4
<1>23. /\ rels' \in Seq(Int) /\ Len(rels') = Len(rels) /\ rels' = Shifted(rels, loc.rel, b, d)
       /\ DOMAIN rels = 1 .. Len(rels) /\ Len(rels) \in Nat /\ IntTable(rels)
  BY <1>2, <1>4, <1>5, RelsShift
<1>24. /\ jmps' \in Seq([off : Int, dst : Nat]) /\ Len(jmps') = N /\ Offs' = Shifted(Offs, i, i + 1, d)
       /\ \A j \in DOMAIN jmps' : j \in DOMAIN jmps /\ jmps'[j].dst = jmps[j].dst
  <2>1. N = Len(jmps)
    BY DEF N
  <2>2. /\ jmps' \in Seq([off : Int, dst : Nat]) /\ Len(jmps') = Len(jmps) /\ Offs' = Shifted(Offs, i, i + 1, d)
        /\ \A j \in DOMAIN jmps' : j \in DOMAIN jmps /\ jmps'[j].dst = jmps[j].dst
    <3> DEFINE k == i + 1
    <3>1. jmps' = ShiftJmps(i, k, d)
      BY <1>5
    <3> HIDE DEF k
    <3>2. /\ jmps' \in Seq([off : Int, dst : Nat]) /\ Len(jmps') = Len(jmps) /\ Offs' = Shifted(Offs, i, k, d)
          /\ \A j \in DOMAIN jmps' : j \in DOMAIN jmps /\ jmps'[j].dst = jmps[j].dst
      BY <1>2, <1>4, <3>1, JmpsShift
    <3> QED BY <3>2 DEF k
  <2> QED BY <2>1, <2>2
<1>25. Labels(lab_loc') /\ DOMAIN lab_loc' = DOMAIN lab_loc
  BY <1>2, <1>4, <1>5, LabsShift
<1>26. /\ VRels' = Ahead(rels', b, D) /\ VJmps' = Ahead(Offs', i + 1, D)
       /\ There' = There /\ Beside' = Beside /\ Given' = Given
  BY <1>5, <1>19, <1>20, <1>22 DEF VRels, VJmps, There, Beside, Given
<1>27. \A X \in SymBits(ic, There) \cup HeadBits(ic, There) : Real(X)
  <2>1. ic \in Seq(Ins) /\ Len(ic) \in Nat /\ Len(ic) > 0
    BY <1>8 DEF Complies
  <2>2. There \in 0 .. Len(ic)
    BY <1>6, <2>1
  <2> QED BY <2>1, <2>2, TableBits
<1>28. Hits(VRels', s2, SymBits(ic, There)) /\ Passed(VRels', Len(rels), b, P)
  <2> DEFINE B   == SymBits(ic, There)
             T   == rels
             U   == VRels'
             e   == Len(cs)
             n   == Len(rels)
             a   == loc.rel
             lim == this + 1
             q   == lim + d
             m   == 0
  <2>1. Hits(VRels, s, SymBits(ic, There))
    BY <1>8 DEF CodeAt
  <2>2. lim \in Int /\ q \in Int /\ q = VJmps[i] + 1 /\ e <= q /\ VJmps[i] \in Int
    <3>1. Len(cs) <= VJmps[i]
      <4>1. i >= i
        BY <1>7
      <4> QED BY <1>7, <1>8, <4>1
    <3>2. q = this + 1 + d /\ e = Len(cs)
      OBVIOUS
    <3> HIDE DEF q, e
    <3> QED BY <1>4, <1>10, <1>11, <3>1, <3>2
  <2>3. SameSide(s, B, q, P)
    <3>1. ASSUME NEW X \in Places(s, B)
          PROVE  X < q <=> X < P
      <4>1. X \in 0 .. Len(s) - 1 /\ Real(s[X + 1])
        BY <1>27 DEF Places
      <4>2. PICK k : k = VJmps[i]
        OBVIOUS
      <4>3. ~ (X + 1 \in k + 1 .. Q)
        BY <1>15, <4>1, <4>2 DEF Gap
      <4>4. k \in Int /\ q = k + 1 /\ P = k + z /\ Q = k + SIZE_W
        BY <2>2, <4>2 DEF P, Q
      <4>5. X \in Int
        BY <1>11, <4>1
      <4> HIDE DEF q, P, Q
      <4> QED BY <1>9, <4>3, <4>4, <4>5
    <3> QED BY <1>27, <3>1 DEF SameSide
  <2>4. b = StopsAt(T, n, a, lim)
    <3>1. \A r \in 1 .. Len(rels) : rels[r] <= this <=> rels[r] < this + 1
      BY <1>10, <1>23 DEF IntTable
    <3>2. {r \in DOMAIN rels : rels[r] <= this} = {r \in 1 .. Len(rels) : rels[r] < this + 1}
      BY <1>23, <3>1
    <3> QED BY <3>2 DEF b, StopsAt
  <2>5. /\ n \in Nat /\ DOMAIN T = 1 .. n /\ IntTable(T) /\ d \in Int /\ e \in Int /\ lim \in Int
        /\ q = lim + d /\ e <= q /\ Hits(Ahead(T, a, d), s, B) /\ Passed(Ahead(T, a, d), n, a, e)
        /\ D = d + (m - (Q - P)) /\ U = Ahead(Shifted(T, a, b, d), b, D) /\ Spliced(s, s2, P, Q, m)
    BY <1>4, <1>6, <1>8, <1>11, <1>21, <1>22, <1>23, <1>26, <2>1, <2>2
  <2> HIDE DEF B, T, U, e, n, a, q, lim, m
  <2>6. Hits(U, s2, B) /\ Passed(U, n, b, P + m)
    BY ONLY <2>3, <2>4, <2>5, TableMoves
  <2>7. P + m = P
    BY <1>13 DEF m
  <2> QED BY <2>6, <2>7 DEF U, B, n
<1>29. Lags(VJmps', VJmps, i + 1, 0 - (Q - P))
  <2> DEFINE T == Offs
             k == i + 1
             w == 0 - (Q - P)
  <2>1. /\ IntTable(T) /\ DOMAIN T \subseteq Nat /\ i \in Nat /\ k \in Nat /\ i <= k /\ d \in Int
        /\ w \in Int /\ D = d + w
    <3>1. DOMAIN T \subseteq Nat
      BY <1>7, <1>10
    <3>2. w \in Int
      BY <1>13
    <3> HIDE DEF T
    <3> QED BY <1>3, <1>4, <1>10, <1>22, <3>1, <3>2 DEF T
  <2>2. VJmps' = Ahead(Shifted(T, i, k, d), k, D) /\ VJmps = Ahead(T, i, d)
    BY <1>6, <1>24, <1>26
  <2> HIDE DEF T, k, w
  <2>3. Lags(Ahead(Shifted(T, i, k, d), k, D), Ahead(T, i, d), k, w)
    BY ONLY <2>1, AheadOfShifted
  <2> QED BY <2>2, <2>3 DEF k, w
<1>30. Field'[i] = z /\ \A j \in 1 .. N : j # i => Field'[j] = Field[j]
  <2>1. DOMAIN jmps' = 1 .. N
    BY <1>24
  <2>2. \A j \in 1 .. N : Field'[j] = IF j < i + 1 THEN loc.sz[j] ELSE SIZE_W
    BY <1>19, <1>20, <2>1 DEF Field
  <2>3. i < i + 1 /\ \A j \in 1 .. N : j # i => (j < i + 1 <=> j < i)
    BY <1>7
  <2> QED BY <1>7, <1>12, <2>2, <2>3 DEF z
<1>31. /\ JumpsMove(VJmps, Field, VJmps', Field', P, Q, 0)
       /\ \A j \in 1 .. N : j >= i + 1 => P <= VJmps'[j]
  <2> DEFINE k == i + 1
             w == 0 - (Q - P)
             J == VJmps
             U == VJmps'
             F == Field
             G == Field'
  <2>1. /\ s \in Seq(BitT) /\ JumpsAt(ic, s, There, J, F) /\ DOMAIN J = 1 .. N /\ i \in 1 .. N /\ N \in Nat
        /\ F[i] = SIZE_W /\ z \in 1 .. SIZE_W /\ P = J[i] + z /\ Q = J[i] + SIZE_W /\ k = i + 1 /\ w = 0 - (Q - P)
        /\ Lags(U, J, k, w) /\ SizedAt(F, G, N, i, z)
    BY <1>7, <1>8, <1>9, <1>10, <1>11, <1>12, <1>29, <1>30 DEF P, Q, SizedAt
  <2> HIDE DEF k, w, J, U, F, G
  <2>2. JumpsMove(J, F, U, G, P, Q, 0) /\ NoneBefore(U, N, k, P)
    BY ONLY <2>1, ShrunkJumps
  <2> QED BY <2>2 DEF k, J, U, F, G, NoneBefore
<1>32. JumpsAt(ic, s2, There, VJmps', Field')
  BY <1>8, <1>21, <1>27, <1>31, SplicedJumps
<1>33. CodeAt(ic, s2, There, Beside, VRels')
  BY <1>8, <1>21, <1>28, SplicedCode
<1>34. loc' \in Locals'
  <2>1. i + 1 \in Nat \ {0} /\ loc.diff + SIZE_W - z \in Int /\ b \in Nat
    <3>1. b \in 1 .. Len(rels) + 1
      BY <1>28 DEF Passed
    <3> QED BY <1>3, <1>9, <1>23, <3>1
  <2> QED BY <1>3, <1>14, <1>18, <1>19, <2>1 DEF Locals
<1>35. Types'
  <2>1. text \in Seq(BitT) /\ outDef \in 0 .. Len(text) /\ outRels \in Seq(Int) /\ jmp_ret \in Nat /\ pads \in Seq(Int)
    BY <1>1 DEF Types
  <2> QED BY <1>5, <1>17, <1>20, <1>23, <1>24, <1>25, <1>34, <2>1 DEF Types, Phases
<1>36. PassInv'
  <2>1. i + 1 <= N + 1 /\ Len(jmps') = N
    BY <1>7, <1>24
  <2>2. Len(cs') = y + D /\ y <= Len(c)
    <3>1. P = Q + (0 - (Q - P)) /\ Q = y + d
      <4>1. /\ Q = Len(cs) + y - v /\ Len(cs) = v + d /\ v \in Int /\ y \in Int /\ d \in Int
            /\ P \in Int /\ Q \in Int
        BY <1>3, <1>4, <1>6, <1>13, <1>14, SMTT(30)
      <4> QED BY ONLY <4>1
    <3>2. /\ d \in Int /\ P \in Int /\ Q \in Int /\ y \in Int /\ y <= Len(c) /\ Len(cs') = P
          /\ D = d + (0 - (Q - P))
      BY <1>4, <1>13, <1>14, <1>17, <1>22
    <3> QED BY ONLY <3>1, <3>2
  <2>3. outDef = Len(text)
    BY <1>1 DEF PassInv
  <2> QED BY <1>5, <1>6, <1>19, <1>20, <1>22, <2>1, <2>2, <2>3 DEF PassInv
<1>37. TablesInv'
  BY <1>17, <1>19, <1>20, <1>23, <1>24, <1>28, <1>31 DEF TablesInv
<1>38. PadInv'
  BY <1>1, <1>5, <1>20 DEF CodeInv, PadInv
<1>39. LabInv'
  <2>1. Given \subseteq DOMAIN lab_loc /\ \A j \in DOMAIN jmps : jmps[j].dst <= Len(ic) + 1
    BY <1>1 DEF CodeInv, LabInv
  <2> QED BY <1>5, <1>24, <1>25, <1>26, <2>1 DEF LabInv
<1>40. RetInv'
  BY <1>20 DEF RetInv
<1>41. CodeInv'
  <2>1. CodeAt(ic, Virtual, There, Beside, VRels)' /\ (pc # "idle" => JumpsAt(ic, Virtual, There, VJmps, Field))'
    BY <1>5, <1>26, <1>32, <1>33 DEF s2
  <2>2. Complies(ic')
    BY <1>5, <1>8
  <2> QED BY <1>37, <1>38, <1>39, <1>40, <2>1, <2>2 DEF CodeInv
<1>42. ShrinksAt(P, Q)
  <2>1. Splices(P, Q, 0)
    BY <1>21, <1>31 DEF Splices, s, s2
  <2>2. P = VJmps[loc.i] + loc.sz[loc.i] /\ Q = VJmps[loc.i] + SIZE_W
    BY DEF P, Q, i, z
  <2>3. VJmps[loc.i] = jmps[loc.i].off + Shift /\ loc.sz[loc.i] \in 1 .. SIZE_W /\ Field[loc.i] = SIZE_W
    BY <1>6, <1>9, <1>10, <1>12 DEF i, z, this
  <2>4. Len(cs) <= VJmps[loc.i]
    <3>1. i \in 1 .. N /\ i >= i
      BY <1>7
    <3> QED BY <1>8, <3>1 DEF i
  <2>5. loc'.lab = Stop({l \in DOMAIN lab_loc : lab_loc[l] <= jmps[loc.i].off}, loc.lab, LastLab)
    BY <1>19 DEF lab, this, i
  <2>6. Len(cs') = P /\ Shift' = Shift + (0 - (Q - P))
    BY <1>6, <1>17, <1>22
  <2> QED BY <2>1, <2>2, <2>3, <2>4, <2>5, <2>6 DEF ShrinksAt
<1> QED BY <1>35, <1>36, <1>41, <1>42 DEF LayoutInv

\* No jump is left to move.
LEMMA ShrinkDoneKeeps ==
    ASSUME LayoutInv, ShrinkDone
    PROVE  LayoutInv' /\ Stays
<1> DEFINE d == -loc.diff
           s == Virtual
           N == Len(rels)
           M == Len(jmps)
           l == ShiftLabs(loc.lab, LastLab + 1, d)
<1>1. Types /\ PassInv /\ CodeInv /\ pc = "shrink" /\ loc.i = M + 1
  BY DEF LayoutInv, ShrinkDone
<1>2. /\ cs \in Seq(BitT) /\ rels \in Seq(Int) /\ jmps \in Seq([off : Int, dst : Nat]) /\ Labels(lab_loc)
  BY <1>1 DEF Types
<1>3. /\ loc.c \in Seq(BitT) /\ loc.prev \in Nat /\ loc.diff \in Int /\ loc.rel \in Nat /\ loc.sz \in Seq(Nat)
  BY <1>1 DEF Types, Locals
<1>4. d \in Int
  BY <1>3
<1>5. /\ rels' = ShiftRels(loc.rel, N + 1, d) /\ lab_loc' = [l EXCEPT ![LAB_RET] = @ - loc.diff]
      /\ cs' = cs \o Cut(loc.c, loc.prev, Len(loc.c))
      /\ loc' = [NoLocals EXCEPT !.sz = loc.sz] /\ pc' = "write" /\ ic' = ic /\ jmps' = jmps /\ pads' = pads
      /\ jmp_ret' = jmp_ret /\ text' = text /\ outDef' = outDef /\ outRels' = outRels
  BY DEF ShrinkDone, outs
<1>6. /\ s = cs' /\ Shift = d /\ loc.prev <= Len(loc.c)
      /\ VRels = Ahead(rels, loc.rel, d) /\ VJmps = Ahead(Offs, M + 1, d)
      /\ loc.sz \in [1 .. M -> {SIZE_B * k : k \in 1 .. Sizes}]
  BY <1>1, <1>5 DEF Virtual, Shift, VRels, VJmps, PassInv
<1>7. cs' \in Seq(BitT)
  <2>1. cs \o Cut(loc.c, loc.prev, Len(loc.c)) \in Seq(BitT)
    BY <1>2, <1>3, <1>6, RestIs
  <2> QED BY <1>5, <2>1
<1>8. Labels(l) /\ DOMAIN l = DOMAIN lab_loc
  <2> HIDE DEF d
  <2> QED BY <1>2, <1>4, LabsShift
<1> HIDE DEF d, s, l
<1>9. Labels(lab_loc') /\ DOMAIN lab_loc' = DOMAIN lab_loc
  <2>1. DOMAIN lab_loc' = DOMAIN l
    BY <1>5
  <2>2. \A x \in DOMAIN l : l[x] \in Int
    BY <1>8 DEF Labels
  <2>3. ASSUME NEW x \in DOMAIN l
        PROVE  lab_loc'[x] \in Int
    <3>1. lab_loc'[x] = IF x = LAB_RET THEN l[x] - loc.diff ELSE l[x]
      BY <1>5
    <3> QED BY <1>3, <2>2, <3>1
  <2> QED BY <1>8, <2>1, <2>3 DEF Labels
<1>10. /\ rels' \in Seq(Int) /\ Len(rels') = N /\ rels' = Shifted(rels, loc.rel, N + 1, d)
       /\ DOMAIN rels = 1 .. N /\ N \in Nat /\ IntTable(rels)
  BY <1>2, <1>4, <1>5, RelsShift
<1> HIDE DEF N
<1>11. rels' = VRels
  BY <1>6, <1>10, ShiftedToTheEnd
<1>12. Offs' = Offs /\ Offs = VJmps
  <2>1. Offs' = Offs
    BY <1>5 DEF Offs
  <2>2. /\ Offs = [r \in 1 .. M |-> Offs[r]] /\ DOMAIN Offs = 1 .. M /\ M \in Nat
        /\ \A r \in 1 .. M : Offs[r] \in Int
    BY <1>2, OffsAre DEF Offs
  <2>3. \A r \in 1 .. M : ~ (r >= M + 1)
    BY <2>2
  <2>4. \A r \in 1 .. M : Offs[r] + 0 = Offs[r]
    BY <2>2
  <2>5. VJmps = [r \in 1 .. M |-> Offs[r] + 0]
    BY <1>6, <2>2, <2>3 DEF Ahead
  <2> QED BY <2>1, <2>2, <2>4, <2>5
<1>13. loc' = [c |-> <<>>, i |-> 1, prev |-> 0, diff |-> 0, rel |-> 1, jmp |-> 1, lab |-> LAB_RET + 1, sz |-> loc.sz]
  BY <1>5 DEF NoLocals
<1>14. Types'
  <2>1. /\ text \in Seq(BitT) /\ outDef \in 0 .. Len(text) /\ outRels \in Seq(Int) /\ jmp_ret \in Nat
        /\ pads \in Seq(Int)
    BY <1>1 DEF Types
  <2>2. <<>> \in Seq(BitT) /\ loc'.lab = LAB_RET + 1
    BY <1>13
  <2>3. loc' \in Locals'
    BY <1>3, <1>13, <2>2 DEF Locals
  <2> QED BY <1>2, <1>5, <1>7, <1>9, <1>10, <2>1, <2>3 DEF Types, Phases
<1>15. /\ loc'.c = <<>> /\ loc'.prev = 0 /\ loc'.diff = 0 /\ loc'.i = 1 /\ loc'.sz = loc.sz
  BY <1>13
<1>16. PassInv'
  <2>1. outDef = Len(text)
    BY <1>1 DEF PassInv
  <2>2. 1 <= Len(jmps) + 1
    BY <1>2
  <2> QED BY <1>5, <1>6, <1>15, <2>1, <2>2 DEF PassInv
<1>17. Virtual' = s /\ VRels' = VRels /\ VJmps' = VJmps
  BY <1>5, <1>6, <1>11, <1>12, <1>14, <1>16, StandingNext
<1>18. There' = There /\ Beside' = Beside /\ Given' = Given
  BY <1>1, <1>5 DEF There, Beside, Given
<1>19. Field' = Field
  <2>1. DOMAIN jmps = 1 .. M /\ M \in Nat
    BY <1>2
  <2>2. \A j \in DOMAIN jmps : j < M + 1
    BY <2>1
  <2> HIDE DEF M
  <2> QED BY <1>1, <1>5, <1>15, <2>2 DEF Field
<1>20. CodeInv'
  <2>1. CodeAt(ic, s, There, Beside, VRels) /\ JumpsAt(ic, s, There, VJmps, Field) /\ Complies(ic)
    BY <1>1 DEF CodeInv, s
  <2>2. CodeAt(ic, Virtual, There, Beside, VRels)' /\ (pc # "idle" => JumpsAt(ic, Virtual, There, VJmps, Field))'
    BY <1>5, <1>17, <1>18, <1>19, <2>1
  <2>3. TablesInv' /\ RetInv'
    BY <1>5 DEF TablesInv, RetInv
  <2>4. PadInv'
    BY <1>1, <1>5 DEF CodeInv, PadInv
  <2>5. LabInv'
    BY <1>1, <1>5, <1>9, <1>18 DEF CodeInv, LabInv
  <2>6. Complies(ic')
    BY <1>5, <2>1
  <2> QED BY <2>2, <2>3, <2>4, <2>5, <2>6 DEF CodeInv
<1>21. Stays
  BY <1>17, <1>19 DEF Stays, s
<1> QED BY <1>14, <1>16, <1>20, <1>21 DEF LayoutInv

-----------------------------------------------------------------------------
(* The jumps are written, and the code goes out.                           *)

\* Writing what is not real keeps code and jumps.
LEMMA OverwrittenCode ==
    ASSUME NEW s, NEW s2, Overwritten(s, s2), NEW c, NEW n,
           \A b \in SymBits(c, n) \cup HeadBits(c, n) : Real(b),
           NEW bs, NEW R, CodeAt(c, s, n, bs, R), NEW J, NEW F, JumpsAt(c, s, n, J, F)
    PROVE  CodeAt(c, s2, n, bs, R) /\ JumpsAt(c, s2, n, J, F)
<1>1. JumpsAt(c, s2, n, J, F)
  BY OverwrittenJumps
<1>2. /\ Reals(s2) = Reals(s) /\ (Ordered(c, s) => Ordered(c, s2)) /\ s2 \in Seq(BitT)
      /\ (Hits(R, s, SymBits(c, n)) => Hits(R, s2, SymBits(c, n)))
  BY OverwrittenKeeps DEF Overwritten
<1> QED BY <1>1, <1>2 DEF CodeAt

\* Writing the next jump keeps the invariant.
LEMMA WriteKeeps ==
    ASSUME LayoutInv, WriteJump
    PROVE  LayoutInv' /\ Virtual = cs /\ Virtual' = cs' /\ Overwritten(cs, cs')
<1> DEFINE i   == loc.i
           off == jmps[i].off
           sz  == loc.sz[i]
           t   == Imm(sz \div SIZE_B - 1, SZ_SZ)
           u   == Imm(Distance(i), sz)
           s1  == Over(cs, off - SZ_SZ, t)
           s2  == Over(s1, off, u)
<1>1. Types /\ PassInv /\ CodeInv /\ pc = "write" /\ i <= Len(jmps)
  BY DEF LayoutInv, WriteJump
<1>2. /\ cs \in Seq(BitT) /\ rels \in Seq(Int) /\ jmps \in Seq([off : Int, dst : Nat]) /\ Labels(lab_loc)
      /\ loc \in Locals
  BY <1>1 DEF Types
<1>3. i \in Nat \ {0} /\ loc.sz \in Seq(Nat)
  BY <1>1 DEF Types, Locals
<1>4. /\ cs' = s2 /\ loc' = [loc EXCEPT !.i = @ + 1] /\ pc' = pc
      /\ ic' = ic /\ jmps' = jmps /\ rels' = rels /\ lab_loc' = lab_loc /\ pads' = pads
      /\ jmp_ret' = jmp_ret /\ text' = text /\ outDef' = outDef /\ outRels' = outRels
  BY DEF WriteJump, outs, tables
<1>5. Virtual = cs /\ VRels = rels /\ VJmps = Offs
  BY <1>1, Standing
<1>6. /\ CodeAt(ic, cs, There, Beside, rels) /\ JumpsAt(ic, cs, There, Offs, Field) /\ Complies(ic)
      /\ There = Len(ic) - 1
  BY <1>1, <1>5 DEF CodeInv, There
<1>7. i \in 1 .. Len(jmps) /\ DOMAIN jmps = 1 .. Len(jmps) /\ Len(jmps) \in Nat
  <2>1. Len(jmps) \in Nat /\ DOMAIN jmps = 1 .. Len(jmps)
    BY <1>2
  <2> QED BY <1>1, <1>3, <2>1
<1>8. DOMAIN Offs = 1 .. Len(jmps) /\ Offs[i] = off /\ Field[i] = sz /\ off \in Int /\ jmps[i].dst \in Nat
  <2>1. /\ DOMAIN Offs = 1 .. Len(jmps) /\ DOMAIN Field = 1 .. Len(jmps)
        /\ \A j \in 1 .. Len(jmps) : Offs[j] = jmps[j].off /\ Offs[j] \in Int /\ jmps[j].dst \in Nat
    BY <1>2, OffsAre
  <2>2. Field[i] = sz
    BY <1>1, <1>7 DEF Field
  <2> QED BY <1>7, <2>1, <2>2
<1>9. sz \in Nat /\ sz \div SIZE_B - 1 \in Int
  <2>1. sz \in {SIZE_B * k : k \in 1 .. Sizes}
    BY <1>1, <1>7 DEF PassInv
  <2>2. sz \in Nat
    BY <2>1, SizesAre
  <2>3. SIZE_B \in Nat \ {0}
    BY LayoutAssumption
  <2> HIDE DEF sz
  <2> QED BY <2>2, <2>3
<1>10. Distance(i) \in Int
  <2>1. jmps[i].dst \in 0 .. Len(ic) + 1 /\ 0 .. Len(ic) + 1 \subseteq DOMAIN lab_loc
    <3>1. Given = 0 .. Len(ic) + 1
      BY <1>1 DEF Given
    <3>2. Given \subseteq DOMAIN lab_loc /\ \A j \in DOMAIN jmps : jmps[j].dst <= Len(ic) + 1
      BY <1>1 DEF CodeInv, LabInv
    <3>3. Len(ic) \in Nat
      BY <1>6 DEF Complies
    <3> QED BY <1>7, <1>8, <3>1, <3>2, <3>3
  <2>2. lab_loc[jmps[i].dst] \in Int
    BY <1>2, <2>1 DEF Labels
  <2> HIDE DEF i
  <2>3. off \in Int /\ sz \in Int
    BY <1>8, <1>9
  <2> QED BY <2>2, <2>3 DEF Distance
<1>11. SZ_SZ \in Nat /\ t \in Seq(LitT) /\ Len(t) = SZ_SZ /\ u \in Seq(LitT) /\ Len(u) = sz
  <2>1. SZ_SZ \in Nat
    BY ConstantsAre
  <2> HIDE DEF sz
  <2> QED BY <1>9, <1>10, <2>1, ImmIs
<1> HIDE DEF i, off, sz, t, u
<1>12. /\ off - SZ_SZ \in Nat /\ off \in Nat /\ off + sz <= Len(cs) /\ Len(cs) \in Nat
       /\ \A p \in off - SZ_SZ + 1 .. off + sz : ~ Real(cs[p])
  <2>1. /\ off \in Nat /\ off - SZ_SZ - 1 \in 0 .. Len(cs) - 1 /\ off + sz <= Len(cs) /\ Len(cs) \in Nat
    BY <1>2, <1>6, <1>7, <1>8, JumpsAre
  <2>2. off - SZ_SZ \in Nat
    BY <1>11, <2>1
  <2>3. \A p \in Offs[i] - SZ_SZ + 1 .. Offs[i] + Field[i] : ~ Real(cs[p])
    BY <1>6, <1>7, <1>8 DEF JumpsAt
  <2> QED BY <1>8, <2>1, <2>2, <2>3
<1>13. Overwritten(cs, s1)
  <2> DEFINE x == off - SZ_SZ
  <2>1. x + Len(t) <= Len(cs) /\ \A p \in x + 1 .. x + Len(t) : p \in off - SZ_SZ + 1 .. off + sz
    BY <1>9, <1>11, <1>12
  <2>2. \A p \in x + 1 .. x + Len(t) : ~ Real(cs[p])
    BY <1>12, <2>1
  <2>3. x \in Nat
    BY <1>12
  <2> HIDE DEF x
  <2>4. Overwritten(cs, Over(cs, x, t))
    BY <1>2, <1>11, <2>1, <2>2, <2>3, OverIs
  <2> QED BY <2>4 DEF x
<1> HIDE DEF s1
<1>14. Overwritten(s1, s2)
  <2>1. s1 \in Seq(BitT) /\ Len(s1) = Len(cs)
    BY <1>13 DEF Overwritten
  <2>2. ASSUME NEW p \in off + 1 .. off + Len(u)
        PROVE  ~ Real(s1[p])
    <3>1. p \in off - SZ_SZ + 1 .. off + sz /\ p \in 1 .. Len(cs)
      BY <1>9, <1>11, <1>12
    <3>2. ~ Real(cs[p]) /\ p \in DOMAIN cs
      BY <1>2, <1>12, <3>1
    <3> QED BY <1>13, <3>2 DEF Overwritten
  <2> QED BY <1>11, <1>12, <2>1, <2>2, OverIs
<1> HIDE DEF s2
<1>15. \A X \in SymBits(ic, There) \cup HeadBits(ic, There) : Real(X)
  <2>1. ic \in Seq(Ins) /\ Len(ic) \in Nat /\ Len(ic) > 0
    BY <1>6 DEF Complies
  <2>2. There \in 0 .. Len(ic)
    BY <1>6, <2>1
  <2> QED BY <2>1, <2>2, TableBits
<1>16. CodeAt(ic, s2, There, Beside, rels) /\ JumpsAt(ic, s2, There, Offs, Field)
  <2>1. CodeAt(ic, s1, There, Beside, rels) /\ JumpsAt(ic, s1, There, Offs, Field)
    BY <1>6, <1>13, <1>15, OverwrittenCode
  <2> QED BY <1>14, <1>15, <2>1, OverwrittenCode
<1>17. s2 \in Seq(BitT)
  BY <1>14 DEF Overwritten
<1>18. /\ loc' \in Locals' /\ loc'.i = loc.i + 1 /\ loc'.c = loc.c /\ loc'.prev = loc.prev
       /\ loc'.diff = loc.diff /\ loc'.rel = loc.rel /\ loc'.jmp = loc.jmp /\ loc'.sz = loc.sz
  BY <1>2, <1>4, LocNext
<1>19. Types'
  <2>1. /\ text \in Seq(BitT) /\ outDef \in 0 .. Len(text) /\ outRels \in Seq(Int) /\ jmp_ret \in Nat
        /\ pads \in Seq(Int) /\ pc \in Phases
    BY <1>1 DEF Types
  <2> QED BY <1>2, <1>4, <1>17, <1>18, <2>1 DEF Types
<1>20. PassInv'
  <2>1. /\ outDef = Len(text) /\ loc.c = <<>> /\ loc.prev = 0 /\ loc.diff = 0
        /\ loc.sz \in [1 .. Len(jmps) -> {SIZE_B * k : k \in 1 .. Sizes}]
    BY <1>1 DEF PassInv
  <2>2. loc.i + 1 <= Len(jmps) + 1
    BY <1>7 DEF i
  <2> QED BY <1>1, <1>4, <1>18, <2>1, <2>2 DEF PassInv
<1>21. Virtual' = s2 /\ VRels' = rels /\ VJmps' = Offs
  <2>1. Virtual' = cs' /\ VRels' = rels' /\ VJmps' = Offs'
    BY <1>1, <1>4, <1>19, <1>20, StandingNext
  <2>2. Offs' = Offs
    BY <1>4 DEF Offs
  <2> QED BY <1>4, <2>1, <2>2
<1>22. There' = There /\ Beside' = Beside /\ Given' = Given /\ Field' = Field
  BY <1>1, <1>4, <1>18 DEF There, Beside, Given, Field
<1>23. CodeInv'
  <2>1. CodeAt(ic, Virtual, There, Beside, VRels)' /\ (pc # "idle" => JumpsAt(ic, Virtual, There, VJmps, Field))'
    BY <1>4, <1>16, <1>21, <1>22
  <2>2. TablesInv' /\ RetInv'
    BY <1>1, <1>4 DEF TablesInv, RetInv
  <2>3. PadInv'
    BY <1>1, <1>4 DEF CodeInv, PadInv
  <2>4. LabInv'
    BY <1>1, <1>4, <1>22 DEF CodeInv, LabInv
  <2>5. Complies(ic')
    BY <1>4, <1>6
  <2> QED BY <2>1, <2>2, <2>3, <2>4, <2>5 DEF CodeInv
<1>24. Virtual = cs /\ Virtual' = cs' /\ Overwritten(cs, cs')
  BY <1>4, <1>5, <1>13, <1>14, <1>21 DEF Overwritten
<1> QED BY <1>19, <1>20, <1>23, <1>24 DEF LayoutInv


\* The code goes out, with padding behind it, and nothing moves.
LEMMA CodeKeeps ==
    ASSUME LayoutInv, Code
    PROVE  LayoutInv' /\ \E n : EndsWith(n)
<1> DEFINE l == Len(cs)
           t == Pad(l)
           v == cs \o t
           x == Len(text)
<1>1. Types /\ PassInv /\ CodeInv /\ pc = "write"
  BY DEF LayoutInv, Code
<1>2. /\ cs \in Seq(BitT) /\ rels \in Seq(Int) /\ text \in Seq(BitT) /\ Labels(lab_loc) /\ jmp_ret \in Nat
      /\ outDef = x
  BY <1>1 DEF Types, PassInv
<1>3. /\ pc' = "idle" /\ text' = text \o cs \o t /\ outRels' = [r \in DOMAIN rels |-> rels[r] + x]
      /\ cs' = <<>> /\ rels' = <<>> /\ jmps' = <<>> /\ pads' = <<>> /\ loc' = NoLocals
      /\ ic' = ic /\ lab_loc' = lab_loc /\ jmp_ret' = jmp_ret /\ outDef' = outDef
  BY DEF Code
<1>4. Virtual = cs /\ VRels = rels
  BY <1>1, Standing
<1>5. CodeAt(ic, cs, There, Beside, rels) /\ Complies(ic) /\ There = Len(ic) - 1
  BY <1>1, <1>4 DEF CodeInv, There
<1>6. l \in Nat /\ x \in Nat /\ t \in Seq(LitT) /\ t \in Seq(BitT) /\ Len(t) \in Nat
  <2>1. l \in Nat /\ x \in Nat
    BY <1>2
  <2>2. t \in Seq(LitT) /\ Len(t) \in Nat
    BY <2>1, PadIs
  <2> HIDE DEF t
  <2>3. t \in Seq(BitT)
    BY <2>2 DEF BitT
  <2> QED BY <2>1, <2>2, <2>3
<1> HIDE DEF t
<1>7. Spliced(cs, v, l, l, Len(t))
  <2>1. /\ l <= l /\ l <= Len(cs) /\ <<>> \in Seq(BitT) /\ Len(cs) = l /\ Len(<<>>) = Len(cs) - l
        /\ \A p \in l + 1 .. l : ~ Real(cs[p])
        /\ \A p \in 1 .. Len(cs) - l : <<>>[p] = cs[l + p]
    BY <1>6
  <2> HIDE DEF l
  <2>2. Spliced(cs, (cs \o t) \o <<>>, l, l, Len(t))
    BY <1>2, <1>6, <2>1, SpliceIs
  <2>3. (cs \o t) \o <<>> = v
    <3>1. v \in Seq(BitT)
      BY <1>2, <1>6, JoinIs
    <3> HIDE DEF v
    <3> QED BY <3>1 DEF v
  <2> QED BY <2>2, <2>3
<1>8. /\ v \in Seq(BitT) /\ Len(v) \in Nat /\ text' = text \o v
  <2>1. v \in Seq(BitT)
    BY <1>2, <1>6, JoinIs
  <2>2. text \o cs \o t = text \o v
    BY <1>2, <1>6
  <2> QED BY <1>3, <2>1, <2>2
<1> HIDE DEF v
<1>9. /\ text' \in Seq(BitT) /\ Len(text') = x + Len(v) /\ Len(text') \in Nat
      /\ \A p \in x + 1 .. x + Len(v) : text'[p] = v[p - x]
  BY <1>2, <1>6, <1>8, JoinIs
<1> HIDE DEF x
<1>10. Cut(text', x, Len(text')) = v
  <2> DEFINE y == Len(text')
             w == Cut(text', x, y)
  <2>1. x <= y /\ y <= Len(text') /\ y \in Nat /\ y - x = Len(v)
    BY <1>6, <1>8, <1>9
  <2> HIDE DEF y
  <2>2. w \in Seq(BitT) /\ Len(w) = y - x /\ \A j \in 1 .. y - x : w[j] = text'[x + j]
    <3>1. PICK u : u = text'
      OBVIOUS
    <3>2. u \in Seq(BitT) /\ x \in Nat /\ y \in Nat /\ x <= y /\ y <= Len(u)
      BY <1>6, <1>9, <2>1, <3>1
    <3>3. /\ Cut(u, x, y) \in Seq(BitT) /\ Len(Cut(u, x, y)) = y - x
          /\ \A j \in 1 .. y - x : Cut(u, x, y)[j] = u[x + j]
      BY <3>2, CutIs
    <3> QED BY <3>1, <3>3
  <2> HIDE DEF w
  <2>3. ASSUME NEW j \in 1 .. Len(v)
        PROVE  w[j] = v[j]
    <3>1. x + j \in x + 1 .. x + Len(v) /\ (x + j) - x = j
      BY <1>6, <1>8
    <3>2. text'[x + j] = v[j]
      BY <1>9, <3>1
    <3> QED BY <2>1, <2>2, <3>2
  <2>4. w = v
    BY <1>8, <2>1, <2>2, <2>3
  <2> QED BY <2>4 DEF w, y
<1>11. Virtual' = v
  BY <1>2, <1>3, <1>10 DEF Virtual
<1>12. /\ DOMAIN outRels' = DOMAIN rels /\ VRels' = rels /\ outRels' \in Seq(Int)
  <2>1. DOMAIN rels = 1 .. Len(rels) /\ \A r \in DOMAIN rels : rels[r] \in Int
    BY <1>2
  <2>2. \A r \in DOMAIN rels : outRels'[r] = rels[r] + x /\ outRels'[r] \in Int
    BY <1>3, <1>6, <2>1
  <2>3. outRels' = [r \in DOMAIN rels |-> outRels'[r]] /\ DOMAIN outRels' = DOMAIN rels
    BY <1>3
  <2>4. outRels' \in Seq(Int)
    BY <1>2, <2>2, <2>3, IntSeq
  <2>5. \A r \in DOMAIN rels : outRels'[r] - x = rels[r]
    BY <1>6, <2>1, <2>2
  <2>6. VRels' = [r \in DOMAIN rels |-> outRels'[r] - x]
    BY <1>2, <1>3, <2>3 DEF VRels
  <2>7. rels = [r \in DOMAIN rels |-> rels[r]]
    BY <1>2
  <2> QED BY <2>3, <2>4, <2>5, <2>6, <2>7
<1>13. There' = There /\ Beside' = Beside
  BY <1>1, <1>3 DEF There, Beside
<1>14. CodeAt(ic, v, There, Beside, rels)
  <2>1. \A X \in SymBits(ic, There) : Real(X)
    <3>1. ic \in Seq(Ins) /\ Len(ic) \in Nat /\ Len(ic) > 0
      BY <1>5 DEF Complies
    <3>2. There \in 0 .. Len(ic)
      BY <1>5, <3>1
    <3> QED BY <3>1, <3>2, TableBits
  <2>2. Hits(rels, cs, SymBits(ic, There))
    BY <1>5 DEF CodeAt
  <2>3. ASSUME NEW r \in DOMAIN rels
        PROVE  rels[r] = Moved(rels[r], l, l, Len(t))
    <3>1. rels[r] \in 0 .. Len(cs) - 1
      BY <2>2 DEF Hits, Places
    <3>2. rels[r] < l
      BY <1>6, <3>1
    <3> QED BY <3>2 DEF Moved
  <2>4. Hits(rels, v, SymBits(ic, There))
    <3>1. DOMAIN rels = DOMAIN rels
      OBVIOUS
    <3> HIDE DEF l
    <3> QED BY <1>7, <2>1, <2>2, <2>3, <3>1, SplicedHits
  <2> HIDE DEF l
  <2> QED BY <1>5, <1>7, <2>4, SplicedCode
<1>15. loc' = [c |-> <<>>, i |-> 1, prev |-> 0, diff |-> 0, rel |-> 1, jmp |-> 1, lab |-> LAB_RET + 1, sz |-> <<>>]
  BY <1>3 DEF NoLocals
<1>16. Types'
  <2>1. loc' \in Locals' /\ <<>> \in Seq(Int) /\ <<>> \in Seq(BitT) /\ <<>> \in Seq([off : Int, dst : Nat])
    BY <1>15 DEF Locals
  <2>2. outDef \in 0 .. Len(text')
    BY <1>2, <1>6, <1>8, <1>9
  <2> QED BY <1>2, <1>3, <1>9, <1>12, <2>1, <2>2 DEF Types, Phases
<1>17. PassInv'
  BY <1>3, <1>15 DEF PassInv
<1>18. CodeInv'
  <2>1. CodeAt(ic, Virtual, There, Beside, VRels)'
    BY <1>3, <1>11, <1>12, <1>13, <1>14
  <2>2. TablesInv' /\ RetInv' /\ LabInv'
    BY <1>3 DEF TablesInv, RetInv, LabInv
  <2>3. PadInv'
    BY <1>3 DEF PadInv
  <2>4. Complies(ic')
    BY <1>3, <1>5
  <2> QED BY <1>3, <2>1, <2>2, <2>3, <2>4 DEF CodeInv
<1>19. EndsWith(Len(t))
  BY <1>4, <1>7, <1>8, <1>11 DEF EndsWith, t
<1> QED BY <1>16, <1>17, <1>18, <1>19 DEF LayoutInv

-----------------------------------------------------------------------------
(* The invariant holds.                                                    *)

\* There is nothing yet.
LEMMA LayoutHolds == Init => LayoutInv
<1> SUFFICES ASSUME Init PROVE LayoutInv
  OBVIOUS
<1>1. /\ pc = "idle" /\ cs = <<>> /\ lab_loc = [l \in {} |-> 0] /\ jmps = <<>> /\ rels = <<>> /\ pads = <<>>
      /\ jmp_ret = 0 /\ text = <<>> /\ outDef = 0 /\ outRels = <<>> /\ funcs = 0
  BY DEF Init
<1>2. loc = [c |-> <<>>, i |-> 1, prev |-> 0, diff |-> 0, rel |-> 1, jmp |-> 1, lab |-> LAB_RET + 1, sz |-> <<>>]
  BY DEF Init, NoLocals
<1>3. Labels(lab_loc)
  BY <1>1 DEF Labels
<1>4. Types
  <2>1. /\ <<>> \in Seq(Int) /\ <<>> \in Seq(BitT) /\ <<>> \in Seq([off : Int, dst : Nat])
        /\ 0 \in 0 .. Len(<<>>)
    OBVIOUS
  <2>2. loc \in Locals
    BY <1>2 DEF Locals
  <2> QED BY <1>1, <1>3, <2>1, <2>2 DEF Types, Phases
<1>5. PassInv
  BY <1>1, <1>2 DEF PassInv
<1> QED BY <1>1, <1>4, <1>5 DEF LayoutInv

\* Every step keeps it.
LEMMA LayoutKept == LayoutInv /\ [Next]_vars => LayoutInv'
<1> SUFFICES ASSUME LayoutInv, [Next]_vars PROVE LayoutInv'
  OBVIOUS
<1>1. ASSUME NEW s \in Sources \cup More, GetCode(s)
      PROVE  LayoutInv'
  BY <1>1, GetCodeKeeps
<1>2. CASE Emit
  BY <1>2, EmitKeeps
<1>3. CASE Generated
  BY <1>3, GeneratedKeeps
<1>4. ASSUME NEW f \in Frames, Wrap(f)
      PROVE  LayoutInv'
  BY <1>4, WrapKeeps
<1>5. CASE AlignStep
  BY <1>5, AlignKeeps
<1>6. CASE AlignDone
  BY <1>6, AlignDoneKeeps
<1>7. CASE JumpSizes
  BY <1>7, JumpSizesKeeps
<1>8. CASE ShrinkStep
  BY <1>8, ShrinkKeeps
<1>9. CASE ShrinkDone
  BY <1>9, ShrinkDoneKeeps
<1>10. CASE WriteJump
  BY <1>10, WriteKeeps
<1>11. CASE Code
  BY <1>11, CodeKeeps
<1>12. CASE UNCHANGED vars
  BY <1>12, StutterKeeps
<1>13. Compiled => UNCHANGED vars
  BY DEF Compiled
<1> QED BY <1>1, <1>2, <1>3, <1>4, <1>5, <1>6, <1>7, <1>8, <1>9, <1>10, <1>11, <1>12, <1>13 DEF Next

\* At every step of every function, the code that is written and the code that
\* is still to come make the code of the instructions so far, in order, and the
\* tables of relocations and of jumps have their places in it.
THEOREM LayoutSound == Spec => []LayoutInv
BY LayoutHolds, LayoutKept, PTL DEF Spec

-----------------------------------------------------------------------------
(* The finished code.                                                      *)

\* The code of the last function, counted from its start.
LEMMA FinishedIs ==
    ASSUME LayoutInv, Finished
    PROVE  /\ Complies(ic) /\ CodeAt(ic, Virtual, Len(ic) - 1, {Framing(f) : f \in Frames}, VRels)
           /\ Virtual \in Seq(BitT) /\ Size = Len(Virtual) /\ Size \in Nat
           /\ \A p \in 0 .. Size - 1 : p + 1 \in DOMAIN Virtual /\ Bit(p) = Virtual[p + 1]
           /\ \A p \in DOMAIN Virtual : p - 1 \in 0 .. Size - 1 /\ Bit(p - 1) = Virtual[p]
<1>1. Types /\ CodeInv /\ pc = "idle"
  BY DEF LayoutInv, Finished
<1>2. text \in Seq(BitT) /\ outDef \in Nat /\ outDef <= Len(text) /\ Len(text) \in Nat
  BY <1>1 DEF Types
<1>3. Virtual = Cut(text, outDef, Len(text))
  BY <1>1 DEF Virtual
<1>4. /\ Virtual \in Seq(BitT) /\ Len(Virtual) = Len(text) - outDef
      /\ \A j \in 1 .. Len(text) - outDef : Virtual[j] = text[outDef + j]
  <2> DEFINE n == Len(text)
  <2>1. n \in Nat /\ n <= Len(text) /\ outDef <= n
    BY <1>2
  <2> HIDE DEF n
  <2>2. /\ Cut(text, outDef, n) \in Seq(BitT) /\ Len(Cut(text, outDef, n)) = n - outDef
        /\ \A j \in 1 .. n - outDef : Cut(text, outDef, n)[j] = text[outDef + j]
    BY <1>2, <2>1, CutIs
  <2> QED BY <1>3, <2>2 DEF n
<1>5. Size = Len(Virtual) /\ Size \in Nat
  BY <1>2, <1>4 DEF Size
<1>6. DOMAIN Virtual = 1 .. Size
  BY <1>4, <1>5
<1>7. ASSUME NEW p \in 0 .. Size - 1
      PROVE  p + 1 \in DOMAIN Virtual /\ Bit(p) = Virtual[p + 1]
  <2>1. p + 1 \in 1 .. Size /\ p + 1 \in 1 .. Len(text) - outDef /\ outDef + (p + 1) = outDef + p + 1
    BY <1>2, <1>5 DEF Size
  <2>2. Virtual[p + 1] = text[outDef + (p + 1)]
    BY <1>4, <2>1
  <2> QED BY <1>6, <2>1, <2>2 DEF Bit
<1>8. ASSUME NEW p \in DOMAIN Virtual
      PROVE  p - 1 \in 0 .. Size - 1 /\ Bit(p - 1) = Virtual[p]
  <2>1. p - 1 \in 0 .. Size - 1 /\ (p - 1) + 1 = p
    BY <1>5, <1>6
  <2> QED BY <1>7, <2>1
<1>9. There = Len(ic) - 1 /\ Beside = {Framing(f) : f \in Frames}
  BY <1>1 DEF There, Beside
<1> QED BY <1>1, <1>4, <1>5, <1>7, <1>8, <1>9 DEF CodeInv

\* The code of a finished function, of any intermediate code and any frame: the
\* passes i_wrap, i_align, i_shortjumps and i_code (cc/eh3.c) lose no bit of an
\* instruction, double none, and leave them in order.
THEOREM CodeIsWhole == Spec => []WholeCode
<1>1. LayoutInv => WholeCode
  <2> SUFFICES ASSUME LayoutInv, Finished PROVE WholeCode
    BY DEF WholeCode
  <2> DEFINE s == Virtual
             R == {b \in {Bit(p) : p \in 0 .. Size - 1} : Real(b)}
  <2>1. /\ Complies(ic) /\ CodeAt(ic, s, Len(ic) - 1, {Framing(f) : f \in Frames}, VRels)
        /\ \A p \in 0 .. Size - 1 : p + 1 \in DOMAIN s /\ Bit(p) = s[p + 1]
        /\ \A p \in DOMAIN s : p - 1 \in 0 .. Size - 1 /\ Bit(p - 1) = s[p]
    BY FinishedIs
  <2> HIDE DEF s
  <2>2. ASSUME NEW p \in 0 .. Size - 1, NEW q \in 0 .. Size - 1, p < q, Real(Bit(p)), Real(Bit(q))
        PROVE  Before(ic, Bit(p), Bit(q))
    <3>1. p + 1 < q + 1 /\ p + 1 \in DOMAIN s /\ q + 1 \in DOMAIN s
      BY <2>1, <2>2
    <3> QED BY <2>1, <2>2, <3>1 DEF CodeAt, Ordered
  <2>3. R = Reals(s)
    BY <2>1 DEF Reals
  <2>4. PICK f \in Frames : Reals(s) = Framing(f) \cup InstrBits(ic, Len(ic) - 1)
    BY <2>1 DEF CodeAt
  <2>5. InstrBits(ic, Len(ic) - 1) = UNION {BitsOf(ic, k) : k \in 0 .. Len(ic) - 2}
    <3>1. (Len(ic) - 1) - 1 = Len(ic) - 2
      BY <2>1 DEF Complies
    <3> QED BY <3>1 DEF InstrBits
  <2> HIDE DEF R
  <2>6. \E g \in Frames : R = Framing(g) \cup UNION {BitsOf(ic, k) : k \in 0 .. Len(ic) - 2}
    BY <2>3, <2>4, <2>5
  <2> QED BY <2>2, <2>6 DEF WholeCode, R
<1> QED BY <1>1, LayoutSound, PTL

\* No bit of an instruction is before itself.
LEMMA NotBefore ==
    ASSUME NEW c, NEW k \in Nat, NEW w \in Nat
    PROVE  ~ Before(c, <<k, w>>, <<k, w>>)
<1>1. <<k, w>>[1] = k /\ <<k, w>>[2] = w /\ k # Pro /\ k # Epi
  BY DEF Pro, Epi
<1>2. Rank(c, <<k, w>>) = k
  BY <1>1 DEF Rank
<1> QED BY <1>1, <1>2 DEF Before

\* The place of a bit of an instruction is the only one.
LEMMA PlaceIs ==
    ASSUME LayoutInv, Finished, NEW k \in Nat, NEW w \in Nat,
           NEW p \in 0 .. Size - 1, Bit(p) = <<k, w>>
    PROVE  LastBit(k, w) = p
<1> DEFINE s == Virtual
           b == <<k, w>>
<1>1. /\ Ordered(ic, s) /\ Size \in Nat
      /\ \A q \in 0 .. Size - 1 : q + 1 \in DOMAIN s /\ Bit(q) = s[q + 1]
  BY FinishedIs DEF CodeAt
<1> HIDE DEF s
<1>2. Real(b)
  BY DEF Real, Lit
<1>3. ~ Before(ic, b, b)
  BY NotBefore
<1> HIDE DEF b
<1>4. ASSUME NEW q \in 0 .. Size - 1, NEW r \in 0 .. Size - 1, Bit(q) = b, Bit(r) = b, q < r
      PROVE  FALSE
  <2>1. q + 1 < r + 1 /\ s[q + 1] = b /\ s[r + 1] = b /\ q + 1 \in DOMAIN s /\ r + 1 \in DOMAIN s
    BY <1>1, <1>4
  <2> QED BY <1>1, <1>2, <1>3, <2>1 DEF Ordered
<1>5. ASSUME NEW q \in 0 .. Size - 1, Bit(q) = b
      PROVE  q = p
  <2>1. Bit(p) = b
    BY DEF b
  <2>2. ~ (q < p) /\ ~ (p < q)
    BY <1>4, <1>5, <2>1
  <2> QED BY <1>1, <2>2
<1>6. LastBit(k, w) = CHOOSE q \in 0 .. Size - 1 : Bit(q) = b
  BY DEF LastBit, b
<1>7. Bit(p) = b
  BY DEF b
<1> QED BY <1>5, <1>6, <1>7

\* The relocations of a finished function are the places of the words that hold
\* its symbols (o_rel, i_wrap, i_align and i_shortjumps of cc/eh3.c), in order.
THEOREM RelocationsHit == Spec => []RelocsHit
<1>1. LayoutInv => RelocsHit
  <2> SUFFICES ASSUME LayoutInv, Finished PROVE RelocsHit
    BY DEF RelocsHit
  <2> DEFINE s    == Virtual
             syms == {k \in 0 .. Len(ic) - 1 : ic[k + 1].op \in {"movsym", "callsym"}}
             At(k) == LastBit(k, ic[k + 1].w + 1)
             n    == Len(ic) - 1
             B    == SymBits(ic, n)
  <2>1. /\ Complies(ic) /\ CodeAt(ic, s, n, {Framing(f) : f \in Frames}, VRels)
        /\ s \in Seq(BitT) /\ Size = Len(s) /\ Size \in Nat
        /\ \A p \in 0 .. Size - 1 : p + 1 \in DOMAIN s /\ Bit(p) = s[p + 1]
        /\ \A p \in DOMAIN s : p - 1 \in 0 .. Size - 1 /\ Bit(p - 1) = s[p]
    BY FinishedIs
  <2>2. Types /\ pc = "idle"
    BY DEF LayoutInv, Finished
  <2>3. /\ DOMAIN VRels = DOMAIN outRels /\ \A r \in DOMAIN outRels : outRels[r] = outDef + VRels[r] /\ VRels[r] \in Int
        /\ outDef \in Int
    <3>1. outDef \in Int /\ \A r \in DOMAIN outRels : outRels[r] \in Int
      BY <2>2 DEF Types
    <3>2. VRels = [r \in DOMAIN outRels |-> outRels[r] - outDef]
      BY <2>2 DEF VRels
    <3> QED BY <3>1, <3>2
  <2>4. ic \in Seq(Ins) /\ Len(ic) \in Nat /\ Len(ic) > 0 /\ ic[Len(ic)].op = "ret" /\ n \in Nat
    BY <2>1 DEF Complies
  <2>5. \A k \in 0 .. Len(ic) - 1 : ic[k + 1].w \in Nat
    <3>1. \A k \in 0 .. Len(ic) - 1 : ic[k + 1] \in Ins
      BY <2>4
    <3>2. \A y \in Ins : y.w \in Nat
      BY DEF Ins
    <3> QED BY <3>1, <3>2
  <2>6. syms = {k \in 0 .. n - 1 : ic[k + 1].op \in {"movsym", "callsym"}}
    <3>1. \A k \in 0 .. Len(ic) - 1 : k \in 0 .. n - 1 \/ k + 1 = Len(ic)
      BY <2>4
    <3>2. \A k \in 0 .. n - 1 : k \in 0 .. Len(ic) - 1
      BY <2>4
    <3> QED BY <2>4, <3>1, <3>2
  <2>7. B \subseteq InstrBits(ic, n)
    <3>1. n \in 0 .. Len(ic)
      BY <2>4
    <3> HIDE DEF n
    <3> QED BY <2>4, <3>1, TableBits
  <2>8. B = {<<k, ic[k + 1].w + 1>> : k \in syms}
    BY <2>6 DEF SymBits
  <2>9. ASSUME NEW k \in syms
        PROVE  At(k) \in 0 .. Size - 1 /\ s[At(k) + 1] = <<k, ic[k + 1].w + 1>>
    <3> DEFINE w == ic[k + 1].w + 1
    <3>1. k \in Nat /\ w \in Nat
      BY <2>5
    <3>2. <<k, w>> \in B
      BY <2>8
    <3> HIDE DEF w, B
    <3>3. <<k, w>> \in Reals(s)
      BY <2>1, <2>7, <3>2 DEF CodeAt
    <3>4. PICK p \in DOMAIN s : s[p] = <<k, w>>
      BY <3>3 DEF Reals
    <3>5. p - 1 \in 0 .. Size - 1 /\ Bit(p - 1) = <<k, w>>
      BY <2>1, <3>4
    <3>6. LastBit(k, w) = p - 1
      BY <3>1, <3>5, PlaceIs
    <3>7. (p - 1) + 1 = p
      BY <2>1
    <3> QED BY <3>4, <3>5, <3>6, <3>7 DEF w
  <2>10. Hits(VRels, s, B)
    BY <2>1 DEF CodeAt
  <2> HIDE DEF s, n, B
  <2>11. {VRels[r] : r \in DOMAIN VRels} = {At(k) : k \in syms}
    <3> HIDE DEF syms
    <3>1. \A k \in syms : At(k) \in Places(s, B)
      BY <2>1, <2>9, <2>8 DEF Places
    <3>2. ASSUME NEW p \in Places(s, B)
          PROVE  \E k \in syms : At(k) = p
      <4>1. p \in 0 .. Size - 1 /\ s[p + 1] \in B
        BY <2>1 DEF Places
      <4>2. PICK k \in syms : s[p + 1] = <<k, ic[k + 1].w + 1>>
        BY <2>8, <4>1
      <4>3. k \in Nat /\ ic[k + 1].w + 1 \in Nat
        BY <2>5 DEF syms
      <4>4. Bit(p) = <<k, ic[k + 1].w + 1>>
        BY <2>1, <4>1, <4>2
      <4>5. At(k) = p
        BY <4>1, <4>3, <4>4, PlaceIs
      <4> QED BY <4>5
    <3> QED BY <2>10, <3>1, <3>2 DEF Hits
  <2>12. {outRels[r] : r \in DOMAIN outRels} = {outDef + At(k) : k \in syms}
    <3> HIDE DEF syms, At
    <3>1. \A r \in DOMAIN outRels : \E k \in syms : outRels[r] = outDef + At(k)
      BY <2>3, <2>11
    <3>2. \A k \in syms : \E r \in DOMAIN outRels : outRels[r] = outDef + At(k)
      BY <2>3, <2>11, ZenonT(30)
    <3> QED BY <3>1, <3>2
  <2>13. ASSUME NEW q \in DOMAIN outRels, NEW r \in DOMAIN outRels, q < r
         PROVE  outRels[q] < outRels[r]
    <3>1. VRels[q] < VRels[r]
      BY <2>3, <2>10, <2>13 DEF Hits
    <3> QED BY <2>3, <3>1
  <2> QED BY <2>12, <2>13 DEF RelocsHit
<1> QED BY <1>1, LayoutSound, PTL

-----------------------------------------------------------------------------
(* Powers of two.                                                          *)

\* The equation of Pow2 has a solution, which Pow2 is.
LEMMA PowersAre ==
    /\ \A k \in Nat : Pow2[k] \in Nat \ {0}
    /\ Pow2[0] = 1 /\ \A k \in Nat : Pow2[k + 1] = 2 * Pow2[k]
<1> DEFINE D == [q \in Nat \X Nat |-> 2 * q[1]]
<1>1. IsStep(D, Nat)
  BY DEF IsStep
<1>2. PICK g : Iterates(g, Nat, 1, D)
  <2> HIDE DEF D
  <2> QED BY <1>1, Recursion
<1>3. g \in [Nat -> Nat] /\ g[0] = 1 /\ \A n \in Nat : g[n + 1] = 2 * g[n]
  BY <1>2 DEF Iterates
<1> HIDE DEF D
<1>4. g = [k \in Nat |-> IF k = 0 THEN 1 ELSE 2 * g[k - 1]]
  <2>1. ASSUME NEW k \in Nat
        PROVE  g[k] = IF k = 0 THEN 1 ELSE 2 * g[k - 1]
    <3>1. CASE k = 0
      BY <1>3, <3>1
    <3>2. CASE k # 0
      <4>1. k - 1 \in Nat /\ (k - 1) + 1 = k
        BY <3>2
      <4>2. g[(k - 1) + 1] = 2 * g[k - 1]
        BY <1>3, <4>1
      <4> QED BY <3>2, <4>1, <4>2
    <3> QED BY <3>1, <3>2
  <2> QED BY <1>3, <2>1
<1>5. Pow2 = [k \in Nat |-> IF k = 0 THEN 1 ELSE 2 * Pow2[k - 1]]
  BY <1>4 DEF Pow2
<1> DEFINE f == Pow2
<1>6. f = [k \in Nat |-> IF k = 0 THEN 1 ELSE 2 * f[k - 1]]
  BY <1>5
<1> HIDE DEF f
<1>7. \A k \in Nat : f[k] = IF k = 0 THEN 1 ELSE 2 * f[k - 1]
  BY <1>6
<1>8. f[0] = 1 /\ \A k \in Nat : f[k + 1] = 2 * f[k]
  <2>1. ASSUME NEW k \in Nat
        PROVE  f[k + 1] = 2 * f[k]
    <3>1. k + 1 \in Nat /\ k + 1 # 0 /\ (k + 1) - 1 = k
      OBVIOUS
    <3> QED BY <1>7, <3>1
  <2> QED BY <1>7, <2>1
<1> DEFINE S == {k \in Nat : f[k] \in Nat \ {0}}
<1>9. 0 \in S
  BY <1>8
<1>10. \A n \in Nat : n \in S => n + 1 \in S
  BY <1>8
<1>11. \A n \in Nat : n \in S
  <2> HIDE DEF S
  <2> QED BY <1>9, <1>10, NatInd
<1> QED BY <1>8, <1>11 DEF f

\* A product of powers.
LEMMA PowersAdd ==
    ASSUME NEW a \in Nat, NEW b \in Nat
    PROVE  Pow2[a + b] = Pow2[a] * Pow2[b]
<1> DEFINE S == {k \in Nat : Pow2[a + k] = Pow2[a] * Pow2[k]}
<1>1. 0 \in S
  BY PowersAre
<1>2. ASSUME NEW n \in Nat, n \in S
      PROVE  n + 1 \in S
  <2>1. PICK x, y, z : x = Pow2[a] /\ y = Pow2[n] /\ z = Pow2[a + n]
    OBVIOUS
  <2>2. x \in Nat /\ y \in Nat /\ z \in Nat /\ z = x * y
    BY <1>2, <2>1, PowersAre
  <2>3. 2 * z = x * (2 * y)
    BY <2>2
  <2>4. a + n \in Nat /\ a + (n + 1) = (a + n) + 1
    OBVIOUS
  <2>5. Pow2[a + (n + 1)] = 2 * z /\ Pow2[n + 1] = 2 * y
    BY <2>1, <2>4, PowersAre
  <2> QED BY <2>1, <2>3, <2>5
<1>3. \A n \in Nat : n \in S
  <2> HIDE DEF S
  <2> QED BY <1>1, <1>2, NatInd
<1> QED BY <1>3

\* v is a number of n bits, with its sign.
Fits(v, n) == v \in Int /\ -Pow2[n - 1] <= v /\ v < Pow2[n - 1]

\* A quotient in bounds.
LEMMA QuotientIn ==
    ASSUME NEW p \in Nat \ {0}, NEW h \in Nat, NEW v \in Int, NEW y, y = v \div p, -h <= y, y < h
    PROVE  -(p * h) <= v /\ v < p * h
<1>1. y \in Int /\ p * y <= v /\ v < p * y + p
  OBVIOUS
<1>2. p * (-h) <= p * y /\ p * (y + 1) <= p * h
  BY <1>1
<1>3. p * (-h) = -(p * h) /\ p * (y + 1) = p * y + p
  BY <1>1
<1> QED BY <1>1, <1>2, <1>3

\* What imm_size accepts.
LEMMA FitsInIs ==
    ASSUME NEW v \in Int, NEW k \in 1 .. Sizes, FitsIn(v, k)
    PROVE  Fits(v, SIZE_B * k)
<1>1. SIZE_B \in Nat \ {0} /\ Sizes \in Nat /\ k \in Nat \ {0}
  BY LayoutAssumption
<1>2. PICK b : b = SIZE_B * (k - 1)
  OBVIOUS
<1>3. b \in Nat /\ b + (SIZE_B - 1) = SIZE_B * k - 1 /\ SIZE_B - 1 \in Nat
  BY <1>1, <1>2
<1>4. PICK p, h : p = Pow2[b] /\ h = Pow2[SIZE_B - 1]
  OBVIOUS
<1>5. p \in Nat \ {0} /\ h \in Nat /\ Pow2[SIZE_B * k - 1] = p * h
  BY <1>3, <1>4, PowersAre, PowersAdd
<1>6. PICK y : y = v \div p
  OBVIOUS
<1>7. -h <= y /\ y < h
  BY <1>2, <1>4, <1>6 DEF FitsIn
<1>8. -(p * h) <= v /\ v < p * h
  BY <1>5, <1>6, <1>7, QuotientIn
<1> QED BY <1>5, <1>8 DEF Fits

-----------------------------------------------------------------------------
(* Reading bits.                                                           *)

\* A remainder is the only one.
LEMMA RemainderIs ==
    ASSUME NEW v \in Int, NEW p \in Nat \ {0}, NEW q \in Int, NEW r \in Int, v = p * q + r, 0 <= r, r < p
    PROVE  v % p = r /\ v \div p = q
OBVIOUS

\* One more bit.
LEMMA NextBit ==
    ASSUME NEW v \in Int, NEW p \in Nat \ {0}
    PROVE  v % (2 * p) = (v % p) + ((v \div p) % 2) * p
<1>1. PICK q, r : q = v \div p /\ r = v % p
  OBVIOUS
<1>2. q \in Int /\ r \in Int /\ v = p * q + r /\ 0 <= r /\ r < p
  BY <1>1
<1>3. PICK d, b : d = q \div 2 /\ b = q % 2
  OBVIOUS
<1>4. d \in Int /\ b \in {0, 1} /\ q = 2 * d + b
  BY <1>2, <1>3
<1>5. p * q = (2 * p) * d + b * p
  <2>1. p * q = p * (2 * d + b)
    BY <1>4
  <2>2. p * (2 * d + b) = (2 * p) * d + b * p
    BY <1>4
  <2> QED BY <2>1, <2>2
<1>6. PICK e : e = b * p + r
  OBVIOUS
<1>7. e \in Int /\ 0 <= e /\ e < 2 * p
  BY <1>2, <1>4, <1>6
<1>8. v = (2 * p) * d + e
  BY <1>2, <1>4, <1>5, <1>6
<1>9. v % (2 * p) = e
  <2>1. PICK m : m = 2 * p
    OBVIOUS
  <2>2. m \in Nat \ {0}
    BY <2>1
  <2> QED BY ONLY <1>4, <1>7, <1>8, <2>1, <2>2, RemainderIs, v \in Int
<1>10. (v % p) + ((v \div p) % 2) * p = r + b * p
  BY <1>1, <1>3, Zenon
<1>11. e = r + b * p
  BY <1>2, <1>4, <1>6
<1> QED BY <1>9, <1>10, <1>11, Zenon

\* The highest bit of a number is its sign.
LEMMA SignBit ==
    ASSUME NEW v \in Int, NEW h \in Nat \ {0}, -h <= v, v < h
    PROVE  v = IF (v \div h) % 2 = 1 THEN (v % (2 * h)) - 2 * h ELSE v % (2 * h)
<1>1. CASE v >= 0
  <2>1. v \div h = 0
    <3>1. v = h * 0 + v
      OBVIOUS
    <3> QED BY <1>1, <3>1, RemainderIs
  <2>2. v % (2 * h) = v
    <3>1. PICK m : m = 2 * h
      OBVIOUS
    <3>2. m \in Nat \ {0} /\ v = m * 0 + v /\ v < m
      BY <3>1
    <3> QED BY <1>1, <3>1, <3>2, RemainderIs
  <2> QED BY <2>1, <2>2
<1>2. CASE v < 0
  <2>1. v \div h = -1
    <3>1. v = h * (-1) + (v + h) /\ v + h \in Int /\ 0 <= v + h /\ v + h < h
      BY <1>2
    <3> QED BY <3>1, RemainderIs
  <2>2. v % (2 * h) = v + 2 * h
    <3>1. PICK m, e : m = 2 * h /\ e = v + 2 * h
      OBVIOUS
    <3>2. m \in Nat \ {0} /\ v = m * (-1) + e /\ e < m /\ 0 <= e /\ e \in Int
      BY <1>2, <3>1
    <3> QED BY <3>1, <3>2, RemainderIs
  <2>3. ((-1) % 2) = 1
    <3>1. PICK m, p, r : m = -1 /\ p = 2 /\ r = 1
      OBVIOUS
    <3>2. m \in Int /\ p \in Nat \ {0} /\ r \in Int /\ m = p * m + r /\ 0 <= r /\ r < p
      BY <3>1
    <3>3. m % p = r
      BY ONLY <3>2, RemainderIs
    <3> QED BY <3>1, <3>3, Zenon
  <2> QED BY <2>1, <2>2, <2>3
<1> QED BY <1>1, <1>2

\* B holds the lowest n bits of v; the equation of the sum of bits.
BitsAre(B, v, n)  == \A k \in 1 .. n : B[k] = (v \div Pow2[k - 1]) % 2
SumFrom(B, n, f)  == [k \in 0 .. n |-> IF k = 0 THEN 0 ELSE f[k - 1] + B[k] * Pow2[k - 1]]

\* The sum of the bits is the number, as far as they reach.
LEMMA SumIs ==
    ASSUME NEW v \in Int, NEW n \in Nat, NEW B, BitsAre(B, v, n),
           NEW s, s = CHOOSE f : f = SumFrom(B, n, f)
    PROVE  \A k \in 0 .. n : s[k] = v % Pow2[k]
<1>1. ASSUME NEW k \in Nat, k < n
      PROVE  (v % Pow2[k]) + B[k + 1] * Pow2[k] = v % Pow2[k + 1]
  <2>1. PICK p : p = Pow2[k]
    OBVIOUS
  <2>2. p \in Nat \ {0} /\ Pow2[k + 1] = 2 * p
    BY <2>1, PowersAre
  <2>3. v % (2 * p) = (v % p) + ((v \div p) % 2) * p
    BY <2>2, NextBit
  <2>4. k + 1 \in 1 .. n /\ (k + 1) - 1 = k
    BY <1>1
  <2>5. B[k + 1] = (v \div p) % 2
    BY <2>1, <2>4 DEF BitsAre
  <2> QED BY <2>1, <2>2, <2>3, <2>5
<1>2. v % Pow2[0] = 0
  BY PowersAre
<1> DEFINE g == [k \in 0 .. n |-> v % Pow2[k]]
<1>3. g = SumFrom(B, n, g)
  <2>1. ASSUME NEW k \in 0 .. n
        PROVE  g[k] = IF k = 0 THEN 0 ELSE g[k - 1] + B[k] * Pow2[k - 1]
    <3>1. CASE k = 0
      BY <1>2, <3>1
    <3>2. CASE k # 0
      <4>1. PICK m : m = k - 1
        OBVIOUS
      <4>2. m \in Nat /\ m < n /\ m + 1 = k /\ m \in 0 .. n
        BY <3>2, <4>1
      <4>3. (v % Pow2[m]) + B[m + 1] * Pow2[m] = v % Pow2[m + 1]
        BY <1>1, <4>2
      <4> QED BY <3>2, <4>1, <4>2, <4>3
    <3> QED BY <3>1, <3>2
  <2> QED BY <2>1 DEF SumFrom
<1>4. s = SumFrom(B, n, s)
  <2> HIDE DEF g
  <2> QED BY <1>3
<1>5. \A k \in 0 .. n : s[k] = IF k = 0 THEN 0 ELSE s[k - 1] + B[k] * Pow2[k - 1]
  <2>1. \A k \in 0 .. n : SumFrom(B, n, s)[k] = IF k = 0 THEN 0 ELSE s[k - 1] + B[k] * Pow2[k - 1]
    BY DEF SumFrom
  <2> QED BY <1>4, <2>1
<1> DEFINE S == {k \in Nat : k <= n => s[k] = v % Pow2[k]}
<1>6. 0 \in S
  BY <1>2, <1>5
<1>7. ASSUME NEW k \in Nat, k \in S
      PROVE  k + 1 \in S
  <2>1. CASE k + 1 <= n
    <3>1. k < n /\ k + 1 \in 0 .. n /\ k + 1 # 0 /\ (k + 1) - 1 = k /\ k + 1 \in Nat
      BY <2>1
    <3>2. s[k + 1] = s[k] + B[k + 1] * Pow2[k]
      BY <1>5, <3>1
    <3>3. s[k] = v % Pow2[k]
      BY <1>7, <3>1
    <3> QED BY <1>1, <3>1, <3>2, <3>3
  <2>2. CASE ~ (k + 1 <= n)
    BY <2>2
  <2> QED BY <2>1, <2>2
<1>8. \A k \in Nat : k \in S
  <2> HIDE DEF S
  <2> QED BY <1>6, <1>7, NatInd
<1> QED BY <1>8

\* The number in n bits, read with its sign.
LEMMA SignedAtIs ==
    ASSUME NEW v, NEW n \in Nat \ {0}, Fits(v, n), NEW p,
           \A k \in 1 .. n : Bit(p + k - 1)[2] = (v \div Pow2[k - 1]) % 2
    PROVE  SignedAt(p, n) = v
<1> DEFINE B == [k \in 1 .. n |-> Bit(p + k - 1)[2]]
           s == CHOOSE f : f = SumFrom(B, n, f)
<1>1. SumFrom(B, n, s) = SumFrom(B, n, s) /\ BitsAre(B, v, n) /\ v \in Int
  BY DEF BitsAre, Fits
<1>2. \A f : SumFrom(B, n, f)
               = [k \in 0 .. n |-> IF k = 0 THEN 0 ELSE f[k - 1] + Bit(p + k - 1)[2] * Pow2[k - 1]]
  BY DEF SumFrom
<1>3. s[n] = v % Pow2[n]
  <2> HIDE DEF B, s
  <2>1. s = CHOOSE f : f = SumFrom(B, n, f)
    BY DEF s
  <2>2. \A k \in 0 .. n : s[k] = v % Pow2[k]
    BY <1>1, <2>1, SumIs
  <2> QED BY <2>2
<1>4. SignedAt(p, n) = IF Bit(p + n - 1)[2] = 1 THEN s[n] - Pow2[n] ELSE s[n]
  <2> DEFINE g == CHOOSE f : f = [k \in 0 .. n |-> IF k = 0 THEN 0
                                                 ELSE f[k - 1] + Bit(p + k - 1)[2] * Pow2[k - 1]]
  <2>1. SignedAt(p, n) = IF Bit(p + n - 1)[2] = 1 THEN g[n] - Pow2[n] ELSE g[n]
    BY DEF SignedAt
  <2>2. g = s
    BY <1>2
  <2> HIDE DEF g, s
  <2> QED BY <2>1, <2>2, Zenon
<1>5. PICK h : h = Pow2[n - 1]
  OBVIOUS
<1>6. n - 1 \in Nat /\ (n - 1) + 1 = n
  OBVIOUS
<1>7. h \in Nat \ {0} /\ Pow2[n] = 2 * h
  BY <1>5, <1>6, PowersAre
<1>8. Bit(p + n - 1)[2] = (v \div h) % 2
  BY <1>5
<1>9. -h <= v /\ v < h
  BY <1>5 DEF Fits
<1> HIDE DEF B, s
<1>10. v = IF (v \div h) % 2 = 1 THEN (v % (2 * h)) - 2 * h ELSE v % (2 * h)
  BY <1>1, <1>7, <1>9, SignBit
<1> QED BY <1>3, <1>4, <1>7, <1>8, <1>10

\* The size of an immediate.
LEMMA SizeAtIs ==
    ASSUME NEW u \in Nat, u < Pow2[SZ_SZ], NEW p,
           \A k \in 1 .. SZ_SZ : Bit(p + k)[2] = (u \div Pow2[k - 1]) % 2
    PROVE  SizeAt(p) = SIZE_B * (u + 1)
<1> DEFINE n == SZ_SZ
           B == [k \in 1 .. n |-> Bit(p + k)[2]]
           s == CHOOSE f : f = SumFrom(B, n, f)
<1>1. BitsAre(B, u, n) /\ n \in Nat
  BY ConstantsAre DEF BitsAre
<1>2. \A f : SumFrom(B, n, f)
               = [k \in 0 .. n |-> IF k = 0 THEN 0 ELSE f[k - 1] + Bit(p + k)[2] * Pow2[k - 1]]
  BY DEF SumFrom
<1>3. SizeAt(p) = SIZE_B * (s[n] + 1)
  BY <1>2 DEF SizeAt
<1> HIDE DEF B
<1>4. s[n] = u % Pow2[n]
  <2> HIDE DEF n, s
  <2>1. s = CHOOSE f : f = SumFrom(B, n, f)
    BY DEF s
  <2>2. \A k \in 0 .. n : s[k] = u % Pow2[k]
    BY <1>1, <2>1, SumIs
  <2> QED BY <1>1, <2>2
<1>5. u % Pow2[n] = u
  <2>1. PICK m : m = Pow2[n]
    OBVIOUS
  <2>2. m \in Nat \ {0} /\ u < m /\ u = m * 0 + u
    BY <1>1, <2>1, PowersAre
  <2> QED BY <2>1, <2>2, RemainderIs
<1> QED BY <1>3, <1>4, <1>5

-----------------------------------------------------------------------------
(* Where labels are.                                                       *)

\* Place p is before every bit of instruction x and of what comes after it, and
\* behind every other; the bit there is one of those.
LabelAt(c, s, p, x) ==
    /\ p \in 0 .. Len(s) /\ (p < Len(s) => Real(s[p + 1]))
    /\ \A q \in DOMAIN s : Real(s[q]) => (q > p <=> Rank(c, s[q]) >= x)

\* A place stays such a place when something is put in or taken out: it is not
\* inside of what is.
LEMMA LabelSpliced ==
    ASSUME NEW c, NEW s, NEW s2, NEW P, NEW Q, NEW n, Spliced(s, s2, P, Q, n),
           NEW p, NEW x, LabelAt(c, s, p, x)
    PROVE  (p < P \/ p >= Q) /\ LabelAt(c, s2, Moved(p, P, Q, n), x)
<1> DEFINE m == Moved(p, P, Q, n)
<1>1. /\ P \in Nat /\ Q \in Nat /\ n \in Nat /\ P <= Q /\ Q <= Len(s) /\ Len(s) \in Nat
      /\ Len(s2) = Len(s) - (Q - P) + n /\ p \in Nat /\ p <= Len(s)
      /\ DOMAIN s = 1 .. Len(s) /\ DOMAIN s2 = 1 .. Len(s2)
  BY DEF Spliced, LabelAt
<1>2. p < P \/ p >= Q
  <2>1. SUFFICES ASSUME P <= p, p < Q PROVE FALSE
    BY <1>1
  <2>2. p < Len(s) /\ p + 1 \in P + 1 .. Q
    BY <1>1, <2>1
  <2> QED BY <2>2 DEF LabelAt, Spliced
<1>3. m \in 0 .. Len(s2)
  BY <1>1, <1>2 DEF Moved
<1>4. m < Len(s2) => Real(s2[m + 1])
  <2>1. CASE p < P
    <3>1. m = p /\ p < Len(s) /\ p + 1 \in 1 .. P
      BY <1>1, <2>1 DEF Moved
    <3> QED BY <3>1 DEF LabelAt, Spliced
  <2>2. CASE p >= Q
    <3>1. SUFFICES ASSUME m < Len(s2) PROVE Real(s2[m + 1])
      OBVIOUS
    <3>2. m = p + n - (Q - P)
      BY <1>1, <2>2 DEF Moved
    <3>3. p < Len(s) /\ p + 1 \in Q + 1 .. Len(s) /\ m + 1 = (p + 1) + n - (Q - P)
      BY <1>1, <2>2, <3>1, <3>2
    <3>4. s2[(p + 1) + n - (Q - P)] = s[p + 1] /\ Real(s[p + 1])
      BY <3>3 DEF LabelAt, Spliced
    <3> HIDE DEF m
    <3> QED BY <3>3, <3>4
  <2> QED BY <1>2, <2>1, <2>2
<1>5. ASSUME NEW q \in DOMAIN s2, Real(s2[q])
      PROVE  q > m <=> Rank(c, s2[q]) >= x
  <2>1. PICK y : y = q - 1
    OBVIOUS
  <2>2. y \in 0 .. Len(s2) - 1 /\ y + 1 = q
    BY <1>1, <2>1
  <2>3. PICK z \in 0 .. Len(s) - 1 : y = Moved(z, P, Q, n) /\ s[z + 1] = s2[y + 1]
    BY <1>5, <2>2, SplicedBack
  <2>4. z < P \/ z >= Q
    BY <1>5, <2>2, <2>3, SplicedForth
  <2>5. z + 1 \in DOMAIN s /\ z \in Nat
    BY <1>1
  <2>6. z + 1 > p <=> Rank(c, s[z + 1]) >= x
    BY <1>5, <2>2, <2>3, <2>5 DEF LabelAt
  <2>7. y >= m <=> z >= p
    BY <1>1, <1>2, <2>3, <2>4, <2>5 DEF Moved
  <2>8. (q > m <=> y >= m) /\ (z + 1 > p <=> z >= p)
    BY <1>1, <1>3, <2>2, <2>5
  <2> QED BY <2>2, <2>3, <2>6, <2>7, <2>8
<1> QED BY <1>2, <1>3, <1>4, <1>5 DEF LabelAt

\* What comes in rank of a bit is a number.
LEMMA RankIs ==
    ASSUME NEW c, Len(c) \in Nat, NEW s \in Seq(BitT), NEW q \in DOMAIN s, Real(s[q])
    PROVE  Rank(c, s[q]) \in Int
<1>1. s[q] \in BitT
  OBVIOUS
<1>2. s[q] \in Int \X Int
  BY <1>1 DEF BitT, LitT, Real
<1> QED BY <1>2 DEF Rank

\* Places of later instructions are not before those of earlier ones.
LEMMA LabelsRise ==
    ASSUME NEW c, Len(c) \in Nat, NEW s \in Seq(BitT), NEW p, NEW x \in Int, LabelAt(c, s, p, x),
           NEW q, NEW y \in Int, LabelAt(c, s, q, y), x <= y
    PROVE  p <= q
<1>1. p \in Nat /\ q \in Nat /\ p <= Len(s) /\ q <= Len(s) /\ Len(s) \in Nat /\ DOMAIN s = 1 .. Len(s)
  BY DEF LabelAt
<1>2. SUFFICES ASSUME q < p PROVE FALSE
  BY <1>1
<1>3. q < Len(s) /\ q + 1 \in DOMAIN s
  BY <1>1, <1>2
<1>4. Real(s[q + 1])
  BY <1>3 DEF LabelAt
<1>5. Rank(c, s[q + 1]) >= y
  <2>1. q + 1 > q
    BY <1>1
  <2> QED BY <1>3, <1>4, <2>1 DEF LabelAt
<1>6. Rank(c, s[q + 1]) \in Int
  BY <1>3, <1>4, RankIs
<1>7. Rank(c, s[q + 1]) >= x
  BY <1>5, <1>6
<1>8. q + 1 > p
  BY <1>3, <1>4, <1>7 DEF LabelAt
<1> QED BY <1>1, <1>2, <1>8

\* No place is inside of a jump.
LEMMA LabelOutside ==
    ASSUME NEW c, NEW s \in Seq(BitT), NEW n, NEW J, NEW F, JumpsAt(c, s, n, J, F), NEW j \in DOMAIN J,
           NEW p, NEW x, LabelAt(c, s, p, x)
    PROVE  p <= J[j] - SZ_SZ - 1 \/ p >= J[j] + F[j]
<1>1. /\ J[j] \in Int /\ F[j] \in Nat /\ J[j] + F[j] <= Len(s) /\ SZ_SZ \in Nat
      /\ \A q \in J[j] - SZ_SZ + 1 .. J[j] + F[j] : ~ Real(s[q])
  BY ConstantsAre DEF JumpsAt
<1>2. p \in Nat /\ Len(s) \in Nat
  BY DEF LabelAt
<1>3. SUFFICES ASSUME J[j] - SZ_SZ - 1 < p, p < J[j] + F[j] PROVE FALSE
  BY <1>1, <1>2
<1>4. p < Len(s) /\ p + 1 \in J[j] - SZ_SZ + 1 .. J[j] + F[j]
  BY <1>1, <1>2, <1>3
<1> QED BY <1>1, <1>4 DEF LabelAt

\* With one more instruction the places there were stay, and its own is the end
\* of the code before it.
LEMMA LabelAppended ==
    ASSUME NEW c, NEW s, NEW s2, NEW k, NEW n, Appended(c, s, s2, k, n),
           Reals(s) = InstrBits(c, k), Width(c, k) > 0 \/ n = 0
    PROVE  /\ \A p : \A x \in Int : x <= k /\ LabelAt(c, s, p, x) => LabelAt(c, s2, p, x)
           /\ LabelAt(c, s2, Len(s), k)
<1> DEFINE w == Width(c, k)
<1>1. /\ k \in Nat /\ n \in Nat /\ w \in Nat /\ Len(s) \in Nat /\ Len(s2) = Len(s) + w + n
      /\ DOMAIN s = 1 .. Len(s) /\ DOMAIN s2 = 1 .. Len(s2)
  BY DEF Appended
<1>2. ASSUME NEW j \in 1 .. w
      PROVE  /\ s2[Len(s) + j] = <<k, j>> /\ Real(s2[Len(s) + j]) /\ Rank(c, s2[Len(s) + j]) = k
  <2>1. s2[Len(s) + j] = <<k, j>>
    BY DEF Appended
  <2>2. <<k, j>>[1] = k /\ k # Lit /\ k # Pro /\ k # Epi
    BY <1>1 DEF Lit, Pro, Epi
  <2> QED BY <2>1, <2>2 DEF Real, Rank
<1>3. ASSUME NEW p \in Nat, NEW x \in Int, x <= k, p <= Len(s), p < Len(s) => Real(s[p + 1]),
             \A q \in DOMAIN s : Real(s[q]) => (q > p <=> Rank(c, s[q]) >= x)
      PROVE  LabelAt(c, s2, p, x)
  <2>1. p \in 0 .. Len(s2)
    BY <1>1, <1>3
  <2>2. p < Len(s2) => Real(s2[p + 1])
    <3>1. CASE p < Len(s)
      <4>1. p + 1 \in 1 .. Len(s)
        BY <1>1, <1>3, <3>1
      <4> QED BY <1>3, <3>1, <4>1 DEF Appended
    <3>2. CASE p = Len(s) /\ w > 0
      <4>1. 1 \in 1 .. w
        BY <1>1, <3>2
      <4> HIDE DEF w
      <4> QED BY <1>2, <3>2, <4>1
    <3>3. CASE p = Len(s) /\ n = 0 /\ ~ (w > 0)
      BY <1>1, <3>3
    <3>4. w > 0 \/ n = 0
      OBVIOUS
    <3>5. p < Len(s) \/ p = Len(s)
      <4>1. p \in Nat /\ Len(s) \in Nat /\ p <= Len(s)
        BY <1>1, <1>3
      <4> QED BY ONLY <4>1
    <3>6. p < Len(s) \/ (p = Len(s) /\ w > 0) \/ (p = Len(s) /\ n = 0 /\ ~ (w > 0))
      BY <3>4, <3>5, Zenon
    <3> HIDE DEF w
    <3> QED BY <3>1, <3>2, <3>3, <3>6
  <2>3. ASSUME NEW q \in DOMAIN s2, Real(s2[q])
        PROVE  q > p <=> Rank(c, s2[q]) >= x
    <3>1. CASE q \in 1 .. Len(s)
      <4>1. s2[q] = s[q]
        BY <3>1 DEF Appended
      <4> QED BY <1>1, <1>3, <2>3, <3>1, <4>1
    <3>2. CASE q > Len(s) /\ q <= Len(s) + w
      <4>1. PICK j : j = q - Len(s)
        OBVIOUS
      <4>2. j \in 1 .. w /\ q = Len(s) + j /\ q > p
        BY <1>1, <1>3, <3>2, <4>1, SMTT(30)
      <4>3. Rank(c, s2[q]) = k
        BY <1>2, <4>2
      <4> QED BY <1>1, <1>3, <4>2, <4>3
    <3>3. CASE q > Len(s) + w
      <4>1. q \in Len(s) + Width(c, k) + 1 .. Len(s2)
        BY <1>1, <3>3
      <4> QED BY <2>3, <4>1 DEF Appended
    <3> QED BY <1>1, <3>1, <3>2, <3>3
  <2> QED BY <2>1, <2>2, <2>3 DEF LabelAt
<1>4. ASSUME NEW p, NEW x \in Int, x <= k, LabelAt(c, s, p, x)
      PROVE  LabelAt(c, s2, p, x)
  <2>1. /\ p \in Nat /\ p <= Len(s) /\ (p < Len(s) => Real(s[p + 1]))
        /\ \A q \in DOMAIN s : Real(s[q]) => (q > p <=> Rank(c, s[q]) >= x)
    BY <1>1, <1>4 DEF LabelAt
  <2> QED BY <1>3, <1>4, <2>1
<1>5. ASSUME NEW q \in DOMAIN s, Real(s[q])
      PROVE  q > Len(s) <=> Rank(c, s[q]) >= k
  <2>1. s[q] \in InstrBits(c, k)
    BY <1>5 DEF Reals
  <2>2. PICK i \in 0 .. k - 1 : \E j \in 1 .. Width(c, i) : s[q] = <<i, j>>
    BY <1>1, <2>1, InstrBitsAre
  <2>3. PICK j : s[q] = <<i, j>>
    BY <2>2
  <2>4. s[q][1] = i /\ i # Pro /\ i # Epi /\ i \in Nat /\ i < k
    BY <1>1, <2>3 DEF Pro, Epi
  <2>5. Rank(c, s[q]) = i
    BY <2>4 DEF Rank
  <2> QED BY <1>1, <2>4, <2>5
<1>6. LabelAt(c, s2, Len(s), k)
  BY <1>1, <1>3, <1>5
<1> QED BY <1>4, <1>6

\* Nor does it matter what is written over bits that are not real.
LEMMA LabelOver ==
    ASSUME NEW s, NEW s2, Overwritten(s, s2), NEW c, NEW p, NEW x, LabelAt(c, s, p, x)
    PROVE  LabelAt(c, s2, p, x)
<1>1. /\ Len(s) \in Nat /\ Len(s2) = Len(s) /\ DOMAIN s = 1 .. Len(s) /\ DOMAIN s2 = 1 .. Len(s)
      /\ p \in Nat /\ p <= Len(s)
  BY DEF Overwritten, LabelAt
<1>2. ASSUME NEW q \in DOMAIN s
      PROVE  (Real(s2[q]) <=> Real(s[q])) /\ (Real(s[q]) => s2[q] = s[q])
  BY DEF Overwritten
<1>3. p < Len(s2) => Real(s2[p + 1])
  <2>1. SUFFICES ASSUME p < Len(s) PROVE Real(s2[p + 1])
    BY <1>1
  <2>2. p + 1 \in DOMAIN s
    BY <1>1, <2>1
  <2>3. Real(s[p + 1])
    BY <2>1 DEF LabelAt
  <2> QED BY <1>2, <2>2, <2>3
<1>4. ASSUME NEW q \in DOMAIN s2, Real(s2[q])
      PROVE  q > p <=> Rank(c, s2[q]) >= x
  BY <1>1, <1>2, <1>4 DEF LabelAt
<1> QED BY <1>1, <1>3, <1>4 DEF LabelAt

\* Places in front of the last return are places between the frame.
LEMMA LabelFramed ==
    ASSUME NEW c, Len(c) \in Nat, NEW s, NEW s2, NEW f, NEW e, Framed(s, s2, f, e), f[2] > 0,
           NEW p, NEW x \in 0 .. Len(c), LabelAt(c, s, p, x), p <= e
    PROVE  LabelAt(c, s2, p + f[1], x)
<1>1. PICK A, B, m, L, L2 : A = f[1] /\ B = f[2] /\ m = p + A /\ L = Len(s) /\ L2 = Len(s2)
  OBVIOUS
<1>2. /\ A \in Nat /\ B \in Nat /\ B > 0 /\ e \in Nat /\ e <= L /\ L \in Nat /\ p \in Nat /\ p <= e
      /\ m = p + A /\ L2 = A + e + B
  BY <1>1 DEF Framed, LabelAt
<1>3. DOMAIN s = 1 .. L /\ DOMAIN s2 = 1 .. L2
  BY <1>1 DEF Framed
<1>4. /\ \A q \in 1 .. A : s2[q] = <<Pro, q>>
      /\ \A q \in 1 .. e : s2[A + q] = s[q]
      /\ \A q \in 1 .. B : s2[A + e + q] = <<Epi, q>>
  BY <1>1 DEF Framed
<1>5. ASSUME NEW q \in 1 .. B
      PROVE  Real(s2[A + e + q]) /\ Rank(c, s2[A + e + q]) = Len(c)
  <2>1. s2[A + e + q] = <<Epi, q>>
    BY <1>4
  <2> QED BY <2>1 DEF Real, Rank, Epi, Pro, Lit
<1>6. m < L2 => Real(s2[m + 1])
  <2>1. CASE p < e
    <3>1. p < L /\ p + 1 \in 1 .. e /\ m + 1 = A + (p + 1)
      BY ONLY <1>2, <2>1
    <3>2. s2[A + (p + 1)] = s[p + 1] /\ Real(s[p + 1])
      BY <1>1, <1>4, <3>1 DEF LabelAt
    <3> QED BY <3>1, <3>2
  <2>2. CASE p = e
    <3>1. 1 \in 1 .. B /\ m + 1 = A + e + 1
      BY ONLY <1>2, <2>2
    <3> QED BY <1>5, <3>1
  <2> QED BY <1>2, <2>1, <2>2
<1>7. ASSUME NEW q \in 1 .. L2, Real(s2[q])
      PROVE  q > m <=> Rank(c, s2[q]) >= x
  <2>1. CASE q <= A
    <3>1. q \in 1 .. A /\ ~ (q > m)
      BY ONLY <1>2, <2>1, q \in 1 .. L2
    <3>2. s2[q] = <<Pro, q>>
      BY <1>4, <3>1
    <3>3. Rank(c, s2[q]) = -1
      BY <3>2 DEF Rank
    <3> QED BY <3>1, <3>3
  <2>2. CASE q > A /\ q <= A + e
    <3>1. PICK r : r = q - A
      OBVIOUS
    <3>2. r \in 1 .. e /\ q = A + r /\ r \in 1 .. L /\ (q > m <=> r > p)
      BY ONLY <1>2, <2>2, <3>1, q \in 1 .. L2
    <3>3. s2[q] = s[r]
      BY <1>4, <3>2
    <3>4. r > p <=> Rank(c, s[r]) >= x
      BY <1>7, <1>3, <3>2, <3>3 DEF LabelAt
    <3> QED BY <3>2, <3>3, <3>4
  <2>3. CASE q > A + e
    <3>1. PICK r : r = q - (A + e)
      OBVIOUS
    <3>2. r \in 1 .. B /\ q = A + e + r /\ q > m
      BY ONLY <1>2, <2>3, <3>1, q \in 1 .. L2
    <3>3. Rank(c, s2[q]) = Len(c)
      BY <1>5, <3>2
    <3> QED BY <3>2, <3>3
  <2> QED BY <1>2, <2>1, <2>2, <2>3
<1>8. m \in 0 .. L2
  BY ONLY <1>2
<1> QED BY <1>1, <1>6, <1>7, <1>8, <1>3 DEF LabelAt

\* What there is of a bit that is not of instruction k, the last one.
NotLast(c, k, b) == /\ Rank(c, b) \in Int /\ Rank(c, b) # k
                    /\ b[1] >= 0 => b[1] \in 0 .. k - 1 /\ Rank(c, b) = b[1]
                    /\ Rank(c, b) > k <=> b[1] = Epi

\* That holds of every bit of the code without that instruction.
LEMMA NotLastIs ==
    ASSUME NEW c, NEW k \in Nat, Len(c) = k + 1, NEW s, NEW f, Reals(s) = Framing(f) \cup InstrBits(c, k),
           NEW q \in DOMAIN s, Real(s[q])
    PROVE  NotLast(c, k, s[q])
<1>1. s[q] \in Reals(s)
  BY DEF Reals
<1>2. CASE s[q] \in Framing(f)
  <2>1. PICK b : b = s[q][1]
    OBVIOUS
  <2>2. b = Pro \/ b = Epi
    BY <1>2, <2>1 DEF Framing
  <2>3. Rank(c, s[q]) = IF b = Pro THEN -1 ELSE IF b = Epi THEN k + 1 ELSE b
    BY <2>1 DEF Rank
  <2>4. (b = Pro => ~ (b >= 0) /\ b # Epi) /\ (b = Epi => ~ (b >= 0) /\ b # Pro)
    BY DEF Pro, Epi
  <2> QED BY <2>1, <2>2, <2>3, <2>4 DEF NotLast
<1>3. CASE s[q] \in InstrBits(c, k)
  <2>1. PICK i \in 0 .. k - 1 : \E j \in 1 .. Width(c, i) : s[q] = <<i, j>>
    BY <1>3, InstrBitsAre
  <2>2. s[q][1] = i /\ i # Pro /\ i # Epi /\ i \in Nat /\ i < k
    BY <2>1 DEF Pro, Epi
  <2>3. Rank(c, s[q]) = i
    BY <2>2 DEF Rank
  <2>4. i # Epi /\ ~ (i > k)
    BY <2>2
  <2> QED BY <2>2, <2>3, <2>4 DEF NotLast
<1> QED BY <1>1, <1>2, <1>3

\* Where the last instruction would be is where the epilogue is.
LEMMA LabelNext ==
    ASSUME NEW c, NEW k \in Nat, Len(c) = k + 1, NEW s, NEW f, Reals(s) = Framing(f) \cup InstrBits(c, k),
           NEW p, LabelAt(c, s, p, k)
    PROVE  LabelAt(c, s, p, k + 1)
<1>1. ASSUME NEW q \in DOMAIN s, Real(s[q])
      PROVE  Rank(c, s[q]) >= k <=> Rank(c, s[q]) >= k + 1
  <2>1. NotLast(c, k, s[q])
    BY <1>1, NotLastIs
  <2>2. Rank(c, s[q]) \in Int /\ Rank(c, s[q]) # k
    BY <2>1 DEF NotLast
  <2> QED BY <2>2
<1> QED BY <1>1 DEF LabelAt

\* A table T of N labels, of which 1 .. n are at R, in order: those from a on have
\* d to go; those below a are before p, and the last is not.  S are those before this.
LabelsStand(T, N, S, this, n, a, d, p, R) ==
    /\ DOMAIN T = 0 .. N - 1 /\ \A x \in 0 .. N - 1 : T[x] \in Int
    /\ \A l : l \in S <=> l \in DOMAIN T /\ T[l] < this
    /\ n < N /\ \A x \in 1 .. n : R[x] = T[x] + IF x >= a THEN d ELSE 0
    /\ \A x, y \in 1 .. n : x <= y => R[x] <= R[y]
    /\ \A x \in 1 .. n : x < a => R[x] < p
    /\ ~ (R[n] < p)
\* Of them, those below b are before p.
LabelsParted(b, a, n, p, R) == b \in a .. n /\ \A x \in 1 .. n : x < b <=> R[x] < p

\* The loop over the labels stops where they are not before p any more.
LEMMA LabelStops ==
    ASSUME NEW N \in Nat, NEW T, NEW S, NEW this \in Int, NEW n \in Nat, NEW a \in 1 .. n,
           NEW d \in Int, NEW p, p = this + d, NEW R, LabelsStand(T, N, S, this, n, a, d, p, R),
           NEW b, b = Stop(S, a, N - 1)
    PROVE  LabelsParted(b, a, n, p, R)
<1> /\ DOMAIN T = 0 .. N - 1 /\ \A x \in 0 .. N - 1 : T[x] \in Int
    /\ \A l : l \in S <=> l \in DOMAIN T /\ T[l] < this
    /\ n < N /\ \A x \in 1 .. n : R[x] = T[x] + IF x >= a THEN d ELSE 0
    /\ \A x, y \in 1 .. n : x <= y => R[x] <= R[y]
    /\ \A x \in 1 .. n : x < a => R[x] < p
    /\ ~ (R[n] < p)
  BY DEF LabelsStand
<1>1. n \in 1 .. n /\ n >= a /\ a \in Nat /\ a >= 1 /\ N - 1 \in Nat /\ (N - 1) + 1 = N /\ a <= N /\ N \notin S
  OBVIOUS
<1>2. b \in a .. N /\ a .. b - 1 \subseteq S /\ b \notin S
  <2>1. PICK M : M = N - 1
    OBVIOUS
  <2>2. M \in Nat /\ M + 1 = N /\ a <= M + 1 /\ M + 1 \notin S
    BY <1>1, <2>1
  <2>3. b = Stop(S, a, M)
    BY <2>1
  <2>4. Stop(S, a, M) \in a .. M + 1 /\ a .. Stop(S, a, M) - 1 \subseteq S /\ Stop(S, a, M) \notin S
    BY <1>1, <2>2, StopIs
  <2> QED BY <2>2, <2>3, <2>4
<1>3. n \notin S
  <2>1. R[n] = T[n] + d /\ T[n] \in Int
    BY <1>1
  <2>2. ~ (T[n] < this)
    BY <2>1
  <2> QED BY <2>2
<1>4. b \in a .. n
  <2>1. b \in Nat /\ a <= b
    BY <1>1, <1>2
  <2>2. SUFFICES ASSUME n < b PROVE FALSE
    BY <1>1, <2>1
  <2>3. n \in a .. b - 1
    BY <1>1, <2>1, <2>2
  <2> QED BY <1>2, <1>3, <2>3
<1>5. b \in 1 .. n /\ b \in 0 .. N - 1
  BY <1>1, <1>4
<1>6. R[b] = T[b] + d /\ T[b] \in Int /\ ~ (T[b] < this)
  BY <1>2, <1>4, <1>5
<1>7. ~ (R[b] < p) /\ R[b] \in Int
  BY <1>6
<1>8. ASSUME NEW x \in 1 .. n
      PROVE  x < b <=> R[x] < p
  <2>1. R[x] \in Int
    <3>1. x \in 0 .. N - 1
      BY <1>1
    <3>2. T[x] \in Int
      BY <3>1
    <3> QED BY <3>2, SMTT(30)
  <2>2. CASE x < a
    BY <1>4, <2>2
  <2>3. CASE x >= a /\ x < b
    <3>1. x \in a .. b - 1
      BY <1>4, <2>3
    <3>2. T[x] < this
      BY <1>2, <3>1
    <3>3. x \in 0 .. N - 1
      BY <1>1
    <3>4. R[x] = T[x] + d /\ T[x] \in Int
      BY <2>3, <3>3
    <3>5. R[x] < p
      BY <3>2, <3>4
    <3> QED BY <2>3, <3>5
  <2>4. CASE x >= b
    <3>1. R[b] <= R[x]
      BY <1>5, <2>4
    <3>2. ~ (R[x] < p)
      BY <1>7, <2>1, <3>1
    <3> QED BY <1>4, <2>4, <3>2
  <2> QED BY <1>4, <2>2, <2>3, <2>4
<1> QED BY <1>4, <1>8 DEF LabelsParted

-----------------------------------------------------------------------------
(* Where jumps go.                                                         *)

\* The label that the jump of instruction k goes to; those of all jumps.
Dst(c, k)             == IF c[k + 1].op = "ret" THEN LAB_RET ELSE c[k + 1].a3 + 1
TargetsAt(c, s, J, D) == \A j \in DOMAIN J : D[j] = Dst(c, s[J[j] - SZ_SZ][1])

\* Bits that are not to be read for their value.
Solid(B) == \A b \in B : Real(b)

\* The head of a jump moves with it.
LEMMA HeadMoves ==
    ASSUME NEW c, NEW n, Solid(HeadBits(c, n)),
           NEW s, NEW s2, NEW P, NEW Q, NEW m, Spliced(s, s2, P, Q, m),
           NEW J, NEW F, JumpsAt(c, s, n, J, F), NEW J2, NEW F2, JumpsMove(J, F, J2, F2, P, Q, m),
           NEW j \in DOMAIN J
    PROVE  s2[J2[j] - SZ_SZ] = s[J[j] - SZ_SZ]
<1>1. /\ SZ_SZ \in Nat /\ Len(s) \in Nat /\ J[j] \in Nat /\ J[j] - SZ_SZ - 1 \in 0 .. Len(s) - 1
      /\ F[j] \in Nat /\ J[j] + F[j] <= Len(s) /\ s[J[j] - SZ_SZ] \in HeadBits(c, n)
  <2>1. s \in Seq(BitT)
    BY DEF Spliced
  <2> QED BY <2>1, JumpsAre
<1>2. PICK x, f, x2, f2, L : x = J[j] /\ f = F[j] /\ x2 = J2[j] /\ f2 = F2[j] /\ L = Len(s)
  OBVIOUS
<1>3. P \in Nat /\ Q \in Nat /\ m \in Nat /\ P <= Q /\ Q <= L
  BY <1>2 DEF Spliced
<1>4. JumpMoves(x, f, x2, f2, P, Q, m)
  BY <1>2 DEF JumpsMove
<1>5. Bounds(x, f, x2, f2, P, Q, m, L)
  <2>1. x \in Nat /\ f \in Nat /\ L \in Nat /\ x + f <= L /\ x - SZ_SZ - 1 >= 0
    BY <1>1, <1>2
  <2> QED BY <1>1, <1>3, <1>4, <2>1, OneMoves
<1>6. x2 \in Int /\ x2 - SZ_SZ - 1 = Moved(x - SZ_SZ - 1, P, Q, m)
  BY <1>5 DEF Bounds
<1>7. PICK y : y = x - SZ_SZ - 1
  OBVIOUS
<1>8. y \in 0 .. Len(s) - 1 /\ y + 1 = x - SZ_SZ
  BY <1>1, <1>2, <1>7
<1>9. Real(s[y + 1])
  BY <1>1, <1>2, <1>8 DEF Solid
<1>10. s2[Moved(y, P, Q, m) + 1] = s[y + 1]
  BY <1>8, <1>9, SplicedForth
<1>11. Moved(y, P, Q, m) + 1 = x2 - SZ_SZ
  BY <1>1, <1>6, <1>7
<1> QED BY <1>2, <1>8, <1>10, <1>11

\* So the jumps keep their targets.
LEMMA TargetsMove ==
    ASSUME NEW c, NEW n, Solid(HeadBits(c, n)),
           NEW s, NEW s2, NEW P, NEW Q, NEW m, Spliced(s, s2, P, Q, m),
           NEW J, NEW F, JumpsAt(c, s, n, J, F), NEW J2, NEW F2, JumpsMove(J, F, J2, F2, P, Q, m),
           NEW D, TargetsAt(c, s, J, D)
    PROVE  TargetsAt(c, s2, J2, D)
<1>1. DOMAIN J2 = DOMAIN J
  BY DEF JumpsMove
<1>2. ASSUME NEW j \in DOMAIN J
      PROVE  s2[J2[j] - SZ_SZ] = s[J[j] - SZ_SZ]
  BY HeadMoves
<1> QED BY <1>1, <1>2 DEF TargetsAt

\* Where an end e is when what is from P up to Q has been taken out.
Taken(e, P, Q)     == IF e <= P THEN e ELSE e - (Q - P)
Ends(e, e2, P, Q)  == (e <= P \/ e >= Q) /\ e2 = Taken(e, P, Q)

\* A distance is still a number of z bits when something between is taken out.
LEMMA Contracts ==
    ASSUME NEW P \in Nat, NEW Q \in Nat, P <= Q,
           NEW l \in Int, l < P \/ l >= Q, NEW e \in Int, e <= P \/ e >= Q,
           NEW l2, l2 = Moved(l, P, Q, 0), NEW e2, e2 = Taken(e, P, Q),
           NEW z \in Nat \ {0}, NEW v, v = l - e, Fits(v, z), NEW v2, v2 = l2 - e2
    PROVE  Fits(v2, z)
<1>1. PICK h : h = Pow2[z - 1]
  OBVIOUS
<1>2. h \in Nat \ {0}
  <2>1. z - 1 \in Nat
    OBVIOUS
  <2> QED BY <1>1, <2>1, PowersAre
<1>3. -h <= l - e /\ l - e < h
  BY <1>1 DEF Fits
<1>4. l2 \in Int /\ e2 \in Int /\ l2 = IF l < P THEN l ELSE l + 0 - (Q - P)
  BY DEF Moved, Taken
<1>5. -h <= l2 - e2 /\ l2 - e2 < h
  <2>1. CASE e <= P
    BY <1>2, <1>3, <1>4, <2>1 DEF Taken
  <2>2. CASE ~ (e <= P)
    BY <1>2, <1>3, <1>4, <2>2 DEF Taken
  <2> QED BY <2>1, <2>2
<1> QED BY <1>1, <1>4, <1>5 DEF Fits

\* Where the end of an immediate is when something is taken out.
LEMMA EndMoves ==
    ASSUME NEW P \in Nat, NEW Q \in Nat, P <= Q, SZ_SZ \in Nat, NEW x \in Nat, NEW f \in Nat,
           NEW x2, NEW f2, JumpMoves(x, f, x2, f2, P, Q, 0), NEW e, e = x + f, NEW e2, e2 = x2 + f2
    PROVE  Ends(e, e2, P, Q)
BY DEF Ends, Taken, JumpMoves, InFront, Behind, Inside

\* At x is an immediate of z bits that holds d, behind the field for its size.
Written(s, x, z, d) ==
    /\ \A k \in 1 .. SZ_SZ : s[x - SZ_SZ + k][2] = ((z \div SIZE_B - 1) \div Pow2[k - 1]) % 2
    /\ \A k \in 1 .. z : s[x + k][2] = (d \div Pow2[k - 1]) % 2

\* Which instruction a label is before.
LabelRank(c, x) == IF x = LAB_RET THEN Len(c) ELSE x - 1

\* The jump of instruction k is at x, with z bits that hold d, and goes to its label.
GoesFrom(c, s, k, x, z, d) ==
    /\ x - SZ_SZ \in DOMAIN s /\ s[x - SZ_SZ] = <<k, Width(c, k)>>
    /\ x \in Int /\ z \in {SIZE_B * m : m \in 1 .. Sizes} /\ x + z <= Len(s)
    /\ Fits(d, z) /\ Written(s, x, z, d)
    /\ LabelAt(c, s, x + z + d, LabelRank(c, Dst(c, k)))
Landed(c, s) == \A k \in 0 .. Len(c) - 2 : c[k + 1].op \in {"jmp", "jz", "ret"} =>
                    \E x, z, d : GoesFrom(c, s, k, x, z, d)

\* The labels given, and where they will be; the targets and distances of jumps.
Labelled == IF pc = "gen" THEN 1 .. loc.i - 1 ELSE IF pc = "wrap" THEN 1 .. Len(ic) ELSE 0 .. Len(ic)
VLab(x)  == lab_loc[x] + IF x = LAB_RET \/ x >= loc.lab THEN Shift ELSE 0
Dests    == [j \in DOMAIN jmps |-> jmps[j].dst]
VDist(j) == VLab(jmps[j].dst) - (VJmps[j] + Field[j])

\* Jumps have the labels that they go to, labels are where they have to be, also
\* those of the last return and behind the next call; distances fit.
TargetsInv == TargetsAt(ic, Virtual, VJmps, Dests)
LabelsInv  == \A x \in Labelled : LabelAt(ic, Virtual, VLab(x), LabelRank(ic, x))
CursorInv  == pc \in {"align", "shrink"} => /\ loc.lab \in 1 .. Len(ic)
                                            /\ \A x \in 1 .. Len(ic) : x < loc.lab => VLab(x) < Len(cs)
RetLab     == pc \in {"gen", "wrap"} /\ There > 0 /\ ic[There].op = "ret" => lab_loc[There] = jmp_ret
PadsLab    == pc = "align" => \A k \in DOMAIN pads : k >= loc.i => pads[k] + loc.diff <= VLab(Len(ic))
FitInv     == pc \in {"shrink", "write"} => \A j \in DOMAIN jmps : Fits(VDist(j), loc.sz[j])
WriteInv   == pc = "write" => \A j \in DOMAIN jmps :
                                  j < loc.i => Written(cs, jmps[j].off, loc.sz[j], Distance(j))

LandInv ==
    /\ pc # "idle" => TargetsInv /\ LabelsInv /\ CursorInv /\ RetLab /\ PadsLab /\ FitInv /\ WriteInv
    /\ pc = "idle" /\ funcs > 0 => Landed(ic, Virtual)

\* What LayoutInv says of the code of a function.
LEMMA CodeFacts ==
    LayoutInv /\ (pc # "idle" \/ funcs > 0)
        => /\ ic \in Seq(Ins) /\ Len(ic) \in Nat \ {0} /\ There \in Int /\ Labels(lab_loc)
           /\ CodeAt(ic, Virtual, There, Beside, VRels) /\ Virtual \in Seq(BitT) /\ Complies(ic)
           /\ pc # "idle" => /\ JumpsAt(ic, Virtual, There, VJmps, Field)
                             /\ There \in 0 .. Len(ic) /\ Solid(HeadBits(ic, There))
                             /\ Given \subseteq DOMAIN lab_loc
<1> SUFFICES ASSUME LayoutInv, pc # "idle" \/ funcs > 0
             PROVE  /\ ic \in Seq(Ins) /\ Len(ic) \in Nat \ {0} /\ There \in Int /\ Labels(lab_loc)
                    /\ CodeAt(ic, Virtual, There, Beside, VRels) /\ Virtual \in Seq(BitT) /\ Complies(ic)
                    /\ pc # "idle" => /\ JumpsAt(ic, Virtual, There, VJmps, Field)
                                      /\ There \in 0 .. Len(ic) /\ Solid(HeadBits(ic, There))
                                      /\ Given \subseteq DOMAIN lab_loc
  OBVIOUS
<1>1. Types /\ PassInv /\ CodeInv
  BY DEF LayoutInv
<1>2. ic \in Seq(Ins) /\ Len(ic) \in Nat \ {0} /\ Complies(ic)
  <2>1. ic \in Seq(Ins) /\ Len(ic) > 0 /\ Complies(ic)
    BY <1>1 DEF CodeInv, Complies
  <2> QED BY <2>1
<1>3. Labels(lab_loc) /\ loc.i \in Nat \ {0}
  BY <1>1 DEF Types, Locals
<1>4. There \in Int
  BY <1>2, <1>3 DEF There
<1>5. CodeAt(ic, Virtual, There, Beside, VRels) /\ Virtual \in Seq(BitT)
  BY <1>1 DEF CodeInv, CodeAt
<1>6. ASSUME pc # "idle"
      PROVE  /\ JumpsAt(ic, Virtual, There, VJmps, Field) /\ There \in 0 .. Len(ic)
             /\ Given \subseteq DOMAIN lab_loc
  <2>1. JumpsAt(ic, Virtual, There, VJmps, Field) /\ Given \subseteq DOMAIN lab_loc
    BY <1>1, <1>6 DEF CodeInv, LabInv
  <2>2. pc = "gen" => loc.i <= Len(ic) + 1
    BY <1>1 DEF PassInv
  <2>3. There \in 0 .. Len(ic)
    BY <1>2, <1>3, <2>2 DEF There
  <2> QED BY <2>1, <2>3
<1>7. ASSUME pc # "idle"
      PROVE  Solid(HeadBits(ic, There))
  <2>1. There \in 0 .. Len(ic)
    BY <1>6, <1>7
  <2>2. \A b \in SymBits(ic, There) \cup HeadBits(ic, There) : Real(b)
    BY <1>2, <2>1, TableBits
  <2> QED BY <2>2 DEF Solid
<1> QED BY <1>2, <1>3, <1>4, <1>5, <1>6, <1>7

\* The same of the next state.
LEMMA CodeFactsNext ==
    LayoutInv' /\ (pc' # "idle" \/ funcs' > 0)
        => /\ ic' \in Seq(Ins) /\ Len(ic') \in Nat \ {0} /\ There' \in Int /\ Labels(lab_loc')
           /\ CodeAt(ic', Virtual', There', Beside', VRels') /\ Virtual' \in Seq(BitT) /\ Complies(ic')
           /\ pc' # "idle" => /\ JumpsAt(ic', Virtual', There', VJmps', Field')
                              /\ There' \in 0 .. Len(ic') /\ Solid(HeadBits(ic', There'))
                              /\ Given' \subseteq DOMAIN lab_loc'
<1>1. (LayoutInv /\ (pc # "idle" \/ funcs > 0)
        => /\ ic \in Seq(Ins) /\ Len(ic) \in Nat \ {0} /\ There \in Int /\ Labels(lab_loc)
           /\ CodeAt(ic, Virtual, There, Beside, VRels) /\ Virtual \in Seq(BitT) /\ Complies(ic)
           /\ pc # "idle" => /\ JumpsAt(ic, Virtual, There, VJmps, Field)
                             /\ There \in 0 .. Len(ic) /\ Solid(HeadBits(ic, There))
                             /\ Given \subseteq DOMAIN lab_loc)'
  BY CodeFacts, PTL
<1> QED BY <1>1

\* What lab_add leaves.
LEMMA LabAddAt ==
    ASSUME NEW labs, Labels(labs), NEW id \in Nat, NEW p \in Int
    PROVE  /\ LabAdd(labs, id, p)[id] = p
           /\ \A x \in DOMAIN labs : x # id => LabAdd(labs, id, p)[x] = labs[x]
<1>1. \A x \in DOMAIN labs \cup {id} : x \in DOMAIN LabAdd(labs, id, p)
  BY LabAddIs
<1>2. DOMAIN LabAdd(labs, id, p) = 0 .. Capacity(Cardinality(DOMAIN labs), id) - 1
  BY DEF LabAdd
<1> QED BY <1>1, <1>2 DEF LabAdd

\* Domains, and where labels are when no pass moves anything.
LEMMA LandDomains ==
    /\ DOMAIN VJmps = DOMAIN jmps
    /\ Types /\ PassInv /\ pc \notin {"idle", "align", "shrink"}
        => Shift = 0 /\ \A x : lab_loc[x] \in Int => VLab(x) = lab_loc[x]
<1>1. DOMAIN VJmps = DOMAIN jmps
  BY DEF VJmps, Ahead, Offs
<1>2. ASSUME Types, PassInv, pc \notin {"idle", "align", "shrink"}
      PROVE  Shift = 0 /\ \A x : lab_loc[x] \in Int => VLab(x) = lab_loc[x]
  <2>1. Shift = 0
    BY <1>2 DEF PassInv, Shift
  <2> QED BY <2>1 DEF VLab
<1> QED BY <1>1, <1>2

\* The same of the next state.
LEMMA LandDomainsNext ==
    /\ DOMAIN VJmps' = DOMAIN jmps'
    /\ Types' /\ PassInv' /\ pc' \notin {"idle", "align", "shrink"}
        => Shift' = 0 /\ \A x : lab_loc'[x] \in Int => VLab(x)' = lab_loc'[x]
<1>1. DOMAIN VJmps' = DOMAIN jmps'
  BY DEF VJmps, Ahead, Offs
<1>2. ASSUME Types', PassInv', pc' \notin {"idle", "align", "shrink"}
      PROVE  Shift' = 0 /\ \A x : lab_loc'[x] \in Int => VLab(x)' = lab_loc'[x]
  <2>1. Shift' = 0
    BY <1>2 DEF PassInv, Shift
  <2> QED BY <2>1 DEF VLab
<1> QED BY <1>1, <1>2

-----------------------------------------------------------------------------
(* The labels and targets of instructions that are emitted.                *)

\* A function begins with no labels and no jumps.
LEMMA GetCodeLands ==
    ASSUME LayoutInv, NEW s \in Sources \cup More, GetCode(s)
    PROVE  LandInv'
<1>1. pc = "idle" /\ pc' = "gen" /\ loc' = NoLocals /\ jmps' = jmps
  BY DEF GetCode, tables
<1>2. jmps' = <<>>
  BY <1>1 DEF LayoutInv, PassInv
<1>3. loc'.i = 1
  BY <1>1 DEF NoLocals
<1>4. DOMAIN VJmps' = {}
  BY <1>2, LandDomainsNext
<1>5. TargetsInv'
  BY <1>4 DEF TargetsInv, TargetsAt
<1>6. LabelsInv'
  <2>1. Labelled' = 1 .. 0
    BY <1>1, <1>3 DEF Labelled
  <2>2. \A x : x \notin Labelled'
    BY <2>1
  <2> QED BY <2>2 DEF LabelsInv
<1>7. RetLab'
  <2>1. There' = 0
    BY <1>1, <1>3 DEF There
  <2> QED BY <2>1 DEF RetLab
<1>8. CursorInv' /\ PadsLab' /\ FitInv' /\ WriteInv'
  BY <1>1 DEF CursorInv, PadsLab, FitInv, WriteInv
<1> QED BY <1>1, <1>5, <1>6, <1>7, <1>8 DEF LandInv

\* A jump that is emitted has the label of its target.
LEMMA EmitDst ==
    ASSUME LayoutInv, Emit
    PROVE  /\ ic[loc.i].op \in {"jmp", "jz", "ret"} =>
                jmps' = Append(jmps, [off |-> Len(cs') - SIZE_W, dst |-> Dst(ic, loc.i - 1)])
           /\ ic[loc.i].op \notin {"jmp", "jz", "ret"} => jmps' = jmps
<1>1. loc.i \in Nat \ {0} /\ (loc.i - 1) + 1 = loc.i
  BY DEF LayoutInv, Types, Locals
<1>2. Dst(ic, loc.i - 1) = IF ic[loc.i].op = "ret" THEN LAB_RET ELSE ic[loc.i].a3 + 1
  BY <1>1 DEF Dst
<1>3. CASE EmitPlain \/ EmitSym \/ EmitCall \/ EmitCallSym
  BY <1>3 DEF EmitPlain, EmitSym, EmitCall, EmitCallSym, Emitting
<1>4. CASE EmitJump
  BY <1>2, <1>4 DEF EmitJump, Emitting
<1>5. CASE EmitRet
  BY <1>2, <1>5 DEF EmitRet, Emitting
<1> QED BY <1>3, <1>4, <1>5 DEF Emit

\* Emitting an instruction.
LEMMA EmitLands ==
    ASSUME LayoutInv, LayoutInv', LandInv, Emit
    PROVE  LandInv'
<1>1. PICK m, d : Issues(m, d)
  BY EmitIssues
<1> DEFINE k == loc.i - 1
<1>2. /\ pc = "gen" /\ pc' = "gen" /\ ic' = ic /\ Appended(ic, cs, cs', k, m) /\ loc' = [loc EXCEPT !.i = @ + 1]
      /\ lab_loc' = LabAdd(lab_loc, loc.i, Len(cs)) /\ loc.i <= Len(ic)
      /\ jmp_ret' = IF ic[loc.i].op = "ret" THEN Len(cs) ELSE jmp_ret
  BY <1>1 DEF Issues
<1>3. /\ Types /\ PassInv /\ loc.i \in Nat \ {0} /\ loc'.i = loc.i + 1 /\ Types' /\ PassInv'
      /\ jmps \in Seq([off : Int, dst : Nat]) /\ jmps' \in Seq([off : Int, dst : Nat])
  <2>1. loc \in Locals
    BY DEF LayoutInv, Types
  <2>2. loc'.i = loc.i + 1
    BY <1>2, <2>1, LocNext
  <2> QED BY <2>1, <2>2 DEF LayoutInv, Types, Locals
<1>4. /\ Virtual = cs /\ Virtual' = cs' /\ VJmps = Offs /\ VJmps' = Offs'
  BY <1>2, <1>3, Standing, StandingNext
<1>5. /\ ic \in Seq(Ins) /\ Len(ic) \in Nat \ {0} /\ Labels(lab_loc) /\ Virtual \in Seq(BitT) /\ There = k
      /\ CodeAt(ic, Virtual, There, Beside, VRels) /\ JumpsAt(ic, Virtual, There, VJmps, Field)
      /\ Given \subseteq DOMAIN lab_loc
  BY <1>2, CodeFacts DEF There
<1>6. k + 1 = loc.i /\ loc.i \in DOMAIN ic
  BY <1>2, <1>3, <1>5
<1>7. Reals(cs) = InstrBits(ic, k)
  <2>1. PICK B \in {{}} : Reals(cs) = B \cup InstrBits(ic, k)
    BY <1>2, <1>4, <1>5 DEF CodeAt, Beside
  <2> QED BY <2>1
<1>8. Width(ic, k) > 0 \/ m = 0
  <2>1. m = IF ic[loc.i].op \in {"jmp", "jz", "ret"} THEN SZ_SZ + SIZE_W ELSE 0
    BY <1>1 DEF Issues
  <2>2. CASE ic[loc.i].op \in {"jmp", "jz", "ret"}
    <3>1. k + 1 = loc.i /\ loc.i \in DOMAIN ic
      BY <1>2, <1>3, <1>5
    <3>2. ic[loc.i].w \in Nat
      <4>1. ic[loc.i] \in Ins
        BY <1>5, <3>1
      <4> QED BY <4>1 DEF Ins
    <3>3. Width(ic, k) = ic[loc.i].w + JumpHead
      <4> HIDE DEF k
      <4> QED BY <2>2, <3>1 DEF Width
    <3> QED BY <3>2, <3>3, ConstantsAre
  <2> QED BY <2>1, <2>2
<1>9. /\ \A p : \A x \in Int : x <= k /\ LabelAt(ic, cs, p, x) => LabelAt(ic, cs', p, x)
      /\ LabelAt(ic, cs', Len(cs), k)
  BY <1>2, <1>7, <1>8, LabelAppended
<1>10. Len(cs) \in Nat /\ k \in Nat /\ k < loc.i /\ LAB_RET = 0
  BY <1>3, <1>4, <1>5 DEF LAB_RET
<1>11. /\ lab_loc'[loc.i] = Len(cs)
       /\ \A x \in DOMAIN lab_loc : x # loc.i => lab_loc'[x] = lab_loc[x]
  BY <1>2, <1>3, <1>5, <1>10, LabAddAt, SMTT(30)
<1>12. ASSUME NEW x \in 1 .. loc.i - 1
       PROVE  LabelAt(ic, cs, lab_loc[x], x - 1) /\ lab_loc[x] \in Int /\ x \in DOMAIN lab_loc
  <2>1. x \in Given /\ x \in Labelled /\ x # LAB_RET
    BY <1>2, <1>3, <1>10 DEF Given, Labelled
  <2>2. x \in DOMAIN lab_loc /\ lab_loc[x] \in Int
    BY <1>5, <2>1 DEF Labels
  <2>3. VLab(x) = lab_loc[x]
    BY <1>2, <1>3, <2>2, LandDomains
  <2>4. LabelAt(ic, cs, VLab(x), x - 1)
    BY <1>2, <1>4, <2>1 DEF LandInv, LabelsInv, LabelRank
  <2> QED BY <2>2, <2>3, <2>4
<1>13. LabelsInv'
  <2>1. ASSUME NEW x \in 1 .. loc.i
        PROVE  LabelAt(ic', Virtual', VLab(x)', LabelRank(ic', x))
    <3>1. LabelAt(ic, cs', lab_loc'[x], x - 1) /\ lab_loc'[x] \in Int
      <4>1. CASE x = loc.i
        BY <1>9, <1>10, <1>11, <4>1
      <4>2. CASE x # loc.i
        <5>1. x \in 1 .. loc.i - 1 /\ x - 1 \in Int /\ x - 1 <= k
          BY <1>3, <4>2
        <5>2. LabelAt(ic, cs, lab_loc[x], x - 1) /\ lab_loc[x] \in Int /\ x \in DOMAIN lab_loc
          BY <1>12, <5>1
        <5> QED BY <1>9, <1>11, <4>2, <5>1, <5>2
      <4> QED BY <4>1, <4>2
    <3>2. VLab(x)' = lab_loc'[x]
      BY <1>2, <1>3, <3>1, LandDomainsNext
    <3>3. x # LAB_RET
      BY <1>10
    <3> QED BY <1>2, <1>4, <3>1, <3>2, <3>3 DEF LabelRank
  <2>2. Labelled' = 1 .. loc.i
    BY <1>2, <1>3 DEF Labelled
  <2> QED BY <2>1, <2>2 DEF LabelsInv
<1>14. RetLab'
  <2>1. There' = loc.i
    BY <1>2, <1>3 DEF There
  <2> QED BY <1>2, <1>11, <2>1 DEF RetLab
<1>15. ASSUME NEW j \in 1 .. Len(jmps)
       PROVE  jmps[j].dst = Dst(ic, cs'[jmps[j].off - SZ_SZ][1])
  <2>1. DOMAIN Offs = 1 .. Len(jmps) /\ Offs[j] = jmps[j].off /\ Dests[j] = jmps[j].dst
    BY <1>3, OffsAre DEF Dests
  <2>2. Offs[j] \in Nat /\ Offs[j] - SZ_SZ - 1 \in 0 .. Len(cs) - 1 /\ SZ_SZ \in Nat
    BY <1>4, <1>5, <2>1, JumpsAre
  <2>3. Offs[j] - SZ_SZ \in 1 .. Len(cs)
    BY <1>10, <2>2
  <2>4. cs'[Offs[j] - SZ_SZ] = cs[Offs[j] - SZ_SZ]
    BY <1>2, <2>3 DEF Appended
  <2>5. Dests[j] = Dst(ic, cs[Offs[j] - SZ_SZ][1])
    BY <1>2, <1>4, <2>1 DEF LandInv, TargetsInv, TargetsAt
  <2> QED BY <2>1, <2>4, <2>5
<1>16. ASSUME NEW j \in DOMAIN jmps'
       PROVE  jmps'[j].dst = Dst(ic, cs'[jmps'[j].off - SZ_SZ][1])
  <2>1. CASE ic[loc.i].op \notin {"jmp", "jz", "ret"}
    <3>1. jmps' = jmps
      BY <2>1, EmitDst
    <3>2. j \in 1 .. Len(jmps)
      BY <1>3, <3>1
    <3> QED BY <1>15, <3>1, <3>2
  <2>2. CASE ic[loc.i].op \in {"jmp", "jz", "ret"}
    <3> DEFINE N == Len(jmps)
               r == [off |-> Len(cs') - SIZE_W, dst |-> Dst(ic, k)]
               r2 == [off |-> Len(cs) + Width(ic, k) + SZ_SZ, dst |-> d]
    <3>1. jmps' = Append(jmps, r) /\ jmps' = Append(jmps, r2)
      BY <1>1, <2>2, EmitDst DEF Issues
    <3>2. Width(ic, k) \in Nat /\ SZ_SZ \in Nat /\ SIZE_W \in Nat /\ Len(cs') \in Nat /\ d \in Nat
      BY <1>1, <1>2, <1>3, ConstantsAre, SMTT(30) DEF Appended, Issues, Types
    <3> HIDE DEF r, r2, N
    <3>3. Dst(ic, k) \in Nat
      <4>1. k + 1 = loc.i /\ loc.i \in DOMAIN ic
        BY <1>6
      <4>2. ic[loc.i] \in Ins
        BY <1>5, <4>1
      <4>3. ic[k + 1].a3 \in Nat
        BY <4>1, <4>2 DEF Ins
      <4> QED BY <4>3 DEF Dst, LAB_RET
    <3>4. /\ r.dst = Dst(ic, k) /\ r2.off = Len(cs) + Width(ic, k) + SZ_SZ
          /\ r \in [off : Int, dst : Nat] /\ r2 \in [off : Int, dst : Nat]
      BY <1>10, <3>2, <3>3 DEF r, r2
    <3> HIDE DEF k
    <3>5. N \in Nat /\ DOMAIN jmps' = 1 .. N + 1 /\ jmps'[N + 1] = r /\ jmps'[N + 1] = r2
          /\ \A i \in 1 .. N : jmps'[i] = jmps[i]
      <4>1. /\ Len(Append(jmps, r)) = Len(jmps) + 1 /\ Append(jmps, r)[Len(jmps) + 1] = r
            /\ \A i \in 1 .. Len(jmps) : Append(jmps, r)[i] = jmps[i]
            /\ Append(jmps, r2)[Len(jmps) + 1] = r2
        BY <1>3, <3>4, AppendProperties
      <4>2. Len(jmps) \in Nat /\ DOMAIN jmps' = 1 .. Len(jmps')
        BY <1>3
      <4> QED BY <3>1, <4>1, <4>2 DEF N
    <3>6. CASE j \in 1 .. N
      BY <1>15, <3>5, <3>6 DEF N
    <3>7. CASE j = N + 1
      <4>1. jmps'[j].dst = Dst(ic, k) /\ jmps'[j].off = Len(cs) + Width(ic, k) + SZ_SZ
        BY <3>4, <3>5, <3>7
      <4>2. Width(ic, k) \in Nat /\ SZ_SZ \in Nat
        BY <1>2, ConstantsAre DEF Appended
      <4>3. Width(ic, k) > 0
        <5>1. m = SZ_SZ + SIZE_W
          BY <1>1, <2>2 DEF Issues
        <5> QED BY <1>8, <5>1, ConstantsAre
      <4>4. cs'[Len(cs) + Width(ic, k)] = <<k, Width(ic, k)>>
        <5>1. Width(ic, k) \in 1 .. Width(ic, k)
          BY <4>2, <4>3
        <5> QED BY <1>2, <5>1 DEF Appended
      <4>5. jmps'[j].off - SZ_SZ = Len(cs) + Width(ic, k)
        BY <1>10, <4>1, <4>2
      <4> QED BY <4>1, <4>4, <4>5
    <3> QED BY <3>5, <3>6, <3>7
  <2> QED BY <2>1, <2>2
<1>17. TargetsInv'
  <2>1. ASSUME NEW j \in DOMAIN jmps'
        PROVE  Offs'[j] = jmps'[j].off /\ Dests'[j] = jmps'[j].dst
    BY DEF Offs, Dests
  <2>2. DOMAIN VJmps' = DOMAIN jmps'
    BY LandDomainsNext
  <2> QED BY <1>2, <1>4, <1>16, <2>1, <2>2 DEF TargetsInv, TargetsAt
<1>18. CursorInv' /\ PadsLab' /\ FitInv' /\ WriteInv'
  BY <1>2 DEF CursorInv, PadsLab, FitInv, WriteInv
<1> QED BY <1>2, <1>13, <1>14, <1>17, <1>18 DEF LandInv

\* The code ends with a label.
LEMMA GeneratedLands ==
    ASSUME LayoutInv, LayoutInv', LandInv, Generated
    PROVE  LandInv'
<1>1. /\ pc = "gen" /\ pc' = "wrap" /\ loc.i = Len(ic) + 1 /\ lab_loc' = LabAdd(lab_loc, loc.i, Len(cs))
      /\ ic' = ic /\ cs' = cs /\ jmps' = jmps /\ loc' = loc /\ jmp_ret' = jmp_ret
  BY DEF Generated
<1>2. /\ Types /\ PassInv /\ Types' /\ PassInv' /\ loc.i \in Nat /\ cs \in Seq(BitT)
  BY DEF LayoutInv, Types, Locals
<1>3. /\ Virtual = cs /\ Virtual' = cs' /\ VJmps = Offs /\ VJmps' = Offs'
  BY <1>1, <1>2, Standing, StandingNext
<1>4. /\ Len(ic) \in Nat \ {0} /\ Labels(lab_loc) /\ Given \subseteq DOMAIN lab_loc /\ Len(cs) \in Nat
  BY <1>1, <1>2, CodeFacts
<1>5. \A x \in DOMAIN lab_loc : x # loc.i => lab_loc'[x] = lab_loc[x]
  BY <1>1, <1>2, <1>4, LabAddAt
<1>6. ASSUME NEW x \in 1 .. Len(ic)
      PROVE  lab_loc'[x] = lab_loc[x] /\ lab_loc[x] \in Int /\ x \in Labelled
  <2>1. x \in Given /\ x # loc.i /\ x \in Labelled
    BY <1>1, <1>4 DEF Given, Labelled
  <2>2. x \in DOMAIN lab_loc
    BY <1>4, <2>1
  <2> QED BY <1>4, <1>5, <2>1, <2>2 DEF Labels
<1>7. LabelsInv'
  <2>1. Labelled' = 1 .. Len(ic)
    BY <1>1 DEF Labelled
  <2>2. ASSUME NEW x \in 1 .. Len(ic)
        PROVE  LabelAt(ic', Virtual', VLab(x)', LabelRank(ic', x))
    <3>1. VLab(x) = lab_loc[x] /\ VLab(x)' = lab_loc'[x]
      BY <1>1, <1>2, <1>6, LandDomains, LandDomainsNext
    <3>2. LabelAt(ic, Virtual, VLab(x), LabelRank(ic, x))
      BY <1>1, <1>6 DEF LandInv, LabelsInv
    <3> QED BY <1>1, <1>3, <1>6, <3>1, <3>2
  <2> QED BY <2>1, <2>2 DEF LabelsInv
<1>8. RetLab'
  <2>1. There = Len(ic) /\ There' = Len(ic)
    BY <1>1, <1>4 DEF There
  <2>2. Len(ic) \in 1 .. Len(ic)
    BY <1>4
  <2> QED BY <1>1, <1>6, <2>1, <2>2 DEF LandInv, RetLab
<1>9. TargetsInv'
  <2>1. Offs' = Offs /\ Dests' = Dests
    BY <1>1 DEF Offs, Dests
  <2>2. TargetsAt(ic, Virtual, VJmps, Dests)
    BY <1>1 DEF LandInv, TargetsInv
  <2> QED BY <1>1, <1>3, <2>1, <2>2 DEF TargetsInv
<1>10. CursorInv' /\ PadsLab' /\ FitInv' /\ WriteInv'
  BY <1>1 DEF CursorInv, PadsLab, FitInv, WriteInv
<1> QED BY <1>1, <1>7, <1>8, <1>9, <1>10 DEF LandInv

\* A step that changes nothing.
LEMMA StutterLands == LandInv /\ UNCHANGED vars => LandInv'
<1> SUFFICES ASSUME LandInv, UNCHANGED vars PROVE LandInv'
  OBVIOUS
<1> USE DEF vars, tables, outs
<1>1. /\ ic' = ic /\ Virtual' = Virtual /\ VJmps' = VJmps /\ Dests' = Dests /\ Labelled' = Labelled
      /\ There' = There
  BY DEF Virtual, VJmps, Offs, Shift, Dests, Labelled, There
<1>2. TargetsInv => TargetsInv'
  BY <1>1 DEF TargetsInv
<1>3. \A x : VLab(x)' = VLab(x)
  BY DEF VLab, Shift
<1>4. LabelsInv => LabelsInv'
  BY <1>1, <1>3 DEF LabelsInv
<1>5. (CursorInv => CursorInv') /\ (RetLab => RetLab') /\ (PadsLab => PadsLab')
  BY <1>1, <1>3 DEF CursorInv, RetLab, PadsLab
<1>6. FitInv => FitInv'
  <2>1. ASSUME NEW j \in DOMAIN jmps
        PROVE  VDist(j)' = VDist(j)
    BY <1>1, <1>3 DEF VDist, Field
  <2> QED BY <2>1 DEF FitInv
<1>7. WriteInv => WriteInv'
  BY DEF WriteInv, Distance
<1> QED BY <1>1, <1>2, <1>4, <1>5, <1>6, <1>7 DEF LandInv

\* The frame comes around the code.
LEMMA WrapLands ==
    ASSUME LayoutInv, LayoutInv', LandInv, NEW f \in Frames, Wrap(f)
    PROVE  LandInv'
<1>1. PICK e : WrapsAt(f, e)
  BY WrapKeeps
<1> DEFINE A == f[1]
           n == Len(ic)
<1>2. /\ pc = "wrap" /\ pc' = "align" /\ ic' = ic
      /\ pads' = [p \in DOMAIN pads |-> pads[p] + f[1]] /\ loc'.i = 1 /\ loc'.lab = 1 /\ loc'.diff = 0
  BY DEF Wrap, NoLocals, LAB_RET
<1>3. /\ Types /\ PassInv /\ Types' /\ PassInv' /\ jmps \in Seq([off : Int, dst : Nat]) /\ pads \in Seq(Int)
  BY DEF LayoutInv, Types
<1>4. /\ A \in Nat /\ f[2] \in Nat \ {0}
  BY LayoutAssumption
<1>5. /\ e = jmp_ret /\ e \in Nat /\ Framed(Virtual, Virtual', f, e)
      /\ \A i \in DOMAIN pads : pads[i] <= e
      /\ Shift' = 0 /\ FrameMoves(VJmps, Field, VJmps', Field', Len(jmps) - 1, f[1], e)
  BY <1>1 DEF WrapsAt
<1>6. /\ Len(ic) \in Nat \ {0} /\ Labels(lab_loc) /\ Given \subseteq DOMAIN lab_loc /\ Virtual \in Seq(BitT)
      /\ JumpsAt(ic, Virtual, There, VJmps, Field) /\ Complies(ic)
  BY <1>2, CodeFacts
<1>7. /\ CodeAt(ic, Virtual', There', Beside', VRels') /\ There' = Len(ic) - 1
      /\ Beside' = {Framing(g) : g \in Frames}
  BY <1>2, CodeFactsNext DEF There, Beside
<1>8. PICK g \in Frames : Reals(Virtual') = Framing(g) \cup InstrBits(ic, n - 1)
  BY <1>7 DEF CodeAt
<1>9. /\ n - 1 \in Nat /\ n = (n - 1) + 1 /\ n \in 1 .. n
  BY <1>6
<1>10. LAB_RET = 0
  BY DEF LAB_RET
<1>11. /\ lab_loc'[LAB_RET] = e + A
       /\ \A x \in DOMAIN lab_loc : x # LAB_RET => lab_loc'[x] = lab_loc[x] + A
  <2> DEFINE L2 == LabAdd(lab_loc, LAB_RET, e)
  <2>1. L2[LAB_RET] = e /\ (\A x \in DOMAIN lab_loc : x # LAB_RET => L2[x] = lab_loc[x])
    BY <1>5, <1>6, <1>10, LabAddAt
  <2>2. \A x \in DOMAIN lab_loc \cup {LAB_RET} : x \in DOMAIN L2
    BY <1>5, <1>6, <1>10, LabAddIs
  <2>3. lab_loc' = [l \in DOMAIN L2 |-> L2[l] + A]
    BY <1>1 DEF WrapsAt
  <2> HIDE DEF L2
  <2> QED BY <2>1, <2>2, <2>3
<1>12. ASSUME NEW x \in 1 .. n
       PROVE  /\ LabelAt(ic, Virtual, lab_loc[x], x - 1) /\ lab_loc[x] \in Int
              /\ VLab(x)' = lab_loc[x] + A
  <2>1. x \in Given /\ x \in Labelled /\ x # LAB_RET
    BY <1>2, <1>6, <1>10 DEF Given, Labelled
  <2>2. x \in DOMAIN lab_loc /\ lab_loc[x] \in Int
    BY <1>6, <2>1 DEF Labels
  <2>3. VLab(x) = lab_loc[x]
    BY <1>2, <1>3, <2>2, LandDomains
  <2>4. LabelAt(ic, Virtual, VLab(x), x - 1)
    BY <1>2, <2>1 DEF LandInv, LabelsInv, LabelRank
  <2>5. lab_loc'[x] = lab_loc[x] + A
    BY <1>11, <2>1, <2>2
  <2>6. VLab(x)' = lab_loc[x] + A
    BY <1>4, <1>5, <2>2, <2>5 DEF VLab
  <2> QED BY <2>2, <2>3, <2>4, <2>6
<1>13. lab_loc[n] = e
  <2>1. There = Len(ic) /\ Len(ic) > 0 /\ ic[Len(ic)].op = "ret"
    BY <1>2, <1>6 DEF There, Complies
  <2>2. lab_loc[There] = jmp_ret
    BY <1>2, <2>1 DEF LandInv, RetLab
  <2> QED BY <1>5, <2>1, <2>2
<1>14. ASSUME NEW x \in 1 .. n
       PROVE  LabelAt(ic, Virtual', VLab(x)', x - 1)
  <2>1. LabelAt(ic, Virtual, lab_loc[x], x - 1) /\ LabelAt(ic, Virtual, e, n - 1)
    BY <1>9, <1>12, <1>13
  <2>2. x - 1 \in Int /\ n - 1 \in Int /\ x - 1 <= n - 1 /\ x - 1 \in 0 .. Len(ic)
    BY <1>6
  <2>3. Len(ic) \in Nat
    BY <1>6
  <2>4. lab_loc[x] <= e
    BY <1>6, <2>1, <2>2, <2>3, LabelsRise
  <2>5. f[2] > 0
    BY <1>4
  <2>6. LabelAt(ic, Virtual', lab_loc[x] + f[1], x - 1)
    BY <1>5, <2>1, <2>2, <2>3, <2>4, <2>5, LabelFramed
  <2> QED BY <1>12, <2>6
<1>15. LabelAt(ic, Virtual', VLab(LAB_RET)', Len(ic))
  <2>1. VLab(LAB_RET)' = e + A
    BY <1>4, <1>5, <1>11 DEF VLab
  <2>2. LabelAt(ic, Virtual', e + A, n - 1)
    BY <1>9, <1>12, <1>13, <1>14
  <2>3. Len(ic) = (n - 1) + 1
    BY <1>9
  <2>4. LabelAt(ic, Virtual', e + A, (n - 1) + 1)
    BY <1>8, <1>9, <2>2, <2>3, LabelNext
  <2> QED BY <2>1, <2>3, <2>4
<1>16. LabelsInv'
  <2>1. Labelled' = 0 .. Len(ic)
    BY <1>2 DEF Labelled
  <2>2. ASSUME NEW x \in 0 .. Len(ic)
        PROVE  LabelAt(ic', Virtual', VLab(x)', LabelRank(ic', x))
    <3>1. CASE x = 0
      BY <1>2, <1>10, <1>15, <3>1 DEF LabelRank
    <3>2. CASE x # 0
      <4>1. x \in 1 .. n
        BY <3>2
      <4> QED BY <1>2, <1>10, <1>14, <3>2, <4>1 DEF LabelRank
    <3> QED BY <3>1, <3>2
  <2> QED BY <2>1, <2>2 DEF LabelsInv
<1>17. TargetsInv'
  <2>1. ASSUME NEW j \in DOMAIN VJmps'
        PROVE  Dests'[j] = Dst(ic, Virtual'[VJmps'[j] - SZ_SZ][1])
    <3>1. PICK N : N = Len(jmps) - 1
      OBVIOUS
    <3>2. /\ N \in Nat /\ DOMAIN VJmps = 1 .. N + 1 /\ DOMAIN VJmps' = 1 .. N
          /\ \A i \in 1 .. N : VJmps'[i] = VJmps[i] + A /\ VJmps[i] + Field[i] <= e
      BY <1>1, <1>5, <3>1 DEF WrapsAt, FrameMoves
    <3>3. j \in 1 .. N /\ j \in DOMAIN VJmps
      BY <3>2
    <3>4. /\ SZ_SZ \in Nat /\ VJmps[j] \in Nat /\ VJmps[j] - SZ_SZ - 1 \in 0 .. Len(Virtual) - 1
          /\ Field[j] \in Nat
      BY <1>6, <3>3, JumpsAre
    <3>5. PICK q : q = VJmps[j] - SZ_SZ
      OBVIOUS
    <3>6. VJmps[j] + Field[j] <= e /\ VJmps'[j] = VJmps[j] + A
      BY <3>2, <3>3
    <3>7. q \in 1 .. e /\ VJmps'[j] - SZ_SZ = A + q
      <4>1. PICK x, y, z, a, l : x = VJmps[j] /\ y = VJmps'[j] /\ z = Field[j] /\ a = A /\ l = Len(Virtual)
        OBVIOUS
      <4>2. /\ SZ_SZ \in Nat /\ x \in Nat /\ x - SZ_SZ - 1 \in 0 .. l - 1 /\ z \in Nat /\ a \in Nat
            /\ e \in Nat /\ x + z <= e /\ y = x + a /\ q = x - SZ_SZ /\ l \in Nat
        BY <1>4, <1>5, <1>6, <3>4, <3>5, <3>6, <4>1
      <4>3. q \in 1 .. e /\ y - SZ_SZ = a + q
        BY ONLY <4>2
      <4> QED BY <4>1, <4>3
    <3>8. Virtual'[A + q] = Virtual[q]
      BY <1>5, <3>7 DEF Framed
    <3>9. Dests[j] = Dst(ic, Virtual[q][1])
      BY <1>2, <3>3, <3>5 DEF LandInv, TargetsInv, TargetsAt
    <3>10. Dests'[j] = Dests[j]
      <4>1. Len(jmps') = N /\ jmps'[j].dst = jmps[j].dst
        BY <1>1, <3>1, <3>3 DEF WrapsAt
      <4>2. jmps' \in Seq([off : Int, dst : Nat])
        BY <1>3 DEF Types
      <4>3. j \in DOMAIN jmps' /\ j \in DOMAIN jmps
        BY <3>2, <3>3, LandDomains, LandDomainsNext
      <4> QED BY <4>1, <4>3 DEF Dests
    <3> QED BY <3>7, <3>8, <3>9, <3>10
  <2> QED BY <1>2, <2>1 DEF TargetsInv, TargetsAt
<1>18. CursorInv'
  <2>1. 1 \in 1 .. Len(ic) /\ \A x \in 1 .. Len(ic) : ~ (x < 1)
    BY <1>6
  <2> QED BY <1>2, <2>1 DEF CursorInv
<1>19. PadsLab'
  <2>1. VLab(Len(ic))' = e + A
    <3>1. PICK N : N = Len(ic)
      OBVIOUS
    <3>2. VLab(N)' = e + A
      BY <1>9, <1>12, <1>13, <3>1
    <3>3. VLab(Len(ic))' = VLab(N)'
      BY <1>2, <3>1 DEF VLab
    <3> QED BY <3>2, <3>3
  <2>2. ASSUME NEW k \in DOMAIN pads
        PROVE  pads'[k] + 0 <= e + A
    <3>1. pads[k] \in Int /\ pads'[k] = pads[k] + A /\ pads[k] <= e
      BY <1>2, <1>3, <1>5
    <3> QED BY <1>4, <1>5, <3>1
  <2>3. DOMAIN pads' = DOMAIN pads
    BY <1>2
  <2> QED BY <1>2, <2>1, <2>2, <2>3 DEF PadsLab
<1>20. RetLab' /\ FitInv' /\ WriteInv'
  BY <1>2 DEF RetLab, FitInv, WriteInv
<1> QED BY <1>2, <1>16, <1>17, <1>18, <1>19, <1>20 DEF LandInv

-----------------------------------------------------------------------------
(* Labels and targets while the code is moved.                             *)

\* Labels are numbers, in order.
LEMMA LabelsAre ==
    ASSUME LayoutInv, LandInv, pc \notin {"idle", "gen", "wrap"}
    PROVE  /\ Len(ic) \in Nat \ {0} /\ Shift \in Int
           /\ \E N \in Nat : DOMAIN lab_loc = 0 .. N - 1 /\ Len(ic) < N /\ LastLab = N - 1
           /\ \A x \in 0 .. Len(ic) : /\ x \in DOMAIN lab_loc /\ lab_loc[x] \in Int /\ VLab(x) \in Nat
                                      /\ LabelAt(ic, Virtual, VLab(x), LabelRank(ic, x))
           /\ \A x, y \in 1 .. Len(ic) : x <= y => VLab(x) <= VLab(y)
           /\ VLab(Len(ic)) <= VLab(LAB_RET)
<1>1. /\ Len(ic) \in Nat \ {0} /\ Labels(lab_loc) /\ Virtual \in Seq(BitT) /\ Given \subseteq DOMAIN lab_loc
  BY CodeFacts
<1>2. Shift \in Int
  <2>1. loc.diff \in Int
    BY DEF LayoutInv, Types, Locals
  <2> QED BY <2>1 DEF Shift
<1>3. Given = 0 .. Len(ic) + 1 /\ Labelled = 0 .. Len(ic)
  BY DEF Given, Labelled
<1>4. PICK N \in Nat : DOMAIN lab_loc = 0 .. N - 1
  BY <1>1 DEF Labels
<1>5. Len(ic) < N /\ LastLab = N - 1
  <2>1. Len(ic) \in DOMAIN lab_loc
    BY <1>1, <1>3
  <2>2. Cardinality(0 .. N - 1) = N
    <3>1. 0 \in Int /\ N - 1 \in Int
      BY <1>4
    <3>2. Cardinality(0 .. N - 1) = IF 0 > N - 1 THEN 0 ELSE (N - 1) - 0 + 1
      BY <3>1, FS_Interval
    <3> QED BY <3>2
  <2> QED BY <1>1, <1>4, <2>1, <2>2 DEF LastLab
<1>6. ASSUME NEW x \in 0 .. Len(ic)
      PROVE  /\ x \in DOMAIN lab_loc /\ lab_loc[x] \in Int /\ VLab(x) \in Nat
             /\ LabelAt(ic, Virtual, VLab(x), LabelRank(ic, x))
  <2>1. x \in DOMAIN lab_loc /\ lab_loc[x] \in Int
    <3>1. x \in Given
      BY <1>1, <1>3
    <3> QED BY <1>1, <3>1 DEF Labels
  <2>2. LabelAt(ic, Virtual, VLab(x), LabelRank(ic, x))
    BY <1>3 DEF LandInv, LabelsInv
  <2>3. VLab(x) \in Nat
    BY <2>2 DEF LabelAt
  <2> QED BY <2>1, <2>2, <2>3
<1>7. ASSUME NEW x \in 0 .. Len(ic), NEW y \in 0 .. Len(ic), LabelRank(ic, x) <= LabelRank(ic, y)
      PROVE  VLab(x) <= VLab(y)
  <2>1. PICK r, t : r = LabelRank(ic, x) /\ t = LabelRank(ic, y)
    OBVIOUS
  <2>2. r \in Int /\ t \in Int /\ r <= t
    BY <1>1, <1>7, <2>1 DEF LabelRank
  <2>3. LabelAt(ic, Virtual, VLab(x), r) /\ LabelAt(ic, Virtual, VLab(y), t)
    BY <1>6, <2>1
  <2>4. Len(ic) \in Nat
    BY <1>1
  <2> QED BY <1>1, <2>2, <2>3, <2>4, LabelsRise
<1>8. ASSUME NEW x \in 1 .. Len(ic)
      PROVE  LabelRank(ic, x) = x - 1 /\ x \in 0 .. Len(ic)
  BY DEF LabelRank, LAB_RET
<1>9. ASSUME NEW x \in 1 .. Len(ic), NEW y \in 1 .. Len(ic), x <= y
      PROVE  VLab(x) <= VLab(y)
  <2>1. LabelRank(ic, x) <= LabelRank(ic, y)
    BY <1>8, <1>9
  <2> QED BY <1>7, <1>8, <2>1
<1>10. VLab(Len(ic)) <= VLab(LAB_RET)
  <2>1. LAB_RET \in 0 .. Len(ic) /\ LabelRank(ic, LAB_RET) = Len(ic) /\ Len(ic) \in 1 .. Len(ic)
    BY <1>1 DEF LabelRank, LAB_RET
  <2>2. LabelRank(ic, Len(ic)) <= LabelRank(ic, LAB_RET)
    BY <1>1, <1>8, <2>1
  <2> QED BY <1>7, <1>8, <2>1, <2>2
<1> QED BY <1>1, <1>2, <1>4, <1>5, <1>6, <1>9, <1>10

\* A step of a pass: labels below lim, at p then, stay, and the others move.
LabelsGo(lim, p, b, P, Q, n) ==
    /\ lim \in Int /\ p = lim + Shift /\ P \in Nat /\ Q \in Nat /\ n \in Nat /\ P <= Q
    /\ b = Stop({l \in DOMAIN lab_loc : lab_loc[l] < lim}, loc.lab, LastLab)
    /\ \A x \in 1 .. Len(ic) : VLab(x) < p <=> VLab(x) < P
    /\ ~ (VLab(Len(ic)) < P)
    /\ lab_loc' = ShiftLabs(loc.lab, b, Shift) /\ loc'.lab = b /\ Shift' = Shift + (n - (Q - P))

\* So labels are where they have moved to.
LEMMA LabelsGone ==
    ASSUME LayoutInv, LandInv, pc \in {"align", "shrink"}, Len(cs) \in Nat,
           NEW lim, NEW p, NEW b, NEW P, NEW Q, NEW n, LabelsGo(lim, p, b, P, Q, n), Len(cs) <= p
    PROVE  /\ b \in 1 .. Len(ic)
           /\ \A x \in 1 .. Len(ic) : x < b => VLab(x) < P
           /\ \A x \in 0 .. Len(ic) : VLab(x)' = Moved(VLab(x), P, Q, n)
<1> DEFINE N == Len(ic)
           a == loc.lab
<1>1. /\ N \in Nat \ {0} /\ Shift \in Int
      /\ \A x \in 0 .. N : x \in DOMAIN lab_loc /\ lab_loc[x] \in Int /\ VLab(x) \in Nat
      /\ \A x, y \in 1 .. N : x <= y => VLab(x) <= VLab(y)
      /\ VLab(N) <= VLab(LAB_RET)
  BY LabelsAre
<1>2. PICK M \in Nat : DOMAIN lab_loc = 0 .. M - 1 /\ N < M /\ LastLab = M - 1
  BY LabelsAre
<1>3. a \in 1 .. N /\ \A x \in 1 .. N : x < a => VLab(x) < Len(cs)
  BY DEF LandInv, CursorInv
<1>4. /\ lim \in Int /\ p = lim + Shift /\ P \in Nat /\ Q \in Nat /\ n \in Nat /\ P <= Q
      /\ b = Stop({l \in DOMAIN lab_loc : lab_loc[l] < lim}, a, LastLab)
      /\ \A x \in 1 .. N : VLab(x) < p <=> VLab(x) < P
      /\ ~ (VLab(N) < P)
      /\ lab_loc' = ShiftLabs(a, b, Shift) /\ loc'.lab = b /\ Shift' = Shift + (n - (Q - P))
  BY DEF LabelsGo
<1> DEFINE R == [x \in 1 .. N |-> VLab(x)]
<1>5. \A x \in 1 .. N : x # LAB_RET
  BY DEF LAB_RET
<1>6. \A x \in 1 .. N : R[x] = lab_loc[x] + IF x >= a THEN Shift ELSE 0
  BY <1>5 DEF VLab
<1>7. b \in a .. N /\ \A x \in 1 .. N : x < b <=> R[x] < p
  <2>1. \A x, y \in 1 .. N : x <= y => R[x] <= R[y]
    BY <1>1
  <2>2. N \in 1 .. N
    BY <1>1
  <2>3. \A x \in 1 .. N : x < a => R[x] < p
    <3>1. ASSUME NEW x \in 1 .. N, x < a
          PROVE  VLab(x) < p
      <4>1. VLab(x) \in Int /\ p \in Int /\ VLab(x) < Len(cs)
        BY <1>1, <1>3, <1>4, <3>1
      <4> QED BY <4>1
    <3> QED BY <3>1
  <2>4. ~ (R[N] < p)
    BY <1>4, <2>2
  <2>5. \A x \in 0 .. M - 1 : lab_loc[x] \in Int
    <3>1. Labels(lab_loc)
      BY CodeFacts
    <3> QED BY <1>2, <3>1 DEF Labels
  <2>6. b = Stop({l \in DOMAIN lab_loc : lab_loc[l] < lim}, a, M - 1)
    BY <1>2, <1>4
  <2>7. N \in Nat /\ N < M /\ Shift \in Int
    BY <1>1, <1>2
  <2>8. a \in 1 .. N
    BY <1>3
  <2>9. lim \in Int /\ p = lim + Shift
    BY <1>4
  <2> HIDE DEF R, N, a
  <2>10. PICK d : d = Shift
    OBVIOUS
  <2>11. d \in Int /\ p = lim + d
    BY <2>7, <2>9, <2>10
  <2>12. PICK S : S = {l \in DOMAIN lab_loc : lab_loc[l] < lim}
    OBVIOUS
  <2>13. \A l : l \in S <=> l \in DOMAIN lab_loc /\ lab_loc[l] < lim
    BY <2>12
  <2>14. b = Stop(S, a, M - 1)
    BY <2>6, <2>12
  <2>15. LabelsStand(lab_loc, M, S, lim, N, a, d, p, R)
    BY <1>2, <1>6, <2>1, <2>3, <2>4, <2>5, <2>7, <2>10, <2>13 DEF LabelsStand
  <2>16. LabelsParted(b, a, N, p, R)
    BY <1>2, <2>7, <2>8, <2>9, <2>11, <2>14, <2>15, LabelStops
  <2> QED BY <2>16 DEF LabelsParted
<1>8. b \in 1 .. N /\ b >= a /\ b \in Nat /\ a \in Nat
  BY <1>1, <1>3, <1>7
<1>9. \A x \in 1 .. N : x < b <=> VLab(x) < P
  BY <1>4, <1>7
<1>10. ASSUME NEW x \in 1 .. N
       PROVE  VLab(x)' = Moved(VLab(x), P, Q, n)
  <2>1. x \in DOMAIN lab_loc /\ lab_loc[x] \in Int /\ x # LAB_RET /\ x \in Nat
    BY <1>1, <1>5
  <2>2. lab_loc'[x] = lab_loc[x] + IF Within(x, a, b) THEN Shift ELSE 0
    BY <1>4, <2>1 DEF ShiftLabs
  <2>3. VLab(x)' = lab_loc'[x] + IF x >= b THEN Shift + (n - (Q - P)) ELSE 0
    BY <1>4, <2>1 DEF VLab
  <2>4. VLab(x) = lab_loc[x] + IF x >= a THEN Shift ELSE 0
    BY <2>1 DEF VLab
  <2>5. x < b <=> VLab(x) < P
    BY <1>9
  <2> HIDE DEF a, N
  <2>6. PICK u, v, v2, u2, w : u = lab_loc[x] /\ v = VLab(x) /\ v2 = VLab(x)' /\ u2 = lab_loc'[x] /\ w = Shift
    OBVIOUS
  <2>7. Within(x, a, b) <=> a <= x /\ x < b
    BY DEF Within
  <2>8. v2 = IF v < P THEN v ELSE v + n - (Q - P)
    <3>1. u \in Int /\ w \in Int /\ P \in Nat /\ Q \in Nat /\ n \in Nat /\ x \in Nat /\ a \in Nat /\ b \in Nat /\ a <= b
      BY <1>1, <1>4, <1>8, <2>1, <2>6
    <3>2. u2 = u + IF a <= x /\ x < b THEN w ELSE 0
      BY <2>2, <2>6, <2>7
    <3>3. v2 = u2 + IF x >= b THEN w + (n - (Q - P)) ELSE 0
      BY <2>3, <2>6
    <3>4. v = u + IF x >= a THEN w ELSE 0
      BY <2>4, <2>6
    <3>5. x < b <=> v < P
      BY <2>5, <2>6
    <3> QED BY ONLY <3>1, <3>2, <3>3, <3>4, <3>5
  <2> QED BY <2>6, <2>8 DEF Moved
<1>11. VLab(LAB_RET)' = Moved(VLab(LAB_RET), P, Q, n)
  <2>1. LAB_RET \in DOMAIN lab_loc /\ lab_loc[LAB_RET] \in Int /\ VLab(LAB_RET) \in Nat
    <3>1. LAB_RET \in 0 .. N
      BY <1>1 DEF LAB_RET
    <3> QED BY <1>1, <3>1
  <2>2. lab_loc'[LAB_RET] = lab_loc[LAB_RET]
    <3>1. ~ Within(LAB_RET, a, b)
      BY <1>3, <1>8 DEF Within, LAB_RET
    <3> QED BY <1>4, <2>1, <3>1 DEF ShiftLabs
  <2>3. VLab(LAB_RET) = lab_loc[LAB_RET] + Shift /\ VLab(LAB_RET)' = lab_loc'[LAB_RET] + (Shift + (n - (Q - P)))
    BY <1>4 DEF VLab
  <2>4. ~ (VLab(LAB_RET) < P)
    <3>1. VLab(N) \in Nat
      BY <1>1
    <3> QED BY <1>1, <1>4, <2>1, <3>1
  <2> QED BY <1>1, <1>4, <2>1, <2>2, <2>3, <2>4 DEF Moved
<1>12. ASSUME NEW x \in 0 .. N
       PROVE  VLab(x)' = Moved(VLab(x), P, Q, n)
  <2>1. CASE x = 0
    BY <1>11, <2>1 DEF LAB_RET
  <2>2. CASE x # 0
    <3>1. x \in 1 .. N
      BY <2>2
    <3> QED BY <1>10, <3>1
  <2> QED BY <2>1, <2>2
<1> QED BY <1>8, <1>9, <1>12

\* And the places they have to be at, with the jumps.
LEMMA PassLands ==
    ASSUME LayoutInv, LandInv, pc \notin {"idle", "gen", "wrap"}, pc' \notin {"idle", "gen", "wrap"},
           ic' = ic, NEW P, NEW Q, NEW n, Splices(P, Q, n), Dests' = Dests,
           \A x \in 0 .. Len(ic) : VLab(x)' = Moved(VLab(x), P, Q, n)
    PROVE  /\ LabelsInv' /\ TargetsInv'
           /\ \A x \in 0 .. Len(ic) : VLab(x) < P \/ VLab(x) >= Q
<1>1. Spliced(Virtual, Virtual', P, Q, n) /\ JumpsMove(VJmps, Field, VJmps', Field', P, Q, n)
  BY DEF Splices
<1>2. JumpsAt(ic, Virtual, There, VJmps, Field) /\ Solid(HeadBits(ic, There))
  BY CodeFacts
<1>3. TargetsAt(ic, Virtual, VJmps, Dests)
  BY DEF LandInv, TargetsInv
<1>4. TargetsInv'
  <2>1. PICK N : N = There
    OBVIOUS
  <2>2. PICK s2, J2, F2 : s2 = Virtual' /\ J2 = VJmps' /\ F2 = Field'
    OBVIOUS
  <2>3. TargetsAt(ic, s2, J2, Dests)
    BY <1>1, <1>2, <1>3, <2>1, <2>2, TargetsMove
  <2> QED BY <2>2, <2>3 DEF TargetsInv
<1>5. ASSUME NEW x \in 0 .. Len(ic)
      PROVE  /\ LabelAt(ic, Virtual', VLab(x)', LabelRank(ic, x))
             /\ VLab(x) < P \/ VLab(x) >= Q
  <2>1. LabelAt(ic, Virtual, VLab(x), LabelRank(ic, x))
    BY LabelsAre
  <2>2. VLab(x)' = Moved(VLab(x), P, Q, n)
    OBVIOUS
  <2>3. PICK s2, v, r : s2 = Virtual' /\ v = VLab(x) /\ r = LabelRank(ic, x)
    OBVIOUS
  <2>4. (v < P \/ v >= Q) /\ LabelAt(ic, s2, Moved(v, P, Q, n), r)
    BY <1>1, <2>1, <2>3, LabelSpliced
  <2> QED BY <2>2, <2>3, <2>4
<1>6. LabelsInv'
  <2>1. Labelled' = 0 .. Len(ic)
    BY DEF Labelled
  <2> QED BY <1>5, <2>1 DEF LabelsInv
<1> QED BY <1>4, <1>5, <1>6

\* Jumps that are moved go where they did.
LEMMA DestsStay ==
    ASSUME jmps \in Seq([off : Int, dst : Nat]), NEW a, NEW b, NEW d \in Int, jmps' = ShiftJmps(a, b, d)
    PROVE  Dests' = Dests
<1>1. Len(jmps') = Len(jmps) /\ jmps' \in Seq([off : Int, dst : Nat])
  BY JmpsShift
<1>2. \A j \in DOMAIN jmps' : j \in DOMAIN jmps /\ jmps'[j].dst = jmps[j].dst
  BY JmpsShift
<1>3. DOMAIN jmps' = DOMAIN jmps
  BY <1>1
<1> QED BY <1>2, <1>3 DEF Dests

\* Padding goes in before what runs after a call.
LEMMA AlignLands ==
    ASSUME LayoutInv, LayoutInv', LandInv, AlignStep
    PROVE  LandInv'
<1>1. PICK P, n : AlignsAt(P, n)
  BY AlignKeeps
<1>2. /\ pc = "align" /\ pc' = "align" /\ ic' = ic /\ pads' = pads /\ loc.i <= Len(pads)
      /\ loc'.i = loc.i + 1 /\ loc'.diff = loc.diff + n
  <2>1. loc' = [loc EXCEPT !.rel = loc'.rel, !.jmp = loc'.jmp, !.lab = loc'.lab, !.i = loc.i + 1,
                           !.prev = loc'.prev, !.diff = loc'.diff]
    <3>1. loc \in Locals
      BY DEF LayoutInv, Types
    <3> QED BY <3>1 DEF AlignStep, Locals
  <2>2. loc \in Locals
    BY DEF LayoutInv, Types
  <2>3. loc'.i = loc.i + 1
    BY <2>1, <2>2 DEF Locals
  <2>4. pc = "align" /\ pc' = "align" /\ ic' = ic /\ pads' = pads /\ loc.i <= Len(pads)
    BY DEF AlignStep
  <2>5. loc'.diff = loc.diff + n
    BY <1>1, <2>4 DEF AlignsAt, Shift
  <2> QED BY <2>3, <2>4, <2>5
<1>3. /\ loc.i \in Nat \ {0} /\ loc.diff \in Int /\ pads \in Seq(Int) /\ jmps \in Seq([off : Int, dst : Nat])
      /\ cs \in Seq(BitT) /\ cs' \in Seq(BitT)
  BY DEF LayoutInv, Types, Locals
<1>4. /\ P = pads[loc.i] + loc.diff /\ Splices(P, P, n) /\ Len(cs) <= P /\ Len(cs') = P + n
      /\ Shift = loc.diff /\ Shift' = Shift + n
      /\ loc'.lab = Stop({l \in DOMAIN lab_loc : lab_loc[l] < pads[loc.i]}, loc.lab, LastLab)
  BY <1>1 DEF AlignsAt, Below
<1>5. P \in Nat /\ n \in Nat /\ pads[loc.i] \in Int /\ loc.i \in DOMAIN pads
  <2>1. loc.i \in DOMAIN pads
    BY <1>2, <1>3
  <2>2. pads[loc.i] \in Int
    BY <1>3, <2>1
  <2>3. Spliced(Virtual, Virtual', P, P, n)
    BY <1>4 DEF Splices
  <2>4. P \in Nat /\ n \in Nat
    BY <2>3 DEF Spliced
  <2> QED BY <2>1, <2>2, <2>4
<1>6. lab_loc' = ShiftLabs(loc.lab, loc'.lab, Shift)
  <2>1. lab_loc' = ShiftLabs(loc.lab, Stop({l \in DOMAIN lab_loc : Below(lab_loc[l], pads[loc.i])}, loc.lab, LastLab),
                             loc.diff)
    BY DEF AlignStep
  <2> QED BY <1>4, <2>1 DEF Below
<1>7. /\ Len(ic) \in Nat \ {0} /\ VLab(Len(ic)) \in Nat
      /\ \A x \in 0 .. Len(ic) : VLab(x) \in Nat
  <2>1. /\ Len(ic) \in Nat \ {0}
        /\ \A x \in 0 .. Len(ic) : /\ x \in DOMAIN lab_loc /\ lab_loc[x] \in Int /\ VLab(x) \in Nat
                                   /\ LabelAt(ic, Virtual, VLab(x), LabelRank(ic, x))
    BY <1>2, LabelsAre
  <2> QED BY <2>1
<1>8. P <= VLab(Len(ic))
  <2>1. loc.i >= loc.i
    BY <1>3
  <2> QED BY <1>2, <1>4, <1>5, <2>1 DEF LandInv, PadsLab
<1>9. LabelsGo(pads[loc.i], P, loc'.lab, P, P, n)
  <2>1. ~ (VLab(Len(ic)) < P)
    BY <1>5, <1>7, <1>8
  <2>2. Shift' = Shift + (n - (P - P)) /\ P <= P
    BY <1>3, <1>4, <1>5, SMTT(30)
  <2>3. P = pads[loc.i] + Shift
    BY <1>4
  <2> QED BY <1>4, <1>5, <1>6, <2>1, <2>2, <2>3 DEF LabelsGo
<1>10. /\ loc'.lab \in 1 .. Len(ic)
       /\ \A x \in 1 .. Len(ic) : x < loc'.lab => VLab(x) < P
       /\ \A x \in 0 .. Len(ic) : VLab(x)' = Moved(VLab(x), P, P, n)
  <2>1. Len(cs) \in Nat /\ pc \in {"align", "shrink"}
    BY <1>2, <1>3
  <2>2. PICK lim, b : lim = pads[loc.i] /\ b = loc'.lab
    OBVIOUS
  <2>3. LabelsGo(lim, P, b, P, P, n)
    BY <1>9, <2>2
  <2>4. /\ b \in 1 .. Len(ic)
        /\ \A x \in 1 .. Len(ic) : x < b => VLab(x) < P
        /\ \A x \in 0 .. Len(ic) : VLab(x)' = Moved(VLab(x), P, P, n)
    BY <1>4, <2>1, <2>3, LabelsGone
  <2> QED BY <2>2, <2>4
<1>11. LabelsInv' /\ TargetsInv'
  <2>1. Dests' = Dests
    <3>1. PICK a, b : jmps' = ShiftJmps(a, b, loc.diff)
      BY DEF AlignStep
    <3> QED BY <1>3, <3>1, DestsStay
  <2>2. pc \notin {"idle", "gen", "wrap"} /\ pc' \notin {"idle", "gen", "wrap"}
    BY <1>2
  <2> QED BY <1>2, <1>4, <1>10, <2>1, <2>2, PassLands
<1>12. CursorInv'
  <2>1. ASSUME NEW x \in 1 .. Len(ic), x < loc'.lab
        PROVE  VLab(x)' < Len(cs')
    <3>1. VLab(x) < P /\ x \in 0 .. Len(ic)
      BY <1>10, <2>1
    <3>2. VLab(x)' = VLab(x) /\ VLab(x) \in Nat
      BY <1>7, <1>10, <3>1 DEF Moved
    <3> QED BY <1>4, <1>5, <3>1, <3>2
  <2> QED BY <1>2, <1>10, <2>1 DEF CursorInv
<1>13. PadsLab'
  <2>1. PICK N : N = Len(ic)
    OBVIOUS
  <2>2. VLab(N)' = VLab(N) + n /\ VLab(N) \in Nat
    <3>1. N \in 0 .. Len(ic)
      BY <1>7, <2>1
    <3>2. VLab(N)' = Moved(VLab(N), P, P, n) /\ VLab(N) \in Nat
      BY <1>7, <1>10, <3>1
    <3>3. Moved(VLab(N), P, P, n) = VLab(N) + n
      BY <1>5, <1>8, <2>1, <3>2 DEF Moved
    <3> QED BY <3>2, <3>3
  <2>3. VLab(Len(ic))' = VLab(N)'
    BY <1>2, <2>1 DEF VLab
  <2>4. ASSUME NEW k \in DOMAIN pads, k >= loc.i + 1
        PROVE  pads[k] + loc'.diff <= VLab(N)'
    <3>1. k \in Nat /\ k >= loc.i /\ pads[k] \in Int
      BY <1>3, <2>4
    <3>2. pads[k] + loc.diff <= VLab(N)
      BY <1>2, <2>1, <3>1 DEF LandInv, PadsLab
    <3> QED BY <1>2, <1>3, <1>5, <2>2, <3>1, <3>2
  <2> QED BY <1>2, <2>3, <2>4 DEF PadsLab
<1>14. RetLab' /\ FitInv' /\ WriteInv'
  BY <1>2 DEF RetLab, FitInv, WriteInv
<1> QED BY <1>2, <1>11, <1>12, <1>13, <1>14 DEF LandInv

\* A jump goes to a label of the code, or of the epilogue.
LEMMA DstIn ==
    ASSUME LayoutInv, LandInv, pc # "idle", NEW j \in DOMAIN jmps
    PROVE  /\ jmps[j].dst \in 0 .. Len(ic) /\ j \in DOMAIN VJmps
           /\ \E k \in 0 .. There - 1 : /\ ic[k + 1].op \in {"jmp", "jz", "ret"} /\ jmps[j].dst = Dst(ic, k)
                                        /\ Virtual[VJmps[j] - SZ_SZ] = <<k, Width(ic, k)>>
<1>1. /\ ic \in Seq(Ins) /\ Len(ic) \in Nat \ {0} /\ Complies(ic) /\ Virtual \in Seq(BitT)
      /\ JumpsAt(ic, Virtual, There, VJmps, Field) /\ There \in 0 .. Len(ic)
  BY CodeFacts
<1>2. j \in DOMAIN VJmps
  BY LandDomains
<1>3. Virtual[VJmps[j] - SZ_SZ] \in HeadBits(ic, There)
  BY <1>1, <1>2, JumpsAre
<1>4. PICK k \in 0 .. There - 1 : /\ ic[k + 1].op \in {"jmp", "jz", "ret"}
                                  /\ Virtual[VJmps[j] - SZ_SZ] = <<k, Width(ic, k)>>
  BY <1>3 DEF HeadBits
<1>5. Dests[j] = Dst(ic, Virtual[VJmps[j] - SZ_SZ][1])
  BY <1>2 DEF LandInv, TargetsInv, TargetsAt
<1>6. jmps[j].dst = Dst(ic, k)
  BY <1>4, <1>5 DEF Dests
<1>7. Dst(ic, k) \in 0 .. Len(ic)
  <2>1. CASE ic[k + 1].op = "ret"
    BY <1>1, <2>1 DEF Dst, LAB_RET
  <2>2. CASE ic[k + 1].op # "ret"
    <3>1. k + 1 \in DOMAIN ic /\ Jumps(ic, k + 1)
      BY <1>1, <1>4, <2>2 DEF Jumps
    <3>2. ic[k + 1].a3 < Len(ic)
      BY <1>1, <3>1 DEF Complies
    <3>3. ic[k + 1] \in Ins
      BY <1>1, <3>1
    <3>4. ic[k + 1].a3 \in Nat
      BY <3>3 DEF Ins
    <3> QED BY <1>1, <2>2, <3>2, <3>4 DEF Dst
  <2> QED BY <2>1, <2>2
<1> QED BY <1>2, <1>4, <1>6, <1>7

\* The end of a pass: what it has left of the labels moves on.
LabelsEnd == \A x \in DOMAIN lab_loc :
    lab_loc'[x] = lab_loc[x] + IF x = LAB_RET \/ Within(x, loc.lab, LastLab + 1) THEN Shift ELSE 0

\* They are then where they had to be.
LEMMA PassEnds ==
    ASSUME LayoutInv, LandInv, pc \in {"align", "shrink"}, LabelsEnd, Shift' = 0
    PROVE  \A x \in 0 .. Len(ic) : VLab(x)' = VLab(x)
<1>1. /\ Len(ic) \in Nat \ {0} /\ Shift \in Int
      /\ \E N \in Nat : DOMAIN lab_loc = 0 .. N - 1 /\ Len(ic) < N /\ LastLab = N - 1
      /\ \A x \in 0 .. Len(ic) : /\ x \in DOMAIN lab_loc /\ lab_loc[x] \in Int /\ VLab(x) \in Nat
                                 /\ LabelAt(ic, Virtual, VLab(x), LabelRank(ic, x))
  BY LabelsAre
<1>2. loc.lab \in 1 .. Len(ic)
  BY DEF LandInv, CursorInv
<1>3. ASSUME NEW x \in 0 .. Len(ic)
      PROVE  VLab(x)' = VLab(x)
  <2>1. x \in DOMAIN lab_loc /\ lab_loc[x] \in Int
    BY <1>1
  <2>2. Within(x, loc.lab, LastLab + 1) <=> x >= loc.lab
    BY <1>1, <1>2 DEF Within
  <2>3. lab_loc'[x] = VLab(x)
    BY <2>1, <2>2 DEF LabelsEnd, VLab
  <2>4. VLab(x) \in Int
    BY <1>1
  <2>5. VLab(x)' = lab_loc'[x]
    BY <2>3, <2>4 DEF VLab
  <2> QED BY <2>3, <2>5
<1> QED BY <1>3

\* Where all stays, jumps and labels do.
LEMMA StaysLands ==
    ASSUME LayoutInv, LandInv, pc \notin {"idle", "gen", "wrap"}, pc' \notin {"idle", "gen", "wrap"},
           ic' = ic, Stays, Dests' = Dests, \A x \in 0 .. Len(ic) : VLab(x)' = VLab(x)
    PROVE  LabelsInv' /\ TargetsInv'
<1>1. Virtual' = Virtual /\ VJmps' = VJmps
  BY DEF Stays
<1>2. TargetsInv'
  BY <1>1 DEF LandInv, TargetsInv
<1>3. LabelsInv'
  <2>1. Labelled = 0 .. Len(ic) /\ Labelled' = 0 .. Len(ic)
    BY DEF Labelled
  <2> QED BY <1>1, <2>1 DEF LandInv, LabelsInv
<1> QED BY <1>2, <1>3

\* The end of i_align.
LEMMA AlignDoneLands ==
    ASSUME LayoutInv, LayoutInv', LandInv, AlignDone
    PROVE  LandInv'
<1>1. /\ pc = "align" /\ pc' = "sizes" /\ ic' = ic /\ jmps' = ShiftJmps(loc.jmp, Len(jmps) + 1, loc.diff)
      /\ lab_loc' = [ShiftLabs(loc.lab, LastLab + 1, loc.diff) EXCEPT ![LAB_RET] = @ + loc.diff]
      /\ loc' = NoLocals
  BY DEF AlignDone
<1>2. /\ loc.diff \in Int /\ jmps \in Seq([off : Int, dst : Nat])
  BY DEF LayoutInv, Types, Locals
<1>3. Shift = loc.diff /\ Shift' = 0
  BY <1>1 DEF Shift, NoLocals
<1>4. Stays
  BY AlignDoneKeeps
<1>5. Dests' = Dests
  BY <1>1, <1>2, DestsStay
<1>6. LabelsEnd
  <2>1. LAB_RET \in DOMAIN lab_loc /\ lab_loc[LAB_RET] \in Int
    BY <1>1, LabelsAre DEF LAB_RET
  <2>2. ~ Within(LAB_RET, loc.lab, LastLab + 1)
    BY <1>1 DEF LandInv, CursorInv, Within, LAB_RET
  <2> QED BY <1>1, <1>2, <1>3, <2>1, <2>2 DEF LabelsEnd, ShiftLabs
<1>7. \A x \in 0 .. Len(ic) : VLab(x)' = VLab(x)
  BY <1>1, <1>3, <1>6, PassEnds
<1>8. LabelsInv' /\ TargetsInv'
  BY <1>1, <1>4, <1>5, <1>7, StaysLands
<1>9. CursorInv' /\ PadsLab' /\ RetLab' /\ FitInv' /\ WriteInv'
  BY <1>1 DEF CursorInv, PadsLab, RetLab, FitInv, WriteInv
<1> QED BY <1>1, <1>8, <1>9 DEF LandInv

\* The sizes chosen are enough for the distances.
LEMMA JumpSizesLands ==
    ASSUME LayoutInv, LayoutInv', LandInv, JumpSizes
    PROVE  LandInv'
<1>1. /\ pc = "sizes" /\ pc' = "shrink" /\ ic' = ic /\ jmps' = jmps /\ lab_loc' = lab_loc
      /\ loc' = [loc EXCEPT !.c = cs, !.sz = [j \in DOMAIN jmps |-> ImmSize(LongDistance(j))]]
      /\ \A j \in DOMAIN jmps : \E k \in 1 .. Sizes : FitsIn(LongDistance(j), k)
  BY DEF JumpSizes, tables
<1>2. /\ Types /\ PassInv /\ loc = NoLocals
  BY <1>1 DEF LayoutInv, PassInv
<1>3. Shift' = 0 /\ Shift = 0 /\ loc.lab = 1 /\ loc'.lab = 1 /\ loc'.sz = [j \in DOMAIN jmps |-> ImmSize(LongDistance(j))]
  <2>1. loc' = [c |-> cs, i |-> 1, prev |-> 0, diff |-> 0, rel |-> 1, jmp |-> 1, lab |-> LAB_RET + 1,
                sz |-> [j \in DOMAIN jmps |-> ImmSize(LongDistance(j))]]
    BY <1>1, <1>2 DEF NoLocals
  <2>2. loc'.lab = LAB_RET + 1 /\ loc'.diff = 0 /\ loc'.sz = [j \in DOMAIN jmps |-> ImmSize(LongDistance(j))]
    BY <2>1
  <2>3. loc.lab = LAB_RET + 1 /\ loc.diff = 0
    BY <1>2 DEF NoLocals
  <2>4. LAB_RET + 1 = 1
    BY DEF LAB_RET
  <2>5. Shift' = -(loc'.diff) /\ Shift = loc.diff
    BY <1>1 DEF Shift
  <2>6. Shift' = 0 /\ Shift = 0
    <3>1. PICK d : d = loc'.diff
      OBVIOUS
    <3>2. d = 0
      BY <2>2, <3>1
    <3>3. -d = 0
      <4>1. \A x \in Int : -x = 0 - x
        OBVIOUS
      <4>2. d \in Int /\ 0 - d = 0
        BY <3>2
      <4>3. -d = 0 - d
        BY <4>1, <4>2, Zenon
      <4> QED BY <4>2, <4>3, Zenon
    <3> QED BY <2>3, <2>5, <3>1, <3>3
  <2>7. loc.lab = 1 /\ loc'.lab = 1
    BY <2>2, <2>3, <2>4
  <2> QED BY <2>2, <2>6, <2>7, Zenon
<1>4. /\ Len(ic) \in Nat \ {0}
      /\ \A x \in 0 .. Len(ic) : /\ x \in DOMAIN lab_loc /\ lab_loc[x] \in Int /\ VLab(x) \in Nat
                                 /\ LabelAt(ic, Virtual, VLab(x), LabelRank(ic, x))
  BY <1>1, LabelsAre
<1>5. \A x : VLab(x)' = VLab(x)
  BY <1>1, <1>3 DEF VLab
<1>6. Stays
  BY JumpSizesKeeps
<1>7. LabelsInv' /\ TargetsInv'
  <2>1. Dests' = Dests
    BY <1>1 DEF Dests
  <2> QED BY <1>1, <1>5, <1>6, <2>1, StaysLands
<1>8. CursorInv'
  <2>1. 1 \in 1 .. Len(ic) /\ \A x \in 1 .. Len(ic) : ~ (x < 1)
    BY <1>4
  <2> QED BY <1>1, <1>3, <2>1 DEF CursorInv
<1>9. FitInv'
  <2>1. ASSUME NEW j \in DOMAIN jmps
        PROVE  Fits(VDist(j)', loc'.sz[j])
    <3>1. VJmps[j] = jmps[j].off /\ jmps[j].off \in Int
      <4>1. VJmps = Offs /\ jmps \in Seq([off : Int, dst : Nat])
        BY <1>1, <1>2, Standing DEF Types
      <4>2. j \in 1 .. Len(jmps)
        BY <4>1
      <4> QED BY <4>1, <4>2, OffsAre
    <3>2. Field[j] = SIZE_W /\ SIZE_W \in Nat
      BY <1>1, ConstantsAre DEF Field
    <3>3. jmps[j].dst \in 0 .. Len(ic)
      BY <1>1, DstIn
    <3>4. VLab(jmps[j].dst) = lab_loc[jmps[j].dst] /\ lab_loc[jmps[j].dst] \in Int
      <4>1. lab_loc[jmps[j].dst] \in Int
        BY <1>4, <3>3
      <4> QED BY <1>1, <1>2, <4>1, LandDomains
    <3>5. VDist(j)' = LongDistance(j) /\ LongDistance(j) \in Int
      <4>1. VJmps' = VJmps /\ Field' = Field
        BY <1>6 DEF Stays
      <4> QED BY <1>1, <1>5, <3>1, <3>2, <3>4, <4>1 DEF VDist, LongDistance
    <3>6. PICK v : v = LongDistance(j)
      OBVIOUS
    <3>7. PICK k \in 1 .. Sizes : ImmSize(v) = SIZE_B * k /\ FitsIn(v, k)
      <4>1. \E k \in 1 .. Sizes : FitsIn(v, k)
        BY <1>1, <3>6
      <4> QED BY <4>1, ImmSizeIs
    <3>8. Fits(v, SIZE_B * k)
      BY <3>5, <3>6, <3>7, FitsInIs
    <3> QED BY <1>3, <3>5, <3>6, <3>7, <3>8
  <2> QED BY <1>1, <2>1 DEF FitInv
<1>10. PadsLab' /\ RetLab' /\ WriteInv'
  BY <1>1 DEF PadsLab, RetLab, WriteInv
<1> QED BY <1>1, <1>7, <1>8, <1>9, <1>10 DEF LandInv

\* The end of the shortening.
LEMMA ShrinkDoneLands ==
    ASSUME LayoutInv, LayoutInv', LandInv, ShrinkDone
    PROVE  LandInv'
<1>1. /\ pc = "shrink" /\ pc' = "write" /\ ic' = ic /\ jmps' = jmps
      /\ lab_loc' = [ShiftLabs(loc.lab, LastLab + 1, -loc.diff) EXCEPT ![LAB_RET] = @ - loc.diff]
      /\ loc' = [NoLocals EXCEPT !.sz = loc.sz]
  BY DEF ShrinkDone
<1>2. /\ loc.diff \in Int /\ jmps \in Seq([off : Int, dst : Nat])
  BY DEF LayoutInv, Types, Locals
<1>3. Shift = -loc.diff /\ Shift' = 0 /\ loc'.sz = loc.sz /\ loc'.i = 1
  BY <1>1 DEF Shift, NoLocals
<1>4. Stays
  BY ShrinkDoneKeeps
<1>5. Dests' = Dests
  BY <1>1 DEF Dests
<1>6. LabelsEnd
  <2>1. LAB_RET \in DOMAIN lab_loc /\ lab_loc[LAB_RET] \in Int
    BY <1>1, LabelsAre DEF LAB_RET
  <2>2. ~ Within(LAB_RET, loc.lab, LastLab + 1)
    BY <1>1 DEF LandInv, CursorInv, Within, LAB_RET
  <2> QED BY <1>1, <1>2, <1>3, <2>1, <2>2 DEF LabelsEnd, ShiftLabs
<1>7. \A x \in 0 .. Len(ic) : VLab(x)' = VLab(x)
  BY <1>1, <1>3, <1>6, PassEnds
<1>8. LabelsInv' /\ TargetsInv'
  BY <1>1, <1>4, <1>5, <1>7, StaysLands
<1>9. FitInv'
  <2>1. ASSUME NEW j \in DOMAIN jmps
        PROVE  Fits(VDist(j)', loc.sz[j])
    <3>1. jmps[j].dst \in 0 .. Len(ic)
      BY <1>1, DstIn
    <3>2. VLab(jmps[j].dst)' = VLab(jmps[j].dst)
      <4>1. PICK x : x = jmps[j].dst
        OBVIOUS
      <4>2. VLab(x)' = VLab(x)
        BY <1>7, <3>1, <4>1
      <4>3. VLab(jmps[j].dst)' = VLab(x)'
        BY <1>1, <4>1 DEF VLab
      <4> QED BY <4>1, <4>2, <4>3
    <3>3. VDist(j)' = VDist(j)
      BY <1>4, <3>2 DEF VDist, Stays
    <3> QED BY <1>1, <3>3 DEF LandInv, FitInv
  <2> QED BY <1>1, <1>3, <2>1 DEF FitInv
<1>10. WriteInv'
  <2>1. \A j \in DOMAIN jmps : ~ (j < 1)
    BY <1>2
  <2> QED BY <1>1, <1>3, <2>1 DEF WriteInv
<1>11. CursorInv' /\ PadsLab' /\ RetLab'
  BY <1>1 DEF CursorInv, PadsLab, RetLab
<1> QED BY <1>1, <1>8, <1>9, <1>10, <1>11 DEF LandInv

\* A jump is shortened: what is taken out is behind its immediate.
LEMMA ShrinkLands ==
    ASSUME LayoutInv, LayoutInv', LandInv, ShrinkStep
    PROVE  LandInv'
<1>1. PICK P, Q : ShrinksAt(P, Q)
  BY ShrinkKeeps
<1>2. /\ pc = "shrink" /\ pc' = "shrink" /\ ic' = ic /\ loc.i <= Len(jmps)
      /\ jmps' = ShiftJmps(loc.i, loc.i + 1, -loc.diff)
      /\ lab_loc' = ShiftLabs(loc.lab, Stop({l \in DOMAIN lab_loc : lab_loc[l] <= jmps[loc.i].off}, loc.lab, LastLab),
                              -loc.diff)
  BY DEF ShrinkStep
<1>3. /\ loc.i \in Nat \ {0} /\ loc.diff \in Int /\ jmps \in Seq([off : Int, dst : Nat])
      /\ cs \in Seq(BitT) /\ cs' \in Seq(BitT) /\ Labels(lab_loc)
  BY DEF LayoutInv, Types, Locals
<1>4. /\ P = VJmps[loc.i] + loc.sz[loc.i] /\ Q = VJmps[loc.i] + SIZE_W /\ Splices(P, Q, 0)
      /\ VJmps[loc.i] = jmps[loc.i].off + Shift /\ loc.sz[loc.i] \in 1 .. SIZE_W /\ Field[loc.i] = SIZE_W
      /\ Len(cs) <= VJmps[loc.i] /\ Len(cs') = P /\ Shift' = Shift + (0 - (Q - P))
      /\ loc'.lab = Stop({l \in DOMAIN lab_loc : lab_loc[l] <= jmps[loc.i].off}, loc.lab, LastLab)
  BY <1>1 DEF ShrinksAt
<1>5. Shift = -loc.diff /\ Shift \in Int
  BY <1>2, <1>3 DEF Shift
<1>6. loc.i \in DOMAIN jmps
  BY <1>2, <1>3
<1>7. /\ Len(ic) \in Nat \ {0}
      /\ \A x \in 0 .. Len(ic) : /\ x \in DOMAIN lab_loc /\ lab_loc[x] \in Int /\ VLab(x) \in Nat
                                 /\ LabelAt(ic, Virtual, VLab(x), LabelRank(ic, x))
  BY <1>2, LabelsAre
<1>8. /\ Virtual \in Seq(BitT) /\ JumpsAt(ic, Virtual, There, VJmps, Field) /\ There = Len(ic) - 1
  BY <1>2, CodeFacts DEF There
<1>9. PICK k \in 0 .. There - 1 : Virtual[VJmps[loc.i] - SZ_SZ] = <<k, Width(ic, k)>>
  BY <1>2, <1>6, DstIn
<1>10. PICK J, off, z, W, h, N, S, L : /\ J = VJmps[loc.i] /\ off = jmps[loc.i].off /\ z = loc.sz[loc.i] /\ W = SIZE_W
                                       /\ h = SZ_SZ /\ N = Len(ic) /\ S = Shift /\ L = Len(Virtual)
  OBVIOUS
<1>11. /\ J \in Nat /\ J - h - 1 \in 0 .. L - 1 /\ h \in Nat \ {0} /\ W \in Nat /\ L \in Nat
       /\ z \in 1 .. W /\ P = J + z /\ Q = J + W /\ J = off + S /\ off \in Int /\ N \in Nat \ {0} /\ S \in Int
  <2>1. loc.i \in DOMAIN VJmps
    BY <1>2, <1>6, DstIn
  <2>2. /\ h \in Nat \ {0} /\ J \in Nat /\ J - h - 1 \in 0 .. Len(Virtual) - 1 /\ Len(Virtual) \in Nat
    BY <1>8, <1>10, <2>1, JumpsAre
  <2>3. off \in Int
    <3>1. loc.i \in 1 .. Len(jmps)
      BY <1>3, <1>6
    <3> QED BY <1>3, <1>10, <3>1, OffsAre
  <2> QED BY <1>4, <1>5, <1>7, <1>10, <2>2, <2>3, ConstantsAre
<1>12. /\ P \in Nat /\ Q \in Nat /\ P <= Q /\ off + 1 \in Int /\ off + 1 + S = J + 1 /\ J - h \in 1 .. L
       /\ \A v \in Nat : v <= J - h - 1 \/ v >= J + W => (v < J + 1 <=> v < P)
       /\ \A y \in Int : y <= off <=> y < off + 1
       /\ \A v \in Nat : v >= J + W => ~ (v < P)
  BY ONLY <1>11
<1>13. loc.i \in DOMAIN VJmps
  BY <1>2, <1>6, DstIn
<1>14. ASSUME NEW x \in 0 .. Len(ic)
       PROVE  VLab(x) \in Nat /\ (VLab(x) <= J - h - 1 \/ VLab(x) >= J + W)
  <2>1. VLab(x) \in Nat /\ LabelAt(ic, Virtual, VLab(x), LabelRank(ic, x))
    BY <1>7
  <2> QED BY <1>4, <1>8, <1>10, <1>13, <2>1, LabelOutside
<1>15. ~ (VLab(Len(ic)) < P)
  <2>1. PICK v : v = VLab(Len(ic))
    OBVIOUS
  <2>2. N \in 0 .. N /\ N # LAB_RET
    BY <1>11 DEF LAB_RET
  <2>3. LabelAt(ic, Virtual, v, N - 1)
    BY <1>7, <1>10, <2>1, <2>2 DEF LabelRank
  <2>4. v \in Nat /\ (v <= J - h - 1 \/ v >= J + W)
    BY <1>10, <1>14, <2>1, <2>2
  <2>5. J - h \in DOMAIN Virtual /\ Virtual[J - h] = <<k, Width(ic, k)>>
    <3>1. DOMAIN Virtual = 1 .. L
      BY <1>8, <1>10
    <3> QED BY <1>9, <1>10, <1>12, <3>1
  <2>6. Real(Virtual[J - h]) /\ Rank(ic, Virtual[J - h]) = k
    <3>1. k \in Nat
      BY <1>9
    <3>2. k # Lit /\ k # Pro /\ k # Epi
      BY <3>1 DEF Lit, Pro, Epi
    <3> QED BY <2>5, <3>2 DEF Real, Rank
  <2>7. k < N - 1 /\ k \in Nat
    BY <1>8, <1>9, <1>10, <1>11
  <2>8. ~ (J - h > v)
    <3>1. J - h > v <=> Rank(ic, Virtual[J - h]) >= N - 1
      BY <2>3, <2>5, <2>6 DEF LabelAt
    <3>2. ~ (k >= N - 1)
      BY ONLY <1>11, <2>7
    <3> QED BY <2>6, <3>1, <3>2
  <2>9. v >= J + W
    <3>1. v \in Nat /\ (v <= J - h - 1 \/ v >= J + W)
      BY <2>4
    <3> QED BY ONLY <1>11, <2>8, <3>1
  <2> QED BY <1>12, <2>1, <2>4, <2>9
<1>16. \A x \in 1 .. Len(ic) : VLab(x) < off + 1 + Shift <=> VLab(x) < P
  <2>1. ASSUME NEW x \in 1 .. Len(ic)
        PROVE  VLab(x) < off + 1 + Shift <=> VLab(x) < P
    <3>1. x \in 0 .. Len(ic)
      BY <2>1
    <3>2. PICK v : v = VLab(x)
      OBVIOUS
    <3>3. v \in Nat /\ (v <= J - h - 1 \/ v >= J + W)
      BY <1>14, <3>1, <3>2
    <3>4. off + 1 + Shift = J + 1
      BY <1>10, <1>12
    <3>5. v < J + 1 <=> v < P
      BY <1>12, <3>3
    <3> QED BY <3>2, <3>4, <3>5
  <2> QED BY <2>1
<1>17. LabelsGo(off + 1, off + 1 + Shift, loc'.lab, P, Q, 0)
  <2>1. off + 1 \in Int /\ P \in Nat /\ Q \in Nat /\ P <= Q /\ off + 1 + Shift = (off + 1) + Shift
    BY <1>12
  <2>2. {l \in DOMAIN lab_loc : lab_loc[l] <= off} = {l \in DOMAIN lab_loc : lab_loc[l] < off + 1}
    <3>1. \A l \in DOMAIN lab_loc : lab_loc[l] \in Int
      BY <1>3 DEF Labels
    <3>2. \A l \in DOMAIN lab_loc : lab_loc[l] <= off <=> lab_loc[l] < off + 1
      BY <1>12, <3>1
    <3> QED BY <3>2
  <2>3. loc'.lab = Stop({l \in DOMAIN lab_loc : lab_loc[l] < off + 1}, loc.lab, LastLab)
    BY <1>4, <1>10, <2>2
  <2>4. lab_loc' = ShiftLabs(loc.lab, loc'.lab, Shift)
    BY <1>2, <1>4, <1>5
  <2> QED BY <1>4, <1>15, <1>16, <2>1, <2>3, <2>4 DEF LabelsGo
<1>18. /\ loc'.lab \in 1 .. Len(ic)
       /\ \A x \in 1 .. Len(ic) : x < loc'.lab => VLab(x) < P
       /\ \A x \in 0 .. Len(ic) : VLab(x)' = Moved(VLab(x), P, Q, 0)
  <2>1. Len(cs) \in Nat /\ pc \in {"align", "shrink"}
    BY <1>2, <1>3
  <2>2. PICK lim, b, p : lim = off + 1 /\ b = loc'.lab /\ p = off + 1 + Shift
    OBVIOUS
  <2>3. LabelsGo(lim, p, b, P, Q, 0)
    BY <1>17, <2>2
  <2>4. Len(cs) <= p
    <3>1. PICK m : m = Len(cs)
      OBVIOUS
    <3>2. m <= J /\ p = J + 1 /\ m \in Nat
      BY <1>4, <1>10, <1>12, <2>1, <2>2, <3>1
    <3>3. m <= p
      BY ONLY <1>11, <3>2
    <3> QED BY <3>1, <3>3
  <2>5. /\ b \in 1 .. Len(ic)
        /\ \A x \in 1 .. Len(ic) : x < b => VLab(x) < P
        /\ \A x \in 0 .. Len(ic) : VLab(x)' = Moved(VLab(x), P, Q, 0)
    BY <2>1, <2>3, <2>4, LabelsGone
  <2> QED BY <2>2, <2>5
<1>19. Dests' = Dests
  BY <1>2, <1>3, <1>5, DestsStay
<1>20. LabelsInv' /\ TargetsInv' /\ \A x \in 0 .. Len(ic) : VLab(x) < P \/ VLab(x) >= Q
  <2>1. pc \notin {"idle", "gen", "wrap"} /\ pc' \notin {"idle", "gen", "wrap"}
    BY <1>2
  <2> QED BY <1>2, <1>4, <1>18, <1>19, <2>1, PassLands
<1>21. CursorInv'
  <2>1. ASSUME NEW x \in 1 .. Len(ic), x < loc'.lab
        PROVE  VLab(x)' < Len(cs')
    <3>1. VLab(x) < P /\ x \in 0 .. Len(ic)
      BY <1>18, <2>1
    <3>2. VLab(x)' = VLab(x)
      BY <1>18, <3>1 DEF Moved
    <3> QED BY <1>4, <3>1, <3>2
  <2> QED BY <1>2, <1>18, <2>1 DEF CursorInv
<1>22. FitInv'
  <2>1. loc'.sz = loc.sz
    <3>1. loc \in Locals
      BY DEF LayoutInv, Types
    <3> QED BY <3>1 DEF ShrinkStep, Locals
  <2>2. DOMAIN jmps' = DOMAIN jmps
    BY <1>2 DEF ShiftJmps
  <2>3. /\ Spliced(Virtual, Virtual', P, Q, 0)
        /\ \A j \in DOMAIN VJmps : JumpMoves(VJmps[j], Field[j], VJmps'[j], Field'[j], P, Q, 0)
    BY <1>4 DEF Splices, JumpsMove
  <2>4. ASSUME NEW j \in DOMAIN jmps
        PROVE  Fits(VDist(j)', loc.sz[j])
    <3>1. jmps[j].dst \in 0 .. Len(ic) /\ j \in DOMAIN VJmps
      BY <1>2, DstIn
    <3>2. PICK t, x, f, x2, f2, s, l, l2 :
            /\ t = jmps[j].dst /\ x = VJmps[j] /\ f = Field[j] /\ x2 = VJmps'[j] /\ f2 = Field'[j]
            /\ s = loc.sz[j] /\ l = VLab(t) /\ l2 = VLab(t)'
      OBVIOUS
    <3>3. l2 = Moved(l, P, Q, 0) /\ (l < P \/ l >= Q) /\ l \in Int
      BY <1>7, <1>18, <1>20, <3>1, <3>2
    <3>4. x \in Nat /\ f \in Nat
      BY <1>8, <3>1, <3>2, JumpsAre
    <3>5. P \in Nat /\ Q \in Nat /\ P <= Q
      BY <1>12
    <3>6. JumpMoves(x, f, x2, f2, P, Q, 0)
      BY <2>3, <3>1, <3>2
    <3>7. PICK e, e2, v, v2 : e = x + f /\ e2 = x2 + f2 /\ v = l - e /\ v2 = l2 - e2
      OBVIOUS
    <3>8. (e <= P \/ e >= Q) /\ e2 = Taken(e, P, Q)
      <4>1. SZ_SZ \in Nat
        BY ConstantsAre
      <4>2. e = x + f /\ e2 = x2 + f2
        BY <3>7
      <4>3. Ends(e, e2, P, Q)
        BY <3>4, <3>5, <3>6, <4>1, <4>2, EndMoves
      <4> QED BY <4>3 DEF Ends
    <3>9. VDist(j) = v /\ s \in Nat \ {0}
      <4>1. s \in {SIZE_B * m : m \in 1 .. Sizes}
        <5>1. loc.sz \in [1 .. Len(jmps) -> {SIZE_B * m : m \in 1 .. Sizes}]
          BY <1>2 DEF LayoutInv, PassInv
        <5>2. j \in 1 .. Len(jmps)
          BY <1>3
        <5> QED BY <3>2, <5>1, <5>2
      <4>2. s \in Nat \ {0}
        BY <4>1, LayoutAssumption
      <4> QED BY <3>2, <3>7, <4>2 DEF VDist
    <3>10. Fits(v, s)
      BY <1>2, <3>2, <3>9 DEF LandInv, FitInv
    <3>11. e \in Int
      BY <3>4, <3>7
    <3>12. Fits(v2, s)
      <4>1. s \in Nat \ {0} /\ e2 = Taken(e, P, Q)
        BY <3>8, <3>9
      <4>2. e <= P \/ e >= Q
        BY <3>8
      <4>3. (l < P \/ l >= Q) /\ l \in Int /\ l2 = Moved(l, P, Q, 0)
        BY <3>3
      <4>4. P \in Nat /\ Q \in Nat /\ P <= Q /\ Fits(v, s) /\ e \in Int
        BY <3>5, <3>10, <3>11
      <4> QED BY <3>7, <4>1, <4>2, <4>3, <4>4, Contracts
    <3>13. VDist(j)' = v2
      <4>1. jmps'[j].dst = t
        BY <1>19, <2>2, <3>2 DEF Dests
      <4>2. VDist(j)' = VLab(jmps[j].dst)' - (VJmps'[j] + Field'[j])
        BY DEF VDist
      <4>3. VLab(jmps[j].dst)' = VLab(t)'
        BY <4>1 DEF VLab
      <4> QED BY <3>2, <3>7, <4>2, <4>3
    <3> QED BY <3>2, <3>12, <3>13
  <2> QED BY <1>2, <2>1, <2>2, <2>4 DEF FitInv
<1>23. PadsLab' /\ RetLab' /\ WriteInv'
  BY <1>2 DEF PadsLab, RetLab, WriteInv
<1> QED BY <1>2, <1>20, <1>21, <1>22, <1>23 DEF LandInv

-----------------------------------------------------------------------------
(* Writing the immediates.                                                 *)

\* The bits before position p stay; and t comes behind them.
SameTo(s, s2, p)  == \A q \in 1 .. p : s2[q] = s[q]
Puts(s, s2, p, t) == SameTo(s, s2, p) /\ \A q \in 1 .. Len(t) : s2[p + q] = t[q]

\* That is what o_iat does.
LEMMA OverPuts ==
    ASSUME NEW s, Len(s) \in Nat, DOMAIN s = 1 .. Len(s), NEW p \in Nat, NEW t, Len(t) \in Nat, p + Len(t) <= Len(s)
    PROVE  Puts(s, Over(s, p, t), p, t) /\ DOMAIN Over(s, p, t) = DOMAIN s
<1>1. PICK n, L : n = Len(t) /\ L = Len(s)
  OBVIOUS
<1>2. DOMAIN Over(s, p, t) = DOMAIN s /\ n \in Nat /\ L \in Nat /\ p + n <= L
  BY <1>1 DEF Over
<1>3. ASSUME NEW q \in 1 .. n
      PROVE  Over(s, p, t)[p + q] = t[q]
  <2>1. p + q \in 1 .. L /\ p < p + q /\ p + q <= p + n /\ (p + q) - p = q
    BY <1>2, <1>3
  <2>2. p + q \in DOMAIN s
    BY <1>1, <2>1
  <2> QED BY <1>1, <2>1, <2>2 DEF Over
<1>4. ASSUME NEW q \in 1 .. p
      PROVE  Over(s, p, t)[q] = s[q]
  <2>1. q \in 1 .. L /\ ~ (p < q)
    BY <1>2, <1>4
  <2>2. q \in DOMAIN s
    BY <1>1, <2>1
  <2> QED BY <2>1, <2>2 DEF Over
<1> QED BY <1>1, <1>2, <1>3, <1>4 DEF Puts, SameTo

\* A size and a value are written.
LEMMA WrittenNow ==
    ASSUME NEW s, NEW s1, NEW s2, NEW x \in Int, SZ_SZ \in Nat, NEW z \in Nat, NEW d \in Int,
           NEW g, g = z \div SIZE_B - 1, g \in Int,
           NEW p \in Nat, p = x - SZ_SZ, Puts(s, s1, p, Imm(g, SZ_SZ)), Puts(s1, s2, x, Imm(d, z))
    PROVE  Written(s2, x, z, d) /\ SameTo(s, s2, p)
<1>1. PICK h : h = SZ_SZ
  OBVIOUS
<1>2. h \in Nat /\ x \in Nat /\ p \in Nat /\ p = x - h
  BY <1>1
<1>3. Len(Imm(g, h)) = h /\ Len(Imm(d, z)) = z
  BY <1>2, ImmIs
<1>4. /\ \A k \in 1 .. h : Imm(g, h)[k] = <<Lit, (g \div Pow2[k - 1]) % 2>>
      /\ \A k \in 1 .. z : Imm(d, z)[k] = <<Lit, (d \div Pow2[k - 1]) % 2>>
  BY DEF Imm
<1>5. ASSUME NEW k \in 1 .. h
      PROVE  s2[p + k][2] = (g \div Pow2[k - 1]) % 2
  <2>1. s1[p + k] = Imm(g, h)[k]
    BY <1>1, <1>3 DEF Puts
  <2>2. p + k \in 1 .. x
    BY <1>2
  <2>3. s2[p + k] = s1[p + k]
    BY <2>2 DEF Puts, SameTo
  <2> QED BY <1>4, <2>1, <2>3
<1>6. ASSUME NEW k \in 1 .. z
      PROVE  s2[x + k][2] = (d \div Pow2[k - 1]) % 2
  <2>1. s2[x + k] = Imm(d, z)[k]
    BY <1>3 DEF Puts
  <2> QED BY <1>4, <2>1
<1>7. ASSUME NEW q \in 1 .. p
      PROVE  s2[q] = s[q]
  <2>1. q \in 1 .. x
    BY <1>2
  <2> QED BY <1>7, <2>1 DEF Puts, SameTo
<1> QED BY <1>1, <1>5, <1>6, <1>7 DEF Written, SameTo

\* What has been written stays where the bits do.
LEMMA WrittenStays ==
    ASSUME NEW s, NEW s2, NEW x \in Int, SZ_SZ \in Nat, NEW e \in Nat, e = x - SZ_SZ, NEW z \in Nat, NEW d,
           Written(s, x, z, d), NEW p \in Nat, x + z <= p, SameTo(s, s2, p)
    PROVE  Written(s2, x, z, d)
<1>1. PICK h : h = SZ_SZ
  OBVIOUS
<1>2. h \in Nat /\ x \in Nat /\ x - h \in Nat
  BY <1>1
<1>3. /\ \A k \in 1 .. h : x - h + k \in 1 .. p
      /\ \A k \in 1 .. z : x + k \in 1 .. p
  BY <1>2
<1>4. /\ \A k \in 1 .. h : s2[x - h + k] = s[x - h + k]
      /\ \A k \in 1 .. z : s2[x + k] = s[x + k]
  BY <1>3 DEF SameTo
<1> QED BY <1>1, <1>4 DEF Written

\* What is known of a jump that is to be written.
LEMMA WriteFacts ==
    ASSUME LayoutInv, LandInv, pc = "write", NEW j \in 1 .. Len(jmps)
    PROVE  /\ SZ_SZ \in Nat /\ jmps[j].off \in Nat /\ jmps[j].off - SZ_SZ \in 1 .. Len(cs) /\ Len(cs) \in Nat
           /\ loc.sz[j] \in Nat /\ loc.sz[j] \div SIZE_B - 1 \in Int
           /\ jmps[j].off + loc.sz[j] <= Len(cs)
           /\ cs[jmps[j].off - SZ_SZ] \in HeadBits(ic, There) /\ Field[j] = loc.sz[j]
           /\ Distance(j) \in Int /\ VDist(j) = Distance(j)
<1>1. Types /\ PassInv
  BY DEF LayoutInv
<1>2. /\ jmps \in Seq([off : Int, dst : Nat]) /\ cs \in Seq(BitT)
  BY <1>1 DEF Types
<1>3. Virtual = cs /\ VJmps = Offs
  BY <1>1, Standing
<1>4. /\ JumpsAt(ic, cs, There, Offs, Field) /\ Solid(HeadBits(ic, There)) /\ Len(ic) \in Nat
  BY <1>3, CodeFacts
<1>5. /\ DOMAIN jmps = 1 .. Len(jmps) /\ Len(jmps) \in Nat /\ DOMAIN Offs = 1 .. Len(jmps)
       /\ \A l \in 1 .. Len(jmps) : Offs[l] = jmps[l].off
  BY <1>2, OffsAre
<1>6. PICK x, f, h, l : x = Offs[j] /\ f = Field[j] /\ h = SZ_SZ /\ l = Len(cs)
  OBVIOUS
<1>7. /\ h \in Nat \ {0} /\ l \in Nat /\ x \in Nat /\ x - h - 1 \in 0 .. l - 1 /\ f \in Nat /\ x + f <= l
      /\ cs[x - h] \in HeadBits(ic, There)
  BY <1>2, <1>4, <1>5, <1>6, JumpsAre
<1>8. x - h \in 1 .. l
  BY <1>7
<1>9. Field[j] = loc.sz[j]
  BY <1>1, <1>5 DEF Field
<1>10. loc.sz[j] \div SIZE_B - 1 \in Int
  <2>1. SIZE_B \in Nat \ {0} /\ loc.sz[j] \in Nat
    BY <1>6, <1>7, <1>9, LayoutAssumption
  <2> QED BY <2>1
<1>11. x = jmps[j].off
  BY <1>5, <1>6
<1>12. jmps[j].dst \in 0 .. Len(ic)
  BY <1>1, <1>5, DstIn
<1>13. /\ lab_loc[jmps[j].dst] \in Int /\ VLab(jmps[j].dst) = lab_loc[jmps[j].dst]
  <2>1. \A y \in 0 .. Len(ic) : lab_loc[y] \in Int
    BY <1>1, LabelsAre
  <2>2. lab_loc[jmps[j].dst] \in Int
    BY <1>12, <2>1
  <2> QED BY <1>1, <1>1, <2>2, LandDomains
<1>14. Distance(j) \in Int /\ VDist(j) = Distance(j)
  <2>1. Distance(j) = lab_loc[jmps[j].dst] - x - f
    BY <1>6, <1>9, <1>11 DEF Distance
  <2>2. VDist(j) = lab_loc[jmps[j].dst] - (x + f)
    BY <1>3, <1>6, <1>13 DEF VDist
  <2>3. PICK v : v = lab_loc[jmps[j].dst]
    OBVIOUS
  <2>4. v \in Int
    BY <1>13, <2>3
  <2>5. v - x - f = v - (x + f) /\ v - x - f \in Int
    BY ONLY <1>7, <2>4
  <2> QED BY <2>1, <2>2, <2>3, <2>5
<1> QED BY <1>6, <1>7, <1>8, <1>9, <1>10, <1>11, <1>14

\* The next immediate is written, behind those written before.
LEMMA WriteLands ==
    ASSUME LayoutInv, LayoutInv', LandInv, WriteJump
    PROVE  LandInv'
<1> DEFINE i   == loc.i
           off == jmps[i].off
           sz  == loc.sz[i]
           g   == sz \div SIZE_B - 1
           s1  == Over(cs, off - SZ_SZ, Imm(g, SZ_SZ))
<1>1. /\ pc = "write" /\ pc' = "write" /\ i <= Len(jmps) /\ loc' = [loc EXCEPT !.i = @ + 1]
      /\ ic' = ic /\ jmps' = jmps /\ lab_loc' = lab_loc
      /\ cs' = Over(s1, off, Imm(Distance(i), sz))
  BY DEF WriteJump, tables
<1>2. /\ Types /\ PassInv /\ Types' /\ PassInv' /\ loc \in Locals
  BY DEF LayoutInv, Types
<1>3. /\ loc'.i = i + 1 /\ loc'.sz = loc.sz /\ loc'.lab = loc.lab /\ loc'.diff = loc.diff
  BY <1>1, <1>2 DEF Locals
<1>4. /\ i \in Nat \ {0} /\ jmps \in Seq([off : Int, dst : Nat]) /\ cs \in Seq(BitT)
      /\ loc.sz \in [1 .. Len(jmps) -> {SIZE_B * k : k \in 1 .. Sizes}]
  BY <1>1, <1>2 DEF Types, PassInv, Locals
<1>5. /\ Virtual = cs /\ Virtual' = cs' /\ Overwritten(cs, cs')
  BY WriteKeeps
<1>6. VJmps = Offs /\ VJmps' = Offs /\ Field' = Field /\ Dests' = Dests
  <2>1. VJmps = Offs /\ VJmps' = Offs'
    BY <1>1, <1>2, Standing, StandingNext
  <2>2. Offs' = Offs /\ Field' = Field /\ Dests' = Dests
    BY <1>1, <1>3 DEF Offs, Field, Dests
  <2> QED BY <2>1, <2>2
<1>7. \A x : VLab(x)' = VLab(x)
  BY <1>1, <1>3 DEF VLab, Shift
<1>8. /\ JumpsAt(ic, cs, There, Offs, Field) /\ Solid(HeadBits(ic, There)) /\ There' = There /\ Len(ic) \in Nat
  BY <1>1, <1>5, <1>6, CodeFacts DEF There
<1>9. /\ DOMAIN jmps = 1 .. Len(jmps) /\ Len(jmps) \in Nat /\ DOMAIN Offs = 1 .. Len(jmps) /\ i \in 1 .. Len(jmps)
      /\ \A j \in 1 .. Len(jmps) : Offs[j] = jmps[j].off
  BY <1>1, <1>4, OffsAre, SMTT(30)
<1>10. ASSUME NEW j \in 1 .. Len(jmps)
       PROVE  /\ SZ_SZ \in Nat /\ jmps[j].off \in Nat /\ jmps[j].off - SZ_SZ \in 1 .. Len(cs) /\ Len(cs) \in Nat
              /\ loc.sz[j] \in Nat /\ loc.sz[j] \div SIZE_B - 1 \in Int
              /\ jmps[j].off + loc.sz[j] <= Len(cs)
              /\ cs[jmps[j].off - SZ_SZ] \in HeadBits(ic, There) /\ Field[j] = loc.sz[j]
              /\ Distance(j) \in Int /\ VDist(j) = Distance(j)
  BY <1>1, WriteFacts
<1>11. /\ \A j \in 1 .. Len(jmps) : Distance(j)' = Distance(j) /\ VDist(j)' = VDist(j)
  <2>1. ASSUME NEW j \in 1 .. Len(jmps)
        PROVE  Distance(j)' = Distance(j) /\ VDist(j)' = VDist(j)
    <3>1. Distance(j)' = Distance(j)
      BY <1>1, <1>3 DEF Distance
    <3>2. VDist(j)' = VDist(j)
      BY <1>1, <1>6, <1>7 DEF VDist
    <3> QED BY <3>1, <3>2
  <2> QED BY <2>1
<1>12. TargetsInv'
  <2>1. ASSUME NEW j \in DOMAIN Offs
        PROVE  cs'[Offs[j] - SZ_SZ] = cs[Offs[j] - SZ_SZ]
    <3>1. PICK q : q = Offs[j] - SZ_SZ
      OBVIOUS
    <3>2. q \in 1 .. Len(cs) /\ cs[q] \in HeadBits(ic, There)
      BY <1>9, <1>10, <3>1
    <3>3. q \in DOMAIN cs /\ Real(cs[q])
      BY <1>4, <1>8, <3>2 DEF Solid
    <3> QED BY <1>5, <3>1, <3>3 DEF Overwritten
  <2>2. \A j \in DOMAIN Offs : Dests[j] = Dst(ic, cs[Offs[j] - SZ_SZ][1])
    BY <1>1, <1>5, <1>6 DEF LandInv, TargetsInv, TargetsAt
  <2> QED BY <1>1, <1>5, <1>6, <2>1, <2>2 DEF TargetsInv, TargetsAt
<1>13. LabelsInv'
  <2>1. Labelled = 0 .. Len(ic) /\ Labelled' = 0 .. Len(ic)
    BY <1>1 DEF Labelled
  <2>2. ASSUME NEW x \in 0 .. Len(ic)
        PROVE  LabelAt(ic, cs', VLab(x), LabelRank(ic, x))
    <3>1. LabelAt(ic, cs, VLab(x), LabelRank(ic, x))
      BY <1>1, <1>5, <2>1 DEF LandInv, LabelsInv
    <3> QED BY <1>5, <3>1, LabelOver
  <2> QED BY <1>1, <1>5, <1>7, <2>1, <2>2 DEF LabelsInv
<1>14. FitInv'
  <2>1. ASSUME NEW j \in DOMAIN jmps
        PROVE  Fits(VDist(j)', loc'.sz[j])
    BY <1>1, <1>3, <1>9, <1>11 DEF LandInv, FitInv
  <2> QED BY <1>1, <2>1 DEF FitInv
<1>15. WriteInv'
  <2>1. PICK x, z, d, p, G, u : /\ x = off /\ z = sz /\ d = Distance(i) /\ p = off - SZ_SZ /\ G = g /\ u = s1
    OBVIOUS
  <2>2. /\ x \in Nat /\ z \in Nat /\ d \in Int /\ p \in Nat /\ G = z \div SIZE_B - 1 /\ G \in Int /\ p = x - SZ_SZ
        /\ p + SZ_SZ <= Len(cs) /\ x + z <= Len(cs) /\ SZ_SZ \in Nat /\ Len(cs) \in Nat
    <3>1. /\ SZ_SZ \in Nat /\ x \in Nat /\ x - SZ_SZ \in 1 .. Len(cs) /\ Len(cs) \in Nat
          /\ z \in Nat /\ z \div SIZE_B - 1 \in Int /\ x + z <= Len(cs) /\ d \in Int
      BY <1>9, <1>10, <2>1
    <3>2. PICK h, l : h = SZ_SZ /\ l = Len(cs)
      OBVIOUS
    <3>3. h \in Nat /\ x \in Nat /\ x - h \in 1 .. l /\ l \in Nat /\ z \in Nat /\ x + z <= l
      BY <3>1, <3>2
    <3>4. x - h \in Nat /\ (x - h) + h <= l
      BY ONLY <3>3
    <3> QED BY <2>1, <3>1, <3>2, <3>4
  <2>3. Len(Imm(G, SZ_SZ)) = SZ_SZ /\ Len(Imm(d, z)) = z
    BY <2>2, ImmIs
  <2>4. DOMAIN cs = 1 .. Len(cs)
    BY <1>4
  <2>5. u = Over(cs, p, Imm(G, SZ_SZ)) /\ cs' = Over(u, x, Imm(d, z))
    BY <1>1, <2>1
  <2>6. Puts(cs, u, p, Imm(G, SZ_SZ)) /\ DOMAIN u = DOMAIN cs
    BY <2>2, <2>3, <2>4, <2>5, OverPuts
  <2>7. Len(u) = Len(cs)
    <3>1. u = [j \in DOMAIN cs |-> IF p < j /\ j <= p + Len(Imm(G, SZ_SZ)) THEN Imm(G, SZ_SZ)[j - p] ELSE cs[j]]
      BY <2>5 DEF Over
    <3> QED BY <2>2, <2>4, <3>1
  <2>8. Puts(u, cs', x, Imm(d, z))
    BY <2>2, <2>3, <2>4, <2>5, <2>6, <2>7, OverPuts
  <2>9. PICK s2 : s2 = cs'
    OBVIOUS
  <2>10. Written(s2, x, z, d) /\ SameTo(cs, s2, p)
    <3>1. /\ x \in Int /\ SZ_SZ \in Nat /\ z \in Nat /\ d \in Int /\ G = z \div SIZE_B - 1 /\ G \in Int
          /\ p \in Nat /\ p = x - SZ_SZ
      BY <2>2
    <3>2. Puts(cs, u, p, Imm(G, SZ_SZ)) /\ Puts(u, s2, x, Imm(d, z))
      BY <2>6, <2>8, <2>9
    <3> QED BY <3>1, <3>2, WrittenNow
  <2>11. ASSUME NEW j \in DOMAIN jmps, j < i + 1
         PROVE  Written(cs', jmps[j].off, loc.sz[j], Distance(j))
    <3>1. CASE j = i
      BY <2>1, <2>9, <2>10, <3>1
    <3>2. CASE j # i
      <4>1. j \in 1 .. Len(jmps) /\ j < i
        BY <1>4, <1>9, <2>11, <3>2
      <4>2. Written(cs, jmps[j].off, loc.sz[j], Distance(j))
        BY <1>1, <4>1, <1>9 DEF LandInv, WriteInv
      <4>3. PICK y, w, e, h : y = jmps[j].off /\ w = loc.sz[j] /\ e = Distance(j) /\ h = SZ_SZ
        OBVIOUS
      <4>4. y \in Nat /\ w \in Nat /\ h \in Nat /\ y - h \in 1 .. Len(cs)
        BY <1>10, <4>1, <4>3
      <4>5. y + w <= x - h - 1
        <5>1. Offs[j] + Field[j] <= Offs[i] - SZ_SZ - 1
          BY <1>8, <1>9, <4>1 DEF JumpsAt
        <5>2. Offs[j] = y /\ Field[j] = w /\ Offs[i] = x
          BY <1>9, <1>10, <2>1, <4>1, <4>3
        <5> QED BY <4>3, <5>1, <5>2
      <4>6. PICK b : b = y - h
        OBVIOUS
      <4>7. b \in Nat /\ b = y - SZ_SZ /\ y + w <= p /\ y \in Int /\ SZ_SZ \in Nat
        <5>1. p = x - h /\ x \in Nat
          BY <2>2, <4>3
        <5>2. y + w <= p
          BY ONLY <4>4, <4>5, <5>1
        <5>3. b \in Nat
          BY ONLY <4>4, <4>6
        <5> QED BY <2>2, <4>3, <4>4, <4>6, <5>2, <5>3
      <4>8. Written(cs, y, w, e)
        BY <4>2, <4>3
      <4>9. Written(s2, y, w, e)
        BY <2>2, <2>10, <4>4, <4>7, <4>8, WrittenStays
      <4> QED BY <2>9, <4>3, <4>9
    <3> QED BY <3>1, <3>2
  <2> QED BY <1>1, <1>3, <1>9, <1>11, <2>11 DEF WriteInv
<1>16. CursorInv' /\ PadsLab' /\ RetLab'
  BY <1>1 DEF CursorInv, PadsLab, RetLab
<1> QED BY <1>1, <1>12, <1>13, <1>14, <1>15, <1>16 DEF LandInv

\* A label of code whose epilogue is there is before its end.
LEMMA LabelInside ==
    ASSUME NEW c, Len(c) \in Nat, NEW s, Len(s) \in Nat, NEW f \in Frames, Framing(f) \subseteq Reals(s),
           NEW p, NEW x \in 0 .. Len(c), LabelAt(c, s, p, x)
    PROVE  p \in Nat /\ p < Len(s)
<1>1. f[2] \in Nat \ {0}
  BY LayoutAssumption
<1>2. <<Epi, f[2]>> \in Framing(f)
  BY <1>1 DEF Framing
<1>3. PICK q \in DOMAIN s : s[q] = <<Epi, f[2]>> /\ Real(s[q])
  BY <1>2 DEF Reals
<1>4. Rank(c, s[q]) = Len(c)
  BY <1>3 DEF Rank, Epi, Pro
<1>5. Rank(c, s[q]) >= x
  BY <1>4
<1>6. q > p /\ p \in 0 .. Len(s)
  BY <1>3, <1>5 DEF LabelAt
<1>7. q \in 1 .. Len(s)
  <2>1. DOMAIN s = 1 .. Len(s)
    BY DEF LabelAt
  <2> QED BY <2>1
<1> QED BY <1>6, <1>7

\* What i_code writes is code whose jumps go to their labels.
LEMMA CodeLands ==
    ASSUME LayoutInv, LayoutInv', LandInv, Code
    PROVE  LandInv'
<1>1. PICK n : EndsWith(n)
  BY CodeKeeps
<1>2. pc = "write" /\ pc' = "idle" /\ ic' = ic /\ loc.i = Len(jmps) + 1
  BY DEF Code
<1>3. PICK L, s2 : L = Len(cs) /\ s2 = Virtual'
  OBVIOUS
<1>4. Virtual = cs /\ Spliced(cs, s2, L, L, n)
  BY <1>1, <1>3 DEF EndsWith
<1>5. /\ L \in Nat /\ cs \in Seq(BitT) /\ s2 \in Seq(BitT) /\ n \in Nat /\ Len(s2) = L + n
      /\ DOMAIN cs = 1 .. L /\ DOMAIN s2 = 1 .. Len(s2) /\ SameTo(cs, s2, L)
  <2>1. L \in Nat /\ cs \in Seq(BitT) /\ s2 \in Seq(BitT) /\ n \in Nat
    BY <1>4 DEF Spliced
  <2>2. \A p \in 1 .. L : s2[p] = cs[p]
    BY <1>4 DEF Spliced
  <2>3. Len(s2) = L - (L - L) + n
    BY <1>3, <1>4 DEF Spliced
  <2> QED BY <1>3, <2>1, <2>2, <2>3 DEF SameTo
<1>6. /\ Types /\ PassInv /\ jmps \in Seq([off : Int, dst : Nat])
      /\ loc.sz \in [1 .. Len(jmps) -> {SIZE_B * k : k \in 1 .. Sizes}]
  BY <1>2 DEF LayoutInv, Types, PassInv
<1>7. VJmps = Offs
  BY <1>2, <1>6, Standing
<1>8. /\ ic \in Seq(Ins) /\ Len(ic) \in Nat \ {0} /\ There = Len(ic) - 1
      /\ CodeAt(ic, cs, There, Beside, VRels) /\ JumpsAt(ic, cs, There, Offs, Field)
      /\ Beside = {Framing(f) : f \in Frames}
  BY <1>2, <1>4, <1>7, CodeFacts DEF There, Beside
<1>9. PICK f \in Frames : Reals(cs) = Framing(f) \cup InstrBits(ic, There)
  BY <1>8 DEF CodeAt
<1>10. /\ DOMAIN jmps = 1 .. Len(jmps) /\ Len(jmps) \in Nat /\ DOMAIN Offs = 1 .. Len(jmps)
       /\ \A j \in 1 .. Len(jmps) : Offs[j] = jmps[j].off
  BY <1>6, OffsAre
<1>11. ASSUME NEW k \in 0 .. Len(ic) - 2, ic[k + 1].op \in {"jmp", "jz", "ret"}
       PROVE  \E x, z, d : GoesFrom(ic, s2, k, x, z, d)
  <2>1. k \in 0 .. There - 1 /\ k \in Nat
    BY <1>8
  <2>2. <<k, Width(ic, k)>> \in HeadBits(ic, There)
    BY <1>11, <2>1 DEF HeadBits
  <2>3. <<k, Width(ic, k)>> \in InstrBits(ic, There)
    <3>1. There \in 0 .. Len(ic)
      BY <1>8
    <3>2. HeadBits(ic, There) \subseteq InstrBits(ic, There)
      <4>1. Complies(ic)
        BY <1>2, CodeFacts
      <4> QED BY <1>8, <3>1, <4>1, TableBits
    <3> QED BY <2>2, <3>2
  <2>4. PICK q \in DOMAIN cs : cs[q] = <<k, Width(ic, k)>>
    <3>1. <<k, Width(ic, k)>> \in Reals(cs)
      BY <1>9, <2>3
    <3> QED BY <3>1 DEF Reals
  <2>5. q - 1 \in Places(cs, HeadBits(ic, There)) /\ q \in 1 .. L
    <3>1. q \in 1 .. L
      BY <1>5
    <3>2. q - 1 \in 0 .. L - 1 /\ (q - 1) + 1 = q
      BY <1>5, <3>1
    <3> QED BY <1>3, <2>2, <2>4, <3>1, <3>2 DEF Places
  <2>6. PICK j \in DOMAIN Offs : Heads(Offs)[j] = q - 1
    <3>1. {Heads(Offs)[j] : j \in DOMAIN Heads(Offs)} = Places(cs, HeadBits(ic, There))
      BY <1>8 DEF JumpsAt, Hits
    <3>2. DOMAIN Heads(Offs) = DOMAIN Offs
      BY DEF Heads
    <3> QED BY <2>5, <3>1, <3>2
  <2>7. j \in 1 .. Len(jmps) /\ j \in DOMAIN jmps
    BY <1>10
  <2>8. PICK x, z, d, t, h : x = jmps[j].off /\ z = loc.sz[j] /\ d = Distance(j) /\ t = jmps[j].dst /\ h = SZ_SZ
    OBVIOUS
  <2>9. /\ SZ_SZ \in Nat /\ x \in Nat /\ x - SZ_SZ \in 1 .. L /\ z \in Nat
        /\ x + z <= L /\ d \in Int /\ VDist(j) = d /\ Field[j] = z
    BY <1>2, <1>3, <2>7, <2>8, WriteFacts
  <2>10. x - h = q
    <3>1. Heads(Offs)[j] = x - h - 1
      BY <1>10, <2>6, <2>7, <2>8 DEF Heads
    <3>2. h \in Nat /\ x - h \in Int /\ q \in Int
      BY <2>5, <2>8, <2>9
    <3> QED BY <2>6, <3>1, <3>2
  <2>11. s2[q] = <<k, Width(ic, k)>> /\ q \in DOMAIN s2
    BY <1>5, <2>4, <2>5 DEF SameTo
  <2>12. z \in {SIZE_B * m : m \in 1 .. Sizes}
    BY <1>6, <2>7, <2>8
  <2>13. Fits(d, z)
    BY <1>2, <2>7, <2>8, <2>9 DEF LandInv, FitInv
  <2>14. Written(s2, x, z, d)
    <3>1. Written(cs, x, z, d)
      <4>1. j < loc.i
        BY <1>2, <1>10, <2>7
      <4> QED BY <1>2, <2>7, <2>8, <4>1 DEF LandInv, WriteInv
    <3>2. PICK b : b = x - SZ_SZ
      OBVIOUS
    <3>3. b \in Nat /\ b = x - SZ_SZ /\ x \in Int
      BY <1>5, <2>9, <3>2
    <3> QED BY <1>5, <2>9, <3>1, <3>3, WrittenStays
  <2>15. t = Dst(ic, k) /\ t \in 0 .. Len(ic)
    <3>1. Dests[j] = Dst(ic, cs[Offs[j] - SZ_SZ][1])
      BY <1>2, <1>4, <1>7, <2>6 DEF LandInv, TargetsInv, TargetsAt
    <3>2. cs[Offs[j] - SZ_SZ][1] = k
      BY <1>10, <2>4, <2>7, <2>8, <2>10
    <3>3. t \in 0 .. Len(ic)
      BY <1>2, <2>7, <2>8, DstIn
    <3> QED BY <2>7, <2>8, <3>1, <3>2, <3>3 DEF Dests
  <2>16. PICK p, r : p = VLab(t) /\ r = LabelRank(ic, t)
    OBVIOUS
  <2>17. LabelAt(ic, cs, p, r) /\ p \in Nat
    BY <1>2, <1>4, <2>15, <2>16, LabelsAre
  <2>18. r \in 0 .. Len(ic)
    BY <1>8, <2>15, <2>16 DEF LabelRank, LAB_RET
  <2>19. p < L
    <3>1. Framing(f) \subseteq Reals(cs)
      BY <1>9
    <3>2. Len(ic) \in Nat /\ Len(cs) \in Nat
      BY <1>3, <1>5, <1>8
    <3> QED BY <1>3, <2>17, <2>18, <3>1, <3>2, LabelInside
  <2>20. LabelAt(ic, s2, p, r)
    <3>1. LabelAt(ic, s2, Moved(p, L, L, n), r)
      BY <1>4, <2>17, LabelSpliced
    <3>2. Moved(p, L, L, n) = p
      BY <2>19 DEF Moved
    <3> QED BY <3>1, <3>2
  <2>21. x + z + d = p
    <3>1. d = p - (x + z)
      <4>1. VDist(j) = VLab(jmps[j].dst) - (VJmps[j] + Field[j])
        BY DEF VDist
      <4>2. VJmps[j] = x
        BY <1>7, <1>10, <2>7, <2>8
      <4> QED BY <2>8, <2>9, <2>16, <4>1, <4>2
    <3> QED BY <2>9, <2>17, <3>1
  <2>22. x + z <= Len(s2)
    BY <1>5, <2>9
  <2>23. GoesFrom(ic, s2, k, x, z, d)
    <3>1. x - SZ_SZ \in DOMAIN s2 /\ s2[x - SZ_SZ] = <<k, Width(ic, k)>>
      BY <2>8, <2>10, <2>11
    <3>2. LabelAt(ic, s2, x + z + d, LabelRank(ic, Dst(ic, k)))
      BY <2>15, <2>16, <2>20, <2>21
    <3>3. x \in Int
      BY <2>9
    <3> QED BY <2>12, <2>13, <2>14, <2>22, <3>1, <3>2, <3>3 DEF GoesFrom
  <2> QED BY <2>23
<1>12. Landed(ic, s2)
  BY <1>11 DEF Landed
<1> QED BY <1>2, <1>3, <1>12 DEF LandInv

-----------------------------------------------------------------------------
(* Jumps and labels of every function.                                     *)

\* Nothing has been begun.
LEMMA LandHolds == Init => LandInv
BY DEF Init, LandInv

\* Every step keeps jumps and labels where they have to be.
LEMMA LandKept == LayoutInv /\ LayoutInv' /\ LandInv /\ [Next]_vars => LandInv'
<1> SUFFICES ASSUME LayoutInv, LayoutInv', LandInv, [Next]_vars PROVE LandInv'
  OBVIOUS
<1>1. ASSUME NEW s \in Sources \cup More, GetCode(s)
      PROVE  LandInv'
  BY <1>1, GetCodeLands
<1>2. CASE Emit
  BY <1>2, EmitLands
<1>3. CASE Generated
  BY <1>3, GeneratedLands
<1>4. ASSUME NEW f \in Frames, Wrap(f)
      PROVE  LandInv'
  BY <1>4, WrapLands
<1>5. CASE AlignStep
  BY <1>5, AlignLands
<1>6. CASE AlignDone
  BY <1>6, AlignDoneLands
<1>7. CASE JumpSizes
  BY <1>7, JumpSizesLands
<1>8. CASE ShrinkStep
  BY <1>8, ShrinkLands
<1>9. CASE ShrinkDone
  BY <1>9, ShrinkDoneLands
<1>10. CASE WriteJump
  BY <1>10, WriteLands
<1>11. CASE Code
  BY <1>11, CodeLands
<1>12. CASE UNCHANGED vars
  BY <1>12, StutterLands
<1>13. Compiled => UNCHANGED vars
  BY DEF Compiled
<1> QED BY <1>1, <1>2, <1>3, <1>4, <1>5, <1>6, <1>7, <1>8, <1>9, <1>10, <1>11, <1>12, <1>13 DEF Next

\* At every step of every function, a jump knows the label of what it goes to,
\* every label is right before the first bit of what it is a label of, counting
\* what the running pass has yet to move, and a size chosen for a jump is enough
\* although the code between it and its label shrinks.
THEOREM LabelsSound == Spec => []LandInv
<1>1. LandInv /\ LayoutInv /\ LayoutInv' /\ [Next]_vars => LandInv'
  BY LandKept
<1> QED BY <1>1, LandHolds, LayoutSound, PTL DEF Spec

\* A jump of the finished code is read as what was written.
LEMMA JumpIsRead ==
    ASSUME LayoutInv, Finished, NEW k \in 0 .. Len(ic) - 2, ic[k + 1].op \in {"jmp", "jz", "ret"},
           NEW x, NEW z, NEW d, GoesFrom(ic, Virtual, k, x, z, d)
    PROVE  GoesTo(HeadOf(k)) = x + z + d
<1>1. /\ Complies(ic) /\ Virtual \in Seq(BitT) /\ Size = Len(Virtual) /\ Size \in Nat
      /\ \A p \in 0 .. Size - 1 : p + 1 \in DOMAIN Virtual /\ Bit(p) = Virtual[p + 1]
      /\ \A p \in DOMAIN Virtual : p - 1 \in 0 .. Size - 1 /\ Bit(p - 1) = Virtual[p]
  BY FinishedIs
<1> DEFINE s == Virtual
<1>2. /\ x - SZ_SZ \in DOMAIN s /\ s[x - SZ_SZ] = <<k, Width(ic, k)>>
      /\ x \in Int /\ z \in {SIZE_B * m : m \in 1 .. Sizes} /\ x + z <= Len(s)
      /\ Fits(d, z) /\ Written(s, x, z, d)
  BY DEF GoesFrom
<1> HIDE DEF s
<1>3. PICK h, N, b, S : h = SZ_SZ /\ N = Size /\ b = SIZE_B /\ S = Sizes
  OBVIOUS
<1>4. PICK m \in 1 .. S : z = b * m
  BY <1>2, <1>3
<1>5. h \in Nat \ {0} /\ N \in Nat /\ b \in Nat \ {0} /\ S \in Nat \ {0} /\ S <= Pow2[h]
  BY <1>1, <1>3, LayoutAssumption
<1>6. DOMAIN s = 1 .. N /\ Len(s) = N
  BY <1>1, <1>3 DEF s
<1>7. PICK p, u : p = x - h - 1 /\ u = m - 1
  OBVIOUS
<1>8. m \in Nat /\ z \in Nat \ {0} /\ x - h \in 1 .. N /\ x + z <= N
  <2>1. x - h \in 1 .. N /\ x + z <= N
    BY <1>2, <1>3, <1>6
  <2>2. m \in Nat \ {0}
    BY <1>4, <1>5
  <2> QED BY <1>4, <1>5, <2>1, <2>2
<1>9. /\ p \in 0 .. N - 1 /\ p + 1 = x - h /\ x \in Nat /\ u \in Nat /\ u < S /\ z = b * (u + 1)
  BY <1>2, <1>4, <1>5, <1>7, <1>8
<1>10. z \div b - 1 = u
  <2>1. z \div b = m
    BY <1>4, <1>5, <1>8
  <2> QED BY <1>7, <1>8, <2>1
<1>11. ASSUME NEW q \in 1 .. N
       PROVE  Bit(q - 1) = s[q]
  BY <1>1, <1>6 DEF s
<1>12. HeadOf(k) = p
  <2>1. PICK w : w = JumpHead + ic[k + 1].w
    OBVIOUS
  <2>2. k \in Nat /\ w \in Nat /\ Width(ic, k) = w
    <3>1. ic \in Seq(Ins) /\ k + 1 \in 1 .. Len(ic)
      BY <1>1 DEF Complies
    <3>2. ic[k + 1] \in Ins
      BY <3>1
    <3>3. ic[k + 1].w \in Nat
      BY <3>2 DEF Ins
    <3>4. JumpHead \in Nat
      BY ConstantsAre
    <3>5. Width(ic, k) = ic[k + 1].w + JumpHead
      BY DEF Width
    <3> QED BY <2>1, <3>3, <3>4, <3>5
  <2>3. Bit(p) = <<k, w>>
    <3>1. x - h \in 1 .. N /\ (x - h) - 1 = p
      BY <1>7, <1>8, <1>9
    <3>2. Bit(p) = s[x - h]
      BY <1>11, <3>1
    <3> QED BY <1>2, <1>3, <2>2, <3>2
  <2>4. p \in 0 .. Size - 1
    BY <1>3, <1>9
  <2>5. LastBit(k, w) = p
    BY <2>2, <2>3, <2>4, PlaceIs
  <2> QED BY <2>1, <2>5 DEF HeadOf
<1>13. SizeAt(p) = z
  <2>1. ASSUME NEW j \in 1 .. SZ_SZ
        PROVE  Bit(p + j)[2] = (u \div Pow2[j - 1]) % 2
    <3>1. s[x - SZ_SZ + j][2] = ((z \div SIZE_B - 1) \div Pow2[j - 1]) % 2
      BY <1>2 DEF Written
    <3>2. x - h + j \in 1 .. N /\ (x - h + j) - 1 = p + j
      <4>1. j \in 1 .. h
        BY <1>3, <2>1
      <4> QED BY ONLY <1>5, <1>7, <1>8, <1>9, <4>1
    <3>3. Bit(p + j) = s[x - h + j]
      BY <1>11, <3>2
    <3> QED BY <1>3, <1>10, <3>1, <3>3
  <2>2. u \in Nat /\ u < Pow2[SZ_SZ]
    <3>1. PICK t : t = Pow2[h]
      OBVIOUS
    <3>2. t \in Nat
      BY <1>5, <3>1, PowersAre
    <3>3. u < t
      BY <1>5, <1>9, <3>1, <3>2
    <3> QED BY <1>3, <1>9, <3>1, <3>3
  <2>3. SizeAt(p) = SIZE_B * (u + 1)
    BY <2>1, <2>2, SizeAtIs
  <2> QED BY <1>3, <1>9, <2>3
<1>14. SignedAt(x, z) = d
  <2>1. ASSUME NEW j \in 1 .. z
        PROVE  Bit(x + j - 1)[2] = (d \div Pow2[j - 1]) % 2
    <3>1. s[x + j][2] = (d \div Pow2[j - 1]) % 2
      BY <1>2 DEF Written
    <3>2. PICK q : q = x + j
      OBVIOUS
    <3>3. Bit(x + j - 1) = s[x + j]
      <4>1. q \in 1 .. N
        BY <1>5, <1>8, <1>9, <3>2, SMTT(30)
      <4>2. Bit(q - 1) = s[q]
        BY <1>11, <4>1
      <4>3. x + j - 1 = q - 1
        BY <1>9, <3>2
      <4> QED BY <3>2, <4>2, <4>3, Zenon
    <3> QED BY <3>1, <3>3
  <2> QED BY <1>2, <1>8, <2>1, SignedAtIs
<1>15. EndAt(p) = x + z /\ p + 1 + SZ_SZ = x
  <2>1. p + 1 + h = x
    BY <1>5, <1>7, <1>9
  <2> QED BY <1>3, <1>13, <2>1 DEF EndAt
<1> QED BY <1>12, <1>13, <1>14, <1>15 DEF GoesTo

\* What comes at a place: the instructions from i on, or an epilogue.
Comes(c, b, i) == b[1] = Epi \/ (b[1] >= 0 /\ c[b[1] + 1].id >= i)

\* The first bit of what comes from there on is at its label.
LEMMA ArrivalIs ==
    ASSUME LayoutInv, Finished, NEW i, NEW l, NEW r, LabelAt(ic, Virtual, l, r), l < Size,
           \A q \in DOMAIN Virtual : Real(Virtual[q]) => (Comes(ic, Virtual[q], i) <=> Rank(ic, Virtual[q]) >= r)
    PROVE  Arrival(i) = l
<1>1. /\ Size = Len(Virtual) /\ Size \in Nat /\ DOMAIN Virtual = 1 .. Size
      /\ \A p \in 0 .. Size - 1 : p + 1 \in DOMAIN Virtual /\ Bit(p) = Virtual[p + 1]
  <2>1. /\ Virtual \in Seq(BitT) /\ Size = Len(Virtual) /\ Size \in Nat
        /\ \A p \in 0 .. Size - 1 : p + 1 \in DOMAIN Virtual /\ Bit(p) = Virtual[p + 1]
    BY FinishedIs
  <2> QED BY <2>1
<1> DEFINE A == {p \in 0 .. Size - 1 : LET k == Bit(p)[1] IN k = Epi \/ (k >= 0 /\ ic[k + 1].id >= i)}
<1>2. \A p \in 0 .. Size - 1 : p \in A <=> Comes(ic, Bit(p), i)
  BY DEF Comes
<1>3. l \in 0 .. Size - 1
  BY <1>1 DEF LabelAt
<1>4. l \in A
  <2>1. l + 1 \in DOMAIN Virtual /\ Bit(l) = Virtual[l + 1] /\ Real(Virtual[l + 1])
    BY <1>1, <1>3 DEF LabelAt
  <2>2. l + 1 > l
    BY <1>3
  <2>3. Rank(ic, Virtual[l + 1]) >= r
    BY <2>1, <2>2 DEF LabelAt
  <2> HIDE DEF A
  <2> QED BY <1>2, <1>3, <2>1, <2>3
<1>5. ASSUME NEW p \in A
      PROVE  l <= p
  <2>1. p \in 0 .. Size - 1 /\ Comes(ic, Bit(p), i)
    BY <1>2
  <2> HIDE DEF A
  <2>2. p + 1 \in DOMAIN Virtual /\ Bit(p) = Virtual[p + 1]
    BY <1>1, <2>1
  <2>3. Real(Virtual[p + 1])
    <3>1. Bit(p)[1] = Epi \/ Bit(p)[1] >= 0
      BY <2>1 DEF Comes
    <3>2. Bit(p)[1] # Lit
      BY <3>1 DEF Epi, Lit
    <3> QED BY <2>2, <3>2 DEF Real
  <2>4. Rank(ic, Virtual[p + 1]) >= r
    BY <2>1, <2>2, <2>3
  <2>5. p + 1 > l
    BY <2>2, <2>3, <2>4 DEF LabelAt
  <2> QED BY <1>1, <1>3, <2>1, <2>5
<1>6. A \subseteq Nat
  BY <1>1
<1>7. Arrival(i) = CHOOSE x \in A : \A y \in A : x <= y
  BY DEF Arrival, Min
<1> HIDE DEF A
<1>8. \A x \in A : (\A y \in A : x <= y) => x = l
  <2>1. ASSUME NEW x \in A, \A y \in A : x <= y
        PROVE  x = l
    <3>1. x <= l /\ l <= x /\ x \in Nat /\ l \in Nat
      BY <1>3, <1>4, <1>5, <1>6, <2>1
    <3> QED BY <3>1
  <2> QED BY <2>1
<1> QED BY <1>4, <1>5, <1>7, <1>8

\* What comes from a place in the source on, in code without its last instruction.
LEMMA ComesFrom ==
    ASSUME NEW c \in Seq(Ins), NEW n \in Nat, Len(c) = n + 1, NEW s \in Seq(BitT), NEW f,
           Reals(s) = Framing(f) \cup InstrBits(c, n), NEW t \in 0 .. n, NEW i \in Int,
           \A j \in DOMAIN c : j <= t <=> c[j].id < i,
           NEW q \in DOMAIN s, Real(s[q])
    PROVE  Comes(c, s[q], i) <=> Rank(c, s[q]) >= t
<1>1. NotLast(c, n, s[q])
  BY NotLastIs
<1>2. PICK b, a, r : b = s[q] /\ a = s[q][1] /\ r = Rank(c, s[q])
  OBVIOUS
<1>3. /\ r \in Int /\ r # n /\ (a >= 0 => a \in 0 .. n - 1 /\ r = a) /\ (r > n <=> a = Epi)
  BY <1>1, <1>2 DEF NotLast
<1>4. a \in Int
  <2>1. s[q] \in BitT
    OBVIOUS
  <2> QED BY <1>2, <2>1 DEF BitT, LitT, Real
<1>5. CASE a = Epi
  <2>1. Comes(c, s[q], i)
    BY <1>2, <1>5 DEF Comes
  <2> QED BY <1>2, <1>3, <1>5, <2>1
<1>6. CASE a # Epi /\ a >= 0
  <2>1. a \in 0 .. n - 1 /\ r = a
    BY <1>3, <1>6
  <2>2. a + 1 \in DOMAIN c
    BY <2>1
  <2>3. c[a + 1].id \in Int
    <3>1. c[a + 1] \in Ins
      BY <2>2
    <3> QED BY <3>1 DEF Ins
  <2>4. a + 1 <= t <=> c[a + 1].id < i
    BY <2>2
  <2>5. Comes(c, s[q], i) <=> c[a + 1].id >= i
    BY <1>2, <1>6 DEF Comes
  <2> QED BY <1>2, <2>1, <2>3, <2>4, <2>5, SMTT(30)
<1>7. CASE a # Epi /\ ~ (a >= 0)
  <2>1. ~ Comes(c, s[q], i)
    BY <1>2, <1>7 DEF Comes
  <2>2. r = -1 \/ r = a
    BY <1>2, <1>7 DEF Rank
  <2>3. ~ (r >= t)
    BY <1>4, <1>7, <2>2
  <2> QED BY <1>2, <2>1, <2>3
<1> QED BY <1>5, <1>6, <1>7

\* The same of an epilogue.
LEMMA ComesLast ==
    ASSUME NEW c \in Seq(Ins), NEW n \in Nat, Len(c) = n + 1, NEW s \in Seq(BitT), NEW f,
           Reals(s) = Framing(f) \cup InstrBits(c, n), NEW i \in Int,
           \A j \in DOMAIN c : c[j].id < i,
           NEW q \in DOMAIN s, Real(s[q])
    PROVE  Comes(c, s[q], i) <=> Rank(c, s[q]) >= n + 1
<1>1. NotLast(c, n, s[q])
  BY NotLastIs
<1>2. PICK a, r : a = s[q][1] /\ r = Rank(c, s[q])
  OBVIOUS
<1>3. /\ r \in Int /\ r # n /\ (a >= 0 => a \in 0 .. n - 1 /\ r = a) /\ (r > n <=> a = Epi)
  BY <1>1, <1>2 DEF NotLast
<1>4. r >= n + 1 <=> a = Epi
  BY <1>3
<1>5. Comes(c, s[q], i) <=> a = Epi
  <2>1. ASSUME a >= 0
        PROVE  ~ (c[a + 1].id >= i)
    <3>1. a + 1 \in DOMAIN c
      BY <1>3, <2>1
    <3>2. c[a + 1] \in Ins /\ c[a + 1].id < i
      BY <3>1
    <3>3. c[a + 1].id \in Int
      BY <3>2 DEF Ins
    <3> QED BY <3>2, <3>3
  <2> QED BY <1>2, <2>1 DEF Comes
<1> QED BY <1>2, <1>4, <1>5

\* The source of a jump that is left, and what is left before its target.
LEMMA SourceIs ==
    ASSUME src \in Sources \cup More, ic = Alive(WithRet(src)), NEW k \in DOMAIN ic
    PROVE  /\ \A j \in DOMAIN ic : ic[j].id < Len(Whole) + 1 /\ ic[j].id \in Int
           /\ Len(Whole) \in Nat
           /\ Jumps(ic, k) => /\ src[ic[k].id].a3 + 1 \in Int
                              /\ \A j \in DOMAIN ic : j <= ic[k].a3 <=> ic[j].id < src[ic[k].id].a3 + 1
<1> DEFINE W == Whole
<1>1. WellFormed(W) /\ Complete(W, ic)
  BY WithRetWellFormed, AliveIsComplete DEF Whole
<1>2. W \in Seq(Ins) /\ Len(W) \in Nat /\ DOMAIN W = 1 .. Len(W)
  BY <1>1 DEF WellFormed
<1>3. src \in Seq(Ins) /\ Len(src) \in Nat /\ DOMAIN src = 1 .. Len(src)
  BY LayoutAssumption
<1>4. W = src \/ \E m, t : W = src \o <<m, t>> /\ m.op = "mov" /\ t.op = "ret"
  <2>1. CASE NeedsRet(src)
    <3>1. PICK m, t : /\ m = [op |-> "mov", a1 |-> 0, a3 |-> 0, w |-> 1, id |-> Len(src) + 1]
                      /\ t = [op |-> "ret", a1 |-> Len(src), a3 |-> 0, w |-> 0, id |-> Len(src) + 2]
      OBVIOUS
    <3>2. m.op = "mov" /\ t.op = "ret"
      BY <3>1
    <3>3. W = src \o <<m, t>>
      BY <2>1, <3>1 DEF Whole, WithRet
    <3> HIDE DEF W
    <3> QED BY <3>2, <3>3
  <2>2. CASE ~ NeedsRet(src)
    BY <2>2 DEF Whole, WithRet
  <2> QED BY <2>1, <2>2
<1> HIDE DEF W
<1>5. ASSUME NEW j \in DOMAIN ic
      PROVE  ic[j].id \in 1 .. Len(W)
  <2>1. ic[j].id \in LeastAround(W)
    BY <1>1 DEF Complete
  <2> QED BY <1>2, <2>1 DEF LeastAround
<1>6. ASSUME Jumps(ic, k)
      PROVE  /\ src[ic[k].id].a3 + 1 \in Int
             /\ \A j \in DOMAIN ic : j <= ic[k].a3 <=> ic[j].id < src[ic[k].id].a3 + 1
  <2>1. PICK i : i = ic[k].id
    OBVIOUS
  <2>2. i \in 1 .. Len(W) /\ W[i].op = ic[k].op /\ ic[k].op \in {"jmp", "jz"}
    BY <1>1, <1>5, <1>6, <2>1 DEF Complete, Jumps
  <2>3. i \in 1 .. Len(src) /\ W[i] = src[i]
    <3>1. CASE W = src
      BY <2>2, <3>1
    <3>2. CASE \E m, t : W = src \o <<m, t>> /\ m.op = "mov" /\ t.op = "ret"
      <4>1. PICK m, t : W = src \o <<m, t>> /\ m.op = "mov" /\ t.op = "ret"
        BY <3>2
      <4>2. PICK n : n = Len(src)
        OBVIOUS
      <4>3. /\ Len(W) = n + 2 /\ n \in Nat /\ W[n + 1] = m /\ W[n + 2] = t
            /\ \A y \in 1 .. n : W[y] = src[y]
        BY <1>3, <4>1, <4>2
      <4>4. i # n + 1 /\ i # n + 2
        BY <2>2, <4>1, <4>3
      <4>5. i \in 1 .. n
        BY <2>2, <4>3, <4>4
      <4> QED BY <4>2, <4>3, <4>5
    <3> QED BY <1>4, <3>1, <3>2
  <2>4. src[i].a3 \in Nat
    <3>1. src[i] \in Ins
      BY <1>3, <2>3
    <3> QED BY <3>1 DEF Ins
  <2>5. ASSUME NEW j \in DOMAIN ic
        PROVE  j <= ic[k].a3 <=> ic[j].id < src[i].a3 + 1
    <3>1. j <= ic[k].a3 <=> ic[j].id <= src[i].a3
      BY <1>1, <1>6, <2>1, <2>3 DEF Complete
    <3>2. ic[j].id \in Nat
      BY <1>2, <1>5
    <3> QED BY <2>4, <3>1, <3>2
  <2> QED BY <2>1, <2>4, <2>5
<1> QED BY <1>2, <1>5, <1>6 DEF W

\* A jump or a return that is in the finished code goes where its source says.
LEMMA GoesHome ==
    ASSUME LayoutInv, LandInv, GotCode, Finished, NEW k \in JumpsIn
    PROVE  GoesTo(HeadOf(k)) = IF ic[k + 1].op = "ret" THEN Arrival(Len(Whole) + 1)
                               ELSE Arrival(src[ic[k + 1].id].a3 + 1)
<1>1. /\ Complies(ic) /\ CodeAt(ic, Virtual, Len(ic) - 1, {Framing(f) : f \in Frames}, VRels)
      /\ Virtual \in Seq(BitT) /\ Size = Len(Virtual) /\ Size \in Nat
      /\ \A p \in 0 .. Size - 1 : p + 1 \in DOMAIN Virtual /\ Bit(p) = Virtual[p + 1]
  BY FinishedIs
<1>2. PICK n \in Nat : Len(ic) = n + 1
  <2>1. ic \in Seq(Ins) /\ Len(ic) > 0
    BY <1>1 DEF Complies
  <2>2. Len(ic) \in Nat
    BY <2>1
  <2>3. Len(ic) - 1 \in Nat /\ Len(ic) = (Len(ic) - 1) + 1
    BY <2>1, <2>2
  <2> QED BY <2>3
<1>3. ic \in Seq(Ins) /\ DOMAIN ic = 1 .. n + 1
  BY <1>1, <1>2 DEF Complies
<1>4. PICK f \in Frames : Reals(Virtual) = Framing(f) \cup InstrBits(ic, n)
  <2>1. Len(ic) - 1 = n
    BY <1>2
  <2>2. CodeAt(ic, Virtual, n, {Framing(f) : f \in Frames}, VRels)
    BY <1>1, <2>1
  <2> QED BY <2>2 DEF CodeAt
<1>5. k \in 0 .. n /\ ic[k + 1].op \in {"jmp", "jz", "ret"} /\ Present(k)
  BY <1>2 DEF JumpsIn
<1>6. k \in 0 .. n - 1
  <2>1. PICK p \in 0 .. Size - 1 : Bit(p)[1] = k
    BY <1>5 DEF Present
  <2>2. p + 1 \in DOMAIN Virtual /\ Virtual[p + 1][1] = k
    BY <1>1, <2>1
  <2>3. Real(Virtual[p + 1])
    BY <1>5, <2>2 DEF Real, Lit
  <2>4. NotLast(ic, n, Virtual[p + 1])
    BY <1>2, <1>4, <2>2, <2>3, NotLastIs
  <2> QED BY <1>5, <2>2, <2>4 DEF NotLast
<1>7. k \in 0 .. Len(ic) - 2 /\ k + 1 \in DOMAIN ic
  BY <1>2, <1>3, <1>6
<1>8. Landed(ic, Virtual)
  BY DEF LandInv, Finished
<1>9. PICK x, z, d : GoesFrom(ic, Virtual, k, x, z, d)
  BY <1>5, <1>7, <1>8 DEF Landed
<1>10. PICK l : l = x + z + d
  OBVIOUS
<1>11. GoesTo(HeadOf(k)) = l
  <2>1. GoesTo(HeadOf(k)) = x + z + d
    BY <1>5, <1>7, <1>9, JumpIsRead
  <2> QED BY <1>10, <2>1
<1>12. PICK r : r = LabelRank(ic, Dst(ic, k)) /\ LabelAt(ic, Virtual, l, r)
  BY <1>9, <1>10 DEF GoesFrom
<1>13. src \in Sources \cup More /\ ic = Alive(WithRet(src))
  BY DEF GotCode, Finished
<1>14. /\ \A j \in DOMAIN ic : ic[j].id < Len(Whole) + 1 /\ ic[j].id \in Int
       /\ Len(Whole) \in Nat
       /\ Jumps(ic, k + 1) => /\ src[ic[k + 1].id].a3 + 1 \in Int
                              /\ \A j \in DOMAIN ic : j <= ic[k + 1].a3 <=> ic[j].id < src[ic[k + 1].id].a3 + 1
  BY <1>7, <1>13, SourceIs
<1>15. ASSUME r \in 0 .. n + 1
       PROVE  l < Size
  <2>1. Framing(f) \subseteq Reals(Virtual) /\ r \in 0 .. Len(ic) /\ Len(ic) \in Nat /\ Len(Virtual) \in Nat
    BY <1>1, <1>2, <1>4, <1>15
  <2> QED BY <1>1, <1>12, <2>1, LabelInside
<1>16. CASE ic[k + 1].op = "ret"
  <2>1. r = n + 1
    BY <1>2, <1>12, <1>16 DEF Dst, LabelRank
  <2>2. l < Size
    BY <1>15, <2>1
  <2>3. PICK i \in Int : i = Len(Whole) + 1 /\ \A j \in DOMAIN ic : ic[j].id < i
    BY <1>14
  <2>4. ASSUME NEW q \in DOMAIN Virtual, Real(Virtual[q])
        PROVE  Comes(ic, Virtual[q], i) <=> Rank(ic, Virtual[q]) >= r
    BY <1>1, <1>2, <1>3, <1>4, <2>1, <2>3, <2>4, ComesLast
  <2>5. Arrival(i) = l
    BY <1>12, <2>2, <2>4, ArrivalIs
  <2> QED BY <1>11, <1>16, <2>3, <2>5
<1>17. CASE ic[k + 1].op # "ret"
  <2>1. Jumps(ic, k + 1)
    BY <1>5, <1>17 DEF Jumps
  <2>2. PICK t : t = ic[k + 1].a3
    OBVIOUS
  <2>3. t \in 0 .. n
    <3>1. ic[k + 1] \in Ins
      BY <1>3, <1>7
    <3>2. t \in Nat
      BY <2>2, <3>1 DEF Ins
    <3>3. t < Len(ic)
      BY <1>1, <1>7, <2>1, <2>2 DEF Complies
    <3> QED BY <1>2, <3>2, <3>3
  <2>4. r = t
    <3>1. r = LabelRank(ic, t + 1)
      BY <1>12, <1>17, <2>2 DEF Dst
    <3> QED BY <2>3, <3>1 DEF LabelRank, LAB_RET
  <2>5. l < Size
    BY <1>15, <2>3, <2>4
  <2>6. PICK i \in Int : i = src[ic[k + 1].id].a3 + 1 /\ \A j \in DOMAIN ic : j <= t <=> ic[j].id < i
    BY <1>14, <2>1, <2>2
  <2>7. ASSUME NEW q \in DOMAIN Virtual, Real(Virtual[q])
        PROVE  Comes(ic, Virtual[q], i) <=> Rank(ic, Virtual[q]) >= r
    BY <1>1, <1>2, <1>3, <1>4, <2>3, <2>4, <2>6, <2>7, ComesFrom
  <2>8. Arrival(i) = l
    BY <1>12, <2>5, <2>7, ArrivalIs
  <2> QED BY <1>11, <1>17, <2>6, <2>8
<1> QED BY <1>16, <1>17

\* Decoded from the finished code as the processor would, every jump goes to the
\* first bit of the instruction its source names, or of what follows it if that was
\* dead, and every return to the epilogue.
THEOREM JumpsGoHome == Spec => []JumpsLand
<1>1. LayoutInv /\ LandInv /\ GotCode => JumpsLand
  BY GoesHome DEF JumpsLand
<1> QED BY <1>1, LayoutSound, LabelsSound, CodeIsGot, PTL

=============================================================================
