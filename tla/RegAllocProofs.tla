---------------------------- MODULE RegAllocProofs ----------------------------
(***************************************************************************)
(* That a compiled function gives its caller back the registers it must    *)
(* keep, for every function and every machine.  Three facts carry the      *)
(* proof.  Every operation of the allocator keeps its maps within the      *)
(* registers and values there are, and the code made within what the       *)
(* phase of its instruction may write (Gens).  What the code may write     *)
(* (Target) is no place where a register of the caller waits (Home).  So   *)
(* every step of the code leaves those values at home (AtHome), and the    *)
(* epilogue takes them back.                                               *)
(***************************************************************************)
EXTENDS SequenceTheorems, TLAPS, FoldProofs, RegAlloc

-----------------------------------------------------------------------------
(* Sums.                                                                   *)

\* q[k] is the sum of the first k numbers of s.
IsSum(q, s) ==
    /\ q \in [Nat -> Nat] /\ q[0] = 0
    /\ \A k \in Nat : q[k + 1] = q[k] + (IF k + 1 \in DOMAIN s THEN s[k + 1] ELSE 0)

\* Every sequence of numbers has its sums.
LEMMA SumExists ==
    ASSUME NEW s \in Seq(Nat)
    PROVE  \E q : IsSum(q, s)
<1> DEFINE D == [p \in Nat \X Nat |-> p[1] + (IF p[2] + 1 \in DOMAIN s THEN s[p[2] + 1] ELSE 0)]
<1>1. IsStep(D, Nat)
  BY DEF IsStep
<1>2. \A x, k \in Nat : D[<<x, k>>] = x + (IF k + 1 \in DOMAIN s THEN s[k + 1] ELSE 0)
  OBVIOUS
<1> HIDE DEF D
<1>3. PICK q : Iterates(q, Nat, 0, D)
  <2> DEFINE T == Nat
  <2>1. 0 \in T /\ IsStep(D, T)
    BY <1>1
  <2> HIDE DEF T
  <2>2. \E q : Iterates(q, T, 0, D)
    BY <2>1, Recursion
  <2> QED BY <2>2 DEF T
<1>4. q \in [Nat -> Nat] /\ q[0] = 0 /\ \A k \in Nat : q[k + 1] = D[<<q[k], k>>]
  BY <1>3 DEF Iterates
<1>5. ASSUME NEW k \in Nat
      PROVE  q[k + 1] = q[k] + (IF k + 1 \in DOMAIN s THEN s[k + 1] ELSE 0)
  <2>1. q[k] \in Nat /\ q[k + 1] = D[<<q[k], k>>]
    BY <1>4
  <2> QED BY <2>1, <1>2
<1> QED BY <1>4, <1>5 DEF IsSum

\* What the definition of the fold of + adds up to.
SumOf(t) == FoldLeft(+, 0, t)

\* Adding a sequence up, or the first part of one, gives such a sum.
LEMMA FoldSum ==
    ASSUME NEW s \in Seq(Nat), NEW q, IsSum(q, s),
           NEW t \in Seq(Nat), Len(t) <= Len(s), \A k \in 1 .. Len(t) : t[k] = s[k]
    PROVE  SumOf(t) = q[Len(t)]
<1> DEFINE n == Len(t)
           T == Nat
           b == 0
           D == [p \in T \X (1 .. n) |-> p[1] + t[p[2]]]
<1>1. n \in Nat /\ DOMAIN t = 1 .. n /\ \A k \in 1 .. n : t[k] \in Nat
  BY LenProperties, ElementOfSeq
<1>2. \A x \in T : \A k \in 1 .. n : x + t[k] \in T
  BY <1>1
<1>3. b \in T
  OBVIOUS
<1> HIDE DEF n, T, b
<1>4. IsFoldStep(D, T, 1 .. n) /\ \A x \in T : \A k \in 1 .. n : D[<<x, k>>] = x + t[k]
  BY <1>2 DEF IsFoldStep
<1> HIDE DEF D
<1>5. PICK f : FoldsLeft(f, T, b, n, D)
  BY <1>3, <1>1, <1>4, FoldLeftExists
<1> DEFINE Def(c) == c = [x \in SUBSET DOMAIN t |->
                            IF x = {} THEN 0 ELSE c[x \ {Greatest(x)}] + t[Greatest(x)]]
           c == CHOOSE c : Def(c)
<1>6. Def(f)
  <2>1. ASSUME NEW x \in SUBSET (1 .. n), x # {}
        PROVE  f[x] = f[x \ {Greatest(x)}] + t[Greatest(x)]
    <3>1. /\ Greatest(x) \in 1 .. n /\ f[x \ {Greatest(x)}] \in T
          /\ f[x] = D[<<f[x \ {Greatest(x)}], Greatest(x)>>]
      <4>1. n \in Nat /\ x \in SUBSET (1 .. n)
        BY <1>1
      <4> QED BY <4>1, <1>5, <2>1, FoldsLeftStep, ZenonT(30)
    <3> QED BY <1>4, <3>1
  <2> QED BY <1>1, <1>5, <2>1 DEF FoldsLeft, b
<1>7. Def(c)
  BY <1>6
<1>8. SumOf(t) = c[DOMAIN t]
  BY Zenon DEF SumOf, FoldLeft, MapThenFoldSet, Greatest, Max
<1> HIDE DEF c
<1>9. c[{}] = 0
  BY <1>7
<1>10. ASSUME NEW k \in 1 .. n
      PROVE  c[1 .. k] = c[1 .. k - 1] + t[k]
  <2>1. /\ 1 .. k \in SUBSET (1 .. n) /\ 1 .. k # {}
        /\ (1 .. k) \ {Greatest(1 .. k)} = 1 .. k - 1 /\ Greatest(1 .. k) = k
    BY <1>1, PrefixStep
  <2>2. \A x \in SUBSET (1 .. n) : x # {} => c[x] = c[x \ {Greatest(x)}] + t[Greatest(x)]
    BY <1>1, <1>7
  <2> QED BY <2>1, <2>2
<1> DEFINE P == {k \in Nat : k <= n => c[1 .. k] = q[k]}
<1>11. 0 \in P
  <2>1. 1 .. 0 = {}
    OBVIOUS
  <2> QED BY <2>1, <1>9 DEF IsSum
<1>12. ASSUME NEW k \in Nat, k \in P
       PROVE  k + 1 \in P
  <2> SUFFICES ASSUME k + 1 <= n PROVE c[1 .. k + 1] = q[k + 1]
    OBVIOUS
  <2>1. k + 1 \in 1 .. n /\ (k + 1) - 1 = k /\ c[1 .. k] = q[k]
    BY <1>1, <1>12
  <2>2. k + 1 \in DOMAIN s /\ t[k + 1] = s[k + 1]
    BY <2>1, <1>1, LenProperties DEF n
  <2>3. c[1 .. k + 1] = q[k] + t[k + 1]
    BY <2>1, <1>10
  <2> QED BY <2>2, <2>3 DEF IsSum
<1> HIDE DEF P
<1>13. n \in P
  BY <1>1, <1>11, <1>12, NatInd
<1> QED BY <1>1, <1>8, <1>13 DEF P, n

\* Sums of numbers that are not 0 are at least their number, and grow.
LEMMA SumGrows ==
    ASSUME NEW s \in Seq(Nat \ {0}), NEW q, IsSum(q, s), NEW m \in 0 .. Len(s)
    PROVE  q[m] \in Nat /\ m <= q[m] /\ q[m] <= q[Len(s)]
<1>1. Len(s) \in Nat /\ DOMAIN s = 1 .. Len(s) /\ \A k \in 1 .. Len(s) : s[k] \in Nat \ {0}
  BY LenProperties, ElementOfSeq
<1>2. \A k \in Nat : q[k] \in Nat
  BY DEF IsSum
<1>3. \A k \in Nat : k + 1 <= Len(s) => q[k] + 1 <= q[k + 1]
  <2> SUFFICES ASSUME NEW k \in Nat, k + 1 <= Len(s)
               PROVE  q[k] + 1 <= q[k + 1]
    OBVIOUS
  <2>1. k + 1 \in DOMAIN s /\ s[k + 1] \in Nat /\ s[k + 1] >= 1
    BY <1>1
  <2>2. q[k + 1] = q[k] + s[k + 1] /\ q[k] \in Nat
    BY <2>1, <1>2 DEF IsSum
  <2> QED BY <2>1, <2>2
<1> DEFINE P == {k \in Nat : k <= Len(s) => k <= q[k]}
           Q == {k \in Nat : m + k <= Len(s) => q[m] <= q[m + k]}
<1>4. m \in P
  <2>1. 0 \in P
    BY <1>2
  <2>2. ASSUME NEW k \in Nat, k \in P
        PROVE  k + 1 \in P
    <3> SUFFICES ASSUME k + 1 <= Len(s) PROVE k + 1 <= q[k + 1]
      OBVIOUS
    <3>1. k <= q[k] /\ q[k] + 1 <= q[k + 1] /\ q[k] \in Nat /\ q[k + 1] \in Nat
      BY <1>1, <1>2, <1>3, <2>2
    <3> QED BY <3>1
  <2> HIDE DEF P
  <2>3. \A k \in Nat : k \in P
    BY <2>1, <2>2, NatInd
  <2> QED BY <2>3, <1>1
<1>5. Len(s) - m \in Q
  <2>1. 0 \in Q
    BY <1>2
  <2>2. ASSUME NEW k \in Nat, k \in Q
        PROVE  k + 1 \in Q
    <3> SUFFICES ASSUME m + (k + 1) <= Len(s) PROVE q[m] <= q[m + (k + 1)]
      OBVIOUS
    <3>1. m + k \in Nat /\ (m + k) + 1 <= Len(s) /\ m + k <= Len(s) /\ m + (k + 1) = (m + k) + 1
      BY <1>1
    <3>2. q[m] <= q[m + k] /\ q[m + k] + 1 <= q[(m + k) + 1]
      BY <2>2, <3>1, <1>3
    <3>3. q[m] \in Nat /\ q[m + k] \in Nat /\ q[(m + k) + 1] \in Nat
      BY <1>2, <3>1
    <3> QED BY <3>1, <3>2, <3>3
  <2> HIDE DEF Q
  <2>3. \A k \in Nat : k \in Q
    BY <2>1, <2>2, NatInd
  <2> QED BY <2>3, <1>1
<1>6. m + (Len(s) - m) = Len(s)
  BY <1>1
<1> QED BY <1>1, <1>2, <1>4, <1>5, <1>6

-----------------------------------------------------------------------------
(* The frame.                                                              *)

\* Arguments are above the linkage, the other locals in loc_pos words below.
LEMMA Offsets ==
    ASSUME src \in Sources
    PROVE  /\ loc_pos \in Nat /\ argc \in Nat
           /\ \A l \in Locals \cup {0} : loc_off(l) \in Int
           /\ \A l \in Locals : IF l <= argc THEN loc_off(l) >= 2
                                ELSE -loc_pos <= loc_off(l) /\ loc_off(l) <= -1
<1> DEFINE s == src.locs
           n == Len(s)
<1>1. argc \in Nat /\ s \in Seq(Nat \ {0}) /\ Locals = 1 .. argc + n
  BY SourcesAssumption DEF argc, Locals
<1>2. s \in Seq(Nat) /\ n \in Nat
  BY <1>1, LenProperties, ElementOfSeq
<1>3. PICK q : IsSum(q, s)
  BY <1>2, SumExists
<1> HIDE DEF s
<1>4. loc_pos = q[n] /\ q[n] \in Nat
  <2>1. SumOf(s) = q[n]
    BY <1>2, <1>3, FoldSum
  <2>2. q[n] \in Nat
    BY <1>2, <1>3 DEF IsSum
  <2>3. loc_pos = SumOf(s)
    BY Zenon DEF loc_pos, SumOf, s
  <2> QED BY <2>1, <2>2, <2>3
<1>5. ASSUME NEW l \in Locals, ~ (l <= argc)
      PROVE  /\ loc_off(l) = -q[l - argc] /\ q[l - argc] \in Nat
             /\ 1 <= q[l - argc] /\ q[l - argc] <= q[n]
  <2> DEFINE m == l - argc
             t == SubSeq(s, 1, m)
  <2>1. m \in 0 .. n /\ 1 <= m
    BY <1>1, <1>2, <1>5
  <2>2. t \in Seq(Nat) /\ Len(t) = m /\ \A k \in 1 .. m : t[k] = s[k]
    BY <1>2, <2>1, SubSeqProperties
  <2> HIDE DEF t, m
  <2>3. SumOf(t) = q[m]
    BY <1>2, <1>3, <2>1, <2>2, FoldSum, SMTT(30)
  <2>4. q[m] \in Nat /\ m <= q[m] /\ q[m] <= q[n]
    BY <1>1, <1>3, <2>1, SumGrows
  <2>5. loc_off(l) = -SumOf(t)
    BY Zenon, <1>5 DEF loc_off, SumOf, s, t, m
  <2> QED BY <2>1, <2>3, <2>4, <2>5 DEF m
<1>6. \A l \in Locals \cup {0} : l <= argc => loc_off(l) = 1 + l /\ l \in Nat
  <2> SUFFICES ASSUME NEW l \in Locals \cup {0}, l <= argc
               PROVE  loc_off(l) = 1 + l /\ l \in Nat
    OBVIOUS
  <2>1. loc_off(l) = 1 + l
    BY Zenon DEF loc_off
  <2> QED BY <2>1, <1>1, <1>2
<1>7. ASSUME NEW l \in Locals
      PROVE  /\ loc_off(l) \in Int
             /\ IF l <= argc THEN loc_off(l) >= 2
                ELSE -loc_pos <= loc_off(l) /\ loc_off(l) <= -1
  <2>1. l \in Nat /\ l >= 1
    BY <1>1, <1>2
  <2>2. CASE l <= argc
    BY <2>1, <2>2, <1>6
  <2>3. CASE ~ (l <= argc)
    <3>1. loc_off(l) = -q[l - argc] /\ q[l - argc] \in Nat /\ 1 <= q[l - argc] /\ q[l - argc] <= q[n]
      BY <1>5, <2>3
    <3> DEFINE v == q[l - argc]
               w == q[n]
    <3> HIDE DEF v, w
    <3>2. loc_off(l) = -v /\ v \in Nat /\ 1 <= v /\ v <= w /\ w \in Nat /\ loc_pos = w
      BY <3>1, <1>4 DEF v, w
    <3> QED BY <3>2, <2>3
  <2> QED BY <2>2, <2>3
<1>8. loc_off(0) \in Int
  BY <1>1, <1>6
<1> QED BY <1>1, <1>4, <1>7, <1>8

\* Types of the allocator's state, of which the frame is made.
FrameType == ra.regs \subseteq Regs /\ ra.mem \subseteq Nat /\ ra.vmax \in Nat /\ ra.maxargs \in Nat

\* The frame is as large as what is in it, in whatever way it is made.
LEMMA FrameSizes ==
    ASSUME src \in Sources, FrameType
    PROVE  /\ IsFiniteSet(sregs) /\ Cardinality(sregs) \in Nat
           /\ locals_size \in Nat
           /\ (ra.mem # {} \/ ra.vmax > 0) => locals_size = loc_pos + ra.vmax
           /\ SP = -(locals_size + Cardinality(sregs) + ra.maxargs)
           /\ sregs # {} => szloc = locals_size /\ szarg = ra.maxargs
<1> DEFINE n == Cardinality(sregs)
<1>1. IsFiniteSet(sregs) /\ n \in Nat /\ (sregs # {} => n # 0)
  <2>1. N_TMPS \in Nat
    BY RegAllocAssumption, LenProperties DEF N_TMPS
  <2>2. IsFiniteSet(Regs)
    BY <2>1, RegAllocAssumption, FS_Interval
  <2>3. sregs \subseteq Regs
    BY DEF sregs, FrameType
  <2> QED BY <2>2, <2>3, FS_Subset, FS_CardinalityType, FS_EmptySet
<1>2. loc_pos \in Nat
  BY Offsets
<1>3. locals_size \in Nat /\ ((ra.mem # {} \/ ra.vmax > 0) => locals_size = loc_pos + ra.vmax)
  BY <1>2 DEF locals_size, FrameType
<1>4. ra.maxargs \in Nat
  BY DEF FrameType
<1> DEFINE m == locals_size
           k == ra.maxargs
<1>5. spsub = m + n + k /\ sregs_pos = m + n
  BY DEF spsub, sregs_pos
<1> HIDE DEF n, m, k
<1>6. m \in Nat /\ k \in Nat
  BY <1>3, <1>4 DEF m, k
<1>7. CASE sregs # {}
  <2>1. n \in Nat /\ n # 0
    BY <1>1, <1>7
  <2>2. spsub # 0
    BY <1>5, <1>6, <2>1
  <2>3. szloc = m + n - n /\ szarg = (m + n + k) - (m + n)
    <3>1. szloc = sregs_pos - n /\ szarg = spsub - sregs_pos
      BY <2>2, <1>7 DEF szloc, szarg, n
    <3> QED BY <3>1, <1>5, <1>6, <2>1
  <2>4. szloc = m /\ szarg = k
    BY <1>6, <2>1, <2>3
  <2>5. SP = -(m + n + k)
    BY <2>4 DEF SP, n
  <2> QED BY <1>1, <1>3, <2>4, <2>5 DEF n, m, k
<1>8. CASE sregs = {}
  <2>1. n = 0
    BY <1>8, FS_EmptySet DEF n
  <2>2. szloc = m + n + k /\ szarg = 0
    BY <1>5, <1>8 DEF szloc, szarg
  <2>3. SP = -((m + n + k) + n + 0)
    BY <2>2 DEF SP, n
  <2>4. SP = -(m + n + k)
    BY <1>6, <2>1, <2>3
  <2> QED BY <1>1, <1>3, <1>8, <2>4 DEF n, m, k
<1> QED BY <1>7, <1>8

\* The registers of the caller are where the prologue puts them and the
\* epilogue looks for them, between the locals and the arguments of calls.
LEMMA SavedRegisters ==
    ASSUME src \in Sources, FrameType, NEW r \in sregs
    PROVE  /\ SaveSlots[r] \in Int /\ SaveSlots[r] = LoadSlots[r]
           /\ SaveSlots[r] <= -locals_size - 1
           /\ SaveSlots[r] >= SP + ra.maxargs
<1> DEFINE n  == Cardinality(sregs)
           up == {q \in sregs : q >= r}
           lo == {q \in sregs : q < r}
           a  == Cardinality(up)
           b  == Cardinality(lo)
           m  == locals_size
           k  == ra.maxargs
<1>1. /\ IsFiniteSet(sregs) /\ n \in Nat /\ m \in Nat /\ SP = -(m + n + k)
      /\ szloc = m /\ szarg = k
  BY FrameSizes
<1>2. k \in Nat
  BY DEF FrameType
<1>3. sregs \subseteq Nat
  <2>1. N_TMPS \in Nat /\ Regs = 1 .. N_TMPS
    BY RegAllocAssumption, LenProperties DEF N_TMPS
  <2> QED BY <2>1 DEF sregs, FrameType
<1>4. IsFiniteSet(up) /\ IsFiniteSet(lo) /\ a \in Nat /\ b \in Nat
  BY <1>1, FS_Subset, FS_CardinalityType
<1>5. a + b = n
  <2>1. up \cup lo = sregs /\ up \cap lo = {}
    <3>1. r \in Nat /\ \A q \in sregs : q \in Nat
      BY <1>3
    <3>2. \A q \in sregs : (q >= r \/ q < r) /\ ~ (q >= r /\ q < r)
      BY <3>1
    <3> QED BY <3>2
  <2>2. Cardinality(up \cup lo) = a + b - Cardinality(up \cap lo)
    BY <1>4, FS_Union
  <2>3. Cardinality({}) = 0
    BY FS_EmptySet
  <2> HIDE DEF a, b, up, lo
  <2> QED BY <2>1, <2>2, <2>3, <1>4
<1>6. a # 0
  <2>1. r \in up
    BY <1>3
  <2> HIDE DEF up
  <2> QED BY <2>1, <1>4, FS_EmptySet
<1>7. SaveSlots[r] = -szloc - a
  BY DEF SaveSlots, Saved
<1>8. LoadSlots[r] = SP + szarg + b
  BY DEF LoadSlots, Loaded
<1> HIDE DEF n, a, b, m, k
<1>9. SaveSlots[r] = -m - a /\ LoadSlots[r] = -(m + n + k) + k + b
  BY <1>1, <1>7, <1>8
<1>10. /\ SaveSlots[r] \in Int /\ SaveSlots[r] = LoadSlots[r]
       /\ SaveSlots[r] <= -m - 1 /\ SaveSlots[r] >= SP + k
  <2> HIDE DEF up, lo
  <2>1. a \in Nat /\ b \in Nat /\ n \in Nat /\ m \in Nat /\ k \in Nat
    BY <1>1, <1>2, <1>4
  <2>2. SP = -(m + n + k)
    BY <1>1
  <2> QED BY <2>1, <2>2, <1>5, <1>6, <1>9
<1> QED BY <1>10 DEF m, k

\* The registers that code may change, when func_regs is g.regs: the callee-saved
\* ones only when they are in it.
Allowed(g, r) == r \in Regs /\ (r \in PERM => r \in g.regs)

\* Where that code may write: such registers, the locals of loc_mem, the values
\* spilled, the arguments on the stack.
Target(g) ==
    {R(r) : r \in {r \in Regs : Allowed(g, r)}}
    \cup {Slot(l) : l \in g.mem \cap Locals}
    \cup {iv_addr(k) : k \in 1 .. g.vmax}
    \cup {Sp(j) : j \in 0 .. g.maxargs - 1}

\* Where what the caller had in a register is while the function runs.
Home(r) ==
    IF r \in sregs THEN Fp(SaveSlots[r])
    ELSE IF r \in {FP, LR} /\ initfp THEN Linkage(r) ELSE R(r)

\* It is in the register only when the function may not change that.
LEMMA Homes ==
    ASSUME src \in Sources, FrameType, NEW r \in Kept
    PROVE  \/ r \in sregs /\ Home(r) = Fp(SaveSlots[r])
           \/ r \in PERM \ ra.regs /\ Home(r) = R(r)
           \/ r \in {FP, LR} /\ initfp /\ Home(r) = Linkage(r)
           \/ r \in {FP, LR} /\ ~initfp /\ Home(r) = R(r)
<1>1. CASE r \in sregs
  BY <1>1 DEF Home
<1>2. CASE r \in PERM /\ r \notin sregs
  <2>1. r \notin {FP, LR} /\ r \notin ra.regs
    BY <1>2, RegAllocAssumption DEF sregs
  <2> QED BY <1>2, <2>1 DEF Home
<1>3. CASE r \in {FP, LR}
  <2>1. r \notin sregs
    BY <1>3, RegAllocAssumption DEF sregs
  <2> QED BY <1>3, <2>1 DEF Home
<1> QED BY <1>1, <1>2, <1>3 DEF Kept

\* The code writes nowhere where the caller's registers are.
LEMMA HomesApart ==
    ASSUME src \in Sources, FrameType, NEW p \in Target(ra), NEW r \in Kept
    PROVE  Resolve(p) # Home(r)
<1> DEFINE m == locals_size
           n == Cardinality(sregs)
           k == ra.maxargs
           o == SaveSlots[r]
<1>1. /\ m \in Nat /\ n \in Nat /\ k \in Nat /\ ra.vmax \in Nat /\ SP = -(m + n + k)
      /\ (ra.mem # {} \/ ra.vmax > 0) => m = loc_pos + ra.vmax
  BY FrameSizes DEF FrameType
<1>2. r \in sregs => o \in Int /\ o <= -m - 1 /\ o >= SP + k
  BY SavedRegisters
<1>3. /\ loc_pos \in Nat
      /\ \A l \in Locals : IF l <= argc THEN loc_off(l) >= 2
                          ELSE -loc_pos <= loc_off(l) /\ loc_off(l) <= -1
      /\ \A l \in Locals : loc_off(l) \in Int
  BY Offsets
<1>4. Home(r) \in {R(r), Fp(0), Fp(1)} \/ (r \in sregs /\ Home(r) = Fp(o))
  BY Homes DEF Linkage
<1> HIDE DEF m, n, k, o
<1>5. ASSUME NEW q \in Int, Resolve(p) = Fp(q), q < 0 \/ q >= 2,
             r \in sregs => q # o
      PROVE  Resolve(p) # Home(r)
  BY <1>4, <1>5 DEF Fp, R
<1>6. CASE p \in {R(q) : q \in {q \in Regs : Allowed(ra, q)}}
  <2>1. PICK q \in Regs : Allowed(ra, q) /\ p = R(q)
    BY <1>6
  <2>2. Resolve(p) = R(q)
    BY <2>1 DEF Resolve, R
  <2>3. ASSUME Home(r) = R(q)
        PROVE  FALSE
    <3>1. Home(r) = R(r) /\ (r \in PERM \ ra.regs \/ r \in {FP, LR})
      BY <2>3, Homes DEF Linkage, Fp, R
    <3>2. r = q
      BY <2>3, <3>1 DEF R
    <3> QED BY <2>1, <3>1, <3>2, RegAllocAssumption DEF Allowed
  <2> QED BY <2>2, <2>3
<1>7. CASE p \in {Slot(l) : l \in ra.mem \cap Locals}
  <2>1. PICK l \in ra.mem \cap Locals : p = Slot(l)
    BY <1>7
  <2> DEFINE q == loc_off(l)
  <2>2. Resolve(p) = Fp(q)
    BY <2>1 DEF Resolve, Slot, Fp
  <2>3. /\ q \in Int /\ m = loc_pos + ra.vmax
        /\ q >= 2 \/ (-loc_pos <= q /\ q <= -1)
    BY <2>1, <1>1, <1>3
  <2> HIDE DEF q
  <2>4. (q < 0 \/ q >= 2) /\ (r \in sregs => q # o)
    BY <2>3, <1>1, <1>2, <1>3
  <2> QED BY <2>2, <2>3, <2>4, <1>5
<1>8. CASE p \in {iv_addr(v) : v \in 1 .. ra.vmax}
  <2>1. PICK v \in 1 .. ra.vmax : p = iv_addr(v)
    BY <1>8
  <2> DEFINE q == -(loc_pos + v)
  <2>2. Resolve(p) = Fp(q)
    BY <2>1 DEF Resolve, iv_addr, Fp
  <2>3. v \in Int /\ 1 <= v /\ v <= ra.vmax /\ ra.vmax > 0
    BY <2>1, <1>1
  <2>4. q \in Int /\ q < 0 /\ (r \in sregs => q # o)
    BY <2>3, <1>1, <1>2, <1>3
  <2> HIDE DEF q
  <2> QED BY <2>2, <2>4, <1>5
<1>9. CASE p \in {Sp(j) : j \in 0 .. ra.maxargs - 1}
  <2>1. PICK j \in 0 .. k - 1 : p = Sp(j)
    BY <1>9 DEF k
  <2> DEFINE q == SP + j
  <2>2. Resolve(p) = Fp(q)
    BY <2>1 DEF Resolve, Sp
  <2>3. q \in Int /\ q < 0 /\ (r \in sregs => q # o)
    BY <2>1, <1>1, <1>2
  <2> HIDE DEF q
  <2> QED BY <2>2, <2>3, <1>5
<1> QED BY <1>6, <1>7, <1>8, <1>9 DEF Target

\* What a function that is called may change leaves them alone too.
LEMMA HomesBelow ==
    ASSUME src \in Sources, FrameType, NEW r \in Kept, NEW x \in Nat, x <= ra.maxargs
    PROVE  ~ (Home(r)[1] = "fp" /\ Home(r)[2] < SP + x)
<1> DEFINE o == SaveSlots[r]
<1>1. locals_size \in Nat /\ Cardinality(sregs) \in Nat /\ ra.maxargs \in Nat
      /\ SP = -(locals_size + Cardinality(sregs) + ra.maxargs)
  BY FrameSizes DEF FrameType
<1>2. r \in sregs => o \in Int /\ o >= SP + ra.maxargs
  BY SavedRegisters
<1>3. Home(r) \in {R(r), Fp(0), Fp(1)} \/ (r \in sregs /\ Home(r) = Fp(o))
  BY Homes DEF Linkage
<1> HIDE DEF o
<1> QED BY <1>1, <1>2, <1>3 DEF Fp, R

-----------------------------------------------------------------------------
(* Functions, registers and regions.                                       *)

\* The least of some numbers is one of them.
LEMMA MinIn ==
    ASSUME NEW S \in SUBSET Nat, S # {}
    PROVE  Min(S) \in S /\ \A y \in S : Min(S) <= y
<1>1. \E m \in S : \A y \in S : m <= y
  BY LeastNat
<1> QED BY <1>1 DEF Min

\* The larger of two is one of them, and as large as both.
LEMMA MaxOfTwo ==
    ASSUME NEW x \in Int, NEW y \in Int
    PROVE  Max({x, y}) \in {x, y} /\ x <= Max({x, y}) /\ y <= Max({x, y})
<1>1. \E m \in {x, y} : \A z \in {x, y} : m >= z
  BY x >= y \/ y >= x
<1>2. /\ Max({x, y}) \in {x, y} /\ \A z \in {x, y} : Max({x, y}) >= z
  BY <1>1 DEF Max
<1> QED BY <1>2

\* The first of a set is in it, or 0 where there is none.
LEMMA FirstIn ==
    ASSUME NEW S \in SUBSET Nat
    PROVE  First(S) \in S \cup {0} /\ (First(S) = 0 => S = {} \/ 0 \in S)
BY MinIn DEF First

\* The registers and what the functions are made of.
LEMMA Registers ==
    /\ N_TMPS \in Nat /\ Regs = 1 .. N_TMPS /\ PERM \subseteq Regs
    /\ N_ARGS \in Nat /\ N_ARGS # 0 /\ \A j \in 1 .. N_ARGS : argregs[j] \in Regs \ PERM
    /\ RET \in Regs \ PERM
    /\ \A k \in 1 .. 4 : MEM[k] \in Regs
    /\ Range(MEM) \subseteq Regs
    /\ NTMPS \in Nat
<1>1. N_TMPS \in Nat /\ N_ARGS \in Nat
  BY RegAllocAssumption, LenProperties DEF N_TMPS, N_ARGS
<1>2. N_ARGS # 0 /\ \A j \in 1 .. N_ARGS : argregs[j] \in Regs \ PERM
  BY RegAllocAssumption, EmptySeq, LenProperties, ElementOfSeq DEF N_ARGS
<1>3. \A k \in 1 .. 4 : MEM[k] \in Regs
  BY RegAllocAssumption, ElementOfSeq
<1>4. Range(MEM) \subseteq Regs
  <2>1. DOMAIN MEM = 1 .. 4
    BY RegAllocAssumption, LenProperties
  <2>2. Range(MEM) = {MEM[k] : k \in DOMAIN MEM}
    BY DEF Range
  <2> QED BY <2>1, <2>2, <1>3
<1> QED BY <1>1, <1>2, <1>3, <1>4, RegAllocAssumption DEF RET

\* A function of the sources: its code ends in a return, its instructions name
\* values made before them, locals it has and places in its code.
LEMMA Code ==
    ASSUME src \in Sources
    PROVE  /\ Len(ic) \in Nat \ {0} /\ Ins = 1 .. Len(ic) /\ ic[Len(ic)].op = "ret"
           /\ argc \in Nat /\ Locals \subseteq Nat \ {0}
           /\ \A i \in Ins :
                 /\ ic[i].a \in Seq(Nat) /\ ic[i].args \in Seq(Nat) /\ ic[i].l \in Nat
                 /\ \A k \in DOMAIN ic[i].a : ic[i].a[k] \in Nat
                 /\ \A k \in DOMAIN ic[i].args : ic[i].args[k] \in Nat
                 /\ ic[i].op \in {"addr", "ldl", "stl"} => ic[i].l \in Locals
                 /\ ic[i].op = "stl" => Len(ic[i].a) = 1
                 /\ ic[i].op \in JXX => ic[i].t \in Ins
<1> DEFINE I == [op : STRING, a : Seq(Nat), args : Seq(Nat), l : Nat, off : Nat, sz : Nat, t : Nat]
<1>1. ic \in Seq(I) /\ ic # <<>> /\ ic[Len(ic)].op = "ret" /\ argc \in Nat
      /\ src.locs \in Seq(Nat \ {0})
  BY SourcesAssumption DEF ic, argc
<1>2. /\ Len(ic) \in Nat \ {0} /\ Ins = 1 .. Len(ic) /\ \A i \in Ins : ic[i] \in I
      /\ Len(src.locs) \in Nat
  BY <1>1, LenProperties, ElementOfSeq, EmptySeq DEF Ins
<1>3. Locals \subseteq Nat \ {0}
  BY <1>1, <1>2, SMTT(30) DEF Locals
<1>4. ASSUME NEW i \in Ins
      PROVE  /\ ic[i].a \in Seq(Nat) /\ ic[i].args \in Seq(Nat) /\ ic[i].l \in Nat
             /\ \A k \in DOMAIN ic[i].a : ic[i].a[k] \in Nat
             /\ \A k \in DOMAIN ic[i].args : ic[i].args[k] \in Nat
  <2>1. ic[i].a \in Seq(Nat) /\ ic[i].args \in Seq(Nat) /\ ic[i].l \in Nat
    BY <1>2
  <2> QED BY <2>1, LenProperties, ElementOfSeq
<1>5. ASSUME NEW i \in Ins
      PROVE  /\ ic[i].op \in {"addr", "ldl", "stl"} => ic[i].l \in Locals
             /\ ic[i].op = "stl" => Len(ic[i].a) = 1
             /\ ic[i].op \in JXX => ic[i].t \in Ins
  BY SourcesAssumption DEF ic, Ins, Locals, argc, JXX
<1> QED BY <1>1, <1>2, <1>3, <1>4, <1>5

\* A live region; and the context of what follows: a function and its regions.
RegionType == [loc : Locals \cup {0}, beg : 1 .. Len(ic) + 1, end : 1 .. Len(ic) + 1,
               cnt : Nat, reg : Regs \cup {0}]
Given == src \in Sources /\ rgn \in Seq(RegionType)

\* A local's register, and a register's local, are those of a region.
LEMMA RegionMaps ==
    ASSUME Given, NEW i, NEW l, NEW r
    PROVE  /\ reg_lmap(i, l) \in Regs \cup {0}
           /\ reg_lmap(i, l) # 0 => \E k \in DOMAIN rgn : rgn[k].reg = reg_lmap(i, l)
           /\ reg_rmap(i, r) \in Locals \cup {0}
           /\ reg_rmap(i, r) # 0 => \E k \in DOMAIN rgn : rgn[k].reg = r
<1>1. DOMAIN rgn \in SUBSET Nat /\ \A k \in DOMAIN rgn : rgn[k] \in RegionType
  BY LenProperties, ElementOfSeq DEF Given
<1>2. \A k \in DOMAIN rgn : rgn[k].reg \in Regs \cup {0} /\ rgn[k].loc \in Locals \cup {0}
  BY <1>1 DEF RegionType
<1> DEFINE own == {k \in DOMAIN rgn : rgn[k].loc = l /\ Live(i, rgn[k])}
           its == {k \in DOMAIN rgn : rgn[k].reg = r /\ Live(i, rgn[k])}
<1>3. own # {} => Min(own) \in own
  BY <1>1, MinIn
<1>4. its # {} => Min(its) \in its
  BY <1>1, MinIn
<1>5. reg_lmap(i, l) = IF own = {} THEN 0 ELSE rgn[Min(own)].reg
  BY DEF reg_lmap
<1>6. reg_rmap(i, r) = IF its = {} THEN 0 ELSE rgn[Min(its)].loc
  BY DEF reg_rmap
<1> QED BY <1>2, <1>3, <1>4, <1>5, <1>6

-----------------------------------------------------------------------------
(* The state of the allocator, and what its code may do.                   *)

PlaceType == {"r", "fp", "sp"} \X Int
StepType ==
    [k : {"copy"}, to : PlaceType, from : PlaceType]
    \cup [k : {"part"}, to : PlaceType, l : Nat]
    \cup [k : {"do"}, i : Nat, rd : Nat, rs : Seq(Nat)]
GenType ==
    [i : Nat, vmap : [Regs -> Nat], lmap : [Regs -> Locals \cup {0}], live : [1 .. NTMPS -> Nat],
     regs : SUBSET Regs, vmax : Nat, maxargs : Nat, mem : SUBSET Nat, out : Seq(StepType),
     lab : Seq(Nat), died : BOOLEAN]

\* A step writes where it may, and does not do more than the frame provides for.
StepFits(g, s) ==
    /\ s.k \in {"copy", "part"} => s.to \in Target(g)
    /\ s.k = "do" =>
          /\ s.i \in Ins
          /\ ic[s.i].op \in Outs => Allowed(g, s.rd)
          /\ Changed(s.i) \cap PERM \subseteq g.regs
          /\ ic[s.i].op \in Calls => Len(ic[s.i].args) - N_ARGS <= g.maxargs

\* Where the allocator is: at instruction i, labs instructions have begun, the
\* last of them has past steps still to come (0 or 1), it needs regs and room
\* for args arguments, and the compiler may have died.
Phase == [i : Nat, labs : Nat, past : {0, 1}, regs : SUBSET Regs, args : Int, died : BOOLEAN]

Fits(g, c) ==
    /\ c.regs \subseteq g.regs /\ c.args <= g.maxargs
    /\ \A k \in DOMAIN g.lab : g.lab[k] \in 1 .. Len(g.out) + c.past
    /\ \A k \in DOMAIN rgn : rgn[k].reg \in g.regs \cup {0}
    /\ \A r \in Regs : g.lmap[r] # 0 => Allowed(g, r)
    /\ \A n \in DOMAIN g.out : StepFits(g, g.out[n])
\* The states of the allocator there.
Gens(c) ==
    {g \in GenType : /\ g.i = c.i /\ Len(g.lab) = c.labs /\ (c.died => g.died)
                     /\ g.died \/ Fits(g, c)}

\* What fits goes on to fit when the frame grows.
LEMMA StillFits ==
    ASSUME src \in Sources, NEW g \in GenType, NEW h \in GenType, NEW s, StepFits(g, s),
           g.regs \subseteq h.regs, g.mem \subseteq h.mem, g.vmax <= h.vmax, g.maxargs <= h.maxargs
    PROVE  StepFits(h, s)
<1>1. \A r : Allowed(g, r) => Allowed(h, r)
  BY DEF Allowed
<1>2. /\ g.vmax \in Nat /\ h.vmax \in Nat /\ g.maxargs \in Nat /\ h.maxargs \in Nat
  BY DEF GenType
<1>3. 1 .. g.vmax \subseteq 1 .. h.vmax /\ 0 .. g.maxargs - 1 \subseteq 0 .. h.maxargs - 1
  BY <1>2
<1>4. Target(g) \subseteq Target(h)
  <2> SUFFICES ASSUME NEW p \in Target(g) PROVE p \in Target(h)
    OBVIOUS
  <2>1. CASE p \in {R(r) : r \in {r \in Regs : Allowed(g, r)}}
    BY <2>1, <1>1 DEF Target
  <2>2. CASE p \in {Slot(l) : l \in g.mem \cap Locals}
    BY <2>2 DEF Target
  <2>3. CASE p \in {iv_addr(k) : k \in 1 .. g.vmax}
    BY <2>3, <1>3 DEF Target
  <2>4. CASE p \in {Sp(j) : j \in 0 .. g.maxargs - 1}
    BY <2>4, <1>3 DEF Target
  <2> QED BY <2>1, <2>2, <2>3, <2>4 DEF Target
<1>5. s.k \in {"copy", "part"} => s.to \in Target(h)
  BY <1>4 DEF StepFits
<1>6. ASSUME s.k = "do"
      PROVE  /\ s.i \in Ins
             /\ ic[s.i].op \in Outs => Allowed(h, s.rd)
             /\ Changed(s.i) \cap PERM \subseteq h.regs
  BY <1>1, <1>6 DEF StepFits
<1>7. ASSUME s.k = "do", ic[s.i].op \in Calls
      PROVE  Len(ic[s.i].args) - N_ARGS <= h.maxargs
  <2> DEFINE x == Len(ic[s.i].args) - N_ARGS
  <2>1. x <= g.maxargs
    BY <1>7 DEF StepFits
  <2>2. x \in Int
    BY <1>6, <1>7, Code, Registers, LenProperties DEF Given
  <2> HIDE DEF x
  <2>3. x <= h.maxargs
    BY <1>2, <2>1, <2>2
  <2> QED BY <2>3 DEF x
<1> QED BY <1>5, <1>6, <1>7 DEF StepFits

\* Between two steps made, the frame may grow, and locals may be put into
\* registers which the function may change.
LEMMA Changes ==
    ASSUME src \in Sources, NEW c \in Phase, NEW g \in Gens(c), NEW h \in GenType,
           h.i = g.i, h.lab = g.lab, h.out = g.out, g.died => h.died,
           g.regs \subseteq h.regs, g.mem \subseteq h.mem, g.vmax <= h.vmax, g.maxargs <= h.maxargs,
           h.died \/ \A r \in Regs : h.lmap[r] \in {0, g.lmap[r]} \/ Allowed(h, r)
    PROVE  h \in Gens(c)
<1>1. g \in GenType
  BY DEF Gens
<1> SUFFICES ASSUME ~h.died PROVE Fits(h, c)
  BY DEF Gens
<1>2. Fits(g, c)
  BY DEF Gens
<1>3. c.args \in Int /\ g.maxargs \in Nat /\ h.maxargs \in Nat
  BY <1>1 DEF Phase, GenType
<1>4. c.regs \subseteq h.regs /\ c.args <= h.maxargs
  BY <1>2, <1>3 DEF Fits
<1>5. \A r : Allowed(g, r) => Allowed(h, r)
  BY DEF Allowed
<1>6. \A r \in Regs : h.lmap[r] # 0 => Allowed(h, r)
  BY <1>2, <1>5 DEF Fits
<1>7. \A n \in DOMAIN h.out : StepFits(h, h.out[n])
  BY <1>1, <1>2, StillFits DEF Fits
<1> QED BY <1>2, <1>4, <1>6, <1>7 DEF Fits

\* A step is made.
LEMMA Emits ==
    ASSUME src \in Sources, NEW c \in Phase, NEW g \in Gens(c), NEW s \in StepType,
           g.died \/ StepFits(g, s)
    PROVE  Emit(g, s) \in Gens(c) /\ Emit(g, s) \in Gens([c EXCEPT !.past = 0])
<1> DEFINE h == Emit(g, s)
           d == [c EXCEPT !.past = 0]
<1>1. g \in GenType /\ g.out \in Seq(StepType) /\ g.lab \in Seq(Nat)
  BY DEF Gens, GenType
<1>2. h = [g EXCEPT !.out = Append(g.out, s)]
  BY DEF Emit
<1>3. /\ Append(g.out, s) \in Seq(StepType) /\ Len(Append(g.out, s)) = Len(g.out) + 1
      /\ Len(g.out) \in Nat
      /\ \A n \in DOMAIN Append(g.out, s) :
             Append(g.out, s)[n] = s \/ (n \in DOMAIN g.out /\ Append(g.out, s)[n] = g.out[n])
  BY <1>1, AppendProperties, LenProperties
<1>4. /\ h \in GenType /\ h.i = g.i /\ h.lab = g.lab /\ h.died = g.died /\ h.lmap = g.lmap
      /\ h.regs = g.regs /\ h.mem = g.mem /\ h.vmax = g.vmax /\ h.maxargs = g.maxargs
      /\ h.out = Append(g.out, s)
  BY <1>1, <1>2, <1>3 DEF GenType
<1>5. d.i = c.i /\ d.labs = c.labs /\ d.died = c.died /\ d.regs = c.regs /\ d.args = c.args /\ d.past = 0
  BY DEF Phase
<1>6. c.past \in {0, 1}
  BY DEF Phase
<1> HIDE DEF h, d
<1>7. ASSUME ~h.died
      PROVE  Fits(h, c) /\ Fits(h, d)
  <2>1. Fits(g, c) /\ StepFits(g, s)
    BY <1>4, <1>7 DEF Gens
  <2>2. \A r : Allowed(g, r) <=> Allowed(h, r)
    BY <1>4 DEF Allowed
  <2>3. \A x : StepFits(g, x) => StepFits(h, x)
    <3>1. g.vmax \in Nat /\ g.maxargs \in Nat
      BY <1>1 DEF GenType
    <3> QED BY <1>1, <1>4, <3>1, StillFits
  <2>4. \A n \in DOMAIN h.out : StepFits(h, h.out[n])
    BY <1>3, <1>4, <2>1, <2>3 DEF Fits
  <2>5. \A k \in DOMAIN g.lab : /\ g.lab[k] \in 1 .. Len(h.out) + c.past
                                /\ g.lab[k] \in 1 .. Len(h.out) + 0
    BY <1>3, <1>4, <1>6, <2>1 DEF Fits
  <2> QED BY <1>4, <1>5, <2>1, <2>2, <2>4, <2>5 DEF Fits
<1>8. h \in Gens(c) /\ h \in Gens(d)
  BY <1>4, <1>5, <1>7 DEF Gens
<1> QED BY <1>8 DEF h, d

-----------------------------------------------------------------------------
(* Places, and the simplest changes of the allocator's state.              *)

\* Every place is one.
LEMMA PlaceTypes ==
    ASSUME src \in Sources
    PROVE  /\ \A r \in Int : R(r) \in PlaceType
           /\ \A l \in Locals \cup {0} : Slot(l) \in PlaceType
           /\ \A k \in Nat : iv_addr(k) \in PlaceType
           /\ \A j \in Int : Sp(j) \in PlaceType
<1>1. \A l \in Locals \cup {0} : loc_off(l) \in Int
  BY Offsets
<1>2. \A k \in Nat : -(loc_pos + k) \in Int
  BY Offsets
<1> QED BY <1>1, <1>2 DEF PlaceType, R, Slot, iv_addr, Fp, Sp

\* Registers are numbers, and few.
LEMMA RegNat ==
    Regs \subseteq Nat \ {0} /\ IsFiniteSet(Regs)
<1>1. N_TMPS \in Nat /\ Regs = 1 .. N_TMPS
  BY Registers
<1> QED BY <1>1, FS_Interval

\* A register that code may change in every state of a phase.
Usable(c, r) == r \in Regs \cup {0} /\ \A g \in Gens(c) : g.died \/ Allowed(g, r)

\* Registers that the phase needs, and those of regions.
LEMMA UsableRegs ==
    ASSUME Given, NEW c \in Phase, NEW r \in Regs \cup {0},
           \/ c.died
           \/ r \in Regs /\ (r \in PERM => r \in c.regs)
           \/ r # 0 /\ \E k \in DOMAIN rgn : rgn[k].reg = r
    PROVE  Usable(c, r)
<1> SUFFICES ASSUME NEW g \in Gens(c), ~g.died PROVE Allowed(g, r)
  BY DEF Usable
<1>1. Fits(g, c) /\ ~c.died
  BY DEF Gens
<1>2. c.regs \subseteq g.regs /\ \A k \in DOMAIN rgn : rgn[k].reg \in g.regs \cup {0}
  BY <1>1 DEF Fits
<1> QED BY <1>1, <1>2 DEF Allowed

\* Registers forget a value, or get one; values take a place in memory.
LEMMA SetValue ==
    ASSUME Given, NEW c \in Phase, NEW g \in Gens(c), NEW reg, NEW v \in Nat
    PROVE  [g EXCEPT !.vmap[reg] = v] \in Gens(c)
<1> DEFINE h == [g EXCEPT !.vmap[reg] = v]
<1>1. g \in GenType
  BY DEF Gens
<1>2. /\ h \in GenType /\ h.i = g.i /\ h.lab = g.lab /\ h.died = g.died /\ h.lmap = g.lmap
      /\ h.regs = g.regs /\ h.mem = g.mem /\ h.vmax = g.vmax /\ h.maxargs = g.maxargs
      /\ h.out = g.out
  BY <1>1 DEF GenType
<1>3. g.vmax \in Nat /\ g.maxargs \in Nat
  BY <1>1 DEF GenType
<1> HIDE DEF h
<1>4. h \in Gens(c)
  BY <1>2, <1>3, Changes DEF Given
<1> QED BY <1>4 DEF h

\* When values are needed for the last time says nothing of the registers.
LEMMA SetLive ==
    ASSUME Given, NEW c \in Phase, NEW g \in Gens(c), NEW f \in [1 .. NTMPS -> Nat]
    PROVE  [g EXCEPT !.live = f] \in Gens(c)
<1> DEFINE h == [g EXCEPT !.live = f]
<1>1. g \in GenType
  BY DEF Gens
<1>2. /\ h \in GenType /\ h.i = g.i /\ h.lab = g.lab /\ h.died = g.died /\ h.lmap = g.lmap
      /\ h.regs = g.regs /\ h.mem = g.mem /\ h.vmax = g.vmax /\ h.maxargs = g.maxargs
      /\ h.out = g.out
  BY <1>1 DEF GenType
<1>3. g.vmax \in Nat /\ g.maxargs \in Nat
  BY <1>1 DEF GenType
<1> HIDE DEF h
<1>4. h \in Gens(c)
  BY <1>2, <1>3, Changes DEF Given
<1> QED BY <1>4 DEF h

\* A register gets a local, or none.
LEMMA SetLocal ==
    ASSUME Given, NEW c \in Phase, NEW g \in Gens(c), NEW reg, NEW l \in Locals \cup {0},
           g.died \/ l = 0 \/ Allowed(g, reg)
    PROVE  [g EXCEPT !.lmap[reg] = l] \in Gens(c)
<1> DEFINE h == [g EXCEPT !.lmap[reg] = l]
<1>1. g \in GenType
  BY DEF Gens
<1>2. /\ h \in GenType /\ h.i = g.i /\ h.lab = g.lab /\ h.died = g.died /\ h.vmap = g.vmap
      /\ h.regs = g.regs /\ h.mem = g.mem /\ h.vmax = g.vmax /\ h.maxargs = g.maxargs
      /\ h.out = g.out
      /\ \A r \in Regs : h.lmap[r] = IF r = reg THEN l ELSE g.lmap[r]
  BY <1>1 DEF GenType
<1>3. g.vmax \in Nat /\ g.maxargs \in Nat
  BY <1>1 DEF GenType
<1> HIDE DEF h
<1>4. h.died \/ \A r \in Regs : h.lmap[r] \in {0, g.lmap[r]} \/ Allowed(h, r)
  BY <1>2 DEF Allowed
<1>5. h \in Gens(c)
  BY <1>2, <1>3, <1>4, Changes DEF Given
<1> QED BY <1>5 DEF h

\* The compiler dies.
LEMMA Dies ==
    ASSUME Given, NEW c \in Phase, NEW g \in Gens(c), NEW b \in BOOLEAN
    PROVE  [g EXCEPT !.died = @ \/ b] \in Gens(c)
<1> DEFINE h == [g EXCEPT !.died = @ \/ b]
<1>1. g \in GenType
  BY DEF Gens
<1>2. /\ h \in GenType /\ h.i = g.i /\ h.lab = g.lab /\ h.lmap = g.lmap
      /\ h.regs = g.regs /\ h.mem = g.mem /\ h.vmax = g.vmax /\ h.maxargs = g.maxargs
      /\ h.out = g.out
  BY <1>1 DEF GenType
<1>3. g.died => h.died
  BY <1>1 DEF GenType
<1>4. g.vmax \in Nat /\ g.maxargs \in Nat
  BY <1>1 DEF GenType
<1> HIDE DEF h
<1>5. h \in Gens(c)
  BY <1>2, <1>3, <1>4, Changes DEF Given
<1> QED BY <1>5 DEF h

\* A local is in memory.
LEMMA UsesMem ==
    ASSUME Given, NEW c \in Phase, NEW g \in Gens(c), NEW l \in Locals \cup {0}
    PROVE  /\ UseMem(g, l) \in Gens(c) /\ l \in UseMem(g, l).mem
           /\ UseMem(g, l).died = g.died /\ UseMem(g, l).regs = g.regs
           /\ UseMem(g, l).vmap = g.vmap /\ UseMem(g, l).lmap = g.lmap
<1> DEFINE h == UseMem(g, l)
<1>1. g \in GenType /\ l \in Nat
  BY Code DEF Gens, Given
<1>2. /\ h \in GenType /\ h.i = g.i /\ h.lab = g.lab /\ h.lmap = g.lmap /\ h.vmap = g.vmap
      /\ h.regs = g.regs /\ h.mem = g.mem \cup {l} /\ h.vmax = g.vmax /\ h.maxargs = g.maxargs
      /\ h.out = g.out /\ h.died = g.died
  BY <1>1 DEF GenType, UseMem
<1>3. g.vmax \in Nat /\ g.maxargs \in Nat
  BY <1>1 DEF GenType
<1> HIDE DEF h
<1>4. h \in Gens(c)
  BY <1>2, <1>3, Changes DEF Given
<1> QED BY <1>2, <1>4 DEF h

\* What a step made leaves as it was.
LEMMA EmitKeeps ==
    ASSUME NEW g \in GenType, NEW s
    PROVE  /\ Emit(g, s).died = g.died /\ Emit(g, s).regs = g.regs
           /\ Emit(g, s).vmap = g.vmap /\ Emit(g, s).lmap = g.lmap
           /\ Emit(g, s).live = g.live /\ Emit(g, s).vmax = g.vmax
BY DEF Emit, GenType

-----------------------------------------------------------------------------
(* Values and locals in registers: gen.c.                                  *)

\* A copy from a register to another.
LEMMA CopyKeeps ==
    ASSUME Given, NEW c \in Phase, NEW g \in Gens(c), NEW r \in Regs \cup {0}, NEW q \in Regs \cup {0},
           g.died \/ Allowed(g, r)
    PROVE  Emit(g, Copy(R(r), R(q))) \in Gens(c)
<1> DEFINE s == Copy(R(r), R(q))
<1>1. \A x \in Regs \cup {0} : x \in Int
  BY RegNat
<1>2. s \in StepType /\ s.k = "copy" /\ s.to = R(r)
  BY <1>1, PlaceTypes DEF Copy, StepType, Given
<1>3. g.died \/ StepFits(g, s)
  <2> SUFFICES ASSUME ~g.died PROVE StepFits(g, s)
    OBVIOUS
  <2>1. s.to \in Target(g)
    BY <1>2 DEF Target, Allowed
  <2> QED BY <1>2, <2>1 DEF StepFits
<1> HIDE DEF s
<1>4. Emit(g, s) \in Gens(c)
  BY <1>2, <1>3, Emits DEF Given
<1> QED BY <1>4 DEF s

\* A local is loaded into a register, or stored.
LEMMA ToReg ==
    ASSUME Given, NEW c \in Phase, NEW g \in Gens(c), NEW l \in Locals \cup {0},
           NEW reg \in Regs \cup {0}, g.died \/ Allowed(g, reg)
    PROVE  /\ loc_toreg(g, l, reg) \in Gens(c)
           /\ [loc_toreg(g, l, reg) EXCEPT !.lmap[reg] = l] \in Gens(c)
<1> DEFINE h == UseMem(g, l)
           s == Copy(R(reg), Slot(l))
<1>1. h \in Gens(c) /\ h.died = g.died /\ h.regs = g.regs
  BY UsesMem
<1>2. reg \in Int
  BY RegNat
<1>3. s \in StepType /\ s.k = "copy" /\ s.to = R(reg)
  BY <1>2, PlaceTypes DEF Copy, StepType, Given
<1>4. g.died \/ Allowed(h, reg)
  BY <1>1 DEF Allowed
<1>5. h.died \/ StepFits(h, s)
  <2> SUFFICES ASSUME ~h.died PROVE StepFits(h, s)
    OBVIOUS
  <2>1. Allowed(h, reg) /\ reg \in Regs
    BY <1>1, <1>4 DEF Allowed
  <2>2. s.to \in Target(h)
    BY <1>3, <2>1 DEF Target
  <2> QED BY <1>3, <2>2 DEF StepFits
<1> HIDE DEF h, s
<1>6. Emit(h, s) \in Gens(c) /\ h \in GenType
  BY <1>1, <1>3, <1>5, Emits DEF Given, Gens
<1>7. Emit(h, s).died = h.died /\ Emit(h, s).regs = h.regs
  BY <1>6, EmitKeeps
<1>8. Emit(h, s).died \/ Allowed(Emit(h, s), reg)
  BY <1>1, <1>4, <1>7 DEF Allowed
<1>9. [Emit(h, s) EXCEPT !.lmap[reg] = l] \in Gens(c)
  BY <1>6, <1>8, SetLocal
<1> QED BY <1>6, <1>9 DEF loc_toreg, h, s

\* Storing a register in the slot of a local keeps the state of the allocator.
LEMMA ToMem ==
    ASSUME Given, NEW c \in Phase, NEW g \in Gens(c), NEW l \in Locals, NEW reg \in Regs \cup {0},
           NEW whole \in BOOLEAN
    PROVE  loc_tomem(g, l, reg, whole) \in Gens(c)
<1> DEFINE h == UseMem(g, l)
           s == IF whole THEN Copy(Slot(l), R(reg)) ELSE Part(Slot(l), l)
<1>1. h \in Gens(c) /\ l \in h.mem
  BY UsesMem
<1>2. reg \in Int /\ l \in Nat
  BY RegNat, Code DEF Given
<1>3. s \in StepType /\ s.k \in {"copy", "part"} /\ s.to = Slot(l)
  <2>1. R(reg) \in PlaceType /\ Slot(l) \in PlaceType
    BY <1>2, PlaceTypes DEF Given
  <2>2. CASE whole
    BY <2>1, <2>2 DEF Copy, StepType
  <2>3. CASE ~whole
    BY <1>2, <2>1, <2>3 DEF Part, StepType
  <2> QED BY <2>2, <2>3
<1>4. StepFits(h, s)
  <2>1. s.to \in Target(h)
    BY <1>1, <1>3 DEF Target
  <2> QED BY <1>3, <2>1 DEF StepFits
<1>5. loc_tomem(g, l, reg, whole) = Emit(h, s)
  BY DEF loc_tomem
<1> HIDE DEF h, s
<1> QED BY <1>1, <1>3, <1>4, <1>5, Emits DEF Given

\* A value has a rank among those in registers, or 0.
LEMMA RankIn ==
    ASSUME NEW g, NEW v
    PROVE  rank(g, v) \in 0 .. NTMPS
<1>1. {k \in 1 .. NTMPS : g.live[k] = v} \in SUBSET Nat
  BY Registers
<1> QED BY <1>1, FirstIn, Registers DEF rank

\* A value is stored where it has its place in memory, or loaded from it.
LEMMA ValToMem ==
    ASSUME Given, NEW c \in Phase, NEW g \in Gens(c), NEW v, NEW reg \in Regs \cup {0}
    PROVE  /\ val_tomem(g, v, reg) \in Gens(c)
           /\ val_tomem(g, v, reg).lmap = g.lmap /\ val_tomem(g, v, reg).vmap = g.vmap
<1> DEFINE k == rank(g, v)
           n == Max({g.vmax, k})
           h == [g EXCEPT !.vmax = n, !.died = @ \/ k = 0]
           s == Copy(iv_addr(k), R(reg))
<1>1. g \in GenType /\ k \in Nat /\ (k # 0 => k \in 1 .. k)
  BY RankIn, Registers DEF Gens
<1> HIDE DEF k
<1>2. g.vmax \in Nat /\ g.maxargs \in Nat /\ g.died \in BOOLEAN
  BY <1>1 DEF GenType
<1>3. n \in Nat /\ g.vmax <= n /\ k <= n
  <2> DEFINE x == g.vmax
  <2>1. x \in Nat /\ x \in Int /\ k \in Int
    BY <1>1, <1>2
  <2> HIDE DEF x
  <2>2. Max({x, k}) \in {x, k} /\ x <= Max({x, k}) /\ k <= Max({x, k})
    BY <2>1, MaxOfTwo
  <2>3. n = Max({x, k})
    BY DEF x
  <2> HIDE DEF n
  <2> QED BY <2>1, <2>2, <2>3, <1>1 DEF x
<1> HIDE DEF n
<1>4. /\ h \in GenType /\ h.i = g.i /\ h.lab = g.lab /\ h.lmap = g.lmap /\ h.vmap = g.vmap
      /\ h.regs = g.regs /\ h.mem = g.mem /\ h.vmax = n /\ h.maxargs = g.maxargs
      /\ h.out = g.out /\ h.died = (g.died \/ k = 0) /\ h.live = g.live
  BY <1>1, <1>3 DEF GenType
<1>5. reg \in Int
  BY RegNat
<1>6. s \in StepType /\ s.k = "copy" /\ s.to = iv_addr(k)
  BY <1>1, <1>5, PlaceTypes DEF Copy, StepType, Given
<1>7. val_tomem(g, v, reg) = Emit(h, s)
  BY DEF val_tomem, k, n
<1> HIDE DEF h
<1>8. h \in Gens(c)
  BY <1>2, <1>3, <1>4, Changes DEF Given
<1>9. h.died \/ StepFits(h, s)
  <2> SUFFICES ASSUME ~h.died PROVE StepFits(h, s)
    OBVIOUS
  <2>1. k \in 1 .. h.vmax
    <3>1. h.vmax = n /\ k # 0
      BY <1>4
    <3> QED BY <1>1, <1>3, <3>1
  <2>2. s.to \in Target(h)
    BY <1>6, <2>1 DEF Target
  <2> QED BY <1>6, <2>2 DEF StepFits
<1> HIDE DEF s
<1>10. Emit(h, s) \in Gens(c)
  BY <1>6, <1>8, <1>9, Emits DEF Given
<1>11. Emit(h, s).lmap = h.lmap /\ Emit(h, s).vmap = h.vmap
  BY <1>4, EmitKeeps
<1> QED BY <1>4, <1>7, <1>10, <1>11

\* So does moving a value to a register the instruction may take.
LEMMA ValToReg ==
    ASSUME Given, NEW c \in Phase, NEW g \in Gens(c), NEW v, NEW reg \in Regs \cup {0},
           g.died \/ Allowed(g, reg)
    PROVE  val_toreg(g, v, reg) \in Gens(c)
<1> DEFINE k == rank(g, v)
           s == Copy(R(reg), iv_addr(k))
<1>1. g \in GenType /\ k \in Nat
  BY RankIn, Registers DEF Gens
<1>2. reg \in Int
  BY RegNat
<1>3. s \in StepType /\ s.k = "copy" /\ s.to = R(reg)
  BY <1>1, <1>2, PlaceTypes DEF Copy, StepType, Given
<1>4. g.died \/ StepFits(g, s)
  <2> SUFFICES ASSUME ~g.died PROVE StepFits(g, s)
    OBVIOUS
  <2>1. s.to \in Target(g)
    BY <1>3 DEF Target, Allowed
  <2> QED BY <1>3, <2>1 DEF StepFits
<1>5. val_toreg(g, v, reg) = [Emit(g, s) EXCEPT !.died = @ \/ k = 0]
  BY DEF val_toreg
<1> HIDE DEF k, s
<1>6. Emit(g, s) \in Gens(c)
  BY <1>3, <1>4, Emits DEF Given
<1>7. (k = 0) \in BOOLEAN
  OBVIOUS
<1>8. [Emit(g, s) EXCEPT !.died = @ \/ k = 0] \in Gens(c)
  BY <1>6, <1>7, Dies
<1> QED BY <1>5, <1>8

\* The registers that the searches find.
LEMMA Finds ==
    ASSUME NEW g, NEW v, NEW l, NEW mask
    PROVE  /\ vreg(g, v) \in Regs \cup {0} /\ lreg(g, l) \in Regs \cup {0}
           /\ (vreg(g, v) # 0 => g.vmap[vreg(g, v)] = v)
           /\ regscn(mask) \in (Regs \cap mask) \cup {0}
           /\ regcheap(g, mask) \in Regs \cup {0}
           /\ regcheap(g, mask) # 0 => Allowed(g, regcheap(g, mask))
<1>1. {r \in Regs : g.vmap[r] = v} \in SUBSET Nat /\ {r \in Regs : g.lmap[r] = l} \in SUBSET Nat
  BY RegNat
<1>2. /\ vreg(g, v) \in Regs \cup {0} /\ lreg(g, l) \in Regs \cup {0}
      /\ (vreg(g, v) # 0 => g.vmap[vreg(g, v)] = v)
  BY <1>1, FirstIn DEF vreg, lreg
<1>3. ASSUME NEW m
      PROVE  regscn(m) \in (Regs \cap m) \cup {0}
  <2> DEFINE in == {k \in DOMAIN tmpregs : tmpregs[k] \in m}
  <2>1. in \in SUBSET Nat
    BY RegAllocAssumption, LenProperties
  <2>2. \A k \in in : tmpregs[k] \in Regs \cap m
    <3>1. Regs = {tmpregs[k] : k \in DOMAIN tmpregs}
      BY DEF Regs, Range
    <3> QED BY <3>1
  <2>3. in # {} => Min(in) \in in
    BY <2>1, MinIn
  <2>4. regscn(m) = IF in = {} THEN 0 ELSE tmpregs[Min(in)]
    BY DEF regscn
  <2> HIDE DEF in
  <2> QED BY <2>2, <2>3, <2>4
<1>4. /\ regcheap(g, mask) \in Regs \cup {0}
      /\ regcheap(g, mask) # 0 => Allowed(g, regcheap(g, mask))
  <2> DEFINE cheap == {r \in mask \cap Free(g) : r \in g.regs \/ r \notin PERM}
  <2>1. regcheap(g, mask) \in (Regs \cap cheap) \cup {0}
    BY <1>3 DEF regcheap
  <2> QED BY <2>1 DEF Allowed
<1> QED BY <1>2, <1>3, <1>4

\* So does making a register free for an instruction,
LEMMA SpillKeeps ==
    ASSUME Given, NEW c \in Phase, NEW g \in Gens(c), NEW i, NEW reg \in Regs \cup {0}
    PROVE  ra_spill(g, i, reg) \in Gens(c)
<1> DEFINE v == g.vmap[reg]
           l == g.lmap[reg]
           h == IF v # 0 THEN val_tomem(g, v, reg) ELSE g
           m == IF l # 0 /\ l = reg_rmap(i, reg) THEN loc_tomem(h, l, reg, TRUE) ELSE h
           n == [m EXCEPT !.vmap[reg] = 0]
<1>1. h \in Gens(c)
  BY ValToMem
<1>2. l # 0 /\ l = reg_rmap(i, reg) => l \in Locals
  BY RegionMaps
<1> HIDE DEF h, l
<1>3. m \in Gens(c)
  BY <1>1, <1>2, ToMem
<1> HIDE DEF m
<1>4. n \in Gens(c)
  BY <1>3, SetValue
<1>5. ra_spill(g, i, reg) = [n EXCEPT !.lmap[reg] = 0]
  BY DEF ra_spill, m, l, h
<1> HIDE DEF n
<1>6. 0 \in Locals \cup {0}
  OBVIOUS
<1>7. [n EXCEPT !.lmap[reg] = 0] \in Gens(c)
  BY <1>4, <1>6, SetLocal
<1> QED BY <1>5, <1>7

\* remembering that a value is in a register,
LEMMA VSaveKeeps ==
    ASSUME Given, NEW c \in Phase, NEW g \in Gens(c), NEW v \in Nat, NEW reg
    PROVE  ra_vsave(g, v, reg) \in Gens(c)
<1> DEFINE k == rank(g, 0)
           h == [g EXCEPT !.vmap[reg] = v]
           f == [g.live EXCEPT ![k] = v]
<1>1. g \in GenType
  BY DEF Gens
<1>2. f \in [1 .. NTMPS -> Nat] /\ h.live = g.live
  BY <1>1 DEF GenType
<1>3. h \in Gens(c)
  BY SetValue
<1> HIDE DEF h
<1>4. [h EXCEPT !.live = f] \in Gens(c)
  <2> HIDE DEF f
  <2> QED BY <1>2, <1>3, SetLive
<1>5. [g EXCEPT !.died = TRUE] \in Gens(c)
  <2>1. [g EXCEPT !.died = @ \/ TRUE] \in Gens(c)
    BY Dies
  <2>2. [g EXCEPT !.died = @ \/ TRUE] = [g EXCEPT !.died = TRUE]
    OBVIOUS
  <2> QED BY <2>1, <2>2
<1>6. ra_vsave(g, v, reg) = IF k = 0 THEN [g EXCEPT !.died = TRUE] ELSE [h EXCEPT !.live[k] = v]
  BY DEF ra_vsave, h
<1>7. [h EXCEPT !.live[k] = v] = [h EXCEPT !.live = f]
  BY <1>2
<1> QED BY <1>4, <1>5, <1>6, <1>7

\* loading a value,
LEMMA VLoadKeeps ==
    ASSUME Given, NEW c \in Phase, NEW g \in Gens(c), NEW i, NEW v \in Nat, NEW reg \in Regs \cup {0},
           g.vmap[reg] = v \/ Usable(c, reg)
    PROVE  ra_vload(g, i, v, reg) \in Gens(c)
<1> DEFINE h   == ra_spill(g, i, reg)
           old == vreg(h, v)
           s   == Copy(R(reg), R(old))
           m   == IF old # 0 THEN [Emit(h, s) EXCEPT !.vmap[old] = 0] ELSE val_toreg(h, v, reg)
<1> SUFFICES ASSUME g.vmap[reg] # v PROVE [m EXCEPT !.vmap[reg] = v] \in Gens(c)
  BY DEF ra_vload
<1>1. h \in Gens(c)
  BY SpillKeeps
<1> HIDE DEF h
<1>2. h.died \/ Allowed(h, reg)
  BY <1>1 DEF Usable
<1>3. old \in Regs \cup {0}
  BY Finds
<1> HIDE DEF old
<1>4. val_toreg(h, v, reg) \in Gens(c)
  BY <1>1, <1>2, ValToReg
<1>5. [Emit(h, s) EXCEPT !.vmap[old] = 0] \in Gens(c)
  <2>1. Emit(h, s) \in Gens(c)
    BY <1>1, <1>2, <1>3, CopyKeeps
  <2> HIDE DEF s
  <2>2. 0 \in Nat
    OBVIOUS
  <2> QED BY <2>1, <2>2, SetValue
<1>6. m \in Gens(c)
  BY <1>4, <1>5
<1> HIDE DEF m
<1> QED BY <1>6, SetValue

\* forgetting one,
LEMMA VDropKeeps ==
    ASSUME Given, NEW c \in Phase, NEW g \in Gens(c), NEW v
    PROVE  ra_vdrop(g, v) \in Gens(c)
<1> DEFINE f == [k \in 1 .. NTMPS |-> IF g.live[k] = v THEN 0 ELSE g.live[k]]
           h == [g EXCEPT !.live = f]
<1>1. g \in GenType
  BY DEF Gens
<1>2. f \in [1 .. NTMPS -> Nat]
  BY <1>1 DEF GenType
<1>3. h \in Gens(c)
  <2> HIDE DEF f
  <2> QED BY <1>2, SetLive
<1>4. ra_vdrop(g, v) = IF vreg(g, v) = 0 THEN h ELSE [h EXCEPT !.vmap[vreg(g, v)] = 0]
  BY DEF ra_vdrop
<1> HIDE DEF h
<1>5. 0 \in Nat
  OBVIOUS
<1>6. [h EXCEPT !.vmap[vreg(g, v)] = 0] \in Gens(c)
  BY <1>3, <1>5, SetValue
<1> QED BY <1>3, <1>4, <1>6

\* moving a value out of the registers of a mask,
LEMMA VMoveKeeps ==
    ASSUME Given, NEW c \in Phase, NEW g \in Gens(c), NEW v \in Nat, NEW mask
    PROVE  ra_vmove(g, v, mask) \in Gens(c)
<1> DEFINE old == vreg(g, v)
           new == regcheap(g, mask)
           s   == Copy(R(new), R(old))
           h   == IF new # 0 THEN [Emit(g, s) EXCEPT !.vmap[new] = v] ELSE val_tomem(g, v, old)
<1>1. old \in Regs \cup {0} /\ new \in Regs \cup {0} /\ (new # 0 => Allowed(g, new))
  BY Finds
<1> HIDE DEF old, new
<1>2. val_tomem(g, v, old) \in Gens(c)
  BY <1>1, ValToMem
<1>3. ASSUME new # 0
      PROVE  [Emit(g, s) EXCEPT !.vmap[new] = v] \in Gens(c)
  <2>1. Emit(g, s) \in Gens(c)
    BY <1>1, <1>3, CopyKeeps
  <2> HIDE DEF s
  <2> QED BY <2>1, SetValue
<1>4. h \in Gens(c)
  BY <1>2, <1>3
<1>5. ra_vmove(g, v, mask) = [h EXCEPT !.vmap[old] = 0]
  BY DEF ra_vmove, old, new
<1> HIDE DEF h
<1>6. 0 \in Nat
  OBVIOUS
<1>7. [h EXCEPT !.vmap[old] = 0] \in Gens(c)
  BY <1>4, <1>6, SetValue
<1> QED BY <1>5, <1>7

\* making room for a local in its register,
LEMMA MakeRoomKeeps ==
    ASSUME Given, NEW c \in Phase, NEW g \in Gens(c), NEW i, NEW greg \in Regs, NEW reg
    PROVE  MakeRoom(g, i, greg, reg) \in Gens(c)
<1>1. g.vmap[greg] \in Nat
  BY DEF Gens, GenType
<1> QED BY <1>1, VMoveKeeps DEF MakeRoom

\* loading a local,
LEMMA LLoadKeeps ==
    ASSUME Given, NEW c \in Phase, NEW g \in Gens(c), NEW i, NEW l \in Locals, NEW reg, Usable(c, reg)
    PROVE  ra_lload(g, i, l, reg) \in Gens(c)
<1> DEFINE greg == reg_lmap(i, l)
           old  == lreg(g, l)
           room == MakeRoom(g, i, greg, reg)
           mid  == IF old = 0 THEN loc_toreg(room, l, greg)
                   ELSE IF old = greg THEN room
                   ELSE [Emit(room, Copy(R(greg), R(old))) EXCEPT !.lmap[old] = 0]
           own  == IF greg = 0 THEN g ELSE [mid EXCEPT !.lmap[greg] = l]
           kept == IF lreg(own, l) = 0 /\ safe(l) /\ isread(i)
                   THEN [loc_toreg(own, l, reg) EXCEPT !.lmap[reg] = l] ELSE own
<1>1. /\ greg \in Regs \cup {0} /\ (greg # 0 => Usable(c, greg))
      /\ reg \in Regs \cup {0} /\ \A x : lreg(x, l) \in Regs \cup {0}
  BY RegionMaps, UsableRegs, Finds DEF Usable
<1>2. \A h \in Gens(c), r \in Regs \cup {0} : Usable(c, r) => h.died \/ Allowed(h, r)
  BY DEF Usable
<1>3. ASSUME NEW h \in Gens(c), NEW r \in Regs \cup {0}, NEW q \in Regs \cup {0}, Usable(c, r)
      PROVE  Emit(h, Copy(R(r), R(q))) \in Gens(c)
  BY <1>2, <1>3, CopyKeeps
<1> HIDE DEF greg
<1>4. ASSUME greg # 0
      PROVE  [mid EXCEPT !.lmap[greg] = l] \in Gens(c)
  <2>1. greg \in Regs /\ Usable(c, greg)
    BY <1>1, <1>4
  <2>2. room \in Gens(c)
    BY <2>1, MakeRoomKeeps
  <2>3. old \in Regs \cup {0}
    BY <1>1
  <2> HIDE DEF room, old
  <2>4. mid \in Gens(c)
    <3>1. loc_toreg(room, l, greg) \in Gens(c)
      BY <1>2, <2>1, <2>2, ToReg
    <3>2. 0 \in Locals \cup {0}
      OBVIOUS
    <3>3. Emit(room, Copy(R(greg), R(old))) \in Gens(c)
      BY <1>3, <2>1, <2>2, <2>3
    <3>4. [Emit(room, Copy(R(greg), R(old))) EXCEPT !.lmap[old] = 0] \in Gens(c)
      BY <3>2, <3>3, SetLocal
    <3> QED BY <2>2, <3>1, <3>4
  <2> HIDE DEF mid
  <2>5. mid.died \/ Allowed(mid, greg)
    BY <1>2, <2>1, <2>4
  <2> QED BY <2>4, <2>5, SetLocal
<1>5. own \in Gens(c)
  BY <1>4
<1> HIDE DEF own
<1>6. kept \in Gens(c)
  BY <1>1, <1>2, <1>5, ToReg
<1> HIDE DEF kept
<1>7. kept.died \/ Allowed(kept, reg)
  BY <1>1, <1>2, <1>6
<1>8. loc_toreg(kept, l, reg) \in Gens(c) /\ Emit(kept, Copy(R(reg), R(lreg(kept, l)))) \in Gens(c)
  BY <1>1, <1>3, <1>6, <1>7, ToReg
<1>9. ra_lload(g, i, l, reg) \in {kept, loc_toreg(kept, l, reg), Emit(kept, Copy(R(reg), R(lreg(kept, l))))}
  BY DEF ra_lload, kept, own, mid, room, old, greg
<1> QED BY <1>6, <1>8, <1>9

\* and storing one.
LEMMA LSaveKeeps ==
    ASSUME Given, NEW c \in Phase, NEW g \in Gens(c), NEW i, NEW l \in Locals, NEW reg, Usable(c, reg)
    PROVE  ra_lsave(g, i, l, reg) \in Gens(c)
<1> DEFINE greg == reg_lmap(i, l)
           old  == lreg(g, l)
           lost == IF old = 0 \/ old = greg THEN g ELSE [g EXCEPT !.lmap[old] = 0]
           mem  == loc_tomem(lost, l, reg, Whole(i))
           room == MakeRoom(lost, i, greg, reg)
           s    == Copy(R(greg), R(reg))
<1>1. /\ greg \in Regs \cup {0} /\ (greg # 0 => Usable(c, greg)) /\ reg \in Regs \cup {0}
  BY RegionMaps, UsableRegs DEF Usable
<1>2. \A h \in Gens(c), r \in Regs \cup {0} : Usable(c, r) => h.died \/ Allowed(h, r)
  BY DEF Usable
<1>3. lost \in Gens(c)
  <2>1. 0 \in Locals \cup {0}
    OBVIOUS
  <2> QED BY <2>1, SetLocal
<1>4. ra_lsave(g, i, l, reg) =
         IF greg # 0 THEN [Emit(room, s) EXCEPT !.lmap[greg] = l]
         ELSE IF mem.lmap[reg] = 0 /\ safe(l) /\ isread(i) THEN [mem EXCEPT !.lmap[reg] = l]
         ELSE mem
  BY DEF ra_lsave
<1> HIDE DEF greg, lost
<1>5. mem \in Gens(c)
  <2>1. Whole(i) \in BOOLEAN
    BY DEF Whole
  <2> QED BY <1>1, <1>3, <2>1, ToMem
<1> HIDE DEF mem
<1>6. [mem EXCEPT !.lmap[reg] = l] \in Gens(c)
  <2>1. mem.died \/ Allowed(mem, reg)
    BY <1>1, <1>2, <1>5
  <2> QED BY <1>5, <2>1, SetLocal
<1>7. ASSUME greg # 0
      PROVE  [Emit(room, s) EXCEPT !.lmap[greg] = l] \in Gens(c)
  <2>1. greg \in Regs /\ Usable(c, greg)
    BY <1>1, <1>7
  <2>2. room \in Gens(c)
    BY <1>3, <2>1, MakeRoomKeeps
  <2> HIDE DEF room
  <2>3. room.died \/ Allowed(room, greg)
    BY <1>2, <2>1, <2>2
  <2>4. Emit(room, s) \in Gens(c)
    BY <1>1, <2>2, <2>3, CopyKeeps
  <2> HIDE DEF s
  <2>5. Emit(room, s).died \/ Allowed(Emit(room, s), greg)
    BY <1>2, <2>1, <2>4
  <2> QED BY <2>4, <2>5, SetLocal
<1> QED BY <1>4, <1>5, <1>6, <1>7
-----------------------------------------------------------------------------
(* What goes through all registers, values or arguments: folds.            *)

\* The registers, in order.
LEMMA AllRegsFacts ==
    N_TMPS \in Nat /\ DOMAIN AllRegs = 1 .. N_TMPS /\ \A k \in 1 .. N_TMPS : AllRegs[k] \in Regs
BY Registers DEF AllRegs

\* Registers are spilled.
LEMMA SpillsKeep ==
    ASSUME Given, NEW c \in Phase, NEW g \in Gens(c), NEW i, NEW regs
    PROVE  Spill(g, i, regs) \in Gens(c)
<1> DEFINE n == N_TMPS
           T == Gens(c)
           b == g
           t == AllRegs
           Next1(h, r) == IF r \in regs THEN ra_spill(h, i, r) ELSE h
           D == [p \in T \X (1 .. n) |-> Next1(p[1], t[p[2]])]
<1>1. n \in Nat /\ DOMAIN t = 1 .. n /\ b \in T
  BY AllRegsFacts
<1>2. ASSUME NEW h \in T, NEW k \in 1 .. n
      PROVE  Next1(h, t[k]) \in T
  <2>1. t[k] \in Regs \cup {0}
    BY AllRegsFacts
  <2> QED BY <2>1, SpillKeeps
<1> HIDE DEF n, T, b, t, Next1
<1>3. IsFoldStep(D, T, 1 .. n) /\ \A h \in T : \A k \in 1 .. n : D[<<h, k>>] = Next1(h, t[k])
  BY <1>2 DEF IsFoldStep
<1> HIDE DEF D
<1>4. PICK f : FoldsLeft(f, T, b, n, D)
  BY <1>1, <1>3, FoldLeftExists
<1> DEFINE Def(fold) == fold = [x \in SUBSET DOMAIN t |->
                            IF x = {} THEN b ELSE Next1(fold[x \ {Greatest(x)}], t[Greatest(x)])]
           fold == CHOOSE fold : Def(fold)
<1>5. Def(f)
  <2>1. ASSUME NEW x \in SUBSET (1 .. n), x # {}
        PROVE  f[x] = Next1(f[x \ {Greatest(x)}], t[Greatest(x)])
    <3>1. n \in Nat /\ x \in SUBSET (1 .. n)
      BY <1>1
    <3>2. /\ Greatest(x) \in 1 .. n /\ f[x \ {Greatest(x)}] \in T
          /\ f[x] = D[<<f[x \ {Greatest(x)}], Greatest(x)>>]
      BY <3>1, <1>4, <2>1, FoldsLeftStep
    <3> QED BY <1>3, <3>2
  <2> QED BY <1>1, <1>4, <2>1 DEF FoldsLeft
<1>6. Def(fold)
  BY <1>5
<1>7. Spill(g, i, regs) = fold[DOMAIN t]
  BY Zenon DEF b, t, Next1, Spill, FoldLeft, MapThenFoldSet, Greatest, Max
<1> HIDE DEF fold
<1>8. fold[{}] = b /\ \A x \in SUBSET (1 .. n) : x # {} =>
          fold[x] = Next1(fold[x \ {Greatest(x)}], t[Greatest(x)])
  BY <1>1, <1>6
<1>9. fold[1 .. n] \in T
  <2>1. fold[{}] \in T /\ n \in Nat
    BY <1>1, <1>8
  <2>2. \A x \in SUBSET (1 .. n) :
            x # {} /\ Greatest(x) \in 1 .. n /\ fold[x \ {Greatest(x)}] \in T => fold[x] \in T
    <3> SUFFICES ASSUME NEW x \in SUBSET (1 .. n), x # {}, Greatest(x) \in 1 .. n,
                        fold[x \ {Greatest(x)}] \in T
                 PROVE  fold[x] \in T
      OBVIOUS
    <3>1. fold[x] = Next1(fold[x \ {Greatest(x)}], t[Greatest(x)])
      BY <1>8
    <3> QED BY <1>2, <3>1
  <2> QED BY <2>1, <2>2, LeftKeeps
<1> QED BY <1>1, <1>7, <1>9 DEF T

\* The end of a block: values go to memory.
LEMMA ValuesKeep ==
    ASSUME Given, NEW c \in Phase, NEW g \in Gens(c), NEW i
    PROVE  ValuesOut(g, i) \in Gens(c)
<1> DEFINE n == N_TMPS
           T == Gens(c)
           b == g
           t == AllRegs
           Next1(h, r) == IF h.vmap[r] # 0 THEN ra_spill(h, i, r) ELSE h
           D == [p \in T \X (1 .. n) |-> Next1(p[1], t[p[2]])]
<1>1. n \in Nat /\ DOMAIN t = 1 .. n /\ b \in T
  BY AllRegsFacts
<1>2. ASSUME NEW h \in T, NEW k \in 1 .. n
      PROVE  Next1(h, t[k]) \in T
  <2>1. t[k] \in Regs \cup {0}
    BY AllRegsFacts
  <2> QED BY <2>1, SpillKeeps
<1> HIDE DEF n, T, b, t, Next1
<1>3. IsFoldStep(D, T, 1 .. n) /\ \A h \in T : \A k \in 1 .. n : D[<<h, k>>] = Next1(h, t[k])
  BY <1>2 DEF IsFoldStep
<1> HIDE DEF D
<1>4. PICK f : FoldsLeft(f, T, b, n, D)
  BY <1>1, <1>3, FoldLeftExists
<1> DEFINE Def(fold) == fold = [x \in SUBSET DOMAIN t |->
                            IF x = {} THEN b ELSE Next1(fold[x \ {Greatest(x)}], t[Greatest(x)])]
           fold == CHOOSE fold : Def(fold)
<1>5. Def(f)
  <2>1. ASSUME NEW x \in SUBSET (1 .. n), x # {}
        PROVE  f[x] = Next1(f[x \ {Greatest(x)}], t[Greatest(x)])
    <3>1. n \in Nat /\ x \in SUBSET (1 .. n)
      BY <1>1
    <3>2. /\ Greatest(x) \in 1 .. n /\ f[x \ {Greatest(x)}] \in T
          /\ f[x] = D[<<f[x \ {Greatest(x)}], Greatest(x)>>]
      BY <3>1, <1>4, <2>1, FoldsLeftStep
    <3> QED BY <1>3, <3>2
  <2> QED BY <1>1, <1>4, <2>1 DEF FoldsLeft
<1>6. Def(fold)
  BY <1>5
<1>7. ValuesOut(g, i) = fold[DOMAIN t]
  BY Zenon DEF b, t, Next1, ValuesOut, FoldLeft, MapThenFoldSet, Greatest, Max
<1> HIDE DEF fold
<1>8. fold[{}] = b /\ \A x \in SUBSET (1 .. n) : x # {} =>
          fold[x] = Next1(fold[x \ {Greatest(x)}], t[Greatest(x)])
  BY <1>1, <1>6
<1>9. fold[1 .. n] \in T
  <2>1. fold[{}] \in T /\ n \in Nat
    BY <1>1, <1>8
  <2>2. \A x \in SUBSET (1 .. n) :
            x # {} /\ Greatest(x) \in 1 .. n /\ fold[x \ {Greatest(x)}] \in T => fold[x] \in T
    <3> SUFFICES ASSUME NEW x \in SUBSET (1 .. n), x # {}, Greatest(x) \in 1 .. n,
                        fold[x \ {Greatest(x)}] \in T
                 PROVE  fold[x] \in T
      OBVIOUS
    <3>1. fold[x] = Next1(fold[x \ {Greatest(x)}], t[Greatest(x)])
      BY <1>8
    <3> QED BY <1>2, <3>1
  <2> QED BY <2>1, <2>2, LeftKeeps
<1> QED BY <1>1, <1>7, <1>9 DEF T

\* Locals that the next block expects elsewhere go to memory.
LEMMA LocalsKeep ==
    ASSUME Given, NEW c \in Phase, NEW g \in Gens(c), NEW i
    PROVE  LocalsOut(g, i) \in Gens(c)
<1> DEFINE n == N_TMPS
           T == Gens(c)
           b == g
           t == AllRegs
           Next1(h, r) == IF h.lmap[r] \notin {0, reg_rmap(i, r)} THEN ra_spill(h, i, r) ELSE h
           D == [p \in T \X (1 .. n) |-> Next1(p[1], t[p[2]])]
<1>1. n \in Nat /\ DOMAIN t = 1 .. n /\ b \in T
  BY AllRegsFacts
<1>2. ASSUME NEW h \in T, NEW k \in 1 .. n
      PROVE  Next1(h, t[k]) \in T
  <2>1. t[k] \in Regs \cup {0}
    BY AllRegsFacts
  <2> QED BY <2>1, SpillKeeps
<1> HIDE DEF n, T, b, t, Next1
<1>3. IsFoldStep(D, T, 1 .. n) /\ \A h \in T : \A k \in 1 .. n : D[<<h, k>>] = Next1(h, t[k])
  BY <1>2 DEF IsFoldStep
<1> HIDE DEF D
<1>4. PICK f : FoldsLeft(f, T, b, n, D)
  BY <1>1, <1>3, FoldLeftExists
<1> DEFINE Def(fold) == fold = [x \in SUBSET DOMAIN t |->
                            IF x = {} THEN b ELSE Next1(fold[x \ {Greatest(x)}], t[Greatest(x)])]
           fold == CHOOSE fold : Def(fold)
<1>5. Def(f)
  <2>1. ASSUME NEW x \in SUBSET (1 .. n), x # {}
        PROVE  f[x] = Next1(f[x \ {Greatest(x)}], t[Greatest(x)])
    <3>1. n \in Nat /\ x \in SUBSET (1 .. n)
      BY <1>1
    <3>2. /\ Greatest(x) \in 1 .. n /\ f[x \ {Greatest(x)}] \in T
          /\ f[x] = D[<<f[x \ {Greatest(x)}], Greatest(x)>>]
      BY <3>1, <1>4, <2>1, FoldsLeftStep
    <3> QED BY <1>3, <3>2
  <2> QED BY <1>1, <1>4, <2>1 DEF FoldsLeft
<1>6. Def(fold)
  BY <1>5
<1>7. LocalsOut(g, i) = fold[DOMAIN t]
  BY Zenon DEF b, t, Next1, LocalsOut, FoldLeft, MapThenFoldSet, Greatest, Max
<1> HIDE DEF fold
<1>8. fold[{}] = b /\ \A x \in SUBSET (1 .. n) : x # {} =>
          fold[x] = Next1(fold[x \ {Greatest(x)}], t[Greatest(x)])
  BY <1>1, <1>6
<1>9. fold[1 .. n] \in T
  <2>1. fold[{}] \in T /\ n \in Nat
    BY <1>1, <1>8
  <2>2. \A x \in SUBSET (1 .. n) :
            x # {} /\ Greatest(x) \in 1 .. n /\ fold[x \ {Greatest(x)}] \in T => fold[x] \in T
    <3> SUFFICES ASSUME NEW x \in SUBSET (1 .. n), x # {}, Greatest(x) \in 1 .. n,
                        fold[x \ {Greatest(x)}] \in T
                 PROVE  fold[x] \in T
      OBVIOUS
    <3>1. fold[x] = Next1(fold[x \ {Greatest(x)}], t[Greatest(x)])
      BY <1>8
    <3> QED BY <1>2, <3>1
  <2> QED BY <2>1, <2>2, LeftKeeps
<1> QED BY <1>1, <1>7, <1>9 DEF T

\* And those it expects in registers come there.
LEMMA FetchKeeps ==
    ASSUME Given, NEW c \in Phase, NEW g \in Gens(c), NEW i
    PROVE  LocalsIn(g, i) \in Gens(c)
<1> DEFINE n == N_TMPS
           T == Gens(c)
           b == g
           t == AllRegs
           Next1(h, r) == IF h.lmap[r] = reg_rmap(i, r) THEN h
                           ELSE [loc_toreg(h, reg_rmap(i, r), r) EXCEPT !.lmap[r] = reg_rmap(i, r)]
           D == [p \in T \X (1 .. n) |-> Next1(p[1], t[p[2]])]
<1>1. n \in Nat /\ DOMAIN t = 1 .. n /\ b \in T
  BY AllRegsFacts
<1>2. ASSUME NEW h \in T, NEW k \in 1 .. n
      PROVE  Next1(h, t[k]) \in T
  <2> DEFINE r == t[k]
             l == reg_rmap(i, r)
  <2>1. r \in Regs
    BY AllRegsFacts
  <2>2. l \in Locals \cup {0} /\ (l # 0 => Usable(c, r))
    <3>1. l \in Locals \cup {0} /\ (l # 0 => \E q \in DOMAIN rgn : rgn[q].reg = r)
      BY RegionMaps
    <3>2. r \in Regs \cup {0} /\ r # 0
      BY <2>1, RegNat
    <3> HIDE DEF r, l
    <3> QED BY <3>1, <3>2, UsableRegs
  <2> HIDE DEF r, l
  <2>3. h.died \/ h.lmap[r] = l \/ Allowed(h, r)
    <3>1. h.lmap[r] # 0 /\ ~h.died => Allowed(h, r)
      BY <2>1 DEF Gens, Fits
    <3> QED BY <2>2, <3>1 DEF Usable
  <2>4. h.lmap[r] # l => [loc_toreg(h, l, r) EXCEPT !.lmap[r] = l] \in Gens(c)
    BY <2>1, <2>2, <2>3, ToReg
  <2> QED BY <2>4 DEF r, l
<1> HIDE DEF n, T, b, t, Next1
<1>3. IsFoldStep(D, T, 1 .. n) /\ \A h \in T : \A k \in 1 .. n : D[<<h, k>>] = Next1(h, t[k])
  BY <1>2 DEF IsFoldStep
<1> HIDE DEF D
<1>4. PICK f : FoldsLeft(f, T, b, n, D)
  BY <1>1, <1>3, FoldLeftExists
<1> DEFINE Def(fold) == fold = [x \in SUBSET DOMAIN t |->
                            IF x = {} THEN b ELSE Next1(fold[x \ {Greatest(x)}], t[Greatest(x)])]
           fold == CHOOSE fold : Def(fold)
<1>5. Def(f)
  <2>1. ASSUME NEW x \in SUBSET (1 .. n), x # {}
        PROVE  f[x] = Next1(f[x \ {Greatest(x)}], t[Greatest(x)])
    <3>1. n \in Nat /\ x \in SUBSET (1 .. n)
      BY <1>1
    <3>2. /\ Greatest(x) \in 1 .. n /\ f[x \ {Greatest(x)}] \in T
          /\ f[x] = D[<<f[x \ {Greatest(x)}], Greatest(x)>>]
      BY <3>1, <1>4, <2>1, FoldsLeftStep
    <3> QED BY <1>3, <3>2
  <2> QED BY <1>1, <1>4, <2>1 DEF FoldsLeft
<1>6. Def(fold)
  BY <1>5
<1>7. LocalsIn(g, i) = fold[DOMAIN t]
  BY Zenon DEF b, t, Next1, LocalsIn, FoldLeft, MapThenFoldSet, Greatest, Max
<1> HIDE DEF fold
<1>8. fold[{}] = b /\ \A x \in SUBSET (1 .. n) : x # {} =>
          fold[x] = Next1(fold[x \ {Greatest(x)}], t[Greatest(x)])
  BY <1>1, <1>6
<1>9. fold[1 .. n] \in T
  <2>1. fold[{}] \in T /\ n \in Nat
    BY <1>1, <1>8
  <2>2. \A x \in SUBSET (1 .. n) :
            x # {} /\ Greatest(x) \in 1 .. n /\ fold[x \ {Greatest(x)}] \in T => fold[x] \in T
    <3> SUFFICES ASSUME NEW x \in SUBSET (1 .. n), x # {}, Greatest(x) \in 1 .. n,
                        fold[x \ {Greatest(x)}] \in T
                 PROVE  fold[x] \in T
      OBVIOUS
    <3>1. fold[x] = Next1(fold[x \ {Greatest(x)}], t[Greatest(x)])
      BY <1>8
    <3> QED BY <1>2, <3>1
  <2> QED BY <2>1, <2>2, LeftKeeps
<1> QED BY <1>1, <1>7, <1>9 DEF T

\* The end of a block keeps the state of the allocator.
LEMMA BbendKeeps ==
    ASSUME Given, NEW c \in Phase, NEW g \in Gens(c), NEW i
    PROVE  ra_bbend(g, i) \in Gens(c)
BY ValuesKeep, LocalsKeep, FetchKeeps DEF ra_bbend

\* Values used for the last time are dropped.
LEMMA DropsKeep ==
    ASSUME Given, NEW c \in Phase, NEW g \in Gens(c), NEW i
    PROVE  DropUsed(g, i) \in Gens(c)
<1> DEFINE n == NTMPS
           T == Gens(c)
           b == g
           t == [k \in 1 .. NTMPS |-> k]
           Next1(h, r) == IF h.live[r] # 0 /\ luse(h.live[r]) <= i THEN ra_vdrop(h, h.live[r]) ELSE h
           D == [p \in T \X (1 .. n) |-> Next1(p[1], t[p[2]])]
<1>1. n \in Nat /\ DOMAIN t = 1 .. n /\ b \in T
  BY Registers
<1>2. ASSUME NEW h \in T, NEW k \in 1 .. n
      PROVE  Next1(h, t[k]) \in T
  BY VDropKeeps
<1> HIDE DEF n, T, b, t, Next1
<1>3. IsFoldStep(D, T, 1 .. n) /\ \A h \in T : \A k \in 1 .. n : D[<<h, k>>] = Next1(h, t[k])
  BY <1>2 DEF IsFoldStep
<1> HIDE DEF D
<1>4. PICK f : FoldsLeft(f, T, b, n, D)
  BY <1>1, <1>3, FoldLeftExists
<1> DEFINE Def(fold) == fold = [x \in SUBSET DOMAIN t |->
                            IF x = {} THEN b ELSE Next1(fold[x \ {Greatest(x)}], t[Greatest(x)])]
           fold == CHOOSE fold : Def(fold)
<1>5. Def(f)
  <2>1. ASSUME NEW x \in SUBSET (1 .. n), x # {}
        PROVE  f[x] = Next1(f[x \ {Greatest(x)}], t[Greatest(x)])
    <3>1. n \in Nat /\ x \in SUBSET (1 .. n)
      BY <1>1
    <3>2. /\ Greatest(x) \in 1 .. n /\ f[x \ {Greatest(x)}] \in T
          /\ f[x] = D[<<f[x \ {Greatest(x)}], Greatest(x)>>]
      BY <3>1, <1>4, <2>1, FoldsLeftStep
    <3> QED BY <1>3, <3>2
  <2> QED BY <1>1, <1>4, <2>1 DEF FoldsLeft
<1>6. Def(fold)
  BY <1>5
<1>7. DropUsed(g, i) = fold[DOMAIN t]
  BY Zenon DEF b, t, Next1, DropUsed, FoldLeft, MapThenFoldSet, Greatest, Max
<1> HIDE DEF fold
<1>8. fold[{}] = b /\ \A x \in SUBSET (1 .. n) : x # {} =>
          fold[x] = Next1(fold[x \ {Greatest(x)}], t[Greatest(x)])
  BY <1>1, <1>6
<1>9. fold[1 .. n] \in T
  <2>1. fold[{}] \in T /\ n \in Nat
    BY <1>1, <1>8
  <2>2. \A x \in SUBSET (1 .. n) :
            x # {} /\ Greatest(x) \in 1 .. n /\ fold[x \ {Greatest(x)}] \in T => fold[x] \in T
    <3> SUFFICES ASSUME NEW x \in SUBSET (1 .. n), x # {}, Greatest(x) \in 1 .. n,
                        fold[x \ {Greatest(x)}] \in T
                 PROVE  fold[x] \in T
      OBVIOUS
    <3>1. fold[x] = Next1(fold[x \ {Greatest(x)}], t[Greatest(x)])
      BY <1>8
    <3> QED BY <1>2, <3>1
  <2> QED BY <2>1, <2>2, LeftKeeps
<1> QED BY <1>1, <1>7, <1>9 DEF T

\* The operands are loaded into their registers.
LEMMA OperandsKeep ==
    ASSUME Given, NEW c \in Phase, NEW g \in Gens(c), NEW i \in Ins, NEW rs,
           NEW m \in Nat, DOMAIN rs = 1 .. m, \A k \in 1 .. m : ic[i].a[k] \in Nat /\ Usable(c, rs[k])
    PROVE  LoadOperands(g, i, rs) \in Gens(c)
<1> DEFINE n == m
           T == Gens(c)
           b == g
           t == [k \in DOMAIN rs |-> k]
           Next1(h, r) == ra_vload(h, i, ic[i].a[r], rs[r])
           D == [p \in T \X (1 .. n) |-> Next1(p[1], t[p[2]])]
<1>1. n \in Nat /\ DOMAIN t = 1 .. n /\ b \in T
  OBVIOUS
<1>2. ASSUME NEW h \in T, NEW k \in 1 .. n
      PROVE  Next1(h, t[k]) \in T
  <2>1. ic[i].a[k] \in Nat /\ Usable(c, rs[k]) /\ t[k] = k
    OBVIOUS
  <2>2. rs[k] \in Regs \cup {0}
    BY <2>1 DEF Usable
  <2> QED BY <2>1, <2>2, VLoadKeeps
<1> HIDE DEF n, T, b, t, Next1
<1>3. IsFoldStep(D, T, 1 .. n) /\ \A h \in T : \A k \in 1 .. n : D[<<h, k>>] = Next1(h, t[k])
  BY <1>2 DEF IsFoldStep
<1> HIDE DEF D
<1>4. PICK f : FoldsLeft(f, T, b, n, D)
  BY <1>1, <1>3, FoldLeftExists
<1> DEFINE Def(fold) == fold = [x \in SUBSET DOMAIN t |->
                            IF x = {} THEN b ELSE Next1(fold[x \ {Greatest(x)}], t[Greatest(x)])]
           fold == CHOOSE fold : Def(fold)
<1>5. Def(f)
  <2>1. ASSUME NEW x \in SUBSET (1 .. n), x # {}
        PROVE  f[x] = Next1(f[x \ {Greatest(x)}], t[Greatest(x)])
    <3>1. n \in Nat /\ x \in SUBSET (1 .. n)
      BY <1>1
    <3>2. /\ Greatest(x) \in 1 .. n /\ f[x \ {Greatest(x)}] \in T
          /\ f[x] = D[<<f[x \ {Greatest(x)}], Greatest(x)>>]
      BY <3>1, <1>4, <2>1, FoldsLeftStep, ZenonT(30)
    <3> QED BY <1>3, <3>2
  <2> QED BY <1>1, <1>4, <2>1 DEF FoldsLeft
<1>6. Def(fold)
  BY <1>5
<1>7. LoadOperands(g, i, rs) = fold[DOMAIN t]
  BY Zenon DEF b, t, Next1, LoadOperands, FoldLeftDomain, FoldLeft, MapThenFoldSet, Greatest, Max
<1> HIDE DEF fold
<1>8. fold[{}] = b /\ \A x \in SUBSET (1 .. n) : x # {} =>
          fold[x] = Next1(fold[x \ {Greatest(x)}], t[Greatest(x)])
  BY <1>1, <1>6
<1>9. fold[1 .. n] \in T
  <2>1. fold[{}] \in T /\ n \in Nat
    BY <1>1, <1>8
  <2>2. \A x \in SUBSET (1 .. n) :
            x # {} /\ Greatest(x) \in 1 .. n /\ fold[x \ {Greatest(x)}] \in T => fold[x] \in T
    <3> SUFFICES ASSUME NEW x \in SUBSET (1 .. n), x # {}, Greatest(x) \in 1 .. n,
                        fold[x \ {Greatest(x)}] \in T
                 PROVE  fold[x] \in T
      OBVIOUS
    <3>1. fold[x] = Next1(fold[x \ {Greatest(x)}], t[Greatest(x)])
      BY <1>8
    <3> QED BY <1>2, <3>1
  <2> QED BY <2>1, <2>2, LeftKeeps
<1> QED BY <1>1, <1>7, <1>9 DEF T

-----------------------------------------------------------------------------
(* The registers chosen for an instruction.                                *)

\* The register chosen for a value is a register, or none.
LEMMA RegGet ==
    ASSUME NEW g, NEW v, NEW good, NEW ok, NEW bad
    PROVE  regget(g, v, good, ok, bad) \in Regs \cup {0}
<1>1. vreg(g, v) \in Regs \cup {0} /\ \A m : regscn(m) \in Regs \cup {0}
  BY Finds
<1> QED BY <1>1 DEF regget

\* The registers barred from a choice are registers.
LEMMA BarredRegs ==
    ASSUME Given, NEW g, NEW i \in Ins
    PROVE  Barred(g, i) \subseteq Regs
<1> DEFINE n == Len(ic[i].args)
           m == Min({N_ARGS, n})
<1>1. n \in Nat /\ N_ARGS \in Nat /\ ic[i].args \in Seq(Nat)
  BY Code, Registers, LenProperties DEF Given
<1>2. m \in Nat /\ m <= N_ARGS /\ m <= n
  <2> HIDE DEF n
  <2>1. {N_ARGS, n} \in SUBSET Nat /\ {N_ARGS, n} # {}
    BY <1>1
  <2>2. m \in {N_ARGS, n} /\ \A y \in {N_ARGS, n} : m <= y
    BY <2>1, MinIn
  <2> QED BY <1>1, <2>2
<1> HIDE DEF m
<1>3. Len(SubSeq(ic[i].args, 1, m)) = m /\ SubSeq(ic[i].args, 1, m) \in Seq(Nat)
  BY <1>1, <1>2, SubSeqProperties
<1>4. DOMAIN InRegs(i) = 1 .. m
  BY <1>3, LenProperties DEF InRegs, m
<1>5. \A j \in DOMAIN InRegs(i) : argregs[j] \in Regs
  BY <1>1, <1>2, <1>4, Registers, SMTT(30)
<1> QED BY <1>5 DEF Barred

\* The operands get registers, or 0.
LEMMA OperandRegsType ==
    ASSUME Given, NEW g, NEW i \in Ins
    PROVE  OperandRegs(g, i) \in [DOMAIN ic[i].a -> Regs \cup {0}]
<1> DEFINE n == 3
           T == [DOMAIN ic[i].a -> Regs \cup {0}]
           b == [k \in DOMAIN ic[i].a |-> 0]
           t == <<2, 1, 3>>
           Next1(h, r) == IF r \notin DOMAIN ic[i].a THEN h
                           ELSE [h EXCEPT ![r] = regget(g, ic[i].a[r], Mask(i, r), Mask(i, r),
                                                        Barred(g, i) \cup Range(h))]
           D == [p \in T \X (1 .. n) |-> Next1(p[1], t[p[2]])]
<1>1. n \in Nat /\ DOMAIN t = 1 .. n /\ b \in T
  OBVIOUS
<1>2. ASSUME NEW h \in T, NEW k \in 1 .. n
      PROVE  Next1(h, t[k]) \in T
  <2> DEFINE r == t[k]
             q == regget(g, ic[i].a[r], Mask(i, r), Mask(i, r), Barred(g, i) \cup Range(h))
  <2>1. q \in Regs \cup {0}
    BY RegGet
  <2> HIDE DEF q, r
  <2>2. [h EXCEPT ![r] = q] \in [DOMAIN ic[i].a -> Regs \cup {0}]
    BY <2>1
  <2> QED BY <2>2 DEF q, r
<1> HIDE DEF n, T, b, t, Next1
<1>3. IsFoldStep(D, T, 1 .. n) /\ \A h \in T : \A k \in 1 .. n : D[<<h, k>>] = Next1(h, t[k])
  BY <1>2 DEF IsFoldStep
<1> HIDE DEF D
<1>4. PICK f : FoldsLeft(f, T, b, n, D)
  BY <1>1, <1>3, FoldLeftExists
<1> DEFINE Def(fold) == fold = [x \in SUBSET DOMAIN t |->
                            IF x = {} THEN b ELSE Next1(fold[x \ {Greatest(x)}], t[Greatest(x)])]
           fold == CHOOSE fold : Def(fold)
<1>5. Def(f)
  <2>1. ASSUME NEW x \in SUBSET (1 .. n), x # {}
        PROVE  f[x] = Next1(f[x \ {Greatest(x)}], t[Greatest(x)])
    <3>1. n \in Nat /\ x \in SUBSET (1 .. n)
      BY <1>1
    <3>2. /\ Greatest(x) \in 1 .. n /\ f[x \ {Greatest(x)}] \in T
          /\ f[x] = D[<<f[x \ {Greatest(x)}], Greatest(x)>>]
      BY <3>1, <1>4, <2>1, FoldsLeftStep
    <3> QED BY <1>3, <3>2
  <2> QED BY <1>1, <1>4, <2>1 DEF FoldsLeft
<1>6. Def(fold)
  BY <1>5
<1>7. OperandRegs(g, i) = fold[DOMAIN t]
  BY Zenon DEF b, t, Next1, OperandRegs, FoldLeft, MapThenFoldSet, Greatest, Max
<1> HIDE DEF fold
<1>8. fold[{}] = b /\ \A x \in SUBSET (1 .. n) : x # {} =>
          fold[x] = Next1(fold[x \ {Greatest(x)}], t[Greatest(x)])
  BY <1>1, <1>6
<1>9. fold[1 .. n] \in T
  <2>1. fold[{}] \in T /\ n \in Nat
    BY <1>1, <1>8
  <2>2. \A x \in SUBSET (1 .. n) :
            x # {} /\ Greatest(x) \in 1 .. n /\ fold[x \ {Greatest(x)}] \in T => fold[x] \in T
    <3> SUFFICES ASSUME NEW x \in SUBSET (1 .. n), x # {}, Greatest(x) \in 1 .. n,
                        fold[x \ {Greatest(x)}] \in T
                 PROVE  fold[x] \in T
      OBVIOUS
    <3>1. fold[x] = Next1(fold[x \ {Greatest(x)}], t[Greatest(x)])
      BY <1>8
    <3> QED BY <1>2, <3>1
  <2> QED BY <2>1, <2>2, LeftKeeps
<1> QED BY <1>1, <1>7, <1>9 DEF T

\* The result gets a register, or 0, which ends the compiler.
LEMMA ResultRegsType ==
    ASSUME Given, NEW g, NEW i \in Ins, NEW rs \in [DOMAIN ic[i].a -> Regs \cup {0}],
           NEW rd \in ResultRegs(g, i, rs)
    PROVE  rd \in Regs \cup {0}
<1>1. DOMAIN rs = 1 .. Len(ic[i].a) /\ Len(ic[i].a) \in Nat
  BY Code, LenProperties DEF Given
<1>2. Len(rs) = Len(ic[i].a)
  <2>1. rs \in Seq(Regs \cup {0})
    BY <1>1, SeqDef
  <2> QED BY <1>1, <2>1, LenProperties
<1> DEFINE all   == Barred(g, i) \cup Range(rs)
           fresh == regget(g, i, gmask(i), OutMask(i), {})
           unused(k) == IF k > Len(rs) \/ rs[k] \notin OutMask(i) THEN {FALSE}
                        ELSE IF rs[k] < Len(ic) THEN {luse(rs[k] + 1) <= i}
                        ELSE BOOLEAN
           first == IF (gmask(i) \cap OutMask(i)) \ all # {} THEN {fresh}
                    ELSE {IF u2 THEN rs[2] ELSE IF u1 THEN rs[1] ELSE fresh :
                              u2 \in unused(2), u1 \in unused(1)}
           other(r) == (OutMask(i) \ all) \ {r}
<1>3. fresh \in Regs \cup {0}
  BY RegGet
<1>4. \A k \in {1, 2} : TRUE \in unused(k) => rs[k] \in Regs \cup {0}
  <2> SUFFICES ASSUME NEW k \in {1, 2}, TRUE \in unused(k) PROVE rs[k] \in Regs \cup {0}
    OBVIOUS
  <2>1. CASE k > Len(rs)
    <3>1. unused(k) = {FALSE}
      BY <2>1
    <3> HIDE DEF unused
    <3> QED BY Zenon, <3>1
  <2>2. CASE ~ (k > Len(rs))
    BY <1>1, <1>2, <2>2
  <2> QED BY <2>1, <2>2
<1>5. \A k \in {1, 2} : unused(k) \subseteq BOOLEAN
  <2>1. \A k \in {1, 2} : (luse(rs[k] + 1) <= i) \in BOOLEAN
    OBVIOUS
  <2> QED BY <2>1
<1> HIDE DEF unused, fresh
<1>6. first \subseteq Regs \cup {0}
  <2>1. CASE (gmask(i) \cap OutMask(i)) \ all # {}
    <3>1. first = {fresh}
      BY <2>1
    <3> HIDE DEF first
    <3> QED BY <1>3, <3>1
  <2>2. CASE ~ ((gmask(i) \cap OutMask(i)) \ all # {})
    <3>1. first = {IF u2 THEN rs[2] ELSE IF u1 THEN rs[1] ELSE fresh :
                       u2 \in unused(2), u1 \in unused(1)}
      BY <2>2
    <3>2. ASSUME NEW u2 \in unused(2), NEW u1 \in unused(1)
          PROVE  (IF u2 THEN rs[2] ELSE IF u1 THEN rs[1] ELSE fresh) \in Regs \cup {0}
      <4>1. u2 \in BOOLEAN /\ u1 \in BOOLEAN /\ (u2 => TRUE \in unused(2)) /\ (u1 => TRUE \in unused(1))
        BY Zenon, <1>5
      <4> QED BY <1>3, <1>4, <4>1
    <3> HIDE DEF first
    <3> QED BY <3>1, <3>2
  <2> QED BY <2>1, <2>2
<1>7. ResultRegs(g, i, rs) =
          {IF g.lmap[r] # 0 /\ other(r) # {} THEN regget(g, i, gmask(i), other(r), {}) ELSE r : r \in first}
  BY DEF ResultRegs, unused, fresh
<1> HIDE DEF first, other
<1>8. PICK x \in first :
          rd = IF g.lmap[x] # 0 /\ other(x) # {} THEN regget(g, i, gmask(i), other(x), {}) ELSE x
  BY <1>7
<1>9. regget(g, i, gmask(i), other(x), {}) \in Regs \cup {0}
  BY RegGet
<1> QED BY <1>6, <1>8, <1>9

\* What is chosen for an instruction: registers, 0 when there is none.
LEMMA MapRegs ==
    ASSUME Given, NEW g, NEW i \in Ins, NEW m \in Maps(g, i)
    PROVE  /\ m.rd \in Regs \cup {0} /\ m.all \subseteq Regs \cup {0}
           /\ m.rs \in Seq(Nat) /\ Len(m.rs) <= Len(ic[i].a)
           /\ \A k \in DOMAIN m.rs : m.rs[k] \in Regs \cup {0} /\ m.rs[k] \in m.all
           /\ m.rd \in m.all /\ Changed(i) \subseteq m.all
           /\ ic[i].op = "stl" => 1 \in DOMAIN m.rs
<1>1. Len(ic[i].a) \in Nat /\ DOMAIN ic[i].a = 1 .. Len(ic[i].a)
  BY Code, LenProperties DEF Given
<1>2. CASE InPlace(g, i)
  <2> DEFINE r == lreg(g, ic[i].l)
  <2>1. r \in Regs \cup {0}
    BY Finds
  <2>2. m = Map(r, <<>>, {r}, {})
    BY <1>2 DEF Maps
  <2>3. ic[i].op = "ldl"
    BY <1>2 DEF InPlace
  <2> HIDE DEF r
  <2>4. m.rd = r /\ m.all = {r} /\ m.rs = <<>>
    BY <2>2 DEF Map
  <2>5. Changed(i) = {} /\ ic[i].op # "stl"
    BY <2>3 DEF Changed, Calls
  <2>6. <<>> \in Seq(Nat) /\ DOMAIN <<>> = {} /\ Len(<<>>) = 0
    BY EmptySeq
  <2> QED BY <1>1, <2>1, <2>4, <2>5, <2>6
<1>3. CASE ~InPlace(g, i)
  <2> DEFINE rs  == OperandRegs(g, i)
             rds == IF ic[i].op \in Outs THEN ResultRegs(g, i, rs) ELSE {0}
             a == Barred(g, i) \cup Range(rs)
  <2>1. rs \in [DOMAIN ic[i].a -> Regs \cup {0}]
    BY OperandRegsType
  <2>2. rds \subseteq Regs \cup {0}
    BY <2>1, ResultRegsType
  <2>3. PICK rd \in rds : m = Map(rd, rs, a \cup {rd} \cup Changed(i), Changed(i))
    BY <1>3 DEF Maps
  <2> HIDE DEF rs, rds
  <2>4. m.rd = rd /\ m.rs = rs /\ m.all = a \cup {rd} \cup Changed(i)
    BY <2>3 DEF Map
  <2>5. Barred(g, i) \subseteq Regs
    BY BarredRegs
  <2>6. Changed(i) \subseteq Regs
    BY Registers DEF Changed
  <2>7. \A k \in DOMAIN rs : rs[k] \in Regs \cup {0} /\ rs[k] \in Range(rs)
    BY <2>1 DEF Range
  <2>8. Range(rs) \subseteq Regs \cup {0}
    BY <2>7 DEF Range
  <2>9. rs \in Seq(Nat) /\ Len(rs) = Len(ic[i].a) /\ DOMAIN rs = 1 .. Len(ic[i].a)
    <3>1. \A x \in Regs \cup {0} : x \in Nat
      BY RegNat
    <3>2. rs \in [1 .. Len(ic[i].a) -> Nat]
      BY <1>1, <2>1, <3>1
    <3>3. rs \in Seq(Nat)
      BY <1>1, <3>2, SeqDef
    <3> QED BY <1>1, <3>2, <3>3, LenProperties
  <2>10. ic[i].op = "stl" => 1 \in DOMAIN rs
    <3>1. ic[i].op = "stl" => Len(ic[i].a) = 1
      BY Code DEF Given
    <3>2. ASSUME ic[i].op = "stl"
          PROVE  DOMAIN rs = 1 .. 1
      BY <2>9, <3>1, <3>2
    <3>3. 1 \in 1 .. 1
      OBVIOUS
    <3> QED BY <3>2, <3>3
  <2>11. m.rd \in Regs \cup {0} /\ m.all \subseteq Regs \cup {0} /\ m.rd \in m.all
    BY <2>2, <2>3, <2>4, <2>5, <2>6, <2>8
  <2>12. Range(rs) \subseteq m.all /\ Changed(i) \subseteq m.all
    BY <2>4
  <2>13. m.rs \in Seq(Nat) /\ Len(m.rs) <= Len(ic[i].a) /\ (ic[i].op = "stl" => 1 \in DOMAIN m.rs)
    BY <1>1, <2>4, <2>9, <2>10
  <2>14. \A k \in DOMAIN m.rs : m.rs[k] \in Regs \cup {0} /\ m.rs[k] \in m.all
    BY <2>4, <2>7, <2>12
  <2> QED BY <2>11, <2>12, <2>13, <2>14
<1> QED BY <1>2, <1>3

\* Before instruction i; and while m is used for it, with past steps to come.
Between(i) == [i |-> i, labs |-> i - 1, past |-> 0, regs |-> {}, args |-> 0, died |-> FALSE]
Pushed(i) == IF ic[i].op \in Calls THEN Len(ic[i].args) - N_ARGS ELSE 0
Dead(i, m) == 0 \in Range(m.rs) \/ (m.rd = 0 /\ ic[i].op \in Outs)
During(i, m, past) ==
    [i |-> i, labs |-> i, past |-> past, regs |-> m.all \ {0}, args |-> Pushed(i),
     died |-> Dead(i, m)]

\* What an instruction may write, before, while and after it is performed, is
\* a set of registers and a number of arguments.
LEMMA Phases ==
    ASSUME Given, NEW g, NEW i \in Ins, NEW m \in Maps(g, i), NEW past \in {0, 1}
    PROVE  /\ Between(i) \in Phase /\ During(i, m, past) \in Phase
           /\ [During(i, m, past) EXCEPT !.args = 0] \in Phase
<1>1. i \in Nat /\ i - 1 \in Nat /\ Pushed(i) \in Int
  <2>1. i \in 1 .. Len(ic) /\ Len(ic) \in Nat /\ Len(ic[i].args) \in Nat /\ N_ARGS \in Nat
    BY Code, Registers, LenProperties DEF Given
  <2> QED BY <2>1 DEF Pushed
<1>2. m.all \ {0} \subseteq Regs
  BY MapRegs
<1>3. Dead(i, m) \in BOOLEAN
  BY DEF Dead
<1> QED BY <1>1, <1>2, <1>3 DEF Phase, Between, During

\* Its registers may be changed.
LEMMA MapUsable ==
    ASSUME Given, NEW g, NEW i \in Ins, NEW m \in Maps(g, i), NEW past \in {0, 1},
           NEW c \in Phase, c.regs = m.all \ {0}, c.died = Dead(i, m)
    PROVE  /\ \A k \in DOMAIN m.rs : Usable(c, m.rs[k])
           /\ ic[i].op \in Outs => Usable(c, m.rd)
<1>1. /\ m.rd \in Regs \cup {0} /\ m.rd \in m.all
      /\ \A k \in DOMAIN m.rs : m.rs[k] \in Regs \cup {0} /\ m.rs[k] \in m.all
  BY MapRegs
<1>2. ASSUME NEW r \in Regs \cup {0}, r \in m.all, r = 0 => c.died
      PROVE  Usable(c, r)
  <2>1. c.died \/ (r \in Regs /\ r \in c.regs)
    BY <1>2
  <2> QED BY <2>1, UsableRegs
<1>3. \A k \in DOMAIN m.rs : m.rs[k] = 0 => Dead(i, m)
  BY DEF Dead, Range
<1>4. ic[i].op \in Outs /\ m.rd = 0 => Dead(i, m)
  BY DEF Dead
<1> QED BY <1>1, <1>2, <1>3, <1>4

\* Room is made for the arguments on the stack.
LEMMA PutRoom ==
    ASSUME Given, NEW c \in Phase, NEW g \in Gens(c), NEW x \in Int, NEW d \in Phase,
           d = [c EXCEPT !.args = x]
    PROVE  [g EXCEPT !.maxargs = Max({@, x})] \in Gens(d)
<1> DEFINE n == Max({g.maxargs, x})
           h == [g EXCEPT !.maxargs = n]
<1>1. g \in GenType /\ g.maxargs \in Nat /\ g.vmax \in Nat
  BY DEF Gens, GenType
<1>2. n \in Nat /\ g.maxargs <= n /\ x <= n
  <2> DEFINE y == g.maxargs
  <2>1. y \in Nat /\ y \in Int
    BY <1>1
  <2> HIDE DEF y
  <2>2. Max({y, x}) \in {y, x} /\ y <= Max({y, x}) /\ x <= Max({y, x})
    BY <2>1, MaxOfTwo
  <2>3. n = Max({y, x})
    BY DEF y
  <2> HIDE DEF n
  <2>4. n \in {y, x} /\ y <= n /\ x <= n
    BY <2>2, <2>3
  <2> QED BY <2>1, <2>4 DEF y
<1> HIDE DEF n
<1>3. /\ h \in GenType /\ h.i = g.i /\ h.lab = g.lab /\ h.died = g.died /\ h.lmap = g.lmap
      /\ h.regs = g.regs /\ h.mem = g.mem /\ h.vmax = g.vmax /\ h.maxargs = n /\ h.out = g.out
  BY <1>1, <1>2 DEF GenType
<1> HIDE DEF h
<1>4. h \in Gens(c)
  BY <1>1, <1>2, <1>3, Changes DEF Given
<1>5. d.i = c.i /\ d.labs = c.labs /\ d.past = c.past /\ d.regs = c.regs /\ d.args = x /\ d.died = c.died
  BY DEF Phase
<1>6. h \in Gens(d)
  BY <1>2, <1>3, <1>4, <1>5 DEF Gens, Fits
<1> QED BY <1>6 DEF h, n

\* One argument.
Put(h, i, rd, j) ==
    LET args == ic[i].args
        rx   == IF vreg(h, args[j]) # 0 THEN vreg(h, args[j]) ELSE rd
        m    == ra_vload(h, i, args[j], rx)
    IN  IF j <= N_ARGS THEN ra_vload(h, i, args[j], argregs[j])
        ELSE ra_vdrop(Emit(m, Copy(Sp(j - N_ARGS - 1), R(rx))), args[j])

\* Putting one argument in its place keeps the state of the allocator,
LEMMA PutKeeps ==
    ASSUME Given, NEW d \in Phase, NEW h \in Gens(d), NEW i \in Ins, NEW rd, Usable(d, rd),
           d.args = Len(ic[i].args) - N_ARGS, NEW j \in 1 .. Len(ic[i].args)
    PROVE  Put(h, i, rd, j) \in Gens(d)
<1> DEFINE v  == ic[i].args[j]
           rx == IF vreg(h, v) # 0 THEN vreg(h, v) ELSE rd
           m  == ra_vload(h, i, v, rx)
           s  == Copy(Sp(j - N_ARGS - 1), R(rx))
<1>1. Len(ic[i].args) \in Nat /\ N_ARGS \in Nat /\ j \in Nat /\ v \in Nat
  BY Code, Registers, LenProperties, SMTT(30) DEF Given
<1>2. rx \in Regs \cup {0} /\ (h.vmap[rx] = v \/ Usable(d, rx))
  BY Finds DEF Usable
<1>3. Put(h, i, rd, j) = IF j <= N_ARGS THEN ra_vload(h, i, v, argregs[j]) ELSE ra_vdrop(Emit(m, s), v)
  BY DEF Put
<1> HIDE DEF rx, v
<1>4. ASSUME j <= N_ARGS
      PROVE  ra_vload(h, i, v, argregs[j]) \in Gens(d)
  <2>1. argregs[j] \in Regs \ PERM
    BY <1>1, <1>4, Registers
  <2>2. Usable(d, argregs[j])
    BY <2>1, UsableRegs
  <2> QED BY <1>1, <2>1, <2>2, VLoadKeeps
<1>5. ASSUME ~ (j <= N_ARGS)
      PROVE  ra_vdrop(Emit(m, s), v) \in Gens(d)
  <2>1. m \in Gens(d)
    BY <1>1, <1>2, VLoadKeeps
  <2> HIDE DEF m
  <2> DEFINE o == j - N_ARGS - 1
  <2>2. o \in Int /\ rx \in Int
    BY <1>1, <1>2, RegNat
  <2>3. s \in StepType /\ s.k = "copy" /\ s.to = Sp(o)
    BY <2>2, PlaceTypes DEF Copy, StepType, Given
  <2>4. ASSUME ~m.died
        PROVE  StepFits(m, s)
    <3>1. d.args <= m.maxargs /\ m.maxargs \in Nat
      BY <2>1, <2>4 DEF Gens, Fits, GenType
    <3>2. o \in 0 .. m.maxargs - 1
      BY <1>1, <1>5, <3>1
    <3> HIDE DEF o
    <3>3. s.to \in Target(m)
      BY <2>3, <3>2 DEF Target
    <3> QED BY <2>3, <3>3 DEF StepFits
  <2> HIDE DEF s, o
  <2>5. Emit(m, s) \in Gens(d)
    BY <2>1, <2>3, <2>4, Emits DEF Given
  <2> QED BY <2>5, VDropKeeps
<1> QED BY <1>3, <1>4, <1>5

\* The arguments of a call are put into registers and onto the stack.
LEMMA PutsKeep ==
    ASSUME Given, NEW c \in Phase, NEW g \in Gens(c), NEW i \in Ins, NEW d \in Phase,
           d = [c EXCEPT !.args = Len(ic[i].args) - N_ARGS], NEW rd, Usable(d, rd)
    PROVE  PutArgs(g, i, rd) \in Gens(d)
<1> DEFINE n == Len(ic[i].args)
           T == Gens(d)
           b == [g EXCEPT !.maxargs = Max({@, Len(ic[i].args) - N_ARGS})]
           t == [j \in DOMAIN ic[i].args |-> j]
           Next1(h, r) == Put(h, i, rd, r)
           D == [p \in T \X (1 .. n) |-> Next1(p[1], t[p[2]])]
<1>1. n \in Nat /\ DOMAIN t = 1 .. n /\ b \in T
  <2>1. Len(ic[i].args) \in Nat /\ N_ARGS \in Nat /\ DOMAIN ic[i].args = 1 .. Len(ic[i].args)
    BY Code, Registers, LenProperties DEF Given
  <2>2. Len(ic[i].args) - N_ARGS \in Int
    BY <2>1
  <2>3. b \in Gens(d)
    BY <2>2, PutRoom
  <2> QED BY <2>1, <2>3
<1>2. ASSUME NEW h \in T, NEW k \in 1 .. n
      PROVE  Next1(h, t[k]) \in T
  <2>1. t[k] = k /\ d.args = Len(ic[i].args) - N_ARGS
    BY Code, LenProperties DEF Given, Phase
  <2> QED BY <2>1, PutKeeps
<1> HIDE DEF n, T, b, t, Next1
<1>3. IsFoldStep(D, T, 1 .. n) /\ \A h \in T : \A k \in 1 .. n : D[<<h, k>>] = Next1(h, t[k])
  BY <1>2 DEF IsFoldStep
<1> HIDE DEF D
<1>4. PICK f : FoldsRight(f, T, b, n, D)
  BY <1>1, <1>3, FoldRightExists
<1> DEFINE Def(fold) == fold = [x \in SUBSET DOMAIN t |->
                            IF x = {} THEN b ELSE Next1(fold[x \ {Least(x)}], t[Least(x)])]
           fold == CHOOSE fold : Def(fold)
<1>5. Def(f)
  <2>1. ASSUME NEW x \in SUBSET (1 .. n), x # {}
        PROVE  f[x] = Next1(f[x \ {Least(x)}], t[Least(x)])
    <3>1. n \in Nat /\ x \in SUBSET (1 .. n)
      BY <1>1
    <3>2. /\ Least(x) \in 1 .. n /\ f[x \ {Least(x)}] \in T
          /\ f[x] = D[<<f[x \ {Least(x)}], Least(x)>>]
      BY <3>1, <1>4, <2>1, FoldsRightStep
    <3> QED BY <1>3, <3>2
  <2> QED BY <1>1, <1>4, <2>1 DEF FoldsRight
<1>6. Def(fold)
  BY <1>5
<1>7. PutArgs(g, i, rd) = fold[DOMAIN t]
  BY Zenon DEF b, t, Next1, Put, PutArgs, FoldRight, MapThenFoldSet, Least, Min
<1> HIDE DEF fold
<1>8. fold[{}] = b /\ \A x \in SUBSET (1 .. n) : x # {} =>
          fold[x] = Next1(fold[x \ {Least(x)}], t[Least(x)])
  BY <1>1, <1>6
<1>9. fold[1 .. n] \in T
  <2>1. fold[{}] \in T /\ n \in Nat
    BY <1>1, <1>8
  <2>2. \A x \in SUBSET (1 .. n) :
            x # {} /\ Least(x) \in 1 .. n /\ fold[x \ {Least(x)}] \in T => fold[x] \in T
    <3> SUFFICES ASSUME NEW x \in SUBSET (1 .. n), x # {}, Least(x) \in 1 .. n,
                        fold[x \ {Least(x)}] \in T
                 PROVE  fold[x] \in T
      OBVIOUS
    <3>1. fold[x] = Next1(fold[x \ {Least(x)}], t[Least(x)])
      BY <1>8
    <3> QED BY <1>2, <3>1
  <2> QED BY <2>1, <2>2, RightKeeps
<1> QED BY <1>1, <1>7, <1>9 DEF T

-----------------------------------------------------------------------------
(* One instruction of ic_gencode.                                          *)

\* It begins: where its code begins is remembered, and what it needs.
LEMMA Begins ==
    ASSUME Given, NEW i \in Ins, NEW g \in Gens(Between(i)), NEW m \in Maps(g, i)
    PROVE  Begun(g, i, m) \in Gens(During(i, m, 1))
<1> DEFINE c == During(i, m, 1)
           d == [c EXCEPT !.args = 0]
           regs == g.regs \cup (m.all \ {0})
           lab == Append(g.lab, Len(g.out) + 1)
           died == g.died \/ Dead(i, m)
           h == [g EXCEPT !.regs = regs, !.lab = lab, !.died = died]
<1>1. Between(i) \in Phase /\ c \in Phase /\ d \in Phase
  BY Phases
<1>2. /\ g \in GenType /\ g.i = i /\ Len(g.lab) = i - 1 /\ g.lab \in Seq(Nat) /\ g.out \in Seq(StepType)
      /\ g.died \in BOOLEAN /\ g.regs \subseteq Regs /\ (~g.died => Fits(g, Between(i)))
      /\ g.vmax \in Nat /\ g.maxargs \in Nat
  BY DEF Gens, GenType, Between
<1>3. i \in Nat /\ i - 1 \in Nat /\ Len(g.out) \in Nat
  BY <1>2, Code, LenProperties DEF Given
<1>4. /\ lab \in Seq(Nat) /\ Len(lab) = i
      /\ \A k \in DOMAIN lab : lab[k] = Len(g.out) + 1 \/ (k \in DOMAIN g.lab /\ lab[k] = g.lab[k])
  BY <1>2, <1>3, AppendProperties, LenProperties
<1>5. died \in BOOLEAN /\ regs \subseteq Regs
  <2>1. m.all \subseteq Regs \cup {0}
    BY MapRegs
  <2>2. Dead(i, m) \in BOOLEAN
    BY DEF Dead
  <2> QED BY <1>2, <2>1, <2>2
<1>6. d.i = i /\ d.labs = i /\ d.past = 1 /\ d.regs = m.all \ {0} /\ d.args = 0 /\ d.died = Dead(i, m)
  BY DEF During
<1> HIDE DEF lab, died, regs
<1>7. /\ h \in GenType /\ h.i = g.i /\ h.lab = lab /\ h.died = died /\ h.lmap = g.lmap
      /\ h.regs = regs /\ h.mem = g.mem /\ h.vmax = g.vmax /\ h.maxargs = g.maxargs
      /\ h.out = g.out
  BY <1>2, <1>4, <1>5 DEF GenType
<1>8. IF ic[i].op \in Calls THEN Begun(g, i, m) = PutArgs(h, i, m.rd) ELSE Begun(g, i, m) = h
  <2>1. h = [g EXCEPT !.regs = @ \cup (m.all \ {0}), !.lab = Append(@, Len(g.out) + 1),
                      !.died = @ \/ 0 \in Range(m.rs) \/ (m.rd = 0 /\ ic[i].op \in Outs)]
    BY DEF regs, lab, died, Dead
  <2> HIDE DEF h
  <2> QED BY <2>1 DEF Begun
<1> HIDE DEF h, d
<1>9. h \in Gens(d)
  <2>1. g.regs \subseteq h.regs /\ d.regs \subseteq h.regs
    BY <1>6, <1>7 DEF regs
  <2>2. ASSUME ~h.died
        PROVE  Fits(h, d)
    <3>1. Fits(g, Between(i)) /\ ~g.died
      BY <1>2, <1>7, <2>2 DEF died
    <3>2. \A r : Allowed(g, r) => Allowed(h, r)
      BY <2>1 DEF Allowed
    <3>3. \A n \in DOMAIN h.out : StepFits(h, h.out[n])
      <4>1. \A x : StepFits(g, x) => StepFits(h, x)
        BY <1>2, <1>7, <2>1, StillFits DEF Given
      <4> QED BY <1>7, <3>1, <4>1 DEF Fits
    <3>4. \A k \in DOMAIN h.lab : h.lab[k] \in 1 .. Len(h.out) + d.past
      <4>1. \A k \in DOMAIN g.lab : g.lab[k] \in 1 .. Len(g.out)
        BY <1>3, <3>1 DEF Fits, Between
      <4> QED BY <1>3, <1>4, <1>6, <1>7, <4>1
    <3>5. d.args <= h.maxargs
      BY <1>2, <1>6, <1>7
    <3>6. \A k \in DOMAIN rgn : rgn[k].reg \in h.regs \cup {0}
      BY <3>1, <2>1 DEF Fits
    <3>7. \A r \in Regs : h.lmap[r] # 0 => Allowed(h, r)
      BY <1>7, <3>1, <3>2 DEF Fits
    <3> QED BY <2>1, <3>3, <3>4, <3>5, <3>6, <3>7 DEF Fits
  <2>3. d.died => h.died
    BY <1>6, <1>7 DEF died
  <2> QED BY <1>2, <1>4, <1>6, <1>7, <2>2, <2>3 DEF Gens
<1>10. c.regs = m.all \ {0} /\ c.died = Dead(i, m) /\ c.args = Pushed(i) /\ [d EXCEPT !.args = Pushed(i)] = c
  <2>1. d = [i |-> i, labs |-> i, past |-> 1, regs |-> m.all \ {0}, args |-> 0, died |-> Dead(i, m)]
    BY DEF d, During
  <2>2. c = [i |-> i, labs |-> i, past |-> 1, regs |-> m.all \ {0}, args |-> Pushed(i),
             died |-> Dead(i, m)]
    BY DEF During
  <2> HIDE DEF c
  <2> QED BY <2>1, <2>2
<1> HIDE DEF c
<1>11. CASE ic[i].op \in Calls
  <2>1. c = [d EXCEPT !.args = Len(ic[i].args) - N_ARGS]
    BY <1>10, <1>11 DEF Pushed
  <2>2. Usable(c, m.rd)
    <3>1. ic[i].op \in Outs
      BY <1>11 DEF Outs
    <3> QED BY <1>1, <1>10, <3>1, MapUsable
  <2>3. PutArgs(h, i, m.rd) \in Gens(c)
    BY <1>1, <1>9, <2>1, <2>2, PutsKeep
  <2> QED BY <1>8, <1>11, <2>3 DEF c
<1>12. CASE ic[i].op \notin Calls
  <2>1. d = c
    BY <1>12 DEF d, c, During, Pushed
  <2> QED BY <1>8, <1>9, <1>12, <2>1 DEF c
<1> QED BY <1>11, <1>12

\* Its operands are loaded, what it changes is spilled.
LEMMA Readies ==
    ASSUME Given, NEW x, NEW i \in Ins, NEW m \in Maps(x, i), NEW g \in Gens(During(i, m, 1))
    PROVE  Ready(g, i, m) \in Gens(During(i, m, 1))
<1> DEFINE c == During(i, m, 1)
           n == Len(m.rs)
<1>1. c \in Phase /\ c.regs = m.all \ {0} /\ c.died = Dead(i, m)
  <2>1. c \in Phase
    BY Phases
  <2> QED BY <2>1 DEF During
<1>2. m.rs \in Seq(Nat) /\ n <= Len(ic[i].a)
  BY MapRegs
<1>3. n \in Nat /\ DOMAIN m.rs = 1 .. n
  BY <1>2, LenProperties
<1>4. \A k \in 1 .. n : ic[i].a[k] \in Nat
  <2>1. ic[i].a \in Seq(Nat)
    BY Code DEF Given
  <2>2. Len(ic[i].a) \in Nat /\ \A k \in 1 .. Len(ic[i].a) : ic[i].a[k] \in Nat
    BY <2>1, LenProperties, ElementOfSeq
  <2>3. \A k \in 1 .. n : k \in 1 .. Len(ic[i].a)
    BY <1>2, <1>3, <2>2
  <2> QED BY <2>2, <2>3
<1> HIDE DEF c, n
<1>5. \A k \in DOMAIN m.rs : Usable(c, m.rs[k])
  BY <1>1, MapUsable
<1>6. \A k \in 1 .. n : ic[i].a[k] \in Nat /\ Usable(c, m.rs[k])
  BY <1>3, <1>4, <1>5
<1>7. LoadOperands(g, i, m.rs) \in Gens(c)
  BY <1>1, <1>3, <1>6, OperandsKeep DEF c
<1>8. DropUsed(LoadOperands(g, i, m.rs), i) \in Gens(c)
  BY <1>1, <1>7, DropsKeep
<1>9. Ready(g, i, m) \in Gens(c)
  BY <1>1, <1>8, SpillsKeep DEF Ready, SpillChanged
<1> QED BY <1>9 DEF c

\* Room is made for its result; a jump ends the block.
LEMMA Clears ==
    ASSUME Given, NEW c \in Phase, NEW g \in Gens(c), NEW i, NEW m
    PROVE  Cleared(g, i, m) \in Gens(c)
<1> DEFINE h == Spill(g, i, InTheWay(g, i, m.rd))
<1>1. h \in Gens(c)
  BY SpillsKeep
<1> HIDE DEF h
<1>2. ra_bbend(h, i) \in Gens(c)
  BY <1>1, BbendKeeps
<1>3. Cleared(g, i, m) \in {h, ra_bbend(h, i)}
  BY DEF Cleared, h
<1> QED BY <1>1, <1>2, <1>3

\* The step that performs it is one of those that may be made.
LEMMA DoFits ==
    ASSUME Given, NEW x, NEW i \in Ins, NEW m \in Maps(x, i), NEW past \in {0, 1},
           NEW g \in Gens(During(i, m, past))
    PROVE  /\ Do(i, m.rd, m.rs) \in StepType
           /\ g.died \/ StepFits(g, Do(i, m.rd, m.rs))
<1> DEFINE c == During(i, m, past)
           s == Do(i, m.rd, m.rs)
<1>1. c \in Phase /\ c.regs = m.all \ {0} /\ c.died = Dead(i, m) /\ c.args = Pushed(i)
  <2>1. c \in Phase
    BY Phases
  <2> QED BY <2>1 DEF During
<1>2. /\ s.k = "do" /\ s.i = i /\ s.rd = m.rd /\ s.rs = m.rs
      /\ s = [k |-> "do", i |-> i, rd |-> m.rd, rs |-> m.rs]
  BY DEF Do
<1>3. m.rd \in Nat /\ m.rs \in Seq(Nat) /\ i \in Nat
  <2>1. m.rd \in Regs \cup {0} /\ m.rs \in Seq(Nat)
    BY MapRegs
  <2>2. i \in Nat
    BY Code DEF Given
  <2>3. \A r \in Regs \cup {0} : r \in Nat
    BY RegNat
  <2> QED BY <2>1, <2>2, <2>3
<1>4. s \in StepType
  BY <1>2, <1>3 DEF StepType
<1>5. ic[i].op \in Outs => Usable(c, m.rd)
  BY <1>1, MapUsable
<1>6. Changed(i) \subseteq m.all
  BY MapRegs
<1> HIDE DEF s
<1>7. ASSUME ~g.died
      PROVE  StepFits(g, s)
  <2>1. Fits(g, c)
    BY <1>7 DEF Gens
  <2>2. ic[i].op \in Outs => Allowed(g, m.rd)
    BY <1>5, <1>7 DEF Usable
  <2>3. Changed(i) \cap PERM \subseteq g.regs
    <3>1. 0 \notin PERM
      BY RegNat, Registers
    <3> QED BY <1>1, <1>6, <2>1, <3>1 DEF Fits
  <2>4. ic[i].op \in Calls => Len(ic[i].args) - N_ARGS <= g.maxargs
    BY <1>1, <2>1 DEF Fits, Pushed
  <2> QED BY <1>2, <2>2, <2>3, <2>4 DEF StepFits
<1> QED BY <1>4, <1>7 DEF s

\* It is performed.
LEMMA Performs ==
    ASSUME Given, NEW x, NEW i \in Ins, NEW m \in Maps(x, i), NEW g \in Gens(During(i, m, 1))
    PROVE  Performed(g, i, m) \in Gens(During(i, m, 0))
<1> DEFINE c == During(i, m, 1)
           d == During(i, m, 0)
           s == Do(i, m.rd, m.rs)
           l == ic[i].l
<1>1. /\ c \in Phase /\ d \in Phase /\ d = [c EXCEPT !.past = 0]
      /\ c.regs = m.all \ {0} /\ c.died = Dead(i, m)
      /\ d.regs = m.all \ {0} /\ d.died = Dead(i, m)
  <2>1. c \in Phase /\ d \in Phase
    BY Phases
  <2> QED BY <2>1 DEF During
<1>2. \A h \in Gens(c) : s \in StepType /\ (h.died \/ StepFits(h, s))
  BY DoFits
<1>3. ic[i].op \in {"addr", "ldl", "stl"} => l \in Locals
  BY Code DEF Given
<1> HIDE DEF c, d, s
<1>4. \A h \in Gens(c) : Emit(h, s) \in Gens(d)
  BY <1>1, <1>2, Emits DEF Given
<1>5. CASE ic[i].op = "ldl"
  <2>1. Usable(c, m.rd)
    <3>1. ic[i].op \in Outs
      BY <1>5 DEF Outs
    <3> QED BY <1>1, <3>1, MapUsable
  <2>2. ra_lload(g, i, l, m.rd) \in Gens(c)
    BY <1>1, <1>3, <1>5, <2>1, LLoadKeeps DEF c
  <2>3. Performed(g, i, m) = Emit(ra_lload(g, i, l, m.rd), s)
    BY <1>5 DEF Performed, s
  <2> QED BY <1>4, <2>2, <2>3 DEF d
<1>6. CASE ic[i].op = "stl"
  <2>1. Usable(d, m.rs[1])
    <3>1. 1 \in DOMAIN m.rs
      BY <1>6, MapRegs
    <3> QED BY <1>1, <3>1, MapUsable
  <2>2. Emit(g, s) \in Gens(d)
    BY <1>4 DEF c
  <2>3. ra_lsave(Emit(g, s), i, l, m.rs[1]) \in Gens(d)
    BY <1>1, <1>3, <1>6, <2>1, <2>2, LSaveKeeps
  <2>4. Performed(g, i, m) = ra_lsave(Emit(g, s), i, l, m.rs[1])
    BY <1>6 DEF Performed, s
  <2> QED BY <2>3, <2>4 DEF d
<1>7. CASE ic[i].op = "addr"
  <2>1. UseMem(g, l) \in Gens(c)
    BY <1>1, <1>3, <1>7, UsesMem DEF c
  <2>2. Performed(g, i, m) = Emit(UseMem(g, l), s)
    BY <1>7 DEF Performed, s
  <2> QED BY <1>4, <2>1, <2>2 DEF d
<1>8. CASE ic[i].op \notin {"addr", "ldl", "stl"}
  <2>1. Performed(g, i, m) = Emit(g, s)
    BY <1>8 DEF Performed, s
  <2> QED BY <1>4, <2>1 DEF c, d
<1> QED BY <1>5, <1>6, <1>7, <1>8

\* Its result is kept, and the next one is at hand.
LEMMA Finishes ==
    ASSUME Given, NEW x, NEW i \in Ins, NEW m \in Maps(x, i), NEW g \in Gens(During(i, m, 0))
    PROVE  Finished(g, i, m) \in Gens(Between(i + 1))
<1> DEFINE c == During(i, m, 0)
           n == Between(i + 1)
           h == IF ic[i].op \in Outs /\ luse(i) > i THEN ra_vsave(g, i, m.rd) ELSE g
           b == IF ic[i].op \notin JXX /\ EndsBlock(i) THEN ra_bbend(h, i) ELSE h
<1>1. c \in Phase /\ i \in Nat
  <2>1. i \in Nat
    BY Code DEF Given
  <2> QED BY <2>1, Phases
<1>2. h \in Gens(c)
  BY <1>1, VSaveKeeps
<1> HIDE DEF h
<1>3. b \in Gens(c)
  BY <1>1, <1>2, BbendKeeps
<1>4. Finished(g, i, m) = [b EXCEPT !.i = i + 1]
  BY DEF Finished, h
<1> HIDE DEF b
<1> DEFINE e == [b EXCEPT !.i = i + 1]
<1>5. b \in GenType /\ Len(b.lab) = i /\ (b.died \/ Fits(b, c))
  BY <1>3 DEF Gens, During
<1>6. /\ e \in GenType /\ e.i = i + 1 /\ e.lab = b.lab /\ e.died = b.died /\ e.lmap = b.lmap
      /\ e.regs = b.regs /\ e.mem = b.mem /\ e.vmax = b.vmax /\ e.maxargs = b.maxargs
      /\ e.out = b.out
  <2>1. i + 1 \in Nat /\ b \in GenType
    BY <1>1, <1>5
  <2> QED BY <2>1 DEF GenType
<1> HIDE DEF e
<1>7. n.i = i + 1 /\ n.labs = i /\ n.past = 0 /\ n.regs = {} /\ n.args = 0 /\ n.died = FALSE
  BY <1>1 DEF Between
<1>8. b.maxargs \in Nat /\ b.vmax \in Nat
  BY <1>5 DEF GenType
<1>9. ASSUME ~e.died
      PROVE  Fits(e, n)
  <2>1. Fits(b, c) /\ c.past = 0
    BY <1>5, <1>6, <1>9 DEF During
  <2>2. \A s : StepFits(b, s) => StepFits(e, s)
    BY <1>5, <1>6, <1>8, StillFits DEF Given
  <2>3. \A r : Allowed(b, r) => Allowed(e, r)
    BY <1>6 DEF Allowed
  <2>4. \A k \in DOMAIN e.out : StepFits(e, e.out[k])
    BY <1>6, <2>1, <2>2 DEF Fits
  <2>5. \A r \in Regs : e.lmap[r] # 0 => Allowed(e, r)
    BY <1>6, <2>1, <2>3 DEF Fits
  <2>6. n.args <= e.maxargs /\ n.regs \subseteq e.regs
    BY <1>6, <1>7, <1>8
  <2>7. \A k \in DOMAIN e.lab : e.lab[k] \in 1 .. Len(e.out) + n.past
    BY <1>6, <1>7, <2>1 DEF Fits
  <2>8. \A k \in DOMAIN rgn : rgn[k].reg \in e.regs \cup {0}
    BY <1>6, <2>1 DEF Fits
  <2> QED BY <2>4, <2>5, <2>6, <2>7, <2>8 DEF Fits
<1> HIDE DEF n
<1>10. e \in Gens(n)
  BY <1>5, <1>6, <1>7, <1>9 DEF Gens
<1> QED BY <1>4, <1>10 DEF e, n

\* The code ends with the last instruction.
Ended(g) == /\ g.out # <<>>
            /\ g.out[Len(g.out)].k = "do" /\ g.out[Len(g.out)].i = Len(ic)

\* All of it.
LEMMA Generates ==
    ASSUME Given, NEW i \in Ins, NEW g \in Gens(Between(i)), NEW m \in Maps(g, i)
    PROVE  LET h == Ready(Begun(g, i, m), i, m)
               e == Finished(Performed(Cleared(h, i, m), i, m), i, m)
           IN  e \in Gens(Between(i + 1)) /\ (i = Len(ic) => Ended(e))
<1> DEFINE b == Begun(g, i, m)
           h == Ready(b, i, m)
           o == Cleared(h, i, m)
           p == Performed(o, i, m)
           e == Finished(p, i, m)
<1>1. b \in Gens(During(i, m, 1))
  BY Begins
<1> HIDE DEF b
<1>2. h \in Gens(During(i, m, 1))
  BY <1>1, Readies
<1> HIDE DEF h
<1>3. o \in Gens(During(i, m, 1))
  <2>1. During(i, m, 1) \in Phase
    BY Phases
  <2> QED BY <1>2, <2>1, Clears
<1> HIDE DEF o
<1>4. p \in Gens(During(i, m, 0))
  BY <1>3, Performs
<1>5. ASSUME i = Len(ic)
      PROVE  Ended(e)
  <2>1. ic[i].op = "ret" /\ Len(ic) \in Nat
    BY <1>5, Code DEF Given
  <2>2. p = Emit(o, Do(i, m.rd, m.rs))
    BY <2>1 DEF Performed
  <2>3. e = [p EXCEPT !.i = i + 1]
    <3>1. ic[i].op \notin Outs
      BY <2>1 DEF Outs, Calls
    <3>2. ~ EndsBlock(i)
      BY <1>5, <2>1 DEF EndsBlock
    <3> HIDE DEF p
    <3> QED BY <3>1, <3>2 DEF Finished
  <2>4. o \in GenType /\ o.out \in Seq(StepType) /\ Do(i, m.rd, m.rs) \in StepType
    <3>1. o \in GenType
      BY <1>3 DEF Gens
    <3>2. Do(i, m.rd, m.rs) \in StepType
      BY <1>3, DoFits
    <3> QED BY <3>1, <3>2 DEF GenType
  <2>5. p \in GenType
    BY <1>4 DEF Gens
  <2>6. e.out = Append(o.out, Do(i, m.rd, m.rs))
    <3>1. p.out = Append(o.out, Do(i, m.rd, m.rs))
      BY <2>2, <2>4 DEF Emit, GenType
    <3> HIDE DEF p, e
    <3>2. e.out = p.out
      BY <2>3, <2>5 DEF GenType
    <3> QED BY <3>1, <3>2
  <2> DEFINE s == Do(i, m.rd, m.rs)
             q == Append(o.out, s)
  <2>7. s.k = "do" /\ s.i = Len(ic)
    BY <1>5 DEF Do
  <2> HIDE DEF s
  <2>8. Len(q) = Len(o.out) + 1 /\ q[Len(o.out) + 1] = s /\ q # <<>>
    <3>1. o.out \in Seq(StepType) /\ s \in StepType
      BY <2>4 DEF s
    <3> QED BY <3>1, AppendProperties
  <2>9. e.out = q
    BY <2>6 DEF s
  <2> HIDE DEF q, e
  <2> QED BY <2>7, <2>8, <2>9 DEF Ended
<1> HIDE DEF p
<1>6. e \in Gens(Between(i + 1))
  BY <1>4, Finishes
<1> QED BY <1>5, <1>6 DEF b, h, o, p

-----------------------------------------------------------------------------
(* Live regions: reg.c.                                                    *)

\* The sum of the loads of some regions.
Loads(rs, hit) == MapThenSumSet(LAMBDA k : rs[k].cnt, hit)

\* The loads a set of regions saves are a number.
LEMMA LoadsType ==
    ASSUME NEW rs, NEW hit, IsFiniteSet(hit), \A k \in hit : rs[k].cnt \in Nat
    PROVE  Loads(rs, hit) \in Nat
<1> DEFINE T == Nat
           b == 0
           M == [s \in SUBSET hit |-> CHOOSE x \in s : TRUE]
           D == [p \in T \X hit |-> rs[p[2]].cnt + p[1]]
<1>1. b \in T /\ \A x \in T : \A k \in hit : rs[k].cnt + x \in T
  OBVIOUS
<1>2. Picks(M, hit) /\ \A s \in SUBSET hit : M[s] = CHOOSE x \in s : TRUE
  BY DEF Picks
<1> HIDE DEF T, b, M
<1>3. IsFoldStep(D, T, hit) /\ \A x \in T : \A k \in hit : D[<<x, k>>] = rs[k].cnt + x
  BY <1>1 DEF IsFoldStep
<1> HIDE DEF D
<1>4. PICK f : Folds(f, T, b, hit, D, M)
  BY <1>1, <1>2, <1>3, FoldExists
<1> DEFINE Def(c) == c = [s \in SUBSET hit |->
                            IF s = {} THEN b
                            ELSE rs[CHOOSE x \in s : TRUE].cnt + c[s \ {CHOOSE x \in s : TRUE}]]
           c == CHOOSE c : Def(c)
<1>5. Def(f)
  <2>1. ASSUME NEW s \in SUBSET hit, s # {}
        PROVE  f[s] = rs[M[s]].cnt + f[s \ {M[s]}]
    <3>1. M[s] \in hit /\ s \ {M[s]} \in SUBSET hit
      BY <1>2, <2>1 DEF Picks
    <3>2. f[s \ {M[s]}] \in T /\ f[s] = D[<<f[s \ {M[s]}], M[s]>>]
      BY <1>4, <2>1, <3>1 DEF Folds
    <3> QED BY <1>3, <3>1, <3>2
  <2>2. ASSUME NEW s \in SUBSET hit
        PROVE  f[s] = IF s = {} THEN b
                      ELSE rs[CHOOSE x \in s : TRUE].cnt + f[s \ {CHOOSE x \in s : TRUE}]
    <3>1. M[s] = CHOOSE x \in s : TRUE
      BY <1>2
    <3>2. s = {} => f[s] = b
      BY <1>4 DEF Folds
    <3> QED BY <2>1, <3>1, <3>2
  <2> QED BY <1>4, <2>2 DEF Folds
<1>6. Def(c)
  BY <1>5
<1>7. Loads(rs, hit) = c[hit]
  BY Zenon DEF Loads, b, MapThenSumSet, MapThenFoldSet
<1> HIDE DEF c
<1>8. c[{}] = b /\ \A s \in SUBSET hit : s # {} => c[s] = rs[M[s]].cnt + c[s \ {M[s]}]
  BY <1>2, <1>6
<1>9. c[hit] \in T
  <2>1. \A s \in SUBSET hit : s # {} /\ c[s \ {M[s]}] \in T => c[s] \in T
    <3> SUFFICES ASSUME NEW s \in SUBSET hit, s # {}, c[s \ {M[s]}] \in T
                 PROVE  c[s] \in T
      OBVIOUS
    <3>1. M[s] \in hit /\ c[s] = rs[M[s]].cnt + c[s \ {M[s]}]
      BY <1>2, <1>8 DEF Picks
    <3> QED BY <1>1, <3>1
  <2>2. c[{}] \in T
    BY <1>1, <1>8
  <2> QED BY <1>2, <2>1, <2>2, FoldKeeps
<1> QED BY <1>7, <1>9 DEF T

\* The search of reg_region stays in the function, and has where it began.
LEMMA ReachedType ==
    ASSUME src \in Sources, NEW l, NEW i \in Ins
    PROVE  Reached(l, i) \in SUBSET Ins /\ i \in Reached(l, i)
<1> DEFINE A == SUBSET Ins
           more(S) == S \cup UNION {Before(l, p) : p \in S}
           Closed(C) == more(C) = C
           Cl(S) == {p \in Ins : \A C \in A : Closed(C) /\ S \subseteq C => p \in C}
           f == [S \in A |-> Cl(S)]
           Def(from) == from = [S \in A |-> IF more(S) = S THEN S ELSE from[more(S)]]
           from == CHOOSE from : Def(from)
<1>1. IsFiniteSet(Ins) /\ \A p \in Ins : Before(l, p) \subseteq Ins
  <2>1. Len(ic) \in Nat /\ Ins = 1 .. Len(ic)
    BY Code
  <2>2. \A p \in 1 .. Len(ic) : p > 1 => p - 1 \in 1 .. Len(ic)
    BY <2>1
  <2>3. IsFiniteSet(Ins)
    BY <2>1, FS_Interval
  <2> QED BY <2>1, <2>2, <2>3 DEF Before
<1> HIDE DEF A
<1>2. \A S \in A : more(S) \in A /\ S \subseteq more(S)
  BY <1>1 DEF A
<1>3. ASSUME NEW S \in A, NEW C \in A, Closed(C), S \subseteq C
      PROVE  more(S) \subseteq C
  BY <1>3
<1> HIDE DEF more
<1>4. ASSUME NEW S \in A
      PROVE  Cl(S) = IF more(S) = S THEN S ELSE Cl(more(S))
  <2>1. ASSUME more(S) = S
        PROVE  Cl(S) = S
    <3>1. S \subseteq Ins /\ S \subseteq Cl(S)
      BY DEF A
    <3>2. Cl(S) \subseteq S
      BY <2>1
    <3> QED BY <3>1, <3>2
  <2>2. Cl(S) = Cl(more(S))
    BY <1>2, <1>3
  <2> QED BY <2>1, <2>2
<1>5. Def(f)
  <2>1. \A S \in A : f[S] = Cl(S) /\ f[more(S)] = Cl(more(S))
    BY <1>2
  <2>2. \A S \in A : f[S] = IF more(S) = S THEN S ELSE f[more(S)]
    BY <1>4, <2>1
  <2> QED BY <2>2
<1>6. Def(from)
  BY <1>5
<1>7. Reached(l, i) = from[{i}]
  BY Zenon DEF Reached, A, more
<1> HIDE DEF from
<1>8. \A S \in A : from[S] = IF more(S) = S THEN S ELSE from[more(S)]
  BY <1>6
<1> DEFINE P == {k \in Nat : \A S \in A : Cardinality(Ins \ S) <= k => from[S] \in A /\ S \subseteq from[S]}
<1>9. \A S \in A : IsFiniteSet(Ins \ S) /\ Cardinality(Ins \ S) \in Nat
  BY <1>1, FS_Subset, FS_CardinalityType
<1>10. \A S \in A : more(S) # S => Cardinality(Ins \ more(S)) + 1 <= Cardinality(Ins \ S)
  <2> SUFFICES ASSUME NEW S \in A, more(S) # S
               PROVE  Cardinality(Ins \ more(S)) + 1 <= Cardinality(Ins \ S)
    OBVIOUS
  <2> DEFINE X == Ins \ S
             Y == Ins \ more(S)
  <2>1. PICK p \in Ins : p \in more(S) /\ p \notin S
    BY <1>2 DEF A
  <2>2. Y \subseteq X \ {p} /\ p \in X
    BY <1>2, <2>1
  <2>3. IsFiniteSet(X) /\ Cardinality(X) \in Nat
    BY <1>9
  <2>4. more(S) \in A
    BY <1>2
  <2>5. Cardinality(Y) \in Nat
    BY <1>9, <2>4
  <2> HIDE DEF X, Y
  <2>6. IsFiniteSet(X \ {p}) /\ Cardinality(X \ {p}) = Cardinality(X) - 1
    BY <2>2, <2>3, FS_RemoveElement
  <2>7. Cardinality(Y) <= Cardinality(X \ {p})
    BY <2>2, <2>6, FS_Subset
  <2>8. Cardinality(Y) + 1 <= Cardinality(X)
    BY <2>3, <2>5, <2>6, <2>7
  <2> QED BY <2>8 DEF X, Y
<1>11. 0 \in P
  <2> SUFFICES ASSUME NEW S \in A, Cardinality(Ins \ S) <= 0
               PROVE  from[S] \in A /\ S \subseteq from[S]
    OBVIOUS
  <2>1. more(S) = S
    <3> SUFFICES ASSUME more(S) # S PROVE FALSE
      OBVIOUS
    <3>1. more(S) \in A
      BY <1>2
    <3>2. Cardinality(Ins \ more(S)) \in Nat /\ Cardinality(Ins \ S) \in Nat
      BY <1>9, <3>1
    <3>3. Cardinality(Ins \ more(S)) + 1 <= Cardinality(Ins \ S)
      BY <1>10
    <3> QED BY <3>2, <3>3
  <2> QED BY <1>8, <2>1
<1>12. ASSUME NEW k \in Nat, k \in P
       PROVE  k + 1 \in P
  <2> SUFFICES ASSUME NEW S \in A, Cardinality(Ins \ S) <= k + 1
               PROVE  from[S] \in A /\ S \subseteq from[S]
    OBVIOUS
  <2>1. CASE more(S) = S
    BY <1>8, <2>1
  <2>2. CASE more(S) # S
    <3>1. more(S) \in A /\ S \subseteq more(S)
      BY <1>2
    <3>2. Cardinality(Ins \ more(S)) <= k
      BY <1>9, <1>10, <2>2, <3>1
    <3>3. from[more(S)] \in A /\ more(S) \subseteq from[more(S)]
      BY <1>12, <3>1, <3>2
    <3> QED BY <1>8, <2>2, <3>1, <3>3
  <2> QED BY <2>1, <2>2
<1> HIDE DEF P
<1>13. \A k \in Nat : k \in P
  BY <1>11, <1>12, NatInd
<1>14. {i} \in A
  BY DEF A
<1>15. from[{i}] \in A /\ {i} \subseteq from[{i}]
  <2> DEFINE n == Cardinality(Ins \ {i})
  <2>1. n \in Nat
    BY <1>9, <1>14
  <2>2. n \in P /\ n <= n
    BY <1>13, <2>1
  <2> QED BY <1>14, <2>2 DEF P
<1> QED BY <1>7, <1>15 DEF A

\* Regions are added to regions.
LEMMA RgnAddType ==
    ASSUME src \in Sources, NEW rs \in Seq(RegionType), NEW new \in RegionType
    PROVE  rgn_add(rs, new) \in Seq(RegionType)
<1> DEFINE n     == Len(rs)
           hit   == {k \in DOMAIN rs : rs[k].loc = new.loc /\ Overlap(rs[k], new)}
           left  == [k \in DOMAIN rs |-> IF k \in hit THEN [rs[k] EXCEPT !.loc = 0] ELSE rs[k]]
           free  == {k \in DOMAIN rs : left[k].loc = 0}
           beg   == Min({new.beg} \cup {rs[k].beg : k \in hit})
           end   == Max({new.end} \cup {rs[k].end : k \in hit})
           cnt   == new.cnt + Loads(rs, hit)
           whole == [new EXCEPT !.beg = beg, !.end = end, !.cnt = cnt]
           N     == Len(ic) + 1
<1>1. n \in Nat /\ DOMAIN rs = 1 .. n /\ \A k \in 1 .. n : rs[k] \in RegionType
  BY LenProperties, ElementOfSeq
<1>2. N \in Nat
  BY Code
<1>3. \A r \in RegionType : /\ r.loc \in Locals \cup {0} /\ r.beg \in 1 .. N /\ r.end \in 1 .. N
                            /\ r.cnt \in Nat /\ r.reg \in Regs \cup {0}
                            /\ [r EXCEPT !.loc = 0] \in RegionType
                            /\ \A g \in Regs : [r EXCEPT !.reg = g] \in RegionType
  BY DEF RegionType
<1>4. rgn_add(rs, new) =
          IF free = {} THEN Append(left, whole) ELSE [left EXCEPT ![Min(free)] = whole]
  <2>1. whole = [new EXCEPT !.beg = Min({@} \cup {rs[k].beg : k \in hit}),
                            !.end = Max({@} \cup {rs[k].end : k \in hit}),
                            !.cnt = @ + MapThenSumSet(LAMBDA k : rs[k].cnt, hit)]
    BY Zenon DEF Loads
  <2> QED BY Zenon, <2>1 DEF rgn_add
<1>5. hit \subseteq 1 .. n /\ IsFiniteSet(hit)
  <2>1. hit \subseteq 1 .. n
    BY <1>1
  <2>2. IsFiniteSet(1 .. n)
    BY <1>1, FS_Interval
  <2> HIDE DEF hit, n
  <2> QED BY <2>1, <2>2, FS_Subset
<1> HIDE DEF N
<1>6. left \in Seq(RegionType)
  <2> HIDE DEF hit
  <2>1. left \in [1 .. n -> RegionType]
    BY <1>1, <1>3
  <2> QED BY <1>1, <2>1, SeqDef
<1> HIDE DEF hit
<1>7. \A k \in hit : rs[k].beg \in 1 .. N /\ rs[k].end \in 1 .. N /\ rs[k].cnt \in Nat
  BY <1>1, <1>3, <1>5
<1>8. beg \in 1 .. N
  <2> DEFINE S == {new.beg} \cup {rs[k].beg : k \in hit}
  <2>1. S \subseteq 1 .. N /\ S # {}
    BY <1>3, <1>7
  <2>2. 1 .. N \subseteq Nat
    BY <1>2
  <2> HIDE DEF S
  <2>3. Min(S) \in S
    BY <2>1, <2>2, MinIn
  <2>4. Min(S) \in 1 .. N
    BY <2>1, <2>3
  <2> QED BY <2>4 DEF S
<1>9. end \in 1 .. N
  <2> DEFINE S == {new.end} \cup {rs[k].end : k \in hit}
  <2>1. S \in SUBSET (1 .. N) /\ S # {}
    BY <1>3, <1>7
  <2> HIDE DEF S
  <2>2. Greatest(S) \in S
    BY <1>2, <2>1, GreatestOfPart
  <2>3. Max(S) \in 1 .. N
    BY <2>1, <2>2 DEF Greatest, Max
  <2> QED BY <2>3 DEF S
<1>10. cnt \in Nat
  <2>1. Loads(rs, hit) \in Nat
    BY <1>5, <1>7, LoadsType
  <2>2. new.cnt \in Nat
    BY <1>3
  <2> QED BY <2>1, <2>2
<1> HIDE DEF beg, end, cnt
<1>11. whole \in RegionType
  BY <1>8, <1>9, <1>10 DEF RegionType, N
<1>12. Append(left, whole) \in Seq(RegionType)
  <2> HIDE DEF left, whole
  <2> QED BY <1>6, <1>11, AppendProperties
<1>13. [left EXCEPT ![Min(free)] = whole] \in Seq(RegionType)
  <2> HIDE DEF left, whole, free
  <2> DEFINE q == [left EXCEPT ![Min(free)] = whole]
  <2>1. Len(left) \in Nat /\ DOMAIN left = 1 .. Len(left) /\ \A k \in 1 .. Len(left) : left[k] \in RegionType
    BY <1>6, LenProperties, ElementOfSeq
  <2>2. q \in [1 .. Len(left) -> RegionType]
    BY <1>11, <2>1
  <2> HIDE DEF q
  <2>3. q \in Seq(RegionType)
    BY <2>1, <2>2, SeqDef
  <2> QED BY <2>3 DEF q
<1> QED BY <1>4, <1>12, <1>13

\* A region of a local, of which nothing is known but where it is.
LEMMA RegionIn ==
    ASSUME src \in Sources, NEW l \in Locals \cup {0}, NEW beg \in 1 .. Len(ic) + 1,
           NEW end \in 1 .. Len(ic) + 1, NEW cnt \in Nat
    PROVE  Region(l, beg, end, cnt) \in RegionType
BY DEF Region, RegionType

\* The regions from the loads of a local.
LEMMA VisitedType ==
    ASSUME src \in Sources, NEW rs \in Seq(RegionType), NEW l \in Locals
    PROVE  Visited(rs, l) \in [mark : SUBSET Ins, rs : Seq(RegionType)]
<1> DEFINE n == Len(ic)
           T == [mark : SUBSET Ins, rs : Seq(RegionType)]
           b == [mark |-> {}, rs |-> rs]
           t == Order
           Next1(h, r) == IF r \notin Touch({"ldl"}, l) \ h.mark THEN h
                           ELSE LET p == Reached(l, r)
                                IN  [mark |-> h.mark \cup p,
                                     rs |-> rgn_add(h.rs, Region(l, Min(p), Max(p) + 1,
                                         Cardinality((Touch({"ldl"}, l) \cap p) \ h.mark)))]
           D == [p \in T \X (1 .. n) |-> Next1(p[1], t[p[2]])]
<1>1. n \in Nat /\ DOMAIN t = 1 .. n /\ b \in T
  BY Code DEF Order
<1>2. ASSUME NEW h \in T, NEW k \in 1 .. n
      PROVE  Next1(h, t[k]) \in T
  <2> DEFINE i == t[k]
             p == Reached(l, i)
             s == (Touch({"ldl"}, l) \cap p) \ h.mark
  <2>1. i \in Ins /\ Len(ic) \in Nat /\ Ins = 1 .. Len(ic)
    BY Code DEF Order
  <2>2. p \in SUBSET (1 .. Len(ic)) /\ p # {}
    BY <2>1, ReachedType
  <2>3. Cardinality(s) \in Nat
    <3>1. IsFiniteSet(1 .. Len(ic))
      BY <2>1, FS_Interval
    <3>2. s \subseteq 1 .. Len(ic)
      BY <2>2
    <3> HIDE DEF s
    <3> QED BY <3>1, <3>2, FS_Subset, FS_CardinalityType
  <2> HIDE DEF p, i, s
  <2>4. Min(p) \in 1 .. Len(ic) + 1
    <3>1. p \in SUBSET Nat
      BY <2>1, <2>2
    <3>2. Min(p) \in p
      BY <2>2, <3>1, MinIn
    <3>3. \A x \in 1 .. Len(ic) : x \in 1 .. Len(ic) + 1
      BY <2>1
    <3> QED BY <2>2, <3>2, <3>3
  <2>5. Max(p) + 1 \in 1 .. Len(ic) + 1
    <3>1. Greatest(p) \in p
      BY <2>1, <2>2, GreatestOfPart
    <3>2. Max(p) \in 1 .. Len(ic)
      BY <2>2, <3>1 DEF Greatest, Max
    <3> QED BY <2>1, <3>2
  <2>6. Region(l, Min(p), Max(p) + 1, Cardinality(s)) \in RegionType
    BY <2>3, <2>4, <2>5, RegionIn
  <2>7. h.mark \subseteq Ins /\ h.rs \in Seq(RegionType)
    OBVIOUS
  <2>8. rgn_add(h.rs, Region(l, Min(p), Max(p) + 1, Cardinality(s))) \in Seq(RegionType)
    BY <2>6, <2>7, RgnAddType
  <2>9. [mark |-> h.mark \cup p,
         rs |-> rgn_add(h.rs, Region(l, Min(p), Max(p) + 1, Cardinality(s)))] \in T
    BY <2>1, <2>2, <2>7, <2>8
  <2> QED BY <2>9 DEF p, i, s
<1> HIDE DEF n, T, b, t, Next1
<1>3. IsFoldStep(D, T, 1 .. n) /\ \A h \in T : \A k \in 1 .. n : D[<<h, k>>] = Next1(h, t[k])
  BY <1>2 DEF IsFoldStep
<1> HIDE DEF D
<1>4. PICK f : FoldsLeft(f, T, b, n, D)
  BY <1>1, <1>3, FoldLeftExists
<1> DEFINE Def(fold) == fold = [x \in SUBSET DOMAIN t |->
                            IF x = {} THEN b ELSE Next1(fold[x \ {Greatest(x)}], t[Greatest(x)])]
           fold == CHOOSE fold : Def(fold)
<1>5. Def(f)
  <2>1. ASSUME NEW x \in SUBSET (1 .. n), x # {}
        PROVE  f[x] = Next1(f[x \ {Greatest(x)}], t[Greatest(x)])
    <3>1. n \in Nat /\ x \in SUBSET (1 .. n)
      BY <1>1
    <3>2. /\ Greatest(x) \in 1 .. n /\ f[x \ {Greatest(x)}] \in T
          /\ f[x] = D[<<f[x \ {Greatest(x)}], Greatest(x)>>]
      BY <3>1, <1>4, <2>1, FoldsLeftStep
    <3> QED BY <1>3, <3>2
  <2> QED BY <1>1, <1>4, <2>1 DEF FoldsLeft
<1>6. Def(fold)
  BY <1>5
<1>7. Visited(rs, l) = fold[DOMAIN t]
  BY Zenon DEF b, t, Next1, Visited, FoldLeft, MapThenFoldSet, Greatest, Max
<1> HIDE DEF fold
<1>8. fold[{}] = b /\ \A x \in SUBSET (1 .. n) : x # {} =>
          fold[x] = Next1(fold[x \ {Greatest(x)}], t[Greatest(x)])
  BY <1>1, <1>6
<1>9. fold[1 .. n] \in T
  <2>1. fold[{}] \in T /\ n \in Nat
    BY <1>1, <1>8
  <2>2. \A x \in SUBSET (1 .. n) :
            x # {} /\ Greatest(x) \in 1 .. n /\ fold[x \ {Greatest(x)}] \in T => fold[x] \in T
    <3> SUFFICES ASSUME NEW x \in SUBSET (1 .. n), x # {}, Greatest(x) \in 1 .. n,
                        fold[x \ {Greatest(x)}] \in T
                 PROVE  fold[x] \in T
      OBVIOUS
    <3>1. fold[x] = Next1(fold[x \ {Greatest(x)}], t[Greatest(x)])
      BY <1>8
    <3> QED BY <1>2, <3>1
  <2> QED BY <2>1, <2>2, LeftKeeps
<1> QED BY <1>1, <1>7, <1>9 DEF T

\* And from its stores.
LEMMA RegionsOfType ==
    ASSUME src \in Sources, NEW rs \in Seq(RegionType), NEW l \in Locals
    PROVE  reg_regions(rs, l) \in Seq(RegionType)
<1> DEFINE n == Len(ic)
           T == Seq(RegionType)
           b == Visited(rs, l).rs
           t == Order
           Next1(h, r) == IF r \in Touch({"stl"}, l) \ Visited(rs, l).mark
                           THEN rgn_add(h, Region(l, r, r + 1, 1)) ELSE h
           D == [p \in T \X (1 .. n) |-> Next1(p[1], t[p[2]])]
<1>1. n \in Nat /\ DOMAIN t = 1 .. n /\ b \in T
  <2>1. Len(ic) \in Nat /\ DOMAIN Order = 1 .. Len(ic)
    BY Code DEF Order
  <2>2. Visited(rs, l) \in [mark : SUBSET Ins, rs : Seq(RegionType)]
    BY VisitedType
  <2>3. Visited(rs, l).rs \in Seq(RegionType)
    BY <2>2
  <2> QED BY <2>1, <2>3
<1>2. ASSUME NEW h \in T, NEW k \in 1 .. n
      PROVE  Next1(h, t[k]) \in T
  <2>1. t[k] = k /\ k \in 1 .. Len(ic) + 1 /\ k + 1 \in 1 .. Len(ic) + 1
    BY Code DEF Order
  <2>2. Region(l, t[k], t[k] + 1, 1) \in RegionType
    BY <2>1, RegionIn
  <2>3. rgn_add(h, Region(l, t[k], t[k] + 1, 1)) \in Seq(RegionType)
    BY <2>2, RgnAddType
  <2> QED BY <2>3
<1> HIDE DEF n, T, b, t, Next1
<1>3. IsFoldStep(D, T, 1 .. n) /\ \A h \in T : \A k \in 1 .. n : D[<<h, k>>] = Next1(h, t[k])
  BY <1>2 DEF IsFoldStep
<1> HIDE DEF D
<1>4. PICK f : FoldsLeft(f, T, b, n, D)
  BY <1>1, <1>3, FoldLeftExists
<1> DEFINE Def(fold) == fold = [x \in SUBSET DOMAIN t |->
                            IF x = {} THEN b ELSE Next1(fold[x \ {Greatest(x)}], t[Greatest(x)])]
           fold == CHOOSE fold : Def(fold)
<1>5. Def(f)
  <2>1. ASSUME NEW x \in SUBSET (1 .. n), x # {}
        PROVE  f[x] = Next1(f[x \ {Greatest(x)}], t[Greatest(x)])
    <3>1. n \in Nat /\ x \in SUBSET (1 .. n)
      BY <1>1
    <3>2. /\ Greatest(x) \in 1 .. n /\ f[x \ {Greatest(x)}] \in T
          /\ f[x] = D[<<f[x \ {Greatest(x)}], Greatest(x)>>]
      BY <3>1, <1>4, <2>1, FoldsLeftStep
    <3> QED BY <1>3, <3>2
  <2> QED BY <1>1, <1>4, <2>1 DEF FoldsLeft
<1>6. Def(fold)
  BY <1>5
<1>7. reg_regions(rs, l) = fold[DOMAIN t]
  BY Zenon DEF b, t, Next1, reg_regions, FoldLeft, MapThenFoldSet, Greatest, Max
<1> HIDE DEF fold
<1>8. fold[{}] = b /\ \A x \in SUBSET (1 .. n) : x # {} =>
          fold[x] = Next1(fold[x \ {Greatest(x)}], t[Greatest(x)])
  BY <1>1, <1>6
<1>9. fold[1 .. n] \in T
  <2>1. fold[{}] \in T /\ n \in Nat
    BY <1>1, <1>8
  <2>2. \A x \in SUBSET (1 .. n) :
            x # {} /\ Greatest(x) \in 1 .. n /\ fold[x \ {Greatest(x)}] \in T => fold[x] \in T
    <3> SUFFICES ASSUME NEW x \in SUBSET (1 .. n), x # {}, Greatest(x) \in 1 .. n,
                        fold[x \ {Greatest(x)}] \in T
                 PROVE  fold[x] \in T
      OBVIOUS
    <3>1. fold[x] = Next1(fold[x \ {Greatest(x)}], t[Greatest(x)])
      BY <1>8
    <3> QED BY <1>2, <3>1
  <2> QED BY <2>1, <2>2, LeftKeeps
<1> QED BY <1>1, <1>7, <1>9 DEF T

\* The registers for regions.
LEMMA GlobRegsIn ==
    GlobRegs \subseteq Regs
<1>1. 1 .. N_TMPS - 1 \subseteq 1 .. N_TMPS
  BY Registers
<1> QED BY <1>1, Registers DEF GlobRegs

\* The regions of all locals.
LEMMA RegionsType ==
    ASSUME src \in Sources
    PROVE  Regions \in Seq(RegionType)
<1> DEFINE n == argc + Len(src.locs)
           T == Seq(RegionType)
           b == <<>>
           t == [l \in Locals |-> l]
           Next1(h, r) == IF Pointed(r) \/ r > Max({0} \cup {ic[i].l : i \in Ins}) THEN h
                           ELSE IF opt(2) THEN reg_regions(h, r)
                           ELSE rgn_add(h, Region(r, 1, Len(ic) + 1, Cardinality(Touch({"ldl", "stl"}, r))))
           D == [p \in T \X (1 .. n) |-> Next1(p[1], t[p[2]])]
<1>1. n \in Nat /\ DOMAIN t = 1 .. n /\ b \in T
  <2>1. argc \in Nat /\ Len(src.locs) \in Nat
    BY SourcesAssumption, LenProperties DEF argc
  <2>2. <<>> \in Seq(RegionType)
    BY EmptySeq
  <2> QED BY <2>1, <2>2 DEF Locals
<1>2. ASSUME NEW h \in T, NEW k \in 1 .. n
      PROVE  Next1(h, t[k]) \in T
  <2>1. t[k] = k /\ k \in Locals
    BY DEF Locals
  <2>2. reg_regions(h, k) \in Seq(RegionType)
    BY <2>1, RegionsOfType
  <2>3. Cardinality(Touch({"ldl", "stl"}, k)) \in Nat
    <3>1. IsFiniteSet(Ins)
      BY Code, FS_Interval
    <3>2. Touch({"ldl", "stl"}, k) \subseteq Ins
      BY DEF Touch
    <3> QED BY <3>1, <3>2, FS_Subset, FS_CardinalityType
  <2>4. 1 \in 1 .. Len(ic) + 1 /\ Len(ic) + 1 \in 1 .. Len(ic) + 1
    BY Code
  <2>5. Region(k, 1, Len(ic) + 1, Cardinality(Touch({"ldl", "stl"}, k))) \in RegionType
    BY <2>1, <2>3, <2>4, RegionIn
  <2>6. rgn_add(h, Region(k, 1, Len(ic) + 1, Cardinality(Touch({"ldl", "stl"}, k)))) \in Seq(RegionType)
    BY <2>5, RgnAddType
  <2> QED BY <2>1, <2>2, <2>6
<1> HIDE DEF n, T, b, t, Next1
<1>3. IsFoldStep(D, T, 1 .. n) /\ \A h \in T : \A k \in 1 .. n : D[<<h, k>>] = Next1(h, t[k])
  BY <1>2 DEF IsFoldStep
<1> HIDE DEF D
<1>4. PICK f : FoldsLeft(f, T, b, n, D)
  BY <1>1, <1>3, FoldLeftExists
<1> DEFINE Def(fold) == fold = [x \in SUBSET DOMAIN t |->
                            IF x = {} THEN b ELSE Next1(fold[x \ {Greatest(x)}], t[Greatest(x)])]
           fold == CHOOSE fold : Def(fold)
<1>5. Def(f)
  <2>1. ASSUME NEW x \in SUBSET (1 .. n), x # {}
        PROVE  f[x] = Next1(f[x \ {Greatest(x)}], t[Greatest(x)])
    <3>1. n \in Nat /\ x \in SUBSET (1 .. n)
      BY <1>1
    <3>2. /\ Greatest(x) \in 1 .. n /\ f[x \ {Greatest(x)}] \in T
          /\ f[x] = D[<<f[x \ {Greatest(x)}], Greatest(x)>>]
      BY <3>1, <1>4, <2>1, FoldsLeftStep
    <3> QED BY <1>3, <3>2
  <2> QED BY <1>1, <1>4, <2>1 DEF FoldsLeft
<1>6. Def(fold)
  BY <1>5
<1>7. Regions = fold[DOMAIN t]
  BY Zenon DEF b, t, Next1, Regions, FoldLeft, MapThenFoldSet, Greatest, Max
<1> HIDE DEF fold
<1>8. fold[{}] = b /\ \A x \in SUBSET (1 .. n) : x # {} =>
          fold[x] = Next1(fold[x \ {Greatest(x)}], t[Greatest(x)])
  BY <1>1, <1>6
<1>9. fold[1 .. n] \in T
  <2>1. fold[{}] \in T /\ n \in Nat
    BY <1>1, <1>8
  <2>2. \A x \in SUBSET (1 .. n) :
            x # {} /\ Greatest(x) \in 1 .. n /\ fold[x \ {Greatest(x)}] \in T => fold[x] \in T
    <3> SUFFICES ASSUME NEW x \in SUBSET (1 .. n), x # {}, Greatest(x) \in 1 .. n,
                        fold[x \ {Greatest(x)}] \in T
                 PROVE  fold[x] \in T
      OBVIOUS
    <3>1. fold[x] = Next1(fold[x \ {Greatest(x)}], t[Greatest(x)])
      BY <1>8
    <3> QED BY <1>2, <3>1
  <2> QED BY <2>1, <2>2, LeftKeeps
<1> QED BY <1>1, <1>7, <1>9 DEF T

\* Registers are given to them.
LEMMA GlobType ==
    ASSUME src \in Sources, NEW rs \in Seq(RegionType)
    PROVE  reg_glob(rs) \in Seq(RegionType)
<1> DEFINE n == Len(rs)
           T == Seq(RegionType)
           b == rs
           t == [p \in DOMAIN rs |-> CHOOSE k \in DOMAIN rs :
                   Cardinality({j \in DOMAIN rs : rs[j].cnt > rs[k].cnt
                                                  \/ (rs[j].cnt = rs[k].cnt /\ j < k)}) = p - 1]
           Next1(h, r) == LET z    == h[r]
                               free == {g \in GlobRegs : rgn_available(h, z, g)}
                               own  == /\ leaf /\ z.loc <= N_ARGS /\ z.beg = 1
                                       /\ rgn_available(h, z, argregs[z.loc])
                           IN  IF z.loc = 0 THEN h
                               ELSE IF own THEN [h EXCEPT ![r].reg = argregs[z.loc]]
                               ELSE IF free = {} THEN h
                               ELSE [h EXCEPT ![r].reg = Min(free)]
           D == [p \in T \X (1 .. n) |-> Next1(p[1], t[p[2]])]
<1>1. n \in Nat /\ DOMAIN t = 1 .. n /\ b \in T
  BY LenProperties
<1>2. ASSUME NEW h \in T, NEW k \in 1 .. n
      PROVE  Next1(h, t[k]) \in T
  <2> DEFINE r == t[k]
             z == h[r]
             free == {g \in GlobRegs : rgn_available(h, z, g)}
             q(g) == [h EXCEPT ![r].reg = g]
  <2>1. Len(h) \in Nat /\ DOMAIN h = 1 .. Len(h) /\ \A j \in 1 .. Len(h) : h[j] \in RegionType
    BY LenProperties, ElementOfSeq
  <2>2. ASSUME NEW g, r \in DOMAIN h => g \in Regs
        PROVE  q(g) \in Seq(RegionType)
    <3> HIDE DEF r
    <3>1. q(g) \in [1 .. Len(h) -> RegionType]
      <4>1. \A x \in RegionType : g \in Regs => [x EXCEPT !.reg = g] \in RegionType
        BY DEF RegionType
      <4> QED BY <2>1, <2>2, <4>1
    <3> HIDE DEF q
    <3> QED BY <2>1, <3>1, SeqDef
  <2> HIDE DEF r
  <2>3. r \in DOMAIN h => z.loc \in Locals \cup {0}
    BY <2>1 DEF RegionType
  <2>4. r \in DOMAIN h /\ z.loc # 0 /\ z.loc <= N_ARGS => argregs[z.loc] \in Regs
    <3>1. r \in DOMAIN h /\ z.loc # 0 => z.loc \in Nat \ {0}
      BY <2>3, Code
    <3> HIDE DEF z
    <3> QED BY <3>1, Registers
  <2>5. free # {} => Min(free) \in Regs
    <3>1. free \subseteq Regs
      BY GlobRegsIn
    <3>2. free \in SUBSET Nat
      BY <3>1, RegNat
    <3> HIDE DEF free
    <3> QED BY <3>1, <3>2, MinIn
  <2>6. Next1(h, r) \in {h} \cup {q(argregs[z.loc]) : y \in {y \in {0} : z.loc # 0 /\ z.loc <= N_ARGS}}
                       \cup {q(Min(free)) : y \in {y \in {0} : free # {}}}
    <3> HIDE DEF q
    <3> QED BY DEF q
  <2>7. z.loc # 0 /\ z.loc <= N_ARGS => q(argregs[z.loc]) \in Seq(RegionType)
    BY <2>2, <2>4
  <2>8. free # {} => q(Min(free)) \in Seq(RegionType)
    BY <2>2, <2>5
  <2> HIDE DEF q, free, z, Next1
  <2> QED BY <2>6, <2>7, <2>8 DEF r
<1> HIDE DEF n, T, b, t, Next1
<1>3. IsFoldStep(D, T, 1 .. n) /\ \A h \in T : \A k \in 1 .. n : D[<<h, k>>] = Next1(h, t[k])
  BY <1>2 DEF IsFoldStep
<1> HIDE DEF D
<1>4. PICK f : FoldsLeft(f, T, b, n, D)
  BY <1>1, <1>3, FoldLeftExists
<1> DEFINE Def(fold) == fold = [x \in SUBSET DOMAIN t |->
                            IF x = {} THEN b ELSE Next1(fold[x \ {Greatest(x)}], t[Greatest(x)])]
           fold == CHOOSE fold : Def(fold)
<1>5. Def(f)
  <2>1. ASSUME NEW x \in SUBSET (1 .. n), x # {}
        PROVE  f[x] = Next1(f[x \ {Greatest(x)}], t[Greatest(x)])
    <3>1. n \in Nat /\ x \in SUBSET (1 .. n)
      BY <1>1
    <3>2. /\ Greatest(x) \in 1 .. n /\ f[x \ {Greatest(x)}] \in T
          /\ f[x] = D[<<f[x \ {Greatest(x)}], Greatest(x)>>]
      BY <3>1, <1>4, <2>1, FoldsLeftStep
    <3> QED BY <1>3, <3>2
  <2> QED BY <1>1, <1>4, <2>1 DEF FoldsLeft
<1>6. Def(fold)
  BY <1>5
<1>7. reg_glob(rs) = fold[DOMAIN t]
  BY Zenon DEF b, t, Next1, reg_glob, FoldLeft, MapThenFoldSet, Greatest, Max
<1> HIDE DEF fold
<1>8. fold[{}] = b /\ \A x \in SUBSET (1 .. n) : x # {} =>
          fold[x] = Next1(fold[x \ {Greatest(x)}], t[Greatest(x)])
  BY <1>1, <1>6
<1>9. fold[1 .. n] \in T
  <2>1. fold[{}] \in T /\ n \in Nat
    BY <1>1, <1>8
  <2>2. \A x \in SUBSET (1 .. n) :
            x # {} /\ Greatest(x) \in 1 .. n /\ fold[x \ {Greatest(x)}] \in T => fold[x] \in T
    <3> SUFFICES ASSUME NEW x \in SUBSET (1 .. n), x # {}, Greatest(x) \in 1 .. n,
                        fold[x \ {Greatest(x)}] \in T
                 PROVE  fold[x] \in T
      OBVIOUS
    <3>1. fold[x] = Next1(fold[x \ {Greatest(x)}], t[Greatest(x)])
      BY <1>8
    <3> QED BY <1>2, <3>1
  <2> QED BY <2>1, <2>2, LeftKeeps
<1> QED BY <1>1, <1>7, <1>9 DEF T

\* The allocator before any code.
LEMMA AtFirst ==
    ASSUME Given
    PROVE  [NoAlloc EXCEPT !.lmap = [r \in Regs |-> reg_rmap(1, r)],
                           !.regs = {r.reg : r \in Range(rgn)} \ {0}] \in Gens(Between(1))
<1> DEFINE lmap == [r \in Regs |-> reg_rmap(1, r)]
           regs == {r.reg : r \in Range(rgn)} \ {0}
           g == [NoAlloc EXCEPT !.lmap = lmap, !.regs = regs]
<1>1. lmap \in [Regs -> Locals \cup {0}]
  BY RegionMaps
<1>2. \A k \in DOMAIN rgn : rgn[k].reg \in Regs \cup {0}
  <2>1. \A k \in DOMAIN rgn : rgn[k] \in RegionType
    BY ElementOfSeq, LenProperties DEF Given
  <2> QED BY <2>1 DEF RegionType
<1>3. regs \subseteq Regs /\ \A k \in DOMAIN rgn : rgn[k].reg \in regs \cup {0}
  BY <1>2 DEF Range
<1>4. \A r \in Regs : lmap[r] # 0 => r \in regs
  <2> SUFFICES ASSUME NEW r \in Regs, lmap[r] # 0 PROVE r \in regs
    OBVIOUS
  <2>1. \E k \in DOMAIN rgn : rgn[k].reg = r
    BY RegionMaps
  <2>2. r # 0
    BY RegNat
  <2> QED BY <1>3, <2>1, <2>2
<1> HIDE DEF lmap, regs
<1>5. /\ [r \in Regs |-> 0] \in [Regs -> Nat] /\ [k \in 1 .. NTMPS |-> 0] \in [1 .. NTMPS -> Nat]
      /\ [r \in Regs |-> 0] \in [Regs -> Locals \cup {0}]
      /\ <<>> \in Seq(StepType) /\ <<>> \in Seq(Nat) /\ Len(<<>>) = 0 /\ DOMAIN <<>> = {}
  BY EmptySeq
<1>6. /\ NoAlloc \in GenType /\ NoAlloc.i = 1 /\ NoAlloc.lab = <<>> /\ NoAlloc.out = <<>>
      /\ NoAlloc.maxargs = 0
  <2> DEFINE z == [r \in Regs |-> 0]
             y == [k \in 1 .. NTMPS |-> 0]
  <2>1. NoAlloc = [i |-> 1, vmap |-> z, lmap |-> z, live |-> y, regs |-> {}, vmax |-> 0,
                   maxargs |-> 0, mem |-> {}, out |-> <<>>, lab |-> <<>>, died |-> FALSE]
    BY Zenon DEF NoAlloc
  <2>2. z \in [Regs -> Nat] /\ z \in [Regs -> Locals \cup {0}] /\ y \in [1 .. NTMPS -> Nat]
    BY <1>5
  <2> HIDE DEF z, y
  <2> QED BY <1>5, <2>1, <2>2 DEF GenType
<1>7. g \in GenType
  BY <1>1, <1>3, <1>6 DEF GenType
<1>8. /\ g.i = 1 /\ g.lab = <<>> /\ g.out = <<>> /\ g.lmap = lmap /\ g.regs = regs /\ g.maxargs = 0
  BY <1>6 DEF GenType
<1> HIDE DEF g
<1>9. Fits(g, Between(1))
  BY <1>3, <1>4, <1>5, <1>8 DEF Fits, Between, Allowed
<1>10. g \in Gens(Between(1))
  BY <1>5, <1>7, <1>8, <1>9 DEF Gens, Between
<1> QED BY <1>10 DEF g, lmap, regs

\* The registers at the beginning, and the arguments loaded into them.
LEMMA ArgsKeep ==
    ASSUME Given
    PROVE  ArgsLoaded \in Gens(Between(1))
<1> DEFINE n == N_TMPS
           T == Gens(Between(1))
           b == [NoAlloc EXCEPT !.lmap = [r \in Regs |-> reg_rmap(1, r)],
                               !.regs = {r.reg : r \in Range(rgn)} \ {0}]
           t == AllRegs
           Next1(h, r) == LET l == h.lmap[r]
                           IN  IF l \in 1 .. argc /\ (l > N_ARGS \/ r # argregs[l])
                               THEN loc_toreg(h, l, r) ELSE h
           D == [p \in T \X (1 .. n) |-> Next1(p[1], t[p[2]])]
<1>1. n \in Nat /\ DOMAIN t = 1 .. n /\ b \in T
  BY AllRegsFacts, AtFirst
<1>2. ASSUME NEW h \in T, NEW k \in 1 .. n
      PROVE  Next1(h, t[k]) \in T
  <2> DEFINE r == t[k]
             l == h.lmap[r]
  <2>1. r \in Regs
    BY AllRegsFacts
  <2> HIDE DEF r
  <2>2. l \in Locals \cup {0}
    BY <2>1 DEF Gens, GenType
  <2>3. l # 0 => h.died \/ Allowed(h, r)
    BY <2>1 DEF Gens, Fits
  <2>4. l \in 1 .. argc => l # 0
    BY Code DEF Given
  <2> HIDE DEF l
  <2>5. Between(1) \in Phase
    BY DEF Between, Phase
  <2>6. l \in 1 .. argc => loc_toreg(h, l, r) \in T
    BY <2>1, <2>2, <2>3, <2>4, <2>5, ToReg
  <2> QED BY <2>6 DEF r, l
<1> HIDE DEF n, T, b, t, Next1
<1>3. IsFoldStep(D, T, 1 .. n) /\ \A h \in T : \A k \in 1 .. n : D[<<h, k>>] = Next1(h, t[k])
  BY <1>2 DEF IsFoldStep
<1> HIDE DEF D
<1>4. PICK f : FoldsLeft(f, T, b, n, D)
  BY <1>1, <1>3, FoldLeftExists
<1> DEFINE Def(fold) == fold = [x \in SUBSET DOMAIN t |->
                            IF x = {} THEN b ELSE Next1(fold[x \ {Greatest(x)}], t[Greatest(x)])]
           fold == CHOOSE fold : Def(fold)
<1>5. Def(f)
  <2>1. ASSUME NEW x \in SUBSET (1 .. n), x # {}
        PROVE  f[x] = Next1(f[x \ {Greatest(x)}], t[Greatest(x)])
    <3>1. n \in Nat /\ x \in SUBSET (1 .. n)
      BY <1>1
    <3>2. /\ Greatest(x) \in 1 .. n /\ f[x \ {Greatest(x)}] \in T
          /\ f[x] = D[<<f[x \ {Greatest(x)}], Greatest(x)>>]
      BY <3>1, <1>4, <2>1, FoldsLeftStep
    <3> QED BY <1>3, <3>2
  <2> QED BY <1>1, <1>4, <2>1 DEF FoldsLeft
<1>6. Def(fold)
  BY <1>5
<1>7. ArgsLoaded = fold[DOMAIN t]
  BY Zenon DEF b, t, Next1, ArgsLoaded, FoldLeft, MapThenFoldSet, Greatest, Max
<1> HIDE DEF fold
<1>8. fold[{}] = b /\ \A x \in SUBSET (1 .. n) : x # {} =>
          fold[x] = Next1(fold[x \ {Greatest(x)}], t[Greatest(x)])
  BY <1>1, <1>6
<1>9. fold[1 .. n] \in T
  <2>1. fold[{}] \in T /\ n \in Nat
    BY <1>1, <1>8
  <2>2. \A x \in SUBSET (1 .. n) :
            x # {} /\ Greatest(x) \in 1 .. n /\ fold[x \ {Greatest(x)}] \in T => fold[x] \in T
    <3> SUFFICES ASSUME NEW x \in SUBSET (1 .. n), x # {}, Greatest(x) \in 1 .. n,
                        fold[x \ {Greatest(x)}] \in T
                 PROVE  fold[x] \in T
      OBVIOUS
    <3>1. fold[x] = Next1(fold[x \ {Greatest(x)}], t[Greatest(x)])
      BY <1>8
    <3> QED BY <1>2, <3>1
  <2> QED BY <2>1, <2>2, LeftKeeps
<1> QED BY <1>1, <1>7, <1>9 DEF T

-----------------------------------------------------------------------------
(* Nothing of this changes while the code is made and run.                 *)

\* Offsets depend on the function only.
Off(s, l) == IF l <= s.argc THEN 1 + l ELSE -FoldLeft(+, 0, SubSeq(s.locs, 1, l - s.argc))

\* loc_off is that offset.
LEMMA OffsetsOf ==
    \A l : loc_off(l) = Off(src, l)
BY Zenon DEF loc_off, Off, argc

\* The code and the frame are those of the function.
LEMMA SameFrame ==
    ASSUME src' = src
    PROVE  /\ ic' = ic /\ Ins' = Ins /\ argc' = argc /\ Locals' = Locals
           /\ \A l : Slot(l)' = Slot(l)
           /\ \A l : iv_addr(l)' = iv_addr(l)
           /\ \A i : Changed(i)' = Changed(i)
<1>1. ic' = ic /\ Ins' = Ins /\ argc' = argc
  BY DEF ic, Ins, argc
<1>2. Locals' = Locals
  BY <1>1 DEF Locals
<1>3. loc_pos' = loc_pos
  BY Zenon DEF loc_pos, FoldLeft, MapThenFoldSet
<1>4. \A l : loc_off(l)' = loc_off(l)
  <2>1. (\A l : loc_off(l) = Off(src, l))'
    BY OffsetsOf, PTL
  <2>2. \A l : loc_off(l)' = Off(src', l)
    BY <2>1
  <2> QED BY <2>2, OffsetsOf
<1>5. \A l : Slot(l)' = Slot(l)
  BY <1>4 DEF Slot
<1>6. \A l : iv_addr(l)' = iv_addr(l)
  BY <1>3 DEF iv_addr
<1>7. \A i : Changed(i)' = Changed(i)
  BY <1>1 DEF Changed
<1> QED BY <1>1, <1>2, <1>5, <1>6, <1>7

\* So the states of the allocator at a phase are the same.
LEMMA SameGens ==
    ASSUME src' = src, rgn' = rgn
    PROVE  /\ \A c : Gens(c)' = Gens(c)
           /\ \A i : Between(i)' = Between(i)
           /\ RegionType' = RegionType
           /\ \A g : Ended(g)' = Ended(g)
<1>1. /\ ic' = ic /\ Ins' = Ins /\ Locals' = Locals
      /\ \A l : Slot(l)' = Slot(l)
      /\ \A l : iv_addr(l)' = iv_addr(l)
      /\ \A i : Changed(i)' = Changed(i)
  BY SameFrame
<1>2. \A g : Target(g)' = Target(g)
  BY <1>1 DEF Target
<1>3. \A g, s : StepFits(g, s)' = StepFits(g, s)
  BY <1>1, <1>2 DEF StepFits
<1>4. \A g, c : Fits(g, c)' = Fits(g, c)
  BY <1>3 DEF Fits
<1>5. GenType' = GenType
  BY <1>1 DEF GenType
<1>6. \A c : Gens(c)' = Gens(c)
  BY <1>4, <1>5 DEF Gens
<1>7. RegionType' = RegionType
  BY <1>1 DEF RegionType
<1>8. \A g : Ended(g)' = Ended(g)
  BY <1>1 DEF Ended
<1>9. \A i : Between(i)' = Between(i)
  BY DEF Between
<1> QED BY <1>6, <1>7, <1>8, <1>9

\* The homes are those of the code made.
LEMMA SameHomes ==
    ASSUME src' = src, ra' = ra
    PROVE  /\ \A r : Home(r)' = Home(r)
           /\ \A p : Resolve(p)' = Resolve(p)
           /\ sregs' = sregs /\ initfp' = initfp /\ LoadSlots' = LoadSlots /\ SP' = SP
<1>1. leaf' = leaf
  <2>1. ic' = ic /\ Ins' = Ins
    BY SameFrame
  <2> QED BY <2>1 DEF leaf
<1>2. loc_pos' = loc_pos
  BY Zenon DEF loc_pos, FoldLeft, MapThenFoldSet
<1>3. sregs' = sregs
  BY DEF sregs
<1>4. locals_size' = locals_size
  BY <1>2 DEF locals_size
<1>5. sregs_pos' = sregs_pos
  BY <1>3, <1>4 DEF sregs_pos
<1>6. spsub' = spsub
  BY <1>5 DEF spsub
<1>7. initfp' = initfp
  BY <1>1, <1>6 DEF initfp
<1>8. szloc' = szloc
  BY <1>3, <1>5, <1>6 DEF szloc
<1>9. szarg' = szarg
  BY <1>3, <1>5, <1>6 DEF szarg
<1>10. SP' = SP
  BY <1>3, <1>8, <1>9 DEF SP
<1>11. SaveSlots' = SaveSlots
  BY <1>3, <1>8 DEF SaveSlots
<1>12. LoadSlots' = LoadSlots
  BY <1>3, <1>9, <1>10 DEF LoadSlots
<1>13. \A r : Home(r)' = Home(r)
  BY <1>3, <1>7, <1>11 DEF Home
<1>14. \A p : Resolve(p)' = Resolve(p)
  BY <1>10 DEF Resolve
<1> QED BY <1>3, <1>7, <1>10, <1>12, <1>13, <1>14

-----------------------------------------------------------------------------
(* The invariant.                                                          *)

\* While code is made, the allocator is before an instruction, or at the end of
\* the code.
Generating ==
    /\ ra.i \in 1 .. Len(ic) + 1 /\ ra \in Gens(Between(ra.i))
    /\ ra.i = Len(ic) + 1 /\ ~ra.died => Ended(ra)
\* While it runs, what the caller had in its registers is at home.
AtHome == \A r \in Kept : /\ Home(r) \in DOMAIN has /\ R(r) \in DOMAIN has
                          /\ Old(r) \in has[Home(r)]
\* The code is whole.
Made == ra \in Gens(Between(Len(ic) + 1)) /\ ~ra.died /\ Ended(ra)

\* The inductive invariant: each phase keeps what the next one needs.
IInv ==
    /\ pc \notin {"idle", "done", "undefined"} => src \in Sources
    /\ pc \in {"arg", "gen", "run"} => rgn \in Seq(RegionType)
    /\ pc = "gen" => Generating
    /\ pc = "run" => Made /\ AtHome /\ at \in DOMAIN ra.out
    /\ CallerKept

\* The context in which code is made or run does not change.
LEMMA Steady ==
    ASSUME IInv, src' = src, rgn' = rgn, ra' = ra, pc' = "run", pc = "run",
           at' \in DOMAIN ra.out,
           \A r \in Kept : /\ Home(r) \in DOMAIN has' /\ R(r) \in DOMAIN has'
                           /\ Old(r) \in has'[Home(r)]
    PROVE  IInv'
<1>1. Gens(Between(Len(ic) + 1))' = Gens(Between(Len(ic) + 1)) /\ RegionType' = RegionType
      /\ \A g : Ended(g)' = Ended(g)
  <2>1. ic' = ic
    BY SameFrame
  <2>2. \A c : Gens(c)' = Gens(c)
    BY SameGens
  <2>3. \A i : Between(i)' = Between(i)
    BY SameGens
  <2>4. Between(Len(ic) + 1)' = Between(Len(ic) + 1)
    BY <2>1, <2>3
  <2> QED BY <2>2, <2>4, SameGens
<1>2. AtHome'
  <2>1. \A r : Home(r)' = Home(r)
    BY SameHomes
  <2> QED BY <2>1 DEF AtHome
<1>3. Made'
  BY <1>1 DEF Made, IInv
<1>4. (src \in Sources /\ rgn \in Seq(RegionType))'
  BY <1>1 DEF IInv
<1>5. CallerKept'
  BY DEF CallerKept
<1> QED BY <1>2, <1>3, <1>4, <1>5 DEF IInv

\* What is known of the step to run.
LEMMA AtStep ==
    ASSUME IInv, pc = "run"
    PROVE  /\ Given /\ FrameType /\ ra \in GenType /\ AtHome /\ at \in DOMAIN ra.out
           /\ StepFits(ra, step) /\ step \in StepType
           /\ step.k # "do" \/ ic[step.i].op # "ret" => at + 1 \in DOMAIN ra.out
           /\ \A i \in Ins : ra.lab[i] \in DOMAIN ra.out
<1>1. /\ src \in Sources /\ rgn \in Seq(RegionType) /\ Made /\ AtHome /\ at \in DOMAIN ra.out
  BY DEF IInv
<1>2. /\ ra \in GenType /\ Fits(ra, Between(Len(ic) + 1)) /\ Len(ra.lab) = Len(ic) /\ Ended(ra)
      /\ Len(ic) \in Nat /\ Ins = 1 .. Len(ic) /\ ic[Len(ic)].op = "ret"
  <2>1. Len(ic) \in Nat /\ Ins = 1 .. Len(ic) /\ ic[Len(ic)].op = "ret"
    BY <1>1, Code
  <2>2. ra \in Gens(Between(Len(ic) + 1)) /\ ~ra.died /\ Ended(ra)
    BY <1>1 DEF Made
  <2> QED BY <2>1, <2>2 DEF Gens, Between
<1>3. /\ ra.out \in Seq(StepType) /\ ra.lab \in Seq(Nat)
      /\ ra.regs \subseteq Regs /\ ra.mem \subseteq Nat /\ ra.vmax \in Nat /\ ra.maxargs \in Nat
  BY <1>2 DEF GenType
<1>4. /\ Len(ra.out) \in Nat /\ DOMAIN ra.out = 1 .. Len(ra.out) /\ step \in StepType
      /\ DOMAIN ra.lab = Ins
  BY <1>1, <1>2, <1>3, LenProperties, ElementOfSeq DEF step
<1>5. StepFits(ra, step)
  BY <1>1, <1>2 DEF Fits, step
<1>6. ASSUME step.k # "do" \/ ic[step.i].op # "ret"
      PROVE  at + 1 \in DOMAIN ra.out
  <2>1. at # Len(ra.out)
    BY <1>2, <1>6 DEF Ended, step
  <2> QED BY <1>1, <1>4, <2>1
<1>7. \A i \in Ins : ra.lab[i] \in DOMAIN ra.out
  <2>1. \A k \in DOMAIN ra.lab : ra.lab[k] \in 1 .. Len(ra.out) + 0
    BY <1>2 DEF Fits, Between
  <2> QED BY <1>4, <2>1
<1> QED BY <1>1, <1>2, <1>3, <1>4, <1>5, <1>6, <1>7 DEF Given, FrameType

\* The registers an instruction may write are not the homes of what the caller
\* had, nor of what it had in others.
LEMMA RegisterApart ==
    ASSUME IInv, pc = "run", NEW q \in Regs, Allowed(ra, q), NEW r \in Kept
    PROVE  Home(r) # R(q)
<1>1. src \in Sources /\ FrameType
  BY AtStep DEF Given
<1>2. R(q) \in Target(ra)
  BY DEF Target
<1>3. Resolve(R(q)) = R(q)
  BY DEF Resolve, R
<1> QED BY <1>1, <1>2, <1>3, HomesApart

\* Names differ.
LEMMA Names ==
    /\ \A r, i : Old(r) # Val(i)
    /\ \A r, l : Old(r) # Loc(l)
    /\ \A r, q : R(r) = R(q) => r = q
    /\ \A r, q : Old(r) = Old(q) => r = q
BY DEF Old, Val, Loc, R

\* A copy keeps the values of the caller at home: its target is none of them.
LEMMA MoveStep ==
    ASSUME IInv, Move
    PROVE  IInv'
<1>1. /\ pc = "run" /\ step.k \in {"copy", "part"} /\ at' = at + 1
      /\ UNCHANGED <<pc, src, rgn, ra>>
  BY DEF Move, Running, step
<1>2. PICK names : has' = [has EXCEPT ![Resolve(step.to)] = names]
  BY DEF Move, MoveTo
<1>3. /\ Given /\ FrameType /\ AtHome /\ StepFits(ra, step) /\ at + 1 \in DOMAIN ra.out
  BY <1>1, AtStep
<1>4. step.to \in Target(ra)
  BY <1>1, <1>3 DEF StepFits
<1>5. \A r \in Kept : Resolve(step.to) # Home(r)
  BY <1>3, <1>4, HomesApart DEF Given
<1>6. \A r \in Kept : /\ Home(r) \in DOMAIN has' /\ R(r) \in DOMAIN has'
                      /\ Old(r) \in has'[Home(r)]
  BY <1>2, <1>3, <1>5 DEF AtHome
<1> QED BY <1>1, <1>3, <1>6, Steady

\* What an instruction does to what the places hold leaves homes alone.
Spares(h) == /\ DOMAIN h = DOMAIN has
             /\ \A r \in Kept : Old(r) \in h[Home(r)]

\* Naming what places hold, and losing what they held, spares the homes,
LEMMA RenewSpares ==
    ASSUME AtHome, NEW h, Spares(h), NEW name, \A r : Old(r) # name, NEW ps
    PROVE  Spares(Renew(h, name, ps))
<1>1. \A r \in Kept : Home(r) \in DOMAIN h
  BY DEF AtHome, Spares
<1> QED BY <1>1 DEF Renew, Spares

\* as losing what places hold does when no home is among them.
LEMMA ClobberSpares ==
    ASSUME AtHome, NEW h, Spares(h), NEW ps, \A r \in Kept : Home(r) \notin ps
    PROVE  Spares(Clobber(h, ps))
<1>1. \A r \in Kept : Home(r) \in DOMAIN h
  BY DEF AtHome, Spares
<1> QED BY <1>1 DEF Clobber, Spares

\* What a store to locals writes are slots, never a home.
LEMMA WrittenSpares ==
    ASSUME AtHome, NEW h, Spares(h), NEW ls
    PROVE  Spares(Written(h, ls))
<1>1. \A r \in Kept : Home(r) \in DOMAIN h
  BY DEF AtHome, Spares
<1>2. \A r : Old(r) \notin {Loc(l) : l \in ls}
  BY Names
<1> QED BY <1>1, <1>2 DEF Written, Spares

\* What an instruction leaves in its register is written to no home.
LEMMA ResultSpares ==
    ASSUME IInv, pc = "run", step.k = "do", ic[step.i].op \in Outs, NEW h, Spares(h)
    PROVE  Spares(Result(h))
<1>1. AtHome /\ Allowed(ra, step.rd) /\ step.rd \in Regs
  BY AtStep DEF StepFits, Allowed
<1>2. \A r \in Kept : Home(r) \notin {R(step.rd)}
  BY <1>1, RegisterApart
<1>3. Spares(Clobber(h, {R(step.rd)}))
  BY <1>1, <1>2, ClobberSpares
<1>4. \A r : Old(r) # Val(step.i)
  BY Names
<1> QED BY <1>1, <1>3, <1>4, RenewSpares DEF Result

\* A step after which homes are spared.
LEMMA SparedStep ==
    ASSUME IInv, pc = "run", pc' = "run", UNCHANGED <<src, rgn, ra>>, at' \in DOMAIN ra.out,
           Spares(has')
    PROVE  IInv'
<1>1. AtHome
  BY AtStep
<1>2. \A r \in Kept : /\ Home(r) \in DOMAIN has' /\ R(r) \in DOMAIN has'
                      /\ Old(r) \in has'[Home(r)]
  BY <1>1 DEF AtHome, Spares
<1> QED BY <1>2, Steady

\* An instruction that computes writes its register alone.
LEMMA ComputeStep ==
    ASSUME IInv, Compute
    PROVE  IInv'
<1>1. /\ pc = "run" /\ step.k = "do" /\ ic[step.i].op \in {"num", "un", "bop", "ld", "addr"}
      /\ at' = at + 1 /\ has' = Result(has) /\ UNCHANGED <<pc, src, rgn, ra>>
  BY DEF Compute, Doing, Running, step
<1>2. ic[step.i].op \in Outs /\ ic[step.i].op # "ret"
  BY <1>1 DEF Outs
<1>3. AtHome /\ at + 1 \in DOMAIN ra.out
  BY <1>1, <1>2, AtStep
<1>4. Spares(has')
  BY <1>1, <1>2, <1>3, ResultSpares DEF AtHome, Spares
<1> QED BY <1>1, <1>3, <1>4, SparedStep

\* A load of a local writes its register alone.
LEMMA LoadLocalStep ==
    ASSUME IInv, LoadLocal
    PROVE  IInv'
<1>1. /\ pc = "run" /\ step.k = "do" /\ ic[step.i].op = "ldl"
      /\ at' = at + 1 /\ pc' \in {"run", "undefined"} /\ UNCHANGED <<src, rgn, ra>>
      /\ has' \in {Renew(has, Val(step.i), Holding(Loc(ic[step.i].l))), Result(has)}
  BY DEF LoadLocal, Doing, Running, step
<1>2. ic[step.i].op \in Outs /\ ic[step.i].op # "ret"
  BY <1>1 DEF Outs
<1>3. AtHome /\ at + 1 \in DOMAIN ra.out
  BY <1>1, <1>2, AtStep
<1>4. Spares(has)
  BY <1>3 DEF AtHome, Spares
<1>5. Spares(has')
  <2>1. \A r : Old(r) # Val(step.i)
    BY Names
  <2> QED BY <1>1, <1>2, <1>3, <1>4, <2>1, ResultSpares, RenewSpares
<1>6. CASE pc' = "run"
  BY <1>1, <1>3, <1>5, <1>6, SparedStep
<1>7. CASE pc' = "undefined"
  BY <1>7 DEF IInv, CallerKept
<1> QED BY <1>1, <1>6, <1>7

\* A store to a local writes the slot or the register of the local.
LEMMA StoreLocalStep ==
    ASSUME IInv, StoreLocal
    PROVE  IInv'
<1>1. PICK ps : /\ pc = "run" /\ step.k = "do" /\ ic[step.i].op = "stl"
                /\ at' = at + 1 /\ UNCHANGED <<pc, src, rgn, ra>>
                /\ has' = Renew(has, Loc(ic[step.i].l), ps)
  BY DEF StoreLocal, Doing, Running, step
<1>2. AtHome /\ at + 1 \in DOMAIN ra.out
  BY <1>1, AtStep
<1>3. Spares(has)
  BY <1>2 DEF AtHome, Spares
<1>4. \A r : Old(r) # Loc(ic[step.i].l)
  BY Names
<1>5. Spares(has')
  BY <1>1, <1>2, <1>3, <1>4, RenewSpares
<1> QED BY <1>1, <1>2, <1>5, SparedStep

\* A store through a pointer writes slots of locals.
LEMMA StorePointerStep ==
    ASSUME IInv, StorePointer
    PROVE  IInv'
<1>1. PICK ls : /\ pc = "run" /\ step.k = "do" /\ ic[step.i].op \in {"st", "mset", "mcpy"}
                /\ at' = at + 1 /\ UNCHANGED <<pc, src, rgn, ra>>
                /\ has' = Written(Clobber(has, {R(r) : r \in Changed(step.i)}), ls)
  BY DEF StorePointer, Doing, Running, step
<1>2. /\ Given /\ AtHome /\ at + 1 \in DOMAIN ra.out
      /\ Changed(step.i) \cap PERM \subseteq ra.regs
  <2>1. ic[step.i].op # "ret"
    BY <1>1
  <2> QED BY <1>1, <2>1, AtStep DEF StepFits
<1>3. Changed(step.i) \subseteq Regs
  BY Registers DEF Changed
<1>4. \A r \in Kept : Home(r) \notin {R(q) : q \in Changed(step.i)}
  <2>1. \A q \in Changed(step.i) : q \in Regs /\ Allowed(ra, q)
    BY <1>2, <1>3 DEF Allowed
  <2> QED BY <1>1, <2>1, RegisterApart
<1>5. Spares(has)
  BY <1>2 DEF AtHome, Spares
<1>6. Spares(Clobber(has, {R(r) : r \in Changed(step.i)}))
  BY <1>2, <1>4, <1>5, ClobberSpares
<1>7. Spares(has')
  BY <1>1, <1>2, <1>6, WrittenSpares
<1> QED BY <1>1, <1>2, <1>7, SparedStep

\* A call writes the registers a callee may use, its result and the slots
\* whose address it was given.
LEMMA CallStep ==
    ASSUME IInv, Call
    PROVE  IInv'
<1> DEFINE x == Max({0, Len(ic[step.i].args) - N_ARGS})
           own == {R(r) : r \in (Regs \ PERM) \cup {LR}}
                  \cup {p \in DOMAIN has : p[1] = "fp" /\ p[2] < SP + x}
<1>1. PICK ls : /\ pc = "run" /\ step.k = "do" /\ ic[step.i].op \in Calls
                /\ at' = at + 1 /\ UNCHANGED <<pc, src, rgn, ra>>
                /\ has' = Written(Result(Clobber(has, own)), ls)
  BY DEF Call, Doing, Running, step
<1>2. ic[step.i].op \in Outs /\ ic[step.i].op # "ret"
  BY <1>1 DEF Outs, Calls
<1>3. /\ Given /\ FrameType /\ AtHome /\ at + 1 \in DOMAIN ra.out /\ step.i \in Ins
      /\ Len(ic[step.i].args) - N_ARGS <= ra.maxargs
  BY <1>1, <1>2, AtStep DEF StepFits
<1>4. x \in Nat /\ x <= ra.maxargs
  <2> DEFINE y == Len(ic[step.i].args) - N_ARGS
  <2>1. y \in Int
    BY <1>3, Code, Registers, LenProperties DEF Given
  <2>2. y <= ra.maxargs /\ ra.maxargs \in Nat /\ x = Max({0, y})
    BY <1>3 DEF FrameType
  <2> HIDE DEF y, x
  <2>3. Max({0, y}) \in {0, y} /\ 0 <= Max({0, y})
    BY <2>1, MaxOfTwo
  <2> QED BY <2>1, <2>2, <2>3
<1>5. initfp /\ Home(LR) = Linkage(LR)
  <2>1. ~leaf
    BY <1>1, <1>3 DEF leaf
  <2>2. LR \notin sregs
    BY <1>3, RegAllocAssumption DEF sregs, FrameType
  <2> QED BY <2>1, <2>2 DEF initfp, Home
<1> HIDE DEF x
<1>6. ASSUME NEW r \in Kept
      PROVE  Home(r) \notin own
  <2>1. ~ (Home(r)[1] = "fp" /\ Home(r)[2] < SP + x)
    BY <1>3, <1>4, HomesBelow DEF Given
  <2>2. ASSUME NEW q \in (Regs \ PERM) \cup {LR}, Home(r) = R(q)
        PROVE  FALSE
    <3>1. CASE q \in Regs \ PERM
      <4>1. Allowed(ra, q)
        BY <3>1 DEF Allowed
      <4> QED BY <1>1, <2>2, <3>1, <4>1, RegisterApart
    <3>2. CASE q = LR
      <4>1. Home(r) = R(r) /\ r = LR
        BY <1>3, <2>2, <3>2, Homes DEF Given, Linkage, Fp, R
      <4> QED BY <1>5, <4>1 DEF Linkage, Fp, R
    <3> QED BY <2>2, <3>1, <3>2
  <2> QED BY <2>1, <2>2
<1>7. Spares(has)
  BY <1>3 DEF AtHome, Spares
<1> HIDE DEF own
<1>8. Spares(Clobber(has, own))
  BY <1>3, <1>6, <1>7, ClobberSpares
<1>9. Spares(Result(Clobber(has, own)))
  BY <1>1, <1>2, <1>8, ResultSpares
<1>10. Spares(has')
  BY <1>1, <1>3, <1>9, WrittenSpares
<1> QED BY <1>1, <1>3, <1>10, SparedStep

\* A jump goes to code there is and writes nothing.
LEMMA JumpStep ==
    ASSUME IInv, Jump
    PROVE  IInv'
<1>1. /\ pc = "run" /\ step.k = "do" /\ ic[step.i].op \in JXX
      /\ at' \in {ra.lab[ic[step.i].t], at + 1} /\ UNCHANGED <<pc, src, rgn, ra, has>>
  BY DEF Jump, Doing, Running, step
<1>2. ic[step.i].op # "ret"
  BY <1>1 DEF JXX
<1>3. /\ Given /\ AtHome /\ at + 1 \in DOMAIN ra.out /\ step.i \in Ins
      /\ \A i \in Ins : ra.lab[i] \in DOMAIN ra.out
  BY <1>1, <1>2, AtStep DEF StepFits
<1>4. ic[step.i].t \in Ins
  BY <1>1, <1>3, Code DEF Given
<1>5. at' \in DOMAIN ra.out
  BY <1>1, <1>3, <1>4
<1>6. Spares(has')
  BY <1>1, <1>3 DEF AtHome, Spares
<1> QED BY <1>1, <1>5, <1>6, SparedStep

\* At the return every register the caller keeps is at home in itself.
LEMMA ReturnStep ==
    ASSUME IInv, Return
    PROVE  IInv'
<1>1. /\ pc = "run" /\ pc' = "done"
      /\ has' = [p \in DOMAIN has |->
                  IF \E r \in sregs : p = R(r)
                  THEN has[Fp(LoadSlots[CHOOSE r \in sregs : p = R(r)])]
                  ELSE IF initfp /\ p = R(LR) THEN has[Linkage(LR)]
                  ELSE IF initfp /\ p = R(FP) THEN has[Linkage(FP)] ELSE has[p]]
  BY DEF Return, Doing, Running
<1>2. Given /\ FrameType /\ AtHome
  BY <1>1, AtStep
<1>3. ASSUME NEW r \in Kept
      PROVE  Old(r) \in has'[R(r)]
  <2>1. R(r) \in DOMAIN has /\ Old(r) \in has[Home(r)]
    BY <1>2 DEF AtHome
  <2>2. \A q : R(r) = R(q) => r = q
    BY Names
  <2>3. CASE r \in sregs
    <3>1. (CHOOSE q \in sregs : R(r) = R(q)) = r
      BY <2>2, <2>3
    <3>2. has'[R(r)] = has[Fp(LoadSlots[r])]
      BY <1>1, <2>1, <2>3, <3>1
    <3>3. Home(r) = Fp(SaveSlots[r]) /\ SaveSlots[r] = LoadSlots[r]
      BY <1>2, <2>3, SavedRegisters DEF Home, Given
    <3> QED BY <2>1, <3>2, <3>3
  <2>4. CASE r \notin sregs /\ initfp /\ r \in {FP, LR}
    <3>1. ~ \E q \in sregs : R(r) = R(q)
      BY <2>2, <2>4
    <3>2. has'[R(r)] = has[Linkage(r)]
      <4>1. FP # LR
        BY RegAllocAssumption
      <4> QED BY <1>1, <2>1, <2>2, <2>4, <3>1, <4>1
    <3>3. Home(r) = Linkage(r)
      BY <2>4 DEF Home
    <3> QED BY <2>1, <3>2, <3>3
  <2>5. CASE r \notin sregs /\ ~ (initfp /\ r \in {FP, LR})
    <3>1. ~ \E q \in sregs : R(r) = R(q)
      BY <2>2, <2>5
    <3>2. has'[R(r)] = has[R(r)]
      BY <1>1, <2>1, <2>2, <2>5, <3>1
    <3>3. Home(r) = R(r)
      BY <2>5 DEF Home
    <3> QED BY <2>1, <3>2, <3>3
  <2> QED BY <2>3, <2>4, <2>5
<1> QED BY <1>1, <1>3 DEF IInv, CallerKept

\* Behind the prologue they are at home.
LEMMA BeginStep ==
    ASSUME IInv, Begin
    PROVE  IInv'
<1>1. /\ pc = "gen" /\ ~ra.died /\ ra.i > Len(ic) /\ pc' = "run" /\ at' = 1 /\ has' = Entry
      /\ UNCHANGED <<src, rgn, ra>>
  BY DEF Begin
<1>2. Given /\ Generating
  BY <1>1 DEF IInv, Given
<1>3. ra.i = Len(ic) + 1 /\ Ended(ra) /\ ra \in Gens(Between(Len(ic) + 1))
  <2>1. Len(ic) \in Nat
    BY <1>2, Code DEF Given
  <2>2. ra.i = Len(ic) + 1
    BY <1>1, <1>2, <2>1 DEF Generating
  <2> QED BY <1>1, <1>2, <2>2 DEF Generating
<1>4. ra \in GenType
  BY <1>3 DEF Gens
<1>5. FrameType
  BY <1>4 DEF GenType, FrameType
<1>6. Made /\ 1 \in DOMAIN ra.out
  <2>1. ra.out \in Seq(StepType) /\ ra.out # <<>>
    BY <1>3, <1>4 DEF GenType, Ended
  <2>2. 1 \in DOMAIN ra.out
    BY <2>1, LenProperties, EmptySeq
  <2> QED BY <1>1, <1>3, <2>2 DEF Made
<1>7. ASSUME NEW r \in Kept
      PROVE  Home(r) \in Places /\ R(r) \in Places /\ Old(r) \in Entry[Home(r)]
  <2>1. R(r) \in Places
    BY Registers DEF Places, Kept
  <2>2. Fp(0) \in Places /\ Fp(1) \in Places
    BY DEF Places
  <2>3. r \in sregs => Fp(SaveSlots[r]) \in Places
    BY DEF Places
  <2>4. ASSUME NEW p \in Places,
               \/ p = R(r) /\ ~ (r = FP /\ initfp)
               \/ initfp /\ r \in {FP, LR} /\ p = Linkage(r)
               \/ r \in sregs /\ p = Fp(SaveSlots[r])
        PROVE  Old(r) \in Entry[p]
    <3> DEFINE E == Entry[p]
    <3>1. CASE p = R(r) /\ ~ (r = FP /\ initfp)
      <4>1. Old(r) \in {Old(q) : q \in {q \in Kept : p = R(q) /\ ~(q = FP /\ initfp)}}
        BY <3>1
      <4> QED BY <4>1 DEF Entry
    <3>2. CASE initfp /\ r \in {FP, LR} /\ p = Linkage(r)
      <4>1. Old(r) \in {Old(q) : q \in {q \in {FP, LR} : initfp /\ p = Linkage(q)}}
        BY <3>2
      <4> QED BY <4>1 DEF Entry
    <3>3. CASE r \in sregs /\ p = Fp(SaveSlots[r])
      <4>1. Old(r) \in {Old(q) : q \in {q \in sregs : p = Fp(SaveSlots[q])}}
        BY <3>3
      <4> QED BY <4>1 DEF Entry
    <3> QED BY <2>4, <3>1, <3>2, <3>3
  <2>5. \/ r \in sregs /\ Home(r) = Fp(SaveSlots[r])
        \/ r \in {FP, LR} /\ initfp /\ Home(r) = Linkage(r)
        \/ ~ (r = FP /\ initfp) /\ Home(r) = R(r)
    <3>1. r \in PERM => r # FP
      BY RegAllocAssumption
    <3> QED BY <1>2, <1>5, <3>1, Homes DEF Given
  <2>6. Home(r) \in Places
    BY <2>1, <2>2, <2>3, <2>5 DEF Linkage
  <2> QED BY <2>1, <2>4, <2>5, <2>6
<1>8. DOMAIN Entry = Places
  BY DEF Entry
<1>9. AtHome'
  <2>1. \A r : Home(r)' = Home(r)
    BY <1>1, SameHomes
  <2>2. \A r \in Kept : Home(r) \in DOMAIN has' /\ R(r) \in DOMAIN has' /\ Old(r) \in has'[Home(r)]
    BY <1>1, <1>7, <1>8
  <2> QED BY <2>1, <2>2 DEF AtHome
<1>10. Made' /\ (src \in Sources)' /\ (rgn \in Seq(RegionType))' /\ (at \in DOMAIN ra.out)'
  <2>1. ic' = ic
    BY <1>1, SameFrame
  <2>2. /\ Gens(Between(Len(ic) + 1))' = Gens(Between(Len(ic) + 1))
        /\ RegionType' = RegionType /\ \A g : Ended(g)' = Ended(g)
    <3>1. (\A c : Gens(c)' = Gens(c)) /\ (\A i : Between(i)' = Between(i))
      BY <1>1, SameGens
    <3>2. Between(Len(ic) + 1)' = Between(Len(ic) + 1)
      BY <2>1, <3>1
    <3> QED BY <1>1, <3>1, <3>2, SameGens
  <2> QED BY <1>1, <1>2, <1>6, <2>2 DEF Made, Given
<1> QED BY <1>1, <1>9, <1>10 DEF IInv, CallerKept

\* Choosing registers for the locals leaves the registers of the regions sound.
LEMMA RegInitStep ==
    ASSUME IInv, RegInit
    PROVE  IInv'
<1>1. pc = "reg" /\ pc' = "arg" /\ src' = src /\ rgn' = reg_glob(Regions)
  BY DEF RegInit
<1>2. src \in Sources
  BY <1>1 DEF IInv
<1>3. reg_glob(Regions) \in Seq(RegionType)
  BY <1>2, RegionsType, GlobType
<1>4. RegionType' = RegionType
  <2>1. Locals' = Locals /\ ic' = ic
    BY <1>1, SameFrame
  <2> QED BY <2>1 DEF RegionType
<1> QED BY <1>1, <1>2, <1>3, <1>4 DEF IInv, CallerKept

\* A step of the generator keeps the invariant when it keeps the state of the
\* allocator and stays within the code.
LEMMA GeneratingNext ==
    ASSUME Given, UNCHANGED <<src, rgn>>, pc' = "gen", ra'.i \in 1 .. Len(ic) + 1,
           ra' \in Gens(Between(ra'.i)), ra'.i = Len(ic) + 1 => ra'.died \/ Ended(ra')
    PROVE  IInv'
<1>1. ic' = ic
  BY SameFrame
<1>2. /\ Gens(Between(ra.i))' = Gens(Between(ra'.i)) /\ RegionType' = RegionType
      /\ (Ended(ra))' = Ended(ra')
  <2>1. (\A c : Gens(c)' = Gens(c)) /\ (\A i : Between(i)' = Between(i)) /\ RegionType' = RegionType
    BY SameGens
  <2>2. Between(ra.i)' = Between(ra'.i)
    BY <1>1 DEF Between
  <2>3. (Ended(ra))' = Ended(ra')
    BY <1>1 DEF Ended
  <2> QED BY <2>1, <2>2, <2>3
<1>3. Generating'
  BY <1>1, <1>2 DEF Generating
<1> QED BY <1>2, <1>3 DEF IInv, CallerKept, Given

\* Taking the arguments from their registers is such a step,
LEMMA LoadArgsStep ==
    ASSUME IInv, LoadArgs
    PROVE  IInv'
<1>1. pc = "arg" /\ pc' = "gen" /\ ra' = ArgsLoaded /\ UNCHANGED <<src, rgn>>
  BY DEF LoadArgs
<1>2. Given
  BY <1>1 DEF IInv, Given
<1>3. ra' \in Gens(Between(1))
  BY <1>1, <1>2, ArgsKeep
<1>4. ra'.i = 1
  BY <1>3 DEF Gens, Between
<1>5. 1 \in 1 .. Len(ic) + 1 /\ 1 # Len(ic) + 1
  BY <1>2, Code DEF Given
<1> QED BY <1>1, <1>2, <1>3, <1>4, <1>5, GeneratingNext

\* and so is generating the code of an instruction.
LEMMA GenCodeStep ==
    ASSUME IInv, GenCode
    PROVE  IInv'
<1>1. /\ pc = "gen" /\ pc' = "gen" /\ ra.i <= Len(ic) /\ UNCHANGED <<src, rgn>>
  BY DEF GenCode
<1>2. PICK m \in Maps(ra, ra.i) :
          ra' = Finished(Performed(Cleared(Ready(Begun(ra, ra.i, m), ra.i, m), ra.i, m), ra.i, m), ra.i, m)
  BY DEF GenCode
<1>3. Given /\ Generating
  BY <1>1 DEF IInv, Given
<1>4. ra.i \in Ins /\ ra.i \in Nat /\ Len(ic) \in Nat
  <2>1. Len(ic) \in Nat /\ Ins = 1 .. Len(ic)
    BY <1>3, Code DEF Given
  <2> QED BY <1>1, <1>3, <2>1 DEF Generating
<1>5. ra \in Gens(Between(ra.i))
  BY <1>3 DEF Generating
<1>6. ra' \in Gens(Between(ra.i + 1)) /\ (ra.i = Len(ic) => Ended(ra'))
  BY <1>2, <1>3, <1>4, <1>5, Generates
<1>7. ra'.i = ra.i + 1
  BY <1>6 DEF Gens, Between
<1>8. ra'.i \in 1 .. Len(ic) + 1 /\ (ra'.i = Len(ic) + 1 => ra.i = Len(ic))
  BY <1>1, <1>4, <1>7
<1> QED BY <1>1, <1>3, <1>6, <1>7, <1>8, GeneratingNext

\* Every step keeps the invariant.
LEMMA NextStep ==
    ASSUME IInv, [Next]_vars
    PROVE  IInv'
<1>1. ASSUME NEW s \in Sources, FuncEnd(s)
      PROVE  IInv'
  BY <1>1 DEF IInv, FuncEnd, CallerKept
<1>2. CASE UNCHANGED vars
  <2>1. IInv => IInv'
    <3>1. UNCHANGED <<pc, src, rgn, ra, at, has, set, escaped>>
      BY <1>2 DEF vars
    <3>2. ic' = ic /\ RegionType' = RegionType /\ (\A g : Ended(g)' = Ended(g))
      BY <3>1, SameFrame, SameGens
    <3>3. (\A c : Gens(c)' = Gens(c)) /\ (\A i : Between(i)' = Between(i))
      BY <3>1, SameGens
    <3>4. Made' = Made
      BY <3>1, <3>2, <3>3 DEF Made
    <3>5. Generating' = Generating
      BY <3>1, <3>2, <3>3 DEF Generating
    <3>6. AtHome' = AtHome
      <4>1. \A r : Home(r)' = Home(r)
        BY <3>1, SameHomes
      <4> QED BY <3>1, <4>1 DEF AtHome
    <3>7. CallerKept' = CallerKept
      BY <3>1 DEF CallerKept
    <3> QED BY <3>1, <3>2, <3>4, <3>5, <3>6, <3>7 DEF IInv
  <2> QED BY <2>1
<1>3. CASE Stop
  BY <1>2, <1>3 DEF Stop
<1> QED BY <1>1, <1>2, <1>3, RegInitStep, LoadArgsStep, GenCodeStep, BeginStep, MoveStep,
        ComputeStep, LoadLocalStep, StoreLocalStep, StorePointerStep, CallStep, JumpStep, ReturnStep
        DEF Next

\* It holds at the start.
LEMMA InitHolds ==
    Init => IInv
BY DEF Init, IInv, CallerKept

\* While the allocator works, its maps hold only registers and values there are
\* and the code it has made writes only what the phase of its instruction may
\* write; while that code runs, every register the caller keeps is at home: in
\* itself, or where the prologue saved it.
THEOREM Invariant == Spec => []IInv
<1>1. Init => IInv
  BY InitHolds
<1>2. IInv /\ [Next]_vars => IInv'
  BY NextStep
<1> QED BY <1>1, <1>2, PTL DEF Spec

\* A function compiled by neatcc gives its caller back the permanent registers,
\* the frame pointer and LR, whatever its code and whatever the registers of the
\* machine: o_func_beg and o_func_end save and load every one the code between
\* them writes, and no store of that code reaches where they are saved.
THEOREM CallersRegistersKept == Spec => []CallerKept
<1>1. IInv => CallerKept
  BY DEF IInv
<1> QED BY <1>1, Invariant, PTL
=============================================================================
