---------------------------- MODULE MallocProofs ----------------------------
(***************************************************************************)
(* Proof that the heap keeps its blocks apart and mapped, counts those of  *)
(* a pool, and can tell which kind a block is, with the pointers of EH3    *)
(* and any sizes of pages, pools and requests.  What is mapped is counted  *)
(* in pages; blocks are kept apart by the bytes.                           *)
(***************************************************************************)
EXTENDS Malloc, FiniteSetTheorems, TLAPS

-----------------------------------------------------------------------------
(* Arithmetic.                                                             *)

LEMMA Division ==
    ASSUME NEW x \in Nat, NEW d \in Nat \ {0}
    PROVE  /\ x = d * (x \div d) + (x % d)
           /\ x \div d \in Nat /\ x % d \in 0 .. d - 1
OBVIOUS

LEMMA Constants ==
    /\ PGSIZE \in Nat \ {0} /\ MSETMAX \in Nat \ {0} /\ MSETLEN \in Nat \ {0}
    /\ Pages \in Nat /\ MsetSize = 8 /\ MSETMAX <= PGSIZE
    /\ \A n \in Sizes : n \in Nat
BY MallocAssumption

\* A whole number of pages is a multiple of 8, and of 64 where pages are.
LEMMA PageMultiple ==
    ASSUME NEW x \in Nat, x % PGSIZE = 0
    PROVE  x % 8 = 0 /\ (OnEH3 => x % 64 = 0)
<1> DEFINE k == x \div PGSIZE
<1>1. x = PGSIZE * k + (x % PGSIZE) /\ k \in Nat
  BY Constants, Division
<1>2. x = PGSIZE * k
  BY <1>1, Constants
<1>3. x % 8 = 0
  <2>1. PICK m \in Nat : PGSIZE = 8 * m
    <3>1. PGSIZE % 8 = 0
      BY MallocAssumption
    <3>2. PGSIZE = 8 * (PGSIZE \div 8) /\ PGSIZE \div 8 \in Nat
      BY <3>1, Constants
    <3> QED BY <3>2
  <2>2. x = 8 * (m * k) /\ m * k \in Nat
    BY <1>1, <1>2, <2>1
  <2> HIDE DEF k
  <2> QED BY <2>2
<1>4. ASSUME OnEH3 PROVE x % 64 = 0
  <2>1. PICK m \in Nat : PGSIZE = 64 * m
    <3>1. PGSIZE = 64 * (PGSIZE \div 64) /\ PGSIZE \div 64 \in Nat
      BY <1>4, Constants DEF OnEH3
    <3> QED BY <3>1
  <2>2. x = 64 * (m * k) /\ m * k \in Nat
    BY <1>1, <1>2, <2>1
  <2> HIDE DEF k
  <2> QED BY <2>2
<1> QED BY <1>3, <1>4

LEMMA FourOff ==
    ASSUME NEW x \in Nat, NEW y \in Nat, x % 8 = 0, y % 8 = 0
    PROVE  (x + y + 4) % 8 = 4
<1>1. PICK k \in Nat : x = 8 * k
  <2>1. x = 8 * (x \div 8) /\ x \div 8 \in Nat
    OBVIOUS
  <2> QED BY <2>1
<1>2. PICK j \in Nat : y = 8 * j
  <2>1. y = 8 * (y \div 8) /\ y \div 8 \in Nat
    OBVIOUS
  <2> QED BY <2>1
<1> QED BY <1>1, <1>2

\* Pages are in the order of their bytes.
LEMMA PageOrder ==
    ASSUME NEW x \in Nat, NEW y \in Nat
    PROVE  PageOf(x) \in Nat /\ (x <= y => PageOf(x) <= PageOf(y))
<1> DEFINE i == PageOf(x)
           j == PageOf(y)
<1>1. /\ x = PGSIZE * i + (x % PGSIZE) /\ i \in Nat /\ x % PGSIZE \in 0 .. PGSIZE - 1
      /\ y = PGSIZE * j + (y % PGSIZE) /\ j \in Nat /\ y % PGSIZE \in 0 .. PGSIZE - 1
  BY Constants, Division DEF PageOf
<1> HIDE DEF i, j
<1>2. ASSUME x <= y, j - i <= -1 PROVE FALSE
  <2>1. PGSIZE * (j - i) <= -PGSIZE
    BY <1>1, <1>2, Constants
  <2>2. PGSIZE * j - PGSIZE * i = PGSIZE * (j - i)
    BY <1>1, Constants
  <2>3. PGSIZE * j \in Int /\ PGSIZE * i \in Int
    BY <1>1, Constants
  <2> QED BY <1>1, <1>2, <2>1, <2>2, <2>3, Constants
<1> QED BY <1>1, <1>2 DEF i, j

\* The pages of a range within another are pages of that one, and ranges
\* without a common page have no common byte.
LEMMA Spans ==
    ASSUME NEW x \in Nat, NEW l \in Nat \ {0}, NEW y \in Nat, NEW m \in Nat \ {0}
    PROVE  /\ x <= y /\ y + m <= x + l => PageSpan(y, m) \subseteq PageSpan(x, l)
           /\ PageSpan(x, l) \cap PageSpan(y, m) = {} => x + l <= y \/ y + m <= x
<1>1. x + l - 1 \in Nat /\ y + m - 1 \in Nat
  OBVIOUS
<1> DEFINE i == PageOf(x)    i1 == PageOf(x + l - 1)
           j == PageOf(y)    j1 == PageOf(y + m - 1)
<1>2. /\ i \in Nat /\ i1 \in Nat /\ j \in Nat /\ j1 \in Nat /\ i <= i1 /\ j <= j1
      /\ x <= y => i <= j
      /\ y + m <= x + l => j1 <= i1
      /\ ~(x + l <= y) => j <= i1
      /\ ~(y + m <= x) => i <= j1
  BY <1>1, PageOrder
<1>3. PageSpan(x, l) = i .. i1 /\ PageSpan(y, m) = j .. j1
  BY DEF PageSpan
<1> HIDE DEF i, i1, j, j1
<1>4. ASSUME x <= y, y + m <= x + l PROVE PageSpan(y, m) \subseteq PageSpan(x, l)
  BY <1>2, <1>3, <1>4
<1>5. ASSUME ~(x + l <= y), ~(y + m <= x) PROVE PageSpan(x, l) \cap PageSpan(y, m) # {}
  <2>1. CASE i <= j
    <3>1. j \in PageSpan(x, l) /\ j \in PageSpan(y, m)
      BY <1>2, <1>3, <1>5, <2>1
    <3> QED BY <3>1
  <2>2. CASE j <= i
    <3>1. i \in PageSpan(x, l) /\ i \in PageSpan(y, m)
      BY <1>2, <1>3, <1>5, <2>2
    <3> QED BY <3>1
  <2> QED BY <1>2, <2>1, <2>2
<1> QED BY <1>4, <1>5

LEMMA SpanPages ==
    ASSUME NEW x \in Nat, NEW l \in Nat \ {0}
    PROVE  PageSpan(x, l) \subseteq Nat
BY PageOrder DEF PageSpan

\* Whole pages have no remainder.
LEMMA Multiple ==
    ASSUME NEW k \in Nat
    PROVE  (PGSIZE * k) % PGSIZE = 0
<1> DEFINE r == PGSIZE * k
           q == r \div PGSIZE
           d == r % PGSIZE
<1>1. r = PGSIZE * q + d /\ q \in Nat /\ d \in 0 .. PGSIZE - 1
  <2>1. r \in Nat
    BY Constants
  <2> HIDE DEF r
  <2> QED BY <2>1, Constants, Division
<1>2. q \in Nat /\ d \in Int /\ 0 <= d /\ d < PGSIZE /\ PGSIZE * k = PGSIZE * q + d
  BY <1>1, Constants
<1> HIDE DEF q, d
<1>3. PGSIZE * (k - q) = d
  BY <1>2, Constants
<1>4. CASE k - q >= 1
  <2>1. PGSIZE * (k - q) >= PGSIZE
    BY <1>2, <1>4, Constants
  <2> QED BY <1>2, <1>3, <2>1, Constants
<1>5. CASE k - q <= -1
  <2>1. PGSIZE * (k - q) <= -PGSIZE
    BY <1>2, <1>5, Constants
  <2> QED BY <1>2, <1>3, <2>1, Constants
<1>6. CASE k - q = 0
  BY <1>3, <1>6, Constants DEF d
<1> QED BY <1>2, <1>4, <1>5, <1>6

\* What mmap returns.
LEMMA RoomMeans ==
    ASSUME NEW l \in Nat \ {0}, NEW r \in Room(l)
    PROVE  /\ r \in Nat \ {NULL} /\ r % PGSIZE = 0 /\ (r + PGSIZE) % PGSIZE = 0
           /\ PageSpan(r, l) \cap mapped = {}
<1>1. PICK k \in 1 .. Pages : r = PGSIZE * k
  BY DEF Room
<1>2. r \in Nat /\ r # 0
  BY <1>1, Constants
<1>3. r % PGSIZE = 0 /\ (r + PGSIZE) % PGSIZE = 0
  <2>1. r + PGSIZE = PGSIZE * (k + 1) /\ k \in Nat /\ k + 1 \in Nat
    BY <1>1, Constants
  <2> QED BY <1>1, <2>1, Multiple
<1>4. PageSpan(r, l) \cap mapped = {}
  BY DEF Room
<1> QED BY <1>2, <1>3, <1>4 DEF NULL

\* The test for a page boundary never succeeds.
LEMMA NoBump ==
    ASSUME OnEH3, NEW p \in Nat, NEW size \in Nat, p % PGSIZE = 0, size % 8 = 0
    PROVE  Bumped(p, size) = size
<1>1. p % 64 = 0
  BY PageMultiple
<1>2. p + MsetSize * (size + PtrSize) = p + 8 * size + 32
  BY Constants DEF OnEH3
<1>3. p + 8 * size + 32 \in Nat /\ (p + 8 * size + 32) % 64 = 32
  BY <1>1
<1>4. (p + 8 * size + 32) % PGSIZE # 0
  BY <1>3, PageMultiple
<1> QED BY <1>2, <1>4 DEF Bumped

\* What a request is rounded to fits where the code found room for it.
LEMMA RoundedFits ==
    ASSUME OnEH3, NEW n \in Nat
    PROVE  /\ Rounded(n) \in Nat /\ Rounded(n) % 8 = 0 /\ n + PtrSize <= Rounded(n)
           /\ \A left \in Nat : left % 8 = 0 /\ left >= n + PtrSize => left >= Rounded(n)
BY DEF Rounded, OnEH3

-----------------------------------------------------------------------------
(* malloc.                                                                 *)

\* A block is cut from mset m at p, which is the current pool, a new one, or
\* the current one used again.
LEMMA TakeKeeps ==
    ASSUME HInv, OnEH3, NEW n \in Nat, n < MSETMAX,
           NEW p \in Nat \ {NULL}, p % PGSIZE = 0,
           NEW m \in [refs : Nat, size : Nat],
           m.size % 8 = 0, MsetSize <= m.size, m.size + n + PtrSize <= MSETLEN,
           m.refs = Cardinality({b \in blocks : Small(b) /\ b.head = p}),
           \A q \in DOMAIN msets \ {p} : /\ PoolSpan(q) \cap PoolSpan(p) = {}
                                         /\ MSETLEN - msets[q].size <= PGSIZE,
           \A b \in blocks : ~Small(b) => LargeSpan(b) \cap PoolSpan(p) = {},
           \A b \in blocks : Small(b) /\ b.head = p => b.at + b.len <= p + m.size,
           pool' = p,
           msets' = [x \in DOMAIN msets \cup {p} |->
                       IF x = p THEN Taken(p, m, n) ELSE msets[x]],
           blocks' = blocks \cup {BlockAt(p, m, n)},
           mapped \subseteq mapped', mapped' \subseteq Nat, PoolSpan(p) \subseteq mapped'
    PROVE  HInv'
<1> DEFINE new == BlockAt(p, m, n)
           size == m.size + Rounded(n)
<1>1. size \in Nat /\ size % 8 = 0 /\ MsetSize <= size /\ size <= MSETLEN
      /\ m.size + PtrSize + n <= size
  <2>1. MSETLEN % 8 = 0
    BY Constants, PageMultiple, MallocAssumption
  <2>2. MSETLEN - m.size \in Nat /\ (MSETLEN - m.size) % 8 = 0 /\ MSETLEN - m.size >= n + PtrSize
    BY <2>1, Constants DEF OnEH3
  <2>3. MSETLEN - m.size >= Rounded(n)
    BY <2>2, RoundedFits
  <2> DEFINE s == m.size
             k == Rounded(n)
  <2>4. /\ s \in Nat /\ k \in Nat /\ s % 8 = 0 /\ k % 8 = 0 /\ n + 4 <= k
        /\ MsetSize <= s /\ MSETLEN - s >= k
    BY <2>3, RoundedFits DEF OnEH3
  <2>5. size = s + k
    OBVIOUS
  <2> HIDE DEF s, k, size
  <2>6. size \in Nat /\ size % 8 = 0 /\ MsetSize <= size /\ size <= MSETLEN /\ s + 4 + n <= size
    BY <2>4, <2>5, Constants
  <2> QED BY <2>6 DEF OnEH3, s
<1>2. Taken(p, m, n) = [refs |-> m.refs + 1, size |-> size]
  BY <1>1, NoBump DEF Taken
<1> HIDE DEF size
<1>3. /\ DOMAIN msets' = DOMAIN msets \cup {p}
      /\ msets'[p] = [refs |-> m.refs + 1, size |-> size]
      /\ \A q \in DOMAIN msets \ {p} : msets'[q] = msets[q]
  BY <1>2
<1>4. /\ new \in [at : Nat, len : Nat, head : Nat] /\ Small(new)
      /\ new.head = p /\ new.len = n /\ new.at = p + m.size + PtrSize
  BY DEF BlockAt, Small, OnEH3
<1> HIDE DEF new
<1>5. new \notin blocks
  <2>1. ASSUME new \in blocks PROVE FALSE
    <3>1. new.at + new.len <= p + m.size
      BY <1>4, <2>1
    <3> QED BY <1>4, <3>1 DEF OnEH3
  <2> QED BY <2>1
<1>6. blocks' = blocks \cup {new}
  BY DEF new
<1>t. TypeOK'
  <2>1. msets' \in [DOMAIN msets' -> [refs : Nat, size : Nat]]
    <3>1. \A q \in DOMAIN msets \ {p} : msets'[q] \in [refs : Nat, size : Nat]
      BY <1>3 DEF HInv, TypeOK
    <3>2. msets'[p] \in [refs : Nat, size : Nat]
      BY <1>1, <1>3
    <3> QED BY <1>3, <3>1, <3>2
  <2>2. blocks' \subseteq [at : Nat, len : Nat, head : Nat] /\ IsFiniteSet(blocks')
    BY <1>4, <1>6, FS_AddElement DEF HInv, TypeOK
  <2> QED BY <1>3, <2>1, <2>2 DEF HInv, TypeOK
<1>ps. PoolsSound'
  <2>1. ASSUME NEW q \in DOMAIN msets \ {p}
        PROVE  /\ q % PGSIZE = 0 /\ PoolSpan(q) \subseteq mapped'
               /\ msets'[q].size % 8 = 0 /\ MsetSize <= msets'[q].size /\ msets'[q].size <= MSETLEN
               /\ MSETLEN - msets'[q].size <= PGSIZE
    BY <1>3 DEF HInv, PoolsSound
  <2>2. msets'[p].size = size
    BY <1>3
  <2> QED BY <1>1, <1>3, <2>1, <2>2 DEF PoolsSound, PoolSpan, PageSpan, PageOf
<1>pa. PoolsApart'
  BY <1>3 DEF HInv, PoolsApart, PoolSpan, PageSpan, PageOf
<1>ss. SmallSound'
  <2>1. ASSUME NEW b \in blocks, Small(b)
        PROVE  /\ b.head \in DOMAIN msets' /\ b.at % 8 = 4
               /\ b.head + MsetSize + PtrSize <= b.at
               /\ b.at + b.len <= b.head + msets'[b.head].size
    <3>1. /\ b.head \in DOMAIN msets /\ b.at % 8 = 4
          /\ b.head + MsetSize + PtrSize <= b.at
          /\ b.at + b.len <= b.head + msets[b.head].size
      BY <2>1 DEF HInv, SmallSound
    <3>2. CASE b.head = p
      <4>1. b.at + b.len <= p + m.size
        BY <2>1, <3>2
      <4>2. b.at \in Nat /\ b.len \in Nat
        BY DEF HInv, TypeOK
      <4>3. m.size <= size
        BY <1>1, Constants DEF OnEH3
      <4>4. b.at + b.len <= p + size
        BY <1>1, <4>1, <4>2, <4>3
      <4> QED BY <1>3, <3>1, <3>2, <4>4
    <3>3. CASE b.head # p
      BY <1>3, <3>1, <3>3
    <3> QED BY <3>2, <3>3
  <2>2. /\ new.head \in DOMAIN msets' /\ new.at % 8 = 4
        /\ new.head + MsetSize + PtrSize <= new.at
        /\ new.at + new.len <= new.head + msets'[new.head].size
    <3>1. p % 8 = 0
      BY PageMultiple
    <3>2. new.at % 8 = 4 /\ p + MsetSize + PtrSize <= new.at
      <4> DEFINE s == m.size
      <4>1. s \in Nat /\ s % 8 = 0 /\ MsetSize <= s /\ new.at = p + s + 4
        BY <1>4 DEF OnEH3
      <4> HIDE DEF s
      <4>2. (p + s + 4) % 8 = 4
        BY <3>1, <4>1, FourOff
      <4>3. p + MsetSize + 4 <= p + s + 4
        BY <4>1, Constants
      <4> QED BY <4>1, <4>2, <4>3 DEF OnEH3
    <3>3. new.at + new.len <= p + size
      BY <1>1, <1>4, Constants DEF OnEH3
    <3>4. msets'[p].size = size
      BY <1>3
    <3> QED BY <1>3, <1>4, <3>2, <3>3, <3>4
  <2> QED BY <1>6, <2>1, <2>2 DEF SmallSound, Small
<1>sa. SmallApart'
  <2>1. ASSUME NEW b \in blocks, Small(b), b.head = p PROVE Finish(b) <= Start(new)
    <3>1. b.at + b.len <= p + m.size
      BY <2>1
    <3> QED BY <1>4, <3>1 DEF Finish, Start, OnEH3
  <2>2. \A b, c \in blocks : Small(b) /\ Small(c) /\ b.head = c.head =>
            b = c \/ Finish(b) <= Start(c) \/ Finish(c) <= Start(b)
    BY DEF HInv, SmallApart
  <2>3. \A b, c \in blocks' : Small(b) /\ Small(c) /\ b.head = c.head =>
            b = c \/ Finish(b) <= Start(c) \/ Finish(c) <= Start(b)
    BY <1>4, <1>6, <2>1, <2>2
  <2> QED BY <2>3 DEF SmallApart, Small, Finish, Start
<1>ls. LargeSound'
  <2>1. ASSUME NEW b \in blocks, ~Small(b)
        PROVE  /\ b.at % PGSIZE = 0 /\ PGSIZE <= b.at /\ b.head = b.len + PGSIZE
               /\ LargeSpan(b) \subseteq mapped'
               /\ \A q \in DOMAIN msets' : LargeSpan(b) \cap PoolSpan(q) = {}
               /\ \A c \in blocks' : Small(c) \/ c = b \/ LargeSpan(b) \cap LargeSpan(c) = {}
    BY <1>3, <1>4, <1>6, <2>1 DEF HInv, LargeSound
  <2> QED BY <1>4, <1>6, <2>1 DEF LargeSound, Small, LargeSpan, PoolSpan, PageSpan, PageOf
<1>rc. RefsCount'
  <2> DEFINE own(q) == {b \in blocks : Small(b) /\ b.head = q}
             now(q) == {b \in blocks' : Small(b) /\ b.head = q}
  <2>1. ASSUME NEW q \in DOMAIN msets \ {p} PROVE msets'[q].refs = Cardinality(now(q))
    <3>1. now(q) = own(q)
      BY <1>4, <1>6
    <3>2. msets[q].refs = Cardinality(own(q))
      BY DEF HInv, RefsCount
    <3> QED BY <1>3, <3>1, <3>2
  <2>2. msets'[p].refs = Cardinality(now(p))
    <3>1. now(p) = own(p) \cup {new}
      BY <1>4, <1>6
    <3>2. IsFiniteSet(own(p))
      <4>1. own(p) \in SUBSET blocks /\ IsFiniteSet(blocks)
        BY DEF HInv, TypeOK
      <4> QED BY <4>1, FS_Subset
    <3>3. new \notin own(p)
      BY <1>5
    <3>4. Cardinality(now(p)) = Cardinality(own(p)) + 1
      <4> HIDE DEF own, now
      <4>1. Cardinality(own(p) \cup {new}) = Cardinality(own(p)) + 1
        BY <3>2, <3>3, FS_AddElement
      <4> QED BY <3>1, <4>1
    <3> QED BY <1>3, <3>4
  <2>3. \A q \in DOMAIN msets' : msets'[q].refs = Cardinality(now(q))
    <3> HIDE DEF now
    <3> QED BY <1>3, <2>1, <2>2
  <2> QED BY <2>3 DEF RefsCount, Small
<1> QED BY <1>t, <1>ps, <1>pa, <1>ss, <1>sa, <1>ls, <1>rc DEF HInv

LEMMA FromPoolKeeps ==
    ASSUME HInv, OnEH3, NEW n \in Sizes, MallocFromPool(n)
    PROVE  HInv'
<1> DEFINE m == msets[pool]
<1>1. pool \in Nat \ {NULL} /\ pool \in DOMAIN msets /\ m \in [refs : Nat, size : Nat]
  BY DEF HInv, TypeOK, MallocFromPool, HasRoom
<1>2. /\ pool % PGSIZE = 0 /\ PoolSpan(pool) \subseteq mapped
      /\ m.size % 8 = 0 /\ MsetSize <= m.size /\ m.size <= MSETLEN
  BY <1>1 DEF HInv, PoolsSound
<1>3. m.size + n + PtrSize <= MSETLEN
  <2>1. MSETLEN - m.size < 0 \/ MSETLEN - m.size >= n + PtrSize
    BY DEF MallocFromPool, HasRoom, Fits
  <2>2. m.size \in Nat
    BY <1>1
  <2> HIDE DEF m
  <2> QED BY <1>2, <2>1, <2>2, Constants DEF OnEH3
<1>4. m.refs = Cardinality({b \in blocks : Small(b) /\ b.head = pool})
  BY <1>1 DEF HInv, RefsCount
<1>5. \A q \in DOMAIN msets \ {pool} : /\ PoolSpan(q) \cap PoolSpan(pool) = {}
                                        /\ MSETLEN - msets[q].size <= PGSIZE
  BY <1>1 DEF HInv, PoolsApart, PoolsSound
<1>6. /\ \A b \in blocks : ~Small(b) => LargeSpan(b) \cap PoolSpan(pool) = {}
      /\ \A b \in blocks : Small(b) /\ b.head = pool => b.at + b.len <= pool + m.size
  BY <1>1 DEF HInv, LargeSound, SmallSound
<1>7. /\ pool' = pool /\ mapped' = mapped /\ n < MSETMAX
      /\ msets' = [x \in DOMAIN msets \cup {pool} |->
                     IF x = pool THEN Taken(pool, m, n) ELSE msets[x]]
      /\ blocks' = blocks \cup {BlockAt(pool, m, n)}
  <2>1. msets' = [x \in DOMAIN msets |-> IF x = pool THEN Taken(pool, m, n) ELSE msets[x]]
    BY <1>1 DEF MallocFromPool, HInv, TypeOK
  <2>2. DOMAIN msets \cup {pool} = DOMAIN msets
    BY <1>1
  <2> QED BY <2>1, <2>2 DEF MallocFromPool
<1>8. mapped \subseteq Nat
  BY DEF HInv, TypeOK
<1>9. n \in Nat
  BY Constants
<1> HIDE DEF m
<1> QED BY <1>1, <1>2, <1>3, <1>4, <1>5, <1>6, <1>7, <1>8, <1>9, TakeKeeps

\* An empty pool takes any small request.
LEMMA EmptyFits ==
    ASSUME OnEH3, NEW n \in Nat, n < MSETMAX
    PROVE  /\ Empty \in [refs : Nat, size : Nat] /\ Empty.refs = 0 /\ Empty.size % 8 = 0
           /\ MsetSize <= Empty.size /\ Empty.size + n + PtrSize <= MSETLEN
BY Constants, MallocAssumption DEF Empty, OnEH3

\* A pool without references has no blocks.
LEMMA UnusedIsEmpty ==
    ASSUME HInv, NEW p \in DOMAIN msets, msets[p].refs = 0
    PROVE  {b \in blocks : Small(b) /\ b.head = p} = {}
<1> DEFINE own == {b \in blocks : Small(b) /\ b.head = p}
<1>1. IsFiniteSet(own)
  <2>1. own \in SUBSET blocks /\ IsFiniteSet(blocks)
    BY DEF HInv, TypeOK
  <2> QED BY <2>1, FS_Subset
<1>2. Cardinality(own) = 0
  BY DEF HInv, RefsCount
<1> QED BY <1>1, <1>2, FS_EmptySet

LEMMA ReusingKeeps ==
    ASSUME HInv, OnEH3, NEW n \in Sizes, MallocReusing(n)
    PROVE  HInv'
<1>1. pool \in Nat \ {NULL} /\ pool \in DOMAIN msets /\ msets[pool].refs = 0
  BY DEF HInv, TypeOK, MallocReusing, Reusable
<1>2. pool % PGSIZE = 0 /\ PoolSpan(pool) \subseteq mapped
  BY <1>1 DEF HInv, PoolsSound
<1>3. {b \in blocks : Small(b) /\ b.head = pool} = {}
  BY <1>1, UnusedIsEmpty
<1>4. Empty.refs = Cardinality({b \in blocks : Small(b) /\ b.head = pool})
  BY <1>3, FS_EmptySet DEF Empty
<1>5. \A q \in DOMAIN msets \ {pool} : /\ PoolSpan(q) \cap PoolSpan(pool) = {}
                                        /\ MSETLEN - msets[q].size <= PGSIZE
  BY <1>1 DEF HInv, PoolsApart, PoolsSound
<1>6. /\ \A b \in blocks : ~Small(b) => LargeSpan(b) \cap PoolSpan(pool) = {}
      /\ \A b \in blocks : Small(b) /\ b.head = pool => b.at + b.len <= pool + Empty.size
  BY <1>1, <1>3 DEF HInv, LargeSound
<1>7. /\ pool' = pool /\ mapped' = mapped /\ n < MSETMAX
      /\ msets' = [x \in DOMAIN msets \cup {pool} |->
                     IF x = pool THEN Taken(pool, Empty, n) ELSE msets[x]]
      /\ blocks' = blocks \cup {BlockAt(pool, Empty, n)}
  <2>1. msets' = [x \in DOMAIN msets |-> IF x = pool THEN Taken(pool, Empty, n) ELSE msets[x]]
    BY <1>1 DEF MallocReusing, HInv, TypeOK
  <2>2. DOMAIN msets \cup {pool} = DOMAIN msets
    BY <1>1
  <2> QED BY <2>1, <2>2 DEF MallocReusing
<1>8. mapped \subseteq Nat
  BY DEF HInv, TypeOK
<1>9. n \in Nat
  BY Constants
<1> QED BY <1>1, <1>2, <1>4, <1>5, <1>6, <1>7, <1>8, <1>9, EmptyFits, TakeKeeps

\* The current pool is left only when less than a page of it is free.
LEMMA LeftFull ==
    ASSUME HInv, OnEH3, NEW n \in Sizes, n < MSETMAX, ~HasRoom(n), NEW q \in DOMAIN msets
    PROVE  MSETLEN - msets[q].size <= PGSIZE
<1>1. CASE q # pool
  BY <1>1 DEF HInv, PoolsSound
<1>2. CASE q = pool
  <2> DEFINE left == MSETLEN - msets[q].size
  <2>1. msets[q].size \in Nat /\ msets[q].size <= MSETLEN /\ msets[q].size % 8 = 0
    BY DEF HInv, TypeOK, PoolsSound
  <2>2. MSETLEN % 8 = 0 /\ PGSIZE % 8 = 0
    BY Constants, PageMultiple, MallocAssumption
  <2>3. left \in Nat /\ left % 8 = 0
    <3> DEFINE s == msets[q].size
    <3>1. s \in Nat /\ s <= MSETLEN /\ s % 8 = 0
      BY <2>1
    <3> HIDE DEF s
    <3>2. MSETLEN - s \in Nat /\ (MSETLEN - s) % 8 = 0
      BY <2>2, <3>1, Constants
    <3> QED BY <3>2 DEF s
  <2>4. ~(left >= n + PtrSize)
    BY <1>2 DEF HasRoom, Fits, HInv, TypeOK
  <2> HIDE DEF left
  <2>5. left < n + 4 /\ n \in Nat /\ n < PGSIZE
    BY <2>3, <2>4, Constants DEF OnEH3
  <2>6. left <= PGSIZE
    BY <2>2, <2>3, <2>5, Constants
  <2> QED BY <2>6 DEF left
<1> QED BY <1>1, <1>2

LEMMA NewPoolKeeps ==
    ASSUME HInv, OnEH3, NEW n \in Sizes, MallocNewPool(n)
    PROVE  HInv'
<1>1. PICK p \in Room(MSETLEN) :
        /\ mapped' = mapped \cup PageSpan(p, MSETLEN)
        /\ pool' = p
        /\ msets' = [x \in DOMAIN msets \cup {p} |->
                       IF x = p THEN Taken(p, Empty, n) ELSE msets[x]]
        /\ blocks' = blocks \cup {BlockAt(p, Empty, n)}
  BY DEF MallocNewPool
<1>2. /\ p \in Nat \ {NULL} /\ p % PGSIZE = 0 /\ PoolSpan(p) \cap mapped = {}
      /\ PoolSpan(p) \subseteq Nat
  BY Constants, RoomMeans, SpanPages DEF PoolSpan
<1>3. p \notin DOMAIN msets
  <2>1. PageOf(p) \in PoolSpan(p)
    <3>1. p + MSETLEN - 1 \in Nat /\ p <= p + MSETLEN - 1
      BY <1>2, Constants
    <3> QED BY <1>2, <3>1, PageOrder DEF PoolSpan, PageSpan
  <2> QED BY <1>2, <2>1 DEF HInv, PoolsSound
<1>4. {b \in blocks : Small(b) /\ b.head = p} = {}
  BY <1>3 DEF HInv, SmallSound
<1>5. Empty.refs = Cardinality({b \in blocks : Small(b) /\ b.head = p})
  BY <1>4, FS_EmptySet DEF Empty
<1>6. \A q \in DOMAIN msets \ {p} : /\ PoolSpan(q) \cap PoolSpan(p) = {}
                                     /\ MSETLEN - msets[q].size <= PGSIZE
  BY <1>2, LeftFull DEF HInv, PoolsSound, MallocNewPool
<1>7. /\ \A b \in blocks : ~Small(b) => LargeSpan(b) \cap PoolSpan(p) = {}
      /\ \A b \in blocks : Small(b) /\ b.head = p => b.at + b.len <= p + Empty.size
  BY <1>2, <1>4 DEF HInv, LargeSound
<1>8. mapped \subseteq mapped' /\ mapped' \subseteq Nat /\ PoolSpan(p) \subseteq mapped'
  BY <1>1, <1>2 DEF HInv, TypeOK, PoolSpan
<1>9. n \in Nat /\ n < MSETMAX
  BY Constants DEF MallocNewPool
<1> QED BY <1>1, <1>2, <1>5, <1>6, <1>7, <1>8, <1>9, EmptyFits, TakeKeeps

LEMMA NoPoolKeeps ==
    ASSUME HInv, OnEH3, NEW n \in Sizes, MallocNoPool(n)
    PROVE  HInv'
<1>1. /\ pool' = NULL /\ mapped' = mapped /\ msets' = msets /\ blocks' = blocks
      /\ n < MSETMAX /\ ~HasRoom(n)
  BY DEF MallocNoPool
<1>2. \A q \in DOMAIN msets : MSETLEN - msets[q].size <= PGSIZE
  BY <1>1, LeftFull
<1>3. PoolsSound'
  BY <1>1, <1>2 DEF HInv, PoolsSound, PoolSpan, PageSpan, PageOf
<1>4. TypeOK'
  BY <1>1 DEF HInv, TypeOK
<1>5. PoolsApart' /\ SmallSound' /\ SmallApart' /\ LargeSound' /\ RefsCount'
  BY <1>1 DEF HInv, PoolsApart, SmallSound, SmallApart, LargeSound, RefsCount,
              Small, Start, Finish, PoolSpan, LargeSpan, PageSpan, PageOf
<1> QED BY <1>3, <1>4, <1>5 DEF HInv

LEMMA LargeKeeps ==
    ASSUME HInv, OnEH3, NEW n \in Sizes, MallocLarge(n)
    PROVE  HInv'
<1>1. PICK r \in Room(n + PGSIZE) :
        /\ mapped' = mapped \cup PageSpan(r, n + PGSIZE)
        /\ blocks' = blocks \cup {[at |-> r + PGSIZE, len |-> n, head |-> n + PGSIZE]}
  BY DEF MallocLarge
<1> DEFINE new == [at |-> r + PGSIZE, len |-> n, head |-> n + PGSIZE]
<1>2. n \in Nat /\ n >= MSETMAX /\ n + PGSIZE \in Nat \ {0}
  BY Constants DEF MallocLarge
<1>3. /\ r \in Nat \ {NULL} /\ (r + PGSIZE) % PGSIZE = 0
      /\ PageSpan(r, n + PGSIZE) \cap mapped = {} /\ PageSpan(r, n + PGSIZE) \subseteq Nat
  BY <1>2, RoomMeans, SpanPages
<1>4. new.at - PGSIZE = r /\ LargeSpan(new) = PageSpan(r, n + PGSIZE)
  BY <1>2, <1>3, Constants DEF LargeSpan
<1>5. /\ new \in [at : Nat, len : Nat, head : Nat] /\ ~Small(new)
      /\ new.at % PGSIZE = 0 /\ PGSIZE <= new.at /\ new.head = new.len + PGSIZE
      /\ LargeSpan(new) \cap mapped = {} /\ mapped' = mapped \cup LargeSpan(new)
  BY <1>1, <1>2, <1>3, <1>4, Constants DEF Small
<1>6. blocks' = blocks \cup {new} /\ pool' = pool /\ msets' = msets
  BY <1>1 DEF MallocLarge
<1>7. LargeSpan(new) \subseteq Nat
  BY <1>3, <1>4
<1> HIDE DEF new
<1>t. TypeOK'
  BY <1>5, <1>6, <1>7, FS_AddElement DEF HInv, TypeOK
<1>ps. PoolsSound' /\ PoolsApart'
  BY <1>5, <1>6 DEF HInv, PoolsSound, PoolsApart, PoolSpan, PageSpan, PageOf
<1>ss. SmallSound' /\ SmallApart'
  BY <1>5, <1>6 DEF HInv, SmallSound, SmallApart, Small, Start, Finish
<1>ls. LargeSound'
  <2>1. ASSUME NEW b \in blocks, ~Small(b)
        PROVE  /\ b.at % PGSIZE = 0 /\ PGSIZE <= b.at /\ b.head = b.len + PGSIZE
               /\ LargeSpan(b) \subseteq mapped'
               /\ \A p \in DOMAIN msets' : LargeSpan(b) \cap PoolSpan(p) = {}
               /\ \A c \in blocks' : Small(c) \/ c = b \/ LargeSpan(b) \cap LargeSpan(c) = {}
    BY <1>5, <1>6, <2>1 DEF HInv, LargeSound
  <2>2. /\ LargeSpan(new) \subseteq mapped'
        /\ \A p \in DOMAIN msets' : LargeSpan(new) \cap PoolSpan(p) = {}
        /\ \A c \in blocks' : Small(c) \/ c = new \/ LargeSpan(new) \cap LargeSpan(c) = {}
    BY <1>5, <1>6 DEF HInv, PoolsSound, LargeSound
  <2> QED BY <1>5, <1>6, <2>1, <2>2 DEF LargeSound, Small, LargeSpan, PoolSpan, PageSpan, PageOf
<1>rc. RefsCount'
  <2>1. \A p : {b \in blocks' : Small(b) /\ b.head = p} = {b \in blocks : Small(b) /\ b.head = p}
    BY <1>5, <1>6
  <2>2. \A p \in DOMAIN msets : msets'[p].refs = Cardinality({b \in blocks' : Small(b) /\ b.head = p})
    BY <1>6, <2>1 DEF HInv, RefsCount
  <2> QED BY <1>6, <2>2 DEF RefsCount, Small
<1> QED BY <1>t, <1>ps, <1>ss, <1>ls, <1>rc DEF HInv

-----------------------------------------------------------------------------
(* free.                                                                   *)

LEMMA Tells ==
    ASSUME HInv, OnEH3
    PROVE  FreeTells
<1> SUFFICES ASSUME NEW b \in blocks PROVE Small(b) <=> InPool(b)
  BY DEF FreeTells
<1>1. b.at \in Nat
  BY DEF HInv, TypeOK
<1>2. CASE Small(b)
  <2>1. b.at % 8 = 4
    BY <1>2 DEF HInv, SmallSound
  <2> QED BY <1>1, <1>2, <2>1, PageMultiple DEF InPool
<1>3. CASE ~Small(b)
  BY <1>3 DEF HInv, LargeSound, InPool
<1> QED BY <1>2, <1>3

\* With a block less, the pools have their blocks less that one.
LEMMA OwnLess ==
    ASSUME HInv, NEW b \in blocks, Small(b)
    PROVE  /\ msets[b.head].refs \in Nat \ {0}
           /\ Cardinality({c \in blocks \ {b} : Small(c) /\ c.head = b.head}) = msets[b.head].refs - 1
           /\ msets[b.head].refs = 1 => \A c \in blocks : Small(c) /\ c.head = b.head => c = b
<1> DEFINE own  == {c \in blocks : Small(c) /\ c.head = b.head}
           rest == {c \in blocks \ {b} : Small(c) /\ c.head = b.head}
<1>1. IsFiniteSet(own)
  <2>1. own \in SUBSET blocks /\ IsFiniteSet(blocks)
    BY DEF HInv, TypeOK
  <2> QED BY <2>1, FS_Subset
<1>2. rest = own \ {b} /\ b \in own
  OBVIOUS
<1>3. b.head \in DOMAIN msets
  BY DEF HInv, SmallSound
<1>4. msets[b.head].refs = Cardinality(own)
  BY <1>3 DEF HInv, RefsCount
<1>5. /\ IsFiniteSet(own \ {b}) /\ Cardinality(own \ {b}) = Cardinality(own) - 1
      /\ Cardinality(own) \in Nat /\ Cardinality(own \ {b}) \in Nat
  <2> HIDE DEF own
  <2>1. IsFiniteSet(own \ {b}) /\ Cardinality(own \ {b}) = Cardinality(own) - 1
    BY <1>1, <1>2, FS_RemoveElement
  <2> QED BY <1>1, <2>1, FS_CardinalityType
<1>6. ASSUME msets[b.head].refs = 1 PROVE own \ {b} = {}
  <2> HIDE DEF own
  <2> QED BY <1>4, <1>5, <1>6, FS_EmptySet
<1>7. Cardinality(rest) = msets[b.head].refs - 1
  BY <1>2, <1>4, <1>5
<1>8. msets[b.head].refs \in Nat \ {0}
  <2> HIDE DEF own
  <2> QED BY <1>4, <1>5
<1> QED BY <1>6, <1>7, <1>8

LEMMA FreeInPoolKeeps ==
    ASSUME HInv, OnEH3, NEW b \in blocks, FreeInPool(b)
    PROVE  HInv'
<1>1. Small(b)
  BY Tells DEF FreeTells, FreeInPool
<1>2. b.head \in DOMAIN msets
  BY <1>1 DEF HInv, SmallSound
<1>3. /\ mapped' = mapped /\ pool' = pool /\ blocks' = blocks \ {b}
      /\ DOMAIN msets' = DOMAIN msets
      /\ msets'[b.head] = [refs |-> msets[b.head].refs - 1, size |-> msets[b.head].size]
      /\ \A q \in DOMAIN msets \ {b.head} : msets'[q] = msets[q]
  BY <1>2 DEF FreeInPool, HInv, TypeOK
<1>4. \A q \in DOMAIN msets : msets'[q].size = msets[q].size
  BY <1>3
<1>t. TypeOK'
  <2>1. msets'[b.head] \in [refs : Nat, size : Nat]
    <3>1. msets[b.head].refs - 1 \in Nat
      <4> DEFINE k == msets[b.head].refs
      <4>1. k \in Nat \ {0}
        BY <1>1, OwnLess
      <4> HIDE DEF k
      <4>2. k - 1 \in Nat
        BY <4>1
      <4> QED BY <4>2 DEF k
    <3> QED BY <1>2, <1>3, <3>1 DEF HInv, TypeOK
  <2>2. \A q \in DOMAIN msets' : msets'[q] \in [refs : Nat, size : Nat]
    BY <1>3, <2>1 DEF HInv, TypeOK
  <2>3. msets' \in [DOMAIN msets' -> [refs : Nat, size : Nat]]
    <3>1. msets' = [q \in DOMAIN msets' |-> msets'[q]]
      BY <1>2 DEF FreeInPool, HInv, TypeOK
    <3> QED BY <2>2, <3>1
  <2>4. IsFiniteSet(blocks')
    BY <1>3, FS_RemoveElement DEF HInv, TypeOK
  <2> QED BY <1>3, <2>3, <2>4 DEF HInv, TypeOK
<1>ps. PoolsSound' /\ PoolsApart'
  BY <1>3, <1>4 DEF HInv, PoolsSound, PoolsApart, PoolSpan, PageSpan, PageOf
<1>ss. SmallSound' /\ SmallApart'
  BY <1>3, <1>4 DEF HInv, SmallSound, SmallApart, Small, Start, Finish
<1>ls. LargeSound'
  BY <1>3 DEF HInv, LargeSound, Small, LargeSpan, PoolSpan, PageSpan, PageOf
<1>rc. RefsCount'
  <2>1. ASSUME NEW q \in DOMAIN msets \ {b.head}
        PROVE  msets'[q].refs = Cardinality({c \in blocks' : Small(c) /\ c.head = q})
    <3>1. {c \in blocks' : Small(c) /\ c.head = q} = {c \in blocks : Small(c) /\ c.head = q}
      BY <1>3
    <3> QED BY <1>3, <3>1 DEF HInv, RefsCount
  <2>2. msets'[b.head].refs = Cardinality({c \in blocks' : Small(c) /\ c.head = b.head})
    BY <1>1, <1>3, OwnLess
  <2>3. \A q \in DOMAIN msets : msets'[q].refs = Cardinality({c \in blocks' : Small(c) /\ c.head = q})
    BY <2>1, <2>2
  <2> QED BY <1>3, <2>3 DEF RefsCount, Small
<1> QED BY <1>t, <1>ps, <1>ss, <1>ls, <1>rc DEF HInv

\* What a pool has used is within it.
LEMMA UsedWithin ==
    ASSUME HInv, NEW p \in DOMAIN msets
    PROVE  UsedPages(p) \subseteq PoolSpan(p)
<1>1. /\ p \in Nat /\ msets[p].size \in Nat \ {0} /\ MSETLEN \in Nat \ {0}
      /\ msets[p].size <= MSETLEN
  BY Constants DEF HInv, TypeOK, PoolsSound
<1> DEFINE s == msets[p].size
<1> HIDE DEF s
<1>2. p <= p /\ p + s <= p + MSETLEN /\ s \in Nat \ {0}
  BY <1>1 DEF s
<1>3. PageSpan(p, s) \subseteq PageSpan(p, MSETLEN)
  BY <1>1, <1>2, Spans
<1> QED BY <1>3 DEF UsedPages, PoolSpan, s

LEMMA FreePoolKeeps ==
    ASSUME HInv, OnEH3, NEW b \in blocks, FreePool(b)
    PROVE  HInv'
<1>1. Small(b) /\ msets[b.head].refs = 1 /\ b.head # pool
  BY Tells DEF FreeTells, FreePool, LastOf
<1>2. b.head \in DOMAIN msets
  BY <1>1 DEF HInv, SmallSound
<1>3. /\ mapped' = mapped \ UsedPages(b.head) /\ pool' = pool /\ blocks' = blocks \ {b}
      /\ msets' = [x \in DOMAIN msets \ {b.head} |-> msets[x]]
  BY DEF FreePool
<1>4. UsedPages(b.head) \subseteq PoolSpan(b.head)
  BY <1>2, UsedWithin
<1>5. \A c \in blocks' : Small(c) => c.head # b.head
  BY <1>1, <1>3, OwnLess
<1>t. TypeOK'
  <2>1. IsFiniteSet(blocks')
    BY <1>3, FS_RemoveElement DEF HInv, TypeOK
  <2>2. msets' \in [DOMAIN msets' -> [refs : Nat, size : Nat]]
    BY <1>3 DEF HInv, TypeOK
  <2> QED BY <1>1, <1>3, <2>1, <2>2 DEF HInv, TypeOK
<1>ps. PoolsSound'
  <2>1. ASSUME NEW q \in DOMAIN msets \ {b.head} PROVE PoolSpan(q) \subseteq mapped'
    BY <1>2, <1>3, <1>4 DEF HInv, PoolsSound, PoolsApart
  <2> QED BY <1>3, <2>1 DEF HInv, PoolsSound, PoolSpan, PageSpan, PageOf
<1>pa. PoolsApart'
  BY <1>3 DEF HInv, PoolsApart, PoolSpan, PageSpan, PageOf
<1>ss. SmallSound' /\ SmallApart'
  <2>1. \A c \in blocks' : Small(c) => c.head \in DOMAIN msets' /\ msets'[c.head] = msets[c.head]
    BY <1>3, <1>5 DEF HInv, SmallSound
  <2> QED BY <1>3, <2>1 DEF HInv, SmallSound, SmallApart, Small, Start, Finish
<1>ls. LargeSound'
  <2>1. ASSUME NEW c \in blocks', ~Small(c) PROVE LargeSpan(c) \subseteq mapped'
    BY <1>2, <1>3, <1>4, <2>1 DEF HInv, LargeSound
  <2> QED BY <1>3, <2>1 DEF HInv, LargeSound, Small, LargeSpan, PoolSpan, PageSpan, PageOf
<1>rc. RefsCount'
  <2>1. ASSUME NEW q \in DOMAIN msets'
        PROVE  msets'[q].refs = Cardinality({c \in blocks' : Small(c) /\ c.head = q})
    <3>1. {c \in blocks' : Small(c) /\ c.head = q} = {c \in blocks : Small(c) /\ c.head = q}
      BY <1>3
    <3>2. q \in DOMAIN msets /\ msets'[q] = msets[q]
      BY <1>3
    <3> QED BY <3>1, <3>2 DEF HInv, RefsCount
  <2> QED BY <2>1 DEF RefsCount, Small
<1> QED BY <1>t, <1>ps, <1>pa, <1>ss, <1>ls, <1>rc DEF HInv

LEMMA FreeLargeKeeps ==
    ASSUME HInv, OnEH3, NEW b \in blocks, FreeLarge(b)
    PROVE  HInv'
<1>1. ~Small(b)
  BY Tells DEF FreeTells, FreeLarge
<1>2. /\ mapped' = mapped \ LargeSpan(b) /\ pool' = pool /\ blocks' = blocks \ {b}
      /\ msets' = msets
  BY DEF FreeLarge, LargeSpan
<1>t. TypeOK'
  <2>1. IsFiniteSet(blocks')
    BY <1>2, FS_RemoveElement DEF HInv, TypeOK
  <2> QED BY <1>2, <2>1 DEF HInv, TypeOK
<1>ps. PoolsSound' /\ PoolsApart'
  <2>1. \A q \in DOMAIN msets : PoolSpan(q) \subseteq mapped'
    BY <1>1, <1>2 DEF HInv, PoolsSound, LargeSound
  <2> QED BY <1>2, <2>1 DEF HInv, PoolsSound, PoolsApart, PoolSpan, PageSpan, PageOf
<1>ss. SmallSound' /\ SmallApart'
  BY <1>2 DEF HInv, SmallSound, SmallApart, Small, Start, Finish
<1>ls. LargeSound'
  <2>1. ASSUME NEW c \in blocks', ~Small(c) PROVE LargeSpan(c) \subseteq mapped'
    BY <1>1, <1>2, <2>1 DEF HInv, LargeSound
  <2> QED BY <1>2, <2>1 DEF HInv, LargeSound, Small, LargeSpan, PoolSpan, PageSpan, PageOf
<1>rc. RefsCount'
  <2>1. ASSUME NEW q \in DOMAIN msets
        PROVE  msets[q].refs = Cardinality({c \in blocks' : Small(c) /\ c.head = q})
    <3>1. {c \in blocks' : Small(c) /\ c.head = q} = {c \in blocks : Small(c) /\ c.head = q}
      BY <1>1, <1>2
    <3> QED BY <3>1 DEF HInv, RefsCount
  <2> QED BY <1>2, <2>1 DEF RefsCount, Small
<1> QED BY <1>t, <1>ps, <1>ss, <1>ls, <1>rc DEF HInv

-----------------------------------------------------------------------------
(* The theorems.                                                           *)

LEMMA InitHolds ==
    ASSUME Init
    PROVE  HInv
BY FS_EmptySet DEF Init, HInv, TypeOK, PoolsSound, PoolsApart, SmallSound, SmallApart,
                   LargeSound, RefsCount

LEMMA StepKeeps ==
    ASSUME HInv, OnEH3, [Next]_vars
    PROVE  HInv'
<1>1. ASSUME NEW n \in Sizes,
             \/ MallocFromPool(n) \/ MallocReusing(n) \/ MallocNewPool(n)
             \/ MallocNoPool(n) \/ MallocLarge(n)
      PROVE  HInv'
  BY <1>1, FromPoolKeeps, ReusingKeeps, NewPoolKeeps, NoPoolKeeps, LargeKeeps
<1>2. ASSUME NEW b \in blocks, FreeInPool(b) \/ FreePool(b) \/ FreeLarge(b)
      PROVE  HInv'
  BY <1>2, FreeInPoolKeeps, FreePoolKeeps, FreeLargeKeeps
<1>3. CASE UNCHANGED vars
  BY <1>3 DEF vars, HInv, TypeOK, PoolsSound, PoolsApart, SmallSound, SmallApart, LargeSound,
              RefsCount, Small, Start, Finish, PoolSpan, LargeSpan, PageSpan, PageOf
<1> QED BY <1>1, <1>2, <1>3 DEF Next

\* The inductive invariant of the heap (malloc, mk_pool and free of malloc.c).
THEOREM HeapInvariant ==
    ASSUME OnEH3
    PROVE  Spec => []HInv
<1>1. Init => HInv
  BY InitHolds
<1>2. HInv /\ [Next]_vars => HInv'
  BY StepKeeps
<1> QED BY <1>1, <1>2, PTL DEF Spec

\* free tells blocks of pools from large ones (malloc.c, line 69) although the
\* test that should keep the former off page boundaries (line 52) never succeeds.
THEOREM FreeNeverMistaken ==
    ASSUME OnEH3
    PROVE  Spec => []FreeTells
<1>1. HInv => FreeTells
  BY Tells
<1> QED BY <1>1, HeapInvariant, PTL

\* The count at the head of every pool is that of its live blocks.
THEOREM PoolsCounted ==
    ASSUME OnEH3
    PROVE  Spec => []RefsCount
<1>1. HInv => RefsCount
  BY DEF HInv
<1> QED BY <1>1, HeapInvariant, PTL

\* All that a block is made of lies within pages that are its own, or its
\* pool's.
LEMMA Extent ==
    ASSUME HInv, OnEH3, NEW b \in blocks
    PROVE  /\ Start(b) \in Nat /\ Finish(b) - Start(b) \in Nat \ {0}
           /\ Small(b)  => /\ b.head \in DOMAIN msets /\ b.head + MsetSize <= Start(b)
                           /\ Finish(b) <= b.head + MSETLEN
           /\ ~Small(b) => Start(b) = b.at - PGSIZE /\ Finish(b) = Start(b) + b.head
<1>1. b.at \in Nat /\ b.len \in Nat /\ b.head \in Nat
  BY DEF HInv, TypeOK
<1>2. CASE Small(b)
  <2>1. /\ b.head \in DOMAIN msets /\ b.head + 8 + 4 <= b.at
        /\ b.at + b.len <= b.head + msets[b.head].size
    BY <1>2, Constants DEF HInv, SmallSound, OnEH3
  <2>2. msets[b.head].size \in Nat /\ msets[b.head].size <= MSETLEN
    BY <2>1 DEF HInv, TypeOK, PoolsSound
  <2>3. Start(b) = b.at - 4 /\ Finish(b) = b.at + b.len
    BY <1>2 DEF Start, Finish, OnEH3
  <2> QED BY <1>1, <1>2, <2>1, <2>2, <2>3, Constants
<1>3. CASE ~Small(b)
  <2>1. PGSIZE <= b.at /\ b.head = b.len + PGSIZE
    BY <1>3 DEF HInv, LargeSound
  <2> QED BY <1>1, <1>3, <2>1, Constants DEF Start, Finish
<1> QED BY <1>2, <1>3

LEMMA HoldsApart ==
    ASSUME HInv, OnEH3
    PROVE  BlocksApart
<1> DEFINE Base(b) == IF Small(b) THEN b.head ELSE b.at - PGSIZE
           Len(b)  == IF Small(b) THEN MSETLEN ELSE b.head
<1>1. ASSUME NEW b \in blocks
      PROVE  /\ Base(b) \in Nat /\ Len(b) \in Nat \ {0}
             /\ Base(b) <= Start(b) /\ Finish(b) <= Base(b) + Len(b)
             /\ Start(b) \in Nat /\ Finish(b) \in Nat
             /\ PageSpan(Base(b), Len(b)) = IF Small(b) THEN PoolSpan(b.head) ELSE LargeSpan(b)
  <2>1. b.at \in Nat /\ b.len \in Nat /\ b.head \in Nat
    BY DEF HInv, TypeOK
  <2>2. CASE Small(b)
    BY <2>1, <2>2, Extent, Constants DEF PoolSpan, Finish
  <2>3. CASE ~Small(b)
    <3>1. PGSIZE <= b.at /\ b.head = b.len + PGSIZE
      BY <2>3 DEF HInv, LargeSound
    <3> QED BY <2>1, <2>3, <3>1, Constants DEF LargeSpan, Finish, Start
  <2> QED BY <2>2, <2>3
<1>2. ASSUME NEW b \in blocks, NEW c \in blocks, b # c
      PROVE  Finish(b) <= Start(c) \/ Finish(c) <= Start(b)
  <2>1. CASE Small(b) /\ Small(c) /\ b.head = c.head
    BY <1>2, <2>1 DEF HInv, SmallApart
  <2>2. CASE ~(Small(b) /\ Small(c) /\ b.head = c.head)
    <3>1. PageSpan(Base(b), Len(b)) \cap PageSpan(Base(c), Len(c)) = {}
      <4>1. CASE Small(b) /\ Small(c)
        BY <1>1, <2>2, <4>1, Extent DEF HInv, PoolsApart
      <4>2. CASE Small(b) /\ ~Small(c)
        BY <1>1, <4>2, Extent DEF HInv, LargeSound
      <4>3. CASE ~Small(b) /\ Small(c)
        BY <1>1, <4>3, Extent DEF HInv, LargeSound
      <4>4. CASE ~Small(b) /\ ~Small(c)
        BY <1>1, <1>2, <4>4 DEF HInv, LargeSound
      <4> QED BY <4>1, <4>2, <4>3, <4>4
    <3>2. /\ Base(b) \in Nat /\ Len(b) \in Nat \ {0} /\ Base(c) \in Nat /\ Len(c) \in Nat \ {0}
          /\ Base(b) <= Start(b) /\ Finish(b) <= Base(b) + Len(b)
          /\ Base(c) <= Start(c) /\ Finish(c) <= Base(c) + Len(c)
          /\ Start(b) \in Nat /\ Finish(b) \in Nat /\ Start(c) \in Nat /\ Finish(c) \in Nat
      BY <1>1
    <3> HIDE DEF Base, Len
    <3>3. Base(b) + Len(b) <= Base(c) \/ Base(c) + Len(c) <= Base(b)
      BY <3>1, <3>2, Spans
    <3> QED BY <3>2, <3>3
  <2> QED BY <2>1, <2>2
<1>3. ASSUME NEW b \in blocks, NEW p \in DOMAIN msets
      PROVE  Finish(b) <= p \/ p + MsetSize <= Start(b)
  <2>1. p \in Nat /\ MSETLEN \in Nat \ {0} /\ MsetSize = 8 /\ MsetSize <= MSETLEN
    BY Constants, MallocAssumption DEF HInv, TypeOK
  <2>2. CASE Small(b) /\ b.head = p
    BY <2>2, Extent
  <2>3. CASE ~(Small(b) /\ b.head = p)
    <3>1. PageSpan(Base(b), Len(b)) \cap PageSpan(p, MSETLEN) = {}
      <4>1. CASE Small(b)
        BY <1>1, <2>3, <4>1, Extent DEF HInv, PoolsApart, PoolSpan
      <4>2. CASE ~Small(b)
        BY <1>1, <4>2 DEF HInv, LargeSound, PoolSpan
      <4> QED BY <4>1, <4>2
    <3>2. /\ Base(b) \in Nat /\ Len(b) \in Nat \ {0}
          /\ Base(b) <= Start(b) /\ Finish(b) <= Base(b) + Len(b)
          /\ Start(b) \in Nat /\ Finish(b) \in Nat
      BY <1>1
    <3> HIDE DEF Base, Len
    <3>3. Base(b) + Len(b) <= p \/ p + MSETLEN <= Base(b)
      BY <2>1, <3>1, <3>2, Spans
    <3> QED BY <2>1, <3>2, <3>3
  <2> QED BY <2>2, <2>3
<1> QED BY <1>2, <1>3 DEF BlocksApart

\* No two blocks share a byte, nor do a block and the counts of a pool.
\* (malloc and free of malloc.c).
THEOREM BlocksKeptApart ==
    ASSUME OnEH3
    PROVE  Spec => []BlocksApart
<1>1. HInv => BlocksApart
  BY HoldsApart
<1> QED BY <1>1, HeapInvariant, PTL

LEMMA HoldsMapped ==
    ASSUME HInv, OnEH3
    PROVE  BlocksMapped
<1>1. ASSUME NEW b \in blocks
      PROVE  PageSpan(Start(b), Finish(b) - Start(b)) \subseteq mapped
  <2>1. /\ Start(b) \in Nat /\ Finish(b) - Start(b) \in Nat \ {0} /\ MSETLEN \in Nat \ {0}
        /\ Finish(b) \in Int
    BY Extent, Constants DEF HInv, TypeOK, Finish
  <2> DEFINE s == Start(b)
             l == Finish(b) - Start(b)
  <2>2. CASE Small(b)
    <3>1. /\ b.head \in Nat /\ b.head <= s /\ s + l <= b.head + MSETLEN
          /\ PageSpan(b.head, MSETLEN) \subseteq mapped
      BY <2>1, <2>2, Extent, Constants DEF HInv, TypeOK, PoolsSound, PoolSpan
    <3> HIDE DEF s, l
    <3>2. s \in Nat /\ l \in Nat \ {0}
      BY <2>1 DEF s, l
    <3>3. PageSpan(s, l) \subseteq PageSpan(b.head, MSETLEN)
      BY <2>1, <3>1, <3>2, Spans
    <3> QED BY <3>1, <3>3 DEF s, l
  <2>3. CASE ~Small(b)
    <3>1. s = b.at - PGSIZE /\ l = b.head
      <4>1. b.head \in Nat
        BY DEF HInv, TypeOK
      <4> QED BY <2>1, <2>3, <4>1, Extent
    <3>2. LargeSpan(b) \subseteq mapped
      BY <2>3 DEF HInv, LargeSound
    <3> QED BY <3>1, <3>2 DEF LargeSpan
  <2> QED BY <2>2, <2>3
<1>2. \A b \in blocks : Small(b) => b.head \in DOMAIN msets
  BY DEF HInv, SmallSound
<1>3. \A p \in DOMAIN msets : PageSpan(p, MSETLEN) \subseteq mapped /\ msets[p].size <= MSETLEN
  BY DEF HInv, PoolsSound, PoolSpan
<1> QED BY <1>1, <1>2, <1>3 DEF BlocksMapped

\* A live block is mapped, and so is its pool, to its end.
\* (malloc and free of malloc.c).
THEOREM BlocksStayMapped ==
    ASSUME OnEH3
    PROVE  Spec => []BlocksMapped
<1>1. HInv => BlocksMapped
  BY HoldsMapped
<1> QED BY <1>1, HeapInvariant, PTL

\* A page back is at most one page number less.
LEMMA PageBack ==
    ASSUME NEW x \in Nat
    PROVE  PageOf(x + PGSIZE) <= PageOf(x) + 1
<1> DEFINE y == x + PGSIZE
           i == PageOf(x)    d == x % PGSIZE
           j == PageOf(y)    e == y % PGSIZE
<1>1. y \in Nat
  BY Constants
<1>2. /\ x = PGSIZE * i + d /\ i \in Nat /\ d \in 0 .. PGSIZE - 1
      /\ y = PGSIZE * j + e /\ j \in Nat /\ e \in 0 .. PGSIZE - 1
  <2> HIDE DEF y
  <2> QED BY <1>1, Constants, Division DEF PageOf
<1>3. y = x + PGSIZE
  OBVIOUS
<1> HIDE DEF i, j, d, e, y
<1>4. ASSUME j - i >= 2 PROVE FALSE
  <2>1. PGSIZE * (j - i) >= PGSIZE + PGSIZE
    BY <1>2, <1>4, Constants
  <2>2. PGSIZE * (j - i) = PGSIZE * j - PGSIZE * i /\ PGSIZE * j \in Int /\ PGSIZE * i \in Int
    BY <1>2, Constants
  <2> QED BY <1>2, <1>3, <2>1, <2>2, Constants
<1>5. j <= i + 1
  BY <1>2, <1>4
<1> QED BY <1>5 DEF i, j, y

\* A pool that goes leaves at most its last page behind (malloc.c, line 73).
THEOREM PoolsReturned ==
    ASSUME OnEH3
    PROVE  Spec => PoolReturned
<1> DEFINE Whole == \A p \in DOMAIN msets \ DOMAIN msets' :
                      /\ mapped \ mapped' \subseteq PageSpan(p, MSETLEN)
                      /\ Cardinality(PageSpan(p, MSETLEN) \cap mapped') <= 1
<1>1. ASSUME HInv, [Next]_vars PROVE Whole
  <2>1. ASSUME NEW b \in blocks, FreePool(b) PROVE Whole
    <3> DEFINE q == b.head
               last == PageOf(q + MSETLEN - 1)
    <3>1. Small(b) /\ q # pool /\ q \in DOMAIN msets
      BY <1>1, <2>1, Tells DEF FreeTells, FreePool, HInv, SmallSound
    <3>2. /\ q \in Nat \ {0} /\ msets[q].size \in Nat \ {0} /\ msets[q].size <= MSETLEN
          /\ MSETLEN - msets[q].size <= PGSIZE
      BY <1>1, <3>1, Constants DEF HInv, TypeOK, PoolsSound, NULL
    <3>3. /\ DOMAIN msets \ DOMAIN msets' = {q} /\ mapped' = mapped \ UsedPages(q)
      BY <2>1, <3>1 DEF FreePool
    <3>4. UsedPages(q) \subseteq PageSpan(q, MSETLEN)
      BY <1>1, <3>1, UsedWithin DEF PoolSpan
    <3>5. PageSpan(q, MSETLEN) \cap mapped' \subseteq {last}
      <4> DEFINE s == msets[q].size
                 x == q + s - 1
                 y == q + MSETLEN - 1
      <4>1. x \in Nat /\ y \in Nat /\ x <= y /\ y <= x + PGSIZE /\ x + PGSIZE \in Nat
        BY <3>2, Constants
      <4> HIDE DEF x, y, q
      <4>2. PageOf(y) <= PageOf(x + PGSIZE) /\ PageOf(x + PGSIZE) <= PageOf(x) + 1
            /\ PageOf(x) \in Nat /\ PageOf(y) \in Nat /\ PageOf(x + PGSIZE) \in Nat
        BY <4>1, PageOrder, PageBack
      <4>3. UsedPages(q) = PageOf(q) .. PageOf(x) /\ PageSpan(q, MSETLEN) = PageOf(q) .. PageOf(y)
        BY DEF UsedPages, PageSpan, x, y
      <4>4. last = PageOf(y)
        BY DEF y
      <4>5. PageOf(q) \in Nat
        BY <3>2, PageOrder
      <4> HIDE DEF last
      <4> QED BY <3>3, <4>2, <4>3, <4>4, <4>5
    <3>6. Cardinality(PageSpan(q, MSETLEN) \cap mapped') <= 1
      <4>1. IsFiniteSet({last}) /\ Cardinality({last}) = 1
        BY FS_Singleton
      <4> HIDE DEF last
      <4>2. PageSpan(q, MSETLEN) \cap mapped' \in SUBSET {last}
        BY <3>5
      <4> QED BY <4>1, <4>2, FS_Subset
    <3>7. mapped \ mapped' \subseteq PageSpan(q, MSETLEN)
      BY <3>3, <3>4
    <3> QED BY <3>3, <3>6, <3>7
  <2>2. ASSUME NEW b \in blocks, FreeInPool(b) \/ FreeLarge(b) PROVE DOMAIN msets \subseteq DOMAIN msets'
    BY <1>1, <2>2 DEF FreeInPool, FreeLarge, HInv, TypeOK
  <2>3. ASSUME NEW n \in Sizes,
               \/ MallocFromPool(n) \/ MallocReusing(n) \/ MallocNewPool(n)
               \/ MallocNoPool(n) \/ MallocLarge(n)
        PROVE  DOMAIN msets \subseteq DOMAIN msets'
    BY <1>1, <2>3 DEF MallocFromPool, MallocReusing, MallocNewPool, MallocNoPool, MallocLarge,
                      HInv, TypeOK
  <2>4. CASE UNCHANGED vars
    BY <2>4 DEF vars
  <2> HIDE DEF Whole
  <2>5. DOMAIN msets \subseteq DOMAIN msets' => Whole
    BY DEF Whole
  <2> QED BY <1>1, <2>1, <2>2, <2>3, <2>4, <2>5 DEF Next
<1>2. HInv /\ [Next]_vars => [Whole]_vars
  BY <1>1
<1> QED BY <1>2, HeapInvariant, PTL DEF Spec, PoolReturned
=============================================================================
