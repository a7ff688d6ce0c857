------------------------------- MODULE Malloc -------------------------------
(***************************************************************************)
(* The heap of the C library (libc/malloc.c), which the compiler, the      *)
(* linker and the emulator use when they run on EH3.  Small blocks are cut *)
(* one after the other from a pool, an mset, that counts its live blocks   *)
(* and goes when the last is freed, unless it is the current one; a large  *)
(* block has a mapping of its own.  free tells the two apart by alignment. *)
(*                                                                         *)
(* An address is a number of bytes.  The memory below is a set of pages    *)
(* that mmap adds to and munmap takes from.  A program allocates and frees *)
(* in any order.                                                           *)
(***************************************************************************)
EXTENDS Integers, FiniteSets

CONSTANTS
    PGSIZE, MSETMAX, MSETLEN,     \* as in malloc.c
    MsetSize,                     \* sizeof(struct mset): two ints
    PtrSize,                      \* sizeof(void *) and sizeof(long)
    Pages,                        \* bound: pages 1 .. Pages can be mapped
    Sizes                         \* what a program asks for

ASSUME MallocAssumption ==
    /\ {PGSIZE, MSETMAX, MSETLEN, MsetSize, PtrSize, Pages} \subseteq Nat \ {0}
    /\ Sizes \subseteq Nat
    /\ MSETLEN % PGSIZE = 0 /\ PGSIZE % MsetSize = 0
    /\ MSETMAX <= PGSIZE
    /\ MsetSize + MSETMAX + PtrSize + MsetSize <= MSETLEN
    /\ MsetSize = 8 /\ PtrSize \in {4, 8}

\* What the library is built with here: an offset that is a multiple of 8 is
\* never one that the test in Bumped looks for.
OnEH3 == PtrSize = 4 /\ PGSIZE % 64 = 0

VARIABLES
    mapped,      \* the mapped pages
    pool,        \* address of the current mset, or NULL
    msets,       \* the struct mset at the start of every mapped pool
    blocks       \* blocks handed out: where, how long, and the word before
                 \* (pool) or a page before (large) that free reads

vars == <<mapped, pool, msets, blocks>>

NULL == 0

PageOf(x) == x \div PGSIZE

\* The pages of a mapping of len bytes.
PageSpan(base, len) == PageOf(base) .. PageOf(base + len - 1)

\* What mmap(NULL, len) may return: the start of free pages.  It may also fail
\* at any time.
Room(len) == {r \in {PGSIZE * k : k \in 1 .. Pages} :
                /\ PageOf(r + len - 1) <= Pages
                /\ PageSpan(r, len) \cap mapped = {}}

Init == mapped = {} /\ pool = NULL /\ msets = [x \in {} |-> {}] /\ blocks = {}

-----------------------------------------------------------------------------
(* malloc.                                                                 *)

\* MSETLEN - pool->size >= n + sizeof(void *), unsigned: a pool that is more
\* than full would have room for everything.
Fits(n) == LET left == MSETLEN - msets[pool].size IN left < 0 \/ left >= n + PtrSize

HasRoom(n) == pool # NULL /\ Fits(n)

\* mk_pool uses the current pool again when nothing in it is live.
Reusable == pool # NULL /\ msets[pool].refs = 0

Empty == [refs |-> 0, size |-> MsetSize]

\* Mutant of Rounded: forgets the word before the block.
RoundedBare(n) == ((n + 7) \div 8) * 8

\* (n + sizeof(void *) + 7) & ~7
Rounded(n) == ((n + PtrSize + 7) \div 8) * 8

\* The next block must not be page aligned.  The test adds to a struct mset *,
\* so the offset it looks at is scaled by the size of the struct.
Bumped(p, size) ==
    IF (p + MsetSize * (size + PtrSize)) % PGSIZE = 0 THEN size + PtrSize ELSE size

\* Mutant of Taken: the block is not counted.
TakenUncounted(p, m, n) == [refs |-> m.refs, size |-> Bumped(p, m.size + Rounded(n))]

\* Mutant of BlockAt: the block starts at the word that holds its owner.
BlockAtOwner(p, m, n) == [at |-> p + m.size, len |-> n, head |-> p]

\* A block of n bytes is cut from mset m at p.
Taken(p, m, n) == [refs |-> m.refs + 1, size |-> Bumped(p, m.size + Rounded(n))]
BlockAt(p, m, n) == [at |-> p + m.size + PtrSize, len |-> n, head |-> p]

MallocFromPool(n) ==
    /\ n < MSETMAX /\ HasRoom(n)
    /\ msets' = [msets EXCEPT ![pool] = Taken(pool, @, n)]
    /\ blocks' = blocks \cup {BlockAt(pool, msets[pool], n)}
    /\ UNCHANGED <<mapped, pool>>

MallocReusing(n) ==
    /\ n < MSETMAX /\ ~HasRoom(n) /\ Reusable
    /\ msets' = [msets EXCEPT ![pool] = Taken(pool, Empty, n)]
    /\ blocks' = blocks \cup {BlockAt(pool, Empty, n)}
    /\ UNCHANGED <<mapped, pool>>

MallocNewPool(n) ==
    /\ n < MSETMAX /\ ~HasRoom(n) /\ ~Reusable
    /\ \E p \in Room(MSETLEN) :
        /\ mapped' = mapped \cup PageSpan(p, MSETLEN)
        /\ pool' = p
        /\ msets' = [x \in DOMAIN msets \cup {p} |->
                       IF x = p THEN Taken(p, Empty, n) ELSE msets[x]]
        /\ blocks' = blocks \cup {BlockAt(p, Empty, n)}

\* mmap fails: the current pool is forgotten, and malloc returns NULL.
MallocNoPool(n) ==
    /\ n < MSETMAX /\ ~HasRoom(n) /\ ~Reusable
    /\ pool' = NULL
    /\ UNCHANGED <<mapped, msets, blocks>>

\* The length of the mapping is stored in its first page.
MallocLarge(n) ==
    /\ n >= MSETMAX
    /\ \E r \in Room(n + PGSIZE) :
        /\ mapped' = mapped \cup PageSpan(r, n + PGSIZE)
        /\ blocks' = blocks \cup {[at |-> r + PGSIZE, len |-> n, head |-> n + PGSIZE]}
    /\ UNCHANGED <<pool, msets>>

-----------------------------------------------------------------------------
(* free.                                                                   *)

\* free asks whether the address is page aligned.
InPool(b) == b.at % PGSIZE # 0

\* Mutant of LastOf: one too early.
LastOfTwo(p) == msets[p].refs <= 2

\* The block freed is the last of its pool.
LastOf(p) == msets[p].refs = 1

FreeInPool(b) ==
    /\ InPool(b) /\ ~(LastOf(b.head) /\ b.head # pool)
    /\ msets' = [msets EXCEPT ![b.head].refs = @ - 1]
    /\ blocks' = blocks \ {b}
    /\ UNCHANGED <<mapped, pool>>

\* Mutant of UsedPages: the last page is kept.
UsedButLast(p) == PageSpan(p, msets[p].size) \ {PageOf(p + msets[p].size - 1)}

\* munmap(mset, mset->size): as far as the pool was used.
UsedPages(p) == PageSpan(p, msets[p].size)

FreePool(b) ==
    /\ InPool(b) /\ LastOf(b.head) /\ b.head # pool
    /\ mapped' = mapped \ UsedPages(b.head)
    /\ msets' = [x \in DOMAIN msets \ {b.head} |-> msets[x]]
    /\ blocks' = blocks \ {b}
    /\ UNCHANGED pool

FreeLarge(b) ==
    /\ ~InPool(b)
    /\ mapped' = mapped \ PageSpan(b.at - PGSIZE, b.head)
    /\ blocks' = blocks \ {b}
    /\ UNCHANGED <<pool, msets>>

Next == \/ \E n \in Sizes : \/ MallocFromPool(n) \/ MallocReusing(n) \/ MallocNewPool(n)
                            \/ MallocNoPool(n) \/ MallocLarge(n)
        \/ \E b \in blocks : FreeInPool(b) \/ FreePool(b) \/ FreeLarge(b)

Spec == Init /\ [][Next]_vars

-----------------------------------------------------------------------------

Small(b) == b.len < MSETMAX

\* The bytes that belong to a block: its own and the word or the page before.
Start(b) == IF Small(b) THEN b.at - PtrSize ELSE b.at - PGSIZE
Finish(b) == b.at + b.len

\* No two live blocks share a byte, nor does a block share one with the word
\* free will read before another, or with the counts of a pool.
BlocksApart ==
    /\ \A b, c \in blocks : b = c \/ Finish(b) <= Start(c) \/ Finish(c) <= Start(b)
    /\ \A b \in blocks, p \in DOMAIN msets :
         Finish(b) <= p \/ p + MsetSize <= Start(b)

\* All of a live block is mapped, and so is a pool that has one: no free unmaps
\* a pool too early or a page too many; and no pool is used past its length.
BlocksMapped ==
    /\ \A b \in blocks : PageSpan(Start(b), Finish(b) - Start(b)) \subseteq mapped
    /\ \A b \in blocks : Small(b) => b.head \in DOMAIN msets
    /\ \A p \in DOMAIN msets : /\ PageSpan(p, MSETLEN) \subseteq mapped
                                /\ msets[p].size <= MSETLEN

\* free never mistakes one kind of block for the other.
FreeTells == \A b \in blocks : Small(b) <=> InPool(b)

\* A pool counts its live blocks.
RefsCount == \A p \in DOMAIN msets :
    msets[p].refs = Cardinality({b \in blocks : Small(b) /\ b.head = p})

\* When a pool goes, so do all its pages but possibly the last one, which is
\* lost when the blocks end exactly where it starts (munmap takes the length
\* used, not MSETLEN).
PoolReturned ==
    [][\A p \in DOMAIN msets \ DOMAIN msets' :
         /\ mapped \ mapped' \subseteq PageSpan(p, MSETLEN)
         /\ Cardinality(PageSpan(p, MSETLEN) \cap mapped') <= 1]_vars

-----------------------------------------------------------------------------
(* The inductive invariant.                                                *)

PoolSpan(p)  == PageSpan(p, MSETLEN)
LargeSpan(b) == PageSpan(b.at - PGSIZE, b.head)

TypeOK ==
    /\ mapped \subseteq Nat
    /\ pool = NULL \/ pool \in DOMAIN msets
    /\ DOMAIN msets \subseteq Nat \ {NULL}
    /\ msets \in [DOMAIN msets -> [refs : Nat, size : Nat]]
    /\ blocks \subseteq [at : Nat, len : Nat, head : Nat] /\ IsFiniteSet(blocks)

\* A pool is filled in steps of 8 and was left only when it was nearly full.
PoolsSound == \A p \in DOMAIN msets :
    /\ p % PGSIZE = 0 /\ PoolSpan(p) \subseteq mapped
    /\ msets[p].size % 8 = 0 /\ MsetSize <= msets[p].size /\ msets[p].size <= MSETLEN
    /\ p = pool \/ MSETLEN - msets[p].size <= PGSIZE

PoolsApart == \A p, q \in DOMAIN msets : p = q \/ PoolSpan(p) \cap PoolSpan(q) = {}

\* A small block is in the used part of its pool, off every multiple of 8.
SmallSound == \A b \in blocks : Small(b) =>
    /\ b.head \in DOMAIN msets /\ b.at % 8 = 4
    /\ b.head + MsetSize + PtrSize <= b.at
    /\ b.at + b.len <= b.head + msets[b.head].size

SmallApart == \A b, c \in blocks :
    Small(b) /\ Small(c) /\ b.head = c.head =>
        b = c \/ Finish(b) <= Start(c) \/ Finish(c) <= Start(b)

\* A large block has pages of its own.
LargeSound == \A b \in blocks : ~Small(b) =>
    /\ b.at % PGSIZE = 0 /\ PGSIZE <= b.at /\ b.head = b.len + PGSIZE
    /\ LargeSpan(b) \subseteq mapped
    /\ \A p \in DOMAIN msets : LargeSpan(b) \cap PoolSpan(p) = {}
    /\ \A c \in blocks : Small(c) \/ c = b \/ LargeSpan(b) \cap LargeSpan(c) = {}

HInv == TypeOK /\ PoolsSound /\ PoolsApart /\ SmallSound /\ SmallApart /\ LargeSound /\ RefsCount
=============================================================================
