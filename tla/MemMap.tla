------------------------------- MODULE MemMap -------------------------------
(***************************************************************************)
(* The guest memory of the emulator: emu/mem.c.  Mappings are heap nodes   *)
(* in a doubly linked list sorted by address; neighbours that touch and    *)
(* have the same protection are one mapping.  The loops of the code are    *)
(* actions that fire once per iteration, so a state of this module is a    *)
(* state of the heap between two iterations or two blocks of a function.   *)
(*                                                                         *)
(* A node of the heap is a member of Node; live is the set malloc has      *)
(* handed out and free has not taken back.  Each struct field is a         *)
(* function on Node; a freed node's fields are reset.                      *)
(***************************************************************************)
EXTENDS Words, FiniteSets

CONSTANTS
    Node,                                          \* heap chunks for mmap_t
    NULL,                                          \* the null pointer
    Prots, Values, Addrs, Sizes, Numbs, Junk       \* as in PageMap

ASSUME MemMapAssumption ==
    /\ NULL \notin Node
    /\ Prots # {} /\ Values # {} /\ Junk \notin Values
    /\ Addrs \subseteq Words /\ Sizes \subseteq Words /\ Numbs \subseteq Words

VARIABLES
    mem,                                  \* list head
    live,                                 \* allocated nodes
    addr, size, prot, prev, next, data,   \* the fields of mmap_t
    pc,                                   \* where the running call stands
    req,                                  \* the arguments of the call, as passed
    a, s,                                 \* its locals addr and size, once rounded
    cur,                                  \* local m, prev, this or lo
    hi,                                   \* local hi of mem_unmap
    ret                                   \* return value

heap   == <<mem, live, addr, size, prot, prev, next, data>>
locals == <<a, s, cur, hi>>
vars   == <<heap, pc, req, locals, ret>>

AnyProt  == CHOOSE p \in Prots : TRUE
AnyValue == CHOOSE v \in Values : TRUE

Request(op, ad, sz, pr, val) ==
    [op |-> op, addr |-> ad, size |-> sz, prot |-> pr, val |-> val]
NoRequest == Request("none", 0, 0, AnyProt, AnyValue)

MapRequests   == {Request("map", x, n, p, AnyValue) :
                      x \in Addrs \cup {0}, n \in Sizes, p \in Prots}
UnmapRequests == {Request("unmap", x, n, AnyProt, AnyValue) : x \in Addrs, n \in Sizes}
FindRequests  == {Request("find", x, n, AnyProt, AnyValue) : x \in Addrs, n \in Numbs}
WriteRequests == {Request("write", x, n, AnyProt, v) :
                      x \in Addrs, n \in Numbs, v \in Values}
Requests == MapRequests \cup UnmapRequests \cup FindRequests \cup WriteRequests

Pointer == Node \cup {NULL}

\* addr + size of a mapping; 0 when it ends at the end of memory.
End(n)  == Word(addr[n] + size[n])
\* LAST_BYTE_M
Last(n) == LastByte(addr[n], size[n])

\* A block of n bytes as malloc returns it.
Fresh(n) == [i \in 0 .. n - 1 |-> Junk]
\* Mutant of Grown: the size grows and the block does not.
GrownNot(block, n, k) == block

\* A block of n bytes after realloc added k to it.
Grown(block, n, k) == [i \in 0 .. n + k - 1 |-> IF i < n THEN block[i] ELSE Junk]
\* Mutant of Joined: the block grows and the other is not copied.
JoinedNotCopied(block, n, other, k) == Grown(block, n, k)

\* A block of n bytes with the k bytes of another copied behind them.
Joined(block, n, other, k) ==
    [i \in 0 .. n + k - 1 |-> IF i < n THEN block[i] ELSE other[i - n]]
\* The first n bytes of a block, as realloc to a smaller size keeps them.
Kept(block, n) == [i \in 0 .. n - 1 |-> block[i]]
\* Mutant of Slice: the bytes from the start of the block.
SliceFromStart(block, k, n) == Kept(block, n)

\* n bytes of a block from offset k, as memcpy and memmove take them.
Slice(block, k, n) == [i \in 0 .. n - 1 |-> block[i + k]]

-----------------------------------------------------------------------------
(* Entry: a call arrives and its first block runs.                         *)

Init == /\ mem = NULL /\ live = {}
        /\ addr = [n \in Node |-> 0] /\ size = [n \in Node |-> 0]
        /\ prot = [n \in Node |-> AnyProt]
        /\ prev = [n \in Node |-> NULL] /\ next = [n \in Node |-> NULL]
        /\ data = [n \in Node |-> Fresh(0)]
        /\ pc = "idle" /\ req = NoRequest
        /\ a = 0 /\ s = 0 /\ cur = NULL /\ hi = NULL /\ ret = 0

Call == /\ pc = "idle"
        /\ pc' = "entry"
        /\ req' \in Requests
        /\ UNCHANGED <<heap, locals, ret>>

\* The guard at the top of mem_find_, and where its walk starts.
WalkFrom(x) == IF mem = NULL \/ addr[mem] > x THEN NULL ELSE mem

\* mem_map with an address: mmap_fixed rounds and looks for the mapping below.
MapFixedEntry ==
    /\ pc = "entry" /\ req.op = "map" /\ req.addr # 0
    /\ a' = PageDown(req.addr)
    /\ s' = RoundUp(req.addr, req.size)
    /\ cur' = WalkFrom(a')
    /\ pc' = "walk"
    /\ UNCHANGED <<heap, req, hi, ret>>

\* mmap_random, first branch: no mappings, or room before the first one.
RoomAtStart(n) == mem # NULL => Word(MMAP_MIN_ADDR + n) < addr[mem]

MapAnywhereEntry ==
    /\ pc = "entry" /\ req.op = "map" /\ req.addr = 0
    /\ s' = RoundSize(req.size)
    /\ \/ /\ RoomAtStart(s')
          /\ a' = MMAP_MIN_ADDR /\ cur' = NULL /\ pc' = "new"
       \/ /\ ~RoomAtStart(s')
          /\ a' = a /\ cur' = mem /\ pc' = "gap"
    /\ UNCHANGED <<heap, req, hi, ret>>

\* mem_unmap rounds; an empty range returns at once, a range past the end of
\* memory is cut.
UnmapEntry ==
    /\ pc = "entry" /\ req.op = "unmap"
    /\ LET n == RoundUp(req.addr, req.size)
       IN  /\ a' = PageDown(req.addr)
           /\ \/ n = 0 /\ s' = 0 /\ cur' = NULL /\ pc' = "done"
              \/ /\ n # 0
                 /\ s' = IF LastByte(a', n) < a' THEN Word(-a') ELSE n
                 /\ cur' = WalkFrom(a')
                 /\ pc' = "walk"
    /\ UNCHANGED <<heap, req, hi, ret>>

\* mem_find, alone or at the head of mem_write: nothing is rounded.
FindEntry ==
    /\ pc = "entry" /\ req.op \in {"find", "write"}
    /\ a' = req.addr /\ s' = req.size
    /\ cur' = WalkFrom(a')
    /\ pc' = "walk"
    /\ UNCHANGED <<heap, req, hi, ret>>

-----------------------------------------------------------------------------
(* The walks along the list.                                               *)

\* Mutant of WalkOn: stops short of a mapping that starts at the address.
WalkOnBelow == cur # NULL /\ next[cur] # NULL /\ addr[next[cur]] < a

\* mem_find_ goes on while the next mapping starts no higher than the address.
WalkOn == cur # NULL /\ next[cur] # NULL /\ addr[next[cur]] <= a

\* Mutant of Walk: starts over at the head.
WalkFromHead == /\ pc = "walk" /\ WalkOn
                /\ cur' = mem
                /\ UNCHANGED <<heap, pc, req, a, s, hi, ret>>

Walk == /\ pc = "walk" /\ WalkOn
        /\ cur' = next[cur]
        /\ UNCHANGED <<heap, pc, req, a, s, hi, ret>>

\* mem_find_ returns to mmap_fixed, mem_unmap or mem_find.
WalkDone == /\ pc = "walk" /\ ~WalkOn
            /\ pc' = CASE req.op = "map"   -> "new"
                       [] req.op = "unmap" -> "lohi"
                       [] OTHER            -> "found"
            /\ UNCHANGED <<heap, req, locals, ret>>

\* Mutant of GapTooSmall: passes over a gap of exactly the size.
GapNotLarger == next[cur] # NULL /\ Word(addr[next[cur]] - End(cur)) <= s

\* mmap_random's walk to the first mapping with a large enough gap after it.
GapTooSmall == next[cur] # NULL /\ Word(addr[next[cur]] - End(cur)) < s

GapWalk == /\ pc = "gap" /\ GapTooSmall
           /\ cur' = next[cur]
           /\ UNCHANGED <<heap, pc, req, a, s, hi, ret>>

GapFound == /\ pc = "gap" /\ ~GapTooSmall
            /\ a' = End(cur)
            /\ pc' = "new"
            /\ UNCHANGED <<heap, req, s, cur, hi, ret>>

-----------------------------------------------------------------------------
(* mmap_new(prev = cur, a, s, req.prot).                                   *)

\* Mutant of Following: nothing follows when nothing precedes.
FollowingCur == IF cur = NULL THEN NULL ELSE next[cur]

Following == IF cur = NULL THEN mem ELSE next[cur]
PrevEnd   == IF cur = NULL THEN MMAP_MIN_ADDR ELSE End(cur)
ThisLast  == LastByte(a, s)

\* Mutant of CanMap: asks only that the next mapping begins above this one.
CanMapOntoNext == /\ s # 0
                  /\ ~(ThisLast < a)
                  /\ ~(a <= Word(PrevEnd - 1))
                  /\ Following # NULL => ~(addr[Following] <= a)

CanMap == /\ s # 0
          /\ ~(ThisLast < a)
          /\ ~(a <= Word(PrevEnd - 1))
          /\ Following # NULL => ~(addr[Following] <= ThisLast)

MapRefused == /\ pc = "new" /\ ~CanMap
              /\ ret' = 0
              /\ pc' = "done"
              /\ UNCHANGED <<heap, req, locals>>

MergesWithPrev == cur # NULL /\ a = PrevEnd /\ req.prot = prot[cur]

\* The previous mapping grows; realloc leaves what it adds uninitialised.
ExtendPrev ==
    /\ pc = "new" /\ CanMap /\ MergesWithPrev
    /\ size' = [size EXCEPT ![cur] = @ + s]
    /\ data' = [data EXCEPT ![cur] = Grown(@, size[cur], s)]
    /\ ret' = a
    /\ pc' = "merge"
    /\ UNCHANGED <<mem, live, addr, prot, prev, next, req, locals>>

\* A new node goes in between cur and the mapping after it.
InsertNode ==
    /\ pc = "new" /\ CanMap /\ ~MergesWithPrev
    /\ \E n \in Node \ live :
        /\ live' = live \cup {n}
        /\ addr' = [addr EXCEPT ![n] = a]
        /\ size' = [size EXCEPT ![n] = s]
        /\ prot' = [prot EXCEPT ![n] = req.prot]
        /\ data' = [data EXCEPT ![n] = Fresh(s)]
        /\ prev' = [m \in Node |-> IF m = n THEN cur
                                   ELSE IF m = Following THEN n ELSE prev[m]]
        /\ next' = [m \in Node |-> IF m = n THEN Following
                                   ELSE IF m = cur THEN n ELSE next[m]]
        /\ mem'  = IF cur = NULL THEN n ELSE mem
        /\ cur'  = n
    /\ ret' = a
    /\ pc' = "merge"
    /\ UNCHANGED <<req, a, s, hi>>

\* Mutant of MergesWithNext: compares the last byte, not the end.
MergesWithLast == /\ next[cur] # NULL
                  /\ LastByte(a, s) = addr[next[cur]]
                  /\ req.prot = prot[next[cur]]

MergesWithNext == /\ next[cur] # NULL
                  /\ Word(a + s) = addr[next[cur]]
                  /\ req.prot = prot[next[cur]]

\* Reset the fields of a freed node, apart from its neighbours' links.
Freed(f, n, v) == [f EXCEPT ![n] = v]

\* The mapping after cur is copied to cur's tail and freed.
MergeNext ==
    /\ pc = "merge" /\ MergesWithNext
    /\ LET n == next[cur]
       IN  /\ size' = [size EXCEPT ![cur] = @ + size[n], ![n] = 0]
           /\ data' = [data EXCEPT
                         ![cur] = Joined(@, size[cur], data[n], size[n]),
                         ![n] = Fresh(0)]
           /\ next' = [m \in Node |-> IF m = cur THEN next[n]
                                      ELSE IF m = n THEN NULL ELSE next[m]]
           /\ prev' = [m \in Node |-> IF m = n THEN NULL
                                      ELSE IF m = next[n] THEN cur ELSE prev[m]]
           /\ addr' = Freed(addr, n, 0)
           /\ prot' = Freed(prot, n, AnyProt)
           /\ live' = live \ {n}
    /\ pc' = "done"
    /\ UNCHANGED <<mem, req, locals, ret>>

NoMergeNext == /\ pc = "merge" /\ ~MergesWithNext
               /\ pc' = "done"
               /\ UNCHANGED <<heap, req, locals, ret>>

-----------------------------------------------------------------------------
(* mem_unmap after its mem_find_: cur is lo.                               *)

RangeLast == LastByte(a, s)

\* Mutant of LoHi: lo stays on a mapping that starts with the range.
LoStays == /\ pc = "lohi"
           /\ hi' = IF cur = NULL THEN mem
                    ELSE IF addr[cur] = a THEN cur ELSE next[cur]
           /\ pc' = "unlink"
           /\ UNCHANGED <<heap, req, a, s, cur, ret>>

\* lo and hi: the mappings that enclose those the range covers.
LoHi == /\ pc = "lohi"
        /\ \/ /\ cur = NULL
              /\ hi' = mem /\ cur' = NULL
           \/ /\ cur # NULL /\ addr[cur] = a
              /\ hi' = cur /\ cur' = prev[cur]
           \/ /\ cur # NULL /\ addr[cur] # a
              /\ hi' = next[cur] /\ cur' = cur
        /\ pc' = "unlink"
        /\ UNCHANGED <<heap, req, a, s, ret>>

Covered == hi # NULL /\ Last(hi) <= RangeLast

\* Unlink and free a mapping the range covers.
Unlink ==
    /\ pc = "unlink" /\ Covered
    /\ mem'  = IF prev[hi] = NULL THEN next[hi] ELSE mem
    /\ next' = [m \in Node |-> IF m = hi THEN NULL
                               ELSE IF m = prev[hi] THEN next[hi] ELSE next[m]]
    /\ prev' = [m \in Node |-> IF m = hi THEN NULL
                               ELSE IF m = next[hi] THEN prev[hi] ELSE prev[m]]
    /\ live' = live \ {hi}
    /\ addr' = Freed(addr, hi, 0)
    /\ size' = Freed(size, hi, 0)
    /\ prot' = Freed(prot, hi, AnyProt)
    /\ data' = Freed(data, hi, Fresh(0))
    /\ hi' = next[hi]
    /\ UNCHANGED <<pc, req, a, s, cur, ret>>

UnlinkDone == /\ pc = "unlink" /\ ~Covered
              /\ pc' = "trimlo"
              /\ UNCHANGED <<heap, req, locals, ret>>

TouchesLo == cur # NULL /\ Last(cur) >= a

\* The range ends inside lo: a new node takes lo's tail, lo keeps its head.
SplitLo ==
    /\ pc = "trimlo" /\ TouchesLo /\ Last(cur) > RangeLast
    /\ \E n \in Node \ live :
        LET tail == Word(a + s)
            left == Word(End(cur) - tail)
            trim == Word(End(cur) - a)
        IN  /\ live' = live \cup {n}
            /\ addr' = [addr EXCEPT ![n] = tail]
            /\ size' = [size EXCEPT ![n] = left, ![cur] = @ - trim]
            /\ prot' = [prot EXCEPT ![n] = prot[cur]]
            /\ data' = [data EXCEPT
                          ![n]   = Slice(data[cur], tail - addr[cur], left),
                          ![cur] = Kept(data[cur], size[cur] - trim)]
            /\ prev' = [m \in Node |-> IF m = n THEN cur
                                       ELSE IF m = next[cur] THEN n ELSE prev[m]]
            /\ next' = [m \in Node |-> IF m = n THEN next[cur]
                                       ELSE IF m = cur THEN n ELSE next[m]]
    /\ pc' = "trimhi"
    /\ UNCHANGED <<mem, req, locals, ret>>

\* The range covers lo's tail.
TrimLo ==
    /\ pc = "trimlo" /\ TouchesLo /\ ~(Last(cur) > RangeLast)
    /\ LET trim == Word(End(cur) - a)
       IN  /\ size' = [size EXCEPT ![cur] = @ - trim]
           /\ data' = [data EXCEPT ![cur] = Kept(@, size[cur] - trim)]
    /\ pc' = "trimhi"
    /\ UNCHANGED <<mem, live, addr, prot, prev, next, req, locals, ret>>

KeepLo == /\ pc = "trimlo" /\ ~TouchesLo
          /\ pc' = "trimhi"
          /\ UNCHANGED <<heap, req, locals, ret>>

\* Mutant of TouchesHi: a range that ends inside hi leaves it.
PastHiEnd == hi # NULL /\ RangeLast >= Last(hi)

TouchesHi == hi # NULL /\ RangeLast >= addr[hi]

\* The range covers the front of hi: its bytes move down.
TrimHi ==
    /\ pc = "trimhi" /\ TouchesHi
    /\ LET trim == Word(Word(a + s) - addr[hi])
       IN  /\ size' = [size EXCEPT ![hi] = @ - trim]
           /\ addr' = [addr EXCEPT ![hi] = @ + trim]
           /\ data' = [data EXCEPT ![hi] = Slice(@, trim, size[hi] - trim)]
    /\ pc' = "done"
    /\ UNCHANGED <<mem, live, prot, prev, next, req, locals, ret>>

KeepHi == /\ pc = "trimhi" /\ ~TouchesHi
          /\ pc' = "done"
          /\ UNCHANGED <<heap, req, locals, ret>>

-----------------------------------------------------------------------------
(* mem_find after its mem_find_, and mem_write behind it.                  *)

\* Mutant of Holds: asks for the first byte only.
HoldsFirst == cur # NULL /\ Word(End(cur) - 1) >= a

\* The mapping below addr holds addr .. addr+numb-1.  The subtraction wraps.
Holds == cur # NULL /\ Word(End(cur) - s) >= a

FindDone == /\ pc = "found" /\ req.op = "find"
            /\ ret' = IF Holds THEN addr[cur] ELSE 0
            /\ pc' = "done"
            /\ UNCHANGED <<heap, req, locals>>

WriteDone ==
    /\ pc = "found" /\ req.op = "write" /\ Holds
    /\ LET off == a - addr[cur]
       IN  data' = [data EXCEPT ![cur] =
                      [i \in DOMAIN @ |-> IF off <= i /\ i < off + s
                                          THEN req.val ELSE @[i]]]
    /\ pc' = "done"
    /\ UNCHANGED <<mem, live, addr, size, prot, prev, next, req, locals, ret>>

\* mem_get: "segmentation fault" ends the emulator.
Fault == /\ pc = "found" /\ req.op = "write" /\ ~Holds
         /\ pc' = "exit"
         /\ UNCHANGED <<heap, req, locals, ret>>

Return == /\ pc = "done"
          /\ pc' = "idle" /\ req' = NoRequest /\ ret' = 0
          /\ a' = 0 /\ s' = 0 /\ cur' = NULL /\ hi' = NULL
          /\ UNCHANGED heap

Step == \/ MapFixedEntry \/ MapAnywhereEntry \/ UnmapEntry \/ FindEntry
        \/ Walk \/ WalkDone \/ GapWalk \/ GapFound
        \/ MapRefused \/ ExtendPrev \/ InsertNode \/ MergeNext \/ NoMergeNext
        \/ LoHi \/ Unlink \/ UnlinkDone \/ SplitLo \/ TrimLo \/ KeepLo
        \/ TrimHi \/ KeepHi
        \/ FindDone \/ WriteDone \/ Fault \/ Return

\* After a fault the process is gone.
Exited == pc = "exit" /\ UNCHANGED vars

Next == Call \/ Step \/ Exited

Spec == Init /\ [][Next]_vars

-----------------------------------------------------------------------------
(* Properties.                                                             *)

\* Types of all variables: pointers are nodes or NULL, fields are words, a
\* mapping's block has exactly as many bytes as its size says.
TypeOK ==
    /\ live \subseteq Node
    /\ mem \in Pointer /\ cur \in Pointer /\ hi \in Pointer
    /\ prev \in [Node -> Pointer] /\ next \in [Node -> Pointer]
    /\ addr \in [Node -> Words] /\ size \in [Node -> 0 .. MemSize]
    /\ prot \in [Node -> Prots]
    /\ DOMAIN data = Node
    /\ \A n \in Node : data[n] \in [0 .. size[n] - 1 -> Values \cup {Junk}]
    /\ pc \in {"idle", "entry", "walk", "gap", "new", "merge", "lohi", "unlink",
               "trimlo", "trimhi", "found", "done", "exit"}
    /\ req \in Requests \cup {NoRequest}
    /\ a \in Words /\ s \in Words /\ ret \in Words

Below(m, n) == addr[m] + size[m] <= addr[n]

\* Every mapping is non-empty and lies inside MMAP_MIN_ADDR .. MemSize, whose
\* end it may touch (addr + size then wraps in the code).
Placed(n) == /\ 0 < size[n]
             /\ MMAP_MIN_ADDR <= addr[n]
             /\ addr[n] + size[n] <= MemSize

\* No two mappings share a byte, in any state of any call: mmap_new must
\* refuse, and mem_unmap must cut, in spite of end addresses that wrap to 0.
Disjoint == /\ \A n \in live : Placed(n)
            /\ \A m, n \in live : m # n => Below(m, n) \/ Below(n, m)

Whole(x) == x % PageSize = 0

\* Every mapping is whole pages, wherever the program asked to map and unmap:
\* rounding (which wraps), splitting and trimming never leave part of a page.
PageAligned == \A n \in live : Whole(addr[n]) /\ Whole(size[n])

HeadIsFirst == /\ mem = NULL <=> live = {}
               /\ mem # NULL => /\ mem \in live /\ prev[mem] = NULL
                                /\ \A n \in live : addr[mem] <= addr[n]

\* next[n] is the first mapping above n, NULL when there is none.
NextIsNext(n) ==
    /\ next[n] = NULL => \A m \in live : addr[m] <= addr[n]
    /\ next[n] # NULL => /\ next[n] \in live
                         /\ addr[n] < addr[next[n]]
                         /\ \A m \in live : addr[m] <= addr[n] \/ addr[next[n]] <= addr[m]

PrevMirrorsNext(n) ==
    /\ next[n] # NULL => prev[next[n]] = n
    /\ prev[n] # NULL => prev[n] \in live /\ next[prev[n]] = n
    /\ prev[n] = NULL => n = mem

\* The list reaches every mapping in order of address, forwards and
\* backwards, also between the iterations of mem_unmap's loop.
SortedList == HeadIsFirst /\ \A n \in live : NextIsNext(n) /\ PrevMirrorsNext(n)

Touching(n) == next[n] # NULL /\ addr[n] + size[n] = addr[next[n]]

\* Touching neighbours differ in protection, but for the mapping mmap_new is
\* about to merge.  mem_find relies on it: an access may span what was mapped
\* in two calls, because it is one mapping.
Merged == \A n \in live : /\ Touching(n) /\ prot[n] = prot[next[n]]
                           => pc = "merge" /\ n = cur

\* No pointer a running call holds is to freed memory, nor is the head.
NoDangling == {mem, cur, hi} \ {NULL} \subseteq live

Overlaps(n, x, k) == 0 < k /\ addr[n] < x + k /\ x < addr[n] + size[n]

\* When mem_unmap returns, no mapping has a byte in the rounded range.
UnmapClears ==
    pc = "done" /\ req.op = "unmap" => \A n \in live : ~Overlaps(n, a, s)

\* When mem_find succeeds the mapping holds the whole range, also one that
\* ends with memory, provided the length is no more than MMAP_MIN_ADDR (every
\* access of the processor is at most 8 bytes).
FindHolds ==
    pc = "done" /\ req.op = "find" /\ ret # 0 /\ 0 < s /\ s <= MMAP_MIN_ADDR =>
        /\ cur # NULL /\ addr[cur] <= a
        /\ a + s <= addr[cur] + size[cur]

\* What a running call knows of the list, step by step: where its pointers
\* stand relative to the range, and how much of the range is dealt with.
WalkInv == pc \in {"walk", "lohi", "found"} =>
    /\ cur = NULL => \A n \in live : a < addr[n]
    /\ cur # NULL => addr[cur] <= a
    /\ pc # "walk" /\ cur # NULL /\ next[cur] # NULL => a < addr[next[cur]]

MapInv ==
    /\ pc \in {"gap", "new", "merge"} => req.op = "map"
    /\ pc \in {"idle", "entry", "walk", "gap", "new", "merge"} => hi = NULL
    /\ pc = "gap" => cur # NULL
    /\ pc = "merge" => /\ cur # NULL /\ prot[cur] = req.prot
                       /\ addr[cur] + size[cur] = a + s

Cutting == pc \in {"lohi", "unlink", "trimlo", "trimhi"}

UnmapInv ==
    /\ Cutting => req.op = "unmap"
    /\ Cutting \/ (pc = "walk" /\ req.op = "unmap") => 0 < s /\ a + s <= MemSize
    /\ pc \in {"unlink", "trimlo"} =>
         /\ hi = IF cur = NULL THEN mem ELSE next[cur]
         /\ cur # NULL => addr[cur] < a
         /\ hi # NULL => a <= addr[hi]
    /\ pc = "trimlo" /\ hi # NULL => a + s < addr[hi] + size[hi]
    /\ pc = "trimhi" =>
         /\ hi # NULL => a <= addr[hi] /\ a + s < addr[hi] + size[hi]
         /\ \A n \in live : n # hi => ~Overlaps(n, a, s)

CallInv == WalkInv /\ MapInv /\ UnmapInv

\* The inductive invariant behind the theorems of EmuProofs.
IInv == /\ TypeOK /\ Disjoint /\ SortedList /\ Merged /\ NoDangling
        /\ CallInv /\ UnmapClears

\* The arguments of a call that has rounded them are whole pages too.
CallAligned ==
    /\ pc = "gap" => Whole(s)
    /\ pc \in {"new", "merge"} \/ Cutting \/ (pc = "walk" /\ req.op \in {"map", "unmap"})
         => Whole(a) /\ Whole(s)

AInv == PageAligned /\ CallAligned

-----------------------------------------------------------------------------
(* The memory map implements PageMap.                                      *)

Unmapped == "unmapped"

\* The mapping that holds byte b.  From the moment mem_unmap starts to unlink,
\* its range counts as unmapped: nobody looks until it returns.
BeingCut(b) == pc \in {"unlink", "trimlo", "trimhi"} /\ a <= b /\ b < a + s
Holders(b) == {n \in live : addr[n] <= b /\ b < addr[n] + size[n] /\ ~BeingCut(b)}

PM == INSTANCE PageMap WITH
        page    <- [b \in Words |-> IF Holders(b) = {} THEN Unmapped
                                    ELSE prot[CHOOSE n \in Holders(b) : TRUE]],
        content <- [b \in Words |-> IF Holders(b) = {} THEN Junk
                                    ELSE LET n == CHOOSE n \in Holders(b) : TRUE
                                         IN  data[n][b - addr[n]]],
        at      <- CASE pc \in {"idle", "exit"} -> pc
                     [] pc \in {"entry", "walk", "gap", "new", "lohi", "found"} -> "called"
                     [] OTHER -> "done"

\* Every behaviour of the list of mappings is one of the plain page map.
ImplementsPageMap == PM!Spec
=============================================================================
