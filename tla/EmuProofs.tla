----------------------------- MODULE EmuProofs -----------------------------
(***************************************************************************)
(* Proofs about MemMap, for every page size, memory size, set of nodes and *)
(* set of calls; then proof that the list of mappings implements the plain *)
(* map of pages, when no access is longer than MMAP_MIN_ADDR (longer ones  *)
(* may wrap, as FindHolds allows for); and, on top of them, proofs about   *)
(* the emulator, for every program: it never runs through a stale          *)
(* instruction pointer (LineValid), and a program runs on in the code it   *)
(* had (CodeStays).                                                        *)
(***************************************************************************)
EXTENDS Emu, TLAPS

-----------------------------------------------------------------------------
(* Facts about words and rounding.                                         *)

\* A word reduces to itself, and the sum or difference of two words to a word.
LEMMA WordRange ==
    ASSUME NEW x \in Int, -MemSize <= x, x < 2 * MemSize
    PROVE  /\ Word(x) \in Words
           /\ Word(x) = x \/ Word(x) = x + MemSize \/ Word(x) = x - MemSize
BY WordsAssumption DEF Words, Word

\* Rounding down to a page never goes up nor below zero.
LEMMA PageDownRange ==
    ASSUME NEW x \in Nat
    PROVE  PageDown(x) \in Nat /\ PageDown(x) <= x
<1>1. x % PageSize \in Nat
  BY WordsAssumption
<1>2. x % PageSize <= x
  BY WordsAssumption
<1> QED BY <1>1, <1>2 DEF PageDown

\* Rounding a word, even past the end of memory, gives a word.
LEMMA RoundingRange ==
    ASSUME NEW x \in Words, NEW n \in Words
    PROVE  PageDown(x) \in Words /\ RoundUp(x, n) \in Words /\ RoundSize(n) \in Words
<1>1. x % PageSize \in 0 .. PageSize - 1
  BY WordsAssumption DEF Words
<1> QED BY <1>1, PageDownRange, WordsAssumption DEF Words, Word, RoundUp, RoundSize

-----------------------------------------------------------------------------
(* Blocks: what realloc, memcpy and memmove make of well-typed bytes.      *)

\* A block grown by realloc has its new length, and bytes only.
LEMMA GrownBlock ==
    ASSUME NEW n \in Nat, NEW k \in Nat, NEW f \in [0 .. n - 1 -> Values \cup {Junk}]
    PROVE  Grown(f, n, k) \in [0 .. n + k - 1 -> Values \cup {Junk}]
<1>1. \A i \in 0 .. n + k - 1 : i < n => i \in 0 .. n - 1
  OBVIOUS
<1>2. \A i \in 0 .. n + k - 1 : (IF i < n THEN f[i] ELSE Junk) \in Values \cup {Junk}
  BY <1>1
<1> QED BY <1>2, Zenon DEF Grown

\* Two blocks joined have the sum of their lengths, and bytes only.
LEMMA JoinedBlock ==
    ASSUME NEW n \in Nat, NEW k \in Nat,
           NEW f \in [0 .. n - 1 -> Values \cup {Junk}],
           NEW g \in [0 .. k - 1 -> Values \cup {Junk}]
    PROVE  Joined(f, n, g, k) \in [0 .. n + k - 1 -> Values \cup {Junk}]
<1>1. \A i \in 0 .. n + k - 1 : /\ i < n => i \in 0 .. n - 1
                              /\ ~(i < n) => i - n \in 0 .. k - 1
  OBVIOUS
<1>2. \A i \in 0 .. n + k - 1 : (IF i < n THEN f[i] ELSE g[i - n]) \in Values \cup {Junk}
  BY <1>1
<1> QED BY <1>2, Zenon DEF Joined

\* Part of a block is as long as asked, and its values are the block's.
LEMMA SlicedBlock ==
    ASSUME NEW V, NEW n \in Nat, NEW k \in Nat, NEW m \in Nat, k + m <= n,
           NEW f \in [0 .. n - 1 -> V]
    PROVE  Slice(f, k, m) \in [0 .. m - 1 -> V] /\ (m <= n => Kept(f, m) \in [0 .. m - 1 -> V])
<1>1. \A i \in 0 .. m - 1 : i + k \in 0 .. n - 1
  OBVIOUS
<1>2. \A i \in 0 .. m - 1 : f[i + k] \in V
  BY <1>1
<1>3. m <= n => \A i \in 0 .. m - 1 : f[i] \in V
  OBVIOUS
<1> QED BY <1>2, <1>3, Zenon DEF Slice, Kept

-----------------------------------------------------------------------------
(* Facts about requests and mappings in a state of the invariant.          *)

\* Types of the fields of a request.
LEMMA RequestTypes ==
    ASSUME NEW r \in Requests \cup {NoRequest}
    PROVE  /\ r.op \in {"none", "map", "unmap", "find", "write"}
           /\ r.addr \in Words /\ r.size \in Words
           /\ r.prot \in Prots /\ r.val \in Values
<1>1. AnyProt \in Prots /\ AnyValue \in Values
  BY MemMapAssumption DEF AnyProt, AnyValue
<1>2. 0 \in Words
  BY WordsAssumption DEF Words
<1>3. CASE r = NoRequest
  BY <1>1, <1>2, <1>3 DEF NoRequest, Request
<1>4. CASE r \in MapRequests
  BY <1>1, <1>2, <1>4, MemMapAssumption DEF MapRequests, Request
<1>5. CASE r \in UnmapRequests
  BY <1>1, <1>2, <1>5, MemMapAssumption DEF UnmapRequests, Request
<1>6. CASE r \in FindRequests
  BY <1>1, <1>2, <1>6, MemMapAssumption DEF FindRequests, Request
<1>7. CASE r \in WriteRequests
  BY <1>1, <1>2, <1>7, MemMapAssumption DEF WriteRequests, Request
<1> QED BY <1>3, <1>4, <1>5, <1>6, <1>7 DEF Requests

\* Types of the fields of a mapping.
LEMMA NodeTypes ==
    ASSUME TypeOK, NEW n \in live
    PROVE  /\ n \in Node /\ n # NULL
           /\ addr[n] \in Nat /\ size[n] \in Nat /\ prot[n] \in Prots
           /\ data[n] \in [0 .. size[n] - 1 -> Values \cup {Junk}]
<1>1. n \in Node /\ n # NULL
  BY MemMapAssumption DEF TypeOK
<1> QED BY <1>1 DEF TypeOK, Words

\* The rounded range of the running call is a pair of words.
LEMMA LocalTypes ==
    ASSUME TypeOK
    PROVE  a \in Nat /\ s \in Nat /\ a < MemSize /\ s < MemSize /\ MemSize \in Nat
BY WordsAssumption DEF TypeOK, Words

\* The end and the last byte of a mapping, with and without the wrap.
LEMMA MappingEnds ==
    ASSUME TypeOK, Disjoint, NEW n \in live
    PROVE  /\ n \in Node /\ addr[n] \in Words /\ size[n] \in Nat
           /\ End(n) \in Words
           /\ addr[n] + size[n] < MemSize => End(n) = addr[n] + size[n]
           /\ addr[n] + size[n] = MemSize => End(n) = 0
           /\ Last(n) = addr[n] + size[n] - 1
BY WordsAssumption DEF TypeOK, Disjoint, Placed, Words, Word, End, Last, LastByte

\* The last byte of a range that fits in memory.
LEMMA RangeEnds ==
    ASSUME a \in Words, s \in Words, 0 < s, a + s <= MemSize
    PROVE  /\ LastByte(a, s) = a + s - 1
           /\ a + s < MemSize => Word(a + s) = a + s
           /\ a + s = MemSize => Word(a + s) = 0
BY WordsAssumption DEF Words, Word, LastByte

\* What mmap_new has checked when it creates a mapping: the wrapped
\* comparisons of CanMap amount to the unwrapped ones.
LEMMA CanMapMeans ==
    ASSUME TypeOK, Disjoint, SortedList, NoDangling, CanMap
    PROVE  /\ 0 < s /\ a + s <= MemSize
           /\ cur = NULL => MMAP_MIN_ADDR <= a
           /\ cur # NULL => addr[cur] + size[cur] <= a
           /\ Following # NULL => a + s <= addr[Following]
<1>1. a \in Words /\ s \in Words
  BY DEF TypeOK
<1>2. 0 < s /\ a + s <= MemSize
  BY <1>1, WordsAssumption DEF CanMap, ThisLast, LastByte, Word, Words
<1>3. ThisLast = a + s - 1
  BY <1>1, <1>2, RangeEnds DEF ThisLast
<1>4. cur = NULL => MMAP_MIN_ADDR <= a
  BY <1>1, WordsAssumption DEF CanMap, PrevEnd, Word, Words
<1>5. ASSUME cur # NULL PROVE addr[cur] + size[cur] <= a
  <2>1. cur \in live
    BY <1>5 DEF NoDangling
  <2>2. PrevEnd = End(cur)
    BY <1>5 DEF PrevEnd
  <2> QED BY <2>1, <2>2, <1>1, MappingEnds, WordsAssumption
          DEF CanMap, Word, Words, Disjoint, Placed
<1>6. ASSUME Following # NULL PROVE a + s <= addr[Following]
  <2>1. Following \in live
    BY <1>6 DEF NoDangling, Following, SortedList, NextIsNext
  <2> QED BY <2>1, <1>1, <1>3, <1>6, MappingEnds DEF CanMap, Words
<1> QED BY <1>2, <1>4, <1>5, <1>6

-----------------------------------------------------------------------------
(* The invariant holds initially and every action preserves it.            *)

\* The invariant holds when the emulator starts: there are no mappings.
LEMMA InitInv == Init => IInv
<1> SUFFICES ASSUME Init PROVE IInv
  OBVIOUS
<1>1. AnyProt \in Prots
  BY MemMapAssumption DEF AnyProt
<1>2. TypeOK
  BY <1>1, WordsAssumption DEF Init, TypeOK, Pointer, Words, Fresh
<1>3. Disjoint /\ SortedList /\ Merged /\ NoDangling
  BY DEF Init, Disjoint, SortedList, HeadIsFirst, Merged, NoDangling
<1>4. CallInv /\ UnmapClears
  BY DEF Init, CallInv, WalkInv, MapInv, UnmapInv, Cutting, UnmapClears
<1> QED BY <1>2, <1>3, <1>4 DEF IInv

\* A step that leaves the heap alone leaves its shape alone.
LEMMA SameHeap ==
    ASSUME TypeOK, Disjoint, SortedList, UNCHANGED heap
    PROVE  Disjoint' /\ SortedList'
<1>1. Disjoint'
  BY DEF Disjoint, Placed, Below, heap
<1>2. SortedList'
  BY DEF SortedList, HeadIsFirst, NextIsNext, PrevMirrorsNext, heap
<1> QED BY <1>1, <1>2

\* A call that arrives touches nothing but the request.
LEMMA CallStep == ASSUME IInv, Call PROVE IInv'
<1> USE DEF IInv, Call
<1>1. TypeOK'
  BY DEF TypeOK, heap, locals
<1>2. Disjoint' /\ SortedList'
  BY SameHeap
<1>3. Merged' /\ NoDangling'
  BY DEF Merged, Touching, NoDangling, heap, locals
<1>4. CallInv' /\ UnmapClears'
  BY DEF CallInv, WalkInv, MapInv, UnmapInv, Cutting, UnmapClears, heap, locals
<1> QED BY <1>1, <1>2, <1>3, <1>4

\* mem_find_ starts at the head, which is at or below the address, or nowhere.
LEMMA WalkFromMeans ==
    ASSUME TypeOK, SortedList, NEW x \in Words
    PROVE  /\ WalkFrom(x) \in live \cup {NULL}
           /\ WalkFrom(x) = NULL => \A n \in live : x < addr[n]
           /\ WalkFrom(x) # NULL => addr[WalkFrom(x)] <= x
BY DEF WalkFrom, TypeOK, SortedList, HeadIsFirst, Words

\* mmap_fixed starts its walk at or below the rounded address.
LEMMA MapFixedEntryStep == ASSUME IInv, MapFixedEntry PROVE IInv'
<1> USE DEF IInv, MapFixedEntry
<1>1. req.addr \in Words /\ req.size \in Words
  BY RequestTypes DEF TypeOK
<1>2. a' \in Words /\ s' \in Words
  BY <1>1, RoundingRange
<1>3. /\ cur' \in live \cup {NULL}
      /\ cur' = NULL => \A n \in live : a' < addr[n]
      /\ cur' # NULL => addr[cur'] <= a'
  BY <1>2, WalkFromMeans
<1>4. TypeOK'
  BY <1>2, <1>3 DEF TypeOK, Pointer, heap
<1>5. Disjoint' /\ SortedList'
  BY SameHeap
<1>6. Merged' /\ NoDangling'
  BY <1>3 DEF Merged, Touching, NoDangling, heap
<1>7. CallInv' /\ UnmapClears'
  BY <1>3 DEF CallInv, WalkInv, MapInv, UnmapInv, Cutting, UnmapClears, heap
<1> QED BY <1>4, <1>5, <1>6, <1>7

\* mmap_random places the mapping first or starts at the first one.
LEMMA MapAnywhereEntryStep == ASSUME IInv, MapAnywhereEntry PROVE IInv'
<1> USE DEF IInv, MapAnywhereEntry
<1>1. req.size \in Words
  BY RequestTypes DEF TypeOK
<1>2. s' \in Words
  BY <1>1, RoundingRange DEF TypeOK
<1>3. a' \in Words
  <2>1. a \in Words
    BY DEF TypeOK
  <2>2. MMAP_MIN_ADDR \in Words
    BY WordsAssumption DEF Words
  <2> QED BY <2>1, <2>2
<1>4. cur' \in {mem, NULL} /\ pc' \in {"new", "gap"} /\ (pc' = "gap" => cur' # NULL)
  BY DEF RoomAtStart
<1>5. TypeOK'
  BY <1>2, <1>3, <1>4 DEF TypeOK, Pointer, heap
<1>6. Disjoint' /\ SortedList'
  BY SameHeap
<1>7. Merged' /\ NoDangling'
  BY <1>4 DEF Merged, Touching, NoDangling, heap
<1>8. CallInv' /\ UnmapClears'
  BY <1>4 DEF CallInv, WalkInv, MapInv, UnmapInv, Cutting, UnmapClears, heap
<1> QED BY <1>5, <1>6, <1>7, <1>8

\* mem_unmap returns at once or leaves a range that does not wrap.
LEMMA UnmapEntryStep == ASSUME IInv, UnmapEntry PROVE IInv'
<1> USE DEF IInv, UnmapEntry
<1>1. req.addr \in Words /\ req.size \in Words
  BY RequestTypes DEF TypeOK
<1>2. PageDown(req.addr) \in Words /\ RoundUp(req.addr, req.size) \in Words
  BY <1>1, RoundingRange
<1>3. a' \in Words /\ s' \in Words
  BY <1>2, WordsAssumption DEF Word, Words, LastByte
<1>4. CASE RoundUp(req.addr, req.size) = 0
  <2>1. s' = 0 /\ cur' = NULL /\ pc' = "done"
    BY <1>4
  <2>2. TypeOK'
    BY <2>1, <1>3 DEF TypeOK, Pointer, heap
  <2>3. Disjoint' /\ SortedList'
    BY SameHeap
  <2>4. Merged' /\ NoDangling'
    BY <2>1 DEF Merged, Touching, NoDangling, heap
  <2>5. CallInv' /\ UnmapClears'
    BY <2>1 DEF CallInv, WalkInv, MapInv, UnmapInv, Cutting, UnmapClears, Overlaps
  <2> QED BY <2>2, <2>3, <2>4, <2>5
<1>5. CASE RoundUp(req.addr, req.size) # 0
  <2>1. cur' = WalkFrom(a') /\ pc' = "walk"
    BY <1>5
  <2>2. 0 < s' /\ a' + s' <= MemSize
    BY <1>2, <1>5, WordsAssumption DEF Word, Words, LastByte
  <2>3. /\ cur' \in live \cup {NULL}
        /\ cur' = NULL => \A n \in live : a' < addr[n]
        /\ cur' # NULL => addr[cur'] <= a'
    BY <2>1, <1>3, WalkFromMeans
  <2>4. TypeOK'
    BY <2>1, <2>3, <1>3 DEF TypeOK, Pointer, heap
  <2>5. Disjoint' /\ SortedList'
    BY SameHeap
  <2>6. Merged' /\ NoDangling'
    BY <2>1, <2>3 DEF Merged, Touching, NoDangling, heap
  <2>7. CallInv' /\ UnmapClears'
    BY <2>1, <2>2, <2>3
       DEF CallInv, WalkInv, MapInv, UnmapInv, Cutting, UnmapClears, heap
  <2> QED BY <2>4, <2>5, <2>6, <2>7
<1> QED BY <1>4, <1>5

\* mem_find starts its walk at or below the address.
LEMMA FindEntryStep == ASSUME IInv, FindEntry PROVE IInv'
<1> USE DEF IInv, FindEntry
<1>1. a' \in Words /\ s' \in Words
  BY RequestTypes DEF TypeOK
<1>2. /\ cur' \in live \cup {NULL}
      /\ cur' = NULL => \A n \in live : a' < addr[n]
      /\ cur' # NULL => addr[cur'] <= a'
  BY <1>1, WalkFromMeans
<1>3. TypeOK'
  BY <1>1, <1>2 DEF TypeOK, Pointer, heap
<1>4. Disjoint' /\ SortedList'
  BY SameHeap
<1>5. Merged' /\ NoDangling'
  BY <1>2 DEF Merged, Touching, NoDangling, heap
<1>6. CallInv' /\ UnmapClears'
  BY <1>2 DEF CallInv, WalkInv, MapInv, UnmapInv, Cutting, UnmapClears, heap
<1> QED BY <1>3, <1>4, <1>5, <1>6

\* The walk stays on live nodes at or below the address.
LEMMA WalkStep == ASSUME IInv, Walk PROVE IInv'
<1> USE DEF IInv, Walk, WalkOn
<1>1. cur' \in live /\ addr[cur'] <= a
  BY DEF NoDangling, SortedList, NextIsNext
<1>2. TypeOK'
  BY <1>1 DEF TypeOK, Pointer, heap
<1>3. Disjoint' /\ SortedList'
  BY SameHeap
<1>4. Merged' /\ NoDangling'
  BY <1>1 DEF Merged, Touching, NoDangling, heap
<1>5. CallInv' /\ UnmapClears'
  BY <1>1, MemMapAssumption
     DEF CallInv, WalkInv, MapInv, UnmapInv, Cutting, UnmapClears, heap, TypeOK
<1> QED BY <1>2, <1>3, <1>4, <1>5

\* The walk ends at the highest mapping at or below the address.
LEMMA WalkDoneStep == ASSUME IInv, WalkDone PROVE IInv'
<1> USE DEF IInv, WalkDone
<1>1. pc' \in {"new", "lohi", "found"}
  OBVIOUS
<1>2. TypeOK'
  BY <1>1 DEF TypeOK, heap, locals
<1>3. Disjoint' /\ SortedList'
  BY SameHeap
<1>4. Merged' /\ NoDangling'
  BY <1>1 DEF Merged, Touching, NoDangling, heap, locals
<1>5. WalkInv'
  <2>1. cur # NULL /\ next[cur] # NULL => a < addr[next[cur]]
    BY DEF WalkOn, NoDangling, SortedList, NextIsNext, TypeOK, Words
  <2> QED BY <1>1, <2>1 DEF CallInv, WalkInv, heap, locals
<1>6. MapInv' /\ UnmapInv' /\ UnmapClears'
  BY <1>1 DEF CallInv, MapInv, UnmapInv, Cutting, UnmapClears, heap, locals
<1> QED BY <1>2, <1>3, <1>4, <1>5, <1>6 DEF CallInv

\* mmap_random's walk stays on live nodes.
LEMMA GapWalkStep == ASSUME IInv, GapWalk PROVE IInv'
<1> USE DEF IInv, GapWalk, GapTooSmall
<1>1. cur' \in live
  BY DEF NoDangling, SortedList, NextIsNext, CallInv, MapInv
<1>2. TypeOK'
  BY <1>1 DEF TypeOK, Pointer, heap
<1>3. Disjoint' /\ SortedList'
  BY SameHeap
<1>4. Merged' /\ NoDangling'
  BY <1>1 DEF Merged, Touching, NoDangling, heap
<1>5. CallInv' /\ UnmapClears'
  BY <1>1 DEF CallInv, WalkInv, MapInv, UnmapInv, Cutting, UnmapClears, heap
<1> QED BY <1>2, <1>3, <1>4, <1>5

\* mmap_random places the mapping at the end of a live one.
LEMMA GapFoundStep == ASSUME IInv, GapFound PROVE IInv'
<1> USE DEF IInv, GapFound
<1>1. a' \in Words
  BY MappingEnds DEF NoDangling, CallInv, MapInv
<1>2. TypeOK'
  BY <1>1 DEF TypeOK, heap
<1>3. Disjoint' /\ SortedList'
  BY SameHeap
<1>4. Merged' /\ NoDangling'
  BY DEF Merged, Touching, NoDangling, heap
<1>5. CallInv' /\ UnmapClears'
  BY DEF CallInv, WalkInv, MapInv, UnmapInv, Cutting, UnmapClears, heap
<1> QED BY <1>2, <1>3, <1>4, <1>5

\* A refused mapping leaves the list alone.
LEMMA MapRefusedStep == ASSUME IInv, MapRefused PROVE IInv'
<1> USE DEF IInv, MapRefused
<1>1. TypeOK'
  BY WordsAssumption DEF TypeOK, heap, locals, Words
<1>2. Disjoint' /\ SortedList'
  BY SameHeap
<1>3. Merged' /\ NoDangling'
  BY DEF Merged, Touching, NoDangling, heap, locals
<1>4. CallInv' /\ UnmapClears'
  BY DEF CallInv, WalkInv, MapInv, UnmapInv, Cutting, UnmapClears, heap, locals
<1> QED BY <1>1, <1>2, <1>3, <1>4

\* next[n] is the lowest of the mappings above n.
LEMMA NextIsLowest ==
    ASSUME TypeOK, Disjoint, SortedList, NEW n \in live, NEW k \in live, addr[n] < addr[k]
    PROVE  next[n] # NULL /\ next[n] \in live /\ addr[next[n]] <= addr[k]
<1>1. addr[n] \in Nat /\ addr[k] \in Nat
  BY NodeTypes
<1> QED BY <1>1 DEF SortedList, NextIsNext

\* Of two mappings, the one with the lower address lies below the other.
LEMMA LowerIsBelow ==
    ASSUME TypeOK, Disjoint, NEW m \in live, NEW n \in live
    PROVE  /\ m # n => addr[m] # addr[n]
           /\ addr[m] < addr[n] => addr[m] + size[m] <= addr[n]
<1>1. addr[n] \in Nat /\ addr[m] \in Nat /\ size[n] \in Nat /\ size[m] \in Nat
  BY NodeTypes
<1>2. 0 < size[m] /\ 0 < size[n]
  BY DEF Disjoint, Placed
<1>3. m # n => Below(m, n) \/ Below(n, m)
  BY DEF Disjoint
<1> QED BY <1>1, <1>2, <1>3 DEF Below

\* Growing the previous mapping keeps the list sorted and disjoint.
LEMMA ExtendPrevStep == ASSUME IInv, ExtendPrev PROVE IInv'
<1> USE DEF IInv
<1>1. /\ cur \in live /\ cur \in Node /\ cur # NULL
      /\ prot[cur] = req.prot
      /\ 0 < s /\ a + s <= MemSize
      /\ next[cur] # NULL => a + s <= addr[next[cur]]
  BY CanMapMeans, NodeTypes DEF ExtendPrev, MergesWithPrev, NoDangling, Following
<1>2. addr[cur] \in Nat /\ size[cur] \in Nat /\ a \in Nat /\ s \in Nat /\ 0 < size[cur]
  BY <1>1, NodeTypes, LocalTypes DEF Disjoint, Placed
<1>3. addr[cur] + size[cur] = a
  BY <1>1, <1>2, CanMapMeans, MappingEnds, WordsAssumption
     DEF ExtendPrev, MergesWithPrev, PrevEnd, Disjoint, Placed
<1>4. /\ size'[cur] = size[cur] + s
      /\ \A n \in Node : n # cur => size'[n] = size[n]
      /\ UNCHANGED <<mem, live, addr, prot, prev, next, req, locals>>
      /\ ret' = a /\ pc' = "merge"
  BY <1>1 DEF ExtendPrev, TypeOK
<1>5. TypeOK'
  <2>1. size' \in [Node -> 0 .. MemSize]
    <3>1. size[cur] + s \in 0 .. MemSize
      BY <1>1, <1>2, <1>3, LocalTypes
    <3> QED BY <1>1, <3>1 DEF TypeOK, ExtendPrev
  <2>2. DOMAIN data' = Node
    BY DEF TypeOK, ExtendPrev
  <2>3. \A n \in Node : data'[n] \in [0 .. size'[n] - 1 -> Values \cup {Junk}]
    <3> SUFFICES ASSUME NEW n \in Node
                 PROVE  data'[n] \in [0 .. size'[n] - 1 -> Values \cup {Junk}]
      OBVIOUS
    <3>1. CASE n # cur
      BY <1>4, <3>1 DEF TypeOK, ExtendPrev
    <3>2. CASE n = cur
      <4>1. data[cur] \in [0 .. size[cur] - 1 -> Values \cup {Junk}]
        BY <1>1, NodeTypes
      <4>2. data'[cur] = Grown(data[cur], size[cur], s)
        BY <1>1 DEF TypeOK, ExtendPrev
      <4> QED BY <3>2, <4>1, <4>2, <1>2, <1>4, GrownBlock
    <3> QED BY <3>1, <3>2
  <2> QED BY <1>4, <2>1, <2>2, <2>3 DEF TypeOK, locals
<1>6. Disjoint'
  <2>1. ASSUME NEW n \in live PROVE Placed(n)'
    BY <1>1, <1>2, <1>3, <1>4, NodeTypes DEF Disjoint, Placed
  <2>2. ASSUME NEW k \in live, k # cur
        PROVE  addr[cur] + size'[cur] <= addr[k] \/ addr[k] + size[k] <= addr[cur]
    <3>1. addr[k] \in Nat /\ size[k] \in Nat /\ addr[k] # addr[cur]
      BY <1>1, <2>2, NodeTypes, LowerIsBelow
    <3>2. CASE addr[k] < addr[cur]
      BY <1>1, <3>2, LowerIsBelow
    <3>3. CASE addr[cur] < addr[k]
      <4>1. next[cur] # NULL /\ addr[next[cur]] \in Nat /\ addr[next[cur]] <= addr[k]
        BY <1>1, <3>3, NextIsLowest, NodeTypes
      <4>2. a + s <= addr[next[cur]]
        BY <1>1, <4>1
      <4> QED BY <1>2, <1>3, <1>4, <3>1, <4>1, <4>2
    <3> QED BY <1>2, <3>1, <3>2, <3>3
  <2>3. ASSUME NEW m \in live, NEW n \in live, m # n
        PROVE  (Below(m, n) \/ Below(n, m))'
    <3>1. m \in Node /\ n \in Node
      BY NodeTypes
    <3> QED BY <1>4, <2>2, <2>3, <3>1 DEF Disjoint, Below
  <2> QED BY <1>4, <2>1, <2>3 DEF Disjoint
<1>7. SortedList'
  BY <1>4 DEF SortedList, HeadIsFirst, NextIsNext, PrevMirrorsNext
<1>8. Merged' /\ NoDangling'
  <2>1. \A n \in live : n # cur => Touching(n)' = Touching(n)
    BY <1>4, NodeTypes DEF Touching
  <2>2. pc = "new"
    BY DEF ExtendPrev
  <2> QED BY <1>4, <2>1, <2>2 DEF Merged, NoDangling, locals
<1>9. CallInv' /\ UnmapClears'
  <2>1. req.op = "map" /\ hi = NULL
    BY DEF ExtendPrev, CallInv, MapInv
  <2>2. addr[cur] + size'[cur] = a + s
    BY <1>2, <1>3, <1>4
  <2> QED BY <1>1, <1>4, <2>1, <2>2
          DEF CallInv, WalkInv, MapInv, UnmapInv, Cutting, UnmapClears, locals
<1> QED BY <1>5, <1>6, <1>7, <1>8, <1>9

\* The mapping that follows c in the list, from the head when c is NULL.
After(c) == IF c = NULL THEN mem ELSE next[c]

\* A node linked in after c, with an address between those of its neighbours,
\* keeps the list sorted.
LEMMA InsertKeepsSorted ==
    ASSUME TypeOK, Disjoint, SortedList,
           NEW c \in live \cup {NULL}, NEW n \in Node \ live,
           live' = live \cup {n},
           prev' = [m \in Node |-> IF m = n THEN c
                                   ELSE IF m = After(c) THEN n ELSE prev[m]],
           next' = [m \in Node |-> IF m = n THEN After(c)
                                   ELSE IF m = c THEN n ELSE next[m]],
           mem'  = IF c = NULL THEN n ELSE mem,
           \A m \in live : addr'[m] = addr[m],
           addr'[n] \in Nat,
           c # NULL => addr[c] < addr'[n],
           After(c) # NULL => addr'[n] < addr[After(c)]
    PROVE  SortedList'
<1> DEFINE f == After(c)
           x == addr'[n]
<1>1. /\ n \in Node /\ n \notin live /\ n # NULL /\ mem \in live \cup {NULL}
      /\ f \in live \cup {NULL}
      /\ \A m \in live : m \in Node /\ m # n /\ m # NULL /\ addr[m] \in Nat
      /\ c # NULL => c \in live
      /\ next'[n] = f /\ prev'[n] = c
  BY NodeTypes, MemMapAssumption DEF SortedList, HeadIsFirst, NextIsNext, After
\* Every other mapping is no higher than c, or no lower than its successor.
<1>2. ASSUME NEW k \in live
      PROVE  \/ c # NULL /\ addr[k] <= addr[c] /\ addr[k] < x
             \/ f # NULL /\ addr[f] <= addr[k] /\ x < addr[k]
  <2>1. CASE c = NULL
    <3>1. f = mem /\ mem # NULL /\ mem \in live /\ addr[mem] <= addr[k]
      BY <2>1 DEF After, SortedList, HeadIsFirst
    <3> QED BY <1>1, <3>1
  <2>2. CASE c # NULL
    <3>1. f = next[c] /\ NextIsNext(c)
      BY <2>2, <1>1 DEF After, SortedList
    <3>2. addr[k] <= addr[c] \/ (f # NULL /\ addr[f] <= addr[k])
      BY <3>1 DEF NextIsNext
    <3> QED BY <2>2, <1>1, <3>2
  <2> QED BY <2>1, <2>2
<1>3. HeadIsFirst'
  <2>1. CASE c = NULL
    <3>1. \A k \in live' : addr'[n] <= addr'[k]
      BY <2>1, <1>1, <1>2
    <3> QED BY <2>1, <3>1, <1>1 DEF HeadIsFirst
  <2>2. CASE c # NULL
    <3>1. mem' = mem /\ mem \in live /\ mem # NULL /\ mem # n /\ addr[mem] <= addr[c]
      BY <2>2, <1>1 DEF SortedList, HeadIsFirst
    <3>2. mem # f
      <4>1. f # NULL => addr[c] < addr[f]
        BY <2>2, <1>1 DEF SortedList, NextIsNext, After
      <4> QED BY <3>1, <4>1, <1>1, <2>2
    <3>3. prev'[mem] = NULL
      BY <3>1, <3>2, <1>1 DEF SortedList, HeadIsFirst
    <3>4. \A k \in live' : addr'[mem] <= addr'[k]
      <4>1. addr[mem] <= x
        BY <2>2, <1>1, <3>1
      <4> QED BY <3>1, <4>1, <1>1 DEF SortedList, HeadIsFirst
    <3> QED BY <3>1, <3>3, <3>4, <1>1 DEF HeadIsFirst
  <2> QED BY <2>1, <2>2
<1>4. ASSUME NEW m \in live' PROVE NextIsNext(m)'
  <2>1. CASE m = n
    <3>1. f # NULL => f \in live' /\ addr'[f] = addr[f] /\ x < addr[f]
      BY <1>1
    <3>2. \A k \in live' : \/ addr'[k] <= x
                           \/ f # NULL /\ addr[f] <= addr'[k]
      BY <1>1, <1>2
    <3> QED BY <2>1, <3>1, <3>2, <1>1 DEF NextIsNext
  <2>2. CASE m = c /\ m \in live
    <3>1. next'[m] = n /\ addr'[m] = addr[m] /\ addr[m] < x /\ n \in live'
      BY <2>2, <1>1
    <3>2. \A k \in live' : addr'[k] <= addr'[m] \/ addr'[n] <= addr'[k]
      BY <2>2, <3>1, <1>1, <1>2
    <3> QED BY <3>1, <3>2, <1>1 DEF NextIsNext
  <2>3. CASE m # c /\ m \in live
    <3>1. next'[m] = next[m] /\ addr'[m] = addr[m] /\ NextIsNext(m)
      BY <2>3, <1>1 DEF SortedList
    <3>2. c # NULL => addr[c] # addr[m]
      BY <2>3, <1>1, LowerIsBelow
    <3>3. CASE next[m] = NULL
      <4>1. \A k \in live : addr[k] <= addr[m]
        BY <3>1, <3>3 DEF NextIsNext
      <4>2. x <= addr[m]
        BY <2>3, <4>1, <3>2, <1>1, <1>2
      <4> QED BY <3>1, <3>3, <4>1, <4>2, <1>1 DEF NextIsNext
    <3>4. CASE next[m] # NULL
      <4>1. next[m] \in live /\ next[m] # n /\ addr[m] < addr[next[m]]
        BY <3>1, <3>4, <1>1 DEF NextIsNext
      <4>2. x <= addr[m] \/ addr[next[m]] <= x
        <5>1. c # NULL => addr[c] <= addr[m] \/ addr[next[m]] <= addr[c]
          BY <3>1, <3>4, <1>1 DEF NextIsNext
        <5> QED BY <2>3, <3>2, <4>1, <5>1, <1>1, <1>2
      <4> QED BY <3>1, <3>4, <4>1, <4>2, <1>1 DEF NextIsNext
    <3> QED BY <3>3, <3>4
  <2> QED BY <2>1, <2>2, <2>3, <1>1
<1>5. ASSUME NEW m \in live' PROVE PrevMirrorsNext(m)'
  <2>1. CASE m = n
    BY <2>1, <1>1 DEF PrevMirrorsNext
  <2>2. CASE m = f /\ m \in live
    <3>1. prev'[m] = n /\ next'[n] = m /\ n \in live'
      BY <2>2, <1>1
    <3>2. m # c
      BY <2>2, <1>1
    <3>3. next'[m] = next[m] /\ (next[m] # NULL => prev'[next[m]] = m)
      <4>1. next[m] # NULL => next[m] \in live /\ next[m] # f /\ prev[next[m]] = m
        BY <2>2, <1>1 DEF SortedList, NextIsNext, PrevMirrorsNext
      <4> QED BY <2>2, <3>2, <4>1, <1>1
    <3> QED BY <3>1, <3>3, <1>1 DEF PrevMirrorsNext
  <2>3. CASE m # f /\ m \in live
    <3>1. prev'[m] = prev[m] /\ PrevMirrorsNext(m)
      BY <2>3, <1>1 DEF SortedList
    <3>2. prev[m] # NULL => prev[m] \in live /\ next'[prev[m]] = m
      BY <2>3, <3>1, <1>1 DEF PrevMirrorsNext, After
    <3>3. prev[m] = NULL => m = mem'
      BY <2>3, <3>1, <1>1 DEF PrevMirrorsNext, After
    <3>4. next'[m] # NULL => prev'[next'[m]] = m
      <4>1. CASE m = c
        BY <4>1, <2>3, <1>1
      <4>2. CASE m # c
        <5>1. next'[m] = next[m]
          BY <4>2, <2>3, <1>1
        <5>2. next[m] # NULL => next[m] \in live /\ prev[next[m]] = m
          BY <2>3 DEF SortedList, NextIsNext, PrevMirrorsNext
        <5>3. next[m] # NULL => next[m] # f
          BY <5>2, <4>2, <2>3, <1>1 DEF After, SortedList, HeadIsFirst, PrevMirrorsNext
        <5> QED BY <5>1, <5>2, <5>3, <1>1
      <4> QED BY <4>1, <4>2
    <3> QED BY <3>1, <3>2, <3>3, <3>4, <1>1 DEF PrevMirrorsNext
  <2> QED BY <2>1, <2>2, <2>3, <1>1
<1> QED BY <1>3, <1>4, <1>5 DEF SortedList

\* Unlinking a node keeps the list sorted.
LEMMA RemoveKeepsSorted ==
    ASSUME TypeOK, Disjoint, SortedList, NEW n \in live,
           live' = live \ {n},
           next' = [m \in Node |-> IF m = n THEN NULL
                                   ELSE IF m = prev[n] THEN next[n] ELSE next[m]],
           prev' = [m \in Node |-> IF m = n THEN NULL
                                   ELSE IF m = next[n] THEN prev[n] ELSE prev[m]],
           mem'  = IF prev[n] = NULL THEN next[n] ELSE mem,
           \A m \in live' : addr'[m] = addr[m]
    PROVE  SortedList'
<1>1. \A m \in live : m \in Node /\ m # NULL /\ addr[m] \in Nat
  BY NodeTypes
<1>2. /\ next[n] # NULL => /\ next[n] \in live' /\ addr[n] < addr[next[n]]
                           /\ prev[next[n]] = n
      /\ prev[n] # NULL => /\ prev[n] \in live' /\ addr[prev[n]] < addr[n]
                           /\ next[prev[n]] = n
      /\ prev[n] = NULL => n = mem
      /\ n = mem => prev[n] = NULL
  BY <1>1 DEF SortedList, HeadIsFirst, NextIsNext, PrevMirrorsNext
<1>3. HeadIsFirst'
  <2>1. CASE prev[n] # NULL
    <3>1. mem' = mem /\ mem # n /\ mem \in live' /\ mem # NULL
      BY <2>1, <1>2 DEF SortedList, HeadIsFirst
    <3>2. mem # next[n]
      BY <3>1, <1>1, <1>2 DEF SortedList, HeadIsFirst
    <3>3. prev'[mem] = NULL
      BY <3>1, <3>2, <1>1 DEF SortedList, HeadIsFirst
    <3> QED BY <3>1, <3>3 DEF HeadIsFirst, SortedList
  <2>2. CASE prev[n] = NULL
    <3>1. mem = n /\ mem' = next[n]
      BY <2>2, <1>2
    <3>2. CASE next[n] = NULL
      <4>1. ASSUME NEW k \in live' PROVE FALSE
        <5>1. k \in live /\ k # n /\ addr[k] <= addr[n] /\ addr[n] <= addr[k]
          BY <3>1, <3>2 DEF SortedList, HeadIsFirst, NextIsNext
        <5> QED BY <5>1, <1>1, LowerIsBelow
      <4> QED BY <3>1, <3>2, <4>1 DEF HeadIsFirst
    <3>3. CASE next[n] # NULL
      <4>1. prev'[next[n]] = NULL /\ next[n] \in live'
        BY <2>2, <3>3, <1>1, <1>2
      <4>2. ASSUME NEW k \in live' PROVE addr[next[n]] <= addr[k]
        <5>1. k \in live /\ k # n /\ addr[n] <= addr[k]
          BY <3>1 DEF SortedList, HeadIsFirst
        <5>2. addr[n] < addr[k]
          BY <5>1, <1>1, LowerIsBelow
        <5> QED BY <5>1, <5>2, NextIsLowest
      <4> QED BY <3>1, <3>3, <4>1, <4>2 DEF HeadIsFirst
    <3> QED BY <3>2, <3>3
  <2> QED BY <2>1, <2>2
<1>4. ASSUME NEW m \in live' PROVE NextIsNext(m)'
  <2>1. CASE m = prev[n]
    <3>1. next'[m] = next[n] /\ addr[m] < addr[n] /\ next[m] = n /\ m # NULL
      BY <2>1, <1>1, <1>2
    <3>2. ASSUME NEW k \in live', ~(addr[k] <= addr[m])
          PROVE  next[n] # NULL /\ addr[next[n]] <= addr[k]
      <4>1. k \in live /\ k # n
        OBVIOUS
      <4>2. addr[n] <= addr[k] /\ addr[n] # addr[k]
        BY <3>1, <3>2, <4>1, <1>1, NextIsLowest, LowerIsBelow
      <4> QED BY <4>1, <4>2, <1>1, NextIsLowest
    <3> QED BY <3>1, <3>2, <1>1, <1>2 DEF NextIsNext
  <2>2. CASE m # prev[n]
    <3>1. next'[m] = next[m] /\ NextIsNext(m) /\ m \in live /\ m # n
      BY <2>2, <1>1 DEF SortedList
    <3>2. next[m] # n
      BY <2>2, <3>1, <1>1 DEF SortedList, PrevMirrorsNext
    <3> QED BY <3>1, <3>2 DEF NextIsNext
  <2> QED BY <2>1, <2>2
<1>5. ASSUME NEW m \in live' PROVE PrevMirrorsNext(m)'
  <2>1. /\ m \in live /\ m # n /\ m \in Node /\ PrevMirrorsNext(m) /\ PrevMirrorsNext(n)
        /\ next[m] # NULL => next[m] \in live
    BY <1>1 DEF SortedList, NextIsNext
  <2>2. next'[m] # NULL => prev'[next'[m]] = m
    <3>1. CASE m = prev[n]
      <4>1. next'[m] = next[n]
        BY <2>1, <3>1
      <4> QED BY <3>1, <4>1, <1>1, <1>2
    <3>2. CASE m # prev[n]
      <4>1. next'[m] = next[m]
        BY <2>1, <3>2
      <4>2. next[m] # NULL => next[m] # n /\ next[m] # next[n]
        BY <2>1, <3>2, <1>2 DEF PrevMirrorsNext
      <4> QED BY <2>1, <4>1, <4>2, <1>1 DEF PrevMirrorsNext
    <3> QED BY <3>1, <3>2
  <2>3. prev'[m] # NULL => prev'[m] \in live' /\ next'[prev'[m]] = m
    <3>1. CASE m = next[n]
      <4>1. prev'[m] = prev[n]
        BY <2>1, <3>1
      <4> QED BY <3>1, <4>1, <1>1, <1>2
    <3>2. CASE m # next[n]
      <4>1. prev'[m] = prev[m]
        BY <2>1, <3>2
      <4>2. prev[m] # NULL => /\ prev[m] \in live' /\ next[prev[m]] = m
                             /\ prev[m] # prev[n]
        BY <2>1, <3>2, <1>2 DEF PrevMirrorsNext
      <4> QED BY <4>1, <4>2, <1>1
    <3> QED BY <3>1, <3>2
  <2>4. prev'[m] = NULL => m = mem'
    <3>1. CASE m = next[n]
      BY <3>1, <2>1, <1>2
    <3>2. CASE m # next[n]
      <4>1. prev'[m] = prev[m]
        BY <2>1, <3>2
      <4>2. prev[m] = NULL => m = mem /\ prev[n] # NULL
        BY <2>1, <1>2 DEF PrevMirrorsNext
      <4> QED BY <4>1, <4>2
    <3> QED BY <3>1, <3>2
  <2> QED BY <2>2, <2>3, <2>4 DEF PrevMirrorsNext
<1> QED BY <1>3, <1>4, <1>5 DEF SortedList

\* A new mapping goes into the free room the checks found.
LEMMA InsertNodeStep == ASSUME IInv, InsertNode PROVE IInv'
<1> USE DEF IInv
<1>1. PICK n \in Node \ live :
        /\ live' = live \cup {n}
        /\ addr' = [addr EXCEPT ![n] = a]
        /\ size' = [size EXCEPT ![n] = s]
        /\ prot' = [prot EXCEPT ![n] = req.prot]
        /\ data' = [data EXCEPT ![n] = Fresh(s)]
        /\ prev' = [m \in Node |-> IF m = n THEN cur
                                   ELSE IF m = Following THEN n ELSE prev[m]]
        /\ next' = [m \in Node |-> IF m = n THEN Following
                                   ELSE IF m = cur THEN n ELSE next[m]]
        /\ mem'  = IF cur = NULL THEN n ELSE mem
        /\ cur'  = n
  BY DEF InsertNode
<1>2. /\ 0 < s /\ a + s <= MemSize /\ MMAP_MIN_ADDR <= a
      /\ cur = NULL => MMAP_MIN_ADDR <= a
      /\ cur # NULL => addr[cur] + size[cur] <= a
      /\ Following # NULL => a + s <= addr[Following]
  <2>1. /\ 0 < s /\ a + s <= MemSize
        /\ cur = NULL => MMAP_MIN_ADDR <= a
        /\ cur # NULL => addr[cur] + size[cur] <= a
        /\ Following # NULL => a + s <= addr[Following]
    BY CanMapMeans DEF InsertNode
  <2>2. cur # NULL => MMAP_MIN_ADDR <= addr[cur] /\ addr[cur] \in Nat /\ size[cur] \in Nat
    BY NodeTypes DEF NoDangling, Disjoint, Placed
  <2> QED BY <2>1, <2>2, LocalTypes, WordsAssumption
<1>3. /\ a \in Nat /\ s \in Nat /\ a < MemSize /\ s < MemSize
      /\ MemSize \in Nat /\ MMAP_MIN_ADDR \in Nat
  BY LocalTypes, WordsAssumption
<1>4. /\ addr'[n] = a /\ size'[n] = s /\ prot'[n] = req.prot
      /\ next'[n] = Following /\ prev'[n] = cur
      /\ \A m \in Node : m # n => addr'[m] = addr[m] /\ size'[m] = size[m]
                                   /\ prot'[m] = prot[m] /\ data'[m] = data[m]
      /\ UNCHANGED <<req, a, s, hi>> /\ ret' = a /\ pc' = "merge" /\ pc = "new"
  BY <1>1 DEF InsertNode, TypeOK
<1>5. /\ n \in Node /\ n \notin live /\ n # NULL
      /\ cur \in live \cup {NULL} /\ mem \in live \cup {NULL}
      /\ Following \in live \cup {NULL}
      /\ \A m \in live : m \in Node /\ m # n
  BY <1>1, NodeTypes, MemMapAssumption
     DEF NoDangling, SortedList, HeadIsFirst, NextIsNext, Following
<1>6. TypeOK'
  <2>1. req.prot \in Prots
    BY RequestTypes DEF TypeOK
  <2>2. \A m \in Node : data'[m] \in [0 .. size'[m] - 1 -> Values \cup {Junk}]
    <3>1. data'[n] \in [0 .. size'[n] - 1 -> Values \cup {Junk}]
      BY <1>1, <1>4 DEF Fresh, TypeOK
    <3> QED BY <1>4, <3>1 DEF TypeOK
  <2>3. /\ addr' \in [Node -> Words] /\ size' \in [Node -> 0 .. MemSize]
        /\ prot' \in [Node -> Prots] /\ DOMAIN data' = Node
    BY <1>1, <1>3, <2>1 DEF TypeOK, Words
  <2>4. prev' \in [Node -> Pointer] /\ next' \in [Node -> Pointer]
    BY <1>1, <1>5 DEF TypeOK, Pointer
  <2> QED BY <1>1, <1>4, <1>5, <2>2, <2>3, <2>4 DEF TypeOK, Pointer
\* Every other mapping lies below the new one, up to cur, or above it.
<1>7. ASSUME NEW k \in live
      PROVE  /\ addr[k] \in Nat /\ size[k] \in Nat /\ 0 < size[k]
             /\ \/ cur # NULL /\ addr[k] <= addr[cur] /\ addr[k] + size[k] <= a
                \/ Following # NULL /\ addr[Following] <= addr[k] /\ a + s <= addr[k]
  <2>1. addr[k] \in Nat /\ size[k] \in Nat /\ 0 < size[k]
    BY NodeTypes DEF Disjoint, Placed
  <2>2. CASE cur = NULL
    <3>1. Following = mem /\ mem # NULL /\ mem \in live /\ addr[mem] <= addr[k]
      BY <2>2 DEF Following, SortedList, HeadIsFirst
    <3>2. addr[mem] \in Nat
      BY <3>1, NodeTypes
    <3> QED BY <1>2, <1>3, <2>1, <3>1, <3>2
  <2>3. CASE cur # NULL
    <3>1. cur \in live /\ addr[cur] \in Nat /\ size[cur] \in Nat /\ Following = next[cur]
      BY <2>3, <1>5, NodeTypes DEF Following
    <3>2. CASE addr[k] < addr[cur]
      BY <3>1, <3>2, <2>1, <2>3, <1>2, <1>3, LowerIsBelow
    <3>3. CASE k = cur
      BY <3>1, <3>3, <2>1, <2>3, <1>2
    <3>4. CASE addr[cur] < addr[k]
      <4>1. next[cur] # NULL /\ next[cur] \in live /\ addr[next[cur]] <= addr[k]
        BY <3>1, <3>4, NextIsLowest
      <4>2. addr[next[cur]] \in Nat /\ a + s <= addr[next[cur]]
        BY <4>1, <3>1, <1>2, NodeTypes
      <4> QED BY <4>1, <4>2, <3>1, <2>1, <1>3
    <3> QED BY <3>1, <3>2, <3>3, <3>4, <2>1, LowerIsBelow
  <2> QED BY <2>1, <2>2, <2>3
<1>8. Disjoint'
  <2>1. ASSUME NEW m \in live' PROVE Placed(m)'
    <3>1. CASE m = n
      BY <3>1, <1>2, <1>3, <1>4 DEF Placed
    <3>2. CASE m \in live
      BY <3>2, <1>4, <1>5 DEF Placed, Disjoint
    <3> QED BY <3>1, <3>2, <1>1
  <2>2. ASSUME NEW m \in live', NEW k \in live', m # k
        PROVE  (Below(m, k) \/ Below(k, m))'
    <3>1. CASE m = n
      BY <3>1, <2>2, <1>1, <1>3, <1>4, <1>5, <1>7 DEF Below
    <3>2. CASE k = n
      BY <3>2, <2>2, <1>1, <1>3, <1>4, <1>5, <1>7 DEF Below
    <3>3. CASE m \in live /\ k \in live
      BY <3>3, <2>2, <1>4, <1>5 DEF Below, Disjoint
    <3> QED BY <3>1, <3>2, <3>3, <1>1
  <2> QED BY <2>1, <2>2 DEF Disjoint
<1>9. SortedList'
  <2>1. Following = After(cur)
    BY DEF Following, After
  <2>2. addr'[n] \in Nat /\ \A m \in live : addr'[m] = addr[m]
    BY <1>3, <1>4, <1>5
  <2>3. cur # NULL => addr[cur] < addr'[n]
    BY <1>2, <1>3, <1>4, <1>5, <1>7
  <2>4. After(cur) # NULL => addr'[n] < addr[After(cur)]
    BY <2>1, <1>2, <1>3, <1>4, <1>5, NodeTypes
  <2> QED BY <1>1, <1>5, <2>1, <2>2, <2>3, <2>4, InsertKeepsSorted
<1>10. Merged' /\ NoDangling'
  <2>1. ASSUME NEW m \in live', m # n, Touching(m)', prot'[m] = prot'[next'[m]]
        PROVE  FALSE
    <3>1. m \in live
      BY <2>1, <1>1
    <3>2. CASE m = cur
      <4>1. next'[m] = n /\ prot'[m] = prot[m] /\ addr[m] + size[m] = a /\ cur # NULL
        <5>1. next'[m] = n /\ m \in Node /\ cur # NULL
          BY <3>1, <3>2, <2>1, <1>1, <1>5, NodeTypes
        <5>2. addr'[m] + size'[m] = addr'[n]
          BY <2>1, <5>1 DEF Touching
        <5> QED BY <5>1, <5>2, <2>1, <1>4
      <4>2. prot[m] = req.prot
        BY <4>1, <2>1, <1>4
      <4>3. PrevEnd = a
        BY <4>1, <3>1, <3>2, <1>3, MappingEnds DEF PrevEnd
      <4> QED BY <4>1, <4>2, <4>3, <3>2 DEF InsertNode, MergesWithPrev
    <3>3. CASE m # cur
      <4>1. next'[m] = next[m] /\ (next[m] # NULL => next[m] \in live)
        BY <3>1, <3>3, <1>1, <1>5 DEF SortedList, NextIsNext
      <4> QED BY <4>1, <3>1, <2>1, <1>4, <1>5 DEF Merged, Touching
    <3> QED BY <3>2, <3>3
  <2>2. Merged'
    BY <2>1, <1>1, <1>4 DEF Merged
  <2>3. NoDangling'
    BY <1>1, <1>4 DEF NoDangling
  <2> QED BY <2>2, <2>3
<1>11. CallInv' /\ UnmapClears'
  <2>1. req.op = "map"
    BY <1>4 DEF CallInv, MapInv
  <2> QED BY <1>1, <1>4, <1>5, <2>1
          DEF CallInv, WalkInv, MapInv, UnmapInv, Cutting, UnmapClears
<1> QED BY <1>6, <1>8, <1>9, <1>10, <1>11

\* The neighbour mmap_new merges with touches it and has its protection.
LEMMA MergesWithNextMeans ==
    ASSUME IInv, pc = "merge", cur # NULL
    PROVE  MergesWithNext <=> Touching(cur) /\ prot[cur] = prot[next[cur]]
<1> USE DEF IInv
<1>1. /\ cur \in live /\ prot[cur] = req.prot /\ addr[cur] + size[cur] = a + s
      /\ next[cur] # NULL => next[cur] \in live
  BY DEF NoDangling, CallInv, MapInv, SortedList, NextIsNext
<1>2. CASE next[cur] = NULL
  BY <1>2 DEF MergesWithNext, Touching
<1>3. CASE next[cur] # NULL
  <2>1. addr[next[cur]] \in Nat /\ addr[next[cur]] < MemSize /\ 0 < addr[next[cur]]
    <3>1. Placed(next[cur]) /\ addr[next[cur]] \in Nat /\ size[next[cur]] \in Nat
      BY <1>1, <1>3, NodeTypes DEF Disjoint
    <3>2. MMAP_MIN_ADDR \in Nat /\ 0 < MMAP_MIN_ADDR /\ MemSize \in Nat
      BY WordsAssumption
    <3> QED BY <3>1, <3>2 DEF Placed
  <2>2. addr[cur] + size[cur] <= MemSize
    BY <1>1 DEF Disjoint, Placed
  <2>3. Word(a + s) = addr[next[cur]] <=> a + s = addr[next[cur]]
    BY <1>1, <2>1, <2>2, LocalTypes DEF Word
  <2> QED BY <1>1, <1>3, <2>3 DEF MergesWithNext, Touching
<1> QED BY <1>2, <1>3

\* A mapping is left unmerged only if it differs from the next one.
LEMMA NoMergeNextStep == ASSUME IInv, NoMergeNext PROVE IInv'
<1> USE DEF IInv, NoMergeNext
<1>1. TypeOK'
  BY DEF TypeOK, heap, locals
<1>2. Disjoint' /\ SortedList'
  BY SameHeap
<1>3. cur # NULL /\ req.op = "map"
  BY DEF CallInv, MapInv
<1>4. ~(Touching(cur) /\ prot[cur] = prot[next[cur]])
  BY <1>3, MergesWithNextMeans
<1>5. Merged' /\ NoDangling'
  BY <1>4 DEF Merged, Touching, NoDangling, heap, locals
<1>6. CallInv' /\ UnmapClears'
  BY <1>3 DEF CallInv, WalkInv, MapInv, UnmapInv, Cutting, UnmapClears, heap, locals
<1> QED BY <1>1, <1>2, <1>5, <1>6

\* Merging with the next mapping keeps the list sorted and disjoint.
LEMMA MergeNextStep == ASSUME IInv, MergeNext PROVE IInv'
<1> USE DEF IInv
<1> DEFINE n == next[cur]
<1>1. /\ cur \in live /\ cur \in Node /\ cur # NULL
      /\ n \in live /\ n \in Node /\ n # NULL /\ n # cur
      /\ addr[cur] + size[cur] = addr[n]
      /\ prot[cur] = prot[n] /\ req.op = "map" /\ pc = "merge"
  <2>1. pc = "merge" /\ cur # NULL /\ MergesWithNext /\ req.op = "map"
    BY DEF MergeNext, CallInv, MapInv
  <2>2. Touching(cur) /\ prot[cur] = prot[n]
    BY <2>1, MergesWithNextMeans
  <2>3. cur \in live /\ n \in live
    BY <2>1, <2>2 DEF NoDangling, Touching, SortedList, NextIsNext
  <2>4. addr[cur] < addr[n] /\ addr[cur] \in Nat
    BY <2>2, <2>3, NodeTypes DEF Touching, SortedList, NextIsNext
  <2> QED BY <2>1, <2>2, <2>3, <2>4, NodeTypes DEF Touching
<1>2. /\ addr[cur] \in Nat /\ addr[n] \in Nat /\ size[cur] \in Nat /\ size[n] \in Nat
      /\ 0 < size[cur] /\ 0 < size[n] /\ addr[n] + size[n] <= MemSize
      /\ MemSize \in Nat
  BY <1>1, NodeTypes, LocalTypes DEF Disjoint, Placed
<1>3. /\ size' = [size EXCEPT ![cur] = @ + size[n], ![n] = 0]
      /\ data' = [data EXCEPT
                     ![cur] = Joined(@, size[cur], data[n], size[n]),
                     ![n] = Fresh(0)]
      /\ next' = [m \in Node |-> IF m = cur THEN next[n]
                                  ELSE IF m = n THEN NULL ELSE next[m]]
      /\ prev' = [m \in Node |-> IF m = n THEN NULL
                                  ELSE IF m = next[n] THEN cur ELSE prev[m]]
      /\ addr' = [addr EXCEPT ![n] = 0]
      /\ prot' = [prot EXCEPT ![n] = AnyProt]
      /\ live' = live \ {n}
      /\ pc' = "done"
      /\ UNCHANGED <<mem, req, a, s, cur, hi, ret>>
  BY DEF MergeNext, Freed, locals
<1>4. /\ size'[cur] = size[cur] + size[n]
      /\ \A m \in Node : m # n /\ m # cur => size'[m] = size[m] /\ data'[m] = data[m]
      /\ \A m \in Node : m # n => addr'[m] = addr[m] /\ prot'[m] = prot[m]
      /\ size'[n] = 0 /\ addr'[n] = 0 /\ prot'[n] = AnyProt
  BY <1>1, <1>3 DEF TypeOK
<1>5. \A m \in live' : m \in live /\ m \in Node /\ m # n /\ m # NULL
  BY <1>3, NodeTypes
<1>6. TypeOK'
  <2>1. AnyProt \in Prots
    BY MemMapAssumption DEF AnyProt
  <2>2. /\ size' \in [Node -> 0 .. MemSize] /\ addr' \in [Node -> Words]
        /\ prot' \in [Node -> Prots] /\ DOMAIN data' = Node
    <3>1. size[cur] + size[n] \in 0 .. MemSize /\ 0 \in 0 .. MemSize /\ 0 \in Words
      BY <1>1, <1>2, WordsAssumption DEF Words
    <3> HIDE DEF n
    <3> QED BY <1>1, <1>3, <2>1, <3>1 DEF TypeOK
  <2>3. prev' \in [Node -> Pointer] /\ next' \in [Node -> Pointer]
    BY <1>1, <1>3 DEF TypeOK, Pointer
  <2>4. ASSUME NEW m \in Node
        PROVE  data'[m] \in [0 .. size'[m] - 1 -> Values \cup {Junk}]
    <3>1. CASE m = cur
      <4>1. data'[cur] = Joined(data[cur], size[cur], data[n], size[n])
        BY <1>1, <1>3 DEF TypeOK
      <4>2. /\ data[cur] \in [0 .. size[cur] - 1 -> Values \cup {Junk}]
            /\ data[n] \in [0 .. size[n] - 1 -> Values \cup {Junk}]
        BY <1>1, NodeTypes
      <4>3. Joined(data[cur], size[cur], data[n], size[n])
              \in [0 .. size[cur] + size[n] - 1 -> Values \cup {Junk}]
        BY <4>2, <1>2, JoinedBlock
      <4>4. size'[cur] = size[cur] + size[n]
        BY <1>4
      <4>5. data'[cur] \in [0 .. size'[cur] - 1 -> Values \cup {Junk}]
        BY <4>1, <4>3, <4>4, <1>2
      <4> QED BY <3>1, <4>5
    <3>2. CASE m = n
      <4>1. data'[n] = [i \in 0 .. 0 - 1 |-> Junk] /\ size'[n] = 0
        BY <1>1, <1>3, <1>4 DEF TypeOK, Fresh
      <4> QED BY <3>2, <4>1
    <3>3. CASE m # cur /\ m # n
      BY <3>3, <1>4 DEF TypeOK
    <3> QED BY <3>1, <3>2, <3>3
  <2> QED BY <1>3, <2>2, <2>3, <2>4 DEF TypeOK
<1>7. Disjoint'
  <2>1. ASSUME NEW m \in live' PROVE Placed(m)'
    BY <1>1, <1>2, <1>4, <1>5 DEF Placed, Disjoint
  <2>2. ASSUME NEW k \in live', k # cur
        PROVE  addr[cur] + size'[cur] <= addr[k] \/ addr[k] + size[k] <= addr[cur]
    <3>1. k \in live /\ k # n /\ addr[k] \in Nat /\ size[k] \in Nat
      BY <1>5, NodeTypes
    <3>2. addr[k] # addr[cur] /\ addr[k] # addr[n]
      BY <1>1, <2>2, <3>1, LowerIsBelow
    <3>3. CASE addr[k] < addr[cur]
      BY <1>1, <3>1, <3>3, LowerIsBelow
    <3>4. CASE addr[cur] < addr[k]
      <4>1. addr[n] <= addr[k]
        BY <1>1, <3>1, <3>4, NextIsLowest
      <4>2. addr[n] + size[n] <= addr[k]
        BY <1>1, <1>2, <3>1, <3>2, <4>1, LowerIsBelow
      <4> QED BY <1>1, <1>2, <1>4, <4>2, <3>1
    <3> QED BY <1>2, <3>1, <3>2, <3>3, <3>4
  <2>3. ASSUME NEW m \in live', NEW k \in live', m # k
        PROVE  (Below(m, k) \/ Below(k, m))'
    <3>1. CASE m = cur
      BY <2>2, <2>3, <3>1, <1>1, <1>4, <1>5 DEF Below
    <3>2. CASE k = cur
      BY <2>2, <2>3, <3>2, <1>1, <1>4, <1>5 DEF Below
    <3>3. CASE m # cur /\ k # cur
      BY <2>3, <3>3, <1>4, <1>5 DEF Below, Disjoint
    <3> QED BY <3>1, <3>2, <3>3
  <2> QED BY <2>1, <2>3 DEF Disjoint
<1>8. SortedList'
  <2>1. prev[n] = cur
    BY <1>1 DEF SortedList, PrevMirrorsNext
  <2>2. /\ next' = [m \in Node |-> IF m = n THEN NULL
                                  ELSE IF m = prev[n] THEN next[n] ELSE next[m]]
        /\ prev' = [m \in Node |-> IF m = n THEN NULL
                                  ELSE IF m = next[n] THEN prev[n] ELSE prev[m]]
        /\ mem' = IF prev[n] = NULL THEN next[n] ELSE mem
    BY <1>1, <1>3, <2>1
  <2>3. \A m \in live' : addr'[m] = addr[m]
    BY <1>4, <1>5
  <2> QED BY <1>1, <1>3, <2>2, <2>3, RemoveKeepsSorted
<1>9. Merged'
  <2>1. ASSUME NEW m \in live', Touching(m)', prot'[m] = prot'[next'[m]]
        PROVE  FALSE
    <3>1. CASE m = cur
      <4>1. next'[m] = next[n] /\ next[n] # NULL /\ next[n] \in live /\ next[n] # n
            /\ next[n] \in Node
        BY <3>1, <2>1, <1>1, <1>2, <1>3, NodeTypes DEF Touching, SortedList, NextIsNext
      <4>2. Touching(n) /\ prot[n] = prot[next[n]]
        <5>1. addr'[cur] + size'[cur] = addr'[next[n]] /\ prot'[cur] = prot'[next[n]]
          BY <3>1, <4>1, <2>1 DEF Touching
        <5> HIDE DEF n
        <5> QED BY <4>1, <5>1, <1>1, <1>2, <1>4 DEF Touching
      <4> HIDE DEF n
      <4> QED BY <4>2, <1>1 DEF Merged
    <3>2. CASE m # cur
      <4>1. next'[m] = next[m] /\ next[m] # NULL /\ next[m] \in live /\ next[m] # n
        BY <3>2, <2>1, <1>1, <1>3, <1>5
           DEF Touching, SortedList, NextIsNext, PrevMirrorsNext
      <4>2. Touching(m) /\ prot[m] = prot[next[m]]
        BY <3>2, <4>1, <2>1, <1>4, <1>5, NodeTypes DEF Touching
      <4> QED BY <3>2, <4>2, <1>5 DEF Merged
    <3> QED BY <3>1, <3>2
  <2> QED BY <2>1 DEF Merged
<1>10. NoDangling'
  <2>1. mem # n
    BY <1>1 DEF SortedList, HeadIsFirst, PrevMirrorsNext
  <2>2. hi # n
    BY <1>1 DEF CallInv, MapInv
  <2> QED BY <2>1, <2>2, <1>1, <1>3 DEF NoDangling
<1>11. CallInv' /\ UnmapClears'
  BY <1>1, <1>3 DEF CallInv, WalkInv, MapInv, UnmapInv, Cutting, UnmapClears
<1> QED BY <1>6, <1>7, <1>8, <1>9, <1>10, <1>11

\* lo lies below the range, and hi is the first mapping that does not.
LEMMA LoHiStep == ASSUME IInv, LoHi PROVE IInv'
<1> USE DEF IInv
<1>1. /\ pc = "lohi" /\ pc' = "unlink" /\ UNCHANGED <<heap, req, a, s, ret>>
      /\ req.op = "unmap" /\ 0 < s /\ a + s <= MemSize
      /\ cur \in live \cup {NULL} /\ mem \in live \cup {NULL}
      /\ a \in Nat
  BY LocalTypes DEF LoHi, CallInv, UnmapInv, Cutting, NoDangling
<1>2. /\ cur' \in live \cup {NULL} /\ hi' \in live \cup {NULL}
      /\ hi' = IF cur' = NULL THEN mem ELSE next[cur']
      /\ cur' # NULL => addr[cur'] < a
      /\ hi' # NULL => a <= addr[hi']
  <2>1. CASE cur = NULL
    <3>1. hi' = mem /\ cur' = NULL /\ \A n \in live : a < addr[n]
      BY <1>1, <2>1, MemMapAssumption DEF LoHi, CallInv, WalkInv
    <3> QED BY <1>1, <3>1, NodeTypes
  <2>2. CASE cur # NULL /\ addr[cur] = a
    <3>1. hi' = cur /\ cur' = prev[cur] /\ cur \in live
      BY <1>1, <2>2 DEF LoHi
    <3>2. /\ prev[cur] # NULL => /\ prev[cur] \in live /\ next[prev[cur]] = cur
                                /\ addr[prev[cur]] < addr[cur]
          /\ prev[cur] = NULL => cur = mem
      BY <3>1, <2>2 DEF SortedList, NextIsNext, PrevMirrorsNext
    <3> QED BY <2>2, <3>1, <3>2, <1>1
  <2>3. CASE cur # NULL /\ addr[cur] # a
    <3>1. hi' = next[cur] /\ cur' = cur /\ cur \in live /\ addr[cur] \in Nat
      BY <1>1, <2>3, NodeTypes DEF LoHi
    <3>2. addr[cur] < a /\ (next[cur] # NULL => next[cur] \in live /\ a < addr[next[cur]])
      BY <1>1, <2>3, <3>1 DEF CallInv, WalkInv, SortedList, NextIsNext
    <3> QED BY <3>1, <3>2, <2>3, <1>1, NodeTypes
  <2> QED BY <2>1, <2>2, <2>3
<1>3. TypeOK'
  BY <1>1, <1>2 DEF TypeOK, Pointer, heap
<1>4. Disjoint' /\ SortedList'
  BY <1>1, SameHeap
<1>5. Merged' /\ NoDangling'
  BY <1>1, <1>2 DEF Merged, Touching, NoDangling, heap
<1>6. CallInv' /\ UnmapClears'
  BY <1>1, <1>2 DEF CallInv, WalkInv, MapInv, UnmapInv, Cutting, UnmapClears, heap
<1> QED BY <1>3, <1>4, <1>5, <1>6

\* An unlinked mapping leaves the list sorted; hi moves on to a live one.
LEMMA UnlinkStep == ASSUME IInv, Unlink PROVE IInv'
<1> USE DEF IInv
<1>1. /\ pc = "unlink" /\ pc' = "unlink" /\ UNCHANGED <<req, a, s, cur, ret>>
      /\ req.op = "unmap" /\ 0 < s /\ a + s <= MemSize
      /\ hi \in live /\ hi \in Node /\ hi # NULL /\ cur \in live \cup {NULL}
      /\ hi = IF cur = NULL THEN mem ELSE next[cur]
      /\ cur # NULL => addr[cur] < a
      /\ a <= addr[hi]
  BY NodeTypes DEF Unlink, Covered, CallInv, UnmapInv, Cutting, NoDangling
<1>2. /\ live' = live \ {hi}
      /\ mem'  = IF prev[hi] = NULL THEN next[hi] ELSE mem
      /\ next' = [m \in Node |-> IF m = hi THEN NULL
                                 ELSE IF m = prev[hi] THEN next[hi] ELSE next[m]]
      /\ prev' = [m \in Node |-> IF m = hi THEN NULL
                                 ELSE IF m = next[hi] THEN prev[hi] ELSE prev[m]]
      /\ addr' = [addr EXCEPT ![hi] = 0] /\ size' = [size EXCEPT ![hi] = 0]
      /\ prot' = [prot EXCEPT ![hi] = AnyProt] /\ data' = [data EXCEPT ![hi] = Fresh(0)]
      /\ hi' = next[hi]
  BY DEF Unlink, Freed
<1>3. \A m \in Node : m # hi => /\ addr'[m] = addr[m] /\ size'[m] = size[m]
                                 /\ prot'[m] = prot[m] /\ data'[m] = data[m]
  BY <1>2 DEF TypeOK
<1>4. \A m \in live' : m \in live /\ m \in Node /\ m # hi /\ m # NULL
  BY <1>2, NodeTypes
<1>5. /\ prev[hi] = cur
      /\ next[hi] # NULL => next[hi] \in live' /\ addr[hi] < addr[next[hi]]
      /\ cur # NULL => cur \in live' /\ cur # hi
      /\ addr[hi] \in Nat /\ a \in Nat
  <2>1. prev[hi] = cur
    BY <1>1 DEF SortedList, HeadIsFirst, PrevMirrorsNext
  <2>2. addr[hi] \in Nat /\ a \in Nat
    BY <1>1, NodeTypes, LocalTypes
  <2>3. next[hi] # NULL => next[hi] \in live' /\ addr[hi] < addr[next[hi]]
    BY <1>1, <1>2, <2>2 DEF SortedList, NextIsNext
  <2>4. cur # NULL => addr[cur] \in Nat /\ addr[cur] # addr[hi]
    BY <1>1, <2>2, NodeTypes
  <2> QED BY <1>1, <1>2, <2>1, <2>2, <2>3, <2>4
<1>6. TypeOK'
  <2>1. AnyProt \in Prots
    BY MemMapAssumption DEF AnyProt
  <2>2. /\ size' \in [Node -> 0 .. MemSize] /\ addr' \in [Node -> Words]
        /\ prot' \in [Node -> Prots] /\ DOMAIN data' = Node
    <3>1. 0 \in 0 .. MemSize /\ 0 \in Words
      BY WordsAssumption DEF Words
    <3> QED BY <1>2, <2>1, <3>1 DEF TypeOK
  <2>3. /\ prev' \in [Node -> Pointer] /\ next' \in [Node -> Pointer]
        /\ mem' \in Pointer /\ hi' \in Pointer /\ live' \subseteq Node
    BY <1>1, <1>2 DEF TypeOK, Pointer
  <2>4. ASSUME NEW m \in Node
        PROVE  data'[m] \in [0 .. size'[m] - 1 -> Values \cup {Junk}]
    <3>1. CASE m = hi
      <4>1. data'[hi] = [i \in 0 .. 0 - 1 |-> Junk] /\ size'[hi] = 0
        BY <1>1, <1>2 DEF TypeOK, Fresh
      <4> QED BY <3>1, <4>1
    <3>2. CASE m # hi
      BY <3>2, <1>3 DEF TypeOK
    <3> QED BY <3>1, <3>2
  <2> QED BY <1>1, <2>2, <2>3, <2>4 DEF TypeOK
<1>7. Disjoint'
  BY <1>3, <1>4 DEF Disjoint, Placed, Below
<1>8. SortedList'
  BY <1>1, <1>2, <1>3, <1>4, RemoveKeepsSorted
<1>9. Merged'
  <2>1. ASSUME NEW m \in live', Touching(m)', prot'[m] = prot'[next'[m]]
        PROVE  FALSE
    <3>1. CASE m = cur
      <4>1. next'[m] = next[hi] /\ next[hi] # NULL /\ next[hi] \in live' /\ cur \in live
        BY <3>1, <2>1, <1>2, <1>4, <1>5 DEF Touching
      <4>2. addr[cur] + size[cur] = addr[next[hi]]
        BY <3>1, <4>1, <2>1, <1>3, <1>4 DEF Touching
      <4>3. addr[cur] + size[cur] <= addr[hi] /\ addr[next[hi]] \in Nat
        BY <3>1, <4>1, <1>1, <1>4, <1>5, LowerIsBelow, NodeTypes
      <4> QED BY <4>1, <4>2, <4>3, <1>5
    <3>2. CASE m # cur
      <4>1. next'[m] = next[m]
        BY <3>2, <1>2, <1>4, <1>5
      <4>2. next[m] # NULL /\ next[m] \in live /\ next[m] # hi
        BY <3>2, <4>1, <2>1, <1>4, <1>5
           DEF Touching, SortedList, NextIsNext, PrevMirrorsNext
      <4>3. Touching(m) /\ prot[m] = prot[next[m]]
        BY <4>1, <4>2, <2>1, <1>3, <1>4, NodeTypes DEF Touching
      <4> QED BY <4>3, <1>1, <1>4 DEF Merged
    <3> QED BY <3>1, <3>2
  <2> QED BY <2>1 DEF Merged
<1>10. NoDangling'
  <2>1. mem' # NULL => mem' \in live'
    BY <1>8 DEF SortedList, HeadIsFirst
  <2> QED BY <2>1, <1>1, <1>2, <1>5 DEF NoDangling
<1>11. CallInv' /\ UnmapClears'
  <2>1. hi' = IF cur = NULL THEN mem' ELSE next'[cur]
    BY <1>1, <1>2, <1>4, <1>5
  <2>2. hi' # NULL => a <= addr'[hi'] /\ a \in Nat
    BY <1>1, <1>2, <1>3, <1>4, <1>5, NodeTypes
  <2>3. cur # NULL => addr'[cur] < a
    BY <1>1, <1>3, <1>4, <1>5
  <2> QED BY <1>1, <2>1, <2>2, <2>3
          DEF CallInv, WalkInv, MapInv, UnmapInv, Cutting, UnmapClears
<1> QED BY <1>6, <1>7, <1>8, <1>9, <1>10, <1>11

\* The loop stops at a mapping that ends behind the range.
LEMMA UnlinkDoneStep == ASSUME IInv, UnlinkDone PROVE IInv'
<1> USE DEF IInv, UnlinkDone
<1>1. TypeOK'
  BY DEF TypeOK, heap, locals
<1>2. Disjoint' /\ SortedList'
  BY SameHeap
<1>3. Merged' /\ NoDangling'
  BY DEF Merged, Touching, NoDangling, heap, locals
<1>4. hi # NULL => a + s < addr[hi] + size[hi]
  <2>1. 0 < s /\ a + s <= MemSize
    BY DEF CallInv, UnmapInv, Cutting
  <2>2. RangeLast = a + s - 1
    BY <2>1, RangeEnds DEF RangeLast, TypeOK
  <2>3. hi # NULL => hi \in live
    BY DEF NoDangling
  <2> QED BY <2>1, <2>2, <2>3, MappingEnds, LocalTypes DEF Covered, Words
<1>5. CallInv' /\ UnmapClears'
  BY <1>4 DEF CallInv, WalkInv, MapInv, UnmapInv, Cutting, UnmapClears, heap, locals
<1> QED BY <1>1, <1>2, <1>3, <1>5

\* Where mem_unmap stands when it comes to trim lo and hi: every mapping but
\* those two is clear of the range.
LEMMA TrimMeans ==
    ASSUME IInv, pc = "trimlo"
    PROVE  /\ req.op = "unmap" /\ 0 < s /\ a + s <= MemSize /\ a \in Nat /\ s \in Nat
           /\ RangeLast = a + s - 1
           /\ cur \in live \cup {NULL} /\ hi \in live \cup {NULL}
           /\ cur # NULL => /\ addr[cur] < a /\ End(cur) \in Words
                            /\ Last(cur) = addr[cur] + size[cur] - 1
                            /\ hi = next[cur] /\ hi # cur
           /\ hi # NULL => a <= addr[hi] /\ a + s < addr[hi] + size[hi]
           /\ \A k \in live : k # cur /\ k # hi =>
                 addr[k] + size[k] <= a \/ a + s <= addr[k]
<1> USE DEF IInv
<1>1. /\ req.op = "unmap" /\ 0 < s /\ a + s <= MemSize /\ a \in Nat /\ s \in Nat
      /\ cur \in live \cup {NULL} /\ hi \in live \cup {NULL}
      /\ cur # NULL => addr[cur] < a
      /\ hi = IF cur = NULL THEN mem ELSE next[cur]
      /\ hi # NULL => a <= addr[hi] /\ a + s < addr[hi] + size[hi]
  BY LocalTypes DEF CallInv, UnmapInv, Cutting, NoDangling
<1>2. RangeLast = a + s - 1
  BY <1>1, RangeEnds DEF RangeLast, TypeOK
<1>3. cur # NULL => /\ End(cur) \in Words /\ Last(cur) = addr[cur] + size[cur] - 1
                    /\ hi = next[cur] /\ hi # cur
  <2>1. cur # NULL /\ hi # NULL => addr[cur] \in Nat /\ addr[hi] \in Nat
    BY <1>1, NodeTypes
  <2> QED BY <1>1, <2>1, MappingEnds
<1>4. ASSUME NEW k \in live, k # cur, k # hi
      PROVE  addr[k] + size[k] <= a \/ a + s <= addr[k]
  <2>1. addr[k] \in Nat /\ size[k] \in Nat
    BY NodeTypes
  <2>2. CASE cur # NULL /\ addr[k] < addr[cur]
    <3>1. addr[k] + size[k] <= addr[cur] /\ addr[cur] \in Nat
      BY <2>2, <1>1, LowerIsBelow, NodeTypes
    <3> QED BY <2>1, <2>2, <3>1, <1>1
  <2>3. CASE ~(cur # NULL /\ addr[k] < addr[cur])
    <3>1. hi # NULL /\ addr[hi] <= addr[k]
      <4>1. CASE cur = NULL
        BY <4>1, <1>1 DEF SortedList, HeadIsFirst
      <4>2. CASE cur # NULL
        <5>1. addr[cur] \in Nat /\ addr[cur] # addr[k]
          BY <4>2, <1>1, <1>4, NodeTypes, LowerIsBelow
        <5>2. addr[cur] < addr[k]
          BY <5>1, <2>1, <2>3, <4>2
        <5> QED BY <5>2, <4>2, <1>1, NextIsLowest
      <4> QED BY <4>1, <4>2
    <3>2. addr[hi] \in Nat /\ size[hi] \in Nat /\ addr[hi] # addr[k]
      BY <3>1, <1>1, <1>4, NodeTypes, LowerIsBelow
    <3>3. addr[hi] + size[hi] <= addr[k]
      BY <3>1, <3>2, <2>1, <1>1, LowerIsBelow
    <3> QED BY <3>1, <3>2, <3>3, <2>1, <1>1
  <2> QED BY <2>2, <2>3
<1> QED BY <1>1, <1>2, <1>3, <1>4

\* A mapping lo that ends below the range stays as it is.
LEMMA KeepLoStep == ASSUME IInv, KeepLo PROVE IInv'
<1> USE DEF IInv
<1>1. pc = "trimlo" /\ pc' = "trimhi" /\ ~TouchesLo /\ UNCHANGED <<heap, req, locals, ret>>
  BY DEF KeepLo
<1>2. TypeOK'
  BY <1>1 DEF TypeOK, heap, locals
<1>3. Disjoint' /\ SortedList'
  BY <1>1, SameHeap
<1>4. Merged' /\ NoDangling'
  BY <1>1 DEF Merged, Touching, NoDangling, heap, locals
<1>5. \A k \in live : k # hi => ~Overlaps(k, a, s)
  <2>1. ASSUME NEW k \in live, k # hi
        PROVE  addr[k] + size[k] <= a \/ a + s <= addr[k]
    <3>1. CASE k = cur
      <4>1. addr[k] \in Nat /\ size[k] \in Nat /\ k # NULL
        BY NodeTypes
      <4> QED BY <3>1, <4>1, <1>1, TrimMeans DEF TouchesLo
    <3>2. CASE k # cur
      BY <3>2, <2>1, <1>1, TrimMeans
    <3> QED BY <3>1, <3>2
  <2>2. \A k \in live : addr[k] \in Nat /\ size[k] \in Nat
    BY NodeTypes
  <2> QED BY <2>1, <2>2, LocalTypes DEF Overlaps
<1>6. CallInv' /\ UnmapClears'
  BY <1>1, <1>5, TrimMeans
     DEF CallInv, WalkInv, MapInv, UnmapInv, Cutting, UnmapClears, Overlaps, heap, locals
<1> QED BY <1>2, <1>3, <1>4, <1>6

\* What lo keeps when its tail goes: exactly the bytes below the range.
LEMMA TrimLoMeans ==
    ASSUME IInv, pc = "trimlo", TouchesLo
    PROVE  /\ cur \in live /\ cur \in Node /\ cur # NULL
           /\ addr[cur] \in Nat /\ size[cur] \in Nat /\ MemSize \in Nat
           /\ addr[cur] + size[cur] <= MemSize /\ a < addr[cur] + size[cur]
           /\ MMAP_MIN_ADDR <= addr[cur] /\ MMAP_MIN_ADDR \in Nat
           /\ Word(End(cur) - a) = addr[cur] + size[cur] - a
           /\ size[cur] - Word(End(cur) - a) = a - addr[cur]
<1> USE DEF IInv
<1>1. /\ cur \in live /\ cur \in Node /\ cur # NULL
      /\ addr[cur] \in Nat /\ size[cur] \in Nat /\ MemSize \in Nat
      /\ addr[cur] + size[cur] <= MemSize /\ a \in Nat /\ addr[cur] < a
      /\ Last(cur) = addr[cur] + size[cur] - 1 /\ Last(cur) >= a
      /\ MMAP_MIN_ADDR <= addr[cur] /\ MMAP_MIN_ADDR \in Nat
  BY TrimMeans, NodeTypes, LocalTypes, WordsAssumption DEF TouchesLo, Disjoint, Placed
<1>2. /\ addr[cur] + size[cur] < MemSize => End(cur) = addr[cur] + size[cur]
      /\ addr[cur] + size[cur] = MemSize => End(cur) = 0
  BY <1>1, MappingEnds
<1> QED BY <1>1, <1>2 DEF Word

\* Cutting lo's tail clears the range of lo.
LEMMA TrimLoStep == ASSUME IInv, TrimLo PROVE IInv'
<1> USE DEF IInv
<1>1. /\ pc = "trimlo" /\ TouchesLo /\ pc' = "trimhi"
      /\ ~(Last(cur) > RangeLast)
      /\ UNCHANGED <<mem, live, addr, prot, prev, next, req, locals, ret>>
  BY DEF TrimLo
<1>2. /\ size' = [size EXCEPT ![cur] = a - addr[cur]]
      /\ data' = [data EXCEPT ![cur] = Kept(@, a - addr[cur])]
  BY <1>1, TrimLoMeans DEF TrimLo, TypeOK
<1>3. /\ size'[cur] = a - addr[cur]
      /\ \A m \in Node : m # cur => size'[m] = size[m] /\ data'[m] = data[m]
  BY <1>1, <1>2, TrimLoMeans DEF TypeOK
<1>4. /\ cur \in live /\ addr[cur] \in Nat /\ size[cur] \in Nat /\ a \in Nat /\ s \in Nat
      /\ addr[cur] < a /\ a < addr[cur] + size[cur]
      /\ addr[cur] + size[cur] <= a + s /\ 0 < s
  BY <1>1, TrimMeans, TrimLoMeans
<1>5. TypeOK'
  <2>1. a - addr[cur] \in 0 .. MemSize
    BY <1>4, LocalTypes
  <2>2. size' \in [Node -> 0 .. MemSize] /\ DOMAIN data' = Node
    BY <1>2, <2>1 DEF TypeOK
  <2>3. ASSUME NEW m \in Node
        PROVE  data'[m] \in [0 .. size'[m] - 1 -> Values \cup {Junk}]
    <3>1. CASE m = cur
      <4>1. data'[cur] = Kept(data[cur], a - addr[cur])
        BY <1>2, <3>1 DEF TypeOK
      <4>2. data[cur] \in [0 .. size[cur] - 1 -> Values \cup {Junk}]
        BY <1>4, NodeTypes
      <4>3. Kept(data[cur], a - addr[cur]) \in [0 .. (a - addr[cur]) - 1 -> Values \cup {Junk}]
        <5>1. a - addr[cur] \in Nat /\ a - addr[cur] <= size[cur] /\ 0 + (a - addr[cur]) <= size[cur]
          BY <1>4
        <5> QED BY <5>1, <4>2, <1>4, SlicedBlock
      <4> QED BY <3>1, <4>1, <4>3, <1>3, <1>4
    <3>2. CASE m # cur
      BY <3>2, <1>3 DEF TypeOK
    <3> QED BY <3>1, <3>2
  <2> QED BY <1>1, <2>2, <2>3 DEF TypeOK, locals
<1>6. Disjoint'
  <2>1. ASSUME NEW m \in live PROVE Placed(m)'
    <3>1. CASE m = cur
      BY <3>1, <1>1, <1>3, <1>4, TrimLoMeans DEF Placed
    <3>2. CASE m # cur
      BY <3>2, <1>1, <1>3, NodeTypes DEF Disjoint, Placed
    <3> QED BY <3>1, <3>2
  <2>2. ASSUME NEW m \in live, NEW k \in live, m # k
        PROVE  (Below(m, k) \/ Below(k, m))'
    <3>1. Below(m, k) \/ Below(k, m)
      BY <2>2 DEF Disjoint
    <3>2. \A n \in live : n \in Node /\ addr[n] \in Nat /\ size[n] \in Nat
      BY NodeTypes
    <3>3. \A n \in live : size'[n] <= size[n] /\ size'[n] \in Nat /\ addr'[n] = addr[n]
      BY <3>2, <1>1, <1>3, <1>4
    <3> QED BY <3>1, <3>2, <3>3 DEF Below
  <2> QED BY <1>1, <2>1, <2>2 DEF Disjoint
<1>7. SortedList'
  BY <1>1 DEF SortedList, HeadIsFirst, NextIsNext, PrevMirrorsNext
<1>8. Merged' /\ NoDangling'
  <2>1. ~Touching(cur)'
    <3>1. next[cur] # NULL => next[cur] \in live /\ addr[next[cur]] \in Nat
                             /\ addr[cur] + size[cur] <= addr[next[cur]]
      <4>1. next[cur] # NULL => next[cur] \in live /\ addr[cur] < addr[next[cur]]
        BY <1>4 DEF SortedList, NextIsNext
      <4> QED BY <4>1, <1>4, LowerIsBelow, NodeTypes
    <3>2. next[cur] # NULL => addr[cur] + size'[cur] < addr[next[cur]]
      BY <1>3, <1>4, <3>1
    <3> QED BY <1>1, <1>4, <3>1, <3>2 DEF Touching, locals
  <2>2. \A n \in live : n # cur => Touching(n)' = Touching(n)
    BY <1>1, <1>3, NodeTypes DEF Touching
  <2> QED BY <1>1, <2>1, <2>2 DEF Merged, NoDangling, locals
<1>9. CallInv' /\ UnmapClears'
  <2>1. ASSUME NEW k \in live, k # hi
        PROVE  addr[k] + size'[k] <= a \/ a + s <= addr[k]
    <3>1. CASE k = cur
      BY <3>1, <1>3, <1>4
    <3>2. CASE k # cur
      BY <3>2, <2>1, <1>1, <1>3, TrimMeans, NodeTypes
    <3> QED BY <3>1, <3>2
  <2>2. \A k \in live : addr[k] \in Nat /\ size'[k] \in Nat
    BY <1>3, <1>4, NodeTypes
  <2>3. \A k \in live : k # hi => ~Overlaps(k, a, s)'
    BY <2>1, <2>2, <1>1, <1>4 DEF Overlaps, locals
  <2>4. hi # NULL => a <= addr[hi] /\ a + s < addr[hi] + size'[hi]
    BY <1>1, <1>3, TrimMeans, NodeTypes
  <2> QED BY <1>1, <2>3, <2>4, TrimMeans
          DEF CallInv, WalkInv, MapInv, UnmapInv, Cutting, UnmapClears, locals
<1> QED BY <1>5, <1>6, <1>7, <1>8, <1>9

\* Splitting lo leaves its two ends around the range.
LEMMA SplitLoStep == ASSUME IInv, SplitLo PROVE IInv'
<1> USE DEF IInv
<1>1. /\ pc = "trimlo" /\ TouchesLo /\ Last(cur) > RangeLast /\ pc' = "trimhi"
      /\ UNCHANGED <<mem, req, locals, ret>>
  BY DEF SplitLo
<1>2. /\ cur \in live /\ cur \in Node /\ cur # NULL
      /\ addr[cur] \in Nat /\ size[cur] \in Nat /\ a \in Nat /\ s \in Nat
      /\ addr[cur] < a /\ 0 < s /\ a + s < addr[cur] + size[cur]
      /\ addr[cur] + size[cur] <= MemSize /\ MemSize \in Nat
      /\ MMAP_MIN_ADDR <= addr[cur] /\ MMAP_MIN_ADDR \in Nat
      /\ hi = next[cur] /\ hi # cur /\ hi \in live \cup {NULL}
      /\ size[cur] - Word(End(cur) - a) = a - addr[cur]
  BY <1>1, TrimMeans, TrimLoMeans
<1>3. /\ Word(a + s) = a + s
      /\ Word(End(cur) - Word(a + s)) = addr[cur] + size[cur] - (a + s)
  <2>1. /\ addr[cur] + size[cur] < MemSize => End(cur) = addr[cur] + size[cur]
        /\ addr[cur] + size[cur] = MemSize => End(cur) = 0
    BY <1>2, MappingEnds
  <2> QED BY <1>2, <2>1 DEF Word
<1> DEFINE left == addr[cur] + size[cur] - (a + s)
           kept == a - addr[cur]
<1>4. left \in Nat /\ 0 < left /\ kept \in Nat /\ 0 < kept /\ kept + s + left = size[cur]
      /\ left <= MemSize /\ kept <= MemSize
  BY <1>2
<1>5. PICK n \in Node \ live :
        /\ live' = live \cup {n}
        /\ addr' = [addr EXCEPT ![n] = a + s]
        /\ size' = [size EXCEPT ![n] = left, ![cur] = kept]
        /\ prot' = [prot EXCEPT ![n] = prot[cur]]
        /\ data' = [data EXCEPT ![n] = Slice(data[cur], a + s - addr[cur], left),
                              ![cur] = Kept(data[cur], kept)]
        /\ prev' = [m \in Node |-> IF m = n THEN cur
                                   ELSE IF m = next[cur] THEN n ELSE prev[m]]
        /\ next' = [m \in Node |-> IF m = n THEN next[cur]
                                   ELSE IF m = cur THEN n ELSE next[m]]
  <2>1. PICK n \in Node \ live :
          LET tail == Word(a + s)
              rest == Word(End(cur) - tail)
              trim == Word(End(cur) - a)
          IN  /\ live' = live \cup {n}
              /\ addr' = [addr EXCEPT ![n] = tail]
              /\ size' = [size EXCEPT ![n] = rest, ![cur] = @ - trim]
              /\ prot' = [prot EXCEPT ![n] = prot[cur]]
              /\ data' = [data EXCEPT ![n]   = Slice(data[cur], tail - addr[cur], rest),
                                    ![cur] = Kept(data[cur], size[cur] - trim)]
              /\ prev' = [m \in Node |-> IF m = n THEN cur
                                         ELSE IF m = next[cur] THEN n ELSE prev[m]]
              /\ next' = [m \in Node |-> IF m = n THEN next[cur]
                                         ELSE IF m = cur THEN n ELSE next[m]]
    BY DEF SplitLo
  <2>2. n # cur
    BY <1>2
  <2>3. size' = [size EXCEPT ![n] = left, ![cur] = kept]
    BY <2>1, <2>2, <1>2, <1>3 DEF TypeOK
  <2>4. data' = [data EXCEPT ![n] = Slice(data[cur], a + s - addr[cur], left),
                             ![cur] = Kept(data[cur], kept)]
    <3>1. Slice(data[cur], Word(a + s) - addr[cur], Word(End(cur) - Word(a + s)))
            = Slice(data[cur], a + s - addr[cur], left)
      BY <1>2, <1>3
    <3>2. Kept(data[cur], size[cur] - Word(End(cur) - a)) = Kept(data[cur], kept)
      BY <1>2
    <3> HIDE DEF left, kept
    <3> QED BY <2>1, <3>1, <3>2
  <2>5. addr' = [addr EXCEPT ![n] = a + s]
    BY <2>1, <1>3
  <2> HIDE DEF left, kept
  <2> QED BY <2>1, <2>3, <2>4, <2>5
<1>6. /\ n \in Node /\ n \notin live /\ n # NULL /\ n # cur /\ n # hi
      /\ addr'[n] = a + s /\ size'[n] = left /\ prot'[n] = prot[cur] /\ next'[n] = hi
      /\ size'[cur] = kept /\ next'[cur] = n
      /\ \A m \in Node : m # n => addr'[m] = addr[m] /\ prot'[m] = prot[m]
      /\ \A m \in Node : m # n /\ m # cur => size'[m] = size[m] /\ data'[m] = data[m]
                                              /\ next'[m] = next[m]
  BY <1>2, <1>5, MemMapAssumption DEF TypeOK
<1>7. \A m \in live : m \in Node /\ m # n /\ addr[m] \in Nat /\ size[m] \in Nat
  BY <1>6, NodeTypes
<1>8. TypeOK'
  <2>1. a + s \in Words /\ left \in 0 .. MemSize /\ kept \in 0 .. MemSize
    BY <1>2, <1>4 DEF Words
  <2>2. /\ addr' \in [Node -> Words] /\ size' \in [Node -> 0 .. MemSize]
        /\ prot' \in [Node -> Prots] /\ DOMAIN data' = Node
    <3> HIDE DEF left, kept
    <3> QED BY <1>2, <1>5, <2>1 DEF TypeOK
  <2>3. prev' \in [Node -> Pointer] /\ next' \in [Node -> Pointer] /\ live' \subseteq Node
    BY <1>2, <1>5, <1>6, SMTT(30) DEF TypeOK, Pointer
  <2>4. ASSUME NEW m \in Node
        PROVE  data'[m] \in [0 .. size'[m] - 1 -> Values \cup {Junk}]
    <3>1. data[cur] \in [0 .. size[cur] - 1 -> Values \cup {Junk}]
      BY <1>2, NodeTypes
    <3>2. CASE m = cur
      <4>1. data'[cur] = Kept(data[cur], kept)
        BY <1>2, <1>5, <1>6 DEF TypeOK
      <4>2. Kept(data[cur], kept) \in [0 .. kept - 1 -> Values \cup {Junk}]
        <5>1. kept \in Nat /\ 0 + kept <= size[cur] /\ kept <= size[cur]
          BY <1>2, <1>4
        <5> QED BY <5>1, <3>1, <1>2, SlicedBlock
      <4> QED BY <3>2, <4>1, <4>2, <1>6, <1>4
    <3>3. CASE m = n
      <4>1. data'[n] = Slice(data[cur], a + s - addr[cur], left)
        BY <1>2, <1>5, <1>6 DEF TypeOK
      <4>2. Slice(data[cur], a + s - addr[cur], left) \in [0 .. left - 1 -> Values \cup {Junk}]
        <5>1. /\ a + s - addr[cur] \in Nat /\ left \in Nat
              /\ (a + s - addr[cur]) + left <= size[cur]
          BY <1>2, <1>4
        <5> QED BY <5>1, <3>1, <1>2, SlicedBlock
      <4> QED BY <3>3, <4>1, <4>2, <1>6, <1>4
    <3>4. CASE m # cur /\ m # n
      BY <3>4, <1>6 DEF TypeOK
    <3> QED BY <3>2, <3>3, <3>4
  <2> QED BY <1>1, <2>2, <2>3, <2>4 DEF TypeOK, locals
\* Another mapping was clear of all of lo, so it is clear of both parts.
<1>9. ASSUME NEW k \in live, k # cur
      PROVE  addr[k] + size[k] <= addr[cur] \/ addr[cur] + size[cur] <= addr[k]
  BY <1>2, <1>9 DEF Disjoint, Below
<1>10. Disjoint'
  <2>1. ASSUME NEW m \in live' PROVE Placed(m)'
    <3>1. CASE m = n
      BY <3>1, <1>2, <1>4, <1>6 DEF Placed
    <3>2. CASE m = cur
      BY <3>2, <1>2, <1>4, <1>6 DEF Placed
    <3>3. CASE m \in live /\ m # cur
      BY <3>3, <1>6, <1>7 DEF Placed, Disjoint
    <3> QED BY <3>1, <3>2, <3>3, <1>5
  <2>2. ASSUME NEW m \in live', NEW k \in live', m # k
        PROVE  (Below(m, k) \/ Below(k, m))'
    <3>1. CASE m \in live /\ k \in live /\ m # cur /\ k # cur
      BY <3>1, <2>2, <1>6, <1>7 DEF Below, Disjoint
    <3>2. CASE m \in {n, cur} /\ k \in {n, cur}
      BY <3>2, <2>2, <1>2, <1>4, <1>6 DEF Below
    <3>3. ASSUME NEW u \in live, u # cur, NEW v \in {n, cur}
          PROVE  (Below(u, v) \/ Below(v, u))'
      BY <3>3, <1>2, <1>4, <1>6, <1>7, <1>9 DEF Below
    <3> QED BY <2>2, <3>1, <3>2, <3>3, <1>5
  <2> QED BY <2>1, <2>2 DEF Disjoint
<1>11. SortedList'
  <2>1. After(cur) = next[cur]
    BY <1>2 DEF After
  <2>2. addr'[n] \in Nat /\ addr[cur] < addr'[n]
    BY <1>2, <1>6
  <2>3. next[cur] # NULL => addr'[n] < addr[next[cur]]
    <3>1. next[cur] # NULL => next[cur] \in live /\ addr[next[cur]] \in Nat
                             /\ addr[cur] < addr[next[cur]]
      BY <1>2, NodeTypes DEF SortedList, NextIsNext
    <3>2. next[cur] # NULL => addr[cur] + size[cur] <= addr[next[cur]]
      BY <3>1, <1>2, LowerIsBelow
    <3> QED BY <3>1, <3>2, <1>2, <1>6
  <2>4. mem' = IF cur = NULL THEN n ELSE mem
    BY <1>1, <1>2
  <2>5. \A m \in live : addr'[m] = addr[m]
    BY <1>6, <1>7
  <2> HIDE DEF left, kept
  <2> QED BY <1>2, <1>5, <1>6, <2>1, <2>2, <2>3, <2>4, <2>5, InsertKeepsSorted
<1>12. Merged'
  <2>1. ASSUME NEW m \in live', Touching(m)', prot'[m] = prot'[next'[m]]
        PROVE  FALSE
    <3>1. CASE m = cur
      <4>1. addr'[cur] + size'[cur] = a /\ addr'[next'[cur]] = a + s
        BY <1>2, <1>6
      <4> QED BY <3>1, <4>1, <2>1, <1>2 DEF Touching
    <3>2. CASE m = n
      <4>1. hi # NULL /\ hi \in live /\ addr'[hi] = addr[hi] /\ prot'[hi] = prot[hi]
        BY <3>2, <2>1, <1>2, <1>6, <1>7 DEF Touching
      <4>2. addr[cur] + size[cur] = addr[hi] /\ prot[cur] = prot[hi]
        BY <3>2, <4>1, <2>1, <1>2, <1>6 DEF Touching
      <4> QED BY <4>1, <4>2, <1>1, <1>2 DEF Merged, Touching
    <3>3. CASE m \in live /\ m # cur
      <4>1. next'[m] = next[m] /\ next[m] # NULL /\ next[m] \in live
        BY <3>3, <2>1, <1>6, <1>7 DEF Touching, SortedList, NextIsNext
      <4>2. Touching(m) /\ prot[m] = prot[next[m]]
        BY <3>3, <4>1, <2>1, <1>6, <1>7 DEF Touching
      <4> QED BY <3>3, <4>2, <1>1 DEF Merged
    <3> QED BY <3>1, <3>2, <3>3, <1>5
  <2> QED BY <2>1 DEF Merged
<1>13. NoDangling'
  BY <1>1, <1>5 DEF NoDangling, locals
<1>14. CallInv' /\ UnmapClears'
  <2>1. \A k \in live : k # cur /\ k # hi => addr[k] + size[k] <= a \/ a + s <= addr[k]
    BY <1>1, TrimMeans
  <2>2. ASSUME NEW k \in live', k # hi PROVE ~Overlaps(k, a, s)'
    <3>1. CASE k = n
      BY <3>1, <1>1, <1>2, <1>6 DEF Overlaps, locals
    <3>2. CASE k = cur
      BY <3>2, <1>1, <1>2, <1>6 DEF Overlaps, locals
    <3>3. CASE k \in live /\ k # cur
      BY <3>3, <2>1, <2>2, <1>1, <1>2, <1>6, <1>7 DEF Overlaps, locals
    <3> QED BY <3>1, <3>2, <3>3, <1>5
  <2>3. hi # NULL => a <= addr'[hi] /\ a + s < addr'[hi] + size'[hi]
    BY <1>1, <1>2, <1>6, <1>7, TrimMeans
  <2> QED BY <1>1, <2>2, <2>3, TrimMeans
          DEF CallInv, WalkInv, MapInv, UnmapInv, Cutting, UnmapClears, locals
<1> QED BY <1>8, <1>10, <1>11, <1>12, <1>13, <1>14

\* Cutting hi's front clears the range of hi.
LEMMA TrimHiStep == ASSUME IInv, TrimHi PROVE IInv'
<1> USE DEF IInv
<1>1. /\ pc = "trimhi" /\ pc' = "done" /\ hi \in live /\ hi \in Node /\ hi # NULL
      /\ UNCHANGED <<mem, live, prot, prev, next, req, locals, ret>>
      /\ req.op = "unmap" /\ 0 < s /\ a + s <= MemSize
      /\ addr[hi] \in Nat /\ size[hi] \in Nat /\ a \in Nat /\ s \in Nat /\ MemSize \in Nat
      /\ a <= addr[hi] /\ a + s < addr[hi] + size[hi] /\ addr[hi] + size[hi] <= MemSize
      /\ RangeLast >= addr[hi] /\ MMAP_MIN_ADDR <= addr[hi] /\ MMAP_MIN_ADDR \in Nat
      /\ \A n \in live : n # hi => ~Overlaps(n, a, s)
  BY NodeTypes, LocalTypes, WordsAssumption
     DEF TrimHi, TouchesHi, NoDangling, CallInv, UnmapInv, Cutting, Disjoint, Placed
<1> DEFINE trim == a + s - addr[hi]
<1>2. /\ trim \in Nat /\ 0 < trim /\ trim < size[hi]
      /\ addr[hi] + trim = a + s
      /\ Word(Word(a + s) - addr[hi]) = trim
  <2>1. RangeLast = a + s - 1
    BY <1>1, RangeEnds DEF RangeLast, TypeOK
  <2>2. Word(a + s) = a + s
    BY <1>1 DEF Word
  <2>3. addr[hi] < a + s
    BY <1>1, <2>1
  <2> QED BY <1>1, <2>2, <2>3 DEF Word
<1>3. /\ size' = [size EXCEPT ![hi] = @ - trim]
      /\ addr' = [addr EXCEPT ![hi] = @ + trim]
      /\ data' = [data EXCEPT ![hi] = Slice(@, trim, size[hi] - trim)]
  <2> HIDE DEF trim
  <2> QED BY <1>2 DEF TrimHi
<1>4. /\ size'[hi] = size[hi] - trim /\ addr'[hi] = a + s
      /\ addr'[hi] + size'[hi] = addr[hi] + size[hi]
      /\ \A m \in Node : m # hi => size'[m] = size[m] /\ addr'[m] = addr[m] /\ data'[m] = data[m]
  <2>1. /\ size'[hi] = size[hi] - trim /\ addr'[hi] = addr[hi] + trim
        /\ \A m \in Node : m # hi => size'[m] = size[m] /\ addr'[m] = addr[m] /\ data'[m] = data[m]
    <3> HIDE DEF trim
    <3> QED BY <1>1, <1>3 DEF TypeOK
  <2>2. addr[hi] + trim + (size[hi] - trim) = addr[hi] + size[hi]
    BY <1>1
  <2> QED BY <1>1, <1>2, <2>1, <2>2
<1>5. \A m \in live : /\ m \in Node /\ addr[m] \in Nat /\ size[m] \in Nat
                      /\ m # hi => addr[m] + size[m] <= a \/ a + s <= addr[m]
  BY <1>1, NodeTypes DEF Overlaps
<1>6. TypeOK'
  <2>1. size[hi] - trim \in 0 .. MemSize /\ addr[hi] + trim \in Words
    BY <1>1, <1>2 DEF Words
  <2>2. size' \in [Node -> 0 .. MemSize] /\ addr' \in [Node -> Words] /\ DOMAIN data' = Node
    <3> HIDE DEF trim
    <3> QED BY <1>3, <2>1 DEF TypeOK
  <2>3. ASSUME NEW m \in Node
        PROVE  data'[m] \in [0 .. size'[m] - 1 -> Values \cup {Junk}]
    <3>1. CASE m = hi
      <4>1. data'[hi] = Slice(data[hi], trim, size[hi] - trim)
        BY <1>1, <1>3 DEF TypeOK
      <4>2. data[hi] \in [0 .. size[hi] - 1 -> Values \cup {Junk}]
        BY <1>1, NodeTypes
      <4>3. size[hi] - trim \in Nat /\ trim + (size[hi] - trim) <= size[hi]
        BY <1>1, <1>2
      <4> HIDE DEF trim
      <4>4. Slice(data[hi], trim, size[hi] - trim)
              \in [0 .. (size[hi] - trim) - 1 -> Values \cup {Junk}]
        BY <1>1, <1>2, <4>2, <4>3, SlicedBlock
      <4> QED BY <3>1, <4>1, <4>3, <4>4, <1>4
    <3>2. CASE m # hi
      BY <3>2, <1>4 DEF TypeOK
    <3> QED BY <3>1, <3>2
  <2> QED BY <1>1, <2>2, <2>3 DEF TypeOK, locals
<1>7. Disjoint'
  <2>1. ASSUME NEW m \in live PROVE Placed(m)'
    <3>1. CASE m = hi
      BY <3>1, <1>1, <1>2, <1>4 DEF Placed
    <3>2. CASE m # hi
      BY <3>2, <1>1, <1>4, <1>5 DEF Placed, Disjoint
    <3> QED BY <3>1, <3>2
  <2>2. ASSUME NEW k \in live, k # hi
        PROVE  addr[k] + size[k] <= a + s \/ addr[hi] + size[hi] <= addr[k]
    <3>1. Below(k, hi) \/ Below(hi, k)
      BY <2>2, <1>1 DEF Disjoint
    <3>2. addr[hi] < a + s
      BY <1>1, <1>2
    <3> QED BY <3>1, <3>2, <1>1, <1>5 DEF Below
  <2>3. ASSUME NEW m \in live, NEW k \in live, m # k
        PROVE  (Below(m, k) \/ Below(k, m))'
    <3>1. CASE m = hi
      BY <3>1, <2>2, <2>3, <1>1, <1>4, <1>5 DEF Below
    <3>2. CASE k = hi
      BY <3>2, <2>2, <2>3, <1>1, <1>4, <1>5 DEF Below
    <3>3. CASE m # hi /\ k # hi
      BY <3>3, <2>3, <1>4, <1>5 DEF Below, Disjoint
    <3> QED BY <3>1, <3>2, <3>3
  <2> QED BY <1>1, <2>1, <2>3 DEF Disjoint
\* hi moves up, but no other mapping lies in between.
<1>8. ASSUME NEW m \in live, NEW k \in live
      PROVE  /\ addr[m] <= addr[k] <=> addr'[m] <= addr'[k]
             /\ addr[m] < addr[k] <=> addr'[m] < addr'[k]
  <2>1. ASSUME NEW u \in live, u # hi
        PROVE  \/ addr[u] < addr[hi] /\ addr[u] < a + s
               \/ addr[hi] < addr[u] /\ a + s < addr[u]
    <3>1. size[u] > 0 /\ (Below(u, hi) \/ Below(hi, u))
      BY <2>1, <1>1 DEF Disjoint, Placed
    <3> QED BY <3>1, <1>1, <1>2, <1>5, <2>1 DEF Below
  <2>2. CASE m = hi /\ k = hi
    BY <2>2, <1>1, <1>4
  <2>3. CASE m = hi /\ k # hi
    BY <2>1, <2>3, <1>1, <1>4, <1>5
  <2>4. CASE m # hi /\ k = hi
    BY <2>1, <2>4, <1>1, <1>4, <1>5
  <2>5. CASE m # hi /\ k # hi
    BY <2>5, <1>4, <1>5
  <2> QED BY <2>2, <2>3, <2>4, <2>5
<1>9. SortedList'
  <2>1. HeadIsFirst'
    BY <1>1, <1>8 DEF SortedList, HeadIsFirst
  <2>2. \A m \in live : NextIsNext(m)'
    BY <1>1, <1>8 DEF SortedList, NextIsNext
  <2>3. \A m \in live : PrevMirrorsNext(m)'
    BY <1>1 DEF SortedList, PrevMirrorsNext
  <2> QED BY <1>1, <2>1, <2>2, <2>3 DEF SortedList
<1>10. Merged' /\ NoDangling'
  <2>1. ASSUME NEW m \in live, Touching(m)', prot[m] = prot[next[m]]
        PROVE  FALSE
    <3>1. next[m] # NULL /\ next[m] \in live /\ next[m] # m
      BY <2>1, <1>1, <1>5 DEF Touching, SortedList, NextIsNext
    <3>2. CASE next[m] = hi
      <4>1. addr[m] < addr[hi] /\ m # hi
        BY <3>1, <3>2 DEF SortedList, NextIsNext
      <4>2. addr[m] + size[m] <= addr[hi]
        BY <4>1, <1>1, LowerIsBelow
      <4>3. addr[m] + size[m] = a + s
        BY <2>1, <3>2, <4>1, <1>1, <1>4, <1>5 DEF Touching
      <4> QED BY <4>2, <4>3, <1>1, <1>2, <1>5
    <3>3. CASE next[m] # hi
      <4>1. Touching(m)
        <5>1. CASE m = hi
          BY <5>1, <3>1, <3>3, <2>1, <1>1, <1>4, <1>5 DEF Touching
        <5>2. CASE m # hi
          BY <5>2, <3>1, <3>3, <2>1, <1>1, <1>4, <1>5 DEF Touching
        <5> QED BY <5>1, <5>2
      <4> QED BY <4>1, <2>1, <1>1 DEF Merged
    <3> QED BY <3>2, <3>3
  <2> QED BY <2>1, <1>1 DEF Merged, NoDangling, locals
<1>11. CallInv' /\ UnmapClears'
  <2>1. ASSUME NEW k \in live PROVE ~Overlaps(k, a, s)'
    <3>1. CASE k = hi
      BY <3>1, <1>1, <1>4 DEF Overlaps, locals
    <3>2. CASE k # hi
      BY <3>2, <1>1, <1>4, <1>5 DEF Overlaps, locals
    <3> QED BY <3>1, <3>2
  <2> QED BY <2>1, <1>1 DEF CallInv, WalkInv, MapInv, UnmapInv, Cutting, UnmapClears, locals
<1> QED BY <1>6, <1>7, <1>9, <1>10, <1>11

\* A mapping hi that starts behind the range stays as it is.
LEMMA KeepHiStep == ASSUME IInv, KeepHi PROVE IInv'
<1> USE DEF IInv
<1>1. /\ pc = "trimhi" /\ pc' = "done" /\ ~TouchesHi /\ UNCHANGED <<heap, req, locals, ret>>
      /\ req.op = "unmap" /\ 0 < s /\ a + s <= MemSize /\ a \in Nat /\ s \in Nat
      /\ \A n \in live : n # hi => ~Overlaps(n, a, s)
  BY LocalTypes DEF KeepHi, CallInv, UnmapInv, Cutting
<1>2. TypeOK'
  BY <1>1 DEF TypeOK, heap, locals
<1>3. Disjoint' /\ SortedList'
  BY <1>1, SameHeap
<1>4. Merged' /\ NoDangling'
  BY <1>1 DEF Merged, Touching, NoDangling, heap, locals
<1>5. RangeLast = a + s - 1
  BY <1>1, RangeEnds DEF RangeLast, TypeOK
<1>6. \A n \in live : ~Overlaps(n, a, s)
  <2>1. ASSUME hi \in live PROVE ~Overlaps(hi, a, s)
    BY <2>1, <1>1, <1>5, NodeTypes DEF Overlaps, TouchesHi
  <2> QED BY <2>1, <1>1
<1>7. CallInv' /\ UnmapClears'
  BY <1>1, <1>6
     DEF CallInv, WalkInv, MapInv, UnmapInv, Cutting, UnmapClears, Overlaps, heap, locals
<1> QED BY <1>2, <1>3, <1>4, <1>7

\* mem_find's answer changes nothing.
LEMMA FindDoneStep == ASSUME IInv, FindDone PROVE IInv'
<1> USE DEF IInv, FindDone
<1>1. ret' \in Words
  <2>1. 0 \in Words
    BY WordsAssumption DEF Words
  <2>2. Holds => addr[cur] \in Words
    BY DEF Holds, NoDangling, TypeOK
  <2> QED BY <2>1, <2>2
<1>2. TypeOK'
  BY <1>1 DEF TypeOK, heap, locals
<1>3. Disjoint' /\ SortedList'
  BY SameHeap
<1>4. Merged' /\ NoDangling'
  BY DEF Merged, Touching, NoDangling, heap, locals
<1>5. CallInv' /\ UnmapClears'
  BY DEF CallInv, WalkInv, MapInv, UnmapInv, Cutting, UnmapClears, heap, locals
<1> QED BY <1>2, <1>3, <1>4, <1>5

\* A write changes bytes and nothing else.
LEMMA WriteDoneStep == ASSUME IInv, WriteDone PROVE IInv'
<1> USE DEF IInv
<1>1. /\ pc = "found" /\ pc' = "done" /\ req.op = "write" /\ cur \in live /\ cur \in Node
      /\ UNCHANGED <<mem, live, addr, size, prot, prev, next, req, locals, ret>>
  BY NodeTypes DEF WriteDone, Holds, NoDangling
<1>2. TypeOK'
  <2> DEFINE written == [i \in DOMAIN data[cur] |->
                           IF a - addr[cur] <= i /\ i < (a - addr[cur]) + s
                           THEN req.val ELSE data[cur][i]]
  <2>1. data' = [data EXCEPT ![cur] = written]
    BY <1>1 DEF WriteDone, TypeOK
  <2>2. written \in [0 .. size[cur] - 1 -> Values \cup {Junk}]
    <3>1. data[cur] \in [0 .. size[cur] - 1 -> Values \cup {Junk}]
      BY <1>1, NodeTypes
    <3>2. req.val \in Values
      BY RequestTypes DEF TypeOK
    <3> QED BY <3>1, <3>2, Zenon
  <2> HIDE DEF written
  <2>3. DOMAIN data' = Node /\ \A m \in Node : data'[m] \in [0 .. size[m] - 1 -> Values \cup {Junk}]
    BY <2>1, <2>2, <1>1 DEF TypeOK
  <2> QED BY <1>1, <2>3 DEF TypeOK, locals
<1>3. Disjoint' /\ SortedList'
  <2>1. Disjoint'
    BY <1>1 DEF Disjoint, Placed, Below
  <2>2. SortedList'
    BY <1>1 DEF SortedList, HeadIsFirst, NextIsNext, PrevMirrorsNext
  <2> QED BY <2>1, <2>2
<1>4. Merged' /\ NoDangling'
  BY <1>1 DEF Merged, Touching, NoDangling, locals
<1>5. CallInv' /\ UnmapClears'
  BY <1>1 DEF CallInv, WalkInv, MapInv, UnmapInv, Cutting, UnmapClears
<1> QED BY <1>2, <1>3, <1>4, <1>5

\* A fault ends the program and changes nothing.
LEMMA FaultStep == ASSUME IInv, Fault PROVE IInv'
<1> USE DEF IInv, Fault
<1>1. TypeOK'
  BY DEF TypeOK, heap, locals
<1>2. Disjoint' /\ SortedList'
  BY SameHeap
<1>3. Merged' /\ NoDangling'
  BY DEF Merged, Touching, NoDangling, heap, locals
<1>4. CallInv' /\ UnmapClears'
  BY DEF CallInv, WalkInv, MapInv, UnmapInv, Cutting, UnmapClears
<1> QED BY <1>1, <1>2, <1>3, <1>4

\* A call that returns leaves its pointers behind.
LEMMA ReturnStep == ASSUME IInv, Return PROVE IInv'
<1> USE DEF IInv, Return
<1>1. 0 \in Words
  BY WordsAssumption DEF Words
<1>2. TypeOK'
  BY <1>1 DEF TypeOK, Pointer, heap
<1>3. Disjoint' /\ SortedList'
  BY SameHeap
<1>4. Merged' /\ NoDangling'
  BY DEF Merged, Touching, NoDangling, heap
<1>5. CallInv' /\ UnmapClears'
  BY DEF CallInv, WalkInv, MapInv, UnmapInv, Cutting, UnmapClears, NoRequest, Request
<1> QED BY <1>2, <1>3, <1>4, <1>5

\* A stuttering step, and a program that has ended, keep it.
LEMMA StutterStep == ASSUME IInv, UNCHANGED vars PROVE IInv'
<1> USE DEF IInv, vars
<1>1. TypeOK'
  BY DEF TypeOK, heap, locals
<1>2. Disjoint' /\ SortedList'
  BY SameHeap
<1>3. Merged' /\ NoDangling'
  BY DEF Merged, Touching, NoDangling, heap, locals
<1>4. CallInv' /\ UnmapClears'
  BY DEF CallInv, WalkInv, MapInv, UnmapInv, Cutting, UnmapClears, Overlaps, heap, locals
<1> QED BY <1>1, <1>2, <1>3, <1>4

-----------------------------------------------------------------------------
(* The theorems.                                                           *)

\* Every step, of whatever call, preserves the invariant.
LEMMA NextInv == ASSUME IInv, [Next]_vars PROVE IInv'
<1>1. CASE Call
  BY <1>1, CallStep
<1>2. CASE MapFixedEntry \/ MapAnywhereEntry \/ UnmapEntry \/ FindEntry
  BY <1>2, MapFixedEntryStep, MapAnywhereEntryStep, UnmapEntryStep, FindEntryStep
<1>3. CASE Walk \/ WalkDone \/ GapWalk \/ GapFound
  BY <1>3, WalkStep, WalkDoneStep, GapWalkStep, GapFoundStep
<1>4. CASE MapRefused \/ ExtendPrev \/ InsertNode \/ MergeNext \/ NoMergeNext
  BY <1>4, MapRefusedStep, ExtendPrevStep, InsertNodeStep, MergeNextStep, NoMergeNextStep
<1>5. CASE LoHi \/ Unlink \/ UnlinkDone
  BY <1>5, LoHiStep, UnlinkStep, UnlinkDoneStep
<1>6. CASE SplitLo \/ TrimLo \/ KeepLo \/ TrimHi \/ KeepHi
  BY <1>6, SplitLoStep, TrimLoStep, KeepLoStep, TrimHiStep, KeepHiStep
<1>7. CASE FindDone \/ WriteDone \/ Fault \/ Return
  BY <1>7, FindDoneStep, WriteDoneStep, FaultStep, ReturnStep
<1>8. CASE Exited \/ UNCHANGED vars
  BY <1>8, StutterStep DEF Exited
<1> QED BY <1>1, <1>2, <1>3, <1>4, <1>5, <1>6, <1>7, <1>8 DEF Next, Step

\* The inductive invariant holds in every state of every behaviour: of any
\* sequence of mem_map, mem_unmap, mem_find and mem_write calls.
THEOREM Invariant == Spec => []IInv
<1>1. Init => IInv
  BY InitInv
<1>2. IInv /\ [Next]_vars => IInv'
  BY NextInv
<1> QED BY <1>1, <1>2, PTL DEF Spec

\* Type correctness.
THEOREM TypeCorrect == Spec => []TypeOK
<1>1. IInv => TypeOK
  BY DEF IInv
<1> QED BY <1>1, Invariant, PTL

\* No two mappings ever share a byte, none lies below MMAP_MIN_ADDR or beyond
\* the end of memory.
THEOREM MappingsDisjoint == Spec => []Disjoint
<1>1. IInv => Disjoint
  BY DEF IInv
<1> QED BY <1>1, Invariant, PTL

\* The list is sorted and doubly linked, and reaches every mapping.
THEOREM ListSorted == Spec => []SortedList
<1>1. IInv => SortedList
  BY DEF IInv
<1> QED BY <1>1, Invariant, PTL

\* Touching mappings with one protection are one mapping.
THEOREM MappingsMerged == Spec => []Merged
<1>1. IInv => Merged
  BY DEF IInv
<1> QED BY <1>1, Invariant, PTL

\* No pointer in use is to a freed mapping.
THEOREM NoUseAfterFree == Spec => []NoDangling
<1>1. IInv => NoDangling
  BY DEF IInv
<1> QED BY <1>1, Invariant, PTL

\* mem_unmap leaves nothing of its rounded range mapped.
THEOREM UnmapComplete == Spec => []UnmapClears
<1>1. IInv => UnmapClears
  BY DEF IInv
<1> QED BY <1>1, Invariant, PTL

\* The comparison mem_find makes, with its end that may be 0 and its
\* subtraction that may wrap, is right for every length up to MMAP_MIN_ADDR.
LEMMA HoldsMeans ==
    ASSUME IInv, pc = "found", Holds, 0 < s, s <= MMAP_MIN_ADDR
    PROVE  cur # NULL /\ addr[cur] <= a /\ a + s <= addr[cur] + size[cur]
<1> USE DEF IInv
<1>1. cur # NULL /\ cur \in live /\ addr[cur] <= a
  BY DEF Holds, NoDangling, CallInv, WalkInv
<1>2. /\ addr[cur] \in Nat /\ size[cur] \in Nat /\ a \in Nat /\ s \in Nat /\ MemSize \in Nat
      /\ MMAP_MIN_ADDR \in Nat /\ MMAP_MIN_ADDR <= addr[cur] /\ 0 < size[cur]
      /\ addr[cur] + size[cur] <= MemSize
  BY <1>1, NodeTypes, LocalTypes, WordsAssumption DEF Disjoint, Placed
<1>3. Word(End(cur) - s) >= a
  BY DEF Holds
<1>4. CASE addr[cur] + size[cur] < MemSize
  <2>1. End(cur) = addr[cur] + size[cur]
    BY <1>1, <1>4, MappingEnds
  <2> QED BY <1>1, <1>2, <1>3, <2>1 DEF Word
<1>5. CASE addr[cur] + size[cur] = MemSize
  <2>1. End(cur) = 0
    BY <1>1, <1>5, MappingEnds
  <2>2. Word(End(cur) - s) = MemSize - s
    BY <1>2, <2>1 DEF Word
  <2> QED BY <1>1, <1>2, <1>3, <1>5, <2>2
<1> QED BY <1>2, <1>4, <1>5

\* A successful mem_find returns a mapping that holds the whole range.
THEOREM FindSound == Spec => []FindHolds
<1>1. Init => FindHolds
  BY DEF Init, FindHolds
<1>2. IInv /\ FindHolds /\ [Next]_vars => FindHolds'
  <2> SUFFICES ASSUME IInv, FindHolds, [Next]_vars, pc' = "done", req'.op = "find",
                      ret' # 0, 0 < s', s' <= MMAP_MIN_ADDR
               PROVE  (/\ cur # NULL /\ addr[cur] <= a
                       /\ a + s <= addr[cur] + size[cur])'
    BY DEF FindHolds
  <2>1. CASE FindDone
    <3>1. pc = "found" /\ UNCHANGED <<heap, locals>>
      BY <2>1 DEF FindDone
    <3>2. Holds
      BY <2>1 DEF FindDone
    <3> QED BY <3>1, <3>2, HoldsMeans DEF heap, locals
  <2>2. CASE UNCHANGED vars \/ Exited
    BY <2>2 DEF vars, Exited, FindHolds, heap, locals
  <2>3. CASE Call \/ MapFixedEntry \/ MapAnywhereEntry \/ FindEntry \/ Fault \/ Return
    BY <2>3 DEF Call, MapFixedEntry, MapAnywhereEntry, FindEntry, Fault, Return
  <2>4. CASE Walk \/ WalkDone \/ GapWalk \/ GapFound \/ ExtendPrev \/ InsertNode
             \/ LoHi \/ Unlink \/ UnlinkDone \/ SplitLo \/ TrimLo \/ KeepLo
    BY <2>4 DEF Walk, WalkDone, GapWalk, GapFound, ExtendPrev, InsertNode,
                LoHi, Unlink, UnlinkDone, SplitLo, TrimLo, KeepLo
  <2>5. CASE UnmapEntry \/ WriteDone
    BY <2>5 DEF UnmapEntry, WriteDone
  <2>6. CASE MapRefused \/ MergeNext \/ NoMergeNext
    BY <2>6 DEF IInv, CallInv, MapInv, MapRefused, MergeNext, NoMergeNext
  <2>7. CASE TrimHi \/ KeepHi
    BY <2>7 DEF IInv, CallInv, UnmapInv, Cutting, TrimHi, KeepHi
  <2> QED BY <2>1, <2>2, <2>3, <2>4, <2>5, <2>6, <2>7 DEF Next, Step
<1> QED BY <1>1, <1>2, Invariant, PTL DEF Spec

-----------------------------------------------------------------------------
(* Whole pages: Whole(x) says that a remainder is 0; the proof works with  *)
(* the multiple instead.                                                   *)

\* A multiple leaves no remainder.
LEMMA NoRemainder ==
    ASSUME NEW p \in Nat, 0 < p, NEW k \in Nat, NEW q \in Nat, NEW r \in 0 .. p - 1,
           p * k = p * q + r
    PROVE  r = 0
<1>1. p * (k - q) = r
  OBVIOUS
<1>2. CASE k - q >= 1
  <2>1. p * (k - q) >= p
    BY <1>2
  <2> QED BY <2>1, <1>1
<1>3. CASE k - q <= -1
  <2>1. p * (k - q) <= -p
    BY <1>3
  <2> QED BY <2>1, <1>1
<1>4. CASE k - q = 0
  BY <1>1, <1>4
<1> QED BY <1>2, <1>3, <1>4

\* A whole number of pages is a multiple of the page size, and conversely.
LEMMA WholeMultiple ==
    ASSUME NEW x \in Nat
    PROVE  Whole(x) <=> \E k \in Nat : x = PageSize * k
<1>1. PageSize \in Nat /\ PageSize > 0
  BY WordsAssumption
<1>2. /\ x = PageSize * (x \div PageSize) + (x % PageSize)
      /\ x \div PageSize \in Nat /\ x % PageSize \in 0 .. PageSize - 1
  BY <1>1
<1>3. ASSUME NEW k \in Nat, x = PageSize * k PROVE x % PageSize = 0
  BY <1>1, <1>2, <1>3, NoRemainder
<1>4. ASSUME x % PageSize = 0 PROVE \E k \in Nat : x = PageSize * k
  <2>1. x = PageSize * (x \div PageSize)
    BY <1>1, <1>2, <1>4
  <2> QED BY <1>2, <2>1
<1> QED BY <1>3, <1>4 DEF Whole

\* Sums and differences of whole numbers of pages.
LEMMA WholeSum ==
    ASSUME NEW x \in Nat, NEW y \in Nat, Whole(x), Whole(y)
    PROVE  Whole(x + y) /\ (y <= x => Whole(x - y))
<1>1. PageSize \in Nat /\ PageSize > 0
  BY WordsAssumption
<1>2. PICK k \in Nat : x = PageSize * k
  BY WholeMultiple
<1>3. PICK j \in Nat : y = PageSize * j
  BY WholeMultiple
<1>4. x + y = PageSize * (k + j) /\ k + j \in Nat
  BY <1>1, <1>2, <1>3
<1>5. Whole(x + y)
  BY <1>4, WholeMultiple
<1>6. ASSUME y <= x PROVE Whole(x - y)
  <2>1. x - y = PageSize * (k - j)
    BY <1>1, <1>2, <1>3
  <2>2. j <= k
    <3>1. SUFFICES ASSUME k - j <= -1 PROVE FALSE
      OBVIOUS
    <3>2. PageSize * (k - j) <= -PageSize
      BY <1>1, <3>1
    <3> QED BY <1>1, <1>6, <2>1, <3>2
  <2>3. k - j \in Nat /\ x - y \in Nat
    BY <2>2, <1>6
  <2> QED BY <2>1, <2>3, WholeMultiple
<1> QED BY <1>5, <1>6

\* The constants are whole pages, and so is what the rounding macros return.
LEMMA WholeWords ==
    /\ Whole(0) /\ Whole(MMAP_MIN_ADDR) /\ Whole(MemSize)
    /\ \A x \in Words : Whole(PageDown(x)) /\ Whole(RoundSize(x))
    /\ \A x, n \in Words : Whole(RoundUp(x, n))
<1>1. PageSize \in Nat /\ PageSize > 0 /\ MemSize \in Nat
  BY WordsAssumption
<1>2. Whole(0) /\ Whole(MMAP_MIN_ADDR) /\ Whole(MemSize)
  <2>1. 0 = PageSize * 0
    BY <1>1
  <2> QED BY <2>1, WholeMultiple, WordsAssumption DEF Whole
<1>3. ASSUME NEW x \in Nat PROVE Whole(PageDown(x))
  <2>1. PageDown(x) = PageSize * (x \div PageSize) /\ x \div PageSize \in Nat
    BY <1>1 DEF PageDown
  <2> QED BY <2>1, PageDownRange, WholeMultiple
<1>4. ASSUME NEW x \in Words, NEW n \in Words
      PROVE  Word(n + PageSize - 1) \in Nat /\ Word((x % PageSize) + n + PageSize - 1) \in Nat
  <2>1. x % PageSize \in 0 .. PageSize - 1
    BY <1>1 DEF Words
  <2> QED BY <1>1, <2>1 DEF Words, Word
<1>5. \A x \in Words : x \in Nat
  BY <1>1 DEF Words
<1> QED BY <1>2, <1>3, <1>4, <1>5 DEF RoundSize, RoundUp

\* The distance from an address to the end of memory.
LEMMA WholeNegated ==
    ASSUME NEW x \in Words, Whole(x)
    PROVE  Whole(Word(-x))
<1>1. x \in Nat /\ x < MemSize /\ MemSize \in Nat
  BY WordsAssumption DEF Words
<1>2. Whole(MemSize - x)
  BY <1>1, WholeWords, WholeSum
<1>3. CASE ~(-x < 0)
  <2>1. Word(-x) = 0
    BY <1>1, <1>3 DEF Word
  <2> QED BY <2>1, WholeWords
<1>4. CASE -x < 0
  <2>1. Word(-x) = MemSize - x
    <3>1. -x < 0 /\ -x + MemSize = MemSize - x
      BY <1>1, <1>4
    <3> QED BY <3>1 DEF Word
  <2> QED BY <1>2, <2>1
<1> QED BY <1>3, <1>4

\* The end of a mapping is a whole page too, also when it wraps to 0.
LEMMA WholeEnd ==
    ASSUME IInv, PageAligned, NEW n \in live
    PROVE  Whole(End(n))
<1>1. addr[n] \in Nat /\ size[n] \in Nat /\ Whole(addr[n]) /\ Whole(size[n])
  BY NodeTypes DEF IInv, PageAligned
<1>2. Whole(addr[n] + size[n])
  BY <1>1, WholeSum
<1>3. End(n) = addr[n] + size[n] \/ End(n) = 0
  <2>1. addr[n] + size[n] <= MemSize /\ MemSize \in Nat
    BY WordsAssumption DEF IInv, Disjoint, Placed
  <2> QED BY <1>1, <2>1, MappingEnds DEF IInv
<1> QED BY <1>2, <1>3, WholeWords

-----------------------------------------------------------------------------
(* The steps that change addresses or sizes.                               *)

\* A step that changes neither the set of mappings nor where they lie.
LEMMA SamePages ==
    ASSUME PageAligned, UNCHANGED <<live, addr, size>>
    PROVE  PageAligned'
BY DEF PageAligned

\* The entry blocks round the arguments.
LEMMA EntryAligned ==
    ASSUME IInv, AInv, MapFixedEntry \/ MapAnywhereEntry \/ UnmapEntry \/ FindEntry
    PROVE  AInv'
<1> USE DEF AInv
<1>1. req.addr \in Words /\ req.size \in Words
  BY RequestTypes DEF IInv, TypeOK
<1>2. CASE MapFixedEntry
  <2>1. Whole(a') /\ Whole(s')
    BY <1>1, <1>2, WholeWords DEF MapFixedEntry
  <2> QED BY <1>2, <2>1, SamePages DEF MapFixedEntry, heap, CallAligned, Cutting
<1>3. CASE MapAnywhereEntry
  <2>1. Whole(s') /\ (pc' = "new" => Whole(a')) /\ pc' \in {"new", "gap"}
    BY <1>1, <1>3, WholeWords DEF MapAnywhereEntry
  <2> QED BY <1>3, <2>1, SamePages DEF MapAnywhereEntry, heap, CallAligned, Cutting
<1>4. CASE UnmapEntry
  <2>1. CASE pc' = "done"
    BY <1>4, <2>1, SamePages DEF UnmapEntry, heap, CallAligned, Cutting
  <2>2. CASE pc' # "done"
    <3>1. Whole(a') /\ Whole(RoundUp(req.addr, req.size)) /\ a' \in Words
      BY <1>1, <1>4, WholeWords, RoundingRange DEF UnmapEntry
    <3>2. s' \in {RoundUp(req.addr, req.size), Word(-a')} /\ pc' = "walk"
      BY <1>4, <2>2 DEF UnmapEntry
    <3>3. Whole(Word(-a'))
      BY <3>1, WholeNegated
    <3> QED BY <1>4, <3>1, <3>2, <3>3, SamePages DEF UnmapEntry, heap, CallAligned, Cutting
  <2> QED BY <2>1, <2>2
<1>5. CASE FindEntry
  BY <1>5, SamePages DEF FindEntry, heap, CallAligned, Cutting
<1> QED BY <1>2, <1>3, <1>4, <1>5

\* The steps that only move the pointers of a call, or only write bytes.
LEMMA PointerAligned ==
    ASSUME IInv, AInv,
           \/ Call \/ Walk \/ WalkDone \/ GapWalk \/ GapFound
           \/ MapRefused \/ NoMergeNext \/ LoHi \/ UnlinkDone \/ KeepLo \/ KeepHi
           \/ FindDone \/ WriteDone \/ Fault \/ Return \/ UNCHANGED vars
    PROVE  AInv'
<1> USE DEF AInv, CallAligned, Cutting
<1>1. CASE Call
  BY <1>1, SamePages DEF Call, heap, locals
<1>2. CASE Walk \/ WalkDone
  BY <1>2, SamePages DEF Walk, WalkDone, heap, locals, IInv, CallInv, MapInv
<1>3. CASE GapWalk
  BY <1>3, SamePages DEF GapWalk, heap
<1>4. CASE GapFound
  <2>1. cur \in live
    BY <1>4 DEF GapFound, IInv, NoDangling, CallInv, MapInv
  <2>2. Whole(a') /\ Whole(s)
    BY <1>4, <2>1, WholeEnd DEF GapFound
  <2> QED BY <1>4, <2>2, SamePages DEF GapFound, heap
<1>5. CASE MapRefused \/ NoMergeNext \/ FindDone \/ WriteDone \/ Fault \/ Return
  BY <1>5, SamePages DEF MapRefused, NoMergeNext, FindDone, WriteDone, Fault, Return, heap
<1>6. CASE LoHi \/ UnlinkDone \/ KeepLo \/ KeepHi
  BY <1>6, SamePages DEF LoHi, UnlinkDone, KeepLo, KeepHi, heap, locals
<1>7. CASE UNCHANGED vars
  BY <1>7, SamePages DEF vars, heap, locals
<1> QED BY <1>1, <1>2, <1>3, <1>4, <1>5, <1>6, <1>7

\* mmap_new: a mapping grows, appears, or swallows the next one.
LEMMA MapAligned ==
    ASSUME IInv, AInv, ExtendPrev \/ InsertNode \/ MergeNext
    PROVE  AInv'
<1> USE DEF AInv
<1>1. CASE ExtendPrev
  <2>1. /\ cur \in live /\ cur \in Node /\ size[cur] \in Nat /\ s \in Nat
        /\ Whole(size[cur]) /\ Whole(s) /\ Whole(a)
    BY <1>1, NodeTypes, LocalTypes, MemMapAssumption
       DEF ExtendPrev, MergesWithPrev, IInv, NoDangling, PageAligned, CallAligned
  <2>2. Whole(size[cur] + s)
    BY <2>1, WholeSum
  <2>3. /\ size'[cur] = size[cur] + s
        /\ \A m \in Node : m # cur => size'[m] = size[m]
    BY <1>1, <2>1 DEF ExtendPrev, IInv, TypeOK
  <2>4. PageAligned'
    BY <1>1, <2>1, <2>2, <2>3, NodeTypes DEF PageAligned, ExtendPrev, IInv
  <2> QED BY <1>1, <2>1, <2>4 DEF CallAligned, ExtendPrev, locals, Cutting
<1>2. CASE InsertNode
  <2>1. PICK n \in Node \ live :
          /\ live' = live \cup {n}
          /\ addr' = [addr EXCEPT ![n] = a]
          /\ size' = [size EXCEPT ![n] = s]
    BY <1>2 DEF InsertNode
  <2>2. Whole(a) /\ Whole(s) /\ pc' = "merge" /\ UNCHANGED <<a, s>>
    BY <1>2 DEF InsertNode, CallAligned
  <2>3. /\ addr'[n] = a /\ size'[n] = s
        /\ \A m \in live : addr'[m] = addr[m] /\ size'[m] = size[m]
    BY <2>1, NodeTypes DEF IInv, TypeOK
  <2>4. PageAligned'
    BY <2>1, <2>2, <2>3 DEF PageAligned
  <2> QED BY <2>2, <2>4 DEF CallAligned, Cutting
<1>3. CASE MergeNext
  <2>1. /\ cur \in live /\ next[cur] \in live
        /\ cur \in Node /\ next[cur] \in Node /\ cur # next[cur]
        /\ size[cur] \in Nat /\ size[next[cur]] \in Nat
        /\ Whole(size[cur]) /\ Whole(size[next[cur]])
    <3>1. cur \in live /\ next[cur] # NULL
      BY <1>3 DEF MergeNext, MergesWithNext, IInv, NoDangling, CallInv, MapInv
    <3>2. next[cur] \in live /\ addr[cur] < addr[next[cur]]
      BY <3>1 DEF IInv, SortedList, NextIsNext
    <3>3. addr[cur] \in Nat
      BY <3>1, NodeTypes DEF IInv
    <3> QED BY <3>1, <3>2, <3>3, NodeTypes DEF IInv, PageAligned
  <2>2. Whole(size[cur] + size[next[cur]])
    BY <2>1, WholeSum
  <2>3. /\ live' = live \ {next[cur]}
        /\ size' = [size EXCEPT ![cur] = @ + size[next[cur]], ![next[cur]] = 0]
        /\ addr' = [addr EXCEPT ![next[cur]] = 0]
        /\ pc' = "done"
    BY <1>3 DEF MergeNext, Freed
  <2>4. /\ size'[cur] = size[cur] + size[next[cur]]
        /\ \A m \in live' : m # cur => size'[m] = size[m]
        /\ \A m \in live' : addr'[m] = addr[m]
    BY <2>1, <2>3, NodeTypes DEF IInv, TypeOK
  <2>5. PageAligned'
    BY <2>2, <2>3, <2>4 DEF PageAligned
  <2> QED BY <2>3, <2>5 DEF CallAligned, Cutting
<1> QED BY <1>1, <1>2, <1>3

\* mem_unmap: a mapping goes, loses its tail, its middle or its front.
LEMMA UnmapAligned ==
    ASSUME IInv, AInv, Unlink \/ TrimLo \/ SplitLo \/ TrimHi
    PROVE  AInv'
<1> USE DEF AInv
<1>1. /\ a \in Nat /\ s \in Nat /\ Whole(a) /\ Whole(s) /\ Whole(a + s)
  <2>1. Cutting
    BY DEF Cutting, Unlink, TrimLo, SplitLo, TrimHi
  <2>2. a \in Nat /\ s \in Nat /\ Whole(a) /\ Whole(s)
    BY <2>1, LocalTypes DEF IInv, CallAligned
  <2> QED BY <2>2, WholeSum
<1>2. CASE Unlink
  <2>1. /\ live' = live \ {hi}
        /\ size' = [size EXCEPT ![hi] = 0] /\ addr' = [addr EXCEPT ![hi] = 0]
        /\ UNCHANGED <<a, s>>
    BY <1>2 DEF Unlink, Freed
  <2>2. \A m \in live' : addr'[m] = addr[m] /\ size'[m] = size[m]
    BY <2>1, NodeTypes DEF IInv, TypeOK
  <2>3. PageAligned'
    BY <2>1, <2>2 DEF PageAligned
  <2> QED BY <1>1, <2>1, <2>3 DEF CallAligned
<1>3. ASSUME TrimLo \/ SplitLo
      PROVE  /\ cur \in live /\ cur \in Node /\ TouchesLo
             /\ size[cur] - Word(End(cur) - a) = a - addr[cur]
             /\ Whole(a - addr[cur]) /\ UNCHANGED <<a, s>>
  <2>1. pc = "trimlo" /\ TouchesLo /\ UNCHANGED <<a, s>>
    BY <1>3 DEF TrimLo, SplitLo, locals
  <2>2. /\ cur \in live /\ cur \in Node /\ addr[cur] \in Nat /\ addr[cur] < a
        /\ size[cur] - Word(End(cur) - a) = a - addr[cur]
    BY <2>1, TrimMeans, TrimLoMeans
  <2>3. Whole(addr[cur])
    BY <2>2 DEF PageAligned
  <2>4. Whole(a - addr[cur])
    BY <1>1, <2>2, <2>3, WholeSum
  <2> QED BY <2>1, <2>2, <2>4
<1>4. CASE TrimLo
  <2>1. /\ size' = [size EXCEPT ![cur] = a - addr[cur]]
        /\ UNCHANGED <<live, addr>>
    BY <1>3, <1>4 DEF TrimLo, IInv, TypeOK
  <2>2. /\ size'[cur] = a - addr[cur]
        /\ \A m \in live : m # cur => size'[m] = size[m]
    BY <1>3, <1>4, <2>1, NodeTypes DEF IInv, TypeOK
  <2>3. PageAligned'
    BY <1>3, <1>4, <2>1, <2>2 DEF PageAligned
  <2> QED BY <1>1, <1>3, <1>4, <2>3 DEF CallAligned
<1>5. CASE SplitLo
  <2> DEFINE tail == Word(a + s)
             left == Word(End(cur) - tail)
  <2>1. PICK n \in Node \ live :
          /\ live' = live \cup {n}
          /\ addr' = [addr EXCEPT ![n] = tail]
          /\ size' = [size EXCEPT ![n] = left, ![cur] = @ - Word(End(cur) - a)]
    BY <1>5 DEF SplitLo
  <2>2. Whole(tail) /\ Whole(left)
    <3>1. /\ addr[cur] \in Nat /\ size[cur] \in Nat /\ MemSize \in Nat
          /\ addr[cur] + size[cur] <= MemSize /\ Whole(addr[cur]) /\ Whole(size[cur])
          /\ a + s < addr[cur] + size[cur]
      <4>1. /\ Last(cur) > RangeLast /\ RangeLast = a + s - 1
            /\ Last(cur) = addr[cur] + size[cur] - 1
        BY <1>3, <1>5, TrimMeans, MemMapAssumption DEF SplitLo, IInv, TypeOK
      <4>2. /\ addr[cur] \in Nat /\ size[cur] \in Nat /\ MemSize \in Nat
            /\ addr[cur] + size[cur] <= MemSize /\ Whole(addr[cur]) /\ Whole(size[cur])
        BY <1>3, <1>5, NodeTypes, WordsAssumption DEF IInv, Disjoint, Placed, PageAligned
      <4> QED BY <1>1, <4>1, <4>2
    <3>2. tail = a + s
      BY <1>1, <3>1 DEF Word
    <3>3. left = (addr[cur] + size[cur]) - (a + s)
      <4>1. /\ addr[cur] + size[cur] < MemSize => End(cur) = addr[cur] + size[cur]
            /\ addr[cur] + size[cur] = MemSize => End(cur) = 0
        BY <1>3, <1>5, MappingEnds DEF IInv
      <4>2. CASE addr[cur] + size[cur] < MemSize
        <5>1. left = Word((addr[cur] + size[cur]) - (a + s))
          BY <3>2, <4>1, <4>2
        <5> HIDE DEF left, tail
        <5> QED BY <1>1, <3>1, <4>2, <5>1 DEF Word
      <4>3. CASE addr[cur] + size[cur] = MemSize
        <5>1. left = Word(0 - (a + s))
          BY <3>2, <4>1, <4>3
        <5>2. 0 < a + s /\ 0 - (a + s) + MemSize = MemSize - (a + s)
          BY <1>1, <3>1, TrimMeans, <1>3, <1>5 DEF SplitLo
        <5> HIDE DEF left, tail
        <5> QED BY <1>1, <3>1, <4>3, <5>1, <5>2 DEF Word
      <4> QED BY <3>1, <4>2, <4>3
    <3>4. Whole(addr[cur] + size[cur])
      BY <3>1, WholeSum
    <3>5. Whole((addr[cur] + size[cur]) - (a + s))
      <4>1. /\ addr[cur] + size[cur] \in Nat /\ a + s \in Nat
            /\ a + s <= addr[cur] + size[cur]
        BY <1>1, <3>1
      <4> QED BY <1>1, <3>4, <4>1, WholeSum
    <3> QED BY <1>1, <3>2, <3>3, <3>5
  <2>3. /\ addr'[n] = tail /\ size'[n] = left
        /\ size'[cur] = a - addr[cur]
        /\ \A m \in live : addr'[m] = addr[m] /\ (m # cur => size'[m] = size[m])
    <3> HIDE DEF tail, left
    <3>1. cur # n /\ n \in Node /\ n \notin live
      BY <1>3, <1>5
    <3> QED BY <1>3, <1>5, <2>1, <3>1, NodeTypes DEF IInv, TypeOK
  <2>4. PageAligned'
    <3> HIDE DEF tail, left
    <3> QED BY <1>3, <1>5, <2>1, <2>2, <2>3 DEF PageAligned
  <2> QED BY <1>1, <1>3, <1>5, <2>4 DEF CallAligned
<1>6. CASE TrimHi
  <2>1. /\ hi \in live /\ hi \in Node /\ addr[hi] \in Nat /\ size[hi] \in Nat
        /\ MemSize \in Nat /\ addr[hi] + size[hi] <= MemSize
        /\ Whole(addr[hi]) /\ Whole(size[hi])
        /\ a + s < addr[hi] + size[hi] /\ 0 < s /\ addr[hi] <= RangeLast
    <3>1. /\ pc = "trimhi" /\ hi # NULL /\ RangeLast >= addr[hi]
      BY <1>6 DEF TrimHi, TouchesHi
    <3>2. /\ hi \in live /\ 0 < s /\ a + s < addr[hi] + size[hi]
      BY <3>1 DEF IInv, NoDangling, CallInv, UnmapInv, Cutting
    <3>3. /\ hi \in Node /\ addr[hi] \in Nat /\ size[hi] \in Nat
          /\ Whole(addr[hi]) /\ Whole(size[hi]) /\ addr[hi] + size[hi] <= MemSize
      BY <3>2, NodeTypes DEF IInv, Disjoint, Placed, PageAligned
    <3>4. RangeLast \in Int /\ MemSize \in Nat
      <4>1. a + s <= MemSize
        BY <3>1 DEF IInv, CallInv, UnmapInv, Cutting
      <4>2. RangeLast = a + s - 1
        BY <3>2, <4>1, RangeEnds DEF RangeLast, IInv, TypeOK
      <4> QED BY <1>1, <4>2, LocalTypes DEF IInv
    <3> QED BY <3>1, <3>2, <3>3, <3>4
  <2>2. addr[hi] < a + s
    BY <1>1, <2>1, RangeEnds DEF RangeLast, IInv, TypeOK
  <2>3. Word(Word(a + s) - addr[hi]) = (a + s) - addr[hi]
    <3>1. Word(a + s) = a + s
      BY <1>1, <2>1 DEF Word
    <3> QED BY <1>1, <2>1, <2>2, <3>1 DEF Word
  <2>4. Whole((a + s) - addr[hi])
    <3>1. a + s \in Nat /\ addr[hi] <= a + s
      BY <1>1, <2>1, <2>2
    <3> QED BY <1>1, <2>1, <3>1, WholeSum
  <2>5. Whole(size[hi] - ((a + s) - addr[hi])) /\ Whole(addr[hi] + ((a + s) - addr[hi]))
    <3>1. (a + s) - addr[hi] \in Nat /\ (a + s) - addr[hi] <= size[hi]
      BY <1>1, <2>1, <2>2
    <3> QED BY <2>1, <2>4, <3>1, WholeSum
  <2>6. /\ size' = [size EXCEPT ![hi] = @ - ((a + s) - addr[hi])]
        /\ addr' = [addr EXCEPT ![hi] = @ + ((a + s) - addr[hi])]
        /\ pc' = "done" /\ live' = live
    BY <1>6, <2>3 DEF TrimHi
  <2>7. /\ size'[hi] = size[hi] - ((a + s) - addr[hi])
        /\ addr'[hi] = addr[hi] + ((a + s) - addr[hi])
        /\ \A m \in live : m # hi => size'[m] = size[m] /\ addr'[m] = addr[m]
    BY <2>1, <2>6, NodeTypes DEF IInv, TypeOK
  <2>8. PageAligned'
    BY <2>5, <2>6, <2>7 DEF PageAligned
  <2> QED BY <2>6, <2>8 DEF CallAligned, Cutting
<1> QED BY <1>2, <1>4, <1>5, <1>6

-----------------------------------------------------------------------------
(* The theorem.                                                            *)

\* Every step keeps mappings and rounded arguments whole pages.
LEMMA NextAligned == ASSUME IInv, AInv, [Next]_vars PROVE AInv'
<1>1. CASE MapFixedEntry \/ MapAnywhereEntry \/ UnmapEntry \/ FindEntry
  BY <1>1, EntryAligned
<1>2. CASE \/ Call \/ Walk \/ WalkDone \/ GapWalk \/ GapFound
           \/ MapRefused \/ NoMergeNext \/ LoHi \/ UnlinkDone \/ KeepLo \/ KeepHi
           \/ FindDone \/ WriteDone \/ Fault \/ Return \/ UNCHANGED vars
  BY <1>2, PointerAligned
<1>3. CASE ExtendPrev \/ InsertNode \/ MergeNext
  BY <1>3, MapAligned
<1>4. CASE Unlink \/ TrimLo \/ SplitLo \/ TrimHi
  BY <1>4, UnmapAligned
<1> QED BY <1>1, <1>2, <1>3, <1>4 DEF Next, Step, Exited

\* Every mapping is whole pages, whatever addresses and sizes were passed.
THEOREM MappingsAligned == Spec => []PageAligned
<1>1. Init => AInv
  BY DEF Init, AInv, PageAligned, CallAligned, Cutting
<1>2. IInv /\ AInv /\ [Next]_vars => AInv'
  BY NextAligned
<1>3. AInv => PageAligned
  BY DEF AInv
<1> QED BY <1>1, <1>2, <1>3, Invariant, PTL DEF Spec

-----------------------------------------------------------------------------
(* The plain map of pages.                                                 *)

\* Accesses are short, and the mark of an unmapped byte is no protection.
ShortReads == Unmapped \notin Prots /\ \A n \in Numbs : 0 < n /\ n <= MMAP_MIN_ADDR

-----------------------------------------------------------------------------
(* The memory a list of mappings stands for.                               *)

Pages == [b \in Words |-> IF Holders(b) = {} THEN Unmapped
                          ELSE prot[CHOOSE n \in Holders(b) : TRUE]]
Bytes == [b \in Words |-> IF Holders(b) = {} THEN Junk
                          ELSE LET n == CHOOSE n \in Holders(b) : TRUE
                               IN  data[n][b - addr[n]]]
At == CASE pc \in {"idle", "exit"} -> pc
        [] pc \in {"entry", "walk", "gap", "new", "lohi", "found"} -> "called"
        [] OTHER -> "done"

\* Mapping n shows byte b to the program.
Shows(n, b) == /\ n \in live /\ addr[n] <= b /\ b < addr[n] + size[n]
               /\ ~BeingCut(b)

LEMMA ShownByOne ==
    ASSUME IInv, NEW b \in Words, NEW n, Shows(n, b)
    PROVE  /\ Holders(b) = {n} /\ prot[n] \in Prots
           /\ Pages[b] = prot[n] /\ Bytes[b] = data[n][b - addr[n]]
<1>1. n \in live /\ n \in Node /\ addr[n] \in Nat /\ size[n] \in Nat /\ prot[n] \in Prots
  BY NodeTypes DEF Shows, IInv
<1>2. ASSUME NEW m, Shows(m, b) PROVE m = n
  <2>1. m \in live /\ addr[m] \in Nat /\ size[m] \in Nat
    BY <1>2, NodeTypes DEF Shows, IInv
  <2>2. m # n => Below(m, n) \/ Below(n, m)
    BY <1>1, <2>1 DEF IInv, Disjoint
  <2> QED BY <1>1, <1>2, <2>1, <2>2 DEF Shows, Below, Words
<1>3. Holders(b) = {n}
  BY <1>1, <1>2 DEF Holders, Shows
<1>4. (CHOOSE m \in Holders(b) : TRUE) = n
  BY <1>3
<1> QED BY <1>1, <1>3, <1>4 DEF Pages, Bytes

LEMMA ShownByNone ==
    ASSUME NEW b \in Words, \A n \in live : ~Shows(n, b)
    PROVE  Holders(b) = {} /\ Pages[b] = Unmapped /\ Bytes[b] = Junk
<1>1. Holders(b) = {}
  BY DEF Holders, Shows
<1> QED BY <1>1 DEF Pages, Bytes

\* The same of the next state.
LEMMA ShownByOneNext ==
    ASSUME IInv', NEW b \in Words, NEW n, Shows(n, b)'
    PROVE  Pages'[b] = prot'[n] /\ Bytes'[b] = data'[n][b - addr'[n]]
<1>1. n \in live' /\ n \in Node /\ addr'[n] \in Nat /\ size'[n] \in Nat
  BY MemMapAssumption DEF Shows, IInv, TypeOK, Words
<1>2. ASSUME NEW m, Shows(m, b)' PROVE m = n
  <2>1. m \in live' /\ m \in Node /\ addr'[m] \in Nat /\ size'[m] \in Nat
    BY <1>2, MemMapAssumption DEF Shows, IInv, TypeOK, Words
  <2>2. m # n => Below(m, n)' \/ Below(n, m)'
    BY <1>1, <2>1 DEF IInv, Disjoint
  <2> QED BY <1>1, <1>2, <2>1, <2>2 DEF Shows, Below, Words
<1>3. Holders(b)' = {n}
  BY <1>1, <1>2 DEF Holders, Shows
<1>4. (CHOOSE m \in Holders(b)' : TRUE) = n
  BY <1>3
<1> QED BY <1>1, <1>3, <1>4 DEF Pages, Bytes

LEMMA ShownByNoneNext ==
    ASSUME NEW b \in Words, \A n \in live' : ~Shows(n, b)'
    PROVE  Pages'[b] = Unmapped /\ Bytes'[b] = Junk
<1>1. Holders(b)' = {}
  BY DEF Holders, Shows
<1> QED BY <1>1 DEF Pages, Bytes

\* What n shows at b is what m shows there after the step.
Passes(n, m, b) == prot'[m] = prot[n] /\ data'[m][b - addr'[m]] = data[n][b - addr[n]]

SpanOf(x, k) == {b \in Words : x <= b /\ b < x + k}

\* A step changes memory in S only, if every byte outside is shown as it was
\* by some mapping, or by none as before.
LEMMA MemoryOutside ==
    ASSUME IInv, IInv', NEW S,
           \A b \in Words \ S, n \in live :
               Shows(n, b) => \E m \in live' : Shows(m, b)' /\ Passes(n, m, b),
           \A b \in Words \ S, m \in live' :
               Shows(m, b)' => \E n \in live : Shows(n, b)
    PROVE  \A b \in Words \ S : Pages'[b] = Pages[b] /\ Bytes'[b] = Bytes[b]
<1> SUFFICES ASSUME NEW b \in Words \ S
             PROVE  Pages'[b] = Pages[b] /\ Bytes'[b] = Bytes[b]
  OBVIOUS
<1>1. CASE \E n \in live : Shows(n, b)
  <2>1. PICK n \in live : Shows(n, b)
    BY <1>1
  <2>2. PICK m \in live' : Shows(m, b)' /\ Passes(n, m, b)
    BY <2>1
  <2> QED BY <2>1, <2>2, ShownByOne, ShownByOneNext DEF Passes
<1>2. CASE \A n \in live : ~Shows(n, b)
  <2>1. \A m \in live' : ~Shows(m, b)'
    BY <1>2
  <2> QED BY <1>2, <2>1, ShownByNone, ShownByNoneNext
<1> QED BY <1>1, <1>2

Same == Pages' = Pages /\ Bytes' = Bytes

Painted(x, k, p) ==
    /\ Pages' = [b \in Words |-> IF b \in SpanOf(x, k) THEN p ELSE Pages[b]]
    /\ Bytes' = [b \in Words |-> IF b \in SpanOf(x, k) THEN Junk ELSE Bytes[b]]

LEMMA SameEverywhere ==
    ASSUME \A b \in Words : Pages'[b] = Pages[b] /\ Bytes'[b] = Bytes[b]
    PROVE  Same
BY DEF Same, Pages, Bytes

LEMMA PaintedEverywhere ==
    ASSUME NEW x, NEW k, NEW p,
           \A b \in Words \ SpanOf(x, k) : Pages'[b] = Pages[b] /\ Bytes'[b] = Bytes[b],
           \A b \in SpanOf(x, k) : Pages'[b] = p /\ Bytes'[b] = Junk
    PROVE  Painted(x, k, p)
<1>1. \A b \in Words : /\ Pages'[b] = IF b \in SpanOf(x, k) THEN p ELSE Pages[b]
                       /\ Bytes'[b] = IF b \in SpanOf(x, k) THEN Junk ELSE Bytes[b]
  BY DEF SpanOf
<1>2. Pages' = [b \in Words |-> Pages'[b]] /\ Bytes' = [b \in Words |-> Bytes'[b]]
  BY DEF Pages, Bytes
<1>3. Pages' = [b \in Words |-> IF b \in SpanOf(x, k) THEN p ELSE Pages[b]]
  BY <1>1, <1>2
<1>4. Bytes' = [b \in Words |-> IF b \in SpanOf(x, k) THEN Junk ELSE Bytes[b]]
  BY <1>1, <1>2
<1> QED BY <1>3, <1>4 DEF Painted

-----------------------------------------------------------------------------
(* What each step does to the memory.                                      *)

\* A step that leaves the heap alone, and cuts the same range or none.
LEMMA QuietKeeps ==
    ASSUME UNCHANGED heap, \A b \in Words : BeingCut(b)' = BeingCut(b)
    PROVE  Same
<1> SUFFICES ASSUME NEW b \in Words
             PROVE  Pages'[b] = Pages[b] /\ Bytes'[b] = Bytes[b]
  BY SameEverywhere
<1>1. Holders(b)' = Holders(b)
  BY DEF Holders, heap
<1>2. Pages'[b] = Pages[b]
  BY <1>1 DEF Pages, heap
<1>3. Bytes'[b] = Bytes[b]
  BY <1>1 DEF Bytes, heap
<1> QED BY <1>2, <1>3

\* The mapping that swallows the next one shows its bytes.
LEMMA MergeNextKeeps == ASSUME IInv, IInv', MergeNext PROVE Same
<1> DEFINE n == next[cur]
<1>1. /\ cur \in live /\ cur \in Node /\ n \in live /\ n \in Node /\ n # cur
      /\ addr[cur] + size[cur] = addr[n] /\ prot[cur] = prot[n] /\ pc = "merge"
      /\ addr[cur] \in Nat /\ addr[n] \in Nat /\ size[cur] \in Nat /\ size[n] \in Nat
  <2>1. pc = "merge" /\ cur # NULL /\ MergesWithNext
    BY DEF MergeNext, IInv, CallInv, MapInv
  <2>2. Touching(cur) /\ prot[cur] = prot[n]
    BY <2>1, MergesWithNextMeans DEF IInv
  <2>3. cur \in live /\ n \in live
    BY <2>1, <2>2 DEF IInv, NoDangling, Touching, SortedList, NextIsNext
  <2>4. addr[cur] < addr[n] /\ addr[cur] \in Nat
    BY <2>2, <2>3, NodeTypes DEF IInv, Touching, SortedList, NextIsNext
  <2> QED BY <2>1, <2>2, <2>3, <2>4, NodeTypes DEF IInv, Touching
<1>2. /\ live' = live \ {n} /\ pc' = "done"
      /\ size'[cur] = size[cur] + size[n]
      /\ data'[cur] = Joined(data[cur], size[cur], data[n], size[n])
      /\ \A m \in Node : m # n /\ m # cur => size'[m] = size[m] /\ data'[m] = data[m]
      /\ \A m \in Node : m # n => addr'[m] = addr[m] /\ prot'[m] = prot[m]
  BY <1>1 DEF MergeNext, Freed, IInv, TypeOK
<1>3. \A b : ~BeingCut(b) /\ ~BeingCut(b)'
  BY <1>1, <1>2 DEF BeingCut
<1>4. \A m \in live : m \in Node /\ addr[m] \in Nat /\ size[m] \in Nat
  BY NodeTypes DEF IInv
<1> HIDE DEF n
<1>c. PICK c \in live' : c = cur /\ c \in live
  BY <1>1, <1>2
<1>5. ASSUME NEW b \in Words, NEW k \in live, Shows(k, b)
      PROVE  \E m \in live' : Shows(m, b)' /\ Passes(k, m, b)
  <2>1. b \in Nat
    BY WordsAssumption DEF Words
  <2>2. CASE k = n
    <3>1. Shows(c, b)'
      BY <1>c, <1>1, <1>2, <1>3, <1>5, <2>1, <2>2 DEF Shows
    <3>2. b - addr[cur] \in 0 .. size[cur] + size[n] - 1 /\ ~(b - addr[cur] < size[cur])
          /\ b - addr[cur] - size[cur] = b - addr[n]
      BY <1>1, <1>5, <2>1, <2>2 DEF Shows
    <3>3. data'[cur][b - addr[cur]] = data[n][b - addr[n]]
      BY <1>2, <3>2 DEF Joined
    <3> QED BY <1>c, <1>1, <1>2, <2>2, <3>1, <3>3 DEF Passes
  <2>3. CASE k = cur
    <3>1. Shows(c, b)'
      BY <1>c, <1>1, <1>2, <1>3, <1>5, <2>1, <2>3 DEF Shows
    <3>2. b - addr[cur] \in 0 .. size[cur] + size[n] - 1 /\ b - addr[cur] < size[cur]
      BY <1>1, <1>5, <2>1, <2>3 DEF Shows
    <3>3. data'[cur][b - addr[cur]] = data[cur][b - addr[cur]]
      BY <1>2, <3>2 DEF Joined
    <3> QED BY <1>c, <1>1, <1>2, <2>3, <3>1, <3>3 DEF Passes
  <2>4. CASE k # n /\ k # cur
    <3>1. Shows(k, b)' /\ Passes(k, k, b)
      BY <1>2, <1>3, <1>4, <1>5, <2>4 DEF Shows, Passes
    <3> QED BY <1>2, <2>4, <3>1
  <2> QED BY <2>2, <2>3, <2>4
<1>6. ASSUME NEW b \in Words, NEW m \in live', Shows(m, b)'
      PROVE  \E k \in live : Shows(k, b)
  <2>1. CASE m = cur
    <3>1. b < addr[cur] + size[cur] => Shows(c, b)
      BY <1>c, <1>1, <1>2, <1>3, <1>6, <2>1 DEF Shows
    <3>2. ~(b < addr[cur] + size[cur]) => Shows(n, b)
      BY <1>c, <1>1, <1>2, <1>3, <1>6, <2>1, WordsAssumption DEF Shows, Words
    <3> QED BY <1>1, <1>c, <3>1, <3>2
  <2>2. CASE m # cur
    BY <1>2, <1>3, <1>4, <1>6, <2>2 DEF Shows
  <2> QED BY <2>1, <2>2
<1>7. \A b \in Words \ {} : Pages'[b] = Pages[b] /\ Bytes'[b] = Bytes[b]
  <2>1. \A b \in Words \ {}, k \in live :
           Shows(k, b) => \E m \in live' : Shows(m, b)' /\ Passes(k, m, b)
    BY <1>5
  <2>2. \A b \in Words \ {}, m \in live' : Shows(m, b)' => \E k \in live : Shows(k, b)
    BY <1>6
  <2> QED BY <2>1, <2>2, MemoryOutside
<1> QED BY <1>7, SameEverywhere

\* The previous mapping grows over the new range.
LEMMA ExtendPrevPaints == ASSUME IInv, IInv', ExtendPrev PROVE Painted(a, s, req.prot)
<1>1. /\ cur \in live /\ cur \in Node /\ prot[cur] = req.prot /\ pc = "new"
      /\ 0 < s /\ a + s <= MemSize /\ MemSize \in Nat
      /\ addr[cur] \in Nat /\ size[cur] \in Nat /\ a \in Nat /\ s \in Nat
  BY CanMapMeans, NodeTypes, LocalTypes DEF IInv, ExtendPrev, MergesWithPrev, NoDangling
<1>2. addr[cur] + size[cur] = a
  BY <1>1, CanMapMeans, MappingEnds, WordsAssumption
     DEF IInv, ExtendPrev, MergesWithPrev, PrevEnd, Disjoint, Placed
<1>3. /\ size'[cur] = size[cur] + s
      /\ data'[cur] = Grown(data[cur], size[cur], s)
      /\ \A n \in Node : n # cur => size'[n] = size[n] /\ data'[n] = data[n]
      /\ UNCHANGED <<live, addr, prot>> /\ pc' = "merge"
  BY <1>1 DEF IInv, ExtendPrev, TypeOK
<1>c. PICK c \in live' : c = cur
  BY <1>1, <1>3
<1>4. \A b : ~BeingCut(b) /\ ~BeingCut(b)'
  BY <1>1, <1>3 DEF BeingCut
<1>5. \A m \in live : m \in Node /\ addr[m] \in Nat /\ size[m] \in Nat
  BY NodeTypes DEF IInv
<1>6. ASSUME NEW b \in Words \ SpanOf(a, s), NEW k \in live
      PROVE  /\ Shows(k, b)' <=> Shows(k, b)
             /\ Shows(k, b) => Passes(k, k, b)
  <2>1. b \in Nat /\ ~(a <= b /\ b < a + s)
    BY WordsAssumption DEF Words, SpanOf
  <2>2. CASE k = cur
    <3>1. Shows(c, b)' <=> Shows(c, b)
      BY <1>c, <1>1, <1>2, <1>3, <1>4, <2>1 DEF Shows
    <3>2. ASSUME Shows(c, b)
          PROVE  data'[cur][b - addr[cur]] = data[cur][b - addr[cur]]
      <4>1. b - addr[cur] \in 0 .. size[cur] + s - 1 /\ b - addr[cur] < size[cur]
        BY <1>c, <1>1, <2>1, <3>2 DEF Shows
      <4> QED BY <1>3, <4>1 DEF Grown
    <3> QED BY <1>c, <1>3, <2>2, <3>1, <3>2 DEF Passes
  <2>3. CASE k # cur
    BY <1>3, <1>4, <1>5, <2>3 DEF Shows, Passes
  <2> QED BY <2>2, <2>3
<1>7. \A b \in Words \ SpanOf(a, s) : Pages'[b] = Pages[b] /\ Bytes'[b] = Bytes[b]
  <2>1. \A b \in Words \ SpanOf(a, s), k \in live :
           Shows(k, b) => \E m \in live' : Shows(m, b)' /\ Passes(k, m, b)
    BY <1>3, <1>6
  <2>2. \A b \in Words \ SpanOf(a, s), m \in live' :
           Shows(m, b)' => \E k \in live : Shows(k, b)
    BY <1>3, <1>6
  <2> QED BY <2>1, <2>2, MemoryOutside
<1>8. ASSUME NEW b \in SpanOf(a, s)
      PROVE  Pages'[b] = req.prot /\ Bytes'[b] = Junk
  <2>1. b \in Words /\ b \in Nat /\ a <= b /\ b < a + s
    BY WordsAssumption DEF Words, SpanOf
  <2>2. Shows(c, b)'
    BY <1>c, <1>1, <1>2, <1>3, <1>4, <2>1 DEF Shows
  <2>3. b - addr[cur] \in 0 .. size[cur] + s - 1 /\ ~(b - addr[cur] < size[cur])
    BY <1>1, <1>2, <2>1
  <2>4. data'[cur][b - addr[cur]] = Junk
    BY <1>3, <2>3 DEF Grown
  <2> QED BY <1>c, <1>1, <1>3, <2>1, <2>2, <2>4, ShownByOneNext
<1> QED BY <1>7, <1>8, PaintedEverywhere

\* The new mapping shows the new range.
LEMMA InsertNodePaints == ASSUME IInv, IInv', InsertNode PROVE Painted(a, s, req.prot)
<1>1. PICK n \in Node \ live :
        /\ live' = live \cup {n}
        /\ addr' = [addr EXCEPT ![n] = a]
        /\ size' = [size EXCEPT ![n] = s]
        /\ prot' = [prot EXCEPT ![n] = req.prot]
        /\ data' = [data EXCEPT ![n] = Fresh(s)]
  BY DEF InsertNode
<1>2. a \in Nat /\ s \in Nat /\ pc = "new" /\ pc' = "merge" /\ MemSize \in Nat
  BY LocalTypes DEF IInv, InsertNode
<1>3. /\ addr'[n] = a /\ size'[n] = s /\ prot'[n] = req.prot /\ data'[n] = Fresh(s)
      /\ \A m \in Node : m # n => addr'[m] = addr[m] /\ size'[m] = size[m]
                                   /\ prot'[m] = prot[m] /\ data'[m] = data[m]
  BY <1>1 DEF IInv, TypeOK
<1>4. \A b : ~BeingCut(b) /\ ~BeingCut(b)'
  BY <1>2 DEF BeingCut
<1>5. \A m \in live : m \in Node /\ m # n
  BY <1>1, NodeTypes DEF IInv
<1>6. \A b \in Words \ SpanOf(a, s) : Pages'[b] = Pages[b] /\ Bytes'[b] = Bytes[b]
  <2>1. \A b \in Words, k \in live : (Shows(k, b)' <=> Shows(k, b)) /\ Passes(k, k, b)
    BY <1>1, <1>3, <1>4, <1>5 DEF Shows, Passes
  <2>2. \A b \in Words \ SpanOf(a, s) : ~Shows(n, b)'
    BY <1>3 DEF Shows, SpanOf
  <2>3. \A b \in Words \ SpanOf(a, s), k \in live :
           Shows(k, b) => \E m \in live' : Shows(m, b)' /\ Passes(k, m, b)
    BY <1>1, <2>1
  <2>4. \A b \in Words \ SpanOf(a, s), m \in live' :
           Shows(m, b)' => \E k \in live : Shows(k, b)
    BY <1>1, <2>1, <2>2
  <2> QED BY <2>3, <2>4, MemoryOutside
<1>7. ASSUME NEW b \in SpanOf(a, s)
      PROVE  Pages'[b] = req.prot /\ Bytes'[b] = Junk
  <2>1. b \in Words /\ b \in Nat /\ a <= b /\ b < a + s
    BY WordsAssumption DEF Words, SpanOf
  <2>2. Shows(n, b)'
    BY <1>1, <1>3, <1>4, <2>1 DEF Shows
  <2>3. b - a \in 0 .. s - 1
    BY <1>2, <2>1
  <2>4. data'[n][b - addr'[n]] = Junk
    BY <1>3, <2>3 DEF Fresh
  <2> QED BY <1>3, <2>1, <2>2, <2>4, ShownByOneNext
<1> QED BY <1>6, <1>7, PaintedEverywhere

\* From here on the range of mem_unmap counts as unmapped.
LEMMA LoHiPaints == ASSUME IInv, IInv', LoHi PROVE Painted(a, s, Unmapped)
<1>1. /\ pc = "lohi" /\ pc' = "unlink" /\ UNCHANGED <<heap, a, s>>
  BY DEF LoHi
<1>2. \A b \in Words : ~BeingCut(b) /\ (BeingCut(b)' <=> b \in SpanOf(a, s))
  BY <1>1 DEF BeingCut, SpanOf
<1>3. \A b \in Words : \A k : Shows(k, b)' <=> Shows(k, b) /\ b \notin SpanOf(a, s)
  BY <1>1, <1>2 DEF Shows, heap
<1>4. \A b, k : Passes(k, k, b)
  BY <1>1 DEF Passes, heap
<1>5. \A b \in Words \ SpanOf(a, s) : Pages'[b] = Pages[b] /\ Bytes'[b] = Bytes[b]
  <2>1. \A b \in Words \ SpanOf(a, s), k \in live :
           Shows(k, b) => \E m \in live' : Shows(m, b)' /\ Passes(k, m, b)
    BY <1>1, <1>3, <1>4 DEF heap
  <2>2. \A b \in Words \ SpanOf(a, s), m \in live' :
           Shows(m, b)' => \E k \in live : Shows(k, b)
    BY <1>1, <1>3 DEF heap
  <2> QED BY <2>1, <2>2, MemoryOutside
<1>6. \A b \in SpanOf(a, s) : Pages'[b] = Unmapped /\ Bytes'[b] = Junk
  BY <1>3, ShownByNoneNext DEF SpanOf
<1> QED BY <1>5, <1>6, PaintedEverywhere

\* A step after which every byte is shown as before changes no memory.
LEMMA ShownAsBefore ==
    ASSUME IInv, IInv',
           \A b \in Words, k \in live :
               Shows(k, b) => \E m \in live' : Shows(m, b)' /\ Passes(k, m, b),
           \A b \in Words, m \in live' : Shows(m, b)' => \E k \in live : Shows(k, b)
    PROVE  Same
<1>1. \A b \in Words \ {}, k \in live :
         Shows(k, b) => \E m \in live' : Shows(m, b)' /\ Passes(k, m, b)
  OBVIOUS
<1>2. \A b \in Words \ {}, m \in live' : Shows(m, b)' => \E k \in live : Shows(k, b)
  OBVIOUS
<1>3. \A b \in Words \ {} : Pages'[b] = Pages[b] /\ Bytes'[b] = Bytes[b]
  BY <1>1, <1>2, MemoryOutside
<1> QED BY <1>3, SameEverywhere

\* Unlinking a covered mapping: its bytes were being cut already.
LEMMA UnlinkKeeps == ASSUME IInv, IInv', Unlink PROVE Same
<1>1. /\ pc = "unlink" /\ pc' = "unlink" /\ UNCHANGED <<a, s>>
      /\ hi \in live /\ hi \in Node /\ a <= addr[hi] /\ Last(hi) <= RangeLast
      /\ 0 < s /\ a + s <= MemSize
  BY NodeTypes DEF IInv, Unlink, Covered, CallInv, UnmapInv, Cutting, NoDangling
<1>2. /\ live' = live \ {hi}
      /\ \A m \in Node : m # hi => /\ addr'[m] = addr[m] /\ size'[m] = size[m]
                                   /\ prot'[m] = prot[m] /\ data'[m] = data[m]
  BY DEF Unlink, Freed, IInv, TypeOK
<1>3. addr[hi] + size[hi] <= a + s /\ addr[hi] \in Nat /\ size[hi] \in Nat /\ a \in Nat /\ s \in Nat
  BY <1>1, MappingEnds, RangeEnds, NodeTypes, LocalTypes, SMTT(30) DEF IInv, TypeOK, RangeLast
<1>4. \A b \in Words : ~Shows(hi, b)
  BY <1>1, <1>3, WordsAssumption DEF Shows, BeingCut, Words
<1>5. \A k \in live : k \in Node
  BY NodeTypes DEF IInv
<1>6. \A b \in Words, k \in live \ {hi} : (Shows(k, b)' <=> Shows(k, b)) /\ Passes(k, k, b)
  BY <1>1, <1>2, <1>5 DEF Shows, Passes, BeingCut
<1>7. \A b \in Words, k \in live :
         Shows(k, b) => \E m \in live' : Shows(m, b)' /\ Passes(k, m, b)
  BY <1>2, <1>4, <1>6
<1>8. \A b \in Words, m \in live' : Shows(m, b)' => \E k \in live : Shows(k, b)
  BY <1>2, <1>6
<1> QED BY <1>7, <1>8, ShownAsBefore

\* Cutting the tail of lo.
LEMMA TrimLoKeeps == ASSUME IInv, IInv', TrimLo PROVE Same
<1>1. /\ pc = "trimlo" /\ TouchesLo /\ pc' = "trimhi" /\ ~(Last(cur) > RangeLast)
      /\ UNCHANGED <<live, addr, prot, a, s>>
  BY DEF TrimLo, locals
<1>2. /\ cur \in live /\ cur \in Node /\ addr[cur] \in Nat /\ size[cur] \in Nat
      /\ a \in Nat /\ s \in Nat /\ addr[cur] < a /\ addr[cur] + size[cur] <= a + s
      /\ size[cur] - Word(End(cur) - a) = a - addr[cur] /\ a < addr[cur] + size[cur]
  BY <1>1, TrimMeans, TrimLoMeans
<1>3. /\ size'[cur] = a - addr[cur] /\ data'[cur] = Kept(data[cur], a - addr[cur])
      /\ \A m \in Node : m # cur => size'[m] = size[m] /\ data'[m] = data[m]
  BY <1>2 DEF TrimLo, IInv, TypeOK
<1>4. PICK c \in live : c = cur
  BY <1>2
<1>5. \A b \in Words : BeingCut(b)' <=> BeingCut(b)
  BY <1>1 DEF BeingCut
<1>6. \A k \in live : k \in Node
  BY NodeTypes DEF IInv
<1>7. ASSUME NEW b \in Words, NEW k \in live
      PROVE  (Shows(k, b)' <=> Shows(k, b)) /\ (Shows(k, b) => Passes(k, k, b))
  <2>1. b \in Nat
    BY WordsAssumption DEF Words
  <2>2. CASE k = c
    <3>1. Shows(c, b)' <=> Shows(c, b)
      BY <1>1, <1>2, <1>3, <1>4, <1>5, <2>1 DEF Shows, BeingCut
    <3>2. ASSUME Shows(c, b) PROVE data'[cur][b - addr[cur]] = data[cur][b - addr[cur]]
      <4>1. b - addr[cur] \in 0 .. (a - addr[cur]) - 1
        BY <1>1, <1>2, <1>4, <2>1, <3>2 DEF Shows, BeingCut
      <4> QED BY <1>3, <4>1 DEF Kept
    <3> QED BY <1>1, <1>4, <2>2, <3>1, <3>2 DEF Passes
  <2>3. CASE k # c
    BY <1>1, <1>3, <1>4, <1>5, <1>6, <2>3 DEF Shows, Passes
  <2> QED BY <2>2, <2>3
<1>8. \A b \in Words, k \in live :
         Shows(k, b) => \E m \in live' : Shows(m, b)' /\ Passes(k, m, b)
  BY <1>1, <1>7
<1>9. \A b \in Words, m \in live' : Shows(m, b)' => \E k \in live : Shows(k, b)
  BY <1>1, <1>7
<1> QED BY <1>8, <1>9, ShownAsBefore

\* Cutting the middle of lo: the new mapping shows what lo showed behind it.
LEMMA SplitLoKeeps == ASSUME IInv, IInv', SplitLo PROVE Same
<1>1. /\ pc = "trimlo" /\ TouchesLo /\ pc' = "trimhi" /\ Last(cur) > RangeLast
      /\ UNCHANGED <<a, s>>
  BY DEF SplitLo, locals
<1>2. /\ cur \in live /\ cur \in Node /\ addr[cur] \in Nat /\ size[cur] \in Nat
      /\ a \in Nat /\ s \in Nat /\ addr[cur] < a /\ 0 < s /\ MemSize \in Nat
      /\ a + s < addr[cur] + size[cur] /\ addr[cur] + size[cur] <= MemSize
      /\ size[cur] - Word(End(cur) - a) = a - addr[cur]
  BY <1>1, TrimMeans, TrimLoMeans
<1>3. /\ Word(a + s) = a + s
      /\ Word(End(cur) - Word(a + s)) = addr[cur] + size[cur] - (a + s)
  <2>1. /\ addr[cur] + size[cur] < MemSize => End(cur) = addr[cur] + size[cur]
        /\ addr[cur] + size[cur] = MemSize => End(cur) = 0
    BY <1>2, MappingEnds DEF IInv
  <2> QED BY <1>2, <2>1 DEF Word
<1>4. PICK n \in Node \ live :
          LET tail == Word(a + s)
              rest == Word(End(cur) - tail)
              trim == Word(End(cur) - a)
          IN  /\ live' = live \cup {n}
              /\ addr' = [addr EXCEPT ![n] = tail]
              /\ size' = [size EXCEPT ![n] = rest, ![cur] = @ - trim]
              /\ prot' = [prot EXCEPT ![n] = prot[cur]]
              /\ data' = [data EXCEPT ![n]   = Slice(data[cur], tail - addr[cur], rest),
                                    ![cur] = Kept(data[cur], size[cur] - trim)]
  BY DEF SplitLo
<1>5. n # cur /\ \A k \in live : k \in Node /\ k # n
  BY <1>2, NodeTypes DEF IInv
<1> DEFINE left == addr[cur] + size[cur] - (a + s)
           kept == a - addr[cur]
           from == a + s - addr[cur]
<1>6. left \in Nat /\ kept \in Nat /\ from \in Nat
  BY <1>2
<1>7. /\ addr' = [addr EXCEPT ![n] = a + s]
      /\ size' = [size EXCEPT ![n] = left, ![cur] = kept]
      /\ prot' = [prot EXCEPT ![n] = prot[cur]]
      /\ data' = [data EXCEPT ![n] = Slice(data[cur], from, left), ![cur] = Kept(data[cur], kept)]
  <2>1. addr' = [addr EXCEPT ![n] = a + s] /\ prot' = [prot EXCEPT ![n] = prot[cur]]
    BY <1>3, <1>4
  <2>2. size' = [size EXCEPT ![n] = left, ![cur] = kept]
    BY <1>2, <1>3, <1>4, <1>5 DEF IInv, TypeOK
  <2>3. data' = [data EXCEPT ![n] = Slice(data[cur], from, left), ![cur] = Kept(data[cur], kept)]
    <3>1. /\ Slice(data[cur], Word(a + s) - addr[cur], Word(End(cur) - Word(a + s)))
               = Slice(data[cur], from, left)
          /\ Kept(data[cur], size[cur] - Word(End(cur) - a)) = Kept(data[cur], kept)
      BY <1>2, <1>3
    <3> HIDE DEF left, kept, from
    <3> QED BY <1>4, <3>1
  <2> QED BY <2>1, <2>2, <2>3
<1>8. /\ live' = live \cup {n}
      /\ addr'[n] = a + s /\ addr'[cur] = addr[cur]
      /\ size'[n] = left /\ size'[cur] = kept
      /\ prot'[n] = prot[cur] /\ prot'[cur] = prot[cur]
      /\ data'[n] = Slice(data[cur], from, left) /\ data'[cur] = Kept(data[cur], kept)
      /\ \A m \in Node : m # n /\ m # cur => /\ addr'[m] = addr[m] /\ size'[m] = size[m]
                                             /\ prot'[m] = prot[m] /\ data'[m] = data[m]
  <2> HIDE DEF left, kept, from
  <2> QED BY <1>2, <1>4, <1>5, <1>7 DEF IInv, TypeOK
<1>9. PICK c \in live : c = cur
  BY <1>2
<1>10. \A b \in Words : BeingCut(b)' <=> BeingCut(b)
  BY <1>1 DEF BeingCut
<1>11. ASSUME NEW b \in Words
       PROVE  /\ Shows(c, b)' <=> Shows(c, b) /\ b < a
              /\ Shows(n, b)' <=> Shows(c, b) /\ a + s <= b
              /\ Shows(c, b) => b < a \/ a + s <= b
              /\ Shows(c, b) /\ b < a => Passes(c, c, b)
              /\ Shows(c, b) /\ a + s <= b => Passes(c, n, b)
  <2>1. b \in Nat
    BY WordsAssumption DEF Words
  <2>2. BeingCut(b) <=> a <= b /\ b < a + s
    BY <1>1 DEF BeingCut
  <2>3. Shows(c, b)' <=> Shows(c, b) /\ b < a
    BY <1>2, <1>8, <1>9, <1>10, <2>1, <2>2 DEF Shows
  <2>4. Shows(n, b)' <=> Shows(c, b) /\ a + s <= b
    BY <1>2, <1>8, <1>9, <1>10, <2>1, <2>2 DEF Shows
  <2>5. Shows(c, b) => b < a \/ a + s <= b
    BY <1>2, <2>1, <2>2 DEF Shows
  <2>6. ASSUME Shows(c, b), b < a PROVE Passes(c, c, b)
    <3>1. b - addr[cur] \in 0 .. kept - 1
      BY <1>2, <1>9, <2>1, <2>6 DEF Shows
    <3>2. data'[cur][b - addr[cur]] = data[cur][b - addr[cur]]
      <4> HIDE DEF kept
      <4> QED BY <1>8, <3>1 DEF Kept
    <3> QED BY <1>8, <1>9, <3>2 DEF Passes
  <2>7. ASSUME Shows(c, b), a + s <= b PROVE Passes(c, n, b)
    <3>1. b - (a + s) \in 0 .. left - 1 /\ (b - (a + s)) + from = b - addr[cur]
      BY <1>2, <1>9, <2>1, <2>7 DEF Shows
    <3>2. data'[n][b - (a + s)] = data[cur][(b - (a + s)) + from]
      <4> HIDE DEF left, from
      <4> QED BY <1>8, <3>1 DEF Slice
    <3> QED BY <1>8, <1>9, <3>1, <3>2 DEF Passes
  <2> QED BY <2>3, <2>4, <2>5, <2>6, <2>7
<1> HIDE DEF left, kept, from
<1>12. \A b \in Words, k \in live \ {c} : (Shows(k, b)' <=> Shows(k, b)) /\ Passes(k, k, b)
  BY <1>5, <1>8, <1>9, <1>10 DEF Shows, Passes
<1>13. ASSUME NEW b \in Words, NEW k \in live, Shows(k, b)
       PROVE  \E m \in live' : Shows(m, b)' /\ Passes(k, m, b)
  <2>1. CASE k = c /\ b < a
    BY <1>8, <1>11, <1>13, <2>1
  <2>2. CASE k = c /\ a + s <= b
    BY <1>8, <1>11, <1>13, <2>2
  <2>3. CASE k # c
    BY <1>8, <1>12, <1>13, <2>3
  <2> QED BY <1>11, <1>13, <2>1, <2>2, <2>3
<1>14. \A b \in Words, m \in live' : Shows(m, b)' => \E k \in live : Shows(k, b)
  BY <1>8, <1>11, <1>12
<1> QED BY <1>13, <1>14, ShownAsBefore

\* The last step of mem_unmap leaves no mapping in the range: nothing more has
\* to count as cut.
LEMMA TrimHiKeeps == ASSUME IInv, IInv', TrimHi PROVE Same
<1>1. /\ pc = "trimhi" /\ pc' = "done" /\ hi \in live /\ hi \in Node
      /\ UNCHANGED <<live, prot>>
      /\ 0 < s /\ a + s <= MemSize
      /\ addr[hi] \in Nat /\ size[hi] \in Nat /\ a \in Nat /\ s \in Nat /\ MemSize \in Nat
      /\ a <= addr[hi] /\ a + s < addr[hi] + size[hi] /\ addr[hi] + size[hi] <= MemSize
      /\ RangeLast >= addr[hi]
      /\ \A n \in live : n # hi => ~Overlaps(n, a, s)
  BY NodeTypes, LocalTypes, WordsAssumption
     DEF IInv, TrimHi, TouchesHi, NoDangling, CallInv, UnmapInv, Cutting, Disjoint, Placed
<1> DEFINE trim == a + s - addr[hi]
<1>2. /\ trim \in Nat /\ 0 < trim /\ trim < size[hi] /\ addr[hi] + trim = a + s
      /\ Word(Word(a + s) - addr[hi]) = trim
  <2>1. RangeLast = a + s - 1
    BY <1>1, RangeEnds DEF RangeLast, IInv, TypeOK
  <2>2. Word(a + s) = a + s
    BY <1>1 DEF Word
  <2>3. addr[hi] < a + s
    BY <1>1, <2>1
  <2> QED BY <1>1, <2>2, <2>3 DEF Word
<1>3. /\ size'[hi] = size[hi] - trim /\ addr'[hi] = addr[hi] + trim
      /\ data'[hi] = Slice(data[hi], trim, size[hi] - trim)
      /\ \A m \in Node : m # hi => size'[m] = size[m] /\ addr'[m] = addr[m] /\ data'[m] = data[m]
  <2> HIDE DEF trim
  <2> QED BY <1>1, <1>2 DEF TrimHi, IInv, TypeOK
<1>4. PICK h \in live : h = hi
  BY <1>1
<1>5. \A b \in Words : ~BeingCut(b)' /\ (BeingCut(b) <=> a <= b /\ b < a + s)
  BY <1>1 DEF BeingCut
<1>6. \A k \in live : /\ k \in Node /\ addr[k] \in Nat /\ size[k] \in Nat
                      /\ k # h => addr[k] + size[k] <= a \/ a + s <= addr[k]
  BY <1>1, <1>4, NodeTypes DEF IInv, Overlaps
<1>7. ASSUME NEW b \in Words, NEW k \in live
      PROVE  (Shows(k, b)' <=> Shows(k, b)) /\ (Shows(k, b) => Passes(k, k, b))
  <2>1. b \in Nat
    BY WordsAssumption DEF Words
  <2>2. CASE k = h
    <3>1. Shows(h, b)' <=> Shows(h, b)
      BY <1>1, <1>2, <1>3, <1>4, <1>5, <2>1 DEF Shows
    <3>2. ASSUME Shows(h, b) PROVE data'[hi][b - addr'[hi]] = data[hi][b - addr[hi]]
      <4>1. /\ b - addr'[hi] \in 0 .. (size[hi] - trim) - 1
            /\ (b - addr'[hi]) + trim = b - addr[hi]
        BY <1>1, <1>2, <1>3, <1>4, <1>5, <2>1, <3>2 DEF Shows
      <4> HIDE DEF trim
      <4> QED BY <1>3, <4>1 DEF Slice
    <3> QED BY <1>1, <1>4, <2>2, <3>1, <3>2 DEF Passes
  <2>3. CASE k # h
    <3>1. Shows(k, b)' <=> Shows(k, b)
      BY <1>1, <1>3, <1>4, <1>5, <1>6, <2>1, <2>3 DEF Shows
    <3> QED BY <1>1, <1>3, <1>4, <1>6, <2>3, <3>1 DEF Passes
  <2> QED BY <2>2, <2>3
<1>8. \A b \in Words, k \in live :
         Shows(k, b) => \E m \in live' : Shows(m, b)' /\ Passes(k, m, b)
  BY <1>1, <1>7
<1>9. \A b \in Words, m \in live' : Shows(m, b)' => \E k \in live : Shows(k, b)
  BY <1>1, <1>7
<1> QED BY <1>8, <1>9, ShownAsBefore

\* The same when the range ends before hi.
LEMMA KeepHiKeeps == ASSUME IInv, IInv', KeepHi PROVE Same
<1>1. /\ pc = "trimhi" /\ pc' = "done" /\ ~TouchesHi /\ UNCHANGED heap
      /\ 0 < s /\ a + s <= MemSize /\ a \in Nat /\ s \in Nat
      /\ \A n \in live : n # hi => ~Overlaps(n, a, s)
  BY LocalTypes DEF IInv, KeepHi, CallInv, UnmapInv, Cutting
<1>2. RangeLast = a + s - 1
  BY <1>1, RangeEnds DEF RangeLast, IInv, TypeOK
<1>3. \A n \in live : ~Overlaps(n, a, s)
  <2>1. ASSUME hi \in live PROVE ~Overlaps(hi, a, s)
    BY <2>1, <1>1, <1>2, NodeTypes DEF IInv, Overlaps, TouchesHi
  <2> QED BY <2>1, <1>1
<1>4. \A b \in Words : ~BeingCut(b)' /\ (BeingCut(b) <=> a <= b /\ b < a + s)
  BY <1>1 DEF BeingCut
<1>5. ASSUME NEW b \in Words, NEW k \in live
      PROVE  (Shows(k, b)' <=> Shows(k, b)) /\ Passes(k, k, b)
  <2>1. b \in Nat /\ addr[k] \in Nat /\ size[k] \in Nat
    BY NodeTypes, WordsAssumption DEF IInv, Words
  <2> QED BY <1>1, <1>3, <1>4, <2>1 DEF Shows, Passes, Overlaps, heap
<1>6. \A b \in Words, k \in live :
         Shows(k, b) => \E m \in live' : Shows(m, b)' /\ Passes(k, m, b)
  BY <1>1, <1>5 DEF heap
<1>7. \A b \in Words, m \in live' : Shows(m, b)' => \E k \in live : Shows(k, b)
  BY <1>1, <1>5 DEF heap
<1> QED BY <1>6, <1>7, ShownAsBefore

\* A write changes the bytes of its range and no protection.
LEMMA WriteWrites ==
    ASSUME IInv, IInv', WriteDone, 0 < s, s <= MMAP_MIN_ADDR
    PROVE  /\ Pages' = Pages
           /\ Bytes' = [b \in Words |-> IF b \in SpanOf(a, s) THEN req.val ELSE Bytes[b]]
<1>1. /\ pc = "found" /\ pc' = "done" /\ Holds
      /\ UNCHANGED <<live, addr, size, prot, a, s, cur>>
  BY DEF WriteDone, locals
<1>2. /\ cur \in live /\ cur \in Node /\ addr[cur] <= a /\ a + s <= addr[cur] + size[cur]
      /\ addr[cur] \in Nat /\ size[cur] \in Nat /\ a \in Nat /\ s \in Nat
      /\ data[cur] \in [0 .. size[cur] - 1 -> Values \cup {Junk}]
  BY <1>1, HoldsMeans, NodeTypes, LocalTypes DEF IInv, NoDangling
<1>3. /\ data'[cur] = [i \in 0 .. size[cur] - 1 |->
                          IF a - addr[cur] <= i /\ i < (a - addr[cur]) + s
                          THEN req.val ELSE data[cur][i]]
      /\ \A m \in Node : m # cur => data'[m] = data[m]
  BY <1>2 DEF WriteDone, IInv, TypeOK
<1>4. PICK c \in live : c = cur
  BY <1>2
<1>5. \A b, k : Shows(k, b)' <=> Shows(k, b)
  BY <1>1 DEF Shows, BeingCut
<1>6. ASSUME NEW b \in Words
      PROVE  /\ Pages'[b] = Pages[b]
             /\ Bytes'[b] = IF b \in SpanOf(a, s) THEN req.val ELSE Bytes[b]
  <2>1. b \in Nat
    BY WordsAssumption DEF Words
  <2>2. b \in SpanOf(a, s) => Shows(c, b)
    BY <1>1, <1>2, <1>4, <2>1 DEF SpanOf, Shows, BeingCut
  <2>3. ASSUME NEW k \in live, Shows(k, b)
        PROVE  /\ Pages'[b] = Pages[b]
               /\ Bytes'[b] = IF b \in SpanOf(a, s) THEN req.val ELSE Bytes[b]
    <3>1. Holders(b) = {k} /\ Pages[b] = prot[k] /\ Bytes[b] = data[k][b - addr[k]]
      BY <2>3, ShownByOne
    <3>2. Pages'[b] = prot[k] /\ Bytes'[b] = data'[k][b - addr[k]]
      BY <1>1, <1>5, <2>3, ShownByOneNext
    <3>3. CASE k = c
      <4>1. b - addr[cur] \in 0 .. size[cur] - 1
        BY <1>2, <1>4, <2>1, <2>3, <3>3 DEF Shows
      <4>2. data'[cur][b - addr[cur]] =
              IF a - addr[cur] <= b - addr[cur] /\ b - addr[cur] < (a - addr[cur]) + s
              THEN req.val ELSE data[cur][b - addr[cur]]
        BY <1>3, <4>1
      <4>3. a - addr[cur] <= b - addr[cur] /\ b - addr[cur] < (a - addr[cur]) + s
              <=> b \in SpanOf(a, s)
        BY <1>2, <2>1 DEF SpanOf
      <4> QED BY <1>4, <3>1, <3>2, <3>3, <4>2, <4>3
    <3>4. CASE k # c
      <4>1. b \notin SpanOf(a, s)
        <5>1. Shows(c, b) => Holders(b) = {c}
          BY ShownByOne
        <5> QED BY <2>2, <3>1, <3>4, <5>1
      <4>2. k \in Node
        BY NodeTypes DEF IInv
      <4> QED BY <1>3, <1>4, <3>1, <3>2, <3>4, <4>1, <4>2
    <3> QED BY <3>3, <3>4
  <2>4. CASE \A k \in live : ~Shows(k, b)
    <3>1. b \notin SpanOf(a, s)
      BY <2>2, <2>4
    <3>2. Pages[b] = Unmapped /\ Bytes[b] = Junk
      BY <2>4, ShownByNone
    <3>3. Pages'[b] = Unmapped /\ Bytes'[b] = Junk
      BY <1>1, <1>5, <2>4, ShownByNoneNext
    <3> QED BY <3>1, <3>2, <3>3
  <2> QED BY <2>3, <2>4
<1>7. Pages' = [b \in Words |-> Pages'[b]] /\ Bytes' = [b \in Words |-> Bytes'[b]]
      /\ Pages = [b \in Words |-> Pages[b]]
  BY DEF Pages, Bytes
<1>8. Pages' = Pages
  BY <1>6, <1>7
<1>9. Bytes' = [b \in Words |-> IF b \in SpanOf(a, s) THEN req.val ELSE Bytes[b]]
  BY <1>6, <1>7
<1> QED BY <1>8, <1>9

-----------------------------------------------------------------------------
(* What a call still knows of its arguments and of the room it looked at.  *)

\* The locals are the arguments, rounded as the operation rounds them.
ArgInv ==
    /\ pc \in {"walk", "new"} /\ req.op = "map" /\ req.addr # 0
         => a = PageDown(req.addr) /\ s = RoundUp(req.addr, req.size)
    /\ pc \in {"gap", "new"} /\ req.addr = 0 => s = RoundSize(req.size)
    /\ pc = "walk" /\ req.op = "map" => req.addr # 0
    /\ pc = "gap" => req.addr = 0
    /\ pc \in {"walk", "lohi"} /\ req.op = "unmap"
         => SpanOf(a, s) = SpanOf(PageDown(req.addr), RoundUp(req.addr, req.size))
    /\ pc \in {"walk", "found"} /\ req.op \in {"find", "write"}
         => a = req.addr /\ s = req.size

\* The result is set by the step that performs the call.
RetInv == pc \in {"idle", "entry", "walk", "gap", "new", "lohi", "found"} => ret = 0

\* mmap_fixed hands mmap_new the mapping below the address.
PlaceInv ==
    pc = "new" /\ req.addr # 0 =>
        /\ cur = NULL => \A n \in live : a < addr[n]
        /\ cur # NULL => addr[cur] <= a
        /\ cur # NULL /\ next[cur] # NULL => a < addr[next[cur]]

\* No place above MMAP_MIN_ADDR and below x is free for s bytes.
NoRoomBelow(x) ==
    \A r \in Words : MMAP_MIN_ADDR < r /\ r < x /\ 0 < s /\ r + s <= MemSize
                       => \E m \in live : Overlaps(m, r, s)

\* mmap_random passed over what has no room; when mmap_new refuses its choice
\* there is none at all.
RoomInv ==
    /\ pc = "gap" => NoRoomBelow(addr[cur] + size[cur])
    /\ pc = "new" /\ req.addr = 0 /\ ~CanMap => NoRoomBelow(MemSize)

PInv == ArgInv /\ RetInv /\ PlaceInv /\ RoomInv

LEMMA InitPlan == Init => PInv
BY DEF Init, PInv, ArgInv, RetInv, PlaceInv, RoomInv

LEMMA MapFixedEntryPlan == ASSUME IInv, PInv, MapFixedEntry PROVE PInv'
BY DEF MapFixedEntry, PInv, ArgInv, RetInv, PlaceInv, RoomInv

LEMMA FindEntryPlan == ASSUME IInv, PInv, FindEntry PROVE PInv'
BY DEF FindEntry, PInv, ArgInv, RetInv, PlaceInv, RoomInv

\* mem_unmap cuts what lies behind the end of memory: no byte of the range.
LEMMA UnmapEntryPlan == ASSUME IInv, PInv, UnmapEntry PROVE PInv'
<1> DEFINE x == PageDown(req.addr)
           n == RoundUp(req.addr, req.size)
<1>1. x \in Words /\ n \in Words
  BY RequestTypes, RoundingRange DEF IInv, TypeOK
<1>2. pc' = "walk" => SpanOf(a, s)' = SpanOf(x, n)
  <2> SUFFICES ASSUME pc' = "walk" PROVE SpanOf(a', s') = SpanOf(x, n)
    BY DEF SpanOf
  <2>1. a' = x /\ n # 0 /\ s' = IF LastByte(x, n) < x THEN Word(-x) ELSE n
    BY DEF UnmapEntry
  <2>2. CASE x + n <= MemSize
    <3>1. ~(LastByte(x, n) < x)
      BY <1>1, <2>1, <2>2, WordsAssumption DEF LastByte, Word, Words
    <3> QED BY <2>1, <3>1
  <2>3. CASE x + n > MemSize
    <3> HIDE DEF x, n
    <3>1. LastByte(x, n) < x /\ Word(-x) = MemSize - x
      BY <1>1, <2>3, WordsAssumption DEF LastByte, Word, Words
    <3>2. s' = MemSize - x
      BY <2>1, <3>1
    <3>3. \A b \in Words : b < x + s' /\ b < x + n
      BY <1>1, <2>3, <3>2, WordsAssumption DEF Words
    <3> QED BY <2>1, <3>3 DEF SpanOf
  <2> QED BY <1>1, <2>2, <2>3, WordsAssumption DEF Words
<1>3. req' = req /\ pc' \in {"done", "walk"} /\ req.op = "unmap" /\ ret' = ret /\ pc = "entry"
  BY DEF UnmapEntry
<1> HIDE DEF x, n
<1> QED BY <1>2, <1>3 DEF PInv, ArgInv, RetInv, PlaceInv, RoomInv, x, n

\* The walk of mem_find_ ends at the mapping below the address.
LEMMA WalkPlan == ASSUME IInv, PInv, Walk \/ WalkDone PROVE PInv'
<1>1. CASE Walk
  BY <1>1 DEF Walk, PInv, ArgInv, RetInv, PlaceInv, RoomInv
<1>2. CASE WalkDone
  <2>1. /\ pc = "walk" /\ UNCHANGED <<heap, req, locals, ret>>
        /\ pc' = CASE req.op = "map" -> "new" [] req.op = "unmap" -> "lohi" [] OTHER -> "found"
    BY <1>2 DEF WalkDone
  <2>2. /\ cur = NULL => \A n \in live : a < addr[n]
        /\ cur # NULL => addr[cur] <= a
        /\ cur # NULL /\ next[cur] # NULL => a < addr[next[cur]]
    BY <1>2 DEF WalkDone, WalkOn, IInv, CallInv, WalkInv, NoDangling, SortedList, NextIsNext,
                TypeOK, Words
  <2>3. pc' \in {"new", "lohi", "found"} /\ (pc' = "new" => req.op = "map")
        /\ (pc' = "lohi" => req.op = "unmap")
    BY <2>1
  <2>4. ArgInv' /\ RetInv'
    BY <2>1, <2>3 DEF PInv, ArgInv, RetInv, locals, SpanOf
  <2>5. PlaceInv'
    BY <2>1, <2>2 DEF PlaceInv, heap, locals
  <2>6. RoomInv'
    BY <2>1, <2>3 DEF RoomInv, PInv, ArgInv
  <2> QED BY <2>4, <2>5, <2>6 DEF PInv
<1> QED BY <1>1, <1>2

\* mmap_random finds no room before the first mapping, or there is room for
\* mmap_new.
LEMMA MapAnywhereEntryPlan == ASSUME IInv, PInv, MapAnywhereEntry PROVE PInv'
<1>1. /\ pc = "entry" /\ req.op = "map" /\ req.addr = 0 /\ ret' = ret /\ req' = req
      /\ s' = RoundSize(req.size) /\ s' \in Words /\ UNCHANGED heap
      /\ mem \in live \cup {NULL} /\ MMAP_MIN_ADDR \in Nat /\ MemSize \in Nat
      /\ 0 < MMAP_MIN_ADDR
  <2>1. /\ pc = "entry" /\ req.op = "map" /\ req.addr = 0 /\ ret' = ret /\ req' = req
        /\ s' = RoundSize(req.size) /\ UNCHANGED heap
    BY DEF MapAnywhereEntry
  <2>2. req.size \in Words
    BY RequestTypes DEF IInv, TypeOK
  <2>3. s' \in Words
    BY <2>1, <2>2, RoundingRange
  <2>4. mem \in live \cup {NULL}
    BY DEF IInv, NoDangling
  <2> QED BY <2>1, <2>3, <2>4, WordsAssumption
<1>2. mem # NULL => addr[mem] \in Nat /\ size[mem] \in Nat /\ 0 < size[mem]
  BY <1>1, NodeTypes DEF IInv, Disjoint, Placed
<1>3. CASE RoomAtStart(s')
  <2>1. pc' = "new" /\ a' = MMAP_MIN_ADDR /\ cur' = NULL
    BY <1>3 DEF MapAnywhereEntry
  <2>2. ASSUME NEW r \in Words, MMAP_MIN_ADDR < r, 0 < s', r + s' <= MemSize
        PROVE  CanMap'
    <3>1. /\ Word(MMAP_MIN_ADDR + s') = MMAP_MIN_ADDR + s'
          /\ LastByte(MMAP_MIN_ADDR, s') = MMAP_MIN_ADDR + s' - 1
          /\ Word(MMAP_MIN_ADDR - 1) = MMAP_MIN_ADDR - 1
      BY <1>1, <2>2 DEF LastByte, Word, Words
    <3>2. mem # NULL => MMAP_MIN_ADDR + s' < addr[mem]
      BY <1>3, <3>1 DEF RoomAtStart
    <3>3. /\ ThisLast' = MMAP_MIN_ADDR + s' - 1 /\ PrevEnd' = MMAP_MIN_ADDR
          /\ Following' = mem /\ addr' = addr
      BY <1>1, <2>1, <3>1 DEF ThisLast, PrevEnd, Following, heap
    <3>4. Following' # NULL => ~(addr'[Following'] <= ThisLast')
      BY <1>1, <1>2, <3>2, <3>3 DEF Words
    <3>5. s' # 0 /\ ~(ThisLast' < a') /\ ~(a' <= Word(PrevEnd' - 1))
      BY <1>1, <2>1, <2>2, <3>1, <3>3 DEF Words
    <3> QED BY <3>4, <3>5 DEF CanMap
  <2>3. ~CanMap' => NoRoomBelow(MemSize)'
    BY <2>2 DEF NoRoomBelow
  <2> QED BY <1>1, <2>1, <2>3 DEF PInv, ArgInv, RetInv, PlaceInv, RoomInv
<1>4. CASE ~RoomAtStart(s')
  <2>1. pc' = "gap" /\ cur' = mem /\ mem # NULL /\ Word(MMAP_MIN_ADDR + s') >= addr[mem]
    <3>1. Word(MMAP_MIN_ADDR + s') \in Int
      BY <1>1 DEF Word, Words
    <3> QED BY <1>1, <1>2, <1>4, <3>1 DEF MapAnywhereEntry, RoomAtStart
  <2>2. ASSUME NEW r \in Words, MMAP_MIN_ADDR < r, r < addr[mem] + size[mem],
               0 < s', r + s' <= MemSize
        PROVE  addr[mem] < r + s'
    <3>1. Word(MMAP_MIN_ADDR + s') = MMAP_MIN_ADDR + s'
      BY <1>1, <2>2 DEF Word, Words
    <3> QED BY <1>1, <1>2, <2>1, <2>2, <3>1 DEF Words
  <2>3. NoRoomBelow(addr[cur] + size[cur])'
    <3> SUFFICES ASSUME NEW r \in Words, MMAP_MIN_ADDR < r, r < addr[mem] + size[mem],
                        0 < s', r + s' <= MemSize
                 PROVE  \E m \in live' : Overlaps(m, r, s)'
      BY <1>1, <2>1 DEF NoRoomBelow, heap
    <3>1. PICK m \in live : m = mem
      BY <1>1, <2>1
    <3>2. Overlaps(m, r, s)'
      BY <1>1, <2>2, <3>1 DEF Overlaps, heap
    <3> QED BY <1>1, <3>2 DEF heap
  <2> QED BY <1>1, <2>1, <2>3 DEF PInv, ArgInv, RetInv, PlaceInv, RoomInv
<1> QED BY <1>3, <1>4

\* Where mmap_random stands, and the mapping after it.
LEMMA GapMeans ==
    ASSUME IInv, pc = "gap"
    PROVE  /\ cur \in live /\ addr[cur] \in Nat /\ size[cur] \in Nat /\ 0 < size[cur]
           /\ s \in Nat /\ MemSize \in Nat /\ addr[cur] + size[cur] <= MemSize
           /\ MMAP_MIN_ADDR <= addr[cur] /\ MMAP_MIN_ADDR \in Nat /\ 0 < MMAP_MIN_ADDR
           /\ addr[cur] + size[cur] < MemSize => End(cur) = addr[cur] + size[cur]
           /\ next[cur] # NULL =>
                /\ next[cur] \in live /\ addr[next[cur]] \in Nat
                /\ addr[cur] + size[cur] <= addr[next[cur]] /\ addr[next[cur]] < MemSize
                /\ Word(addr[next[cur]] - End(cur)) = addr[next[cur]] - (addr[cur] + size[cur])
<1>1. /\ cur \in live /\ addr[cur] \in Nat /\ size[cur] \in Nat /\ 0 < size[cur]
      /\ s \in Nat /\ MemSize \in Nat /\ addr[cur] + size[cur] <= MemSize
      /\ MMAP_MIN_ADDR <= addr[cur] /\ MMAP_MIN_ADDR \in Nat /\ 0 < MMAP_MIN_ADDR
      /\ addr[cur] + size[cur] < MemSize => End(cur) = addr[cur] + size[cur]
  BY NodeTypes, LocalTypes, MappingEnds, WordsAssumption
     DEF IInv, NoDangling, CallInv, MapInv, Disjoint, Placed
<1>2. ASSUME next[cur] # NULL
      PROVE  /\ next[cur] \in live /\ addr[next[cur]] \in Nat
             /\ addr[cur] + size[cur] <= addr[next[cur]] /\ addr[next[cur]] < MemSize
             /\ Word(addr[next[cur]] - End(cur)) = addr[next[cur]] - (addr[cur] + size[cur])
  <2>1. next[cur] \in live /\ addr[cur] < addr[next[cur]]
    BY <1>1, <1>2 DEF IInv, SortedList, NextIsNext
  <2>2. /\ addr[next[cur]] \in Nat /\ size[next[cur]] \in Nat
        /\ addr[cur] + size[cur] <= addr[next[cur]]
        /\ 0 < size[next[cur]] /\ addr[next[cur]] + size[next[cur]] <= MemSize
    BY <1>1, <2>1, LowerIsBelow, NodeTypes DEF IInv, Disjoint, Placed
  <2>3. addr[next[cur]] < MemSize
    BY <1>1, <2>2
  <2> QED BY <1>1, <2>1, <2>2, <2>3 DEF Word
<1> QED BY <1>1, <1>2

\* A gap that is too small has no room for the mapping.
LEMMA GapWalkPlan == ASSUME IInv, PInv, GapWalk PROVE PInv'
<1>1. /\ pc = "gap" /\ pc' = "gap" /\ UNCHANGED <<heap, req, a, s, ret>> /\ cur' = next[cur]
      /\ next[cur] # NULL /\ Word(addr[next[cur]] - End(cur)) < s
      /\ NoRoomBelow(addr[cur] + size[cur])
  BY DEF GapWalk, GapTooSmall, PInv, RoomInv
<1>2. PICK n \in live : n = next[cur]
  BY <1>1, GapMeans
<1>3. /\ addr[cur] \in Nat /\ size[cur] \in Nat /\ s \in Nat /\ addr[n] \in Nat /\ size[n] \in Nat
      /\ addr[cur] + size[cur] <= addr[n] /\ addr[n] - (addr[cur] + size[cur]) < s
  BY <1>1, <1>2, GapMeans, NodeTypes DEF IInv
<1>4. ASSUME NEW r \in Words, MMAP_MIN_ADDR < r, r < addr[n] + size[n],
             0 < s, r + s <= MemSize
      PROVE  \E m \in live : Overlaps(m, r, s)
  <2>1. r \in Nat
    BY WordsAssumption DEF Words
  <2>2. CASE r < addr[cur] + size[cur]
    BY <1>1, <1>4, <2>2 DEF NoRoomBelow
  <2>3. CASE ~(r < addr[cur] + size[cur])
    <3>1. Overlaps(n, r, s)
      BY <1>3, <1>4, <2>1, <2>3 DEF Overlaps
    <3> QED BY <3>1
  <2> QED BY <2>2, <2>3
<1>5. NoRoomBelow(addr[cur] + size[cur])'
  BY <1>1, <1>2, <1>4 DEF NoRoomBelow, Overlaps, heap
<1> QED BY <1>1, <1>5 DEF PInv, ArgInv, RetInv, PlaceInv, RoomInv

\* mmap_new refuses what comes after the last gap only if nothing fits there.
LEMMA GapFoundPlan == ASSUME IInv, PInv, GapFound PROVE PInv'
<1>1. /\ pc = "gap" /\ pc' = "new" /\ UNCHANGED <<heap, req, s, cur, ret>> /\ a' = End(cur)
      /\ ~GapTooSmall /\ NoRoomBelow(addr[cur] + size[cur])
      /\ req.addr = 0 /\ s = RoundSize(req.size) /\ ret = 0
  BY DEF GapFound, PInv, RoomInv, ArgInv, RetInv
<1>2. ASSUME NEW r \in Words, MMAP_MIN_ADDR < r, 0 < s, r + s <= MemSize,
             ~(r < addr[cur] + size[cur])
      PROVE  CanMap'
  <2>1. r \in Nat /\ cur # NULL
    BY <1>1, WordsAssumption DEF Words, IInv, CallInv, MapInv
  <2>2. End(cur) = addr[cur] + size[cur] /\ 0 < End(cur) /\ End(cur) + s <= MemSize
        /\ End(cur) \in Nat /\ s \in Nat /\ MemSize \in Nat
    BY <1>1, <1>2, <2>1, GapMeans
  <2>3. /\ LastByte(End(cur), s) = End(cur) + s - 1
        /\ Word(End(cur) - 1) = End(cur) - 1
    BY <1>2, <2>2 DEF LastByte, Word
  <2>4. /\ ThisLast' = End(cur) + s - 1 /\ PrevEnd' = End(cur)
        /\ Following' = next[cur] /\ addr' = addr
    BY <1>1, <2>1, <2>3 DEF ThisLast, PrevEnd, Following, End, heap
  <2>5. Following' # NULL => ~(addr'[Following'] <= ThisLast')
    BY <1>1, <2>2, <2>4, GapMeans DEF GapTooSmall
  <2>6. s' # 0 /\ ~(ThisLast' < a') /\ ~(a' <= Word(PrevEnd' - 1))
    BY <1>1, <1>2, <2>2, <2>3, <2>4
  <2> QED BY <2>5, <2>6 DEF CanMap
<1>3. ~CanMap' => NoRoomBelow(MemSize)'
  <2> SUFFICES ASSUME ~CanMap', NEW r \in Words, MMAP_MIN_ADDR < r, 0 < s, r + s <= MemSize
               PROVE  \E m \in live : Overlaps(m, r, s)
    BY <1>1 DEF NoRoomBelow, Overlaps, heap
  <2>1. r < addr[cur] + size[cur]
    BY <1>2
  <2> QED BY <1>1, <2>1 DEF NoRoomBelow
<1> QED BY <1>1, <1>3 DEF PInv, ArgInv, RetInv, PlaceInv, RoomInv

\* Every step keeps it; most leave the states it speaks of.
LEMMA NextPlan == ASSUME IInv, PInv, [Next]_vars PROVE PInv'
<1>1. CASE MapFixedEntry \/ MapAnywhereEntry \/ UnmapEntry \/ FindEntry
  BY <1>1, MapFixedEntryPlan, MapAnywhereEntryPlan, UnmapEntryPlan, FindEntryPlan
<1>2. CASE Walk \/ WalkDone \/ GapWalk \/ GapFound
  BY <1>2, WalkPlan, GapWalkPlan, GapFoundPlan
<1>3. CASE UNCHANGED vars
  BY <1>3 DEF vars, heap, locals, PInv, ArgInv, RetInv, PlaceInv, RoomInv, NoRoomBelow,
              Overlaps, CanMap, ThisLast, PrevEnd, Following, End, SpanOf
<1>4. CASE Call \/ Return
  BY <1>4 DEF Call, Return, PInv, ArgInv, RetInv, PlaceInv, RoomInv
<1>5. CASE MapRefused \/ FindDone \/ WriteDone \/ Fault
  BY <1>5 DEF MapRefused, FindDone, WriteDone, Fault, PInv, ArgInv, RetInv, PlaceInv, RoomInv
<1>6. CASE ExtendPrev \/ InsertNode \/ MergeNext \/ NoMergeNext
  BY <1>6 DEF ExtendPrev, InsertNode, MergeNext, NoMergeNext,
              PInv, ArgInv, RetInv, PlaceInv, RoomInv
<1>7. CASE LoHi \/ Unlink \/ UnlinkDone
  BY <1>7 DEF LoHi, Unlink, UnlinkDone, PInv, ArgInv, RetInv, PlaceInv, RoomInv
<1>8. CASE SplitLo \/ TrimLo \/ KeepLo \/ TrimHi \/ KeepHi
  BY <1>8 DEF SplitLo, TrimLo, KeepLo, TrimHi, KeepHi, PInv, ArgInv, RetInv, PlaceInv, RoomInv
<1> QED BY <1>1, <1>2, <1>3, <1>4, <1>5, <1>6, <1>7, <1>8 DEF Next, Step, Exited

-----------------------------------------------------------------------------
(* The conditions of the two specifications agree.                         *)

\* A range is unmapped to the last byte when no mapping overlaps it.
LEMMA FreeMeans ==
    ASSUME IInv, Unmapped \notin Prots, pc \notin {"unlink", "trimlo", "trimhi"},
           NEW x \in Nat, NEW k \in Nat, x + k <= MemSize
    PROVE  (\A b \in SpanOf(x, k) : Pages[b] = Unmapped) <=> (\A m \in live : ~Overlaps(m, x, k))
<1>1. \A b \in Words : b \in Nat /\ ~BeingCut(b)
  BY WordsAssumption DEF BeingCut, Words
<1>2. \A m \in live : addr[m] \in Nat /\ size[m] \in Nat /\ 0 < size[m]
  BY NodeTypes DEF IInv, Disjoint, Placed
<1>3. ASSUME NEW m \in live, Overlaps(m, x, k)
      PROVE  \E b \in SpanOf(x, k) : Pages[b] # Unmapped
  <2>1. PICK b \in {x, addr[m]} : x <= b /\ addr[m] <= b
    <3>1. x <= addr[m] \/ addr[m] <= x
      BY <1>2
    <3> QED BY <1>2, <3>1
  <2>2. b \in Nat /\ b < x + k /\ b < addr[m] + size[m] /\ b < MemSize
    BY <1>2, <1>3, <2>1, WordsAssumption DEF Overlaps
  <2>3. b \in SpanOf(x, k) /\ Shows(m, b)
    BY <1>1, <2>1, <2>2, WordsAssumption DEF SpanOf, Shows, Words
  <2> QED BY <2>3, ShownByOne DEF SpanOf
<1>4. ASSUME NEW b \in SpanOf(x, k), \A m \in live : ~Overlaps(m, x, k)
      PROVE  Pages[b] = Unmapped
  <2>1. b \in Words /\ b \in Nat /\ x <= b /\ b < x + k
    BY <1>1 DEF SpanOf
  <2>2. \A m \in live : ~Shows(m, b)
    BY <1>2, <1>4, <2>1 DEF Shows, Overlaps
  <2> QED BY <2>1, <2>2, ShownByNone
<1> QED BY <1>3, <1>4

\* What mmap_new accepts is free and in the allowed part of memory.
LEMMA CanMapIsFree ==
    ASSUME IInv, pc = "new", CanMap
    PROVE  /\ 0 < s /\ a + s <= MemSize /\ MMAP_MIN_ADDR <= a
           /\ \A k \in live : ~Overlaps(k, a, s)
<1> USE DEF IInv
<1>1. /\ 0 < s /\ a + s <= MemSize
      /\ cur = NULL => MMAP_MIN_ADDR <= a
      /\ cur # NULL => addr[cur] + size[cur] <= a
      /\ Following # NULL => a + s <= addr[Following]
  BY CanMapMeans
<1>2. /\ cur \in live \cup {NULL} /\ a \in Nat /\ s \in Nat
      /\ MMAP_MIN_ADDR \in Nat
      /\ cur # NULL => MMAP_MIN_ADDR <= addr[cur] /\ addr[cur] \in Nat /\ size[cur] \in Nat
  BY NodeTypes, LocalTypes, WordsAssumption DEF NoDangling, Disjoint, Placed
<1>3. ASSUME NEW k \in live PROVE ~Overlaps(k, a, s)
  <2>1. addr[k] \in Nat /\ size[k] \in Nat
    BY NodeTypes
  <2>2. CASE cur = NULL
    <3>1. Following = mem /\ mem # NULL /\ mem \in live /\ addr[mem] <= addr[k]
      BY <2>2 DEF Following, SortedList, HeadIsFirst
    <3>2. addr[mem] \in Nat
      BY <3>1, NodeTypes
    <3> QED BY <1>1, <1>2, <2>1, <3>1, <3>2 DEF Overlaps
  <2>3. CASE cur # NULL
    <3>1. cur \in live /\ Following = next[cur]
      BY <2>3, <1>2 DEF Following
    <3>2. CASE addr[k] < addr[cur]
      <4>1. addr[k] + size[k] <= addr[cur]
        BY <3>1, <3>2, LowerIsBelow
      <4> QED BY <4>1, <1>1, <1>2, <2>1, <2>3 DEF Overlaps
    <3>3. CASE k = cur
      BY <3>3, <1>1, <1>2, <2>1, <2>3 DEF Overlaps
    <3>4. CASE addr[cur] < addr[k]
      <4>1. next[cur] # NULL /\ next[cur] \in live /\ addr[next[cur]] <= addr[k]
        BY <3>1, <3>4, NextIsLowest
      <4>2. addr[next[cur]] \in Nat /\ a + s <= addr[next[cur]]
        BY <4>1, <3>1, <1>1, NodeTypes
      <4> QED BY <4>1, <4>2, <2>1, <1>2 DEF Overlaps
    <3>5. k # cur => addr[k] # addr[cur]
      BY <3>1, LowerIsBelow
    <3> QED BY <2>1, <2>3, <1>2, <3>2, <3>3, <3>4, <3>5
  <2> QED BY <2>2, <2>3
<1>4. MMAP_MIN_ADDR <= a
  BY <1>1, <1>2
<1> QED BY <1>1, <1>3, <1>4

\* mmap_new accepts at a given address whatever is free there.
LEMMA FreeCanMap ==
    ASSUME IInv, PInv, pc = "new", req.addr # 0,
           0 < s, MMAP_MIN_ADDR <= a, a + s <= MemSize, \A k \in live : ~Overlaps(k, a, s)
    PROVE  CanMap
<1> USE DEF IInv
<1>1. /\ cur = NULL => \A n \in live : a < addr[n]
      /\ cur # NULL => addr[cur] <= a
      /\ cur # NULL /\ next[cur] # NULL => a < addr[next[cur]]
      /\ cur \in live \cup {NULL} /\ mem \in live \cup {NULL}
      /\ a \in Nat /\ s \in Nat /\ MemSize \in Nat /\ a < MemSize
      /\ MMAP_MIN_ADDR \in Nat /\ 0 < MMAP_MIN_ADDR /\ MMAP_MIN_ADDR < MemSize
  BY LocalTypes, WordsAssumption DEF PInv, PlaceInv, NoDangling
<1>2. ThisLast = a + s - 1
  BY RangeEnds DEF ThisLast, TypeOK
<1>3. ~(a <= Word(PrevEnd - 1))
  <2>1. CASE cur = NULL
    BY <1>1, <2>1 DEF PrevEnd, Word
  <2>2. CASE cur # NULL
    <3>1. /\ cur \in live /\ addr[cur] \in Nat /\ size[cur] \in Nat /\ 0 < size[cur]
          /\ ~Overlaps(cur, a, s)
      BY <1>1, <2>2, NodeTypes DEF Disjoint, Placed
    <3>2. addr[cur] + size[cur] <= a
      BY <1>1, <2>2, <3>1 DEF Overlaps
    <3>3. End(cur) = addr[cur] + size[cur]
      BY <1>1, <3>1, <3>2, MappingEnds
    <3> QED BY <1>1, <2>2, <3>1, <3>2, <3>3 DEF PrevEnd, Word
  <2> QED BY <2>1, <2>2
<1>4. ASSUME Following # NULL PROVE ~(addr[Following] <= ThisLast)
  <2>1. Following \in live /\ a < addr[Following]
    BY <1>1, <1>4, MemMapAssumption DEF Following, SortedList, NextIsNext
  <2>2. addr[Following] \in Nat /\ size[Following] \in Nat /\ 0 < size[Following]
    BY <2>1, NodeTypes DEF Disjoint, Placed
  <2> QED BY <1>1, <1>2, <2>1, <2>2 DEF Overlaps
<1> QED BY <1>1, <1>2, <1>3, <1>4 DEF CanMap

\* Two mappings that touch are neighbours in the list.
LEMMA TouchMeans ==
    ASSUME IInv, NEW k \in live, NEW m \in live, addr[k] + size[k] = addr[m]
    PROVE  next[k] = m /\ Touching(k)
<1> USE DEF IInv
<1>1. addr[k] \in Nat /\ size[k] \in Nat /\ 0 < size[k] /\ addr[m] \in Nat
  BY NodeTypes DEF Disjoint, Placed
<1>2. next[k] # NULL /\ next[k] \in live /\ addr[next[k]] <= addr[m]
  BY <1>1, NextIsLowest
<1>3. addr[next[k]] \in Nat /\ addr[k] < addr[next[k]]
  BY <1>2, NodeTypes DEF SortedList, NextIsNext
<1>4. addr[k] + size[k] <= addr[next[k]]
  BY <1>2, <1>3, LowerIsBelow
<1>5. addr[next[k]] = addr[m]
  BY <1>1, <1>2, <1>3, <1>4
<1> QED BY <1>2, <1>5, LowerIsBelow DEF Touching

\* What mem_find_ has found is what holds the byte.
LEMMA FoundHolds ==
    ASSUME IInv, pc = "found", NEW m \in live, Shows(m, a)
    PROVE  m = cur
<1> USE DEF IInv
<1>1. /\ cur = NULL => \A n \in live : a < addr[n]
      /\ cur # NULL => addr[cur] <= a
      /\ cur # NULL /\ next[cur] # NULL => a < addr[next[cur]]
      /\ cur \in live \cup {NULL} /\ a \in Nat
      /\ addr[m] \in Nat /\ size[m] \in Nat /\ addr[m] <= a /\ a < addr[m] + size[m]
  BY NodeTypes, LocalTypes DEF CallInv, WalkInv, NoDangling, Shows
<1>2. cur \in live /\ cur # NULL /\ addr[cur] \in Nat
  BY <1>1, NodeTypes
<1>3. ~(addr[cur] < addr[m])
  <2> SUFFICES ASSUME addr[cur] < addr[m] PROVE FALSE
    OBVIOUS
  <2>1. next[cur] # NULL /\ next[cur] \in live /\ addr[next[cur]] <= addr[m]
    BY <1>2, NextIsLowest
  <2>2. addr[next[cur]] \in Nat
    BY <2>1, NodeTypes
  <2> QED BY <1>1, <1>2, <2>1, <2>2
<1>4. ~(addr[m] < addr[cur])
  <2> SUFFICES ASSUME addr[m] < addr[cur] PROVE FALSE
    OBVIOUS
  <2>1. addr[m] + size[m] <= addr[cur]
    BY <1>2, LowerIsBelow
  <2> QED BY <1>1, <1>2, <2>1
<1> QED BY <1>1, <1>2, <1>3, <1>4, LowerIsBelow

Reachable(x, n) == /\ x + n <= MemSize
                   /\ Pages[x] # Unmapped
                   /\ \A b \in SpanOf(x, n) : Pages[b] = Pages[x]

\* The one comparison of mem_find decides whether one protection covers the
\* access: a mapping ends where the protection does.
LEMMA HoldsIsReachable ==
    ASSUME IInv, Unmapped \notin Prots, pc = "found", 0 < s, s <= MMAP_MIN_ADDR
    PROVE  Holds <=> Reachable(a, s)
<1>1. /\ a \in Nat /\ s \in Nat /\ MemSize \in Nat /\ a \in Words /\ a < MemSize
      /\ \A b \in Words : b \in Nat /\ ~BeingCut(b)
      /\ cur \in live \cup {NULL}
  BY LocalTypes, WordsAssumption DEF IInv, TypeOK, BeingCut, Words, NoDangling
<1>2. ASSUME Holds PROVE Reachable(a, s)
  <2>1. /\ cur # NULL /\ addr[cur] <= a /\ a + s <= addr[cur] + size[cur]
        /\ cur \in live /\ addr[cur] \in Nat /\ size[cur] \in Nat
        /\ addr[cur] + size[cur] <= MemSize
    BY <1>1, <1>2, HoldsMeans, NodeTypes DEF IInv, Disjoint, Placed
  <2>2. ASSUME NEW b \in SpanOf(a, s) PROVE b \in Words /\ Shows(cur, b)
    <3>1. b \in Words /\ b \in Nat /\ ~BeingCut(b) /\ a <= b /\ b < a + s
      BY <1>1 DEF SpanOf
    <3>2. addr[cur] <= b /\ b < addr[cur] + size[cur]
      BY <1>1, <2>1, <3>1
    <3> QED BY <2>1, <3>1, <3>2 DEF Shows
  <2>3. a \in SpanOf(a, s)
    BY <1>1 DEF SpanOf
  <2>4. \A b \in SpanOf(a, s) : Pages[b] = prot[cur] /\ prot[cur] \in Prots
    BY <2>2, ShownByOne
  <2> QED BY <1>1, <2>1, <2>3, <2>4 DEF Reachable
<1>3. ASSUME Reachable(a, s) PROVE Holds
  <2>1. PICK m \in live : Shows(m, a)
    BY <1>1, <1>3, ShownByNone DEF Reachable
  <2>2. cur \in live /\ cur # NULL /\ Shows(cur, a)
    BY <2>1, FoundHolds, NodeTypes DEF IInv
  <2>3. /\ addr[cur] \in Nat /\ size[cur] \in Nat /\ addr[cur] <= a /\ a < addr[cur] + size[cur]
        /\ addr[cur] + size[cur] <= MemSize
    BY <2>2, NodeTypes DEF IInv, Disjoint, Placed, Shows
  <2>4. a + s <= addr[cur] + size[cur]
    <3> SUFFICES ASSUME addr[cur] + size[cur] < a + s PROVE FALSE
      BY <1>1, <2>3
    <3> DEFINE e == addr[cur] + size[cur]
    <3>1. e \in Nat /\ e < MemSize /\ a < e /\ e < a + s
      BY <1>1, <1>3, <2>3 DEF Reachable
    <3>2. e \in Words /\ e \in SpanOf(a, s)
      BY <1>1, <3>1 DEF SpanOf, Words
    <3>3. Pages[e] = prot[cur] /\ prot[cur] \in Prots
      BY <1>1, <1>3, <2>2, <3>2, ShownByOne DEF Reachable
    <3>4. PICK n \in live : Shows(n, e)
      BY <3>2, <3>3, ShownByNone
    <3>5. prot[n] = prot[cur]
      BY <3>2, <3>3, <3>4, ShownByOne
    <3>6. addr[n] \in Nat /\ size[n] \in Nat /\ addr[n] <= e /\ e < addr[n] + size[n]
      BY <3>4, NodeTypes DEF IInv, Shows
    <3>7. Below(n, cur) \/ Below(cur, n)
      BY <2>2, <3>6 DEF IInv, Disjoint
    <3>8. addr[n] = addr[cur] + size[cur]
      BY <2>3, <3>6, <3>7 DEF Below
    <3>9. Touching(cur) /\ next[cur] = n
      BY <2>2, <3>8, TouchMeans
    <3> QED BY <2>2, <3>5, <3>9 DEF IInv, Merged
  <2>5. CASE addr[cur] + size[cur] < MemSize
    <3>1. End(cur) = addr[cur] + size[cur]
      BY <2>2, <2>5, MappingEnds DEF IInv
    <3>2. Word(End(cur) - s) = addr[cur] + size[cur] - s
      BY <1>1, <2>3, <2>4, <2>5, <3>1 DEF Word
    <3> QED BY <1>1, <2>2, <2>3, <2>4, <3>2 DEF Holds
  <2>6. CASE addr[cur] + size[cur] = MemSize
    <3>1. End(cur) = 0
      BY <2>2, <2>6, MappingEnds DEF IInv
    <3>2. Word(End(cur) - s) = MemSize - s
      BY <1>1, <3>1 DEF Word
    <3> QED BY <1>1, <2>2, <2>4, <2>6, <3>2 DEF Holds
  <2> QED BY <2>3, <1>1, <2>5, <2>6
<1> QED BY <1>2, <1>3

\* lo is where the run of equally protected bytes around x begins.
BeginsRun(lo, x) == /\ lo <= x
                    /\ \A b \in lo .. x : Pages[b] = Pages[x]
                    /\ lo = 0 \/ Pages[lo - 1] # Pages[x]

\* A mapping starts where the protection does: the address mem_find returns
\* is the beginning of the run.
LEMMA HoldsBeginsRun ==
    ASSUME IInv, Unmapped \notin Prots, pc = "found", Holds, 0 < s, s <= MMAP_MIN_ADDR
    PROVE  addr[cur] = CHOOSE lo \in Words : BeginsRun(lo, a)
<1>1. /\ a \in Nat /\ s \in Nat /\ MemSize \in Nat /\ a \in Words /\ a < MemSize
      /\ \A b \in Words : b \in Nat /\ ~BeingCut(b)
  BY LocalTypes, WordsAssumption DEF IInv, TypeOK, BeingCut, Words
<1>2. /\ cur # NULL /\ addr[cur] <= a /\ a + s <= addr[cur] + size[cur]
      /\ cur \in live /\ addr[cur] \in Nat /\ size[cur] \in Nat
      /\ addr[cur] + size[cur] <= MemSize /\ 0 < addr[cur] /\ prot[cur] \in Prots
  BY <1>1, HoldsMeans, NodeTypes, WordsAssumption DEF IInv, NoDangling, Disjoint, Placed
<1>3. \A b \in addr[cur] .. a : b \in Words /\ Pages[b] = prot[cur]
  <2>1. \A b \in addr[cur] .. a : b \in Words /\ Shows(cur, b)
    BY <1>1, <1>2, WordsAssumption DEF Shows, Words
  <2> QED BY <2>1, ShownByOne
<1>4. Pages[a] = prot[cur]
  BY <1>1, <1>2, <1>3
<1>5. Pages[addr[cur] - 1] # prot[cur]
  <2> DEFINE e == addr[cur] - 1
  <2>1. e \in Words /\ e \in Nat
    BY <1>1, <1>2, WordsAssumption DEF Words
  <2>2. CASE \A m \in live : ~Shows(m, e)
    BY <1>2, <2>1, <2>2, ShownByNone
  <2>3. ASSUME NEW m \in live, Shows(m, e) PROVE Pages[e] # prot[cur]
    <3>1. addr[m] \in Nat /\ size[m] \in Nat /\ addr[m] <= e /\ e < addr[m] + size[m]
      BY <2>3, NodeTypes DEF IInv, Shows
    <3>2. addr[m] < addr[cur]
      BY <1>2, <2>1, <3>1
    <3>3. addr[m] + size[m] <= addr[cur]
      BY <1>2, <3>2, LowerIsBelow DEF IInv
    <3>4. addr[m] + size[m] = addr[cur]
      BY <1>2, <2>1, <3>1, <3>3
    <3>5. Touching(m) /\ next[m] = cur
      BY <1>2, <3>4, TouchMeans
    <3>6. prot[m] # prot[cur]
      BY <3>5 DEF IInv, Merged
    <3> QED BY <2>1, <2>3, <3>6, ShownByOne
  <2> QED BY <2>2, <2>3
<1>6. addr[cur] \in Words /\ BeginsRun(addr[cur], a)
  BY <1>1, <1>2, <1>3, <1>4, <1>5 DEF BeginsRun
<1>7. ASSUME NEW lo \in Words, BeginsRun(lo, a) PROVE lo = addr[cur]
  <2>1. lo \in Nat /\ lo <= a
    BY <1>1, <1>7 DEF BeginsRun
  <2>2. ~(lo < addr[cur])
    <3> SUFFICES ASSUME lo < addr[cur] PROVE FALSE
      OBVIOUS
    <3>1. addr[cur] - 1 \in lo .. a
      BY <1>1, <1>2, <2>1
    <3> QED BY <3>1, <1>4, <1>5, <1>7 DEF BeginsRun
  <2>3. ~(addr[cur] < lo)
    <3> SUFFICES ASSUME addr[cur] < lo PROVE FALSE
      OBVIOUS
    <3>1. lo - 1 \in addr[cur] .. a /\ lo # 0
      BY <1>1, <1>2, <2>1
    <3> QED BY <3>1, <1>3, <1>4, <1>7 DEF BeginsRun
  <2> QED BY <1>2, <2>1, <2>2, <2>3
<1> QED BY <1>6, <1>7

-----------------------------------------------------------------------------
(* PageMap's operators, said of Pages and Bytes.                           *)

LEMMA SpanMaps == ASSUME NEW x, NEW k PROVE PM!Span(x, k) = SpanOf(x, k)
BY DEF PM!Span, SpanOf, PM!Words, Words

LEMMA FitsMaps ==
    ASSUME NEW x, NEW k
    PROVE  PM!Fits(x, k) <=> /\ 0 < k /\ MMAP_MIN_ADDR <= x /\ x + k <= MemSize
                             /\ \A b \in SpanOf(x, k) : Pages[b] = Unmapped
BY SpanMaps DEF PM!Fits, Pages

LEMMA AccessibleMaps ==
    ASSUME NEW x, NEW k
    PROVE  PM!Accessible(x, k) <=> Reachable(x, k)
BY SpanMaps DEF PM!Accessible, Reachable, Pages

LEMMA RunStartMaps ==
    ASSUME NEW x
    PROVE  PM!RunStart(x) = CHOOSE lo \in Words : BeginsRun(lo, x)
BY DEF PM!RunStart, BeginsRun, Pages, PM!Words, Words

LEMMA PaintMaps ==
    ASSUME NEW x, NEW k, NEW p, Painted(x, k, p)
    PROVE  PM!Paint(x, k, p)
BY SpanMaps DEF PM!Paint, Painted, Pages, Bytes, PM!Words, Words

LEMMA RoundingMaps ==
    ASSUME NEW x, NEW n
    PROVE  /\ PM!PageDown(x) = PageDown(x) /\ PM!RoundUp(x, n) = RoundUp(x, n)
           /\ PM!RoundSize(n) = RoundSize(n)
BY DEF PM!PageDown, PageDown, PM!RoundUp, RoundUp, PM!RoundSize, RoundSize, PM!Word, Word

\* A step that changes nothing PageMap sees.
LEMMA Stutters ==
    ASSUME Same, UNCHANGED <<req, ret>>, At' = At
    PROVE  UNCHANGED PM!vars
BY DEF PM!vars, Same, Pages, Bytes, At

LEMMA RequestsMap == PM!Requests = Requests /\ PM!NoRequest = NoRequest
<1>1. PM!AnyProt = AnyProt /\ PM!AnyValue = AnyValue
  BY DEF PM!AnyProt, AnyProt, PM!AnyValue, AnyValue
<1>2. \A o, x, n, p, v : PM!Request(o, x, n, p, v) = Request(o, x, n, p, v)
  BY DEF PM!Request, Request
<1> QED BY <1>1, <1>2 DEF PM!Requests, Requests, MapRequests, UnmapRequests, FindRequests,
                          WriteRequests, PM!NoRequest, NoRequest

-----------------------------------------------------------------------------
(* Every step is a step of PageMap or none.                                *)

\* The steps that only move pc and the pointers of a call.
LEMMA PointerStepKeeps ==
    ASSUME \/ Call \/ MapFixedEntry \/ MapAnywhereEntry \/ UnmapEntry \/ FindEntry
           \/ Walk \/ WalkDone \/ GapWalk \/ GapFound \/ MapRefused \/ NoMergeNext
           \/ UnlinkDone \/ KeepLo \/ FindDone \/ Fault \/ Return
    PROVE  Same
<1>1. UNCHANGED heap
  BY DEF Call, MapFixedEntry, MapAnywhereEntry, UnmapEntry, FindEntry, Walk, WalkDone, GapWalk,
         GapFound, MapRefused, NoMergeNext, UnlinkDone, KeepLo, FindDone, Fault, Return
<1>2. CASE \/ Call \/ MapFixedEntry \/ MapAnywhereEntry \/ UnmapEntry \/ FindEntry
           \/ Walk \/ WalkDone \/ GapWalk \/ GapFound \/ MapRefused \/ NoMergeNext
           \/ FindDone \/ Fault \/ Return
  <2>1. pc \notin {"unlink", "trimlo", "trimhi"} /\ pc' \notin {"unlink", "trimlo", "trimhi"}
    BY <1>2 DEF Call, MapFixedEntry, MapAnywhereEntry, UnmapEntry, FindEntry, Walk, WalkDone,
                GapWalk, GapFound, MapRefused, NoMergeNext, FindDone, Fault, Return
  <2> QED BY <1>1, <2>1, QuietKeeps DEF BeingCut
<1>3. CASE UnlinkDone \/ KeepLo
  <2>1. pc \in {"unlink", "trimlo"} /\ pc' \in {"trimlo", "trimhi"} /\ UNCHANGED <<a, s>>
    BY <1>3 DEF UnlinkDone, KeepLo, locals
  <2> QED BY <1>1, <2>1, QuietKeeps DEF BeingCut
<1> QED BY <1>2, <1>3

LEMMA CallMaps == ASSUME Call PROVE PM!Call
<1>1. Same
  BY PointerStepKeeps
<1>2. /\ pc = "idle" /\ pc' = "entry" /\ req' \in PM!Requests /\ ret' = ret
  BY RequestsMap DEF Call
<1> QED BY <1>1, <1>2 DEF PM!Call, Same, Pages, Bytes

LEMMA ReturnMaps == ASSUME Return PROVE PM!Return
<1>1. Same
  BY PointerStepKeeps
<1>2. /\ pc = "done" /\ pc' = "idle" /\ req' = PM!NoRequest /\ ret' = 0
  BY RequestsMap DEF Return
<1> QED BY <1>1, <1>2 DEF PM!Return, Same, Pages, Bytes

\* A refusal is right: nothing fits where it was asked, or anywhere.
LEMMA MapRefusedMaps ==
    ASSUME IInv, PInv, Unmapped \notin Prots, MapRefused
    PROVE  PM!MapFixed \/ PM!MapAnywhere
<1>1. Same
  BY PointerStepKeeps
<1>2. /\ pc = "new" /\ pc' = "done" /\ ~CanMap /\ req' = req /\ ret' = 0 /\ req.op = "map"
      /\ a \in Nat /\ s \in Nat
  BY LocalTypes DEF MapRefused, IInv, CallInv, MapInv
<1>3. PM!Serving("map")
  BY <1>2 DEF PM!Serving
<1>4. CASE req.addr # 0
  <2>1. a = PM!PageDown(req.addr) /\ s = PM!RoundUp(req.addr, req.size)
    BY <1>2, <1>4, RoundingMaps DEF PInv, ArgInv
  <2>2. ~PM!Fits(a, s)
    <3> SUFFICES ASSUME PM!Fits(a, s) PROVE FALSE
      OBVIOUS
    <3>1. /\ 0 < s /\ MMAP_MIN_ADDR <= a /\ a + s <= MemSize
          /\ \A b \in SpanOf(a, s) : Pages[b] = Unmapped
      BY FitsMaps
    <3>2. \A k \in live : ~Overlaps(k, a, s)
      BY <1>2, <3>1, FreeMeans
    <3> QED BY <1>2, <1>4, <3>1, <3>2, FreeCanMap
  <2> QED BY <1>1, <1>2, <1>3, <1>4, <2>1, <2>2 DEF PM!MapFixed, Same, Pages, Bytes
<1>5. CASE req.addr = 0
  <2>1. s = PM!RoundSize(req.size) /\ NoRoomBelow(MemSize)
    BY <1>2, <1>5, RoundingMaps DEF PInv, ArgInv, RoomInv
  <2>2. ASSUME NEW r \in Words, r > MMAP_MIN_ADDR PROVE ~PM!Fits(r, s)
    <3> SUFFICES ASSUME PM!Fits(r, s) PROVE FALSE
      OBVIOUS
    <3>1. /\ 0 < s /\ r + s <= MemSize /\ r \in Nat /\ r < MemSize /\ MMAP_MIN_ADDR < r
          /\ \A b \in SpanOf(r, s) : Pages[b] = Unmapped
      BY <2>2, FitsMaps, WordsAssumption DEF Words
    <3>2. \A k \in live : ~Overlaps(k, r, s)
      BY <1>2, <3>1, FreeMeans
    <3> QED BY <2>1, <3>1, <3>2 DEF NoRoomBelow
  <2>3. \A r \in PM!Words : r > MMAP_MIN_ADDR => ~PM!Fits(r, s)
    BY <2>2 DEF PM!Words, Words
  <2> QED BY <1>1, <1>2, <1>3, <1>5, <2>1, <2>3 DEF PM!MapAnywhere, Same, Pages, Bytes
<1> QED BY <1>4, <1>5

\* A mapping goes where it was asked, or anywhere it fits.
LEMMA MappedMaps ==
    ASSUME IInv, IInv', AInv, PInv, Unmapped \notin Prots, ExtendPrev \/ InsertNode
    PROVE  PM!MapFixed \/ PM!MapAnywhere
<1>1. Painted(a, s, req.prot)
  BY ExtendPrevPaints, InsertNodePaints
<1>2. /\ pc = "new" /\ pc' = "merge" /\ CanMap /\ req' = req /\ ret' = a /\ req.op = "map"
      /\ a \in Nat /\ s \in Nat /\ a \in Words
  BY LocalTypes DEF ExtendPrev, InsertNode, IInv, CallInv, MapInv, TypeOK
<1>3. PM!Serving("map")
  BY <1>2 DEF PM!Serving
<1>4. PM!Fits(a, s)
  <2>1. /\ 0 < s /\ a + s <= MemSize /\ MMAP_MIN_ADDR <= a
        /\ \A k \in live : ~Overlaps(k, a, s)
    BY <1>2, CanMapIsFree
  <2>2. \A b \in SpanOf(a, s) : Pages[b] = Unmapped
    BY <1>2, <2>1, FreeMeans
  <2> QED BY <2>1, <2>2, FitsMaps
<1>5. PM!Paint(a, s, req.prot)
  BY <1>1, SpanMaps DEF PM!Paint, Painted, Pages, Bytes, PM!Words, Words
<1>6. CASE req.addr # 0
  <2>1. a = PM!PageDown(req.addr) /\ s = PM!RoundUp(req.addr, req.size)
    BY <1>2, <1>6, RoundingMaps DEF PInv, ArgInv
  <2> QED BY <1>2, <1>3, <1>4, <1>5, <1>6, <2>1 DEF PM!MapFixed
<1>7. CASE req.addr = 0
  <2>1. s = PM!RoundSize(req.size) /\ a % PageSize = 0 /\ a \in PM!Words
    BY <1>2, <1>7, RoundingMaps DEF PInv, ArgInv, AInv, CallAligned, Whole, PM!Words, Words
  <2> QED BY <1>2, <1>3, <1>4, <1>5, <1>7, <2>1 DEF PM!MapAnywhere
<1> QED BY <1>6, <1>7

\* mem_unmap unmaps the rounded range at once, in the eyes of its caller.
LEMMA UnmapMaps ==
    ASSUME IInv, IInv', PInv, LoHi \/ (UnmapEntry /\ pc' = "done")
    PROVE  PM!Unmap
<1>1. /\ PM!Serving("unmap") /\ ret' = 0
      /\ Painted(PageDown(req.addr), RoundUp(req.addr, req.size), Unmapped)
  <2>1. CASE LoHi
    <3>1. /\ pc = "lohi" /\ pc' = "unlink" /\ req' = req /\ ret' = 0 /\ req.op = "unmap"
          /\ SpanOf(a, s) = SpanOf(PageDown(req.addr), RoundUp(req.addr, req.size))
      BY <2>1 DEF LoHi, IInv, CallInv, UnmapInv, Cutting, PInv, ArgInv, RetInv
    <3>2. Painted(a, s, Unmapped)
      BY <2>1, LoHiPaints
    <3>3. Painted(PageDown(req.addr), RoundUp(req.addr, req.size), Unmapped)
      BY <3>1, <3>2 DEF Painted
    <3> QED BY <3>1, <3>3 DEF PM!Serving
  <2>2. CASE UnmapEntry /\ pc' = "done"
    <3>1. /\ pc = "entry" /\ req' = req /\ ret' = 0 /\ req.op = "unmap"
          /\ RoundUp(req.addr, req.size) = 0
      BY <2>2 DEF UnmapEntry, PInv, RetInv
    <3>2. PageDown(req.addr) \in Nat
      BY RequestTypes, PageDownRange, WordsAssumption, SMTT(30) DEF IInv, TypeOK, Words
    <3>3. SpanOf(PageDown(req.addr), 0) = {}
      BY <3>2, WordsAssumption DEF SpanOf, Words
    <3>4. Same
      BY <2>2, PointerStepKeeps
    <3>5. Painted(PageDown(req.addr), 0, Unmapped)
      BY <3>3, <3>4, PaintedEverywhere DEF Same
    <3> QED BY <2>2, <3>1, <3>5 DEF PM!Serving
  <2> QED BY <2>1, <2>2
<1>2. PM!Paint(PM!PageDown(req.addr), PM!RoundUp(req.addr, req.size), Unmapped)
  BY <1>1, PaintMaps, RoundingMaps
<1> QED BY <1>1, <1>2 DEF PM!Unmap

\* Lengths of accesses are short.
LEMMA LengthMeans ==
    ASSUME IInv, PInv, ShortReads, pc = "found", req.op \in {"find", "write"}
    PROVE  a = req.addr /\ s = req.size /\ 0 < s /\ s <= MMAP_MIN_ADDR
<1>1. a = req.addr /\ s = req.size
  BY DEF PInv, ArgInv
<1>2. req \in FindRequests \cup WriteRequests
  BY DEF IInv, TypeOK, Requests, MapRequests, UnmapRequests, NoRequest, Request
<1>3. req.size \in Numbs
  BY <1>2 DEF FindRequests, WriteRequests, Request
<1> QED BY <1>1, <1>3 DEF ShortReads

LEMMA FindMaps ==
    ASSUME IInv, PInv, ShortReads, FindDone
    PROVE  PM!Find
<1>1. Same
  BY PointerStepKeeps
<1>2. /\ pc = "found" /\ pc' = "done" /\ req' = req /\ req.op = "find"
      /\ ret' = IF Holds THEN addr[cur] ELSE 0
  BY DEF FindDone
<1>3. a = req.addr /\ s = req.size /\ 0 < s /\ s <= MMAP_MIN_ADDR /\ Unmapped \notin Prots
  BY <1>2, LengthMeans DEF ShortReads
<1>4. Holds <=> PM!Accessible(req.addr, req.size)
  BY <1>2, <1>3, HoldsIsReachable, AccessibleMaps
<1>5. Holds => addr[cur] = PM!RunStart(req.addr)
  BY <1>2, <1>3, HoldsBeginsRun, RunStartMaps
<1>6. PM!Serving("find")
  BY <1>2 DEF PM!Serving
<1> QED BY <1>1, <1>2, <1>4, <1>5, <1>6 DEF PM!Find, Same, Pages, Bytes

LEMMA WriteMaps ==
    ASSUME IInv, IInv', PInv, ShortReads, WriteDone
    PROVE  PM!Write
<1>1. /\ pc = "found" /\ pc' = "done" /\ req' = req /\ req.op = "write" /\ Holds /\ ret' = 0
  BY DEF WriteDone, PInv, RetInv
<1>2. a = req.addr /\ s = req.size /\ 0 < s /\ s <= MMAP_MIN_ADDR /\ Unmapped \notin Prots
  BY <1>1, LengthMeans DEF ShortReads
<1>3. PM!Accessible(req.addr, req.size)
  BY <1>1, <1>2, HoldsIsReachable, AccessibleMaps
<1>4. /\ Pages' = Pages
      /\ Bytes' = [b \in Words |-> IF b \in PM!Span(req.addr, req.size)
                                   THEN req.val ELSE Bytes[b]]
  BY <1>2, WriteWrites, SpanMaps
<1>5. PM!Serving("write")
  BY <1>1 DEF PM!Serving
<1> QED BY <1>1, <1>3, <1>4, <1>5 DEF PM!Write, Pages, Bytes, PM!Words, Words

LEMMA FaultMaps ==
    ASSUME IInv, PInv, ShortReads, Fault
    PROVE  PM!Fault
<1>1. Same
  BY PointerStepKeeps
<1>2. /\ pc = "found" /\ pc' = "exit" /\ req' = req /\ req.op = "write" /\ ~Holds /\ ret' = ret
  BY DEF Fault
<1>3. a = req.addr /\ s = req.size /\ 0 < s /\ s <= MMAP_MIN_ADDR /\ Unmapped \notin Prots
  BY <1>2, LengthMeans DEF ShortReads
<1>4. ~PM!Accessible(req.addr, req.size)
  BY <1>2, <1>3, HoldsIsReachable, AccessibleMaps
<1> QED BY <1>1, <1>2, <1>4 DEF PM!Fault, Same, Pages, Bytes

\* What the walks and the cuts do between the call and its return is nobody's
\* business.
LEMMA InsideStutters ==
    ASSUME IInv, IInv',
           \/ MapFixedEntry \/ MapAnywhereEntry \/ (UnmapEntry /\ pc' # "done") \/ FindEntry
           \/ Walk \/ WalkDone \/ GapWalk \/ GapFound \/ MergeNext \/ NoMergeNext
           \/ Unlink \/ UnlinkDone \/ SplitLo \/ TrimLo \/ KeepLo \/ TrimHi \/ KeepHi
    PROVE  UNCHANGED PM!vars
<1>1. Same
  BY PointerStepKeeps, MergeNextKeeps, UnlinkKeeps, SplitLoKeeps, TrimLoKeeps, TrimHiKeeps,
     KeepHiKeeps
<1>2. UNCHANGED <<req, ret>>
  BY DEF MapFixedEntry, MapAnywhereEntry, UnmapEntry, FindEntry, Walk, WalkDone, GapWalk,
         GapFound, MergeNext, NoMergeNext, Unlink, UnlinkDone, SplitLo, TrimLo, KeepLo,
         TrimHi, KeepHi
<1>3. CASE \/ MapFixedEntry \/ MapAnywhereEntry \/ (UnmapEntry /\ pc' # "done") \/ FindEntry
           \/ Walk \/ WalkDone \/ GapWalk \/ GapFound
  <2>1. /\ pc \in {"entry", "walk", "gap", "new", "lohi", "found"}
        /\ pc' \in {"entry", "walk", "gap", "new", "lohi", "found"}
    BY <1>3 DEF MapFixedEntry, MapAnywhereEntry, UnmapEntry, FindEntry, Walk, WalkDone, GapWalk,
                GapFound
  <2>2. At = "called" /\ At' = "called"
    BY <2>1 DEF At
  <2> QED BY <1>1, <1>2, <2>2, Stutters
<1>4. CASE \/ MergeNext \/ NoMergeNext
           \/ Unlink \/ UnlinkDone \/ SplitLo \/ TrimLo \/ KeepLo \/ TrimHi \/ KeepHi
  <2>1. /\ pc \in {"merge", "unlink", "trimlo", "trimhi"}
        /\ pc' \in {"done", "unlink", "trimlo", "trimhi"}
    BY <1>4 DEF MergeNext, NoMergeNext, Unlink, UnlinkDone, SplitLo, TrimLo, KeepLo,
                TrimHi, KeepHi
  <2>2. At = "done" /\ At' = "done"
    BY <2>1 DEF At
  <2> QED BY <1>1, <1>2, <2>2, Stutters
<1> QED BY <1>3, <1>4

-----------------------------------------------------------------------------
(* The theorem.                                                            *)

LEMMA InitMaps == Init => PM!Init
<1> SUFFICES ASSUME Init PROVE PM!Init
  OBVIOUS
<1>1. \A b \in Words : Holders(b) = {}
  BY DEF Init, Holders
<1>2. Pages = [b \in Words |-> Unmapped] /\ Bytes = [b \in Words |-> Junk]
  BY <1>1 DEF Pages, Bytes
<1>3. pc = "idle" /\ req = PM!NoRequest /\ ret = 0
  BY RequestsMap DEF Init
<1> QED BY <1>2, <1>3 DEF PM!Init, Pages, Bytes, PM!Words, Words

LEMMA StepMaps ==
    ASSUME ShortReads, IInv, AInv, PInv, [Next]_vars
    PROVE  [PM!Next]_PM!vars
<1>1. IInv'
  BY NextInv
<1>2. Unmapped \notin Prots
  BY DEF ShortReads
<1>3. CASE Call \/ Return \/ Fault \/ FindDone \/ WriteDone
  BY <1>1, <1>3, CallMaps, ReturnMaps, FaultMaps, FindMaps, WriteMaps DEF PM!Next
<1>4. CASE MapRefused \/ ExtendPrev \/ InsertNode
  BY <1>1, <1>2, <1>4, MapRefusedMaps, MappedMaps DEF PM!Next
<1>5. CASE LoHi \/ (UnmapEntry /\ pc' = "done")
  BY <1>1, <1>5, UnmapMaps DEF PM!Next
<1>6. CASE \/ MapFixedEntry \/ MapAnywhereEntry \/ (UnmapEntry /\ pc' # "done") \/ FindEntry
           \/ Walk \/ WalkDone \/ GapWalk \/ GapFound \/ MergeNext \/ NoMergeNext
           \/ Unlink \/ UnlinkDone \/ SplitLo \/ TrimLo \/ KeepLo \/ TrimHi \/ KeepHi
  BY <1>1, <1>6, InsideStutters
<1>7. CASE UNCHANGED vars
  <2>1. UNCHANGED <<heap, req, ret, pc, a, s>>
    BY <1>7 DEF vars, locals
  <2>2. Same /\ At' = At
    BY <2>1, QuietKeeps DEF BeingCut, At
  <2> QED BY <2>1, <2>2, Stutters
<1> QED BY <1>3, <1>4, <1>5, <1>6, <1>7 DEF Next, Step, Exited

LEMMA StepsMap ==
    ShortReads => (IInv /\ AInv /\ PInv /\ [Next]_vars => [PM!Next]_PM!vars)
BY StepMaps

\* What a call knows of its arguments holds in every behaviour.
LEMMA Planned == Spec => [](IInv /\ AInv /\ PInv)
<1>1. Init => AInv /\ PInv
  BY InitPlan DEF Init, AInv, PageAligned, CallAligned, Cutting
<1>2. IInv /\ AInv /\ PInv /\ [Next]_vars => AInv' /\ PInv'
  BY NextAligned, NextPlan
<1> QED BY <1>1, <1>2, Invariant, PTL DEF Spec

\* The list of mappings is the plain map of pages: mem_map takes the range it
\* was asked for, or any, exactly when it is free, mem_unmap leaves nothing of
\* its range and loses nothing beside it, no byte moves or changes when
\* mappings are merged, split and trimmed, and mem_find grants exactly what one
\* protection covers.
THEOREM MapImplementsPages == ASSUME ShortReads PROVE Spec => ImplementsPageMap
<1>1. IInv /\ AInv /\ PInv /\ [Next]_vars => [PM!Next]_PM!vars
  BY StepsMap
<1> QED BY <1>1, InitMaps, Planned, PTL DEF Spec, ImplementsPageMap, PM!Spec

-----------------------------------------------------------------------------
(* The emulator.                                                           *)

\* Whom the processor waits for.
CpuInv == /\ cpu = "run" => pc = "idle"
          /\ cpu = "access" => pc # "idle" /\ req.op \in {"find", "write"}

\* The inductive invariant of the emulator.
EInv == IInv /\ AInv /\ EmuTypeOK /\ CpuInv /\ LineValid

-----------------------------------------------------------------------------
(* Facts about lines and mappings.                                         *)

\* Two multiples that differ are at least one line apart.
LEMMA LineApart ==
    ASSUME NEW p \in Nat, 0 < p, NEW i \in Nat, NEW j \in Nat, p * i < p * j
    PROVE  p * i + p <= p * j
<1>1. i < j
  <2>1. SUFFICES ASSUME i - j >= 0 PROVE FALSE
    OBVIOUS
  <2>2. p * (i - j) >= 0
    BY <2>1
  <2> QED BY <2>2
<1>2. j - i - 1 \in Nat
  BY <1>1
<1>3. p * (j - i - 1) >= 0
  BY <1>2
<1> QED BY <1>3

\* The line of an address, and a whole number of pages, in lines.
LEMMA LineMultiple ==
    ASSUME NEW x \in Nat, x % LineBytes = 0 \/ Whole(x)
    PROVE  \E k \in Nat : x = LineBytes * k
<1>1. LineBytes \in Nat /\ LineBytes > 0 /\ PageSize \in Nat
  BY EmuAssumption, WordsAssumption
<1>2. CASE x % LineBytes = 0
  <2>1. /\ x = LineBytes * (x \div LineBytes) + (x % LineBytes)
        /\ x \div LineBytes \in Nat
    BY <1>1
  <2>2. x = LineBytes * (x \div LineBytes)
    BY <1>1, <1>2, <2>1
  <2> QED BY <2>1, <2>2
<1>3. CASE Whole(x)
  <2>1. PICK k \in Nat : x = PageSize * k
    BY <1>3, WholeMultiple
  <2>2. PICK j \in Nat : PageSize = LineBytes * j
    <3>1. /\ PageSize = LineBytes * (PageSize \div LineBytes) + (PageSize % LineBytes)
          /\ PageSize \div LineBytes \in Nat
      BY <1>1
    <3>2. PageSize = LineBytes * (PageSize \div LineBytes)
      BY <1>1, <3>1, EmuAssumption
    <3> QED BY <3>1, <3>2
  <2>3. x = LineBytes * (j * k) /\ j * k \in Nat
    BY <1>1, <2>1, <2>2
  <2> QED BY <2>3
<1> QED BY <1>2, <1>3

\* A multiple of the line size is the address of a line.
LEMMA MultipleOfLine ==
    ASSUME NEW x \in Nat, NEW k \in Nat, x = LineBytes * k
    PROVE  x % LineBytes = 0
<1>1. LineBytes \in Nat /\ LineBytes > 0
  BY EmuAssumption
<1>2. /\ x = LineBytes * (x \div LineBytes) + (x % LineBytes)
      /\ x \div LineBytes \in Nat /\ x % LineBytes \in 0 .. LineBytes - 1
  BY <1>1
<1> QED BY <1>1, <1>2, NoRemainder

\* What mem_get(x, sizeof(icache_t)) returns holds the whole line.
LEMMA GetMeans ==
    ASSUME IInv, NEW x \in Words, NEW m \in Get(x, LineBytes)
    PROVE  m \in live /\ addr[m] <= x /\ x + LineBytes <= addr[m] + size[m]
<1>1. m \in live /\ addr[m] <= x /\ Word(End(m) - LineBytes) >= x
  BY DEF Get, HighestUpTo
<1>2. /\ addr[m] \in Nat /\ size[m] \in Nat /\ x \in Nat /\ MemSize \in Nat
      /\ LineBytes \in Nat /\ 0 < LineBytes /\ LineBytes <= addr[m]
      /\ 0 < size[m] /\ addr[m] + size[m] <= MemSize
  BY <1>1, NodeTypes, WordsAssumption, EmuAssumption DEF IInv, Disjoint, Placed, Words
<1>3. CASE addr[m] + size[m] < MemSize
  <2>1. End(m) = addr[m] + size[m]
    BY <1>1, <1>3, MappingEnds DEF IInv
  <2> QED BY <1>1, <1>2, <1>3, <2>1 DEF Word
<1>4. CASE addr[m] + size[m] = MemSize
  <2>1. End(m) = 0
    BY <1>1, <1>4, MappingEnds DEF IInv
  <2>2. Word(End(m) - LineBytes) = MemSize - LineBytes
    BY <1>2, <2>1 DEF Word
  <2> QED BY <1>1, <1>2, <1>4, <2>2
<1> QED BY <1>1, <1>2, <1>3, <1>4

\* Adding a line to the address of a line gives one, also when it wraps.
LEMMA FetchLineAligned ==
    ASSUME NEW x \in Lines
    PROVE  Word(x + LineBytes) \in Lines
<1>1. /\ x \in Nat /\ x < MemSize /\ x % LineBytes = 0 /\ MemSize \in Nat
      /\ LineBytes \in Nat /\ 0 < LineBytes /\ LineBytes < MemSize
  BY WordsAssumption, EmuAssumption DEF Lines, Words
<1>2. PICK i \in Nat : x = LineBytes * i
  BY <1>1, LineMultiple
<1>3. PICK j \in Nat : MemSize = LineBytes * j
  BY <1>1, WholeWords, LineMultiple
<1>4. LineBytes * (i + 1) = x + LineBytes /\ i + 1 \in Nat
  BY <1>1, <1>2
<1>5. x + LineBytes <= MemSize
  BY <1>1, <1>2, <1>3, LineApart
<1>6. CASE x + LineBytes < MemSize
  <2>1. Word(x + LineBytes) = x + LineBytes
    BY <1>1, <1>6 DEF Word
  <2>2. (x + LineBytes) % LineBytes = 0
    <3>1. /\ x + LineBytes \in Nat /\ i + 1 \in Nat
          /\ x + LineBytes = LineBytes * (i + 1)
      BY <1>1, <1>4
    <3> QED BY <3>1, MultipleOfLine
  <2> QED BY <1>1, <1>6, <2>1, <2>2 DEF Lines, Words
<1>7. CASE x + LineBytes = MemSize
  <2>1. Word(x + LineBytes) = 0
    BY <1>1, <1>7 DEF Word
  <2>2. 0 % LineBytes = 0
    BY <1>1
  <2> QED BY <1>1, <2>1, <2>2 DEF Lines, Words
<1> QED BY <1>1, <1>5, <1>6, <1>7

-----------------------------------------------------------------------------
(* The emulator and its map.                                               *)

\* What the emulator does to the map is what MemMap allows.
LEMMA EmuStep == [EmuNext]_emuVars => [Next]_vars
BY DEF EmuNext, emuVars, Load, Access, Syscall, Asks, MapWorks, WriteFault, LoadReturn,
       AccessReturn, SyscallReturn, Goto, FetchNext, FetchFault, Halt, Ended, Next, Step

\* The map the emulator uses behaves as MemMap: its theorems hold here too.
THEOREM EmuUsesMemMap == EmuSpec => UsesMemMap
<1>1. EmuInit => Init
  BY DEF EmuInit
<1> QED BY <1>1, EmuStep, PTL DEF EmuSpec, UsesMemMap, Spec

\* While an instruction reads or writes memory the mappings stay where they are.
LEMMA AccessKeepsMappings ==
    ASSUME IInv, Step, req.op \in {"find", "write"}
    PROVE  UNCHANGED <<live, addr, size>> /\ (pc' \notin {"idle", "exit"} => UNCHANGED req)
<1> USE DEF IInv, CallInv
<1>1. CASE MapFixedEntry \/ MapAnywhereEntry \/ UnmapEntry \/ FindEntry
  BY <1>1 DEF MapFixedEntry, MapAnywhereEntry, UnmapEntry, FindEntry, heap
<1>2. CASE Walk \/ WalkDone \/ GapWalk \/ GapFound \/ MapRefused \/ NoMergeNext
  BY <1>2 DEF Walk, WalkDone, GapWalk, GapFound, MapRefused, NoMergeNext, heap
<1>3. CASE ExtendPrev \/ InsertNode \/ MergeNext
  BY <1>3 DEF ExtendPrev, InsertNode, MergeNext, MapInv
<1>4. CASE LoHi \/ Unlink \/ UnlinkDone \/ SplitLo \/ TrimLo \/ KeepLo \/ TrimHi \/ KeepHi
  BY <1>4 DEF LoHi, Unlink, UnlinkDone, SplitLo, TrimLo, KeepLo, TrimHi, KeepHi,
              UnmapInv, Cutting
<1>5. CASE FindDone \/ WriteDone \/ Fault \/ Return
  BY <1>5 DEF FindDone, WriteDone, Fault, Return, heap
<1> QED BY <1>1, <1>2, <1>3, <1>4, <1>5 DEF Step

\* update_imem ends the program or leaves a valid pointer.
LEMMA UpdateImemMeans ==
    ASSUME IInv, NEW x \in Words, UpdateImem(x), imem \in Pointer, iline \in Words,
           moved \in BOOLEAN, UNCHANGED heap, iaddr' = x
    PROVE  /\ cpu' \in {"exit", "run"} /\ LineValid'
           /\ imem' \in Pointer /\ iline' \in Words /\ moved' \in BOOLEAN
<1>1. CASE cpu' = "exit" /\ UNCHANGED <<imem, iline, moved>>
  BY <1>1 DEF LineValid
<1>2. CASE imem' \in Get(x, LineBytes) /\ iline' = x - addr[imem'] /\ moved' = FALSE
           /\ cpu' = "run"
  <2>1. imem' \in live /\ addr[imem'] <= x /\ x + LineBytes <= addr[imem'] + size[imem']
    BY <1>2, GetMeans
  <2>2. imem' \in Pointer /\ iline' \in Words
    BY <1>2, <2>1, NodeTypes, WordsAssumption DEF IInv, Pointer, Words
  <2> QED BY <1>2, <2>1, <2>2 DEF LineValid, heap
<1> QED BY <1>1, <1>2 DEF UpdateImem

\* The next line of the current mapping, when decode_fetch finds it there.
LEMMA FetchNextMeans ==
    ASSUME EInv, FetchNext
    PROVE  /\ iaddr' \in Lines /\ iline' \in Words
           /\ iaddr' = iaddr + LineBytes
           /\ iaddr' + LineBytes <= addr[imem] + size[imem]
<1>1. /\ imem \in live /\ addr[imem] <= iaddr /\ iline = iaddr - addr[imem]
      /\ iaddr + LineBytes <= addr[imem] + size[imem]
      /\ iaddr \in Words /\ iaddr % LineBytes = 0
  BY DEF EInv, FetchNext, LineValid, EmuTypeOK, Lines
<1>2. /\ addr[imem] \in Nat /\ size[imem] \in Nat /\ iaddr \in Nat /\ MemSize \in Nat
      /\ LineBytes \in Nat /\ 0 < LineBytes /\ addr[imem] + size[imem] <= MemSize
      /\ Whole(addr[imem]) /\ Whole(size[imem]) /\ LineBytes <= addr[imem]
  BY <1>1, NodeTypes, WordsAssumption, EmuAssumption
     DEF EInv, IInv, AInv, Disjoint, Placed, PageAligned, Words
<1>3. Word(Word(iaddr + LineBytes) - addr[imem]) < size[imem]
  BY DEF FetchNext, NextInside
<1>4. iaddr + LineBytes < addr[imem] + size[imem]
  <2>1. SUFFICES ASSUME iaddr + LineBytes = addr[imem] + size[imem] PROVE FALSE
    BY <1>1, <1>2
  <2>2. CASE iaddr + LineBytes < MemSize
    BY <1>2, <1>3, <2>1, <2>2 DEF Word
  <2>3. CASE iaddr + LineBytes = MemSize
    <3>1. Word(iaddr + LineBytes) = 0
      BY <1>2, <2>3 DEF Word
    <3>2. Word(0 - addr[imem]) = MemSize - addr[imem]
      BY <1>2 DEF Word
    <3> QED BY <1>2, <1>3, <2>1, <2>3, <3>1, <3>2
  <2> QED BY <1>1, <1>2, <2>2, <2>3
<1>5. iaddr' = iaddr + LineBytes
  BY <1>2, <1>4 DEF FetchNext, Word
<1>6. PICK i \in Nat : iaddr = LineBytes * i
  BY <1>1, <1>2, LineMultiple
<1>7. PICK j \in Nat : addr[imem] + size[imem] = LineBytes * j
  <2>1. addr[imem] + size[imem] \in Nat /\ Whole(addr[imem] + size[imem])
    BY <1>2, WholeSum
  <2> QED BY <2>1, LineMultiple
<1>8. /\ LineBytes * (i + 1) = iaddr + LineBytes
      /\ LineBytes * (i + 1) + LineBytes <= addr[imem] + size[imem]
  <2>1. LineBytes * (i + 1) = iaddr + LineBytes
    BY <1>2, <1>6
  <2>2. LineBytes * (i + 1) < LineBytes * j
    BY <1>4, <1>7, <2>1
  <2> QED BY <1>2, <1>7, <2>1, <2>2, LineApart
<1>9. (iaddr + LineBytes) % LineBytes = 0
  <2>1. /\ iaddr + LineBytes \in Nat /\ i + 1 \in Nat
        /\ iaddr + LineBytes = LineBytes * (i + 1)
    BY <1>2, <1>8
  <2> QED BY <2>1, MultipleOfLine
<1> QED BY <1>1, <1>2, <1>4, <1>5, <1>8, <1>9 DEF Lines, Words, FetchNext

-----------------------------------------------------------------------------
(* The invariant.                                                          *)

\* The emulator starts with it: nothing is mapped and nothing runs.
LEMMA EmuInitInv == EmuInit => EInv
<1> SUFFICES ASSUME EmuInit PROVE EInv
  OBVIOUS
<1>1. IInv
  BY InitInv DEF EmuInit
<1>2. AInv
  BY DEF EmuInit, Init, AInv, PageAligned, CallAligned, Cutting
<1>3. 0 \in Lines /\ 0 \in Words
  BY WordsAssumption, EmuAssumption DEF Lines, Words
<1> QED BY <1>1, <1>2, <1>3 DEF EInv, IInv, EmuTypeOK, CpuInv, LineValid, EmuInit, Pointer

\* Every step of the emulator preserves it.
LEMMA EmuNextInv == ASSUME EInv, [EmuNext]_emuVars PROVE EInv'
<1> DEFINE Rest == EmuTypeOK' /\ CpuInv' /\ LineValid'
<1>1. IInv' /\ AInv'
  BY EmuStep, NextInv, NextAligned DEF EInv
<1>2. TypeOK'
  BY <1>1 DEF IInv
<1> SUFFICES Rest
  BY <1>1 DEF EInv
<1>3. ASSUME UNCHANGED <<imem, iline, iaddr, moved>>, cpu' \in {"load", "syscall", "exit"}
      PROVE  Rest
  BY <1>2, <1>3 DEF EInv, EmuTypeOK, CpuInv, LineValid
<1>4. CASE Load \/ Syscall \/ WriteFault \/ LoadReturn \/ Halt
  BY <1>3, <1>4 DEF Load, Syscall, Asks, WriteFault, LoadReturn, Halt
<1>5. CASE Access
  <2>1. /\ cpu = "run" /\ cpu' = "access" /\ UNCHANGED <<imem, iline, iaddr, moved>>
        /\ UNCHANGED heap /\ pc' = "entry" /\ req'.op \in {"find", "write"}
    BY <1>5 DEF Access, Asks, Call
  <2> QED BY <1>2, <2>1 DEF EInv, EmuTypeOK, CpuInv, LineValid, heap
<1>6. CASE MapWorks
  <2>1. /\ UNCHANGED <<cpu, imem, iline, iaddr>> /\ Step /\ pc' \notin {"idle", "exit"}
        /\ moved' = (moved \/ BlockMoves)
    BY <1>6 DEF MapWorks
  <2>2. EmuTypeOK'
    <3>1. moved' \in BOOLEAN
      BY <2>1 DEF EInv, EmuTypeOK
    <3> QED BY <1>2, <2>1, <3>1 DEF EInv, EmuTypeOK
  <2>3. cpu # "run"
    <3>1. pc # "idle"
      BY <2>1 DEF Step, MapFixedEntry, MapAnywhereEntry, UnmapEntry, FindEntry, Walk,
           WalkDone, GapWalk, GapFound, MapRefused, ExtendPrev, InsertNode, MergeNext,
           NoMergeNext, LoHi, Unlink, UnlinkDone, SplitLo, TrimLo, KeepLo, TrimHi, KeepHi,
           FindDone, WriteDone, Fault, Return
    <3> QED BY <3>1 DEF EInv, CpuInv
  <2>4. CASE cpu = "access"
    <3>1. req.op \in {"find", "write"}
      BY <2>4 DEF EInv, CpuInv
    <3>2. UNCHANGED <<live, addr, size, req>>
      BY <2>1, <3>1, AccessKeepsMappings DEF EInv
    <3>3. CpuInv'
      BY <2>1, <2>4, <3>1, <3>2 DEF CpuInv
    <3>4. LineValid'
      <4>1. imem \in live /\ ~moved
        BY <2>4 DEF EInv, LineValid
      <4>2. ~BlockMoves
        BY <3>2, <4>1 DEF BlockMoves
      <4> QED BY <2>1, <2>4, <3>2, <4>1, <4>2 DEF EInv, LineValid
    <3> QED BY <2>2, <3>3, <3>4
  <2>5. CASE cpu # "access"
    BY <2>1, <2>2, <2>3, <2>5 DEF CpuInv, LineValid
  <2> QED BY <2>4, <2>5
<1>7. CASE AccessReturn
  <2>1. /\ cpu = "access" /\ cpu' \in {"exit", "run"} /\ pc' = "idle"
        /\ UNCHANGED heap /\ UNCHANGED <<imem, iline, iaddr, moved>>
    BY <1>7 DEF AccessReturn, Return
  <2> QED BY <1>2, <2>1 DEF EInv, EmuTypeOK, CpuInv, LineValid, heap
<1>8. ASSUME NEW x \in Lines, UpdateImem(x), UNCHANGED heap, pc' = "idle", iaddr' = x
      PROVE  Rest
  <2>1. x \in Words
    BY DEF Lines
  <2>2. /\ cpu' \in {"exit", "run"} /\ LineValid'
        /\ imem' \in Pointer /\ iline' \in Words /\ moved' \in BOOLEAN
    BY <1>8, <2>1, UpdateImemMeans DEF EInv, EmuTypeOK
  <2> QED BY <1>2, <1>8, <2>2 DEF EmuTypeOK, CpuInv
<1>9. CASE SyscallReturn
  <2>1. UpdateImem(iaddr) /\ UNCHANGED heap /\ pc' = "idle" /\ iaddr' = iaddr /\ iaddr \in Lines
    BY <1>9 DEF SyscallReturn, Return, EInv, EmuTypeOK
  <2> QED BY <1>8, <2>1
<1>10. CASE \E x \in Lines : Goto(x)
  <2>1. PICK x \in Lines : Goto(x)
    BY <1>10
  <2>2. UpdateImem(x) /\ UNCHANGED heap /\ pc' = "idle" /\ iaddr' = x
    BY <2>1 DEF Goto, Idle, vars
  <2> QED BY <1>8, <2>2
<1>11. CASE FetchNext
  <2>1. /\ iaddr' \in Lines /\ iline' \in Words /\ iaddr' = iaddr + LineBytes
        /\ iaddr' + LineBytes <= addr[imem] + size[imem]
    BY <1>11, FetchNextMeans
  <2>2. /\ UNCHANGED heap /\ pc' = pc /\ pc = "idle" /\ UNCHANGED <<cpu, imem, moved>>
        /\ cpu = "run" /\ iline' = iline + LineBytes
    BY <1>11 DEF FetchNext, Idle, vars
  <2>3. LineValid'
    <3>1. /\ imem \in live /\ ~moved /\ addr[imem] <= iaddr /\ iline = iaddr - addr[imem]
      BY <2>2 DEF EInv, LineValid
    <3>2. addr[imem] \in Nat /\ iaddr \in Nat /\ LineBytes \in Nat
      BY <3>1, NodeTypes, EmuAssumption, WordsAssumption DEF EInv, IInv, EmuTypeOK, Lines, Words
    <3>3. addr[imem] <= iaddr' /\ iline' = iaddr' - addr[imem]
      BY <2>1, <2>2, <3>1, <3>2
    <3> QED BY <2>1, <2>2, <3>1, <3>3 DEF LineValid, heap
  <2> QED BY <1>2, <2>1, <2>2, <2>3 DEF EInv, EmuTypeOK, CpuInv
<1>12. CASE FetchFault
  <2>1. cpu = "run" /\ cpu' = "exit" /\ UNCHANGED <<imem, iline, moved>>
    BY <1>12 DEF FetchFault
  <2>2. iaddr' \in Lines
    BY <1>12, FetchLineAligned DEF EInv, EmuTypeOK, FetchFault
  <2> QED BY <1>2, <2>1, <2>2 DEF EInv, EmuTypeOK, CpuInv, LineValid
<1>13. CASE UNCHANGED emuVars \/ Ended
  BY <1>2, <1>13 DEF Ended, emuVars, vars, heap, EInv, EmuTypeOK, CpuInv, LineValid
<1> QED
  BY <1>4, <1>5, <1>6, <1>7, <1>9, <1>10, <1>11, <1>12, <1>13 DEF EmuNext

\* The inductive invariant of the emulator.
THEOREM EmuInvariant == EmuSpec => []EInv
BY EmuInitInv, EmuNextInv, PTL DEF EmuSpec

\* Whenever an instruction runs, iline points at the line of iaddr in the
\* present block of a live mapping, after any sequence of mmap and munmap.
THEOREM NoStaleLine == EmuSpec => []LineValid
<1>1. EInv => LineValid
  BY DEF EInv
<1> QED BY <1>1, EmuInvariant, PTL

\* Type correctness of the emulator.
THEOREM EmuTypeCorrect == EmuSpec => []EmuTypeOK
<1>1. EInv => EmuTypeOK
  BY DEF EInv
<1> QED BY <1>1, EmuInvariant, PTL

-----------------------------------------------------------------------------
(* Code: a syscall that returns to the program has left the line it runs in*)
(* mapped, and its bytes as they were.                                     *)

\* The running mem_unmap has taken byte b away, or is about to.
CutAway(b) == /\ req.op = "unmap" /\ pc \in {"unlink", "trimlo", "trimhi", "done"}
              /\ b \in SpanOf(a, s)

\* Byte b still holds v, unless it is cut away.
Keeps(b, v) == CutAway(b) \/ (Pages[b] # Unmapped /\ Bytes[b] = v)

LineOffsets == 0 .. LineBytes - 1

\* While a syscall is under way, the line it was made from is in memory.
CodeInv ==
    /\ pc = "done" /\ req.op = "unmap" => Whole(a)
    /\ cpu = "syscall" => /\ req.op \in {"map", "unmap"}
                          /\ iaddr + LineBytes <= MemSize
                          /\ before = [i \in LineOffsets |-> before[i]]
                          /\ \A i \in LineOffsets : Keeps(iaddr + i, before[i])

-----------------------------------------------------------------------------
(* The map, while it serves a syscall.                                     *)

\* A byte that some mapping shows is none of a new mapping.
LEMMA NewIsElsewhere ==
    ASSUME IInv, pc = "new", CanMap, NEW b \in Words, Pages[b] # Unmapped
    PROVE  b \notin SpanOf(a, s)
<1>1. PICK n \in live : Shows(n, b)
  BY ShownByNone
<1>2. ~Overlaps(n, a, s) /\ 0 < s
  BY CanMapIsFree
<1>3. addr[n] \in Nat /\ size[n] \in Nat /\ a \in Nat /\ s \in Nat /\ b \in Nat
  BY <1>1, NodeTypes, WordsAssumption DEF IInv, TypeOK, Words
<1> QED BY <1>1, <1>2, <1>3 DEF Shows, Overlaps, SpanOf

\* No step of mem_map or mem_unmap touches a byte it is not asked to cut away:
\* merging, splitting and moving blocks keep what they show.
LEMMA SyscallKeeps ==
    ASSUME IInv, IInv', Unmapped \notin Prots, Step, pc' \notin {"idle", "exit"},
           req.op \in {"map", "unmap"}, NEW b \in Words, NEW v, Keeps(b, v)
    PROVE  Keeps(b, v)'
<1>1. ASSUME Same, CutAway(b) => CutAway(b)' PROVE Keeps(b, v)'
  BY <1>1 DEF Same, Keeps
<1>2. CASE MapFixedEntry \/ MapAnywhereEntry \/ UnmapEntry \/ FindEntry
           \/ Walk \/ WalkDone \/ GapWalk \/ GapFound \/ MapRefused
  <2>1. Same
    BY <1>2, PointerStepKeeps
  <2>2. ~CutAway(b)
    BY <1>2 DEF MapFixedEntry, MapAnywhereEntry, UnmapEntry, FindEntry, Walk, WalkDone,
                GapWalk, GapFound, MapRefused, CutAway
  <2> QED BY <1>1, <2>1, <2>2
<1>3. CASE ExtendPrev \/ InsertNode
  <2>1. pc = "new" /\ CanMap /\ ~CutAway(b)
    BY <1>3 DEF ExtendPrev, InsertNode, CutAway
  <2>2. Painted(a, s, req.prot)
    BY <1>3, ExtendPrevPaints, InsertNodePaints
  <2>3. Pages[b] # Unmapped /\ Bytes[b] = v
    BY <2>1 DEF Keeps
  <2>4. b \notin SpanOf(a, s)
    BY <2>1, <2>3, NewIsElsewhere
  <2> QED BY <2>2, <2>3, <2>4 DEF Painted, Keeps
<1>4. CASE MergeNext \/ NoMergeNext
  <2>1. Same
    BY <1>4, MergeNextKeeps, PointerStepKeeps
  <2>2. ~CutAway(b)
    BY <1>4 DEF MergeNext, NoMergeNext, CutAway
  <2> QED BY <1>1, <2>1, <2>2
<1>5. CASE LoHi
  <2>1. Painted(a, s, Unmapped)
    BY <1>5, LoHiPaints
  <2>2. pc = "lohi" /\ pc' = "unlink" /\ UNCHANGED <<req, a, s>> /\ req.op = "unmap"
    BY <1>5 DEF LoHi, IInv, CallInv, UnmapInv, Cutting
  <2>3. CASE b \in SpanOf(a, s)
    BY <2>2, <2>3 DEF Keeps, CutAway, SpanOf
  <2>4. CASE b \notin SpanOf(a, s)
    BY <2>1, <2>2, <2>4 DEF Painted, Keeps, CutAway
  <2> QED BY <2>3, <2>4
<1>6. CASE Unlink \/ UnlinkDone \/ SplitLo \/ TrimLo \/ KeepLo \/ TrimHi \/ KeepHi
  <2>1. Same
    BY <1>6, UnlinkKeeps, SplitLoKeeps, TrimLoKeeps, TrimHiKeeps, KeepHiKeeps,
       PointerStepKeeps
  <2>2. /\ UNCHANGED <<req, a, s>>
        /\ pc \in {"unlink", "trimlo", "trimhi"} => pc' \in {"unlink", "trimlo", "trimhi", "done"}
        /\ pc # "done"
    BY <1>6 DEF Unlink, UnlinkDone, SplitLo, TrimLo, KeepLo, TrimHi, KeepHi, locals
  <2>3. CutAway(b) => CutAway(b)'
    BY <2>2 DEF CutAway, SpanOf
  <2> QED BY <1>1, <2>1, <2>3
<1>7. CASE FindDone \/ WriteDone \/ Fault \/ Return
  BY <1>7 DEF FindDone, WriteDone, Fault, Return
<1> QED BY <1>2, <1>3, <1>4, <1>5, <1>6, <1>7 DEF Step

\* The range of mem_unmap is whole pages when it returns, also an empty one.
LEMMA DoneIsWhole ==
    ASSUME IInv, AInv, Step, pc' = "done", req'.op = "unmap"
    PROVE  Whole(a')
<1> USE DEF Step
<1>1. pc # "done"
  BY DEF MapFixedEntry, MapAnywhereEntry, UnmapEntry, FindEntry, Walk, WalkDone, GapWalk,
         GapFound, MapRefused, ExtendPrev, InsertNode, MergeNext, NoMergeNext, LoHi, Unlink,
         UnlinkDone, SplitLo, TrimLo, KeepLo, TrimHi, KeepHi, FindDone, WriteDone, Fault, Return
<1>2. CASE UnmapEntry
  <2>1. a' = PageDown(req.addr) /\ req \in Requests
    BY <1>2 DEF UnmapEntry, IInv, TypeOK, NoRequest, Request
  <2>2. req.addr \in Words
    BY <1>2, <2>1, MemMapAssumption DEF UnmapEntry, Requests, MapRequests, UnmapRequests,
       FindRequests, WriteRequests, Request
  <2> QED BY <2>1, <2>2, WholeWords
<1>3. CASE TrimHi \/ KeepHi
  BY <1>3 DEF TrimHi, KeepHi, AInv, CallAligned, Cutting, locals
<1>4. CASE MapRefused \/ MergeNext \/ NoMergeNext
  BY <1>4 DEF MapRefused, MergeNext, NoMergeNext, IInv, CallInv, MapInv
<1>5. CASE FindDone \/ WriteDone
  BY <1>5 DEF FindDone, WriteDone
<1>6. CASE MapFixedEntry \/ MapAnywhereEntry \/ FindEntry \/ Walk \/ WalkDone \/ GapWalk
           \/ GapFound \/ ExtendPrev \/ InsertNode \/ LoHi \/ Unlink \/ UnlinkDone
           \/ SplitLo \/ TrimLo \/ KeepLo \/ Fault \/ Return
  BY <1>1, <1>6 DEF MapFixedEntry, MapAnywhereEntry, FindEntry, Walk, WalkDone, GapWalk,
     GapFound, ExtendPrev, InsertNode, LoHi, Unlink, UnlinkDone, SplitLo, TrimLo, KeepLo,
     Fault, Return
<1> QED BY <1>2, <1>3, <1>4, <1>5, <1>6

-----------------------------------------------------------------------------
(* The processor.                                                          *)

\* The line of a valid pointer is shown by the mapping it points into.
LEMMA LineShown ==
    ASSUME IInv, pc \notin {"unlink", "trimlo", "trimhi"}, NEW m \in live, NEW x \in Words,
           addr[m] <= x, x + LineBytes <= addr[m] + size[m], NEW i \in LineOffsets
    PROVE  /\ x + i \in Words /\ Shows(m, x + i)
           /\ Bytes[x + i] = data[m][x - addr[m] + i] /\ Pages[x + i] \in Prots
           /\ x + LineBytes <= MemSize
<1>1. /\ addr[m] \in Nat /\ size[m] \in Nat /\ addr[m] + size[m] <= MemSize
      /\ x \in Nat /\ LineBytes \in Nat /\ i \in Nat /\ i < LineBytes /\ MemSize \in Nat
  BY NodeTypes, WordsAssumption, EmuAssumption
     DEF IInv, Disjoint, Placed, Words, LineOffsets
<1>2. x + i \in Words /\ Shows(m, x + i) /\ x + LineBytes <= MemSize
  BY <1>1 DEF Words, Shows, BeingCut
<1>3. Bytes[x + i] = data[m][(x + i) - addr[m]] /\ Pages[x + i] \in Prots
  BY <1>2, ShownByOne
<1>4. (x + i) - addr[m] = x - addr[m] + i
  BY <1>1
<1> QED BY <1>2, <1>3, <1>4

\* A syscall begins with the line it is made from in memory.
LEMMA SyscallBegins ==
    ASSUME EInv, Unmapped \notin Prots, Syscall
    PROVE  CodeInv'
<1>1. /\ imem \in live /\ addr[imem] <= iaddr /\ iaddr + LineBytes <= addr[imem] + size[imem]
      /\ iline = iaddr - addr[imem] /\ iaddr \in Words /\ IInv /\ pc = "idle"
  BY DEF EInv, EmuTypeOK, LineValid, Lines, Syscall, Asks, Idle
<1>2. /\ Call /\ pc' = "entry" /\ req'.op \in {"map", "unmap"} /\ iaddr' = iaddr
      /\ before' = LineBlock
  BY DEF Syscall, Asks, Call
<1>3. Same
  BY <1>2, PointerStepKeeps
<1>4. LineBlock = [i \in LineOffsets |-> data[imem][iaddr - addr[imem] + i]]
  BY <1>1 DEF LineBlock, LineOffsets
<1>5. before' = [i \in LineOffsets |-> before'[i]]
  BY <1>2, <1>4
<1>6. iaddr + LineBytes <= MemSize
  BY <1>1, NodeTypes, WordsAssumption, EmuAssumption
     DEF IInv, Disjoint, Placed, Words
<1>7. ASSUME NEW i \in LineOffsets PROVE Keeps(iaddr + i, before[i])'
  <2>1. Bytes[iaddr + i] = before'[i] /\ Pages[iaddr + i] \in Prots
    BY <1>1, <1>2, <1>4, <1>7, LineShown
  <2> QED BY <1>2, <1>3, <2>1 DEF Same, Keeps
<1> QED BY <1>2, <1>5, <1>6, <1>7 DEF CodeInv

\* Every step keeps what a syscall under way knows of its line.
LEMMA CodeNext ==
    ASSUME EInv, EInv', CodeInv, Unmapped \notin Prots, [EmuNext]_emuVars
    PROVE  CodeInv'
<1>1. IInv /\ IInv' /\ AInv
  BY DEF EInv
<1>2. CASE Syscall
  BY <1>2, SyscallBegins
<1>3. ASSUME cpu' # "syscall", pc' # "done" PROVE CodeInv'
  BY <1>3 DEF CodeInv
<1>4. CASE Load \/ Access
  BY <1>3, <1>4 DEF Load, Access, Asks, Call
<1>5. CASE WriteFault \/ LoadReturn \/ AccessReturn \/ SyscallReturn
  BY <1>3, <1>5 DEF WriteFault, LoadReturn, AccessReturn, SyscallReturn, UpdateImem, Fault, Return
<1>6. CASE MapWorks
  <2>1. Step /\ pc' \notin {"idle", "exit"} /\ UNCHANGED <<cpu, iaddr, before>>
    BY <1>6 DEF MapWorks
  <2>2. pc' = "done" /\ req'.op = "unmap" => Whole(a')
    BY <1>1, <2>1, DoneIsWhole
  <2>3. ASSUME cpu = "syscall"
        PROVE  /\ req' = req
               /\ \A i \in LineOffsets : Keeps(iaddr + i, before[i])'
    <3>1. req.op \in {"map", "unmap"} /\ iaddr + LineBytes <= MemSize
          /\ \A i \in LineOffsets : Keeps(iaddr + i, before[i])
      BY <2>3 DEF CodeInv
    <3>2. \A i \in LineOffsets : iaddr + i \in Words
      BY <3>1, WordsAssumption, EmuAssumption
         DEF EInv, EmuTypeOK, Lines, Words, LineOffsets
    <3>3. req' = req
      BY <2>1 DEF Step, MapFixedEntry, MapAnywhereEntry, UnmapEntry, FindEntry, Walk,
         WalkDone, GapWalk, GapFound, MapRefused, ExtendPrev, InsertNode, MergeNext,
         NoMergeNext, LoHi, Unlink, UnlinkDone, SplitLo, TrimLo, KeepLo, TrimHi, KeepHi,
         FindDone, WriteDone, Fault, Return
    <3> QED BY <1>1, <2>1, <3>1, <3>2, <3>3, SyscallKeeps
  <2> QED BY <2>1, <2>2, <2>3 DEF CodeInv
<1>7. CASE (\E x \in Lines : Goto(x)) \/ FetchNext \/ FetchFault \/ Halt
  BY <1>3, <1>7 DEF Goto, UpdateImem, FetchNext, FetchFault, Halt, Idle, vars
<1>8. CASE UNCHANGED emuVars
  <2>1. Pages' = Pages /\ Bytes' = Bytes
    <3>1. UNCHANGED heap /\ \A b \in Words : BeingCut(b)' = BeingCut(b)
      BY <1>8 DEF emuVars, vars, locals, BeingCut
    <3> QED BY <3>1, QuietKeeps DEF Same
  <2>2. \A i \in LineOffsets : Keeps(iaddr + i, before[i]) => Keeps(iaddr + i, before[i])'
    BY <1>8, <2>1 DEF emuVars, vars, locals, Keeps, CutAway, SpanOf
  <2> QED BY <1>8, <2>2 DEF emuVars, vars, locals, CodeInv
<1> QED BY <1>2, <1>4, <1>5, <1>6, <1>7, <1>8 DEF EmuNext, Ended

\* A range of whole pages that overlaps a line has a byte in it.
LEMMA CutOffMeans ==
    ASSUME IInv, NEW x \in Lines, NEW m \in live, Whole(a),
           addr[m] <= x, x + LineBytes <= addr[m] + size[m],
           a < x + LineBytes, x < a + s
    PROVE  Overlaps(m, a, s)
<1>1. /\ x \in Nat /\ x % LineBytes = 0 /\ LineBytes \in Nat /\ 0 < LineBytes
      /\ a \in Nat /\ s \in Nat /\ addr[m] \in Nat /\ size[m] \in Nat
  BY NodeTypes, WordsAssumption, EmuAssumption DEF Lines, Words, IInv, TypeOK
<1>2. 0 < s
  <2>1. SUFFICES ASSUME s = 0 PROVE FALSE
    BY <1>1
  <2>2. PICK i \in Nat : x = LineBytes * i
    BY <1>1, LineMultiple
  <2>3. PICK j \in Nat : a = LineBytes * j
    BY <1>1, LineMultiple
  <2>4. x + LineBytes <= a
    BY <1>1, <2>1, <2>2, <2>3, LineApart
  <2> QED BY <1>1, <2>4
<1> QED BY <1>1, <1>2 DEF Overlaps

\* A syscall that returns to the program finds its line mapped and unchanged.
LEMMA SyscallEnds ==
    ASSUME EInv, EInv', CodeInv, Unmapped \notin Prots, SyscallReturn, cpu' = "run"
    PROVE  ~CutOff /\ LineBlock' = before
<1>1. /\ pc = "done" /\ UNCHANGED heap /\ iaddr' = iaddr /\ iaddr \in Lines /\ iaddr \in Words
      /\ IInv /\ cpu = "syscall"
  BY DEF SyscallReturn, Return, EInv, EmuTypeOK, Lines
<1>2. imem' \in Get(iaddr, LineBytes) /\ iline' = iaddr - addr[imem']
  BY DEF SyscallReturn, UpdateImem
<1> DEFINE m == imem'
<1>3. m \in live /\ addr[m] <= iaddr /\ iaddr + LineBytes <= addr[m] + size[m]
  BY <1>1, <1>2, GetMeans
<1>4. ~CutOff
  <2>1. SUFFICES ASSUME CutOff PROVE FALSE
    OBVIOUS
  <2>2. Whole(a) /\ req.op = "unmap" /\ a < iaddr + LineBytes /\ iaddr < a + s
    BY <1>1, <2>1 DEF CodeInv, CutOff
  <2>3. Overlaps(m, a, s)
    BY <1>1, <1>3, <2>2, CutOffMeans
  <2> QED BY <1>1, <1>3, <2>2, <2>3 DEF IInv, UnmapClears
<1>5. ASSUME NEW i \in LineOffsets PROVE data[m][iaddr - addr[m] + i] = before[i]
  <2>1. /\ iaddr + i \in Words /\ Shows(m, iaddr + i)
        /\ Bytes[iaddr + i] = data[m][iaddr - addr[m] + i]
    BY <1>1, <1>3, <1>5, LineShown
  <2>2. ~CutAway(iaddr + i)
    <3>1. SUFFICES ASSUME CutAway(iaddr + i) PROVE FALSE
      OBVIOUS
    <3>2. /\ addr[m] \in Nat /\ size[m] \in Nat /\ a \in Nat /\ s \in Nat
          /\ iaddr + i \in Nat
      BY <1>1, <1>3, <2>1, NodeTypes, WordsAssumption DEF Words, IInv, TypeOK
    <3>3. Overlaps(m, a, s)
      BY <2>1, <3>1, <3>2 DEF CutAway, SpanOf, Shows, Overlaps
    <3> QED BY <1>1, <1>3, <3>1, <3>3 DEF IInv, UnmapClears, CutAway
  <2>3. Bytes[iaddr + i] = before[i]
    BY <1>1, <1>5, <2>2 DEF CodeInv, Keeps
  <2> QED BY <2>1, <2>3
<1>6. LineBlock' = [i \in LineOffsets |-> data[m][iaddr - addr[m] + i]]
  BY <1>1, <1>2 DEF LineBlock, LineOffsets, heap
<1>7. before = [i \in LineOffsets |-> before[i]]
  BY <1>1 DEF CodeInv
<1> QED BY <1>4, <1>5, <1>6, <1>7

\* Only a syscall's return takes the processor from the syscall to the program.
LEMMA ComesBack ==
    ASSUME EInv, [EmuNext]_emuVars, cpu = "syscall", cpu' = "run"
    PROVE  SyscallReturn
BY DEF EmuNext, emuVars, Load, Access, Syscall, Asks, MapWorks, WriteFault, LoadReturn,
       AccessReturn, Goto, FetchNext, FetchFault, Halt, Ended

\* A syscall that returns to the program left the line it runs in mapped, and
\* its bytes as they were, for every page and memory size and every program.
THEOREM CodeIsKept == ASSUME Unmapped \notin Prots PROVE EmuSpec => CodeStays
<1>1. EmuInit => CodeInv
  BY DEF EmuInit, Init, CodeInv
<1>2. EInv /\ EInv' /\ CodeInv /\ [EmuNext]_emuVars => CodeInv'
  BY CodeNext
<1>3. EInv /\ EInv' /\ CodeInv /\ [EmuNext]_emuVars
        => [cpu = "syscall" /\ cpu' = "run" => ~CutOff /\ LineBlock' = before]_emuVars
  BY ComesBack, SyscallEnds
<1> QED BY <1>1, <1>2, <1>3, EmuInvariant, PTL DEF EmuSpec, CodeStays
=============================================================================
