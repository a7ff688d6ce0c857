------------------------------- MODULE Decode -------------------------------
(***************************************************************************)
(* Instruction fetch in emu/emu.c: do_goto, update_imem, decode_fetch and  *)
(* decode_align.  The program counter is kept as the address of a cache    *)
(* line, iaddr, and a bit offset into it, ioff; iline points at the line   *)
(* in the block of the current mapping, imem.  Which fields an instruction *)
(* has and where its jumps go is left open: any sequence of fetches,       *)
(* aligns, jumps and stores may happen.                                    *)
(***************************************************************************)
EXTENDS Words, FiniteSets

CONSTANTS
    ByteBits, WordBits, Regions, FieldSizes, Targets, Patterns,
                     \* as in BitStream
    LineBytes,       \* sizeof(icache_t)
    MaxStored        \* bound: how many bytes may differ from zero

LineBits == LineBytes * ByteBits          \* ICACHE_SIZE

ASSUME DecodeAssumption ==
    /\ ByteBits \in Nat \ {0} /\ LineBytes \in Nat \ {0} /\ WordBits \in Nat \ {0}
    /\ WordBits <= LineBits
    /\ FieldSizes \subseteq 1 .. WordBits
    /\ Targets \subseteq Int
    /\ Patterns \subseteq [0 .. ByteBits - 1 -> {0, 1}]
    /\ MaxStored \in Nat
    /\ MemSize % LineBytes = 0
    \* Mappings are whole pages, hence whole lines, apart from each other, and
    \* not where memory begins.
    /\ \A r \in Regions : /\ r \in [addr : Words, size : 1 .. MemSize]
                          /\ MMAP_MIN_ADDR <= r.addr /\ r.addr + r.size <= MemSize
                          /\ r.addr % LineBytes = 0 /\ r.size % LineBytes = 0
    /\ \A q, r \in Regions : q # r => \/ q.addr + q.size <= r.addr
                                      \/ r.addr + r.size <= q.addr

VARIABLES
    image,           \* the blocks of the mappings, as one array of bits
    imem,            \* current mapping
    iline,           \* offset in imem's block of the line iline points at
    iaddr, ioff,     \* address of the line, bit offset into it
    out,             \* what decode_fetch returned last
    at               \* run or exit

vars == <<image, imem, iline, iaddr, ioff, out, at>>

BitAddrs == 0 .. MemSize * ByteBits - 1
Word0    == [i \in 0 .. WordBits - 1 |-> 0]

Running == at = "run"

\* *iline, for an iline that is x bytes into the current block.
LineAt(x) == [i \in 0 .. LineBits - 1 |-> image[(imem.addr + x) * ByteBits + i]]

\* (word)(line >> k) and (word)(line << k).  The count is taken modulo the
\* width of line, as the processors do that the emulator is built for.
ShiftRight(line, k) ==
    LET c == k % LineBits
    IN  [i \in 0 .. WordBits - 1 |-> IF i + c < LineBits THEN line[i + c] ELSE 0]
ShiftLeft(line, k) ==
    LET c == k % LineBits
    IN  [i \in 0 .. WordBits - 1 |-> IF i >= c THEN line[i - c] ELSE 0]
Or(v, w)   == [i \in 0 .. WordBits - 1 |-> IF v[i] = 1 THEN 1 ELSE w[i]]
\* v & ((1 << n) - 1), skipped for a whole word
Low(v, n)  == [i \in 0 .. WordBits - 1 |-> IF i < n THEN v[i] ELSE 0]

\* mem_get(addr, sizeof(icache_t)): the mapping that holds the line, if any.
Holding(x) == {r \in Regions : r.addr <= x /\ x + LineBytes <= r.addr + r.size}

\* do_goto(bitaddr): iaddr is a word, so a bit address is taken modulo the
\* size of memory.
LineOf(t)   == ((t \div LineBits) * LineBytes) % MemSize
OffsetOf(t) == t % LineBits

Init == /\ image = [b \in BitAddrs |-> 0]
        /\ imem \in Regions
        /\ iline = 0 /\ iaddr = imem.addr /\ ioff = 0
        /\ out = Word0
        /\ at = "run"

Goto(t) == /\ Running
           /\ iaddr' = LineOf(t)
           /\ ioff' = OffsetOf(t)
           /\ imem' \in Holding(iaddr')
           /\ iline' = iaddr' - imem'.addr
           /\ UNCHANGED <<image, out, at>>

GotoFault(t) == /\ Running
                /\ iaddr' = LineOf(t)
                /\ ioff' = OffsetOf(t)
                /\ Holding(iaddr') = {}
                /\ at' = "exit"
                /\ UNCHANGED <<image, imem, iline, out>>

-----------------------------------------------------------------------------
(* decode_fetch(n).                                                        *)

\* Mutant of Rest: does not ask whether an align used the line up.
RestUnasked == ShiftRight(LineAt(iline), ioff)

\* What the current line has left; nothing when an align used it up.
Rest == IF ioff = LineBits THEN Word0 ELSE ShiftRight(LineAt(iline), ioff)

\* The field reaches or touches the end of the line.
Crosses(n) == n + ioff >= LineBits

NextLine == Word(iaddr + LineBytes)
\* Mutant of NextLineMapped: one line too far.
NextLineTouches == Word(NextLine - imem.addr) <= imem.size

NextLineMapped == Word(NextLine - imem.addr) < imem.size

FetchInLine(n) ==
    /\ Running /\ ~Crosses(n)
    /\ out' = Low(Rest, n)
    /\ ioff' = ioff + n
    /\ UNCHANGED <<image, imem, iline, iaddr, at>>

FetchAcross(n) ==
    /\ Running /\ Crosses(n) /\ NextLineMapped
    /\ iaddr' = NextLine
    /\ iline' = iline + LineBytes
    /\ out' = Low(Or(Rest, ShiftLeft(LineAt(iline'), LineBits - ioff)), n)
    /\ ioff' = ioff + n - LineBits
    /\ UNCHANGED <<image, imem, at>>

\* "segmentation fault"
FetchFault(n) == /\ Running /\ Crosses(n) /\ ~NextLineMapped
                 /\ iaddr' = NextLine
                 /\ at' = "exit"
                 /\ UNCHANGED <<image, imem, iline, ioff, out>>

\* Mutant of Align: moves on from a byte boundary too.
AlignOn == /\ Running
           /\ ioff' = (ioff \div ByteBits + 1) * ByteBits
           /\ UNCHANGED <<image, imem, iline, iaddr, out, at>>

\* decode_align: ioff may become LineBits.
Align == /\ Running
         /\ ioff' = ((ioff + ByteBits - 1) \div ByteBits) * ByteBits
         /\ UNCHANGED <<image, imem, iline, iaddr, out, at>>

\* mem_write of one byte, anywhere in memory: iline points into the block, so
\* a line is never a copy.
Stored(img) == {x \in Words : \E i \in 0 .. ByteBits - 1 : img[x * ByteBits + i] # 0}

Store(x, p) ==
    /\ Running
    /\ \E r \in Regions : r.addr <= x /\ x < r.addr + r.size
    /\ image' = [b \in BitAddrs |-> IF b \div ByteBits = x
                                    THEN p[b % ByteBits] ELSE image[b]]
    /\ Cardinality(Stored(image')) <= MaxStored
    /\ UNCHANGED <<imem, iline, iaddr, ioff, out, at>>

Exited == at = "exit" /\ UNCHANGED vars

Next == \/ \E n \in FieldSizes : FetchInLine(n) \/ FetchAcross(n) \/ FetchFault(n)
        \/ Align
        \/ \E t \in Targets : Goto(t) \/ GotoFault(t)
        \/ \E x \in Words, p \in Patterns : Store(x, p)
        \/ Exited

Spec == Init /\ [][Next]_vars

-----------------------------------------------------------------------------

\* Types of the variables; ioff may be LineBits, one past the last bit.
TypeOK == /\ image \in [BitAddrs -> {0, 1}]
          /\ imem \in Regions
          /\ iaddr \in Words /\ iline \in 0 .. MemSize - 1 /\ ioff \in 0 .. LineBits
          /\ out \in [0 .. WordBits - 1 -> {0, 1}]
          /\ at \in {"run", "exit"}

\* iline always points at the line of iaddr, whole and inside the block of
\* the current mapping: *iline never reads past the block.
LineInside == /\ Running => iaddr = imem.addr + iline
              /\ iline % LineBytes = 0
              /\ iline + LineBytes <= imem.size

\* decode_fetch, decode_align and do_goto make a stream of bits.
BS == INSTANCE BitStream WITH
        region <- imem,
        pos    <- iaddr * ByteBits + ioff

ImplementsBitStream == BS!Spec

\* "imm(n): nb" and "imm(word): imm(32)" (doc/NOTES.md:25,29): a field of a
\* whole word is the next WordBits bits of the program.
WordIsNextBits ==
    [][FetchAcross(WordBits) =>
         \A i \in 0 .. WordBits - 1 : out'[i] = image[iaddr * ByteBits + ioff + i]]_vars
=============================================================================
