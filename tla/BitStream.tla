----------------------------- MODULE BitStream -----------------------------
(***************************************************************************)
(* What instruction fetch promises: the program is a stream of bits, read  *)
(* field by field from a bit address.  No lines, no line offset.           *)
(***************************************************************************)
EXTENDS Words

CONSTANTS
    ByteBits,        \* bits in a byte
    WordBits,        \* bits in a word, the longest field
    Regions,         \* the mappings: records [addr, size], bytes
    FieldSizes,      \* lengths of the fields of instructions, in bits
    Targets,         \* bit addresses a jump computes, before reduction
    Patterns         \* byte values a store may write

VARIABLES
    image,           \* the contents of memory, bit by bit
    region,          \* the mapping the program runs in
    pos,             \* the program counter, a bit address
    out,             \* the field last fetched
    at               \* run or exit

vars == <<image, region, pos, out, at>>

BitAddrs == 0 .. MemSize * ByteBits - 1
Word0    == [i \in 0 .. WordBits - 1 |-> 0]

HasByte(r, x) == r.addr <= x /\ x < r.addr + r.size
BitsEnd(r)    == (r.addr + r.size) * ByteBits

Init == /\ image = [b \in BitAddrs |-> 0]
        /\ region \in Regions
        /\ pos = region.addr * ByteBits
        /\ out = Word0
        /\ at = "run"

Running == at = "run"

\* The next n bits, least significant first.  A field is good when the bit
\* after it is still in the mapping.
Fetch(n) == /\ Running
            /\ pos + n < BitsEnd(region)
            /\ out' = [i \in 0 .. WordBits - 1 |-> IF i < n THEN image[pos + i] ELSE 0]
            /\ pos' = pos + n
            /\ UNCHANGED <<image, region, at>>

\* A fault ends the program; where the counter stands then does not matter.
FetchFault(n) == /\ Running
                 /\ pos + n >= BitsEnd(region)
                 /\ at' = "exit"
                 /\ pos' \in Nat
                 /\ UNCHANGED <<image, region, out>>

\* Skip to the next byte boundary.
Align == /\ Running
         /\ pos' = ((pos + ByteBits - 1) \div ByteBits) * ByteBits
         /\ UNCHANGED <<image, region, out, at>>

Goto(t) == /\ Running
           /\ pos' = t % (MemSize * ByteBits)
           /\ region' \in Regions /\ HasByte(region', pos' \div ByteBits)
           /\ UNCHANGED <<image, out, at>>

GotoFault(t) == /\ Running
                /\ \A r \in Regions : ~HasByte(r, (t % (MemSize * ByteBits)) \div ByteBits)
                /\ at' = "exit"
                /\ pos' \in Nat
                /\ UNCHANGED <<image, region, out>>

\* A store, which may well hit the code.
Store(x, p) == /\ Running
               /\ \E r \in Regions : HasByte(r, x)
               /\ image' = [b \in BitAddrs |-> IF b \div ByteBits = x
                                               THEN p[b % ByteBits] ELSE image[b]]
               /\ UNCHANGED <<region, pos, out, at>>

Next == \/ \E n \in FieldSizes : Fetch(n) \/ FetchFault(n)
        \/ Align
        \/ \E t \in Targets : Goto(t) \/ GotoFault(t)
        \/ \E x \in Words, p \in Patterns : Store(x, p)
        \/ at = "exit" /\ UNCHANGED vars

Spec == Init /\ [][Next]_vars
=============================================================================
