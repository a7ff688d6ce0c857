------------------------------- MODULE Linker -------------------------------
(***************************************************************************)
(* ld of py/ld.py: the sections of all objects are placed in memory, the   *)
(* symbols' addresses are added to the places that name them, which are    *)
(* fields of bits, and the sections become segments.  The number of a      *)
(* section is its place in the list of all sections.                       *)
(***************************************************************************)
EXTENDS Isa, FiniteSets

LOCAL INSTANCE SequencesExt
LOCAL INSTANCE FiniteSetsExt

CONSTANTS BASE_ADDR  \* where the first section goes

VARIABLES
    objs,            \* the objects on the command line
    linked,          \* merged: their sections, symbols and relocations
    next,            \* the next relocation to resolve
    warned,          \* relocations reported as not fitting
    exe,             \* the executable: entry and segments
    ld               \* merge, place, relocate, write, done, or how ld ended:
                     \* died, or crash, an exception nobody catches

linkVars == <<objs, linked, next, warned, exe, ld>>

NoExe == [entry |-> 0, segments |-> <<>>]

LinkInit == /\ objs = <<>>
            /\ linked = [sections |-> <<>>, symbols |-> {}, relocs |-> <<>>]
            /\ next = 1 /\ warned = {}
            /\ exe = NoExe
            /\ ld = "merge"

-----------------------------------------------------------------------------
(* Symbols.                                                                *)

\* lookup(name, object): the object's own local symbol or a global one.  It is
\* the first in the list, where a local can only come before a global of the
\* same name.
Lookup(symbols, name, obj) ==
    LET own == {s \in symbols : s.name = name /\ s.bind = "local" /\ s.obj = obj}
    IN  IF own # {} THEN own
        ELSE {s \in symbols : s.name = name /\ s.bind = "global"}

Merge(obj) ==
    LET n    == Len(linked.sections)
        o    == Len(objs) + 1
        syms == {[name |-> s.name, bind |-> s.bind, off |-> s.off,
                  sec |-> s.sec + n, obj |-> o] : s \in obj.symbols}
    IN  /\ ld = "merge"
        /\ objs' = Append(objs, obj)
        /\ IF \E s \in syms : Lookup(linked.symbols, s.name, o) # {}
           THEN ld' = "died" /\ UNCHANGED linked
           ELSE /\ linked' =
                     [sections |-> linked.sections \o obj.sections,
                      symbols  |-> linked.symbols \cup syms,
                      relocs   |-> linked.relocs \o
                          [r \in DOMAIN obj.relocs |->
                              [sec |-> obj.relocs[r].sec + n, off |-> obj.relocs[r].off,
                               size |-> obj.relocs[r].size, type |-> obj.relocs[r].type,
                               sym |-> obj.relocs[r].sym, obj |-> o]]]
                /\ UNCHANGED ld
        /\ UNCHANGED <<next, warned, exe>>

-----------------------------------------------------------------------------
(* Placement.                                                              *)

\* The sections of one kind after another, each kind in the order given, a
\* new page where the protection changes.
InOrder(secs) ==
    LET named(name) == SelectSeq([x \in DOMAIN secs |-> x], LAMBDA x : secs[x].name = name)
        kinds == {".text", ".data", ".bss"}
    IN  named(".text") \o named(".data") \o named(".bss")
          \o SelectSeq([x \in DOMAIN secs |-> x], LAMBDA x : secs[x].name \notin kinds)

\* Mutant of Placed: no new page.
PlacedTight(secs) ==
    FoldLeft(LAMBDA st, x : [next |-> st.next + secs[x].size,
                             addr |-> [st.addr EXCEPT ![x] = st.next]],
             [next |-> BASE_ADDR, addr |-> [x \in DOMAIN secs |-> 0]], InOrder(secs)).addr
Placed(secs) ==
    FoldLeft(LAMBDA st, x :
                 LET addr == IF secs[x].prot = st.prot THEN st.next ELSE PageUp(st.next)
                 IN  [next |-> addr + secs[x].size, prot |-> secs[x].prot,
                      addr |-> [st.addr EXCEPT ![x] = addr]],
             [next |-> BASE_ADDR, prot |-> 0, addr |-> [x \in DOMAIN secs |-> 0]],
             InOrder(secs)).addr

Place ==
    /\ ld = "merge" /\ objs # <<>>
    /\ LET addr == Placed(linked.sections)
       IN  linked' = [linked EXCEPT !.sections =
                         [x \in DOMAIN @ |-> [name |-> @[x].name, prot |-> @[x].prot,
                                              size |-> @[x].size, data |-> @[x].data,
                                              starts |-> @[x].starts, addr |-> addr[x]]]]
    /\ ld' = "relocate"
    /\ UNCHANGED <<objs, next, warned, exe>>

-----------------------------------------------------------------------------
(* Relocation.                                                             *)

AddrOf(sym) == linked.sections[sym.sec].addr + sym.off

\* REL counts bits from the field, ABS is an address.
Value(r, sym) == IF r.type = "abs" THEN AddrOf(sym)
                 ELSE (AddrOf(sym) - linked.sections[r.sec].addr) * SIZE_B - r.off

\* Mutant of AddByte: the carry is lost between bytes.
AddByteBare(st, k) == LET x == (st.val % 2 ^ SIZE_B) + st.data[k]
                      IN  [val |-> st.val \div 2 ^ SIZE_B, carry |-> x \div 2 ^ SIZE_B,
                           data |-> [st.data EXCEPT ![k] = x % 2 ^ SIZE_B]]
\* The lowest byte of val is added to byte k, and the carry kept for the next.
AddByte(st, k) == LET x == (st.val % 2 ^ SIZE_B) + st.data[k] + st.carry
                  IN  [val |-> st.val \div 2 ^ SIZE_B, carry |-> x \div 2 ^ SIZE_B,
                       data |-> [st.data EXCEPT ![k] = x % 2 ^ SIZE_B]]

\* x or y, for bytes: x may reach one bit into what y keeps.
Or(x, y, bit) == IF (y \div bit) % 2 = 1 /\ x >= bit THEN x + y - bit ELSE x + y

\* The last byte, of which only the lower bits belong to the field.  The sum
\* is not masked again: its carry is or-ed with the bit after the field.
AddBits(st, k, bits) ==
    LET m == 2 ^ bits
        x == (st.val % m) + (st.data[k] % m) + st.carry
    IN  [val |-> st.val \div m, carry |-> x \div m,
         data |-> [st.data EXCEPT ![k] = Or(x, @ - (@ % m), m)]]

Relocated(data, r, val) ==
    LET beg == r.off \div SIZE_B
        end == (r.off + r.size) \div SIZE_B
        bit == (r.off + r.size) % SIZE_B
        st  == FoldLeft(AddByte, [val |-> val * 2 ^ (r.off % SIZE_B), carry |-> 0, data |-> data],
                        [k \in 1 .. end - beg |-> beg + k])
    IN  IF bit = 0 THEN st ELSE AddBits(st, end + 1, bit)

\* Printing the warning looks up the section's name in the last object read.
Relocate ==
    /\ ld = "relocate" /\ next <= Len(linked.relocs)
    /\ LET r    == linked.relocs[next]
           syms == Lookup(linked.symbols, r.sym, r.obj)
           st   == Relocated(linked.sections[r.sec].data, r,
                             Value(r, CHOOSE s \in syms : TRUE))
           warn == st.val # 0 \/ st.carry # 0
       IN  IF syms = {}
           THEN ld' = "died" /\ UNCHANGED <<linked, next, warned>>
           ELSE /\ linked' = [linked EXCEPT !.sections[r.sec].data = st.data]
                /\ warned' = IF warn THEN warned \cup {next} ELSE warned
                /\ ld' = IF warn /\ r.sec > Len(objs[Len(objs)].sections) THEN "crash" ELSE ld
                /\ next' = next + 1
    /\ UNCHANGED <<objs, exe>>

-----------------------------------------------------------------------------
(* The executable.                                                         *)

\* A segment right behind one of the same protection becomes part of it.
Merged(segs, s) ==
    LET prev == segs[Len(segs)]
        end  == prev.addr + prev.size
    IN  IF segs # <<>> /\ end = s.addr /\ prev.prot = s.prot /\ prev.size = Len(prev.data)
        THEN [segs EXCEPT ![Len(segs)] =
                 [@ EXCEPT !.size = @ + s.size, !.data = @ \o s.data]]
        ELSE Append(segs, IF segs = <<>> THEN s
                          ELSE [s EXCEPT !.addr = Max({@, PageUp(end)})])

Segment(x) == [addr |-> linked.sections[x].addr, size |-> linked.sections[x].size,
               prot |-> linked.sections[x].prot, data |-> linked.sections[x].data]

\* The key to sort by names MEM_SIZE, which is not defined, for a section with
\* uninitialized data.  Without one the key is the address.
WriteExe ==
    /\ ld = "relocate" /\ next > Len(linked.relocs)
    /\ LET secs  == linked.sections
           start == Lookup(linked.symbols, "_start", 0)
       IN  IF \E x \in DOMAIN secs : secs[x].size # Len(secs[x].data)
           THEN ld' = "crash" /\ UNCHANGED exe
           ELSE IF start = {}
           THEN ld' = "died" /\ UNCHANGED exe
           ELSE /\ exe' = [entry |-> AddrOf(CHOOSE s \in start : TRUE),
                           segments |-> FoldLeft(Merged, <<>>,
                               [k \in DOMAIN secs |-> Segment(InOrder(secs)[k])])]
                /\ ld' = "done"
    /\ UNCHANGED <<objs, linked, next, warned>>
=============================================================================
