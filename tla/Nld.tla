-------------------------------- MODULE Nld --------------------------------
(***************************************************************************)
(* From compiled definitions to a loaded program: ELF objects as cc/out.c  *)
(* and py/asm/elf.py write them, ld/nld.c, which pulls members out of      *)
(* archives, places sections, relocates fields of bits and writes an       *)
(* executable, and load_elf of emu/emu.c, which maps it.                   *)
(*                                                                         *)
(* A section is a sequence of bits.  A bit is a triple: <<u, d, j>> is bit *)
(* j of definition d of unit u, which no tool should change, and           *)
(* <<0, 0, b>> is a bit whose value b matters: padding and the fields that *)
(* references are resolved in.                                             *)
(***************************************************************************)
EXTENDS FiniteSetsExt, SequencesExt, Isa

CONSTANTS
    LongLong,        \* bytes of a long long where nld runs
    HdrLen,          \* bytes of the ELF header and MAXPHDRS program headers
    SecAlign,        \* secalign unless -p is given
    OUT_ALIGNMENT,   \* what ncc aligns data to
    MAXOBJS,         \* objects nld takes
    CodeAddr,        \* sec_vaddr[I_CS]
    MMAP_MIN_ADDR,   \* the lowest address the emulator maps
    Links            \* records: files, the objects and archives on the command
                     \* line, and the options strip, paged and data, the address
                     \* given with -md or NoAddr

VARIABLES
    link,            \* one of Links
    files,           \* the files as they are compiled: sequences of objects
    objs,            \* oe.objs
    arg,             \* the next file on the command line
    entry,           \* the next entry of its index, when it is an archive
    added,           \* how many members this round over the index has added
    place,           \* of sections, pairs of object and kind: vaddr and faddr
    phdr,            \* oe.phdr
    faddr,           \* where the next segment goes in the file
    rel,             \* the next relocation: object and number
    elf,             \* the executable: entry point and bytes
    seg,             \* the next segment to load
    mem,             \* the emulator's memory: from addresses to bytes of bits
    st               \* what is done next, or how it ended: loaded, died, fatal
                     \* when a segment cannot be mapped, spins when the file ends

reading == <<arg, entry, added>>
laid    == <<place, phdr, faddr>>
loading == <<seg, mem>>
vars == <<link, files, objs, reading, laid, rel, elf, loading, st>>

NoAddr == -1
Undef  == "undef"

\* Two functions in one.
Joined(f, g)  == [x \in DOMAIN f \cup DOMAIN g |-> IF x \in DOMAIN f THEN f[x] ELSE g[x]]
AlignTo(x, a) == x + Padding(x, a)
Lit(bs)       == [j \in DOMAIN bs |-> <<0, 0, bs[j]>>]
Blank(n)      == Lit(Zeros(n * SIZE_B))
Plain(bits)   == [j \in DOMAIN bits |-> bits[j][3]]

ASSUME NldAssumption ==
    /\ LongLong \in {4, 8}
    /\ {HdrLen, SecAlign, OUT_ALIGNMENT, MAXOBJS, CodeAddr, MMAP_MIN_ADDR} \subseteq Nat \ {0}
    /\ MMAP_MIN_ADDR <= CodeAddr /\ CodeAddr % PageSize = 0
    /\ HdrLen <= PageSize /\ PageSize % SecAlign = 0
    /\ \A l \in Links : l.data \in {NoAddr} \cup {a \in Nat : a % PageSize = 0}

Reference  == [name : STRING, bit : Nat, kind : {"rel", "abs", "dead"}, add : Int]
Definition == [sec : {"cs", "ds", "bss"}, name : STRING, glob : BOOLEAN, len : Nat, refs : Seq(Reference)]
Unit       == [id : Nat, tool : {"ncc", "asm"}, defs : Seq(Definition)]

\* An object has one unit, and no object is given twice.
ASSUME LinksAssumption ==
    \A l \in Links :
        /\ l.files \in Seq([archive : BOOLEAN, units : Seq(Unit)]) /\ l.files # <<>>
        /\ \A f \in DOMAIN l.files : ~l.files[f].archive =>
              /\ Len(l.files[f].units) = 1
              /\ \A g \in DOMAIN l.files : \A m \in DOMAIN l.files[g].units :
                    l.files[g].units[m] = l.files[f].units[1] => g = f

-----------------------------------------------------------------------------
(* Objects.  A unit is a sequence of definitions, functions, data and bss, *)
(* with references to names at given bits.  A reference of kind "dead" is  *)
(* in code that is never emitted: it leaves its name and nothing else.     *)

NoObject == [syms |-> <<[name |-> "", glob |-> TRUE, sec |-> Undef, val |-> 0]>>,
             bits |-> [s \in {"cs", "ds"} |-> <<>>], bss |-> 0,
             rels |-> <<>>, starts |-> <<>>]

SymAt(syms, name) == Min({i \in DOMAIN syms : syms[i].name = name})
Known(syms, name) == \E i \in DOMAIN syms : syms[i].name = name
\* put_sym: a name that is new is an undefined global symbol.
PutSym(syms, name) ==
    IF Known(syms, name) THEN syms
    ELSE Append(syms, [name |-> name, glob |-> TRUE, sec |-> Undef, val |-> 0])

Refs(d)  == {d.refs[k] : k \in {n \in DOMAIN d.refs : d.refs[n].kind # "dead"}}
InField(d, j) == \E r \in Refs(d) : j \in r.bit + 1 .. r.bit + SIZE_W
\* The bits of definition d of unit u; addends are in the fields.
BitsFor(u, d) ==
    [j \in 1 .. u.defs[d].len * SIZE_B |->
        IF ~InField(u.defs[d], j) THEN <<u.id, d, j>>
        ELSE LET r == CHOOSE q \in Refs(u.defs[d]) : j \in q.bit + 1 .. q.bit + SIZE_W
             IN  <<0, 0, BitsOf(Word(r.add), SIZE_W)[j - r.bit]>>]

\* Data and bss are aligned by ncc, nothing is by the assembler.
AlignUnit(u) == IF u.tool = "ncc" THEN OUT_ALIGNMENT ELSE 1
Start(o, sec) == IF sec = "bss" THEN o.bss ELSE Len(o.bits[sec]) \div SIZE_B
\* The assembler exports what is global and what a relocation names.
Exported(u, d) == \/ u.tool = "ncc" \/ d.glob
                  \/ \E n \in DOMAIN u.defs : \E r \in Refs(u.defs[n]) : r.name = d.name

\* o_func_beg, o_dsnew or o_bsnew with its contents; the symbol may be there
\* already, undefined.
Define(u, o, d) ==
    LET def  == u.defs[d]
        syms == PutSym(o.syms, def.name)
        more == IF def.sec = "cs" THEN 0 ELSE Padding(def.len, AlignUnit(u))
        at   == Start(o, def.sec)
        sym  == [name |-> def.name, glob |-> def.glob, sec |-> def.sec, val |-> at]
    IN  [o EXCEPT
            !.syms   = IF Exported(u, def) THEN [syms EXCEPT ![SymAt(syms, def.name)] = sym] ELSE @,
            !.bits   = [s \in DOMAIN @ |-> IF s # def.sec THEN @[s]
                                           ELSE @[s] \o BitsFor(u, d) \o Blank(more)],
            !.bss    = IF def.sec = "bss" THEN @ + def.len + more ELSE @,
            !.starts = Append(@, [sec |-> def.sec, off |-> at])]

\* A reference: o_sym, and o_dsset, or o_func_end for a function.
Refers(u, o, d, r) ==
    LET syms == PutSym(o.syms, r.name)
        new  == [sec |-> o.starts[d].sec, sym |-> SymAt(syms, r.name),
                 off |-> o.starts[d].off * SIZE_B + r.bit, kind |-> r.kind]
    IN  IF r.kind # "dead" THEN [o EXCEPT !.syms = syms, !.rels = Append(@, new)]
        ELSE IF u.tool = "ncc" THEN [o EXCEPT !.syms = syms] ELSE o
Refer(u, o, d) == FoldLeft(LAMBDA q, r : Refers(u, q, d, r), o, u.defs[d].refs)

\* syms_sort: the first misplaced global changes places with the last
\* misplaced local, and so on.  The empty name stays first.
Moved(syms) ==
    LET loc   == {i \in DOMAIN syms : ~syms[i].glob}
        firsts == 2 .. Cardinality(loc) + 1
        left  == SetToSortSeq(firsts \ loc, <)
        right == SetToSortSeq(loc \ firsts, >)
    IN  [i \in DOMAIN syms |->
            IF i \in Range(left) THEN right[CHOOSE k \in DOMAIN left : left[k] = i]
            ELSE IF i \in Range(right) THEN left[CHOOSE k \in DOMAIN right : right[k] = i]
            ELSE i]

\* Mutant of Renumbered: only the relocations of the code are renumbered.
RenumberedCode(mv, r) == IF r.sec = "cs" THEN [r EXCEPT !.sym = mv[@]] ELSE r
\* mvrela
Renumbered(mv, r) == [r EXCEPT !.sym = mv[@]]
Sorted(o) == LET mv == Moved(o.syms)
             IN  [o EXCEPT !.syms = [i \in DOMAIN @ |-> @[mv[i]]],
                           !.rels = [k \in DOMAIN @ |-> Renumbered(mv, @[k])]]

\* bss_len: the end of the last uninitialized data, which is not padded.
BssLen(u, o) == Max({0} \cup {o.starts[d].off + u.defs[d].len :
                                 d \in {n \in DOMAIN u.defs : u.defs[n].sec = "bss"}})

\* ncc meets each definition with its references; the assembler writes all
\* its symbols before the relocations.
Order(u) == [d \in DOMAIN u.defs |-> d]
Bare(u)      == FoldLeft(LAMBDA o, d : Refer(u, Define(u, o, d), d), NoObject, Order(u))
Symbols(u)   == FoldLeft(LAMBDA o, d : Define(u, o, d), NoObject, Order(u))
Assembled(u) == FoldLeft(LAMBDA o, d : Refer(u, o, d), Symbols(u), Order(u))
Object(u) ==
    LET o == IF u.tool = "ncc" THEN Sorted(Bare(u)) ELSE Assembled(u)
    IN  [unit |-> u, syms |-> o.syms, rels |-> o.rels, starts |-> o.starts,
         secs |-> {s \in {"cs", "ds", "bss"} : u.tool = "ncc" \/ Start(o, s) > 0},
         bits |-> o.bits, bss |-> BssLen(u, o), align |-> AlignUnit(u)]

-----------------------------------------------------------------------------
(* Objects and archives.                                                   *)

Init == /\ link \in Links
        /\ files = <<>> /\ objs = <<>>
        /\ arg = 1 /\ entry = 1 /\ added = 0
        /\ place = <<>> /\ phdr = <<>> /\ faddr = 0
        /\ rel = <<1, 1>>
        /\ elf = [entry |-> 0, bytes |-> <<>>]
        /\ seg = 1 /\ mem = <<>>
        /\ st = "compile"

Compile ==
    /\ st = "compile"
    /\ LET us == link.files[Len(files) + 1].units
       IN  files' = Append(files, [n \in DOMAIN us |-> Object(us[n])])
    /\ st' = IF Len(files) + 1 = Len(link.files) THEN "read" ELSE "compile"
    /\ UNCHANGED <<link, objs, reading, laid, rel, elf, loading>>

Globals(o, name) == {i \in DOMAIN o.syms : o.syms[i].glob /\ o.syms[i].name = name}
Defines(o, name) == \E i \in Globals(o, name) : o.syms[i].sec # Undef
\* outelf_find: the objects that define the name, of which it takes the first.
Finders(name)    == {n \in DOMAIN objs : Defines(objs[n], name)}
\* sym_undef
SymUndef(name)   == Finders(name) = {} /\ \E n \in DOMAIN objs : Globals(objs[n], name) # {}

\* The index of an archive: the global names its members define, in order.
Named(index, syms, m) ==
    FoldLeft(LAMBDA q, s : IF s.glob /\ s.sec # Undef THEN Append(q, [name |-> s.name, member |-> m])
                           ELSE q,
             index, syms)
Index(members) ==
    FoldLeft(LAMBDA q, m : Named(q, members[m].syms, m), <<>>, [m \in DOMAIN members |-> m])

\* outelf_add
Add(o) == IF Len(objs) = MAXOBJS THEN st' = "died" /\ UNCHANGED objs
                                 ELSE objs' = Append(objs, o) /\ UNCHANGED st

Reads(archive) == st = "read" /\ arg <= Len(files) /\ link.files[arg].archive = archive
NextFile == arg' = arg + 1 /\ entry' = 1 /\ added' = 0

AddObject == /\ Reads(FALSE)
             /\ Add(files[arg][1])
             /\ NextFile
             /\ UNCHANGED <<link, files, laid, rel, elf, loading>>

\* outelf_ar_link, for one entry of the index.
ArLink ==
    /\ Reads(TRUE)
    /\ LET index == Index(files[arg])
       IN  /\ entry <= Len(index)
           /\ IF SymUndef(index[entry].name)
              THEN Add(files[arg][index[entry].member]) /\ added' = added + 1
              ELSE UNCHANGED <<objs, st, added>>
    /\ entry' = entry + 1
    /\ UNCHANGED <<link, files, arg, laid, rel, elf, loading>>

\* Mutant of AnotherRound: the index is read once.
OneRound == FALSE
\* outelf_archive: while a round has added something.
AnotherRound == added > 0

ArEnd == /\ Reads(TRUE) /\ entry > Len(Index(files[arg]))
         /\ IF AnotherRound THEN entry' = 1 /\ added' = 0 /\ UNCHANGED arg
                            ELSE NextFile
         /\ UNCHANGED <<link, files, objs, laid, rel, elf, loading, st>>

-----------------------------------------------------------------------------
(* Placement.                                                              *)

\* The section of a kind an object may have; code and bss are aligned.
SizeOf(o, kind)  == IF kind = "bss" THEN o.bss ELSE Len(o.bits[kind]) \div SIZE_B
AlignOf(o, kind) == IF kind = "ds" THEN 1 ELSE Max({o.align, 4})

\* Where the sections of a kind begin in a segment that is mapped at base and
\* of which len bytes are taken, and how long they make it.
Pack(os, kind, base, q, n) ==
    LET at == AlignTo(base + q.len, AlignOf(os[n], kind)) - base
    IN  IF kind \in os[n].secs
        THEN [len |-> at + SizeOf(os[n], kind),
              at  |-> [m \in DOMAIN q.at \cup {n} |-> IF m = n THEN at ELSE q.at[m]]]
        ELSE q
Packed(os, kind, base, len) ==
    FoldLeft(LAMBDA q, n : Pack(os, kind, base, q, n), [len |-> len, at |-> <<>>],
             [n \in DOMAIN os |-> n])

\* Mutant of Above: the page in between is left out.
AboveNext(vaddr, len) == vaddr + len
\* The next segment is a page further on in memory than in the file.
Above(vaddr, len) == vaddr + PageSize + len

Align == IF link.paged THEN PageSize ELSE SecAlign

\* link_cs, link_ds and link_bss, in a segment at v and, in the file, at f.
LayOut(kind, v, f, p, filesz, memsz) ==
    /\ place' = Joined(place, [k \in {<<n, kind>> : n \in DOMAIN p.at} |->
                                  [vaddr |-> v + p.at[k[1]],
                                   faddr |-> IF kind = "bss" THEN f ELSE f + p.at[k[1]]]])
    /\ phdr' = Append(phdr, [vaddr |-> v, off |-> f, filesz |-> filesz, memsz |-> memsz])
    /\ faddr' = IF kind = "bss" THEN f ELSE AlignTo(f + memsz, Align)
    /\ UNCHANGED <<link, files, objs, reading, rel, elf, loading>>

\* The headers are part of the first segment, unless they fill pages.
LinkCs ==
    /\ st = "read" /\ arg > Len(files)
    /\ LET hdr == AlignTo(HdrLen, Align)
           p   == Packed(objs, "cs", CodeAddr, hdr % PageSize)
       IN  LayOut("cs", CodeAddr, PageDown(hdr), p, p.len, p.len)
    /\ st' = "ds"

LinkDs ==
    /\ st = "ds"
    /\ LET v   == IF link.data # NoAddr THEN link.data + (faddr % PageSize)
                  ELSE Above(CodeAddr, faddr - phdr[1].off)
           p   == Packed(objs, "ds", v, 0)
           len == AlignTo(p.len, 4)
       IN  LayOut("ds", v, faddr, p, len, len)
    /\ st' = "bss"

LinkBss ==
    /\ st = "bss"
    /\ LET v == Above(phdr[2].vaddr, faddr - phdr[2].off)
           p == Packed(objs, "bss", v, 0)
       IN  LayOut("bss", v, faddr, p, 0, p.len)
    /\ st' = "reloc"

-----------------------------------------------------------------------------
(* Relocation and the executable.                                          *)

AddrIn(n, s) == place[<<n, s.sec>>].vaddr + s.val
FoundAt(name) == LET n == Min(Finders(name))
                     i == Min({k \in Globals(objs[n], name) : objs[n].syms[k].sec # Undef})
                 IN  AddrIn(n, objs[n].syms[i])

\* Mutant of SymVal: a defined name is looked up in all objects as well.
SymValGlobal(n, s) == IF Finders(s.name) = {} THEN AddrIn(n, s) ELSE FoundAt(s.name)
\* symval: a symbol that is defined is the object's own.
SymVal(n, s) == IF s.sec # Undef THEN AddrIn(n, s) ELSE FoundAt(s.name)

\* How many bits the mask has that is shifted in a long long.
Width(off) == Min({SIZE_W, LongLong * SIZE_B - (off % SIZE_B)})

\* val is added to the field at off, without carry out of it.
Resolved(bits, off, val) ==
    LET w   == Width(off)
        new == BitsOf((ValueOf(Plain(SubSeq(bits, off + 1, off + w))) + val) % 2 ^ w, w)
    IN  [j \in DOMAIN bits |-> IF j \in off + 1 .. off + w THEN <<0, 0, new[j - off]>>
                                                           ELSE bits[j]]

\* outelf_reloc_sec, for one relocation.  Those of an object are taken in the
\* order of its source, by the code in that of its sections.
Relocate ==
    /\ st = "reloc" /\ rel[1] <= Len(objs) /\ rel[2] <= Len(objs[rel[1]].rels)
    /\ LET n   == rel[1]
           r   == objs[n].rels[rel[2]]
           s   == objs[n].syms[r.sym]
           val == IF r.kind = "abs" THEN SymVal(n, s)
                  ELSE (SymVal(n, s) - place[<<n, r.sec>>].vaddr) * SIZE_B - r.off
       IN  IF s.sec = Undef /\ Finders(s.name) = {}
           THEN st' = "died" /\ UNCHANGED <<objs, rel>>
           ELSE /\ objs' = [objs EXCEPT ![n].bits[r.sec] = Resolved(@, r.off, Word(val))]
                /\ rel' = <<n, rel[2] + 1>>
                /\ UNCHANGED st
    /\ UNCHANGED <<link, files, reading, laid, elf, loading>>

NextObject == /\ st = "reloc" /\ rel[1] <= Len(objs) /\ rel[2] > Len(objs[rel[1]].rels)
              /\ rel' = <<rel[1] + 1, 1>>
              /\ UNCHANGED <<link, files, objs, reading, laid, elf, loading, st>>

\* What is in the file: the headers, the sections, zeros between them, and
\* tables of symbols behind them unless -s is given.
InFile  == {k \in DOMAIN place : k[2] # "bss" /\ SizeOf(objs[k[1]], k[2]) > 0}
FileEnd == Max({HdrLen} \cup {place[k].faddr + SizeOf(objs[k[1]], k[2]) : k \in InFile}
                        \cup IF link.strip THEN {} ELSE {faddr + 1})
FileByte(a) ==
    LET on == {k \in InFile : a \in place[k].faddr .. place[k].faddr + SizeOf(objs[k[1]], k[2]) - 1}
        k  == CHOOSE x \in on : TRUE
        b  == (a - place[k].faddr) * SIZE_B
    IN  IF on = {} THEN Blank(1) ELSE SubSeq(objs[k[1]].bits[k[2]], b + 1, b + SIZE_B)

\* outelf_write
Write ==
    /\ st = "reloc" /\ rel[1] > Len(objs)
    /\ IF Finders("_start") = {} THEN st' = "died" /\ UNCHANGED elf
       ELSE /\ elf' = [entry |-> FoundAt("_start"),
                       bytes |-> [a \in 0 .. FileEnd - 1 |-> FileByte(a)]]
            /\ st' = "load"
    /\ UNCHANGED <<link, files, objs, reading, laid, rel, loading>>

-----------------------------------------------------------------------------
(* The emulator.                                                           *)

Pages(s)    == PageDown(s.vaddr) .. PageUp(s.vaddr + s.memsz) - 1
Mappable(s) == Pages(s) # {} /\ MMAP_MIN_ADDR <= s.vaddr /\ Pages(s) \cap DOMAIN mem = {}

\* What a block holds before it is written.
Junk == [j \in 1 .. SIZE_B |-> <<0, 0, -1>>]

\* load_elf, for one segment.  Bytes that are not in the file are cleared.
LoadSegment ==
    /\ st = "load" /\ seg <= Len(phdr)
    /\ LET s == phdr[seg]
           byte(a) == IF a \notin s.vaddr .. s.vaddr + s.memsz - 1 THEN Junk
                      ELSE IF a >= s.vaddr + s.filesz THEN Blank(1)
                      ELSE elf.bytes[s.off + a - s.vaddr]
       IN  IF ~Mappable(s) THEN st' = "fatal" /\ UNCHANGED loading
           ELSE IF s.off + s.filesz > FileEnd /\ s.filesz > 0
           THEN st' = "spins" /\ UNCHANGED loading
           ELSE /\ mem' = Joined(mem, [a \in Pages(s) |-> byte(a)])
                /\ seg' = seg + 1
                /\ st' = IF seg = Len(phdr) THEN "loaded" ELSE st
    /\ UNCHANGED <<link, files, objs, reading, laid, rel, elf>>

Rest == st \in {"loaded", "died", "fatal", "spins"} /\ UNCHANGED vars

Next == \/ Compile \/ AddObject \/ ArLink \/ ArEnd
        \/ LinkCs \/ LinkDs \/ LinkBss \/ Relocate \/ NextObject \/ Write
        \/ LoadSegment \/ Rest

Spec == Init /\ [][Next]_vars

-----------------------------------------------------------------------------
(* Properties.                                                             *)

\* The definitions of linked objects, as pairs, and where each is in memory.
Defs(n) == objs[n].unit.defs
All     == {<<n, d>> : n \in DOMAIN objs, d \in 1 .. Max({Len(Defs(n)) : n \in DOMAIN objs})}
Linked  == {q \in All : q[2] \in DOMAIN Defs(q[1])}
Def(q)  == Defs(q[1])[q[2]]
Home(q) == LET s == objs[q[1]].starts[q[2]] IN place[<<q[1], s.sec>>].vaddr + s.off
MemBit(b) == mem[b \div SIZE_B][(b % SIZE_B) + 1]
MemWord(b) == ValueOf([j \in 1 .. SIZE_W |-> MemBit(b + j - 1)[3]])

\* What a name means in unit n: its own definition, or else the global one of
\* the first object linked that has one.
Meant(n, name) ==
    LET named(m) == {q \in Linked : q[1] = m /\ Def(q).name = name}
        has      == {m \in DOMAIN objs : \E q \in named(m) : Def(q).glob}
    IN  CHOOSE q \in named(IF named(n) # {} THEN n ELSE Min(has)) : TRUE

\* In a loaded program every reference, at whatever bit it begins, leads to
\* the definition its name means: to its address, or from the end of the call
\* to it in bits; static names stay in their unit although syms_sort has
\* renumbered the symbols, and the program begins at _start (out.c, lines 102
\* to 142; nld.c, lines 227 to 252 and 336 to 354).
RefsFound ==
    st = "loaded" =>
        /\ \A q \in Linked : \A r \in Refs(Def(q)) :
              LET bit == Home(q) * SIZE_B + r.bit
                  to  == Home(Meant(q[1], r.name))
              IN  MemWord(bit) = Word(r.add + (IF r.kind = "abs" THEN to ELSE to * SIZE_B - bit))
        /\ elf.entry = Home(Meant(0, "_start"))

\* In a loaded program every definition is there as it was compiled, but for
\* the fields of its references, and uninitialized data is there, zero, and
\* of no two definitions (nld.c, lines 463 to 626; load_elf).
SectionsWhole ==
    st = "loaded" =>
        /\ \A q \in Linked : \A j \in 1 .. Def(q).len * SIZE_B :
              LET bit == MemBit(Home(q) * SIZE_B + j - 1)
              IN  IF Def(q).sec = "bss" THEN bit = <<0, 0, 0>>
                  ELSE InField(Def(q), j) \/ bit = <<objs[q[1]].unit.id, q[2], j>>
        /\ \A q, r \in {x \in Linked : Def(x).sec = "bss"} :
              q = r \/ Home(q) + Def(q).len <= Home(r) \/ Home(r) + Def(r).len <= Home(q)

\* Every reference of a loaded program leads to what its name means, whole.
RefsLand == RefsFound /\ SectionsWhole

\* When nld goes on behind an archive, no name is missing that a member of it
\* defines, members needed by members included; and no member is linked
\* twice (nld.c, lines 643 to 707).
ArchiveResolves ==
    /\ [][arg' > arg /\ link.files[arg].archive =>
            \A i \in DOMAIN Index(files[arg]) : ~SymUndef(Index(files[arg])[i].name)]_vars
    /\ [](\A n, m \in DOMAIN objs : objs[n].unit = objs[m].unit => n = m)

\* The code of the linked objects ends with code.
EndsInCode == \E n \in DOMAIN objs :
    /\ "cs" \in objs[n].secs /\ SizeOf(objs[n], "cs") > 0
    /\ \A m \in DOMAIN objs : m > n => "cs" \notin objs[m].secs

\* What nld writes can be loaded: its segments do not overlap by pages and all
\* bytes they count are in the file; unless a segment is empty and begins a
\* page, or symbols were stripped behind padding: data that does not fill its
\* words, or, where there is no data, code that ends with an empty section
\* (outelf_link; load_elf).
SegmentsLoad ==
    /\ st = "fatal" => phdr[seg].memsz = 0 /\ phdr[seg].vaddr % PageSize = 0
    /\ st = "spins" =>
          /\ link.strip /\ phdr[seg].filesz # 0
          /\ \/ seg = 1 /\ phdr[2].filesz = 0 /\ ~EndsInCode
             \/ seg = 2 /\ Packed(objs, "ds", phdr[2].vaddr, 0).len % 4 # 0
=============================================================================
