------------------------------ MODULE RegAlloc ------------------------------
(***************************************************************************)
(* Register allocation in the compiler (cc/reg.c, cc/gen.c): reg_init      *)
(* gives locals a register for the region in which they live, ic_gencode   *)
(* finds registers for the values of each intermediate instruction and     *)
(* moves values and locals between registers and the stack, o_func_end and *)
(* i_wrap (cc/eh3.c) lay out the frame.  The code it makes is then run.    *)
(*                                                                         *)
(* A run does not compute: has[p] is the set of what place p holds the     *)
(* content of, Val(i) for the value of instruction i, Loc(l) for local l,  *)
(* Old(r) for what the caller had in r.  The intermediate code says when   *)
(* those contents change; the code made says where they are copied.  Every *)
(* conditional jump may go either way.                                     *)
(*                                                                         *)
(* Instructions, locals and values count from 1; 0 is no register, no      *)
(* local, no value, -1 in the code.  Offsets are in words.                 *)
(***************************************************************************)
EXTENDS Integers, FiniteSetsExt, SequencesExt

CONSTANTS
    tmpregs, argregs, \* registers in the order in which they are tried, and of
                      \* the arguments
    PERM,             \* the callee-saved ones
    MEM,              \* the scratch register of mcpy, and the operands of both
    FP, LR,
    NTMPS,            \* values that may be live at once, 64 in the code
    Sources           \* functions, as ic_get returns them: see Statements

Regs   == Range(tmpregs)
N_TMPS == Len(tmpregs)
N_ARGS == Len(argregs)
RET    == argregs[1]

ASSUME RegAllocAssumption ==
    /\ tmpregs \in Seq(Nat) /\ Regs = 1 .. N_TMPS
    /\ argregs \in Seq(Regs \ PERM) /\ argregs # <<>> /\ PERM \subseteq Regs
    /\ MEM \in Seq(Regs) /\ Len(MEM) = 4
    /\ FP # LR /\ {FP, LR} \subseteq Nat \ Regs
    /\ NTMPS \in Nat

\* What the front end and ic_get see to: a local takes at least a word, jumps go
\* to instructions, and the last instruction is a return.
ASSUME SourcesAssumption ==
    \A s \in Sources :
        /\ s.argc \in Nat /\ s.locs \in Seq(Nat \ {0})
        /\ s.ic \in Seq([op : STRING, a : Seq(Nat), args : Seq(Nat), l : Nat, off : Nat,
                          sz : Nat, t : Nat])
        /\ s.ic # <<>> /\ s.ic[Len(s.ic)].op = "ret"
        /\ \A i \in DOMAIN s.ic :
              /\ \A k \in DOMAIN s.ic[i].a : s.ic[i].a[k] \in 1 .. i - 1
              /\ s.ic[i].op \in {"addr", "ldl", "stl"} => s.ic[i].l \in 1 .. s.argc + Len(s.locs)
              /\ s.ic[i].op = "stl" => Len(s.ic[i].a) = 1
              /\ s.ic[i].op \in {"jmp", "jz", "jcc"} => s.ic[i].t \in DOMAIN s.ic

VARIABLES
    pc,
    src,     \* ic, argc, the sizes of the other locals, and the option -O
    rgn,     \* live regions of locals
    ra,      \* the state of ic_gencode, with the code made so far
    at,      \* the next step of that code
    has,     \* what the places hold
    set,     \* the locals that have been given a content
    escaped  \* the locals whose address was taken

vars == <<pc, src, rgn, ra, at, has, set, escaped>>

ic     == src.ic
Ins    == DOMAIN ic
Order  == [i \in Ins |-> i]
argc   == src.argc
Locals == 1 .. argc + Len(src.locs)
opt(level) == level <= src.O

JXX   == {"jmp", "jz", "jcc"}
Calls == {"call", "callsym"}
\* O_OUT.  "un" stands for every operation of one register: unary ones, moves
\* and those with an immediate, which the allocator treats alike.
Outs  == {"num", "addr", "un", "bop", "ld", "ldl"} \cup Calls

First(S) == IF S = {} THEN 0 ELSE Min(S)
InRegs(i) == SubSeq(ic[i].args, 1, Min({N_ARGS, Len(ic[i].args)}))
Uses(i) == Range(ic[i].a) \cup Range(ic[i].args)

\* ic_lastuse.
luse(v) == IF \E i \in Ins : v \in Uses(i) THEN Max({i \in Ins : v \in Uses(i)}) ELSE 0

\* ic_bbeg: i begins a basic block.
bbeg(i) == \/ i > 1 /\ ic[i - 1].op \in JXX \cup {"ret"}
           \/ \E j \in Ins : ic[j].op \in JXX /\ ic[j].t = i
EndsBlock(i) == i < Len(ic) /\ bbeg(i + 1)

-----------------------------------------------------------------------------
(* Live regions: reg.c.                                                    *)

Accesses(i, ops, l) == ic[i].op \in ops /\ ic[i].l = l
Touch(ops, l) == {i \in Ins : Accesses(i, ops, l)}

\* Mutant of Pointed: an address may be taken.
PointedPart(l) == \/ ~opt(1)
                  \/ \E i \in Touch({"ldl", "stl"}, l) : ic[i].off # 0 \/ ic[i].sz < 2
\* loc_ptr: the locals that stay in memory.
Pointed(l) ==
    \/ ~opt(1)
    \/ Touch({"addr"}, l) # {}
    \/ LET acc == Touch({"ldl", "stl"}, l)
       IN  \E i \in acc : \/ ic[i].off # 0 \/ ic[i].sz < 2
                          \/ ic[i].sz # ic[Min(acc)].sz
safe(l) == ~Pointed(l)
leaf == \A i \in Ins : ic[i].op \notin Calls

\* Mutant of Before: the sources of jumps are forgotten.
BeforeInLine(l, p) == IF Accesses(p, {"stl"}, l) \/ p = 1 THEN {} ELSE {p - 1}
\* One step back of reg_region: to a store of the local.
Before(l, p) ==
    IF Accesses(p, {"stl"}, l) THEN {}
    ELSE {j \in Ins : ic[j].op \in JXX /\ ic[j].t = p}
         \cup (IF p > 1 /\ ic[p - 1].op # "jmp" THEN {p - 1} ELSE {})

\* reg_region: what its search marks from position i.
Reached(l, i) ==
    LET from[S \in SUBSET Ins] ==
            LET more == S \cup UNION {Before(l, p) : p \in S}
            IN  IF more = S THEN S ELSE from[more]
    IN  from[{i}]

Region(l, beg, end, cnt) == [loc |-> l, beg |-> beg, end |-> end, cnt |-> cnt, reg |-> 0]

Overlap(r, s) == r.beg < s.end /\ r.end > s.beg

\* rgn_add: the regions of a local that it overlaps become one with it.
rgn_add(rs, new) ==
    LET hit   == {k \in DOMAIN rs : rs[k].loc = new.loc /\ Overlap(rs[k], new)}
        left  == [k \in DOMAIN rs |-> IF k \in hit THEN [rs[k] EXCEPT !.loc = 0] ELSE rs[k]]
        free  == {k \in DOMAIN rs : left[k].loc = 0}
        whole == [new EXCEPT !.beg = Min({@} \cup {rs[k].beg : k \in hit}),
                             !.end = Max({@} \cup {rs[k].end : k \in hit}),
                             !.cnt = @ + MapThenSumSet(LAMBDA k : rs[k].cnt, hit)]
    IN  IF free = {} THEN Append(left, whole) ELSE [left EXCEPT ![Min(free)] = whole]

\* reg_regions: a region from each load that no region has yet, and one for each
\* store that none reaches.
Visited(rs, l) ==
    LET loads  == Touch({"ldl"}, l)
        Visit(v, i) ==
            IF i \notin loads \ v.mark THEN v
            ELSE LET r == Reached(l, i)
                 IN  [mark |-> v.mark \cup r,
                      rs |-> rgn_add(v.rs, Region(l, Min(r), Max(r) + 1,
                                                  Cardinality((loads \cap r) \ v.mark)))]
    IN  FoldLeft(Visit, [mark |-> {}, rs |-> rs], Order)
reg_regions(rs, l) ==
    LET seen == Visited(rs, l)
        Dead(qs, i) == IF i \in Touch({"stl"}, l) \ seen.mark
                       THEN rgn_add(qs, Region(l, i, i + 1, 1)) ELSE qs
    IN  FoldLeft(Dead, seen.rs, Order)

\* The regions of all locals: with -O1 the whole function.
Regions ==
    LET Add(rs, l) ==
            IF Pointed(l) \/ l > Max({0} \cup {ic[i].l : i \in Ins}) THEN rs
            ELSE IF opt(2) THEN reg_regions(rs, l)
            ELSE rgn_add(rs, Region(l, 1, Len(ic) + 1, Cardinality(Touch({"ldl", "stl"}, l))))
    IN  FoldLeft(Add, <<>>, [l \in Locals |-> l])

rgn_available(rs, r, reg) == \A k \in DOMAIN rs : rs[k].reg = reg => ~Overlap(rs[k], r)

\* The registers reg_glob may give, the lowest first.
GlobRegs ==
    LET all == {r \in 1 .. N_TMPS - 1 : leaf \/ (r >= 3 /\ r \in PERM)}
    IN  {r \in all : Cardinality({q \in all : q < r}) < Min({N_TMPS \div 2, 4})}

\* reg_glob: the regions with most loads first.
reg_glob(rs) ==
    LET sooner(j, k) == rs[j].cnt > rs[k].cnt \/ (rs[j].cnt = rs[k].cnt /\ j < k)
        srt == [n \in DOMAIN rs |-> CHOOSE k \in DOMAIN rs :
                   Cardinality({j \in DOMAIN rs : sooner(j, k)}) = n - 1]
        Give(qs, k) ==
            LET r    == qs[k]
                free == {g \in GlobRegs : rgn_available(qs, r, g)}
                own  == /\ leaf /\ r.loc <= N_ARGS /\ r.beg = 1
                        /\ rgn_available(qs, r, argregs[r.loc])
            IN  IF r.loc = 0 THEN qs
                ELSE IF own THEN [qs EXCEPT ![k].reg = argregs[r.loc]]
                ELSE IF free = {} THEN qs
                ELSE [qs EXCEPT ![k].reg = Min(free)]
    IN  FoldLeft(Give, rs, srt)

Live(i, r) == r.beg <= i /\ i < r.end
\* reg_lmap: the register of a local at instruction i, and reg_rmap: the local
\* of a register.
reg_lmap(i, l) ==
    LET own == {k \in DOMAIN rgn : rgn[k].loc = l /\ Live(i, rgn[k])}
    IN  IF own = {} THEN 0 ELSE rgn[Min(own)].reg
reg_rmap(i, r) ==
    LET own == {k \in DOMAIN rgn : rgn[k].reg = r /\ Live(i, rgn[k])}
    IN  IF own = {} THEN 0 ELSE rgn[Min(own)].loc

-----------------------------------------------------------------------------
(* Places, and the steps of the code made.                                 *)

R(r)  == <<"r", r>>
Fp(o) == <<"fp", o>>
Sp(o) == <<"sp", o>>

\* loc_off: arguments above the frame pointer and the link register, other
\* locals below.
loc_pos    == FoldLeft(+, 0, src.locs)
loc_off(l) == IF l <= argc THEN 1 + l ELSE -FoldLeft(+, 0, SubSeq(src.locs, 1, l - argc))
Slot(l)    == Fp(loc_off(l))
\* iv_addr.
iv_addr(rank) == Fp(-(loc_pos + rank))

Copy(to, from) == [k |-> "copy", to |-> to, from |-> from]
Part(to, l)    == [k |-> "part", to |-> to, l |-> l]
Do(i, rd, rs)  == [k |-> "do", i |-> i, rd |-> rd, rs |-> rs]

\* In the state g of the allocator: vmap and lmap are what registers are
\* assigned to, live the live values by their place in memory, regs func_regs,
\* mem loc_mem.
Emit(g, step) == [g EXCEPT !.out = Append(@, step)]
UseMem(g, l)  == [g EXCEPT !.mem = @ \cup {l}]
loc_toreg(g, l, reg) == Emit(UseMem(g, l), Copy(R(reg), Slot(l)))
loc_tomem(g, l, reg, whole) ==
    Emit(UseMem(g, l), IF whole THEN Copy(Slot(l), R(reg)) ELSE Part(Slot(l), l))

vreg(g, v) == First({r \in Regs : g.vmap[r] = v})
lreg(g, l) == First({r \in Regs : g.lmap[r] = l})
Free(g)    == {r \in Regs : g.vmap[r] = 0 /\ g.lmap[r] = 0}

\* ra_regscn, ra_regget and ra_regcheap.
regscn(mask) ==
    LET in == {k \in DOMAIN tmpregs : tmpregs[k] \in mask}
    IN  IF in = {} THEN 0 ELSE tmpregs[Min(in)]
regget(g, v, good, ok, bad) ==
    LET am == ok \ bad
        gm == good \cap am
        fits == <<gm \cap Free(g), am \cap Free(g), gm, am>>
        best == First({k \in 1 .. 4 : fits[k] # {}})
    IN  IF vreg(g, v) \in am THEN vreg(g, v)
        ELSE IF best = 0 THEN 0 ELSE regscn(fits[best])
regcheap(g, mask) == regscn({r \in mask \cap Free(g) : r \in g.regs \/ r \notin PERM})

-----------------------------------------------------------------------------
(* Values and locals in registers: gen.c.                                  *)

rank(g, v) == First({k \in 1 .. NTMPS : g.live[k] = v})

\* val_tomem and val_toreg; a value that is not live ends the compiler.
val_tomem(g, v, reg) ==
    Emit([g EXCEPT !.vmax = Max({@, rank(g, v)}), !.died = @ \/ rank(g, v) = 0],
         Copy(iv_addr(rank(g, v)), R(reg)))
val_toreg(g, v, reg) ==
    [Emit(g, Copy(R(reg), iv_addr(rank(g, v)))) EXCEPT !.died = @ \/ rank(g, v) = 0]

ra_spill(g, i, reg) ==
    LET v == g.vmap[reg]
        l == g.lmap[reg]
        h == IF v # 0 THEN val_tomem(g, v, reg) ELSE g
        m == IF l # 0 /\ l = reg_rmap(i, reg) THEN loc_tomem(h, l, reg, TRUE) ELSE h
    IN  [m EXCEPT !.vmap[reg] = 0, !.lmap[reg] = 0]

ra_vsave(g, v, reg) ==
    LET k == rank(g, 0)
    IN  IF k = 0 THEN [g EXCEPT !.died = TRUE]
        ELSE [g EXCEPT !.vmap[reg] = v, !.live[k] = v]

ra_vload(g, i, v, reg) ==
    LET h   == ra_spill(g, i, reg)
        old == vreg(h, v)
        m   == IF old # 0 THEN [Emit(h, Copy(R(reg), R(old))) EXCEPT !.vmap[old] = 0]
               ELSE val_toreg(h, v, reg)
    IN  IF g.vmap[reg] = v THEN g ELSE [m EXCEPT !.vmap[reg] = v]

ra_vdrop(g, v) ==
    LET old == vreg(g, v)
        h == [g EXCEPT !.live = [k \in 1 .. NTMPS |-> IF @[k] = v THEN 0 ELSE @[k]]]
    IN  IF old = 0 THEN h ELSE [h EXCEPT !.vmap[old] = 0]

ra_vmove(g, v, mask) ==
    LET old == vreg(g, v)
        new == regcheap(g, mask)
        h   == IF new # 0 THEN [Emit(g, Copy(R(new), R(old))) EXCEPT !.vmap[new] = v]
               ELSE val_tomem(g, v, old)
    IN  [h EXCEPT !.vmap[old] = 0]

\* i_reg: the registers an operand, and the result, may be in, and those the
\* instruction changes.
Mask(i, k) == CASE ic[i].op = "ret"              -> {RET}
                [] ic[i].op \in {"mset", "mcpy"} -> {MEM[k + 1]}
                [] OTHER                         -> Regs
OutMask(i) == IF ic[i].op \in Calls THEN {RET} ELSE Regs
Changed(i) == CASE ic[i].op \in Calls  -> Regs \ PERM
                [] ic[i].op = "mset"   -> {MEM[2], MEM[4]}
                [] ic[i].op = "mcpy"   -> Range(MEM)
                [] OTHER               -> {}

\* ra_gmask: the registers in which the last user of a value wants it.  A store
\* to a local without a register shifts by -1: no register.
Wants(i, v) == v \in Range(ic[i].a) \cup Range(InRegs(i))
gmask(v) ==
    LET u == First({i \in Ins : Wants(i, v) /\ \A j \in Ins : Wants(j, v) => j <= i})
        k == Max({k \in DOMAIN ic[u].a : ic[u].a[k] = v})
        j == Max({j \in DOMAIN InRegs(u) : InRegs(u)[j] = v})
    IN  IF u = 0 THEN {}
        ELSE IF v \in Range(InRegs(u)) THEN {argregs[j]}
        ELSE IF ic[u].op = "stl" THEN {reg_lmap(u, ic[u].l)} \ {0}
        ELSE Mask(u, k)

\* The value in the register of a local makes room for it.
MakeRoom(g, i, greg, reg) ==
    IF g.vmap[greg] # 0 THEN ra_vmove(g, g.vmap[greg], gmask(g.vmap[greg]) \ {reg}) ELSE g

\* loc_isread: the next access to a local in the block is a load.
isread(i) ==
    LET next == {j \in i + 1 .. Len(ic) : ic[j].op \in {"ldl", "stl", "addr"}}
    IN  /\ next # {} /\ ic[Min(next)].op = "ldl"
        /\ \A j \in i + 1 .. Min(next) : ~bbeg(j)

ra_lload(g, i, l, reg) ==
    LET greg == reg_lmap(i, l)
        old  == lreg(g, l)
        room == MakeRoom(g, i, greg, reg)
        own  == IF greg = 0 THEN g
                ELSE [(IF old = 0 THEN loc_toreg(room, l, greg)
                       ELSE IF old = greg THEN room
                       ELSE [Emit(room, Copy(R(greg), R(old))) EXCEPT !.lmap[old] = 0])
                         EXCEPT !.lmap[greg] = l]
        kept == IF lreg(own, l) = 0 /\ safe(l) /\ isread(i)
                THEN [loc_toreg(own, l, reg) EXCEPT !.lmap[reg] = l] ELSE own
    IN  IF lreg(kept, l) = 0 THEN loc_toreg(kept, l, reg)
        ELSE IF lreg(kept, l) = reg THEN kept
        ELSE Emit(kept, Copy(R(reg), R(lreg(kept, l))))

Whole(i) == ic[i].off = 0 /\ ic[i].sz = 4

ra_lsave(g, i, l, reg) ==
    LET greg == reg_lmap(i, l)
        old  == lreg(g, l)
        lost == IF old = 0 \/ old = greg THEN g ELSE [g EXCEPT !.lmap[old] = 0]
        mem  == loc_tomem(lost, l, reg, Whole(i))
    IN  IF greg # 0
        THEN [Emit(MakeRoom(lost, i, greg, reg), Copy(R(greg), R(reg))) EXCEPT !.lmap[greg] = l]
        ELSE IF mem.lmap[reg] = 0 /\ safe(l) /\ isread(i) THEN [mem EXCEPT !.lmap[reg] = l]
        ELSE mem

AllRegs == [k \in 1 .. N_TMPS |-> k]

\* ra_bbend: values to memory, locals to where the next block expects them.
ValuesOut(g, i) ==
    FoldLeft(LAMBDA h, r : IF h.vmap[r] # 0 THEN ra_spill(h, i, r) ELSE h, g, AllRegs)
LocalsOut(g, i) ==
    FoldLeft(LAMBDA h, r : IF h.lmap[r] \notin {0, reg_rmap(i, r)} THEN ra_spill(h, i, r) ELSE h,
             g, AllRegs)
LocalsIn(g, i) ==
    LET Fetch(h, r) == IF h.lmap[r] = reg_rmap(i, r) THEN h
                       ELSE [loc_toreg(h, reg_rmap(i, r), r) EXCEPT !.lmap[r] = reg_rmap(i, r)]
    IN  FoldLeft(Fetch, g, AllRegs)
ra_bbend(g, i) == LocalsIn(LocalsOut(ValuesOut(g, i), i), i)

-----------------------------------------------------------------------------
(* ra_map: registers for instruction i.                                    *)

\* What no operand may be in: the registers of arguments; before a jump, those
\* which the next block expects to hold a local and which do not yet.
Barred(g, i) ==
    IF ic[i].op \in Calls THEN {argregs[j] : j \in DOMAIN InRegs(i)}
    ELSE IF ic[i].op \in {"jz", "jcc"}
    THEN {r \in Regs : reg_rmap(i, r) # 0 /\ g.lmap[r] # reg_rmap(i, r)}
    ELSE {}

\* Registers for the operands, the second one first, without those of the others.
OperandRegs(g, i) ==
    LET a == ic[i].a
        Get(rs, k) ==
            IF k \notin DOMAIN a THEN rs
            ELSE [rs EXCEPT ![k] = regget(g, a[k], Mask(i, k), Mask(i, k),
                                          Barred(g, i) \cup Range(rs))]
    IN  FoldLeft(Get, [k \in DOMAIN a |-> 0], <<2, 1, 3>>)

\* Registers for the result.  ic_luse is read at the number of a register: past
\* its end anything may be there.
ResultRegs(g, i, rs) ==
    LET n     == Len(rs)
        all   == Barred(g, i) \cup Range(rs)
        fresh == regget(g, i, gmask(i), OutMask(i), {})
        unused(k) == IF k > n \/ rs[k] \notin OutMask(i) THEN {FALSE}
                     ELSE IF rs[k] < Len(ic) THEN {luse(rs[k] + 1) <= i}
                     ELSE BOOLEAN
        first == IF (gmask(i) \cap OutMask(i)) \ all # {} THEN {fresh}
                 ELSE {IF u2 THEN rs[2] ELSE IF u1 THEN rs[1] ELSE fresh :
                           u2 \in unused(2), u1 \in unused(1)}
        other(rd) == (OutMask(i) \ all) \ {rd}
    IN  {IF g.lmap[rd] # 0 /\ other(rd) # {} THEN regget(g, i, gmask(i), other(rd), {}) ELSE rd :
            rd \in first}

\* A load of a local in a register without a value stays there.
InPlace(g, i) == /\ ic[i].op = "ldl" /\ lreg(g, ic[i].l) # 0
                 /\ g.vmap[lreg(g, ic[i].l)] = 0

Map(rd, rs, all, mt) == [rd |-> rd, rs |-> rs, all |-> all, mt |-> mt]
Maps(g, i) ==
    IF InPlace(g, i) THEN {Map(lreg(g, ic[i].l), <<>>, {lreg(g, ic[i].l)}, {})}
    ELSE LET rs  == OperandRegs(g, i)
             rds == IF ic[i].op \in Outs THEN ResultRegs(g, i, rs) ELSE {0}
         IN  {Map(rd, rs, Barred(g, i) \cup Range(rs) \cup {rd} \cup Changed(i), Changed(i)) :
                 rd \in rds}

-----------------------------------------------------------------------------
(* ic_gencode.                                                             *)

\* The arguments of a call: the last first, those on the stack through any
\* register.
PutArgs(g, i, rd) ==
    LET args == ic[i].args
        Put(j, h) ==
            LET rx == IF vreg(h, args[j]) # 0 THEN vreg(h, args[j]) ELSE rd
                m  == ra_vload(h, i, args[j], rx)
            IN  IF j <= N_ARGS THEN ra_vload(h, i, args[j], argregs[j])
                ELSE ra_vdrop(Emit(m, Copy(Sp(j - N_ARGS - 1), R(rx))), args[j])
    IN  FoldRight(Put, [j \in DOMAIN args |-> j],
                  [g EXCEPT !.maxargs = Max({@, Len(args) - N_ARGS})])

LoadOperands(g, i, rs) ==
    FoldLeftDomain(LAMBDA h, k : ra_vload(h, i, ic[i].a[k], rs[k]), g, rs)

\* Values used for the last time are dropped.
DropUsed(g, i) ==
    LET Drop(h, k) == IF h.live[k] # 0 /\ luse(h.live[k]) <= i THEN ra_vdrop(h, h.live[k]) ELSE h
    IN  FoldLeft(Drop, g, [k \in 1 .. NTMPS |-> k])

Spill(g, i, regs) ==
    FoldLeft(LAMBDA h, r : IF r \in regs THEN ra_spill(h, i, r) ELSE h, g, AllRegs)

\* Mutant of SpillChanged: only what the last result left.
SpillResultOnly(g, i, mt) == Spill(g, i, mt \cap {RET})
\* Values in registers that change go to memory; and that of the result's
\* register, unless a local is loaded where it is.
SpillChanged(g, i, mt) == Spill(g, i, mt)
InTheWay(g, i, rd) ==
    IF ic[i].op \notin Outs \/ (ic[i].op = "ldl" /\ g.lmap[rd] = ic[i].l /\ g.vmap[rd] = 0)
    THEN {} ELSE {rd}

\* An instruction begins, its operands are loaded, room is made for what it
\* changes, it is performed, and its result kept.
Begun(g, i, m) ==
    LET h == [g EXCEPT !.regs = @ \cup (m.all \ {0}), !.lab = Append(@, Len(g.out) + 1),
                       !.died = @ \/ 0 \in Range(m.rs) \/ (m.rd = 0 /\ ic[i].op \in Outs)]
    IN  IF ic[i].op \in Calls THEN PutArgs(h, i, m.rd) ELSE h
Ready(g, i, m) == SpillChanged(DropUsed(LoadOperands(g, i, m.rs), i), i, m.mt)
Cleared(g, i, m) ==
    LET h == Spill(g, i, InTheWay(g, i, m.rd))
    IN  IF ic[i].op \in JXX /\ EndsBlock(i) THEN ra_bbend(h, i) ELSE h

Finished(g, i, m) ==
    LET h == IF ic[i].op \in Outs /\ luse(i) > i THEN ra_vsave(g, i, m.rd) ELSE g
        b == IF ic[i].op \notin JXX /\ EndsBlock(i) THEN ra_bbend(h, i) ELSE h
    IN  [b EXCEPT !.i = i + 1]

\* A load changes the value when its copies are made, a store the local before.
Performed(g, i, m) ==
    LET do == Do(i, m.rd, m.rs)
    IN  CASE ic[i].op = "ldl" -> Emit(ra_lload(g, i, ic[i].l, m.rd), do)
          [] ic[i].op = "stl" -> ra_lsave(Emit(g, do), i, ic[i].l, m.rs[1])
          [] ic[i].op = "addr" -> Emit(UseMem(g, ic[i].l), do)
          [] OTHER            -> Emit(g, do)

\* o_func_end up to ic_gencode, and the arguments it loads first.
NoAlloc == [i |-> 1, vmap |-> [r \in Regs |-> 0], lmap |-> [r \in Regs |-> 0],
            live |-> [k \in 1 .. NTMPS |-> 0], regs |-> {}, vmax |-> 0, maxargs |-> 0,
            mem |-> {}, out |-> <<>>, lab |-> <<>>, died |-> FALSE]

FuncEnd(s) ==
    /\ pc = "idle" /\ pc' = "reg"
    /\ src' = s
    /\ UNCHANGED <<rgn, ra, at, has, set, escaped>>

RegInit ==
    /\ pc = "reg" /\ pc' = "arg"
    /\ rgn' = reg_glob(Regions)
    /\ UNCHANGED <<src, ra, at, has, set, escaped>>

ArgsLoaded ==
    LET Load(g, r) ==
            LET l == g.lmap[r]
            IN  IF l \in 1 .. argc /\ (l > N_ARGS \/ r # argregs[l])
                THEN loc_toreg(g, l, r) ELSE g
    IN  FoldLeft(Load, [NoAlloc EXCEPT !.lmap = [r \in Regs |-> reg_rmap(1, r)],
                                       !.regs = {r.reg : r \in Range(rgn)} \ {0}],
                 AllRegs)

LoadArgs ==
    /\ pc = "arg" /\ pc' = "gen"
    /\ ra' = ArgsLoaded
    /\ UNCHANGED <<src, rgn, at, has, set, escaped>>

\* One instruction of ic_gencode.
GenCode ==
    /\ pc = "gen" /\ ~ra.died /\ ra.i <= Len(ic)
    /\ LET i == ra.i
       IN  \E m \in Maps(ra, i) : \E g \in {Begun(ra, i, m)} : \E h \in {Ready(g, i, m)} :
              ra' = Finished(Performed(Cleared(h, i, m), i, m), i, m)
    /\ UNCHANGED <<pc, src, rgn, at, has, set, escaped>>

-----------------------------------------------------------------------------
(* The frame: o_func_end and i_wrap.                                       *)

sargs_last == Max({0} \cup (ra.mem \cap 1 .. argc))
sargs == {argregs[j] : j \in 1 .. Min({N_ARGS, sargs_last})}
sregs == ra.regs \cap PERM
locals_size == IF ra.mem # {} \/ ra.vmax > 0 THEN loc_pos + ra.vmax ELSE 0
sregs_pos == locals_size + Cardinality(sregs)
spsub  == sregs_pos + ra.maxargs
initfp == spsub # 0 \/ ra.mem # {} \/ ~leaf
szloc  == IF spsub # 0 /\ sregs # {} THEN sregs_pos - Cardinality(sregs) ELSE spsub
\* Mutant of szarg: the arguments of calls are forgotten.
NoSzarg == 0
szarg  == IF spsub # 0 /\ sregs # {} THEN spsub - sregs_pos ELSE 0
\* The stack pointer, from the frame pointer, behind the prologue.
SP     == -(szloc + Cardinality(sregs) + szarg)

\* regs_save pushes the highest register first; regs_load pops the lowest first.
Saved(regs, top) == [r \in regs |-> top - Cardinality({q \in regs : q >= r})]
Loaded(regs, sp) == [r \in regs |-> sp + Cardinality({q \in regs : q < r})]
ArgSlots  == Saved(sargs, 2 + Cardinality(sargs))
SaveSlots == Saved(sregs, -szloc)
LoadSlots == Loaded(sregs, SP + szarg)

\* Where a place is, and what is in it: nothing in memory without a frame pointer.
Resolve(p) == IF p[1] = "sp" THEN Fp(SP + p[2]) ELSE p

-----------------------------------------------------------------------------
(* Running the code.                                                       *)

Val(i) == <<"val", i>>
Loc(l) == <<"loc", l>>
Old(r) == <<"old", r>>
Kept   == PERM \cup {FP, LR}

Steps   == Range(ra.out)
Places  == {R(r) : r \in Regs \cup {FP, LR}}
           \cup {Slot(l) : l \in Locals}
           \cup {Fp(SaveSlots[r]) : r \in sregs} \cup {Fp(LoadSlots[r]) : r \in sregs}
           \cup {Fp(ArgSlots[r]) : r \in sargs} \cup {Fp(0), Fp(1)}
           \cup UNION {{Resolve(s.to), Resolve(s.from)} : s \in {s \in Steps : s.k = "copy"}}
\* The j-th argument on the stack, above the frame pointer, LR and the
\* arguments saved.
StackArg(l) == Fp(2 + Cardinality(sargs) + l - N_ARGS - 1)

\* What the places hold behind the prologue.
Linkage(r) == Fp(IF r = FP THEN 0 ELSE 1)
Entry ==
    [p \in Places |->
        {Loc(l) : l \in {l \in 1 .. argc : IF l <= N_ARGS THEN p = R(argregs[l])
                                           ELSE p = StackArg(l)}}
        \cup {Old(r) : r \in {r \in Kept : p = R(r) /\ ~(r = FP /\ initfp)}}
        \cup {Old(r) : r \in {r \in {FP, LR} : initfp /\ p = Linkage(r)}}
        \cup {Old(r) : r \in {r \in sregs : p = Fp(SaveSlots[r])}}
        \cup {Loc(l) : l \in {l \in 1 .. argc : /\ l <= N_ARGS /\ argregs[l] \in sargs
                                                /\ p = Fp(ArgSlots[argregs[l]])}}]

Begin ==
    /\ pc = "gen" /\ ~ra.died /\ ra.i > Len(ic) /\ pc' = "run"
    /\ at' = 1 /\ has' = Entry
    /\ set' = 1 .. argc /\ escaped' = {}
    /\ UNCHANGED <<src, rgn, ra>>

Running(k) == pc = "run" /\ ra.out[at].k = k
step == ra.out[at]
Doing(ops) == Running("do") /\ ic[step.i].op \in ops

MoveTo(to, names) == has' = [has EXCEPT ![Resolve(to)] = names]
Content(p) == IF p[1] # "r" /\ ~initfp THEN {} ELSE has[Resolve(p)]
Move ==
    /\ \/ Running("copy") /\ MoveTo(step.to, Content(step.from))
       \/ Running("part") /\ MoveTo(step.to, {Loc(step.l)})
    /\ at' = at + 1
    /\ UNCHANGED <<pc, src, rgn, ra, set, escaped>>

\* A new content: no place holds it but those in ps.
Renew(h, name, ps) ==
    [p \in DOMAIN h |-> IF p \in ps THEN h[p] \cup {name} ELSE h[p] \ {name}]
Holding(name) == {p \in DOMAIN has : name \in has[p]}
Clobber(h, ps) == [p \in DOMAIN h |-> IF p \in ps THEN {} ELSE h[p]]
\* The instruction gives a value to rd.
Result(h) == Renew(Clobber(h, {R(step.rd)}), Val(step.i), {R(step.rd)})

Compute ==
    /\ Doing({"num", "un", "bop", "ld", "addr"})
    /\ has' = Result(has)
    /\ escaped' = escaped \cup (IF ic[step.i].op = "addr" THEN {ic[step.i].l} ELSE {})
    /\ at' = at + 1
    /\ UNCHANGED <<pc, src, rgn, ra, set>>

\* A local that nothing was stored to has no content to load.
LoadLocal ==
    /\ Doing({"ldl"})
    /\ LET l == ic[step.i].l
       IN  /\ pc' = IF l \in set THEN "run" ELSE "undefined"
           /\ has' = IF Whole(step.i) THEN Renew(has, Val(step.i), Holding(Loc(l)))
                     ELSE Result(has)
    /\ at' = at + 1
    /\ UNCHANGED <<src, rgn, ra, set, escaped>>

StoreLocal ==
    /\ Doing({"stl"})
    /\ LET l == ic[step.i].l
       IN  /\ has' = Renew(has, Loc(l), IF Whole(step.i) THEN Holding(Val(ic[step.i].a[1]))
                                        ELSE {})
           /\ set' = set \cup {l}
    /\ at' = at + 1
    /\ UNCHANGED <<pc, src, rgn, ra, escaped>>

\* A store through a pointer may change any local whose address was taken.
Written(h, ls) ==
    [p \in DOMAIN h |-> (h[p] \ {Loc(l) : l \in ls})
                            \cup {Loc(l) : l \in {l \in ls : p = Slot(l)}}]
StorePointer ==
    /\ Doing({"st", "mset", "mcpy"})
    /\ \E ls \in SUBSET escaped :
          /\ has' = Written(Clobber(has, {R(r) : r \in Changed(step.i)}), ls)
          /\ set' = set \cup ls
    /\ at' = at + 1
    /\ UNCHANGED <<pc, src, rgn, ra, escaped>>

\* So may a function; its registers, its arguments and LR are its own.
Call ==
    /\ Doing(Calls)
    /\ \E ls \in SUBSET escaped :
          /\ LET own == {R(r) : r \in (Regs \ PERM) \cup {LR}}
                        \cup {p \in DOMAIN has : p[1] = "fp" /\ p[2] < SP + Max({0, Len(ic[step.i].args) - N_ARGS})}
             IN  has' = Written(Result(Clobber(has, own)), ls)
          /\ set' = set \cup ls
    /\ at' = at + 1
    /\ UNCHANGED <<pc, src, rgn, ra, escaped>>

Jump ==
    /\ Doing(JXX)
    /\ \/ at' = ra.lab[ic[step.i].t]
       \/ ic[step.i].op # "jmp" /\ at' = at + 1
    /\ UNCHANGED <<pc, src, rgn, ra, has, set, escaped>>

\* The epilogue.
Return ==
    /\ Doing({"ret"})
    /\ pc' = "done"
    /\ has' = [p \in DOMAIN has |->
                  IF \E r \in sregs : p = R(r)
                  THEN has[Fp(LoadSlots[CHOOSE r \in sregs : p = R(r)])]
                  ELSE IF initfp /\ p = R(LR) THEN has[Linkage(LR)]
                  ELSE IF initfp /\ p = R(FP) THEN has[Linkage(FP)] ELSE has[p]]
    /\ UNCHANGED <<src, rgn, ra, at, set, escaped>>

\* One function is enough: nothing is kept for the next.
Stop == pc \in {"done", "undefined"} /\ UNCHANGED vars

Init ==
    /\ pc = "idle"
    /\ src = [ic |-> <<>>, argc |-> 0, locs |-> <<>>, O |-> 0]
    /\ rgn = <<>> /\ ra = NoAlloc
    /\ at = 0 /\ has = <<>> /\ set = {} /\ escaped = {}

Next ==
    \/ \E s \in Sources : FuncEnd(s)
    \/ RegInit \/ LoadArgs \/ GenCode
    \/ Begin
    \/ Move \/ Compute \/ LoadLocal \/ StoreLocal \/ StorePointer \/ Call \/ Jump \/ Return
    \/ Stop

Spec == Init /\ [][Next]_vars

-----------------------------------------------------------------------------
(* Properties.                                                             *)

HoldsAll(vs, ps) == \A k \in DOMAIN vs : Val(vs[k]) \in has[ps[k]]

\* Every instruction finds its operands, and every call its arguments, in the
\* registers and on the stack where the code made for it looks: whatever was
\* spilled, moved, dropped or fetched since, on every path.
OperandsHeld ==
    Running("do") =>
        LET args == ic[step.i].args
        IN  /\ HoldsAll(ic[step.i].a, [k \in DOMAIN step.rs |-> R(step.rs[k])])
            /\ HoldsAll(args, [j \in DOMAIN args |-> IF j <= N_ARGS THEN R(argregs[j])
                                                     ELSE Fp(SP + j - N_ARGS - 1)])

\* "load the value of local loc into register reg" (gen.c:482): what a load
\* leaves in its register is what was last stored to the local.
LoadGivesLocal ==
    Doing({"ldl"}) => (ic[step.i].l \in set => Loc(ic[step.i].l) \in has[R(step.rd)])

\* An instruction or a function that reads through a pointer finds every local
\* whose address was taken in its place on the stack.
PointersSeeLocals ==
    Doing({"ld", "mcpy"} \cup Calls) => \A l \in escaped \cap set : Loc(l) \in has[Slot(l)]

\* A function returns with the callee-saved registers and LR of its caller.
CallerKept == pc = "done" => \A r \in Kept : Old(r) \in has[R(r)]
=============================================================================
