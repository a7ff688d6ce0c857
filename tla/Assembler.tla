----------------------------- MODULE Assembler -----------------------------
(***************************************************************************)
(* codegen of py/asm/codegen.py: the statements of an object's sections    *)
(* become bits.  A jump is as short as its distance allows and a label     *)
(* stands where the code before it ends, so the pass over all sections is  *)
(* repeated until no label moves.  A pass uses the labels it has already   *)
(* passed as they are now, and the others as the last pass left them.      *)
(*                                                                         *)
(* A statement is a record with field k; symbols are strings; an           *)
(* expression is a number, plus a symbol, minus a symbol, either of which  *)
(* may be NoSym.                                                           *)
(***************************************************************************)
EXTENDS Isa, FiniteSets

LOCAL INSTANCE SequencesExt
LOCAL INSTANCE FiniteSetsExt

CONSTANTS
    FIXPOINT_LOOPS   \* passes before the assembler gives up, 1000 in the code

NoSym == ""

Reg(r)        == [t |-> "reg", r |-> r]
Name(w)       == [t |-> "name", w |-> w]
Expr(n, a, s) == [t |-> "expr", n |-> n, a |-> a, s |-> s]
Num(n)        == Expr(n, NoSym, NoSym)
Var(a)        == Expr(0, a, NoSym)

Label(l)       == [k |-> "label", l |-> l]
Inst(op, args) == [k |-> "inst", op |-> op, args |-> args]
Data(unit, xs) == [k |-> "data", unit |-> unit, xs |-> xs]
Alloc(unit, n) == [k |-> "alloc", unit |-> unit, n |-> n]
Align(unit)    == [k |-> "align", unit |-> unit]

VARIABLES
    source,          \* the object's source: its global symbols and sections
    env,             \* symbol -> [sec, off], off in bits
    round, fixed,    \* the pass, and whether no label has moved in it
    secidx, i,       \* the section and the statement that come next
    code, bss,       \* its bits, and the size of uninitialized data, in bits
    starts,          \* history: where each of its statements starts, its own
                     \* padding included; in a finished section also the end
    relocs, exports, \* relocations of this pass, symbols to export
    sections,        \* the sections this pass has finished
    asm              \* run, error, fixpoint (the exception) or done

asmVars == <<source, env, round, fixed, secidx, i, code, bss, starts, relocs, exports,
             sections, asm>>

Stmts == source.sections[secidx].stmts
Stmt  == Stmts[i]

IsLabel(stmt) == stmt.k = "label"
Symbols(src) == UNION {{stmt.l : stmt \in {st \in Range(src.sections[x].stmts) : IsLabel(st)}} :
                          x \in DOMAIN src.sections}
SectionOf(src, l) == CHOOSE x \in DOMAIN src.sections :
                         \E j \in DOMAIN src.sections[x].stmts :
                             src.sections[x].stmts[j] = Label(l)

-----------------------------------------------------------------------------
(* Expressions.  While a statement is being generated, e holds what of the *)
(* state it changes: the code, the relocations, and whether it is good.    *)

\* The value of a symbol of this object; $ is where the statement starts.
Def(l) == IF l = "$" THEN [sec |-> secidx, off |-> Len(code)] ELSE env[l]
Known(l) == l = "$" \/ l \in DOMAIN env

\* Two symbols of one section, a number of units apart, are a number.
Cancels(x, unit) ==
    /\ Known(x.a) /\ Known(x.s) /\ Def(x.a).sec = Def(x.s).sec
    /\ (Def(x.a).off - Def(x.s).off) % unit = 0

\* eval_expr: a number and a symbol, unless a subtracted symbol remains.
Eval(x, unit) ==
    IF x.a # NoSym /\ x.s # NoSym /\ Cancels(x, unit)
    THEN [n |-> x.n + (Def(x.a).off - Def(x.s).off) \div unit, sym |-> NoSym, ok |-> TRUE]
    ELSE [n |-> x.n, sym |-> x.a, ok |-> x.s = NoSym]

\* The comparison of gen_imm and emit_imm.  The bound of a signed number is
\* 1 << (sz - 1) - 1, and shifts come last in Python.
Fits(x, sz, signed) ==
    /\ -(2 ^ (sz - 1)) <= x
    /\ x <= IF signed \/ sz < SIZE_W THEN 2 ^ (sz - 2) ELSE 2 ^ SIZE_W - 1

Emit(e, bs) == [e EXCEPT !.code = @ \o bs]
EmitImm(e, x, sz) == IF Fits(x, sz, FALSE) THEN Emit(e, BitsOf(x, sz))
                                           ELSE [e EXCEPT !.ok = FALSE]
EmitSz(e, sz) == Emit(e, BitsOf(sz \div SIZE_B - 1, SZ_SZ))

Reloc(e, type, sz, l) ==
    [e EXCEPT !.relocs = Append(@, [sec |-> secidx, off |-> Len(e.code), size |-> sz,
                                    type |-> type, sym |-> l])]

\* The first of the sizes x fits, the last one if none.
FirstFit(sizes, fits(_)) ==
    LET good == {k \in DOMAIN sizes : fits(sizes[k])}
    IN  IF good = {} THEN sizes[Len(sizes)] ELSE sizes[Min(good)]

GenName(e, names, w) ==
    LET bits == IF Len(names) = 2 THEN 1 ELSE 2
    IN  Emit(e, BitsOf(CHOOSE v \in 0 .. Len(names) - 1 : names[v + 1] = w, bits))

GenReg(e, x) == Emit(e, BitsOf(x.r, REG_SZ))

GenImm(e, x) ==
    LET v  == Eval(x, SIZE_B)
        sz == FirstFit(<<SIZE_B, SIZE_H, SIZE_T, SIZE_W>>, LAMBDA z : Fits(v.n, z, FALSE))
    IN  IF ~v.ok THEN [e EXCEPT !.ok = FALSE]
        ELSE IF v.sym # NoSym
        THEN EmitImm(Reloc(EmitSz(e, SIZE_W), "abs", SIZE_W, v.sym), v.n, SIZE_W)
        ELSE EmitImm(EmitSz(e, sz), v.n, sz)

\* 0 takes the form of a register, which is shorter.
GenOper(e, x) == IF x = Num(0) THEN GenReg(Emit(e, <<0>>), Reg(ZZ))
                 ELSE IF x.t = "reg" THEN GenReg(Emit(e, <<0>>), x)
                 ELSE GenImm(Emit(e, <<1>>), x)

\* From after the size, at which e.code ends already but for its two bits.
Distance(e, v) == v.n - (Len(e.code) + 2) + IF v.sym = NoSym THEN 0 ELSE Def(v.sym).off

\* gen_jmp: an immediate counts from its own end.
GenJmp(e0, x) ==
    LET e  == Emit(e0, IF x.t = "reg" THEN <<0>> ELSE <<1>>)
        v  == Eval(x, 1)
        d  == Distance(e, v)
        sz == FirstFit(<<SIZE_B, SIZE_H, SIZE_W>>, LAMBDA z : Fits(d - z, z, TRUE))
    IN  IF x.t = "reg" THEN GenReg(e, x)
        ELSE IF ~v.ok THEN [e EXCEPT !.ok = FALSE]
        ELSE IF v.sym # NoSym /\ ~(Known(v.sym) /\ Def(v.sym).sec = secidx)
        THEN EmitImm(Reloc(EmitSz(e, SIZE_W), "rel", SIZE_W, v.sym), v.n - SIZE_W, SIZE_W)
        ELSE EmitImm(EmitSz(e, sz), d - sz, sz)

-----------------------------------------------------------------------------
(* Instructions.                                                           *)

IsNumber(x) == x.t = "expr" /\ x.a = NoSym /\ x.s = NoSym

\* Pseudo instructions, by the operation and the arguments they stand for.
Expand(op, a) ==
    LET zz == Reg(ZZ)
        u  == Name("unsigned")
        s  == Name("signed")
    IN  CASE op = "mov" -> <<"add", <<a[1], zz, a[2]>>>>
          [] op = "neg" -> <<"sub", <<a[1], zz, a[2]>>>>
          [] op = "not" -> <<"xor", <<a[1], a[2], Num(-1)>>>>
          [] op = "nop" -> <<"align", a>>
          [] op = "divmod"  -> <<"divmod", <<u>> \o a>>
          [] op = "div"     -> <<"divmod", <<u, a[1], zz, a[2], a[3]>>>>
          [] op = "mod"     -> <<"divmod", <<u, zz, a[1], a[2], a[3]>>>>
          [] op = "idivmod" -> <<"divmod", <<s>> \o a>>
          [] op = "idiv"    -> <<"divmod", <<s, a[1], zz, a[2], a[3]>>>>
          [] op = "imod"    -> <<"divmod", <<s, zz, a[1], a[2], a[3]>>>>
          [] op = "jnz" -> <<"jne", <<a[1], zz, a[2]>>>>
          [] op \in {"jl", "jle", "jg", "jge"} -> <<op, <<s>> \o a>>
          [] op = "jb"  -> <<"jl", <<u>> \o a>>
          [] op = "jbe" -> <<"jle", <<u>> \o a>>
          [] op = "ja"  -> <<"jg", <<u>> \o a>>
          [] op = "jae" -> <<"jge", <<u>> \o a>>
          [] op = "ret" -> <<"jmp", <<Reg(LR)>>>>
          [] op = "sub" /\ IsNumber(a[3]) -> <<"add", <<a[1], a[2], Num(-a[3].n)>>>>
          [] OTHER -> <<op, a>>

\* What the arguments of an instruction are written as.
Forms(op) ==
    CASE op = "load"   -> <<"ext", "sz", "reg", "reg", "oper">>
      [] op = "store"  -> <<"sz", "reg", "oper", "oper">>
      [] op = "push"   -> <<"oper">>
      [] op = "pop"    -> <<"reg">>
      [] op = "sub"    -> <<"reg", "reg", "reg">>
      [] op = "shr"    -> <<"sign", "reg", "reg", "oper">>
      [] op = "divmod" -> <<"sign", "reg", "reg", "reg", "oper">>
      [] op \in {"call", "jmp"} -> <<"jmp">>
      [] op = "jz"     -> <<"reg", "jmp">>
      [] op \in {"je", "jne"} -> <<"reg", "oper", "jmp">>
      [] op \in {"jl", "jle", "jg", "jge"} -> <<"sign", "reg", "oper", "jmp">>
      [] op \in {"add", "xor", "and", "or", "shl", "mul"} -> <<"reg", "reg", "oper">>
      [] OTHER -> <<>>

Gen(e, form, x) ==
    CASE form = "ext"  -> GenName(e, EXT_NAMES, x.w)
      [] form = "sz"   -> GenName(e, SZ_NAMES, x.w)
      [] form = "sign" -> GenName(e, SIGN_NAMES, x.w)
      [] form = "reg"  -> GenReg(e, x)
      [] form = "oper" -> GenOper(e, x)
      [] form = "jmp"  -> GenJmp(e, x)

Index(names, w) == (CHOOSE v \in DOMAIN names : names[v] = w) - 1
Opcode(op) ==
    IF op \in Range(ALT_NAMES)
    THEN BitsOf(Index(OP_NAMES, "ALT"), OP_SZ) \o BitsOf(Index(ALT_NAMES, op), ALT_SZ)
    ELSE IF op \in Range(JCC_NAMES)
    THEN BitsOf(Index(OP_NAMES, "JCC"), OP_SZ) \o BitsOf(Index(JCC_NAMES, op), JCC_SZ)
    ELSE BitsOf(Index(OP_NAMES, op), OP_SZ)

Aligned(e, unit) == Emit(e, Zeros(Padding(Len(e.code), unit)))

\* call and align end on a byte.
Ends(e, op) == IF op \in {"call", "align"} THEN Aligned(e, SIZE_B) ELSE e

GenInst(e, stmt) ==
    LET x == Expand(stmt.op, stmt.args)
        f == Forms(x[1])
        g == FoldLeft(LAMBDA d, j : Gen(d, f[j], x[2][j]),
                      Emit(e, Opcode(x[1])), [j \in DOMAIN f |-> j])
    IN  Ends(g, x[1])

-----------------------------------------------------------------------------
(* The passes.                                                             *)

NoOffsets(src) == [l \in Symbols(src) |-> [sec |-> SectionOf(src, l), off |-> 0]]
AsmInit(src) ==
    /\ source = src
    /\ env = NoOffsets(src)
    /\ round = 1 /\ fixed = TRUE
    /\ secidx = 1 /\ i = 1
    /\ code = <<>> /\ bss = 0 /\ starts = <<>>
    /\ relocs = <<>> /\ exports = src.globals
    /\ sections = <<>>
    /\ asm = "run"
\* The same of another object.
AsmAgain(src) ==
    /\ source' = src /\ env' = NoOffsets(src)
    /\ round' = 1 /\ fixed' = TRUE /\ secidx' = 1 /\ i' = 1
    /\ code' = <<>> /\ bss' = 0 /\ starts' = <<>>
    /\ relocs' = <<>> /\ exports' = src.globals /\ sections' = <<>>
    /\ asm' = "run"

Generating == asm = "run" /\ secidx <= Len(source.sections) /\ i <= Len(Stmts)
At(k) == Generating /\ Stmt.k = k

\* followed_by_non_alloc
NonAllocAfter(j) == \E m \in j + 1 .. Len(Stmts) : Stmts[m].k \notin {"alloc", "label"}

\* What a label aligns to: the unit of the data or the allocation that comes
\* next in its section, however many instructions stand in between, for the
\* search only ends there.
LabelUnit(j) ==
    LET later == {m \in j + 1 .. Len(Stmts) : Stmts[m].k \in {"data", "alloc"}}
    IN  IF later = {} THEN 1 ELSE Stmts[Min(later)].unit

\* A statement was written as e, and the section holds size more bits.
Put(e, size) ==
    /\ asm' = IF e.ok THEN "run" ELSE "error"
    /\ code' = e.code
    /\ relocs' = e.relocs
    /\ exports' = exports \cup {e.relocs[r].sym : r \in {q \in DOMAIN e.relocs :
                                                          e.relocs[q].sym \in DOMAIN env}}
    /\ bss' = size
    /\ starts' = Append(starts, Len(code))
    /\ i' = i + 1
    /\ UNCHANGED <<source, round, secidx, sections>>

Sofar == [code |-> code, relocs |-> relocs, ok |-> TRUE]

\* align in the middle of a section, align_bss in its uninitialized tail.
AlignedCode(unit) == IF NonAllocAfter(i) THEN Aligned(Sofar, unit) ELSE Sofar
AlignedSize(unit) == IF NonAllocAfter(i) THEN bss ELSE bss + Padding(bss, unit)

\* Mutant of Moved: a label may move without another pass.
MovedNever(off) == fixed
Moved(off) == fixed /\ env[Stmt.l].off = off

PutLabel ==
    /\ At("label")
    /\ LET e    == AlignedCode(LabelUnit(i))
           size == AlignedSize(LabelUnit(i))
           off  == Len(e.code) + size
       IN  /\ Put(e, size)
           /\ fixed' = Moved(off)
           /\ env' = [env EXCEPT ![Stmt.l].off = off]

PutData ==
    /\ At("data")
    /\ LET unit == Stmt.unit
           e    == Aligned(Sofar, unit)
           vs   == [k \in DOMAIN Stmt.xs |-> Eval(Stmt.xs[k], SIZE_B)]
           rs   == [k \in DOMAIN vs |-> [sec |-> secidx, off |-> Len(e.code) + (k - 1) * unit,
                                         size |-> unit, type |-> "abs", sym |-> vs[k].sym]]
       IN  Put([code   |-> e.code \o FlattenSeq([k \in DOMAIN vs |-> BitsOf(vs[k].n, unit)]),
                relocs |-> relocs \o SelectSeq(rs, LAMBDA r : r.sym # NoSym),
                ok     |-> \A k \in DOMAIN vs : vs[k].ok /\ Fits(vs[k].n, unit, FALSE)], bss)
    /\ UNCHANGED <<env, fixed>>

\* Zeros in the middle of a section; they are bytes, whatever the unit.
PutAlloc ==
    /\ At("alloc")
    /\ LET e == AlignedCode(Stmt.unit)
       IN  IF NonAllocAfter(i)
           THEN Put(Emit(e, Zeros(Stmt.n * SIZE_B)), bss)
           ELSE Put(e, AlignedSize(Stmt.unit) + Stmt.n * Stmt.unit)
    /\ UNCHANGED <<env, fixed>>

PutAlign ==
    /\ At("align")
    /\ Put(AlignedCode(Stmt.unit), AlignedSize(Stmt.unit))
    /\ UNCHANGED <<env, fixed>>

PutInst ==
    /\ At("inst")
    /\ Put(GenInst(Sofar, Stmt), bss)
    /\ UNCHANGED <<env, fixed>>

\* PROT_R, with PROT_X for the text and PROT_W for data.
Prot(name) == CASE name = ".text" -> 5
                [] name \in {".data", ".bss"} -> 3
                [] OTHER -> 1

BytesOf(bits) == [k \in 1 .. Len(bits) \div SIZE_B |->
                     ValueOf(SubSeq(bits, (k - 1) * SIZE_B + 1, k * SIZE_B))]

\* The section becomes bytes.
EndSection ==
    /\ asm = "run" /\ secidx <= Len(source.sections) /\ i > Len(Stmts)
    /\ sections' = Append(sections,
           [name   |-> source.sections[secidx].name,
            prot   |-> Prot(source.sections[secidx].name),
            size   |-> (bss + Len(code) + SIZE_B - 1) \div SIZE_B,
            data   |-> BytesOf(Aligned(Sofar, SIZE_B).code),
            starts |-> Append(starts, Len(code))])
    /\ secidx' = secidx + 1 /\ i' = 1
    /\ code' = <<>> /\ bss' = 0 /\ starts' = <<>>
    /\ UNCHANGED <<source, env, round, fixed, relocs, exports, asm>>

\* Exported symbols must be addressable: stand on a byte.
Addressable == \A l \in exports \cap DOMAIN env : env[l].off % SIZE_B = 0

EndRound ==
    /\ asm = "run" /\ secidx > Len(source.sections)
    /\ IF fixed THEN /\ asm' = IF Addressable THEN "done" ELSE "error"
                     /\ UNCHANGED <<round, fixed, secidx, relocs, sections>>
       ELSE IF round = FIXPOINT_LOOPS
       THEN /\ asm' = "fixpoint"
            /\ UNCHANGED <<round, fixed, secidx, relocs, sections>>
       ELSE /\ round' = round + 1 /\ fixed' = TRUE
            /\ secidx' = 1
            /\ relocs' = <<>> /\ sections' = <<>>
            /\ UNCHANGED asm
    /\ UNCHANGED <<source, env, i, code, bss, starts, exports>>

Assemble == \/ PutLabel \/ PutData \/ PutAlloc \/ PutAlign \/ PutInst
            \/ EndSection \/ EndRound

\* The object file; starts and labels are history, the file does not have them.
Object ==
    [sections |-> sections, relocs |-> relocs, labels |-> env,
     symbols  |-> {[name |-> l, sec |-> env[l].sec, off |-> env[l].off \div SIZE_B,
                    bind |-> IF l \in source.globals THEN "global" ELSE "local"] :
                       l \in exports \cap DOMAIN env}]
=============================================================================
