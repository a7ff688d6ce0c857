------------------------------- MODULE Layout -------------------------------
(***************************************************************************)
(* The last passes of the compiler, for one function after another:        *)
(* ic_get and io_deadcode (cc/int.c) fix the intermediate code and its     *)
(* jump targets, ic_gencode (cc/gen.c) and i_ins (cc/eh3.c) emit it, and   *)
(* i_wrap, i_align, i_shortjumps and i_code (cc/eh3.c) move it around: a   *)
(* prologue comes before it, padding goes in after every call, and every   *)
(* jump is written as short as it fits.  Positions of labels, jumps, calls *)
(* and relocations are kept in tables which every pass has to adjust.      *)
(*                                                                         *)
(* Code is a sequence of bits, as in cs.  A bit is a pair: <<k, j>> is bit *)
(* j of intermediate instruction k, and <<Lit, b>> is a bit whose value b  *)
(* matters: padding, and the size and the value of a jump's immediate.     *)
(* Positions count from 0, as in the code.                                 *)
(***************************************************************************)
EXTENDS Integers, Sequences, FiniteSets, FiniteSetsExt

CONSTANTS
    SIZE_B,          \* bits of a byte, the unit of immediates and of alignment
    Sizes,           \* number of sizes an immediate can have
    SZ_SZ,           \* bits of the field that holds the size
    JumpHead,        \* OP_SZ + JCC_SZ + 1: the bits of a jump before that field
    LabMin,          \* the first capacity of lab_loc, 128 in the code
    Sources, More,   \* the intermediate code that may arrive in ic_get: of the
                     \* first function, and of later ones
    Frames,          \* pairs: bits of a prologue, bits of its epilogue
    MaxFuncs         \* bound: functions compiled

SIZE_W  == Sizes * SIZE_B
LAB_RET == 0
Lit     == -1
Pro     == -2
Epi     == -3
Ops     == {"mov", "add", "movsym", "call", "callsym", "jmp", "jz", "st", "ret"}
Readers == {"add", "call", "jz", "st", "ret"}
\* id is the place of an instruction in the source; no step reads it.
Ins     == [op : Ops, a1 : Nat, a3 : Nat, w : Nat, id : Nat]

\* Powers of two, which the code has as shifts.
Pow2[k \in Nat] == IF k = 0 THEN 1 ELSE 2 * Pow2[k - 1]

ASSUME LayoutAssumption ==
    /\ {SIZE_B, Sizes, SZ_SZ, JumpHead, LabMin} \subseteq Nat \ {0}
    /\ Sizes <= Pow2[SZ_SZ]
    \* An operand is the value of an earlier instruction, a target a place in
    \* the code or its end.
    /\ Sources \cup More \subseteq Seq(Ins)
    /\ \A s \in Sources \cup More : \A i \in DOMAIN s :
          /\ s[i].id = i /\ s[i].a3 <= Len(s)
          /\ s[i].op \in Readers => s[i].a1 < i - 1
          /\ s[i].op = "ret" => s[i].w = 0
    \* The epilogue ends with a jump to LR.
    /\ Frames \subseteq Nat \X (Nat \ {0})

VARIABLES
    pc,
    src, ic,         \* the intermediate code as it came, and as it is emitted
    cs,              \* the code of this function
    lab_loc,         \* positions of labels; its domain is 0 .. lab_sz - 1
    jmps,            \* jmp_off and jmp_dst
    rels, pads,      \* rel_off and pad_off
    jmp_ret,         \* position of the last return jump
    loc,             \* the locals of the running pass
    text,            \* the code of all functions, cs of cc/gen.c
    outDef, outRels, \* position and relocations of the last function, as given
                     \* to out_def and out_rel
    funcs            \* number of functions begun

tables == <<lab_loc, jmps, rels, pads>>
outs   == <<text, outDef, outRels>>
vars   == <<pc, src, ic, cs, tables, jmp_ret, loc, outs, funcs>>

-----------------------------------------------------------------------------
(* Bits.                                                                   *)

Bits(of, n) == [j \in 1 .. n |-> <<of, j>>]

\* o_i(v, n): two's complement, least bit first.
Imm(v, n) == [j \in 1 .. n |-> <<Lit, (v \div Pow2[j - 1]) % 2>>]

\* imm_size: one more byte until what is left is a signed byte.
FitsIn(v, k) == LET y == v \div Pow2[SIZE_B * (k - 1)]
                IN  -Pow2[SIZE_B - 1] <= y /\ y < Pow2[SIZE_B - 1]
ImmSize(v) == SIZE_B * CHOOSE k \in 1 .. Sizes :
                          FitsIn(v, k) /\ \A m \in 1 .. k - 1 : ~FitsIn(v, m)

\* Mutant of Pad: as far past a boundary as before.
PadBack(n) == Imm(0, n % SIZE_B)
\* o_align: the padding that makes n a multiple of a byte.
Pad(n) == Imm(0, (-n) % SIZE_B)

\* Mutant of Over: one bit early.
OverEarly(s, p, t) ==
    [j \in DOMAIN s |-> IF p <= j /\ j < p + Len(t) THEN t[j - p + 1] ELSE s[j]]
\* o_iat: t over the bits of s from position p.
Over(s, p, t) ==
    [j \in DOMAIN s |-> IF p < j /\ j <= p + Len(t) THEN t[j - p] ELSE s[j]]

\* The bits of s from position p up to position q.
Cut(s, p, q) == SubSeq(s, p + 1, q)

-----------------------------------------------------------------------------
(* ic_get: an explicit return unless there is one that no label follows,   *)
(* then io_deadcode.                                                       *)

Jumps(c, i) == c[i].op \in {"jmp", "jz"}
Reads(c, i) == IF c[i].op \in Readers THEN {c[i].a1 + 1} ELSE {}
IsOut(c, i) == c[i].op \in {"mov", "add", "movsym", "call", "callsym"}

NeedsRet(c) == \/ c = <<>> \/ c[Len(c)].op # "ret"
               \/ \E i \in DOMAIN c : Jumps(c, i) /\ c[i].a3 = Len(c)

WithRet(c) ==
    IF NeedsRet(c)
    THEN c \o <<[op |-> "mov", a1 |-> 0, a3 |-> 0, w |-> 1, id |-> Len(c) + 1],
                [op |-> "ret", a1 |-> Len(c), a3 |-> 0, w |-> 0, id |-> Len(c) + 2]>>
    ELSE c

\* Mutant of Live: an operand of a value that is itself only an operand is lost.
LiveDirect(c) == LET effects == {i \in DOMAIN c : ~IsOut(c, i) \/ c[i].op \in {"call", "callsym"}}
                 IN  effects \cup UNION {Reads(c, j) : j \in effects}

\* live[], from the last instruction to the first.
Live(c) ==
    LET live[i \in DOMAIN c] ==
            \/ ~IsOut(c, i) \/ c[i].op \in {"call", "callsym"}
            \/ \E j \in i + 1 .. Len(c) : i \in Reads(c, j) /\ live[j]
    IN  {i \in DOMAIN c : live[i]}

\* nidx[]: the new index of instruction i, or of what follows it if it is dead.
NewIndex(c, i) == Cardinality({j \in Live(c) : j <= i})

Renumbered(c, i) ==
    [c[i] EXCEPT !.a1 = IF Reads(c, i) = {} THEN @ ELSE NewIndex(c, @),
                 !.a3 = IF Jumps(c, i) THEN NewIndex(c, @) ELSE @]

Alive(c) == [k \in 1 .. Cardinality(Live(c)) |->
                LET i == CHOOSE i \in Live(c) : NewIndex(c, i - 1) = k - 1
                IN  Renumbered(c, i)]

-----------------------------------------------------------------------------
(* The tables.                                                             *)

\* lab_add: lab_loc doubles until it has the id; new entries are zero.
Doubled(n) == IF 2 * n < LabMin THEN LabMin ELSE 2 * n
Capacity(n, id) == LET sz[m \in Nat] == IF id < m THEN m ELSE sz[Doubled(m)] IN sz[n]
LabAdd(labs, id, p) ==
    [x \in 0 .. Capacity(Cardinality(DOMAIN labs), id) - 1 |->
        IF x = id THEN p ELSE IF x \in DOMAIN labs THEN labs[x] ELSE 0]

\* The loops "while (at < n && off[at] < this) at++" over the entries at, ..., n:
\* where they stop, if the test holds of those in below.
Stop(below, at, n) == CHOOSE k \in at .. n + 1 : at .. k - 1 \subseteq below /\ k \notin below

LastLab == Cardinality(DOMAIN lab_loc) - 1

Within(k, from, to) == from <= k /\ k < to
ShiftRels(from, to, d) == [r \in DOMAIN rels |-> rels[r] + IF Within(r, from, to) THEN d ELSE 0]
ShiftJmps(from, to, d) ==
    [j \in DOMAIN jmps |-> [jmps[j] EXCEPT !.off = @ + IF Within(j, from, to) THEN d ELSE 0]]
ShiftLabs(from, to, d) ==
    [l \in DOMAIN lab_loc |-> lab_loc[l] + IF Within(l, from, to) THEN d ELSE 0]

-----------------------------------------------------------------------------
(* The steps of a function.                                                *)

NoLocals == [c |-> <<>>, i |-> 1, prev |-> 0, diff |-> 0,
             rel |-> 1, jmp |-> 1, lab |-> LAB_RET + 1, sz |-> <<>>]

Init == /\ pc = "idle"
        /\ src = <<>> /\ ic = <<>> /\ cs = <<>>
        /\ lab_loc = [l \in {} |-> 0] /\ jmps = <<>> /\ rels = <<>> /\ pads = <<>>
        /\ jmp_ret = 0 /\ loc = NoLocals
        /\ text = <<>> /\ outDef = 0 /\ outRels = <<>>
        /\ funcs = 0

\* o_func_beg, and o_func_end up to ic_gencode.
GetCode(s) ==
    /\ pc = "idle" /\ funcs < MaxFuncs
    /\ pc' = "gen"
    /\ src' = s /\ ic' = Alive(WithRet(s))
    /\ loc' = NoLocals
    /\ outDef' = Len(text) /\ outRels' = <<>>
    /\ funcs' = funcs + 1
    /\ UNCHANGED <<cs, tables, jmp_ret, text>>

\* The next instruction of ic_gencode, behind its label.
Emitting(ops) == pc = "gen" /\ loc.i <= Len(ic) /\ ic[loc.i].op \in ops

Emitted(bits) ==
    /\ cs' = cs \o bits
    /\ lab_loc' = LabAdd(lab_loc, loc.i, Len(cs))
    /\ loc' = [loc EXCEPT !.i = @ + 1]
    /\ UNCHANGED <<pc, src, ic, outs, funcs>>

EmitPlain == /\ Emitting({"mov", "add", "st"})
             /\ Emitted(Bits(loc.i - 1, ic[loc.i].w))
             /\ UNCHANGED <<jmps, rels, pads, jmp_ret>>

\* O_MOV | O_SYM: a whole word, to be relocated.
EmitSym == /\ Emitting({"movsym"})
           /\ Emitted(Bits(loc.i - 1, ic[loc.i].w + SIZE_W))
           /\ rels' = Append(rels, Len(cs') - SIZE_W)
           /\ UNCHANGED <<jmps, pads, jmp_ret>>

EmitCall == /\ Emitting({"call"})
            /\ Emitted(Bits(loc.i - 1, ic[loc.i].w))
            /\ pads' = Append(pads, Len(cs'))
            /\ UNCHANGED <<jmps, rels, jmp_ret>>

EmitCallSym == /\ Emitting({"callsym"})
               /\ Emitted(Bits(loc.i - 1, ic[loc.i].w + SIZE_W))
               /\ rels' = Append(rels, Len(cs') - SIZE_W)
               /\ pads' = Append(pads, Len(cs'))
               /\ UNCHANGED <<jmps, jmp_ret>>

\* i_jmp: the offset is "written (and possibly resized) later".
JumpBits(k, w) == Bits(k, JumpHead + w) \o Imm(Sizes - 1, SZ_SZ) \o Imm(0, SIZE_W)

EmitJump == /\ Emitting({"jmp", "jz"})
            /\ Emitted(JumpBits(loc.i - 1, ic[loc.i].w))
            /\ jmps' = Append(jmps, [off |-> Len(cs') - SIZE_W, dst |-> ic[loc.i].a3 + 1])
            /\ UNCHANGED <<rels, pads, jmp_ret>>

EmitRet == /\ Emitting({"ret"})
           /\ Emitted(JumpBits(loc.i - 1, 0))
           /\ jmps' = Append(jmps, [off |-> Len(cs') - SIZE_W, dst |-> LAB_RET])
           /\ jmp_ret' = Len(cs)
           /\ UNCHANGED <<rels, pads>>

\* i_label(ic_n)
Generated == /\ pc = "gen" /\ loc.i = Len(ic) + 1
             /\ lab_loc' = LabAdd(lab_loc, loc.i, Len(cs))
             /\ pc' = "wrap"
             /\ UNCHANGED <<src, ic, cs, jmps, rels, pads, jmp_ret, loc, outs, funcs>>

\* i_wrap: a return at the very end falls through into the epilogue; every
\* table moves on by the length of the prologue.  i_align takes the code over.
EndsInRet == jmp_ret + JumpHead + SZ_SZ + SIZE_W = Len(cs)
Wrap(f) ==
    LET body == IF EndsInRet THEN Cut(cs, 0, jmp_ret) ELSE cs
        left == IF EndsInRet THEN SubSeq(jmps, 1, Len(jmps) - 1) ELSE jmps
        labs == LabAdd(lab_loc, LAB_RET, Len(body))
    IN  /\ pc = "wrap"
        /\ pc' = "align"
        /\ loc' = [NoLocals EXCEPT !.c = Bits(Pro, f[1]) \o body \o Bits(Epi, f[2])]
        /\ cs' = <<>>
        /\ rels' = [r \in DOMAIN rels |-> rels[r] + f[1]]
        /\ jmps' = [j \in DOMAIN left |-> [left[j] EXCEPT !.off = @ + f[1]]]
        /\ lab_loc' = [l \in DOMAIN labs |-> labs[l] + f[1]]
        /\ pads' = [p \in DOMAIN pads |-> pads[p] + f[1]]
        /\ UNCHANGED <<src, ic, jmp_ret, outs, funcs>>

\* Mutant of Below: what lies at the place stays before the padding.
BelowOrAt(x, this) == x <= this
\* i_align: the code up to the next call and its padding.  What lies at the
\* very place stays behind the padding.
Below(x, this) == x < this

AlignStep ==
    /\ pc = "align" /\ loc.i <= Len(pads)
    /\ LET this == pads[loc.i]
           rel  == Stop({r \in DOMAIN rels : Below(rels[r], this)}, loc.rel, Len(rels))
           jmp  == Stop({j \in DOMAIN jmps : Below(jmps[j].off, this)}, loc.jmp, Len(jmps))
           lab  == Stop({l \in DOMAIN lab_loc : Below(lab_loc[l], this)}, loc.lab, LastLab)
           done == cs \o Cut(loc.c, loc.prev, this)
           pad  == Pad(Len(done))
       IN  /\ rels' = ShiftRels(loc.rel, rel, loc.diff)
           /\ jmps' = ShiftJmps(loc.jmp, jmp, loc.diff)
           /\ lab_loc' = ShiftLabs(loc.lab, lab, loc.diff)
           /\ cs' = done \o pad
           /\ loc' = [loc EXCEPT !.rel = rel, !.jmp = jmp, !.lab = lab, !.i = @ + 1,
                                 !.prev = this, !.diff = @ + Len(pad)]
    /\ UNCHANGED <<pc, src, ic, pads, jmp_ret, outs, funcs>>

\* The rest moves on by all the padding; LAB_RET lies behind all of it.
AlignDone ==
    /\ pc = "align" /\ loc.i = Len(pads) + 1
    /\ pc' = "sizes"
    /\ rels' = ShiftRels(loc.rel, Len(rels) + 1, loc.diff)
    /\ jmps' = ShiftJmps(loc.jmp, Len(jmps) + 1, loc.diff)
    /\ lab_loc' = [ShiftLabs(loc.lab, LastLab + 1, loc.diff) EXCEPT ![LAB_RET] = @ + loc.diff]
    /\ cs' = cs \o Cut(loc.c, loc.prev, Len(loc.c))
    /\ loc' = NoLocals
    /\ UNCHANGED <<src, ic, pads, jmp_ret, outs, funcs>>

\* i_shortjumps: the sizes, from the distances before anything is shortened.
\* imm_size ends the program if there is no size for one.
LongDistance(j) == lab_loc[jmps[j].dst] - (jmps[j].off + SIZE_W)
JumpSizes ==
    /\ pc = "sizes"
    /\ \A j \in DOMAIN jmps : \E k \in 1 .. Sizes : FitsIn(LongDistance(j), k)
    /\ pc' = "shrink"
    /\ loc' = [loc EXCEPT !.c = cs, !.sz = [j \in DOMAIN jmps |-> ImmSize(LongDistance(j))]]
    /\ cs' = <<>>
    /\ UNCHANGED <<src, ic, tables, jmp_ret, outs, funcs>>

\* The code up to the next jump, and as much of its immediate as is kept.
ShrinkStep ==
    /\ pc = "shrink" /\ loc.i <= Len(jmps)
    /\ LET this == jmps[loc.i].off
           size == loc.sz[loc.i]
           rel  == Stop({r \in DOMAIN rels : rels[r] <= this}, loc.rel, Len(rels))
           lab  == Stop({l \in DOMAIN lab_loc : lab_loc[l] <= this}, loc.lab, LastLab)
       IN  /\ jmps' = ShiftJmps(loc.i, loc.i + 1, -loc.diff)
           /\ rels' = ShiftRels(loc.rel, rel, -loc.diff)
           /\ lab_loc' = ShiftLabs(loc.lab, lab, -loc.diff)
           /\ cs' = cs \o Cut(loc.c, loc.prev, this + size)
           /\ loc' = [loc EXCEPT !.rel = rel, !.lab = lab, !.i = @ + 1,
                                 !.prev = this + SIZE_W, !.diff = @ + SIZE_W - size]
    /\ UNCHANGED <<pc, src, ic, pads, jmp_ret, outs, funcs>>

ShrinkDone ==
    /\ pc = "shrink" /\ loc.i = Len(jmps) + 1
    /\ pc' = "write"
    /\ rels' = ShiftRels(loc.rel, Len(rels) + 1, -loc.diff)
    /\ lab_loc' = [ShiftLabs(loc.lab, LastLab + 1, -loc.diff) EXCEPT ![LAB_RET] = @ - loc.diff]
    /\ cs' = cs \o Cut(loc.c, loc.prev, Len(loc.c))
    /\ loc' = [NoLocals EXCEPT !.sz = loc.sz]
    /\ UNCHANGED <<src, ic, jmps, pads, jmp_ret, outs, funcs>>

\* Size and offset of the next jump.
Distance(j) == lab_loc[jmps[j].dst] - jmps[j].off - loc.sz[j]
WriteJump ==
    /\ pc = "write" /\ loc.i <= Len(jmps)
    /\ LET off == jmps[loc.i].off
           sz  == loc.sz[loc.i]
       IN  cs' = Over(Over(cs, off - SZ_SZ, Imm(sz \div SIZE_B - 1, SZ_SZ)),
                      off, Imm(Distance(loc.i), sz))
    /\ loc' = [loc EXCEPT !.i = @ + 1]
    /\ UNCHANGED <<pc, src, ic, tables, jmp_ret, outs, funcs>>

\* Mutant of Code: the relocations stay for the next function.
CodeKeepsRels ==
    /\ pc = "write" /\ loc.i = Len(jmps) + 1
    /\ pc' = "idle"
    /\ text' = text \o cs \o Pad(Len(cs))
    /\ outRels' = [r \in DOMAIN rels |-> rels[r] + Len(text)]
    /\ cs' = <<>> /\ jmps' = <<>> /\ pads' = <<>>
    /\ loc' = NoLocals
    /\ UNCHANGED <<src, ic, lab_loc, rels, jmp_ret, outDef, funcs>>

\* The end of i_code, and of o_func_end.  The labels and jmp_ret stay.
Code ==
    /\ pc = "write" /\ loc.i = Len(jmps) + 1
    /\ pc' = "idle"
    /\ text' = text \o cs \o Pad(Len(cs))
    /\ outRels' = [r \in DOMAIN rels |-> rels[r] + Len(text)]
    /\ cs' = <<>> /\ rels' = <<>> /\ jmps' = <<>> /\ pads' = <<>>
    /\ loc' = NoLocals
    /\ UNCHANGED <<src, ic, lab_loc, jmp_ret, outDef, funcs>>

Compiled == pc = "idle" /\ funcs = MaxFuncs /\ UNCHANGED vars

Emit == EmitPlain \/ EmitSym \/ EmitCall \/ EmitCallSym \/ EmitJump \/ EmitRet
Next == \/ \E s \in IF funcs = 0 THEN Sources ELSE More : GetCode(s)
        \/ Emit \/ Generated
        \/ \E f \in Frames : Wrap(f)
        \/ AlignStep \/ AlignDone
        \/ JumpSizes \/ ShrinkStep \/ ShrinkDone \/ WriteJump
        \/ Code \/ Compiled

Spec == Init /\ [][Next]_vars

-----------------------------------------------------------------------------
(* What the finished code of the last function must be.                    *)

Finished == pc = "idle" /\ funcs > 0
Size     == Len(text) - outDef
Bit(p)   == text[outDef + p + 1]
Whole    == WithRet(src)

\* The value of n bits from position p, sign extended.
SignedAt(p, n) ==
    LET sum[k \in 0 .. n] == IF k = 0 THEN 0 ELSE sum[k - 1] + Bit(p + k - 1)[2] * Pow2[k - 1]
    IN  IF Bit(p + n - 1)[2] = 1 THEN sum[n] - Pow2[n] ELSE sum[n]

\* Independently of io_deadcode: the instructions that have an effect, and
\* those whose value such a one reads, directly or not.
Closed(S) == \A j \in S : Reads(Whole, j) \subseteq S
Needed ==
    LET effects == {i \in DOMAIN Whole : ~IsOut(Whole, i) \/ Whole[i].op \in {"call", "callsym"}}
    IN  CHOOSE S \in SUBSET DOMAIN Whole :
            /\ effects \subseteq S /\ Closed(S)
            /\ \A T \in SUBSET S : effects \subseteq T /\ Closed(T) => T = S

\* Where the first bit of source instruction i, or of what comes after it, is.
Arrival(i) == Min({p \in 0 .. Size - 1 :
                      LET k == Bit(p)[1] IN k = Epi \/ (k >= 0 /\ ic[k + 1].id >= i)})
LastBit(k, w) == CHOOSE p \in 0 .. Size - 1 : Bit(p) = <<k, w>>
Present(k)    == \E p \in 0 .. Size - 1 : Bit(p)[1] = k

\* The bits that are not to be read for their value: those of instruction k of c,
\* those of a prologue and its epilogue, and their order.
Real(b)     == b[1] # Lit
Width(c, k) == c[k + 1].w + IF c[k + 1].op \in {"movsym", "callsym"} THEN SIZE_W
                            ELSE IF c[k + 1].op \in {"jmp", "jz", "ret"} THEN JumpHead ELSE 0
BitsOf(c, k) == {<<k, j>> : j \in 1 .. Width(c, k)}
Framing(f)   == {<<Pro, j>> : j \in 1 .. f[1]} \cup {<<Epi, j>> : j \in 1 .. f[2]}
Rank(c, b)   == IF b[1] = Pro THEN -1 ELSE IF b[1] = Epi THEN Len(c) ELSE b[1]
Before(c, a, b) == Rank(c, a) < Rank(c, b) \/ (a[1] = b[1] /\ a[2] < b[2])

\* The immediate of a jump whose head ends at p: its size, and where it ends.
SizeAt(p) == LET sum[k \in 0 .. SZ_SZ] ==
                     IF k = 0 THEN 0 ELSE sum[k - 1] + Bit(p + k)[2] * Pow2[k - 1]
             IN  SIZE_B * (sum[SZ_SZ] + 1)
EndAt(p)  == p + 1 + SZ_SZ + SizeAt(p)
GoesTo(p) == EndAt(p) + SignedAt(p + 1 + SZ_SZ, SizeAt(p))

JumpsIn == {k \in 0 .. Len(ic) - 1 : ic[k + 1].op \in {"jmp", "jz", "ret"} /\ Present(k)}
HeadOf(k) == LastBit(k, JumpHead + ic[k + 1].w)

\* Every jump, decoded from the code as the processor would, goes to the first
\* bit of the instruction its source names (or of what follows it, if that was
\* dead), past any padding; every return goes to the epilogue.  The sizes were
\* chosen before the code between a jump and its target shrank, and still fit:
\* "Distances become (weakly) shorter later on" (cc/eh3.c:993).
JumpsLand == Finished => \A k \in JumpsIn :
    GoesTo(HeadOf(k)) = IF ic[k + 1].op = "ret" THEN Arrival(Len(Whole) + 1)
                        ELSE Arrival(src[ic[k + 1].id].a3 + 1)

\* The code is that of every instruction that is left but the last, a return
\* which the epilogue follows, behind the bits of a prologue and before those of
\* its epilogue: every bit is there once, in order.
WholeCode == Finished =>
    /\ \A p, q \in 0 .. Size - 1 :
          p < q /\ Real(Bit(p)) /\ Real(Bit(q)) => Before(ic, Bit(p), Bit(q))
    /\ \E f \in Frames : {b \in {Bit(p) : p \in 0 .. Size - 1} : Real(b)}
                            = Framing(f) \cup UNION {BitsOf(ic, k) : k \in 0 .. Len(ic) - 2}

\* A function starts at a byte, and so does what runs after a call, as the
\* processor expects (decode_align, emu/emu.c).  No more is skipped than that
\* takes, and nothing else is skipped but the sizes and distances of jumps.
CallsAligned == Finished =>
    LET skipped == {p \in 0 .. Size - 1 : Bit(p)[1] = Lit}
                     \ UNION {HeadOf(k) + 1 .. EndAt(HeadOf(k)) - 1 : k \in JumpsIn}
    IN  /\ outDef % SIZE_B = 0 /\ Size % SIZE_B = 0
        /\ \A k \in 0 .. Len(ic) - 1 :
              ic[k + 1].op \in {"call", "callsym"} =>
                LET end  == LastBit(k, ic[k + 1].w + IF ic[k + 1].op = "call" THEN 0 ELSE SIZE_W) + 1
                    next == Arrival(ic[k + 1].id + 1)
                IN  next % SIZE_B = 0 /\ next - end \in 0 .. SIZE_B - 1
        /\ \A p \in skipped : \E q \in p + 1 .. p + SIZE_B - 1 :
              q % SIZE_B = 0 /\ p .. q - 1 \subseteq skipped

\* The linker is told the place of every word to relocate: those of the symbols,
\* in order, counted from the start of the section.
RelocsHit == Finished =>
    LET syms == {k \in 0 .. Len(ic) - 1 : ic[k + 1].op \in {"movsym", "callsym"}}
    IN  /\ {outRels[r] : r \in DOMAIN outRels} = {outDef + LastBit(k, ic[k + 1].w + 1) : k \in syms}
        /\ \A q, r \in DOMAIN outRels : q < r => outRels[q] < outRels[r]

\* io_deadcode keeps what is needed and nothing else, in order; an operand is
\* still the value of the same instruction, and a jump goes to the same one or
\* to the first that is left of those after it.
NothingLost == pc = "gen" /\ loc.i = 1 =>
    /\ {ic[k].id : k \in DOMAIN ic} = Needed
    /\ \A j, k \in DOMAIN ic : j < k => ic[j].id < ic[k].id
    /\ \A k \in DOMAIN ic : LET s == Whole[ic[k].id] IN
          /\ ic[k].op = s.op /\ ic[k].w = s.w
          /\ Reads(ic, k) # {} => ic[ic[k].a1 + 1].id = s.a1 + 1
          /\ Jumps(ic, k) => \A j \in DOMAIN ic : j <= ic[k].a3 <=> ic[j].id <= s.a3

=============================================================================
