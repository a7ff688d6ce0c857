----------------------------- MODULE Statements -----------------------------
(***************************************************************************)
(* The intermediate code of C statements, as the front end (cc/ncc.c) and  *)
(* cc/int.c make it with -O1 and -O2: what RegAlloc starts from.           *)
(*                                                                         *)
(* Operands are places in the code, from 1; jumps go to labels, which      *)
(* ic_get turns into places.                                               *)
(***************************************************************************)
EXTENDS Integers, Sequences, FiniteSets

LOCAL INSTANCE SequencesExt

NoLabel == <<>>
\* ic_put: a and args are the values an instruction reads, l the local, off and
\* sz the part of it that it accesses, t the target of a jump.
I(op, a) == [op |-> op, a |-> a, l |-> 0, off |-> 0, sz |-> 4, t |-> NoLabel, args |-> <<>>]
Local(op, a, l) == [I(op, a) EXCEPT !.l = l]
To(op, a, t)    == [I(op, a) EXCEPT !.t = t]

\* c, and then d.
c ++ d ==
    LET n == Len(c)
        moved(i) == [i EXCEPT !.a = [k \in DOMAIN @ |-> @[k] + n],
                              !.args = [k \in DOMAIN @ |-> @[k] + n]]
    IN  c \o [k \in DOMAIN d |-> moved(d[k])]
Block(cs) == FoldLeft(LAMBDA c, d : c ++ d, <<>>, cs)

-----------------------------------------------------------------------------
(* Expressions: code and the place of its value.  A local is an address    *)
(* until its value is wanted (ts_de), when o_deref and io_loc make a load. *)

Expr(c, v) == [c |-> c, v |-> v, l |-> 0]
Var(l) == [c |-> <<>>, v |-> 0, l |-> l]
\* A number or the address of a symbol.
Num    == Expr(<<I("num", <<>>)>>, 1)
AddressOf(l) == Expr(<<Local("addr", <<>>, l)>>, 1)

\* ts_pop_de.
Value(e) == IF e.l = 0 THEN e ELSE Expr(<<Local("ldl", <<>>, e.l)>>, 1)

\* ts_pop_de2: both are read, then the second is loaded before the first.
Pair(e, f) ==
    LET n == Len(e.c)
        both == e.c ++ f.c
        g == IF f.l = 0 THEN both ELSE Append(both, Local("ldl", <<>>, f.l))
        h == IF e.l = 0 THEN g ELSE Append(g, Local("ldl", <<>>, e.l))
    IN  [c |-> h, a |-> <<IF e.l = 0 THEN e.v ELSE Len(h), IF f.l = 0 THEN n + f.v ELSE Len(g)>>]

\* Operations, of a value and a number too (io_imm).
Op1(op, e) == LET f == Value(e) IN Expr(Append(f.c, I(op, <<f.v>>)), Len(f.c) + 1)
Unary(e) == Op1("un", e)
Deref(e) == Op1("ld", e)
Binary(e, f) == LET p == Pair(e, f) IN Expr(Append(p.c, I("bop", p.a)), Len(p.c) + 1)

\* o_assign to a local; the value remains on the stack.
AssignPart(l, e, off, sz) ==
    LET f == Value(e)
    IN  Expr(Append(f.c, [Local("stl", <<f.v>>, l) EXCEPT !.off = off, !.sz = sz]), f.v)
Assign(l, e) == AssignPart(l, e, 0, 4)
\* inc_post: the value before.
PostInc(l) == Expr(<<Local("ldl", <<>>, l), Local("ldl", <<>>, l), I("un", <<2>>),
                     Local("stl", <<3>>, l)>>, 1)
Part(l, off, sz) == Expr(<<[Local("ldl", <<>>, l) EXCEPT !.off = off, !.sz = sz]>>, 1)

\* o_call: numbers, and loads behind which no argument stores (ic_load), are
\* loaded at the end, the last argument first.
Late(es, j) ==
    \/ es[j].c = Num.c
    \/ /\ es[j].l # 0
       /\ \A k \in j + 1 .. Len(es) : \A i \in DOMAIN es[k].c : es[k].c[i].op \notin {"stl", "st"}
Arguments(es) ==
    LET now(c, j)  == IF Late(es, j) THEN c ELSE c ++ Value(es[j]).c
        early(n)   == FoldLeft(now, <<>>, [j \in 1 .. n |-> j])
        late(j, c) == IF Late(es, j) THEN c \o Value(es[j]).c ELSE c
        from(n)    == FoldRight(late, [k \in 1 .. Len(es) - n + 1 |-> n + k - 1], early(Len(es)))
    IN  [c |-> from(1),
         v |-> [j \in DOMAIN es |-> IF Late(es, j) THEN Len(from(j))
                                   ELSE Len(early(j - 1)) + Value(es[j]).v]]
Call(es) ==
    LET p == Arguments(es)
    IN  Expr(Append(p.c, [I("callsym", <<>>) EXCEPT !.args = p.v]), Len(p.c) + 1)
\* Through a pointer, whose value comes first.
CallPointer(l, es) ==
    LET p == Arguments(es)
        f == <<Local("ldl", <<>>, l)>> ++ p.c
    IN  Expr(Append(f, [I("call", <<1>>) EXCEPT !.args = [j \in DOMAIN es |-> p.v[j] + 1]]),
             Len(f) + 1)

-----------------------------------------------------------------------------
(* Conditions: o_jz to a label.  io_jmp makes one jump of a comparison and *)
(* the jump behind it.                                                     *)

Label(l)     == To("label", <<>>, l)
Jump(l)      == To("jmp", <<>>, l)
JumpZ(e, l)  == Append(Value(e).c, To("jz", <<Value(e).v>>, l))
JumpGE(e, f, l) == LET p == Pair(e, f) IN Append(p.c, To("jcc", p.a, l))

\* readand and readcexpr, whose value goes through a new local.
And(e, f, l, b) ==
    LET c == Block(<<JumpZ(e, <<b, 1>>), JumpZ(f, <<b, 1>>), Assign(l, Num).c, <<Jump(<<b, 2>>)>>,
                     <<Label(<<b, 1>>)>>, Assign(l, Num).c, <<Label(<<b, 2>>)>>, Value(Var(l)).c>>)
    IN  Expr(c, Len(c))
Conditional(e, f, g, l, b) ==
    LET c == Block(<<JumpZ(e, <<b, 1>>), Assign(l, f).c, <<Jump(<<b, 2>>)>>, <<Label(<<b, 1>>)>>,
                     Assign(l, g).c, <<Label(<<b, 2>>)>>, Value(Var(l)).c>>)
    IN  Expr(c, Len(c))

-----------------------------------------------------------------------------
(* Statements: readstmt.  A statement has the labels <<b, k>>.             *)

StorePointer(p, e) == LET q == Pair(p, e) IN Append(q.c, I("st", <<q.a[2], q.a[1]>>))
\* o_memset and o_memcpy.
Memory(op, e, f) ==
    LET d == e.c ++ f.c
    IN  d \o <<I("num", <<>>), I(op, <<e.v, Len(e.c) + f.v, Len(d) + 1>>)>>
Return(e) == Append(Value(e).c, I("ret", <<Value(e).v>>))

\* A condition ends in a jump: past what it guards, or back (do).
Toward(cond, l) == [cond EXCEPT ![Len(cond)].t = l]
If(cond, s, b) == Block(<<Toward(cond, <<b, 1>>), s, <<Label(<<b, 1>>)>>>>)
IfElse(cond, s, r, b) ==
    Block(<<Toward(cond, <<b, 1>>), s, <<Jump(<<b, 2>>), Label(<<b, 1>>)>>, r, <<Label(<<b, 2>>)>>>>)
While(cond, s, b) ==
    Block(<<<<Label(<<b, 2>>)>>, Toward(cond, <<b, 1>>), s, <<Jump(<<b, 2>>), Label(<<b, 1>>)>>>>)
DoWhile(s, cond, b) == Block(<<<<Label(<<b, 1>>)>>, s, Toward(cond, <<b, 1>>)>>)
\* The increment comes before the body.
For(s, cond, inc, r, b) ==
    Block(<<s, <<Label(<<b, 1>>)>>, Toward(cond, <<b, 2>>), <<Jump(<<b, 3>>), Label(<<b, 4>>)>>, inc,
            <<Jump(<<b, 1>>), Label(<<b, 3>>)>>, r, <<Jump(<<b, 4>>), Label(<<b, 2>>)>>>>)

\* ic_get: labels become places in the code.
Placed(c) ==
    LET place(k) == Cardinality({j \in 1 .. k : c[j].op # "label"})
        target(l) == place(CHOOSE k \in DOMAIN c : c[k].op = "label" /\ c[k].t = l) + 1
        fixed(i) == [i EXCEPT !.a = [k \in DOMAIN @ |-> place(@[k])],
                              !.args = [k \in DOMAIN @ |-> place(@[k])],
                              !.t = IF @ = NoLabel THEN 0 ELSE target(@)]
        ins == SelectSeq(c, LAMBDA i : i.op # "label")
    IN  [k \in DOMAIN ins |-> fixed(ins[k])]

Function(argc, locs, O, c) == [argc |-> argc, locs |-> locs, O |-> O, ic |-> Placed(c)]
=============================================================================
