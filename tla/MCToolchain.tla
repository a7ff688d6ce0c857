---------------------------- MODULE MCToolchain ----------------------------
EXTENDS Toolchain

LOCAL INSTANCE SequencesExt

U     == Name("unsigned")
S     == Name("signed")
A0    == Reg(1)
A1    == Reg(2)
A2    == Reg(3)
S0    == Reg(5)
Fp    == Reg(13)
Sp    == Reg(SP)
Lr    == Reg(LR)
zz    == Reg(ZZ)

I(op, args) == Inst(op, args)
TextSec(stmts) == [name |-> ".text", stmts |-> stmts]
DataSec(stmts) == [name |-> ".data", stmts |-> stmts]
Obj(globals, secs) == [globals |-> globals, sections |-> secs]
One(stmts) == <<Obj({"_start"}, <<TextSec(<<Label("_start")>> \o stmts)>>)>>

\* Instructions of 17, 19 and 31 bits, and alignment.
Fillers == {I("mov", <<S0, A1>>), I("mov", <<S0, Num(1)>>), I("mov", <<S0, Num(300)>>),
            I("nop", <<>>)}
Between(n) == UNION {[1 .. k -> Fillers] : k \in 0 .. n}

\* A loop and two jumps over each other's targets, with code of any length
\* in between.
Jumping(x, y, z) == One(
    <<I("mov", <<A0, Num(2)>>), Label(".l"), I("sub", <<A0, A0, Num(1)>>)>> \o x \o
    <<I("jz", <<A0, Var(".out")>>)>> \o y \o
    <<I("je", <<A0, Num(0), Var(".end")>>), I("jmp", <<Var(".l")>>), Label(".out")>> \o z \o
    <<Label(".end"), I("halt", <<>>)>>)
Jumps == {Jumping(x, y, z) : x \in Between(1), y \in Between(3), z \in Between(1)}

\* Calls within an object and between two; the functions save LR, and both
\* objects have a local label and data of the same name.
CallsOut(x) ==
    <<Obj({"_start"},
          <<TextSec(<<Label("_start"), I("mov", <<Sp, Sp>>)>> \o x \o
                    <<I("call", <<Var("f")>>), I("mov", <<S0, A0>>),
                      I("load", <<Name("zx"), Name("half"), A1, zz, Var("d")>>),
                      I("load", <<Name("sx"), Name("byte"), A2, zz, Var("d")>>),
                      I("store", <<Name("word"), zz, Var("w"), S0>>),
                      I("call", <<Var("h")>>), I("halt", <<>>), Label("h")>> \o x \o
                    <<I("ret", <<>>)>>),
            DataSec(<<Label("d"), Data(SIZE_B, <<Num(-5), Num(3)>>),
                      Label("w"), Data(SIZE_W, <<Num(77), Expr(2, "d", NoSym)>>)>>)>>),
      Obj({"f"},
          <<TextSec(<<Label("f"), I("push", <<Lr>>), I("push", <<Num(7)>>),
                      I("pop", <<A1>>), I("mov", <<A0, Var("d")>>),
                      I("load", <<Name("zx"), Name("word"), A0, A0, Num(4)>>),
                      I("pop", <<Lr>>), I("ret", <<>>)>>),
            DataSec(<<Label("d"), Data(SIZE_W, <<Num(5), Num(600)>>)>>)>>)>>

\* Every operation, on numbers around zero and the sign bit.
Numbers == {0, 1, 7, 40000, 65535}
Arith(x, y) == One(
    <<I("mov", <<A0, Num(x)>>), I("mov", <<A1, Num(y)>>)>> \o
    FlattenSeq([k \in 1 .. 6 |->
        <<I(<<"add", "and", "or", "xor", "shl", "sub">>[k], <<Reg(5 + k), A0, A1>>)>>]) \o
    <<I("add", <<A2, A0, Num(y)>>), I("sub", <<A2, A2, Num(y % 100)>>),
      I("shr", <<U, A2, A0, A1>>), I("shr", <<S, A2, A0, Num(3)>>), I("neg", <<A2, A0>>),
      I("not", <<A2, A0>>), I("mul", <<A2, A0, Num(3)>>),
      I("divmod", <<Reg(5), Reg(6), A0, A1>>), I("div", <<A2, A0, A1>>),
      I("mod", <<A2, A0, A1>>), I("idivmod", <<Reg(5), Reg(6), A0, A1>>),
      I("idiv", <<A2, A0, A1>>), I("imod", <<A2, A0, A1>>), I("halt", <<>>)>>)

\* Every comparison, each jumping over an instruction or not, and a jump by
\* distance to the instruction after it.
Compares == <<"je", "jne", "jl", "jle", "jg", "jge", "jb", "jbe", "ja", "jae">>
Ahead    == <<".1", ".2", ".3", ".4", ".5", ".6", ".7", ".8", ".9", ".a">>
Compared(x, y) == One(
    <<I("mov", <<A0, Num(x)>>), I("mov", <<A1, Num(y)>>)>> \o
    FlattenSeq([k \in 1 .. 10 |->
        <<I(Compares[k], <<A0, A1, Var(Ahead[k])>>), I("add", <<S0, S0, Num(k)>>),
          Label(Ahead[k])>>]) \o
    <<I("jnz", <<A0, Var(".b")>>), I("jmp", <<Expr(14, "$", NoSym)>>), Label(".b"),
      I("halt", <<>>)>>)

\* Two steps that stop in the debugger, and what a system call returns.
Stops == One(<<I("brk", <<>>), I("brk", <<>>), I("mov", <<A0, Num(7)>>), I("syscall", <<>>),
               I("mov", <<A0, Num(SYS_exit)>>), I("syscall", <<>>), I("halt", <<>>)>>)

\* Memory that is not there, or not to its end; the stack pointer at 0, which
\* is where the stack ends.
Faults == {One(<<x, I("halt", <<>>)>>) : x \in
              {I("load", <<Name("sx"), Name("byte"), A0, zz, Num(0)>>),
               I("store", <<Name("trib"), zz, Num(-1), A0>>), I("jmp", <<A0>>)}}
          \cup {One(<<I("mov", <<Sp, Num(0)>>), x, I("halt", <<>>)>>) : x \in
              {I("push", <<A0>>), I("pop", <<Sp>>)}}
\* Labels of data behind labels, alignment and allocations within a section,
\* a word at an offset of 1, and a difference of labels.
Mixed == <<Obj({"_start"},
    <<TextSec(<<Label("_start"), I("mov", <<A0, Expr(1, "e", "d")>>),
                I("load", <<Name("sx"), Name("trib"), A1, zz, Var("w")>>),
                I("store", <<Name("half"), zz, Expr(1, "a", NoSym), A1>>),
                I("jmp", <<Var("go")>>), Align(SIZE_H), Label("v"), Label("w"), Data(SIZE_W, <<Num(700)>>),
                Label("go"), I("halt", <<>>), Align(SIZE_W)>>),
      DataSec(<<Label("d"), Data(SIZE_B, <<Num(1)>>), Label("x"), Label("y"),
                Data(SIZE_H, <<Num(4)>>), Label("a"), Alloc(SIZE_H, 3),
                Label("b"), Data(SIZE_H, <<Num(2)>>), Label("e")>>)>>)>>

\* Code and data in one section, whose labels are padded as the data is.  With
\* code of any length in front: a label that control falls into, before data
\* and before an allocation; an alignment; and a call, which returns to a byte,
\* before a label.
Units == {SIZE_B, SIZE_H, SIZE_W}
Behind(x, unit) ==
    {One(x \o <<Label(".l"), I("halt", <<>>), Label("d"), Data(unit, <<Num(1)>>)>>),
     One(x \o <<Label(".l"), I("jmp", <<Var(".m")>>), Label("a"), Alloc(unit, 3),
                Label(".m"), I("halt", <<>>)>>),
     One(<<I("nop", <<>>)>> \o x \o <<Align(unit), I("halt", <<>>)>>),
     One(x \o <<I("call", <<Var(".f")>>), Label(".l"), I("halt", <<>>),
                Label(".f"), I("ret", <<>>), Label("d"), Data(unit, <<Var(".f")>>)>>)}
\* The loop and the jumps again, with data behind; every label is jumped to, so
\* that nothing runs into the padding, and the jumps take it into account.
JumpingOver(x, y, unit) == One(
    <<I("mov", <<A0, Num(2)>>), I("jmp", <<Var(".l")>>), Label(".l"),
      I("sub", <<A0, A0, Num(1)>>)>> \o x \o
    <<I("jz", <<A0, Var(".out")>>)>> \o y \o
    <<I("je", <<A0, Num(0), Var(".end")>>), I("jmp", <<Var(".l")>>), Label(".out"),
      I("load", <<Name("zx"), Name("word"), A1, zz, Var("d")>>), I("jmp", <<Var(".end")>>),
      Label(".end"), I("halt", <<>>), Label("d"), Data(unit, <<Num(2), Num(3)>>)>>)
Paddings == UNION {Behind(x, unit) : x \in Between(2), unit \in Units}
            \cup {JumpingOver(x, y, unit) : x \in Between(1), y \in Between(2), unit \in Units}

\* A section whose size takes all bits of a group of the file but the sign's.
Large == <<Obj({"_start"}, <<TextSec(<<Label("_start"), I("halt", <<>>)>>),
                             DataSec(<<Data(SIZE_B, [k \in 1 .. 70 |-> Num(k % 5)])>>)>>)>>
Empty == <<Obj({"_start"}, <<TextSec(<<Label("_start"), I("halt", <<>>)>>), DataSec(<<>>)>>)>>

\* What the assembler refuses: a value, a symbol that is not on a byte, a
\* difference across sections.
Refused == {One(<<Data(SIZE_B, <<Num(100)>>)>>),
            <<Obj({"_start"}, <<TextSec(<<I("mov", <<A0, Num(1)>>), Label("_start"),
                                          I("halt", <<>>)>>)>>)>>,
            <<Obj({"_start"}, <<TextSec(<<Label("_start"), I("mov", <<A0, Expr(0, "d", "_start")>>)>>),
                                DataSec(<<Label("d"), Data(SIZE_B, <<Num(1)>>)>>)>>)>>}

\* What the linker does not survive: no _start, a symbol nobody or two
\* objects declare, uninitialized data, and a warning about a section that
\* the last object has no number for.
Leaf == Obj({"f"}, <<TextSec(<<Label("f"), I("ret", <<>>)>>)>>)
CallF(secs) == Obj({"_start"}, secs \o <<TextSec(<<Label("_start"), I("call", <<Var("f")>>),
                                                   I("halt", <<>>)>>)>>)
Unlinked == {<<Leaf>>, <<CallF(<<>>)>>, <<CallF(<<>>), Leaf, Leaf>>,
             <<CallF(<<DataSec(<<Label("d"), Data(SIZE_B, <<Num(1)>>), Alloc(SIZE_W, 2)>>)>>)>>,
             <<CallF(<<DataSec(<<Label("d"), Data(SIZE_B, <<Num(1)>>), Alloc(SIZE_W, 2)>>)>>), Leaf>>,
             <<CallF(<<DataSec(<<Data(SIZE_B, <<Num(1)>>)>>)>>), Leaf>>}

Task(prog, x, y) == [program |-> prog, argv |-> x, envp |-> y]
\* A program is run with one argument, and one with any number of them, which
\* may be too many for the stack.
Args  == <<<<5, 0>>>>
Env   == <<<<0>>, <<1, 2, 0>>>>
Lists == {<<>>, <<<<0>>>>, <<<<1, 2, 3, 0>>, <<4, 0>>>>,
           <<<<1, 2, 3, 4, 5, 0>>, <<6, 7, 0>>, <<8, 0>>, <<0>>, <<9, 0>>>>,
           <<[k \in 1 .. 40 |-> 1] \o <<0>>>>, <<[k \in 1 .. 70 |-> 1] \o <<0>>>>}

MCTasks ==
    {Task(prog, Args, Env) : prog \in
        Jumps \cup Paddings \cup {CallsOut(x) : x \in Between(2)} \cup {Arith(x, y) : x, y \in Numbers}
        \cup {Compared(x, y) : x, y \in Numbers}
        \cup {Stops, Mixed, Large, Empty} \cup Faults \cup Refused \cup Unlinked}
    \cup {Task(Stops, x, y) : x, y \in Lists}

\* A jump on a condition to another object, which other instructions follow.
JumpOut == <<Obj({"_start"}, <<TextSec(<<Label("_start"), I("jz", <<A1, Var("f")>>),
                                         I("add", <<A0, A0, A0>>), I("halt", <<>>)>>)>>), Leaf>>
RelocTasks == {Task(JumpOut, Args, Env)}
=============================================================================
