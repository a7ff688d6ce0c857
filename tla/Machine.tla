------------------------------ MODULE Machine ------------------------------
(***************************************************************************)
(* What a programmer means by an assembly program: instructions one after  *)
(* another, labels, and registers and memory they act on.  No encoding, no *)
(* sections, no passes.  The tools choose where everything is, when the    *)
(* program starts, and nothing moves afterwards.  The operations are those *)
(* of the language, pseudo instructions included (doc/NOTES.md).           *)
(*                                                                         *)
(* One thing is not as a programmer would have it: where data is declared  *)
(* in a section, the labels before it, those of code too, may have padding *)
(* in front, and control that comes from above runs into it as it does     *)
(* into data or into what an alignment skips.  The program is astray then, *)
(* and nothing more is said of it.                                         *)
(***************************************************************************)
EXTENDS Isa

LOCAL INSTANCE SequencesExt

CONSTANTS SYS_exit, Results, Debug

VARIABLES
    text,            \* the instructions: records [op, args, gap, last], where
                     \* last says that no instruction follows in the section,
                     \* and gap that something may stand before the next one
    code,            \* label -> the instruction it marks
    data,            \* label -> the data it marks: a record [unit, xs]
    entry,           \* the label the program starts at
    at, behind,      \* what the tools chose: the bit addresses where the
    where,           \* instructions start and end, and those of the labels
    pc, regs, mem,
    st               \* off, run; how the program ended; or astray

source == <<text, code, data, entry>>
vars   == <<source, at, behind, where, pc, regs, mem, st>>

\* Labels are pairs: the object that defines it, and its name.  $ is the
\* instruction itself.
NoLabel == <<0, "">>
Here    == <<0, "$">>

Init == /\ at = <<>> /\ behind = <<>> /\ where = <<>>
        /\ pc = 1
        /\ st = "off"

\* An operand: a register, of which ZZ is 0, or an expression, which counts
\* in bytes as an operand and in bits as the target of a jump.
Off(l)        == IF l = NoLabel THEN 0 ELSE IF l = Here THEN at[pc] ELSE where[l]
Val(x)        == IF x.t = "reg" THEN (IF x.r = ZZ THEN 0 ELSE regs[x.r])
                 ELSE Word(x.n + (Off(x.a) - Off(x.s)) \div SIZE_B)
Target(x)     == IF x.t = "reg" THEN Val(x) * SIZE_B ELSE x.n + Off(x.a) - Off(x.s)
Size(x)       == CHOOSE n \in 1 .. 4 : SZ_NAMES[n] = x.w

-----------------------------------------------------------------------------
(* The tools' choice.                                                      *)

\* Instructions stand in order and apart, the next one where the one before
\* ends unless there is a gap.  Labels mark what they mark in the source:
\* instructions, and data, all of it in memory.
Layout ==
    /\ \A k \in DOMAIN text : at'[k] < behind'[k]
    /\ \A k \in DOMAIN text : ~text[k].last => behind'[k] <= at'[k + 1]
    /\ \A k \in DOMAIN text : ~text[k].gap => behind'[k] = at'[k + 1]
    /\ \A k, m \in DOMAIN text : k # m => at'[k] # at'[m]
    /\ \A l \in DOMAIN code : where'[l] = at'[code[l]]
    /\ \A l \in DOMAIN data : where'[l] % SIZE_B = 0

InMemory(a, unit, x) ==
    LET v == Word(x.n + (IF x.a = NoLabel THEN 0 ELSE where'[x.a] \div SIZE_B))
    IN  \A b \in 0 .. (unit \div SIZE_B) - 1 : mem'[a + b] = Bytes(v, 4)[b]
DataInMemory ==
    \A l \in DOMAIN data : \A k \in DOMAIN data[l].xs :
        InMemory((where'[l] + (k - 1) * data[l].unit) \div SIZE_B, data[l].unit, data[l].xs[k])

Start ==
    /\ st = "off"
    /\ st' = "run"
    /\ Layout
    /\ DataInMemory
    /\ pc' = code[entry]
    /\ \A r \in Regs \ {SP} : regs'[r] = 0
    /\ UNCHANGED source

-----------------------------------------------------------------------------
(* Instructions.                                                           *)

Ins     == text[pc]
A(k)    == Ins.args[k]
Is(ops) == st = "run" /\ pc \in DOMAIN text /\ Ins.op \in ops

Set(r, x) == [regs EXCEPT ![r] = x, ![ZZ] = 0]
Rest      == UNCHANGED <<source, at, behind, where>>
\* To the instruction at b; and to what ends one, but no instruction starts at.
Reach(b)  == pc' \in {k \in DOMAIN text : at[k] = b} /\ UNCHANGED st
Lost(b)   == /\ \E k \in DOMAIN text : text[k].gap /\ behind[k] = b
             /\ \A k \in DOMAIN text : at[k] # b
             /\ pc' = 0 /\ st' = "astray"
Onward    == Reach(behind[pc]) \/ Lost(behind[pc])
Ends(how) == st' = how /\ UNCHANGED <<pc, regs, mem>>
Computes(r, x) == regs' = Set(r, x) /\ Onward /\ UNCHANGED mem /\ Rest

Alu == /\ Is({"add", "sub", "mul", "and", "or", "xor", "shl"})
       /\ Computes(A(1).r, Compute(Ins.op, FALSE, Val(A(2)), Val(A(3))))
Shr == Is({"shr"}) /\ Computes(A(2).r, Compute("shr", A(1).w = "signed", Val(A(3)), Val(A(4))))
Mov == Is({"mov"}) /\ Computes(A(1).r, Val(A(2)))
Neg == Is({"neg"}) /\ Computes(A(1).r, Word(-Val(A(2))))
Not == Is({"not"}) /\ Computes(A(1).r, 2 ^ SIZE_W - 1 - Val(A(2)))

Divide(signed, x, y, regsAfter(_, _)) ==
    /\ IF Divides(signed, x, y)
       THEN /\ regs' = regsAfter(Word(Quotient(Number(signed, x), Number(signed, y))),
                                 Word(Remainder(Number(signed, x), Number(signed, y))))
            /\ Onward /\ UNCHANGED mem
       ELSE Ends("fpe")
    /\ Rest
Div    == /\ Is({"div", "idiv"})
          /\ Divide(Ins.op = "idiv", Val(A(2)), Val(A(3)), LAMBDA q, r : Set(A(1).r, q))
Mod    == /\ Is({"mod", "imod"})
          /\ Divide(Ins.op = "imod", Val(A(2)), Val(A(3)), LAMBDA q, r : Set(A(1).r, r))
Divmod == /\ Is({"divmod", "idivmod"})
          /\ Divide(Ins.op = "idivmod", Val(A(3)), Val(A(4)),
                    LAMBDA q, r : [regs EXCEPT ![A(1).r] = q, ![A(2).r] = r, ![ZZ] = 0])

Has(a, n)     == a .. a + n - 1 \subseteq DOMAIN mem
Read(a, n)    == FoldLeft(LAMBDA x, k : x * 2 ^ SIZE_B + mem[a + n - k], 0, [k \in 1 .. n |-> k])
Write(a, n, x) == [b \in DOMAIN mem |-> IF b \in a .. a + n - 1 THEN Bytes(x, n)[b - a]
                                        ELSE mem[b]]

Load  == /\ Is({"load"})
         /\ LET n == Size(A(2))
                a == Word(Val(A(4)) + Val(A(5)))
                x == Read(a, n)
            IN  IF ~Has(a, n) THEN Ends("segv") /\ Rest
                ELSE Computes(A(3).r, IF A(1).w = "sx" THEN Word(Signed(x, n * SIZE_B)) ELSE x)
Store == /\ Is({"store"})
         /\ LET n == Size(A(1))
                a == Word(Val(A(2)) + Val(A(3)))
            IN  IF ~Has(a, n) THEN Ends("segv")
                ELSE mem' = Write(a, n, Val(A(4))) /\ Onward /\ UNCHANGED regs
         /\ Rest
Push  == /\ Is({"push"})
         /\ LET a == Word(regs[SP] - 4)
            IN  /\ regs' = Set(SP, a)
                /\ IF Has(a, 4) THEN mem' = Write(a, 4, Val(A(1))) /\ Onward
                                ELSE st' = "segv" /\ UNCHANGED <<pc, mem>>
         /\ Rest
Pop   == /\ Is({"pop"})
         /\ IF ~Has(regs[SP], 4) THEN Ends("segv") /\ Rest
            ELSE /\ regs' = [regs EXCEPT ![SP] = Word(@ + 4), ![A(1).r] = Read(regs[SP], 4),
                                         ![ZZ] = 0]
                 /\ Onward /\ UNCHANGED mem /\ Rest

\* To an instruction, or back into a gap that a call has in front of it, or
\* out of memory.
Goto(b) == /\ \/ Reach(b) \/ Lost(b)
              \/ b \div SIZE_B \notin DOMAIN mem /\ pc' = 0 /\ st' = "segv"
           /\ UNCHANGED mem

\* The condition of a jump, and its target, the last argument.
Condition ==
    LET y == Val(A(2))
        test(op, signed) == Holds(op, signed, Val(A(1)), y)
    IN  CASE Ins.op \in {"jmp", "ret"} -> TRUE
          [] Ins.op = "jz"  -> Val(A(1)) = 0
          [] Ins.op = "jnz" -> Val(A(1)) # 0
          [] Ins.op \in {"je", "jne"} -> test(Ins.op, FALSE)
          [] Ins.op \in {"jl", "jle", "jg", "jge"} -> test(Ins.op, TRUE)
          [] Ins.op = "jb"  -> test("jl", FALSE)
          [] Ins.op = "jbe" -> test("jle", FALSE)
          [] Ins.op = "ja"  -> test("jg", FALSE)
          [] Ins.op = "jae" -> test("jge", FALSE)
Jumps == {"jmp", "ret", "jz", "jnz", "je", "jne", "jl", "jle", "jg", "jge",
          "jb", "jbe", "ja", "jae"}
Jump == /\ Is(Jumps)
        /\ LET to == IF Ins.op = "ret" THEN regs[LR] * SIZE_B ELSE Target(Last(Ins.args))
           IN  IF Condition THEN Goto(to) ELSE Onward /\ UNCHANGED mem
        /\ UNCHANGED regs /\ Rest

\* A call leaves the address behind itself in LR, which is a whole byte.
Call == /\ Is({"call"})
        /\ behind[pc] % SIZE_B = 0
        /\ regs' = Set(LR, Word(behind[pc] \div SIZE_B))
        /\ Goto(Target(A(1))) /\ Rest

Nop  == Is({"nop", "align"}) /\ Onward /\ UNCHANGED <<regs, mem>> /\ Rest
Halt == Is({"halt"}) /\ Ends("halt") /\ Rest
Syscall == /\ Is({"syscall"})
           /\ IF regs[1] = SYS_exit THEN Ends("exit")
              ELSE regs' \in {Set(1, x) : x \in Results} /\ Onward /\ UNCHANGED mem
           /\ Rest
\* A breakpoint stops in the debugger, which goes on, or there is none.
Brk  == /\ Is({"brk"})
        /\ \/ Debug /\ Onward /\ UNCHANGED <<regs, mem>>
           \/ Ends("trap")
        /\ Rest

\* The processor reads ahead: an instruction that ends with the last line of
\* memory faults, whatever it does.
Fault == /\ st = "run" /\ pc \in DOMAIN text /\ Ins.last
         /\ Ends("segv") /\ Rest

\* What is not an instruction of the program is executed: anything happens.
Wander == st = "astray" /\ UNCHANGED <<source, at, behind, where, st>>

Next == \/ Start \/ Fault \/ Wander
        \/ Alu \/ Shr \/ Mov \/ Neg \/ Not \/ Div \/ Mod \/ Divmod
        \/ Load \/ Store \/ Push \/ Pop \/ Jump \/ Call \/ Nop \/ Halt \/ Syscall \/ Brk

Spec == Init /\ [][Next]_vars
=============================================================================
