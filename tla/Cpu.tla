-------------------------------- MODULE Cpu --------------------------------
(***************************************************************************)
(* step of emu/emu.c with the decoders it calls: the processor takes an    *)
(* instruction apart field by field and performs it.  Memory is what the   *)
(* map of MemMap promises, a byte at every mapped address; a program here  *)
(* does not map or unmap (Emu is about that).  Fetch is what BitStream     *)
(* promises of it, with the line that is read ahead.                       *)
(***************************************************************************)
EXTENDS Isa, FiniteSets

LOCAL INSTANCE SequencesExt

CONSTANTS
    SYS_exit,        \* number of the system call that ends the program
    Results,         \* what other system calls may return
    Debug            \* whether the debugger is on

VARIABLES
    regs,
    mem,             \* the bytes of memory; its domain is what is mapped
    ip,              \* iaddr and ioff: the bit the next fetch starts at
    trap,            \* the debugger is to be called before the next step
    cpu              \* off, run; or the end: halt, exit, segv, fpe or trap

cpuVars == <<regs, mem, ip, trap, cpu>>

AddrSpace == 2 ^ SIZE_W * SIZE_B          \* in bits

CpuInit == /\ regs = [r \in Regs |-> 0]
           /\ mem = [x \in {} |-> 0]
           /\ ip = 0 /\ trap = FALSE
           /\ cpu = "off"

-----------------------------------------------------------------------------
(* Memory.                                                                 *)

Span(addr, n) == addr .. addr + n - 1
Mapped(addr, n) == Span(addr, n) \subseteq DOMAIN mem

Load(addr, n) == ValueOf(FoldLeft(LAMBDA bs, k : bs \o BitsOf(mem[addr + k - 1], SIZE_B),
                                  <<>>, [k \in 1 .. n |-> k]))
Stored(addr, n, x) == [a \in DOMAIN mem |-> IF a \in Span(addr, n)
                                            THEN Bytes(x, n)[a - addr] ELSE mem[a]]

-----------------------------------------------------------------------------
(* Decoding.  d holds the bit to read next, whether everything was mapped, *)
(* and the fields so far.                                                  *)

LineOf(b) == (b \div SIZE_B) - ((b \div SIZE_B) % LineBytes)
LineMapped(b) == LineOf(b) \in DOMAIN mem

Bit(b) == (mem[b \div SIZE_B] \div 2 ^ (b % SIZE_B)) % 2

\* decode_fetch: a field may end with the line only if the next one is there.
Fetched(b, n) == ValueOf([j \in 1 .. n |-> Bit(b + j - 1)])
Readable(b, n) == LineMapped(b) /\ LineMapped(b + n)

Fetch(d, n) == IF d.ok /\ Readable(d.at, n)
               THEN [at |-> d.at + n, ok |-> TRUE, f |-> Append(d.f, Fetched(d.at, n))]
               ELSE [d EXCEPT !.ok = FALSE, !.f = Append(@, 0)]

LastOf(d) == d.f[Len(d.f)]
Drop(d)   == [d EXCEPT !.f = SubSeq(@, 1, Len(@) - 1)]
With(d, x) == [d EXCEPT !.f[Len(d.f)] = x]

\* decode_imm: a size and a value of that size, sign extended.
Imm(d) == LET s == Fetch(d, SZ_SZ)
              n == (LastOf(s) + 1) * SIZE_B
              x == Fetch(Drop(s), n)
          IN  With(x, Word(Signed(LastOf(x), n)))

\* decode_oper: the value of a register or an immediate.
Oper(d) == LET t == Fetch(d, 1)
               r == Fetch(Drop(t), REG_SZ)
           IN  IF LastOf(t) = 0 THEN With(r, regs[LastOf(r)]) ELSE Imm(Drop(t))

\* decode_jmp: a byte address, or a number of bits from the end of the
\* immediate.
Jmp(d) == LET t == Fetch(d, 1)
              r == Fetch(Drop(t), REG_SZ)
              x == Imm(Drop(t))
          IN  IF LastOf(t) = 0 THEN With(r, regs[LastOf(r)] * SIZE_B)
              ELSE With(x, (x.at + Signed(LastOf(x), SIZE_W)) % AddrSpace)

Field(d, form) ==
    CASE form = "ext"  -> Fetch(d, EXT_SZ)
      [] form = "sz"   -> Fetch(d, SZ_SZ)
      [] form = "sign" -> Fetch(d, SIGN_SZ)
      [] form = "reg"  -> Fetch(d, REG_SZ)
      [] form = "oper" -> Oper(d)
      [] form = "jmp"  -> Jmp(d)

\* What the cases of step decode, in their order.
Fields(op) ==
    CASE op = "load"   -> <<"ext", "sz", "reg", "reg", "oper">>
      [] op = "store"  -> <<"sz", "reg", "oper", "oper">>
      [] op = "push"   -> <<"oper">>
      [] op = "pop"    -> <<"reg">>
      [] op \in {"add", "and", "or", "xor", "shl", "mul"} -> <<"reg", "reg", "oper">>
      [] op = "shr"    -> <<"sign", "reg", "reg", "oper">>
      [] op = "sub"    -> <<"reg", "reg", "reg">>
      [] op = "divmod" -> <<"sign", "reg", "reg", "reg", "oper">>
      [] op \in {"call", "jmp"} -> <<"jmp">>
      [] op = "jz"     -> <<"reg", "jmp">>
      [] op \in {"je", "jne"} -> <<"reg", "oper", "jmp">>
      [] op \in {"jl", "jle", "jg", "jge"} -> <<"sign", "reg", "oper", "jmp">>
      [] OTHER -> <<>>

\* The operation: an opcode, or one of the two that a second field selects from.
Operation(d) ==
    LET o == Fetch(d, OP_SZ)
        a == Fetch(o, ALT_SZ)
        j == Fetch(o, JCC_SZ)
        name == OP_NAMES[LastOf(o) + 1]
    IN  CASE name = "ALT" -> <<ALT_NAMES[LastOf(a) + 1], [a EXCEPT !.f = <<>>]>>
          [] name = "JCC" -> <<JCC_NAMES[LastOf(j) + 1], [j EXCEPT !.f = <<>>]>>
          [] OTHER -> <<name, [o EXCEPT !.f = <<>>]>>

\* The instruction at ip: its operation, its fields, and where they end.
Decoded ==
    LET o == Operation([at |-> ip, ok |-> TRUE, f |-> <<>>])
        d == FoldLeft(Field, o[2], Fields(o[1]))
    IN  [op |-> o[1], f |-> d.f, end |-> d.at, ok |-> d.ok]

\* decode_align
ByteEnd(b) == b + Padding(b, SIZE_B)

-----------------------------------------------------------------------------
(* Steps.                                                                  *)

\* An instruction: the debugger is called first if it asked for that, and
\* may ask again; it leaves the registers and the program counter alone.
\* regs[REG_ZZ] is cleared when a step begins.
Begin(op, d) == /\ d.ok /\ d.op = op
                /\ trap' \in IF trap THEN BOOLEAN ELSE {FALSE}

Goto(b) == /\ ip' = b
           /\ cpu' = IF LineMapped(b) THEN "run" ELSE "segv"
Onward(d) == ip' = d.end /\ UNCHANGED cpu
Dies(how) == cpu' = how /\ UNCHANGED <<regs, mem, ip>>

\* Registers are written in turn, and ZZ reads 0 when the next step begins.
Set(r, x) == [regs EXCEPT ![r] = x, ![ZZ] = 0]

Extend(ext, x, n) == IF ext = 1 THEN Word(Signed(x, n * SIZE_B)) ELSE x

DoLoad(d) ==
    LET n == d.f[2] + 1
        a == Word(regs[d.f[4]] + d.f[5])
    IN  /\ Begin("load", d)
        /\ IF Mapped(a, n)
           THEN /\ regs' = Set(d.f[3], Extend(d.f[1], Load(a, n), n))
                /\ Onward(d) /\ UNCHANGED mem
           ELSE Dies("segv")

DoStore(d) ==
    LET n == d.f[1] + 1
        a == Word(regs[d.f[2]] + d.f[3])
    IN  /\ Begin("store", d)
        /\ IF Mapped(a, n)
           THEN mem' = Stored(a, n, d.f[4]) /\ Onward(d) /\ UNCHANGED regs
           ELSE Dies("segv")

\* do_push: SP is lowered whether or not the write succeeds.
PushAt == Word(regs[SP] - 4)
DoPush(d) ==
    /\ Begin("push", d)
    /\ regs' = [regs EXCEPT ![SP] = PushAt]
    /\ IF Mapped(PushAt, 4)
       THEN mem' = Stored(PushAt, 4, d.f[1]) /\ Onward(d)
       ELSE cpu' = "segv" /\ UNCHANGED <<mem, ip>>

\* do_pop, whose result is written last, SP or not.
DoPop(d) ==
    /\ Begin("pop", d)
    /\ IF Mapped(regs[SP], 4)
       THEN /\ regs' = [regs EXCEPT ![SP] = Word(@ + 4), ![d.f[1]] = Load(regs[SP], 4),
                                    ![ZZ] = 0]
            /\ Onward(d) /\ UNCHANGED mem
       ELSE Dies("segv")

DoAlu(d) ==
    \E op \in {"add", "and", "or", "xor", "shl", "mul"} :
        /\ Begin(op, d)
        /\ regs' = Set(d.f[1], Compute(op, FALSE, regs[d.f[2]], d.f[3]))
        /\ Onward(d) /\ UNCHANGED mem

DoShr(d) ==
    /\ Begin("shr", d)
    /\ regs' = Set(d.f[2], Compute("shr", d.f[1] = 1, regs[d.f[3]], d.f[4]))
    /\ Onward(d) /\ UNCHANGED mem

DoSub(d) ==
    /\ Begin("sub", d)
    /\ regs' = Set(d.f[1], Compute("sub", FALSE, regs[d.f[2]], regs[d.f[3]]))
    /\ Onward(d) /\ UNCHANGED mem

\* First the quotient, then the remainder; a division that has no quotient
\* kills the emulator.
DoDivmod(d) ==
    LET x == regs[d.f[4]]
        a == Number(d.f[1] = 1, x)
        b == Number(d.f[1] = 1, d.f[5])
    IN  /\ Begin("divmod", d)
        /\ IF Divides(d.f[1] = 1, x, d.f[5])
           THEN /\ regs' = [regs EXCEPT ![d.f[2]] = Word(Quotient(a, b)),
                                        ![d.f[3]] = Word(Remainder(a, b)), ![ZZ] = 0]
                /\ Onward(d) /\ UNCHANGED mem
           ELSE Dies("fpe")

\* Mutant of Returns: LR is the call itself.
ReturnsAt(d) == ip \div SIZE_B
\* LR: the byte the call ends at.
Returns(d) == ByteEnd(d.end) \div SIZE_B
DoCall(d) ==
    /\ Begin("call", d)
    /\ regs' = Set(LR, Word(Returns(d)))
    /\ Goto(d.f[1]) /\ UNCHANGED mem

Taken(d) == \/ d.op = "jmp"
            \/ d.op = "jz" /\ regs[d.f[1]] = 0
            \/ d.op \in {"je", "jne"} /\ Holds(d.op, FALSE, regs[d.f[1]], d.f[2])
            \/ /\ d.op \in {"jl", "jle", "jg", "jge"}
               /\ Holds(d.op, d.f[1] = 1, regs[d.f[2]], d.f[3])
DoJcc(d) ==
    \E op \in Range(JCC_NAMES) :
        /\ Begin(op, d)
        /\ IF Taken(d) THEN Goto(d.f[Len(d.f)]) ELSE Onward(d)
        /\ UNCHANGED <<regs, mem>>

DoSyscall(d) ==
    /\ Begin("syscall", d)
    /\ IF regs[1] = SYS_exit THEN Dies("exit")
       ELSE /\ regs' \in {Set(1, x) : x \in Results}
            /\ Onward(d) /\ UNCHANGED mem

DoHalt(d) == Begin("halt", d) /\ Dies("halt")

DoAlign(d) ==
    /\ Begin("align", d)
    /\ ip' = ByteEnd(d.end) /\ UNCHANGED <<regs, mem, cpu>>

\* The debugger is called, unless it was at the start of this very step.
DoBrk(d) ==
    /\ d.ok /\ d.op = "brk"
    /\ IF Debug /\ ~trap
       THEN trap' \in BOOLEAN /\ Goto(d.end) /\ UNCHANGED <<regs, mem>>
       ELSE trap' \in (IF trap THEN BOOLEAN ELSE {FALSE}) /\ Dies("trap")

\* The line a field continues in is not mapped.
DoFetchFault(d) == /\ ~d.ok
                   /\ trap' = FALSE
                   /\ Dies("segv")

\* One instruction.
Step == /\ cpu = "run"
        /\ \E d \in {Decoded} :
              \/ DoLoad(d) \/ DoStore(d) \/ DoPush(d) \/ DoPop(d)
              \/ DoAlu(d) \/ DoShr(d) \/ DoSub(d) \/ DoDivmod(d) \/ DoCall(d) \/ DoJcc(d)
              \/ DoSyscall(d) \/ DoHalt(d) \/ DoAlign(d) \/ DoBrk(d) \/ DoFetchFault(d)
=============================================================================
