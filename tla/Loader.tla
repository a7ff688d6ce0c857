------------------------------- MODULE Loader -------------------------------
(***************************************************************************)
(* load_and_run of emu/emu.c: the stack with the arguments and the         *)
(* environment, the segments of the executable, and the jump to its entry. *)
(* Strings are pushed last to first; p follows them down again while the   *)
(* pointers to them are pushed.                                            *)
(***************************************************************************)
EXTENDS Cpu

LOCAL INSTANCE SequencesExt

CONSTANTS
    MMAP_MIN_ADDR,   \* the lowest address of a mapping
    STACK_SIZE,      \* bytes
    Junk             \* what a block holds when it is allocated

VARIABLES
    argv, envp,      \* sequences of strings: of bytes, a zero last
    boot,            \* off, the loop that is running, or done or died
    todo,            \* how many rounds the loop has to go
    p                \* the address just after the next string

bootVars == <<argv, envp, boot, todo, p>>

STACK_TOP == 2 ^ SIZE_W

BootInit(x, y) == /\ argv = x /\ envp = y
                  /\ boot = "off" /\ todo = 0 /\ p = 0

\* mem_map at a given address, when the range is free; what was mapped stays.
Mappable(addr, size) == /\ PageDown(addr) < PageUp(addr + size)
                        /\ MMAP_MIN_ADDR <= PageDown(addr) /\ PageUp(addr + size) <= STACK_TOP
                        /\ PageDown(addr) .. PageUp(addr + size) - 1 \cap DOMAIN mem = {}
Fresh(addr, size) == [a \in DOMAIN mem \cup (PageDown(addr) .. PageUp(addr + size) - 1) |->
                         IF a \in DOMAIN mem THEN mem[a] ELSE Junk]

\* mem_write of the bytes bs.
Wrote(m, addr, bs) == [a \in DOMAIN m |-> IF a \in addr .. addr + Len(bs) - 1
                                          THEN bs[a - addr + 1] ELSE m[a]]

Fails == /\ boot' = "died" /\ UNCHANGED <<regs, mem, todo, p>>

-----------------------------------------------------------------------------
(* The stack.                                                              *)

MapStack ==
    /\ boot = "off"
    /\ mem' = Fresh(STACK_TOP - STACK_SIZE, STACK_SIZE)
    /\ regs' = [regs EXCEPT ![SP] = Word(STACK_TOP)]
    /\ boot' = "envs" /\ todo' = Len(envp)
    /\ UNCHANGED p

\* The string is written below the stack pointer, which moves first.
WriteString(s) ==
    LET to == Word(regs[SP] - Len(s))
    IN  IF Mapped(to, Len(s))
        THEN /\ regs' = [regs EXCEPT ![SP] = to]
             /\ mem' = Wrote(mem, to, s)
             /\ todo' = todo - 1
             /\ UNCHANGED <<boot, p>>
        ELSE Fails

WriteEnv == boot = "envs" /\ todo > 0 /\ WriteString(envp[todo])
EndEnvs  == /\ boot = "envs" /\ todo = 0
            /\ boot' = "args" /\ todo' = Len(argv)
            /\ UNCHANGED <<regs, mem, p>>
WriteArg == boot = "args" /\ todo > 0 /\ WriteString(argv[todo])

\* do_push, of x, and what goes with it.
Pushed(x) == LET to == Word(regs[SP] - 4)
             IN  /\ Mapped(to, 4)
                 /\ mem' = Stored(to, 4, x)
                 /\ regs' = [regs EXCEPT ![SP] = to]
CannotPush == ~Mapped(Word(regs[SP] - 4), 4) /\ Fails

\* regs[REG_SP] &= -4
AlignSP(x) == x - (x % 4)

\* The stack pointer is aligned and the end of the array is pushed.
EndArgs ==
    /\ boot = "args" /\ todo = 0
    /\ LET to == Word(AlignSP(regs[SP]) - 4)
       IN  IF Mapped(to, 4)
           THEN /\ mem' = Stored(to, 4, 0)
                /\ regs' = [regs EXCEPT ![SP] = to]
                /\ p' = Word(STACK_TOP)
                /\ boot' = "envp" /\ todo' = Len(envp)
           ELSE Fails

\* Mutant of Before: the terminating zero is not counted.
BeforeBare(s) == Word(p - Len(s) + 1)
\* p after p -= strlen(s) + 1
Before(s) == Word(p - Len(s))

PushPointer(s) == \/ /\ Pushed(Before(s))
                     /\ p' = Before(s)
                     /\ todo' = todo - 1
                     /\ UNCHANGED boot
                  \/ CannotPush

PushEnvp == boot = "envp" /\ todo > 0 /\ PushPointer(envp[todo])
EndEnvp  == /\ boot = "envp" /\ todo = 0
            /\ boot' = "argv" /\ todo' = Len(argv)
            /\ UNCHANGED <<regs, mem, p>>
PushArgv == boot = "argv" /\ todo > 0 /\ PushPointer(argv[todo])
PushArgc == /\ boot = "argv" /\ todo = 0
            /\ \/ /\ Pushed(Len(argv))
                  /\ boot' = "segments" /\ todo' = 1
                  /\ UNCHANGED p
               \/ CannotPush

-----------------------------------------------------------------------------
(* The executable.  Its numbers are written by dumpint of py/serialize.py  *)
(* and read by read_leb128: seven bits at a time, with the sign in the     *)
(* last group.                                                             *)

\* dumpint stops when what is left is the sign that was written last.
Groups(x) ==
    LET good(n) == -(128 ^ n) <= 2 * x /\ 2 * x < 128 ^ n
    IN  CHOOSE n \in 1 .. SIZE_W : good(n) /\ \A m \in 1 .. n - 1 : ~good(m)
DumpInt(x) == [k \in 1 .. Groups(x) |-> (x \div 128 ^ (k - 1)) % 128]

ReadInt(gs) == LET n == 128 ^ Len(gs)
                   x == FoldRight(LAMBDA g, v : g + 128 * v, gs, 0)
               IN  Word(IF gs[Len(gs)] >= 64 THEN x - n ELSE x)

\* load_eh3, for one segment.  As much is mapped as the file has data; ld
\* writes no segment of which that is not all.
LoadSegment(s) ==
    LET addr == ReadInt(DumpInt(s.addr))
        numb == ReadInt(DumpInt(Len(s.data)))
    IN  /\ boot = "segments"
        /\ IF Mappable(addr, numb)
           THEN /\ mem' = Wrote(Fresh(addr, numb), addr, s.data)
                /\ todo' = todo + 1
                /\ UNCHANGED <<regs, boot, p>>
           ELSE Fails

Boot(exe) ==
    /\ \/ MapStack \/ WriteEnv \/ EndEnvs \/ WriteArg \/ EndArgs
       \/ PushEnvp \/ EndEnvp \/ PushArgv \/ PushArgc
       \/ todo \in DOMAIN exe.segments /\ LoadSegment(exe.segments[todo])
    /\ UNCHANGED <<argv, envp, ip, trap, cpu>>

Enter(exe) ==
    /\ boot = "segments" /\ todo > Len(exe.segments)
    /\ boot' = "done"
    /\ Goto(ReadInt(DumpInt(exe.entry)) * SIZE_B)
    /\ UNCHANGED <<argv, envp, regs, mem, trap, todo, p>>
=============================================================================
