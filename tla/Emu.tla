-------------------------------- MODULE Emu --------------------------------
(***************************************************************************)
(* The emulator as a client of its own memory map (emu/emu.c): it runs     *)
(* instructions through a pointer into the block of one mapping, and asks  *)
(* the map, on the program's behalf, to move, merge, split and free such   *)
(* blocks.  update_imem refreshes the pointer.  What the instructions are  *)
(* is left open: the program fetches lines, accesses memory, jumps, makes  *)
(* syscalls and halts in any order.                                        *)
(*                                                                         *)
(* The memory map is MemMap, loop by loop; while it serves a call          *)
(* (pc # "idle") the processor waits, and cpu says for what.               *)
(***************************************************************************)
EXTENDS MemMap

CONSTANT LineBytes                        \* sizeof(icache_t)

ASSUME EmuAssumption == /\ LineBytes \in Nat \ {0}
                        /\ LineBytes <= MMAP_MIN_ADDR
                        /\ PageSize % LineBytes = 0

VARIABLES
    cpu,             \* load, run, access, syscall or exit
    imem,            \* current mapping
    iline,           \* what iline points at: an offset in the block of imem
    iaddr,           \* address of the line
    moved,           \* history: the block iline points into was reallocated
                     \* or freed since update_imem
    before           \* history: the line's bytes when the syscall was made

emuVars == <<vars, cpu, imem, iline, iaddr, moved, before>>

Idle == pc = "idle"

Lines == {x \in Words : x % LineBytes = 0}

\* mem_get(x, k): the mapping that holds the range, as a set.  It is the walk
\* and Holds of MemMap in one step, for WalkInv says where the walk ends.
HighestUpTo(x) == {n \in live : addr[n] <= x /\ \A m \in live : addr[m] <= addr[n] \/ x < addr[m]}
Get(x, k) == {n \in HighestUpTo(x) : Word(End(n) - k) >= x}

\* The bytes *iline reads.
LineBlock == [i \in 0 .. LineBytes - 1 |-> data[imem][iline + i]]

EmuInit == /\ Init
           /\ cpu = "load"
           /\ imem = NULL /\ iline = 0 /\ iaddr = 0
           /\ moved = FALSE /\ before = Fresh(0)

-----------------------------------------------------------------------------
(* Calls of the map, and what the map does meanwhile.                      *)

Asks(ops, state) == /\ Idle /\ Call /\ req'.op \in ops
                    /\ cpu' = state
                    /\ UNCHANGED <<imem, iline, iaddr, moved>>

\* load_and_run and load_eh3 map the stack and the segments and fill them.
Load == cpu = "load" /\ Asks({"map", "write"}, "load") /\ UNCHANGED before

\* The instructions load, store, push, pop: mem_read and mem_write.
Access == cpu = "run" /\ Asks({"find", "write"}, "access") /\ UNCHANGED before

\* do_syscall: SYS_mmap and SYS_munmap.
Syscall == /\ cpu = "run"
           /\ Asks({"map", "unmap"}, "syscall")
           /\ before' = LineBlock

\* realloc may move the block of the current mapping, free takes it away.
BlockMoves == imem # NULL /\ (imem \notin live' \/ size'[imem] # size[imem])

MapWorks == /\ Step /\ pc' \notin {"idle", "exit"}
            /\ moved' = (moved \/ BlockMoves)
            /\ UNCHANGED <<cpu, imem, iline, iaddr, before>>

\* mem_get ends the program on an access outside the map.
WriteFault == /\ Fault
              /\ cpu' = "exit"
              /\ UNCHANGED <<imem, iline, iaddr, moved, before>>

\* The loader gives up when a segment cannot be mapped.
LoadReturn == /\ cpu = "load" /\ Return
              /\ cpu' = IF req.op = "map" /\ ret = 0 THEN "exit" ELSE "load"
              /\ UNCHANGED <<imem, iline, iaddr, moved, before>>

AccessReturn == /\ cpu = "access" /\ Return
                /\ cpu' = IF req.op = "find" /\ ret = 0 THEN "exit" ELSE "run"
                /\ UNCHANGED <<imem, iline, iaddr, moved, before>>

-----------------------------------------------------------------------------
(* The instruction pointer.                                                *)

\* update_imem for a line at x: a fault, or a pointer into the block.
UpdateImem(x) ==
    \/ /\ Get(x, LineBytes) = {}
       /\ cpu' = "exit"
       /\ UNCHANGED <<imem, iline, moved>>
    \/ /\ imem' \in Get(x, LineBytes)
       /\ iline' = x - addr[imem']
       /\ moved' = FALSE
       /\ cpu' = "run"

\* Mutant of SyscallReturn: the pointer is not updated.
SyscallReturnStale == /\ cpu = "syscall" /\ Return
                      /\ cpu' = "run"
                      /\ UNCHANGED <<imem, iline, iaddr, moved, before>>

\* SYS_mmap and SYS_munmap update the pointer once the map is done, before
\* anything is fetched.
SyscallReturn == /\ cpu = "syscall" /\ Return
                 /\ UpdateImem(iaddr)
                 /\ UNCHANGED <<iaddr, before>>

\* do_goto: from the loader to the entry point, then by jumps and calls.
Goto(x) == /\ cpu \in {"load", "run"} /\ Idle
           /\ iaddr' = x
           /\ UpdateImem(x)
           /\ UNCHANGED <<vars, before>>

\* decode_fetch on its way to the next line, which it looks for in the
\* current mapping only.
NextInside == Word(Word(iaddr + LineBytes) - addr[imem]) < size[imem]

FetchNext == /\ cpu = "run" /\ Idle /\ NextInside
             /\ iaddr' = Word(iaddr + LineBytes)
             /\ iline' = iline + LineBytes
             /\ UNCHANGED <<vars, cpu, imem, moved, before>>

FetchFault == /\ cpu = "run" /\ Idle /\ ~NextInside
              /\ cpu' = "exit"
              /\ iaddr' = Word(iaddr + LineBytes)
              /\ UNCHANGED <<vars, imem, iline, moved, before>>

\* alt halt, SYS_exit, and every fatal error of an instruction.
Halt == /\ cpu = "run" /\ Idle
        /\ cpu' = "exit"
        /\ UNCHANGED <<vars, imem, iline, iaddr, moved, before>>

Ended == cpu = "exit" /\ UNCHANGED emuVars

EmuNext == \/ Load \/ Access \/ Syscall
           \/ MapWorks \/ WriteFault \/ LoadReturn \/ AccessReturn \/ SyscallReturn
           \/ \E x \in Lines : Goto(x)
           \/ FetchNext \/ FetchFault \/ Halt \/ Ended

EmuSpec == EmuInit /\ [][EmuNext]_emuVars

\* The map is called, not sent to: one thread works until the call is over.
CallGoesOn == MapWorks \/ WriteFault \/ LoadReturn \/ AccessReturn \/ SyscallReturn

EmuFairSpec == EmuSpec /\ WF_emuVars(CallGoesOn)

-----------------------------------------------------------------------------

EmuTypeOK == /\ TypeOK
             /\ cpu \in {"load", "run", "access", "syscall", "exit"}
             /\ imem \in Pointer /\ iline \in Words /\ iaddr \in Lines
             /\ moved \in BOOLEAN

\* Whenever an instruction runs, iline points into the present block of a live
\* mapping, at the line of iaddr: no syscall leaves it behind, although every
\* one may free or reallocate the block, or reuse its node for another mapping.
LineValid == cpu \in {"run", "access"} =>
    /\ imem \in live /\ ~moved
    /\ addr[imem] <= iaddr /\ iaddr + LineBytes <= addr[imem] + size[imem]
    /\ iline = iaddr - addr[imem]

\* The call unmaps the line the program runs in.
CutOff == req.op = "unmap" /\ a < iaddr + LineBytes /\ iaddr < a + s

\* A syscall that returns to the program left the line it runs in mapped, and
\* its bytes as they were, whatever was merged, split or moved around it.
CodeStays ==
    [][cpu = "syscall" /\ cpu' = "run" => ~CutOff /\ LineBlock' = before]_emuVars

\* Every access and syscall comes back to the program, or ends it: in no list
\* that a program can make do the walks of mem_find_ and mmap_random run on.
ProgramGoesOn == cpu \in {"access", "syscall"} ~> cpu \in {"run", "exit"}

\* The emulator uses the memory map as MemMap says it may be used.
UsesMemMap == Spec
=============================================================================
