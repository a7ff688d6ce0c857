# EH3 in TLA+

EH3 is a 32-bit processor whose instructions are strings of bits, together with
everything needed to program it: an emulator in C, an assembler, a linker, a
disassembler and a debugger in Python, and a C compiler, a linker and a C
library ported to it (neatcc, neatld, neatlibc). The emulator can be compiled
for EH3 itself and run in itself.

This directory specifies the parts of that system where a mistake is easy to
make and hard to test, checks them with TLC and proves theorems about them with
TLAPS. Paths below are relative to `src/src/c` unless they start with `src/`.

## 1. Inventory

| component | state | operations | interacts with |
|---|---|---|---|
| guest memory map, `emu/mem.c` | a doubly linked list of mappings, each with a heap block of its bytes | `mem_map`, `mem_unmap`, `mem_find` | called by the emulator; its blocks are pointed into by the emulator and lent to the debugger |
| emulator, memory side, `emu/emu.c` | `imem`, `iline`, `iaddr`: pointers into the map's blocks | `mem_read`, `mem_write`, `do_goto`, `update_imem`, `do_syscall` | map; host kernel (syscalls that are passed through) |
| emulator, fetch, `emu/emu.c` | `iline`, `iaddr`, `ioff` | `decode_fetch`, `decode_align`, `do_goto` | the bytes of the current mapping |
| emulator, execution, `emu/emu.c` | 16 registers, `steps` | `decode_*`, `step` | fetch, memory |
| program loader, `emu/emu.c` | file offset, stack image | `load_eh3`, `load_elf`, `read_leb128`, `load_and_run` | map |
| debugger bridge, `emu/debug.c`, `src/src/py/debug.py` | `pc`, `trap`, the lent blocks | `debug_init`, `debug_hook`, `debug_fini` | map, registers |
| self-hosted emulator, `emu.eh3` | as the emulator, 32-bit cache line | as the emulator | the heap and the streams of `libc` |
| assembler, `src/src/py/asm` | symbol table, section sizes | parse, layout to a fixpoint, encode | object format |
| object and executable format, `src/src/py/{obj,exe,serialize}.py` | none | dump, load, signed LEB128 | linker, loader |
| linker, `src/src/py/ld.py` | section addresses, patched data | merge, place, relocate, merge segments | object format |
| compiler back end, `cc/eh3.c` | code, labels, pads, jumps | `i_*`, `i_align`, `i_shortjumps`, `i_done` | neatcc's `gen.c` |
| compiler's intermediate code, `cc/int.c` | intermediate instructions and their targets | `ic_*`, `o_*`, `io_deadcode` | front end, back end |
| compiler's register allocation, `cc/reg.c`, `cc/gen.c` | live regions of locals; what each register is assigned to, the live values | `reg_init`, `ic_gencode`, `o_func_end` | intermediate code, back end |
| compiler's output, `cc/out.c` | sections, symbols, relocations | `o_*`, `out_*`, `syms_sort` | back end, ELF objects |
| neatld, `ld/nld.c` | objects, section maps | link, archive fixpoint, relocate | ELF objects |
| C heap, `libc/malloc.c` | current pool, reference counts | `malloc`, `free`, `realloc` | the map, through `SYS_mmap`, `SYS_munmap` |
| C streams, `libc/stdio.c` | buffers, the byte pushed back | `fflush`, `oc`, `fclose`, `vsnprintf`, `ic`, `ungetc`, `fgets`, `fread` | host kernel |

The rest is a vendored compiler front end, a vendored C library, tracing,
crackmes and compiler tests; `PROJECT.json` lists each with the reason it is
left out.

The emulator is one thread without persistence, so there are no races and no
recovery. What makes it hard is sequences and wrap-around: any order of maps
and unmaps, each of which merges, splits, moves and frees blocks of memory the
emulator holds pointers into, and addresses that wrap to 0 exactly at the end of
memory, where the stack is. The source says so itself: "May contain all kinds
of overflow errors!" (`emu/mem.c:11`). What makes each component correct:

* **map** - mappings are disjoint, sorted, whole pages, merged when they touch
  and agree in protection; an unmap clears its range and nothing else; every
  byte keeps its value through merges, splits and moves; a lookup never grants
  more than one mapping holds; every call returns.
* **emulator over the map** - the instruction pointer is never stale; code that
  a syscall returns to is still there, unchanged.
* **processor** - an instruction does what the programmer's machine does, in
  every order of its reads, writes and faults.
* **fetch** - instructions are read as one stream of bits, across line
  boundaries and after aligns, up to the end of the mapping.
* **loader** - segments and stack do not overlap, a `.bss` is zero.
* **debugger** - the context handed out is that of the program, and resuming
  continues where it stopped.
* **register allocation** - every instruction finds its operands where its code
  looks for them, on every path; the caller's registers come back.
* **layout (assembler, back end)** - the iteration ends, and in the final code
  every label is where every jump expects it.
* **linkers** - sections do not overlap; every reference has its symbol's value;
  what they write can be loaded.
* **heap** - live blocks are disjoint, a pool goes when its last block does.
* **streams** - what is written arrives once and in order.

The hazards, each at its line, are in `PROJECT.json`.

## 2. Plan

Order: what everything else stands on comes first.

| step | modules | state |
|---|---|---|
| 1 | `Words`, `PageMap` (abstract), `MemMap`, `MCMemMap` | done |
| 2 | in `EmuProofs`, the theorems about the map | done |
| 3 | `Emu` (composition of the processor's pointer and `MemMap`), `EmuProofs` | done |
| 4 | `BitStream` (abstract), `Decode`, `MCDecode` | done |
| 5 | `Malloc`: pools with reference counts over mmap | done |
| 6 | `Isa`, `Cpu`, `Machine` (abstract): instructions, faults, breakpoints | done |
| 7 | `Assembler`, `Linker`, `Loader`, and `Toolchain`, which composes them with `Cpu` and shows that together they implement `Machine` | done |
| 8 | `Layout`: the compiler's last passes | done |
| 9 | `Stdio`: output under short and failing writes, input under short reads | done |
| 10 | `Nld`: `cc/out.c`, `ld/nld.c` and `load_elf` | done |
| 11 | `MallocProofs`, `DecodeProofs` (with the refinement of `BitStream`), `StdioProofs` | done |
| 12 | in `EmuProofs`, `MemMap`'s refinement of `PageMap` and what stands on it | done |
| 13 | `Statements`, `RegAlloc`: code for C statements, its registers and its frame | done |
| 14 | `FoldProofs`: induction over folds; with it the rest of `StdioProofs` and `RegAllocProofs` | done |
| 15 | `NldProofs`: archives; segments | done |
| 16 | `LayoutProofs`: dead code; the invariant of the last passes, `WholeCode`, `RelocsHit`; labels, `JumpsLand` | done |
| 17 | in `LayoutProofs`, `CallsAligned`; theorems about the rest of `Nld` and `Toolchain` | open |
| 18 | the rest of `int.c`; the debugger's hand-over of registers and blocks; the contents of heap blocks, for `realloc` | open |

## 3. Modules

**`Words`** - unsigned words modulo `MemSize`, and the rounding macros at the
head of `mem.c`. `Word` reduces a sum or a difference, so that every `+` and
`-` of the code that can wrap does so here, and those that cannot are left bare
(type correctness is the proof that they cannot).

**`PageMap`** - the abstract guest memory: for each byte its protection and its
content. It is the `pagemap` array of `fuzz()` in `emu/test/mem.c`, extended
with contents, lookups and writes. A call is made, served in one step, and
returns.

**`MemMap`** - `mem.c` itself. A mapping is a member of `Node`; `live` is the
set allocated; `addr`, `size`, `prot`, `prev`, `next` and `data` are the fields
of `mmap_t`; `mem` is the list head. A call's locals are `a` and `s` (the
rounded arguments), `cur` (`m`, `prev`, `this` or `lo`, of which only one is in
use at a time) and `hi`. `pc` names the block of code the call has come to:

| `pc` | code | actions |
|---|---|---|
| `entry` | rounding, and the head of the walk | `MapFixedEntry`, `MapAnywhereEntry`, `UnmapEntry`, `FindEntry` |
| `walk` | the loop of `mem_find_` | `Walk`, `WalkDone` |
| `gap` | the loop of `mmap_random` | `GapWalk`, `GapFound` |
| `new`, `merge` | `mmap_new` | `MapRefused`, `ExtendPrev`, `InsertNode`, `MergeNext`, `NoMergeNext` |
| `lohi`, `unlink`, `trimlo`, `trimhi` | `mem_unmap` | `LoHi`, `Unlink`, `UnlinkDone`, `SplitLo`, `TrimLo`, `KeepLo`, `TrimHi`, `KeepHi` |
| `found` | `mem_find`, `mem_write` | `FindDone`, `WriteDone`, `Fault` |
| `done` | return | `Return` |

Every iteration of a loop is a step, so an invariant holds between iterations.
A call's `mem_out` is left out (the loader is not modelled yet). `malloc` and
`free` are external: a node is any that is not live, and a freed one may come
back at once. Fresh and grown memory contains `Junk`.

**`Emu`** EXTENDS `MemMap` with the emulator's own pointer into it: `imem` (a
node), `iline` (an offset into its block) and `iaddr`. `cpu` says what the
processor is doing while the map works. The program is arbitrary: it may jump
to any line, run on, access memory, map, unmap and halt in any order. Two
history variables watch the real ones: `moved` becomes true when the block
`iline` points into is freed or reallocated, `before` is the line's content when
a syscall was made. `UsesMemMap` (proved) says that the emulator's use of the
map is a behaviour of `MemMap`, so that everything said of the map holds here.

**`BitStream`**, **`Decode`** - instruction fetch. `Decode` has the code's line
pointer, line address and line offset, with the shifts of `decode_fetch` as they
are, `Crosses` and the page-crossing test included, and stores that change the
code while it runs; `BitStream` has a bit address and reads `n` bits from it.
Their widths are constants: the native build has a 64-bit line and a 32-bit
word, the self-hosted one a 32-bit line.

**`Malloc`** - the heap of the C library. `pool` is the current pool, `msets`
the two counts at the start of every mapped pool, `blocks` what a program has
allocated and not freed, each with the word `free` finds before it; `mapped` is
the set of pages, which `mmap` (external) adds to wherever it likes, or fails.
The paths through `malloc` and `mk_pool` are `MallocFromPool`, `MallocReusing`,
`MallocNewPool`, `MallocNoPool` and `MallocLarge`, those through `free` are
`FreeInPool`, `FreePool` and `FreeLarge`. Sizes are kept as the code computes
them, the pointer arithmetic of line 52 included, which scales by the size of
the struct.

**`Isa`** - what tools and processor share: the numbers and widths of fields
(`emu/consts.h` and `py/consts.py`, which agree), words of bits, and what an
arithmetic instruction computes. The width of a byte is a constant, and a word
is four bytes, so that a word of sixteen bits has every case of one of 32.

**`Cpu`** - `step` of `emu.c`, with every decoder and every instruction. `ip`
counts bits; a field is read as `BitStream` promises, including the line that is
read ahead. An instruction is one step that lists its effects in the order of
the code (`push` lowers `SP` before the write that may fault). `cpu` is `off`,
`run`, or why it stopped: `halt`, `exit`, `segv`, `fpe`, `trap`. With `Debug`, a
`brk` calls the debugger once, which may step or go on. Memory is a
function on the mapped addresses: a program of this composition does not map.

**`Machine`** - the abstract specification of all of it: statements one behind
another, labels and registers by name, no bits. Where everything stands is
chosen when the program starts and does not change: `at` is where instructions
start, `behind` where they end. Both meet, unless the instruction has a `gap`
behind it, a word about the source alone: data, an allocation or an alignment
stands before the next instruction, or a label with data or an allocation
somewhere behind it in the section, or there is no next one. What control finds
in a gap that is not empty are zeros or data, which the processor executes:
`Lost` makes the program `astray`, and `Wander` then allows anything. Control is
lost only where an instruction ends (by going on, or by a call's return), never
by a jump to a label.

**`Assembler`** - `codegen` of `py/asm/codegen.py`, a statement per step, in
passes until no label moves. `env` holds the labels, those not yet passed as the
pass before left them; `LabelUnit` is the search for what a label aligns to,
which skips everything but data and allocations (`codegen.py:390`), so that
labels of code are padded too when data follows in the section; `gen_imm`, `gen_jmp` and the others are operators on expressions of a
number and up to two symbols.

**`Linker`** - `ld` of `py/ld.py`: `Archive` merges an object's symbols and
sections, `Place` gives a section its address, `Relocate` adds a symbol to a
field byte by byte with the code's carry, `Merge` makes segments. Its failures,
the exceptions nobody wrote included, are states.

**`Loader`** - `load_and_run`, `load_eh3` and `read_leb128`, with
`serialize.py`'s writer of the same numbers. One action per loop of the stack
image (strings of the environment, of the arguments, then the pointers), one per
segment.

**`Toolchain`** - a program in source, through `Assembler`, `Linker`, `Loader`
and `Cpu`, each of which starts when the one before has succeeded. Its variables
are theirs and `given`, the task, and `layout`, the addresses that the finished
executable gives to the source's statements; `M == INSTANCE Machine WITH ...`
is the refinement mapping, and `Current` the instruction at `ip`. `astray` is a
history variable: `ip` has been where an instruction of the program ends and none
starts (`Padded`). It says so for every step, so the mapping lets the program go
astray exactly when it did; any other place without an instruction is an error.

**`Layout`** - the compiler's last passes over a function: `ic_get`'s return,
`io_deadcode` with its renumbering (`int.c`), `ic_gencode` (`gen.c`), and
`i_ins`, `i_wrap`, `i_align`, `i_shortjumps`, `i_code` (`eh3.c`). Code is a
sequence of bits that know which instruction they come from, so that "every bit
is there once, in order" can be said; the program ends when a distance has no size
(`imm_size`). A padding, a label that moves, a jump that is
shortened is a step each. Which registers an instruction uses, its spills and
the frame are widths here: they change how long code is, not where it goes.
`RegAlloc` has them.

**`Statements`** - the intermediate code that `ncc.c` and the constructors of
`int.c` make of a C statement, an operator for each kind of expression and
statement, in the code's order: a local is an address until its value is wanted
(`ts_de`), the second operand of two locals is loaded first (`ts_pop_de2`), a
`for` puts its increment before its body, the value of `?:` goes through a new
local, arguments that are numbers or untouched locals are loaded last
(`ic_load`).

**`RegAlloc`** - what comes between: `reg_init` (live regions, and registers for
them), `ic_gencode` (one instruction per step) and the frame of `o_func_end` and
`i_wrap`; and then the code so made is run. The allocator's state is the record
`ra`: `vmap`, `lmap`, `live`, `vmax`, `regs`, `mem`, `maxargs` are `ra_vmap`,
`ra_lmap`, `ra_live`, `ra_vmax`, `func_regs`, `loc_mem`, `func_maxargs`, and
`out` is the code.

| `pc` | code | actions |
|---|---|---|
| `idle`, `reg` | `ic_get`, `reg_init` | `FuncEnd`, `RegInit` |
| `arg`, `gen` | `ra_init`, `ic_gencode` | `LoadArgs`, `GenCode` |
| `run` | the prologue, the body, the epilogue | `Begin`, `Move`, `Compute`, `LoadLocal`, `StoreLocal`, `StorePointer`, `Call`, `Jump`, `Return` |

Running computes nothing: `has[p]` is the set of names (the value of
instruction 3, local 2, what the caller had in `lr`) whose content a register or
a stack place holds. A copy copies the names; an instruction gives its register
its own name and takes the name from everywhere else; a store to a local does the
same with the local's; a call empties the registers that are not callee-saved and
the stack below its arguments. Conditional jumps go both ways, and a store
through a pointer changes any locals whose address was taken, or none. A step
`do` marks where in the code an instruction's own meaning takes place, the
copies around it are what the allocator added. `ResultRegs` is a set, for
`ra_map` reads `ic_luse` at the number of a register instead of a value
(`gen.c:342`), past the end of the array in a short function.

**`Stdio`** - one `FILE` of `stdio.c`. The kernel writes a part of what it is
asked to or nothing, and reads any part. A call with several bytes takes a step
per byte, as `oc` and `ic` do. `asked`, `stored` and `got` are history
variables: what the program put, what `oc` stored, what the program has read.

**`Nld`** - `out.c` (sections, local symbols sorted before global ones and
relocations renumbered), `nld.c` (objects, archives scanned until nothing is
added, layout, relocation, the executable) and `load_elf`. `elf.py` writes
objects of the same form, with other alignments and symbols in other order, and
`Unit`s say which tool made them.

**`MCMemMap`, `MCDecode`, `MCToolchain`, `MCLayout`, `MCRegAlloc`, `MCStdio`,
`MCNld`** -
constants and symmetry for TLC: the programs, functions and links to try.

**`EmuProofs` (the emulator and its map), `DecodeProofs`, `MallocProofs`,
`StdioProofs`, `RegAllocProofs`, `NldProofs`, `LayoutProofs`, and `FoldProofs`,
which the last four use** - section 5.

## 4. What the runs show

All bounds are CONSTANTS in the `.cfg` files or definitions of the MC modules.
Deadlock is checked in every run but `stdio`, whose stream comes to rest when it
is closed or has used up its bounds.

| run | bounds | shows |
|---|---|---|
| `map` | 5 pages of two bytes, of which 4 can be mapped (so the end of memory and 0 coincide), 4 nodes, 2 protections, addresses and sizes that round, wrap and do neither; accesses of 1 and 2 bytes | types, `Disjoint`, `SortedList`, `Merged`, `NoDangling`, `UnmapClears`, `FindHolds`, `PageAligned`; `MemMap` implements `PageMap`: contents and protections through every merge, split and move, and `mem_map(0, n)` is refused only when there is no room |
| `decode` | 2-bit bytes, lines of two words, two mappings that touch, the second at the end of memory; every jump target, also outside memory either way; one byte of memory non-zero at a time (`MaxStored`) | `Decode` implements `BitStream`; `LineInside`: `*iline` is never read outside the block |
| `emu` | 4 pages of two one-byte lines, 3 nodes, all programs | `LineValid`, `CodeStays`, and that every call of the map comes back (`ProgramGoesOn`) |
| `malloc` | 4-byte pointers, 8 pages, pools of 3; three small sizes (two that leave room in a pool, the largest) and a large one; `mmap` fails at any time | `BlocksApart`, `BlocksMapped`, `RefsCount`, `FreeTells`, `PoolReturned` |
| `toolchain` | 16-bit words, 16-byte pages, 8-byte lines, 6 passes; 2817 programs with their arguments (below) | `RunsAsWritten` (the refinement of `Machine`), `FieldsResolved`, `SectionsLoaded`, `ArgumentsFound`, `ComesToAnEnd` |
| `layout` | 3-bit bytes, immediates of up to 3 of them; every function of up to 3 instructions, and every one of 4 jumps and calls, in two frames, each followed by a second function | `JumpsLand`, `WholeCode`, `CallsAligned`, `RelocsHit`, `NothingLost` |
| `regalloc` | seven registers, two of them for arguments, one callee-saved; 1133 functions of two to five statements, with one to three arguments and up to three other locals, with -O1 and -O2 (below) | `OperandsHeld`, `LoadGivesLocal`, `PointersSeeLocals`, `CallerKept` |
| `stdio` | buffers of 1 and 3 bytes, up to 4 bytes put, 2 failing writes, 2 bytes pushed back; strings of 1 and 3 bytes | `OutputKept`, `NoneSkipped`, `StringCut`, `ReadOnce` |
| `nld` | 4-bit bytes, 32-byte pages, up to 5 objects; a unit that refers to two names from each of three bits, with up to three definitions of its own in every order, an archive of four whose members need later and earlier ones; objects and archives in every order; segments of every length around a word, stripped or not, page aligned or not, with and without addresses | `RefsLand`, `ArchiveResolves`, `SegmentsLoad` |

Why small is enough:

* `map`: the code's cases depend on how a range lies to at most three
  neighbouring mappings (`lo`, a covered one, `hi`) and on whether an end is the
  end of memory. Four mappable pages hold every such arrangement, and two-byte
  pages every way an address and a size can lie to a page. The number of nodes
  is always the largest number of mappings that fit, so the bound never
  blocks an allocation: `InsertNode` and `SplitLo` would deadlock without a free
  node. Nodes are interchangeable, hence the symmetry; no liveness property is
  checked with it.
* `decode`: one non-zero byte is enough because a fetch is linear in the bits it
  reads: if a bit came from a wrong place, one set bit shows it.
* `malloc`: the pages are as small as they can be without changing what line 52
  does: with 4-byte pointers its test adds 8 * (size + 4) to a page boundary,
  which for a `size` that is a multiple of 8 is never a multiple of 64, and so
  never one of 4096 either. The test is dead code on EH3; there a block is never
  page aligned because it starts 4 bytes after a multiple of 8, which is what
  `FreeTells` checks. (With 8-byte pointers the test is needed. The library is
  never built so here, and no run covers it.) Eight pages are two pools and a
  large block.
* `toolchain`: the programs of `MCToolchain` are chosen so that each part has its
  cases: two jumps over each other and a loop with 0 to 3 instructions of
  17 to 31 bits in between, so that both cross the bound of a size and need
  several passes; calls out of an object and back, between unaligned code, with
  data of one name in both objects; every operation and every comparison on
  numbers around zero and the sign bit; data, labels, alignments and
  allocations mixed; code of up to two instructions before a label, an alignment
  or a call, with data of each unit or an allocation later in the section, so that
  the padding in front of a label is empty or not and is run into or not
  (`Behind`); the loop and the jumps again with data behind, every label jumped
  to, where padding moves with the passes and nothing runs into it
  (`JumpingOver`); a segment whose size fills a group of LEB128 but the sign;
  every fault; two breakpoints and system calls; stacks with no arguments, and
  with more than fit; and what the assembler and the linker refuse. A 16-bit
  word puts all of it within reach of one memory; no width is special to the
  code but through the constants of `Isa`.
* `layout`: with bytes of 3 bits, three instructions already push a jump past
  the smallest size, and a fourth one past the next.
* `regalloc`: the smallest file of registers in which all roles are apart: the
  four that `mcpy` insists on, two for arguments, and a callee-saved one, so
  that expressions of five operands spill. Functions are one of five kinds: an
  expression in the middle of a block with calls in calls, arguments on the
  stack, `?:` and `&&` (`Evaluate`); branches and loops whose parts set, read or
  exchange locals and call (`Branches`, `Loops`); statements that write and read
  through a pointer to one of the locals (`Pointers`); three arguments, the last
  on the stack (`Arguments`). `CallerKept` needs a function with calls that have
  arguments on the stack and a callee-saved register, which `Evaluate` has.
  The compiler never gives up on one of them (`died`): that would be a deadlock.
  Every function runs along each of its paths: that a load finds a local is
  not asked when nothing was stored to it, where C leaves the value open.
* `nld`: eight bytes around a 32-bit field are read and written whichever bit it
  starts at; the three bits, with what precedes the field, reach the first and
  the last of them and the byte behind the section.

What the properties allow is what the source has:

* `RunsAsWritten`: a program whose control runs into the padding in front of a
  label goes astray (`codegen.py:390`), as it does when it runs into data or into
  what an `align` skips. In `mov a0, 1; .l: halt; d: db 1` the `mov` has 23 bits,
  and the zero bit that follows is where the next instruction is decoded from. A
  program is run as written as long as it jumps over every gap that is not
  empty. The library's sources do (`alignb` stands behind a jump or a return,
  `c/libc.eh3/eh3/syscall.s:27`, and there is no data in their text), and the
  example `py/asm/test/hello.asm` has its data in a section of its own.
* `PageMap`: a mapping that would fit exactly below the first one may be
  missed, as the code asks for more than enough room (`mem.c:179`). `BitStream`:
  a field that ends exactly where the mapping ends faults, for `Fetch` asks for
  the bit after it (`emu.c:356`); the same in `Cpu`, where the last instruction
  of a mapping faults.
* `FindHolds` is about lengths up to `MMAP_MIN_ADDR`. "Return mapping
  containing range" (`emu/mem.c:79`) and `0 == do_find(0x1000, ~0)`
  (`emu/test/mem.c:171`) say more: for a length beyond the end of the mapping the
  subtraction wraps and it is returned. The emulator's own lookups are at most
  eight bytes long.
* `PoolReturned`: one page may be lost. `free` unmaps a pool as far as it was
  used (`malloc.c:73`), and a pool whose blocks end where its last page starts
  is replaced, when a block does not fit, without that page having been touched.
* `SectionsLoaded`, `SegmentsLoad`: an empty segment cannot be mapped (an empty
  section makes an executable that does not load), and nld's `-s` makes a file
  shorter than its segments, over whose missing bytes `readn` never returns
  (`emu/util.c:58`), in two cases: after data that does not fill its words, and
  where there is no data and the code ends with an empty section, which is
  aligned but not written.
* `OutputKept`: until a write fails, and up to the last newline: `fclose` and
  exit flush nothing. `NoneSkipped`: after failures bytes may repeat (a short
  write leaves the whole buffer) and those `oc` dropped are missing, which it
  does not tell. `ReadOnce` says what was read, not where a block ends: `fread`
  compares a `char` with `EOF`, so the byte 255 ends it.

| run | what the source says | what the code does |
|---|---|---|
| `doc_word` | "imm(word): imm(32)" (`src/doc/NOTES.md:29`) | in the self-hosted build a word at the start of a line is or-ed with the next line |
| `doc_reloc` | "Copy upper bits" of what a relocation only partly covers (`src/src/py/ld.py:103`) | the carry of the last, partial byte is or-ed into the bit behind the field |
| `doc_load` | "load the value of local loc into register reg" (`cc/gen.c:482`) | of a local that only a loop's body sets and only its increment reads, a load may find an old value, or none |

`doc_load` is a program that the compiler translates wrongly with -O2:
`for (i = 0; i < n; i = k) k = i + 2;`. The increment stands before the body and
behind the jump to it, and `reg_region` goes back over that jump only to its
sources (`reg.c:107`), so that the region of `k` has a part for the increment
and one for the body, with the register given for each alone. At the end of the
body `ra_bbend` prepares the registers for what stands next in the code
(`gen.c:547`), which is the loop's exit, not the increment; there `k` is loaded from
its place on the stack, where nothing was stored.

Other disagreements that were met and have no run of their own:

* "Un-map all mapped memory in range" (`emu/mem.c:217`): a size that rounds up
  to 2^32 counts as empty. A program's `munmap` can ask for it.
* A NULL between the arguments and the environment (`libc/eh3/start.s:13`):
  `load_and_run` pushes none (`emu.c:1098`), so `environ` starts at the second
  variable. `ArgumentsFound` says what is there.
* The fuzzer of `emu/test/mem.c` maps any address from 0x1000 (lines 77, 129);
  everything below `MMAP_MIN_ADDR` is refused.
* "Align to unit boundary if followed by `Data` or `Alloc`" (`codegen.py:389`):
  the loop below it ends only at data or an allocation, so a label is aligned as
  the first of them anywhere behind it in its section, with code in between or
  not. `RunsAsWritten` has the exception (above).
* `codegen.py:281` means half the range: `1 << (sz - 1) - 1` is
  `1 << (sz - 2)`. An error on any pass is final, also one that would vanish
  when labels settle. A relocation by a local label is a `KeyError`. An
  allocation in the middle of a section emits its count in bytes whatever the
  unit.
* `ld.py`'s overflow warning takes the section's name from the last object,
  an `IndexError` when that has fewer sections; with a `.bss` an undefined
  `MEM_SIZE` ends it.
* A breakpoint met while the debugger single-steps is fatal. `debug.c:139-141`
  reads `mem->` in a loop over `m`.
* `nld`: the first of two global definitions of a name wins silently; COMMON is
  read but nothing emits it; built for EH3 itself, its `long long` of four
  bytes cannot hold the eight that relocation reads (`LongLong` is that size).

**Fairness.** `emu` takes weak fairness of `CallGoesOn`, the steps of a call of
the map: the emulator is one thread, and nothing in `mem.c` waits, so a call
that can take a step takes one. The program is assumed to do nothing.
`toolchain` takes weak fairness of its next step, written as `[]<><<Next>>_vars
\/ []<>Ended`: no tool waits for anything, and that nothing can be done only
when a tool or the program has ended is what the check for deadlock shows (only
`Rest`, which changes nothing, is possible then). The other runs need none.

The passes of the assembler are bounded by `FIXPOINT_LOOPS`, past which it
gives up. The programs of the run need up to four, the padded ones no more than
the others; that none can reach the bound is not claimed. The programs that go
astray come to an end as well, all of them by a fault; that is a fact about these
programs, for what garbage does is not bounded by anything.

Every property of a passing run has a mutant, an operator next to the original
in the module (`CanMapOntoNext` beside `CanMap`) that changes the code the way a
slip would and makes the run fail.

## 5. What is proved

For every page size, memory size, line size, set of nodes, of requests and of
byte values, of widths, of buffers and of blocks, of functions and of command lines, from the named assumptions
`WordsAssumption` (pages are not empty and memory is whole pages, starting not
below the first page), `MemMapAssumption` (`NULL` is no node, requests are
words), `EmuAssumption` (a line is not empty, pages are whole lines),
`DecodeAssumption` (mappings are whole lines, apart from each other and above
the lowest address; a word is no longer than a line), `MallocAssumption` and
`StdioAssumption` (sizes are positive, bytes are bytes), `RegAllocAssumption` (the
registers are numbered from 1, as many as `tmpregs` has; arguments come in
registers the callee need not keep; the frame pointer and LR are others) and
`SourcesAssumption` (what the front end and `ic_get` see to: operands are values
made before, a local takes at least a word, jumps go to instructions and the last
instruction is a return), and `LinksAssumption` (files are objects and archives of
units, at least one, and no object is named twice), and `LayoutAssumption` (operands are
values made before, a target is a place in the code or its end, a field for the size holds
every size, and an epilogue is not empty). Some theorems have a
hypothesis of their own: those about the heap `OnEH3` (pointers have four bytes
and a page is a multiple of 64 bytes), `FetchIsAStream` `LongLine` (a word is
shorter than a line), and `MapImplementsPages` `ShortReads` (an access has at
least one byte and at most `MMAP_MIN_ADDR`, and the mark the page map has for a
page that is not mapped is no protection). `CodeIsKept` needs the last of these too.

| theorem | says |
|---|---|
| `EmuProofs`' `Invariant` | `Spec => []IInv` |
| `TypeCorrect`, `MappingsDisjoint`, `ListSorted`, `MappingsMerged`, `NoUseAfterFree`, `UnmapComplete` | its named parts |
| `FindSound` | a successful `mem_find` returns a mapping that holds the range |
| `MappingsAligned` | mappings are whole pages |
| `MapImplementsPages` | `ShortReads`: `MemMap`'s `Spec` implies `PageMap`'s, `ImplementsPageMap` |
| `EmuUsesMemMap` | `EmuSpec` implies `MemMap`'s `Spec` |
| `NoStaleLine`, `EmuTypeCorrect` | an instruction never runs through a stale pointer |
| `CodeIsKept` | `CodeStays`: a syscall that returns to the program left its line mapped and as it was |
| `FetchInvariant`, `LineStaysInside` | a fetch never reads outside the block of the mapping |
| `FetchIsAStream` | `LongLine`: `Decode`'s `Spec` implies `BitStream`'s |
| `HeapInvariant` | `OnEH3`: the heap's `Spec => []HInv` |
| `FreeNeverMistaken`, `PoolsCounted`, `BlocksKeptApart`, `BlocksStayMapped` | its consequences, `FreeTells`, `RefsCount`, `BlocksApart`, `BlocksMapped` |
| `PoolsReturned` | `PoolReturned`, of every step |
| `StreamInvariant`, `OutputIsKept`, `StringIsCut`, `InputReadOnce` | a stream keeps what is put, a string what fits, and what is read is the file |
| `NoByteSkipped` | `NoneSkipped`: after failed writes bytes may repeat in the file, but none is missing |
| `RegAllocProofs`' `Invariant`, `CallersRegistersKept` | `CallerKept`: every compiled function gives its caller back the registers it must |
| `MembersLinkedOnce` | `ArchiveResolves`: archives are searched to the end, and no unit is linked twice |
| `SegmentsAreLoaded` | `SegmentsLoad`: what `nld` writes can be loaded, but for what the property excepts |
| `NothingNeededIsLost` | `NothingLost`: dead code is what nothing needs, and operands and targets are what they were |
| `LayoutSound` | `Layout`'s `Spec => []LayoutInv` |
| `CodeIsWhole`, `RelocationsHit` | `WholeCode`, `RelocsHit`: no bit of a function is lost or doubled, and every relocation is where its symbol is |
| `LabelsSound` | `Layout`'s `Spec => []LandInv` |
| `JumpsGoHome` | `JumpsLand`: every jump of the finished code, read as the processor reads it, goes where its source says |

**The map** (`EmuProofs`). None of the properties is inductive alone:
disjointness of a new mapping depends on `cur` being the highest mapping at or
below `a`, which depends on the order of the list, which the merge and the
unlinking keep only because mappings are disjoint. `IInv` is their conjunction
with `CallInv`, which says for each `pc` where the locals stand: `WalkInv` (the
walk has not passed the address, and at its end no mapping lies between),
`MapInv` (at `merge`, `cur` ends where the new range ends), `UnmapInv` (`lo`
lies below the range, `hi` is its successor in the list, and how much of the
range is cleared at each stage). `CanMapMeans`, `MappingEnds`, `RangeEnds` turn
the code's wrapping comparisons into plain ones once and for all; the list
operations are two lemmas, `InsertKeepsSorted` and `RemoveKeepsSorted`; each
action has a lemma with one step per conjunct. `CallInv`, and `CallAligned` below, are
part of what is proved and of no run.

**Pages** (`EmuProofs`). `AInv` adds that the rounded arguments of the running
call are whole pages. Given `IInv`, it is inductive: all sizes in `mem.c` are
sums and differences of multiples of the page size, which the provers are told
by way of `WholeMultiple` (division with an explicit quotient).

**The page map** (`EmuProofs`). A list of mappings stands for the memory
`Pages` and `Bytes` read off it. While a call is under way the abstract call has
not happened or already has, so most steps must leave this memory as it was
(`ShownAsBefore`) and the others may change it only inside the call's range
(`MemoryOutside`); there is one lemma of this kind for each step that touches the
list (`MergeNextKeeps` to `WriteWrites`). `PInv` adds to `IInv` and `AInv` what the
abstract call must be told: the locals are its rounded arguments, the value it
returns is the one the abstract call chose, and the places `mmap_random` passed
over had no room. The code's wrapped tests then agree with the page map's plain
ones: `CanMapIsFree` and `FreeCanMap` for a request, `HoldsIsReachable` and
`HoldsBeginsRun` for a lookup, which need that neighbours are merged. `ShortReads`
is needed for lookups only: `mem_find` subtracts `numb` from the end of the
mapping (`mem.c:84`), and a length greater than that end wraps.

**The emulator** (`EmuProofs`). `EInv` is `IInv`, `AInv`, `LineValid` and whom
the processor waits for. The syscall's return and the jump re-establish
`LineValid` by `GetMeans` (the wrapped comparison in `mem_find` means the line
is inside); running on to the next line keeps it because a mapping is whole
pages and so whole lines, which is where `AInv` is needed; an access keeps it
because a lookup and a write leave every mapping in its place
(`AccessKeepsMappings`).

**Code** (`EmuProofs`). `CodeInv` says of a syscall under way that every byte of
the line it was made from is still in memory as `before` has it, or in the range
the running `mem_unmap` cuts away. A step of the map keeps this because memory is
kept (the lemmas about the page map), because what `mem_map` accepts is free and so
is no byte of the line (`NewIsElsewhere`), and because only `LoHi` takes bytes away,
those it was asked to. At the return, `update_imem` finds the whole line in one
mapping; what was cut away is in none (`UnmapClears`), so nothing of the line was.
That `CutOff` means a byte in common, also for an empty range, takes that pages are
whole lines (`CutOffMeans`).

**Fetch** (`DecodeProofs`). `DInv` is `LineInside` with the types. It is
inductive because mappings are whole lines: `NextLineMeans` shows that the test
of `decode_fetch`, a comparison that wraps, finds the next line in the block or
the mapping at its end, also where memory ends. For the refinement, `RestMeans`
and `NextMeans` say which bits the two shifts deliver, and `AcrossTakes` that or-ed
together they are the next `n`. This is where `LongLine` is needed: only with a
field shorter than a line is the offset never 0 when a fetch crosses, and a
shift by the whole width of a line, which shifts by nothing, never taken. The
run `doc_word` is that case.

**The heap** (`MallocProofs`). `HInv` says of pools that they are whole pages,
mapped and apart, with a size that is a multiple of eight within the pool; of
small blocks that they lie at 4 modulo 8, below that size, in a pool, apart from
each other; of large ones that they have pages of their own; and of counts that
they are the number of small blocks. Bytes and pages are brought together by one lemma, `Spans`.
The three ways to cut a block from a pool share `TakeKeeps`, which needs of each
that the pool was there and had room. `NoBump` is that the test of line 52 never
succeeds on EH3, from which it follows that no small block starts a page and
`free` cannot mistake one.

**Streams** (`StdioProofs`). `SInv` adds to each property what it needs between
calls and within one: the buffer has room before every byte (`KeptInv`), a
string gets one call, which has begun when something is stored (`CutInv`), and
what was read, pushed back, buffered and left are the file in this order
(`InInv`), which every way of getting a byte takes from its front
(`GetsKeeps`). `CutAppend` is that cutting and appending commute.

`NoneSkipped` is a fold: it strikes from what was stored, one after the other, the
bytes it meets in the file and the buffer. `SkipInv` says without a fold that what
was stored lies in the file, in order and with other bytes in between (`Within`),
up to what is still in the buffer; a short write only adds bytes to the file
(`FlushSkipsNone`), and whatever lies in order in a sequence the fold strikes out
(`SkipInvMeans`).

**Folds** (`FoldProofs`). The community modules define a fold by a function that is
chosen to satisfy its equation, and the induction theorems of the library take an
operator. Both are got around by sets: `NatInd` is induction for the set of the
numbers for which something holds, from the well-foundedness of the natural
numbers; `Recursion` and `FoldExists` show that the functions exist, so that the
chosen one is one of them. `LeftKeeps` and `RightKeeps` are then what a loop
invariant is: what each step of a fold keeps, the fold keeps.

**The registers of the caller** (`RegAllocProofs`). What can go wrong is that the
code writes a permanent register that `o_func_end` does not save, or a slot of the
frame that overlaps where one is saved. The invariant has a part for each phase:

* while code is generated (`Generating`), the state of the allocator is in
  `Gens(Between(i))`: registers in the maps are registers, values are numbers below
  `NTMPS`' ranks, `regs` has every register the code made so far may write, `mem`
  and `vmax` every slot of a value, `maxargs` every argument on the stack, and every
  label is a place in the code. `Phase` records, within one instruction, what the
  next piece of code may write in addition. Each function of `gen.c` has a lemma that
  it keeps the phase (`SpillKeeps`, `VLoadKeeps`, `LLoadKeeps`, `BbendKeeps`, ...), its
  loops by `LeftKeeps`; `ra_map`'s registers are registers the instruction may use
  (`MapUsable`), and the regions of `reg.c` have registers there are (`GlobType`).
* at the end of the function this says of every step of the code that it writes
  `Target(ra)` only. `HomesApart` is the arithmetic of the frame: with the sizes
  `o_func_end` and `i_wrap` compute (`FrameSizes`, `SavedRegisters`, where the sum of
  the sizes of the locals is again a fold), no target is the `Home` of a register of
  the caller: the register itself when it is not saved, else its slot.
* while the code runs (`AtHome`), every register the caller keeps is at its home.
  Copies, stores to locals, stores through a pointer, calls and jumps leave it there
  (`MoveStep` to `JumpStep`); `ReturnStep` is the epilogue, which loads each from the
  slot the prologue saved it to.

Locals of no size are excluded by `SourcesAssumption`, for two of them would share a slot.

**Archives** (`NldProofs`). `NldInv` has three parts. `FilesInv`: what is compiled are
the objects of the first files. `ObjsInv`: every object linked is of a file read so far
(or of the archive being read), with the symbols it had there, and no unit is linked
twice. `RoundInv`: while a round over an index has added nothing, no name it has passed
is missing. A member is added only for a name that it defines, as every entry of an
index says (`IndexOf`), and that nothing linked defines, so it cannot be linked already
(`ArLinkNldInv`); for an object named on the command line the same follows from
`LinksAssumption`, that none is named twice - `nld` does not check that, and would link
it twice. A round that has added nothing leaves `objs` alone, so at its end `RoundInv` is
about the whole index, which is when `nld` goes on (`NothingMissing`). The index, the
symbols of an object and the sections are folds whose results lie in no set that could
be named beforehand, so each has a lemma that builds the fold's function from the empty
prefix on (`NamedFold` to `AssembledFold`); what the objects keep is then by `NatInd`.

**Segments** (`NldProofs`). `LaidInv` says of each program header what it is of: of
what `Packed` makes of the objects as they are now (`CodeLaid`, `DataLaid`, `BssLaid`),
with the places of sections in the file (`InsideFile`) and of what is mapped (`Stage`).
It is inductive because relocation changes bits only (`RelocatedAlike`) and `Packed`
depends on sizes and alignments (`PackedAlike`). `PackedTight` is what packing does:
sections lie behind each other, the last one ends where what is packed does, and so
does, of data, one that is not empty. From this follows that segments have
pages of their own (`SegmentsApart`: a page between them is enough wherever they
begin, `PagesApart`), so that one that cannot be mapped has no pages
(`EmptyIfFatal`); and that a segment ends where a section does that is in the file,
or is one of the two cases `SegmentsLoad` names (`StrippedIfShort`). The second of
them was found by this proof. The theorem supposes `DataClear`: an address given with
`-md` can lay the data over the code, and `nld` does not look.

**Dead code** (`LayoutProofs`). `NothingLost` names the least set that has every
effect and what its members read; `live[]`, filled from the end, is that set
(`LiveIsLeast`), for an instruction reads only earlier ones, so that the last one in
which the two differed would have no reason to. The new index of an instruction is a
number of elements below it (`CountStep`, `CountUp`), which keeps the order, and turns a
target into the first instruction that is left from there on (`AliveIsComplete`).

**The last passes** (`LayoutProofs`). A pass writes code to `cs` that it takes from
`loc.c`, and has moved only the entries of the tables it has passed. So nothing useful is
true of `cs` and the tables alone between two steps. The invariant is about the code as
it would be if the pass ended now: `Virtual` is what is written with what is still to
come, and `VRels`, `VJmps` are the tables with `diff` added from the cursors on.
`LayoutInv` says of these

* `CodeAt`: the bits of the instructions generated so far, and those of a frame when it
  is there, are in it once and in order, and `VRels` are the places of the words of
  symbols, in order;
* `JumpsAt`: `VJmps` are the places behind the heads of jumps; between them and the end
  of an immediate, whose size is the shortened one for jumps that have been passed,
  there is nothing but padding, size and value, and no two overlap;
* `TablesInv`: what is before a cursor lies in what is written, and what is not, does not;
* `PadInv`: the ends of calls still to come lie in no jump and not in what is written;
* `RetInv`: a return at the very end of the code is the last entry of the jumps, and
  nothing else points into it, so that `i_wrap` may cut it off;
* `LabInv`: every label that a jump names has been given.

Each step is then one of few operations on `Virtual`: an instruction is appended
(`AppendedKeeps`), the frame put around it (`FramedKeeps`), bits that are not real put in
or taken out at one place (`SplicedKeeps`), or such bits overwritten (`OverwrittenKeeps`).
For the splices, a padding and a shortened jump, it must be shown that the loops that
move the cursors, `while (at < n && off[at] < this)`, stop where the code at that place
begins (`CursorStops`, `CursorMoves`), so that the entries that move are those whose bits
do (`TableMoves`); where the comparison is `<=`, that an entry is never at the place
itself. `WholeCode` and `RelocsHit` are what `CodeAt` says when all is done; that a bit
has one place only follows from the order (`PlaceIs`).

**Labels and jumps** (`LayoutProofs`). `JumpsLand` needs a second invariant, `LandInv`,
which stands on `LayoutInv`. Again it is about the code as if the pass had ended:
`VLab(x)` is `lab_loc[x]`, moved by `diff` if the cursor has not passed it.

* `LabelsInv`: every label given is right before the first bit of its instruction or of
  what comes after it, and that bit is real (`LabelAt`). That it is real is what makes
  the label come behind a padding, never in it, and in front of a jump's head, never in
  its immediate. So a label is never inside of what a pass puts in or takes out
  (`LabelSpliced`);
* `CursorInv`: labels before the cursor are in what is written, so that the loops, of
  which one stops at the place itself and the other behind it, stop where they should;
* `TargetsInv`: entry `j` of `jmp_dst` is the label that the jump at entry `j` of
  `jmp_off` goes to, although these tables know nothing of instructions;
* `RetLab`, `PadsLab`: the label of a last return that `i_wrap` cuts off is where the
  epilogue will be, and so is it for padding after a call right before it;
* `FitInv`: the distance as it will be, were the pass over, has room in the size chosen
  before it, for each step of `i_shortjumps` can only bring it closer to zero
  (`Contracts`), on either side of the jump;
* `WriteInv`: the immediates of jumps passed by `i_code` hold size and distance, and what
  is written for one jump is not over that of another.

When the code goes out the tables are gone, and the invariant says of the code alone that
there is a size and a distance behind the head of every jump which take it to its target's
label (`Landed`). What is left is to read them: `SizeAtIs` and `SignedAtIs` show that the
sum the processor makes of the bits, with the sign extended, is what `o_i` took apart,
by induction over the bits, and `ImmSizeIs` that the size `imm_size` finds is one that
the distance fits. The powers of two in the model are a function of their own, `Pow2`,
because the prover has no facts about `^`; `PowersAre` and the lemmas after it supply them.
`LayoutInv` and `LandInv`, like `CallInv`, are part of what is proved and of no run.

Only model-checked: the refinement `RunsAsWritten`, everything else about `Toolchain`, of
`Layout` `CallsAligned`, and of `Nld` `RefsLand`. What is missing for `CallsAligned` is
that what is behind the end of a call is where `pads` says, that whatever is not real and
in no jump is before the next byte, and that the passes after `i_align` take out whole
bytes. `RefsLand` and `RunsAsWritten` are about what fields of bits are as numbers; a
proof needs that writing one leaves what others hold, that no two fields of a section
overlap, and what folds over definitions, statements and symbols put where, which is an
invariant for each of them. Of `RegAlloc`, `OperandsHeld`, `LoadGivesLocal` and
`PointersSeeLocals` are about every path through the code at once: a proof needs an
invariant that relates the maps of the allocator at every label to those at every jump to
it, and that the regions of `reg_region` are closed under the paths between loads and
stores; `LoadGivesLocal` does not hold for every function (run `doc_load`).
`ProgramGoesOn` and `ComesToAnEnd` are liveness under fairness, which the proof system
does not reach.

## 6. Not modelled, and why

* `PAGE_TABLE` in `mem.c`: compiled out (`mem.c:9`).
* `mem_protect`: declared, never defined; `SYS_mprotect` always returns -1.
* Allocation failure of the emulator: `do_malloc` ends the program, as every
  fault does.
* Protections are stored and compared but never enforced by the code; the model
  does the same.
* Syscalls passed through to the host write into guest blocks the emulator does
  not bound; they change no mapping and no pointer of the emulator. What they
  may do is not in the repository.
* `calloc` and `realloc`: the heap's model has no contents, so they are calls
  of `malloc` and `free`.
* A segment of `load_eh3` that is longer than its data (the code clears past the
  block, `emu.c:1008`): `ld.py` stops on such a section.
* The symbol table nld writes: nothing in the repository reads it.
* In `RegAlloc`: what words contain, so that a local of two bytes that is
  kept in a register without being cut to its size (`gen.c:530`) is not seen;
  functions with a variable number of arguments, which save all argument
  registers; `switch` and `goto`, which are made of the same jumps; -O0 but
  for one function, where every local is reached by its address.
* The optimisations of `int.c` other than dead code, and which bits an instruction of `eh3.c` has: their correctness is
  the meaning of C expressions, not of sequences or places. Types,
  declarations and the preprocessor of the front end (`ncc.c`, `cpp.c`, `tok.c`)
  are vendored and keep no state that later passes read.
* Parsing and lexing of assembly; formats of `printf` and `scanf` beyond their
  bytes; streams that are both read and written.
* The directories `*.eh3` are near-copies of the emulator and the compiler for
  EH3; the models cover them by their constants
  (width of a line, `long long`), and the lines mapped are those of the native
  ones.
* Tracing, the disassembler, the old emulator in Python, and everything marked
  `not_modelled` in `PROJECT.json`.
