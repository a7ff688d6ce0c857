----------------------------- MODULE Toolchain -----------------------------
(***************************************************************************)
(* From source to a running program: each object is assembled, the objects *)
(* are linked, the executable is loaded, and the processor runs it.  The   *)
(* tools are run one after another, as by a makefile, and none starts      *)
(* when the one before it failed.                                          *)
(***************************************************************************)
EXTENDS Assembler, Linker, Loader

LOCAL INSTANCE SequencesExt
LOCAL INSTANCE FiniteSetsExt

CONSTANT Tasks       \* records: program, the sources of the objects, and the
                     \* strings argv and envp it is run with

VARIABLES
    program,         \* the sources
    meant,           \* history: what they mean
    layout,          \* history: where everything is, once it runs
    astray           \* history: what no instruction stands at was executed

vars == <<program, meant, layout, astray, asmVars, linkVars, cpuVars, bootVars>>

-----------------------------------------------------------------------------
(* What a program means: the text and the data of Machine.                 *)

\* All statements, as triples of object, section and place, in order.
Places(prog) ==
    LET secs(o) == prog[o].sections
        inSec(o, x) == [j \in DOMAIN secs(o)[x].stmts |-> <<o, x, j>>]
        inObj(o) == FlattenSeq([x \in DOMAIN secs(o) |-> inSec(o, x)])
    IN  FlattenSeq([o \in DOMAIN prog |-> inObj(o)])
StmtAt(prog, q) == prog[q[1]].sections[q[2]].stmts[q[3]]
InstPlaces(prog) == SelectSeq(Places(prog), LAMBDA q : StmtAt(prog, q).k = "inst")

\* What a name means in object o: the object's own label or the one another
\* object declares global, if any does.
Qualified(prog, o, l) ==
    LET declares == {n \in DOMAIN prog : l \in prog[n].globals}
    IN  IF l \in Symbols(prog[o]) THEN <<o, l>>
        ELSE IF declares # {} THEN <<Min(declares), l>> ELSE <<0, l>>
MeantArg(prog, o, x) ==
    IF x.t # "expr" THEN x
    ELSE [t |-> "expr", n |-> x.n,
          a |-> Qualified(prog, o, x.a), s |-> Qualified(prog, o, x.s)]

\* Between two instructions stands nothing but labels, and no data follows,
\* or what follows may not be where the first one ends.
Apart(stmts, j, to) ==
    \E m \in j + 1 .. to - 1 :
        \/ ~IsLabel(stmts[m])
        \/ \E n \in m + 1 .. Len(stmts) : stmts[n].k \in {"data", "alloc"}

MeantText(prog) ==
    LET ps == InstPlaces(prog)
        sec(k) == SubSeq(ps[k], 1, 2)
        last(k) == k = Len(ps) \/ sec(k + 1) # sec(k)
        stmts(k) == prog[ps[k][1]].sections[ps[k][2]].stmts
    IN  [k \in DOMAIN ps |->
            LET s == StmtAt(prog, ps[k])
            IN  [op   |-> s.op,
                 args |-> [j \in DOMAIN s.args |-> MeantArg(prog, ps[k][1], s.args[j])],
                 gap  |-> last(k) \/ Apart(stmts(k), ps[k][3], ps[k + 1][3]),
                 last |-> last(k)]]

\* Places of labels, with the first statement after each that is no label.
Marked(prog, q) ==
    LET stmts == prog[q[1]].sections[q[2]].stmts
        after == {j \in q[3] .. Len(stmts) : ~IsLabel(stmts[j])}
    IN  IF after = {} THEN q ELSE <<q[1], q[2], Min(after)>>
Marks(prog, kind) ==
    {<<q, Marked(prog, q)>> : q \in {x \in Range(Places(prog)) :
        /\ StmtAt(prog, x).k = "label"
        /\ StmtAt(prog, Marked(prog, x)).k = kind}}
MeantLabels(prog, kind, what(_)) ==
    LET ms == Marks(prog, kind)
        name(m) == <<m[1][1], StmtAt(prog, m[1]).l>>
    IN  [n \in {name(m) : m \in ms} |-> what((CHOOSE m \in ms : name(m) = n)[2])]

Meaning(prog) ==
    LET ps == InstPlaces(prog)
        data(q) == [unit |-> StmtAt(prog, q).unit,
                    xs |-> [j \in DOMAIN StmtAt(prog, q).xs |->
                               MeantArg(prog, q[1], StmtAt(prog, q).xs[j])]]
    IN  [places |-> ps, text |-> MeantText(prog),
         code |-> MeantLabels(prog, "inst", LAMBDA q : CHOOSE k \in DOMAIN ps : ps[k] = q),
         data |-> MeantLabels(prog, "data", data),
         entry |-> Qualified(prog, 1, "_start")]

\* Where the tools put the instructions and the labels.
Section(o, x) ==
    linked.sections[x + FoldLeft(LAMBDA n, m : n + Len(program[m].sections), 0,
                                 [m \in 1 .. o - 1 |-> m])]
BitAddr(o, x, off) == Section(o, x).addr * SIZE_B + off
AllSymbols == UNION {Symbols(program[o]) : o \in DOMAIN program}
\* Where the n-th statement after an instruction starts.
After(k, n) == LET q == meant.places[k]
               IN  BitAddr(q[1], q[2], Section(q[1], q[2]).starts[q[3] + n])
Chosen ==
    [at     |-> [k \in DOMAIN meant.places |-> After(k, 0)],
     behind |-> [k \in DOMAIN meant.places |-> After(k, 1)],
     where |-> [n \in {m \in (DOMAIN objs) \X AllSymbols : m[2] \in Symbols(program[m[1]])} |->
                LET d == objs[n[1]].labels[n[2]]
                IN  BitAddr(n[1], d.sec, d.off)]]

-----------------------------------------------------------------------------
(* The tools, one after another.                                           *)

given == <<program, meant>>

Init == /\ \E task \in Tasks : program = task.program /\ BootInit(task.argv, task.envp)
        /\ meant = Meaning(program)
        /\ layout = [at |-> <<>>, behind |-> <<>>, where |-> <<>>]
        /\ astray = FALSE
        /\ AsmInit(program[1])
        /\ LinkInit
        /\ CpuInit

Assembles == /\ Assemble
             /\ UNCHANGED <<given, layout, astray, linkVars, cpuVars, bootVars>>

\* An object is finished; the linker, which reads them all in the end, merges
\* them in the same order.  The assembler is run for the next one.
Archive == /\ asm = "done" /\ Len(objs) < Len(program)
           /\ Merge(Object)
           /\ IF Len(objs) + 1 = Len(program) THEN UNCHANGED asmVars
              ELSE AsmAgain(program[Len(objs) + 2])
           /\ UNCHANGED <<given, layout, astray, cpuVars, bootVars>>

Links == /\ Len(objs) = Len(program)
         /\ Place \/ Relocate \/ WriteExe
         /\ UNCHANGED <<given, layout, astray, asmVars, cpuVars, bootVars>>

Loads == /\ ld = "done"
         /\ \/ Boot(exe) /\ UNCHANGED layout
            \/ Enter(exe) /\ layout' = Chosen
         /\ UNCHANGED <<given, astray, asmVars, linkVars>>

\* The processor does not know padding from code.
Padded(b) == b \in Range(layout.behind) \ Range(layout.at)
Runs == /\ Step
        /\ astray' = (astray \/ (cpu' = "run" /\ Padded(ip')))
        /\ UNCHANGED <<given, layout, asmVars, linkVars, bootVars>>

\* A tool gave up or the program ended: nothing more happens.
Ended == \/ asm \in {"error", "fixpoint"}
         \/ ld \in {"died", "crash"}
         \/ boot = "died"
         \/ cpu \in {"halt", "exit", "segv", "fpe", "trap"}
Rest == Ended /\ UNCHANGED vars

Next == Assembles \/ Archive \/ Links \/ Loads \/ Runs \/ Rest

Spec == Init /\ [][Next]_vars

\* Weak fairness of Next, with Ended for what Next cannot go on from: that
\* nothing but Rest happens only then is what the check for deadlock shows.
FairSpec == Spec /\ ([]<><<Next>>_vars \/ []<>Ended)

-----------------------------------------------------------------------------
(* The machine the programmer has in mind.                                 *)

\* The instruction the processor is at, if it is at one.
Started == cpu # "off"
Current == IF ~Started THEN 1
           ELSE IF ip \notin Range(layout.at) THEN 0
           ELSE CHOOSE k \in DOMAIN layout.at : layout.at[k] = ip

M == INSTANCE Machine WITH
        text <- meant.text, code <- meant.code, data <- meant.data, entry <- meant.entry,
        at <- layout.at, behind <- layout.behind, where <- layout.where, pc <- Current,
        regs <- IF Started THEN regs ELSE <<>>, mem <- IF Started THEN mem ELSE <<>>,
        st <- IF astray THEN "astray" ELSE cpu

-----------------------------------------------------------------------------
(* Properties.                                                             *)

\* Whatever sizes the jumps took, wherever labels, objects and segments went:
\* the processor does what the source says, instruction by instruction, with
\* labels that mark what they mark in the source, calls that return behind
\* themselves, and data where its label is (codegen.py, ld.py, load_and_run
\* and step together).  It goes astray only where padding, alignment or data
\* stands between the instruction it comes from and the next.
RunsAsWritten == M!Spec

\* In an assembled object every label stands where the statement behind it
\* starts, alignment included, after however many passes and shortened jumps
\* (codegen.py, lines 388 to 408).  Uninitialized data is left out.
LabelsMark ==
    asm = "done" =>
        \A x \in DOMAIN sections : LET stmts == source.sections[x].stmts IN
            \A j, m \in DOMAIN stmts :
                /\ j < m /\ stmts[m].k \notin {"label", "alloc"}
                /\ \A n \in j .. m - 1 : IsLabel(stmts[n])
                => env[stmts[j].l] = [sec |-> x, off |-> sections[x].starts[m]]

\* The bits of a section before and after linking.
BitsOfBytes(data) == FlattenSeq([k \in DOMAIN data |-> BitsOf(data[k], SIZE_B)])
SectionsBefore(o) == FoldLeft(LAMBDA n, m : n + Len(objs[m].sections), 0, [m \in 1 .. o - 1 |-> m])
FieldBits(data, r) == SubSeq(BitsOfBytes(data), r.off + 1, r.off + r.size)
Original(r) == objs[r.obj].sections[r.sec - SectionsBefore(r.obj)].data

\* A linked field holds the sum of what the assembler left there and of the
\* symbol's address or distance, across however many bytes it is spread
\* (ld.py, lines 74 to 108).
FieldsHold ==
    ld = "done" =>
        \A n \in DOMAIN linked.relocs :
            LET r   == linked.relocs[n]
                sym == CHOOSE s \in Lookup(linked.symbols, r.sym, r.obj) : TRUE
            IN  ValueOf(FieldBits(linked.sections[r.sec].data, r))
                  = (ValueOf(FieldBits(Original(r), r)) + Value(r, sym)) % 2 ^ r.size

\* Every reference of a linked program is to the address of the statement that
\* its label names in the source.
FieldsResolved == LabelsMark /\ FieldsHold

\* Once the executable is loaded, memory holds every section at the address
\* the linker resolved symbols with, whatever became of it in segments, a
\* file and blocks of memory; and it can be loaded: its segments do not overlap
\* by pages nor reach the stack, and their numbers survive the file, unless a
\* segment is empty (ld.py, lines 118 to 149, serialize.py, read_leb128 and
\* load_eh3).
SectionsLoaded ==
    /\ [](boot = "segments" /\ todo > Len(exe.segments) =>
              \A x \in DOMAIN linked.sections :
                  LET s == linked.sections[x]
                  IN  \A k \in DOMAIN s.data : mem[s.addr + k - 1] = s.data[k])
    /\ [][boot = "segments" /\ boot' = "died" =>
              \E k \in DOMAIN exe.segments : exe.segments[k].size = 0]_vars

Strings(at0, strings) ==
    \A k \in DOMAIN strings :
        \A c \in DOMAIN strings[k] :
            mem[Word(Load(Word(at0 + 4 * (k - 1)), 4) + c - 1)] = strings[k][c]

\* When the strings are in place a program finds the number of arguments at
\* its stack pointer, which is aligned, the pointers to them behind it, those
\* to the environment next, without the NULL that libc/eh3/start.s steps over,
\* and a zero at the end (load_and_run, lines 1070 to 1106).
ArgumentsFound ==
    boot = "segments" =>
        LET args == Word(regs[SP] + 4)
            envs == Word(args + 4 * Len(argv))
        IN  /\ regs[SP] % 4 = 0
            /\ Load(regs[SP], 4) = Len(argv)
            /\ Strings(args, argv) /\ Strings(envs, envp)
            /\ Load(Word(envs + 4 * Len(envp)), 4) = 0

\* The tools end, and a program that ends as written does so on the processor,
\* breakpoints or not: passes over moving labels are bounded, reading strings
\* and segments ends, and calls return behind themselves.
ComesToAnEnd == <>Ended

\* ld.py, line 103, "Copy upper bits": what is not in a relocated field stays
\* as it was assembled.
RestKept ==
    ld = "done" =>
        \A n \in DOMAIN linked.relocs :
            LET r    == linked.relocs[n]
                new  == BitsOfBytes(linked.sections[r.sec].data)
                old  == BitsOfBytes(Original(r))
                in(q, b) == q.sec = r.sec /\ b \in q.off + 1 .. q.off + q.size
            IN  \A b \in DOMAIN new :
                    (\A m \in DOMAIN linked.relocs : ~in(linked.relocs[m], b)) => new[b] = old[b]
=============================================================================
