-------------------------------- MODULE Stdio --------------------------------
(***************************************************************************)
(* Streams of the C library (libc/stdio.c and the input half of it in      *)
(* scanf.c): one FILE, used by one program.  The kernel may write less     *)
(* than it is asked to, or nothing, and read less.  A call that puts or    *)
(* gets several bytes does so one by one, and each may reach the kernel.   *)
(*                                                                         *)
(* A FILE is a file with a buffer, of one byte for stderr, that is either  *)
(* written or read, or a string of vsnprintf, which has no descriptor and  *)
(* whose buffer is the string.                                             *)
(***************************************************************************)
EXTENDS Integers, FiniteSetsExt, SequencesExt

CONSTANTS
    OutChars, InChars, \* bytes that are written and read, as numbers
    OutSizes,        \* osize of files: BUFSZ, or 1 for stderr
    StrSizes,        \* sizes of strings
    InSize,          \* isize
    Inputs,          \* contents of files that are read
    MaxPut,          \* bound: bytes a program writes
    MaxFails,        \* bound: writes that are not complete
    MaxUngets        \* bound: calls of ungetc

EOF == -1
NL  == 10

ASSUME StdioAssumption ==
    /\ OutChars \cup InChars \subseteq 0 .. 255
    /\ OutSizes \cup StrSizes \cup {InSize} \subseteq Nat \ {0}
    /\ Inputs \subseteq Seq(InChars)
    /\ {MaxPut, MaxFails, MaxUngets} \subseteq Nat

VARIABLES
    fd,              \* out, in, closed, or none for a string
    osize, obuf, ostat,
    file,            \* what has been written to the file
    back, ibuf,      \* the pushed back byte, and what ibuf still holds
    left,            \* what has not been read from the file
    call,            \* the call that is running, [fn |-> "none"] if none
    result,          \* of the last call
    asked, stored,   \* history: bytes given to oc, and those it took
    fails,           \* history: how many writes were not complete
    got, ungets      \* history: bytes the program has read and not put back

outVars == <<osize, obuf, ostat, file, asked, stored, fails>>
inVars  == <<back, ibuf, left, got, ungets>>
vars    == <<fd, outVars, inVars, call, result>>

Idle == [fn |-> "none"]

Init == /\ \/ fd \in {"in", "out"} /\ osize \in OutSizes
           \/ fd = "none" /\ osize \in {sz - 1 : sz \in StrSizes}
        /\ obuf = <<>> /\ ostat = 0 /\ file = <<>>
        /\ back = EOF /\ ibuf = <<>>
        /\ left \in (IF fd = "in" THEN Inputs ELSE {<<>>})
        /\ call = Idle /\ result = Idle
        /\ asked = <<>> /\ stored = <<>> /\ fails = 0
        /\ got = <<>> /\ ungets = 0

-----------------------------------------------------------------------------
(* Output.                                                                 *)

\* Mutant of After: a short write counts.
AfterAny(b, n) == IF n >= 0 THEN <<>> ELSE b
\* What is left to write after write returned n.
After(b, n) == IF n = Len(b) THEN <<>> ELSE b

\* fflush of the bytes b, which are what the buffer holds by now; good is
\* whether it returned 0.
Flush(b, good) ==
    \/ fd = "none" /\ good /\ obuf' = b /\ UNCHANGED <<file, fails>>
    \/ /\ fd = "out"
       /\ \E n \in {EOF} \cup 0 .. Len(b) :
              /\ good <=> n = Len(b)
              /\ fails' = IF good THEN fails ELSE fails + 1
              /\ fails' <= MaxFails
              /\ file' = file \o SubSeq(b, 1, n)
              /\ obuf' = After(b, n)

\* Mutant of Flushes: one byte too late.
FlushesLate(c, b) == c = NL \/ Len(b) > osize
Flushes(c, b) == c = NL \/ Len(b) = osize

\* Mutant of Counts: every byte counts.
CountsAll == TRUE
\* A byte counts if there is room for it.
Counts == Len(obuf) < osize

\* A call begins: of fputs, fwrite or vfprintf for a file, of the latter for a
\* string (vsnprintf).  The bytes are the string, or what the format makes.
Output(fn, bytes) ==
    /\ call = Idle
    /\ Len(asked) + Len(bytes) <= MaxPut
    /\ (fd = "out" \/ (fd = "none" /\ fn = "vfprintf" /\ asked = <<>>))
    /\ call' = [fn |-> fn, rest |-> bytes, beg |-> ostat, n |-> Len(bytes)]
    /\ UNCHANGED <<fd, outVars, inVars, result>>

\* oc, of the next byte.  Only fwrite looks at what it returns: it ends at the
\* first failure and does not count the byte that met it.
Oc ==
    /\ call.fn \in {"fputs", "fwrite", "vfprintf"} /\ call.rest # <<>>
    /\ LET c  == Head(call.rest)
           b  == IF Len(obuf) < osize THEN Append(obuf, c) ELSE obuf
           on == [call EXCEPT !.rest = Tail(@)]
       IN  /\ asked' = Append(asked, c)
           /\ stored' = IF Len(obuf) < osize THEN Append(stored, c) ELSE stored
           /\ ostat' = IF Counts THEN ostat + 1 ELSE ostat
           /\ IF ~Flushes(c, b)
              THEN obuf' = b /\ call' = on /\ UNCHANGED <<file, fails, result>>
              ELSE \E good \in BOOLEAN :
                       /\ Flush(b, good)
                       /\ IF good \/ call.fn # "fwrite" THEN call' = on /\ UNCHANGED result
                          ELSE /\ call' = Idle
                               /\ result' = [fn |-> "fwrite", n |-> call.n - Len(call.rest)]
    /\ UNCHANGED <<fd, osize, inVars>>

Returned == /\ call.fn \in {"fputs", "fwrite", "vfprintf"} /\ call.rest = <<>>
            /\ call' = Idle
            /\ result' = [fn |-> call.fn,
                          n  |-> CASE call.fn = "fputs"    -> 0
                                   [] call.fn = "fwrite"   -> call.n
                                   [] call.fn = "vfprintf" -> ostat - call.beg]
            /\ UNCHANGED <<fd, outVars, inVars>>

Fflush == /\ call = Idle /\ fd = "out"
          /\ \E good \in BOOLEAN :
                 Flush(obuf, good) /\ result' = [fn |-> "fflush", n |-> IF good THEN 0 ELSE EOF]
          /\ UNCHANGED <<fd, osize, ostat, asked, stored, inVars, call>>

\* fclose, or exit: nothing is flushed.
Fclose == /\ call = Idle /\ fd = "out"
          /\ fd' = "closed" /\ result' = Idle
          /\ UNCHANGED <<outVars, inVars, call>>

-----------------------------------------------------------------------------
(* Input.                                                                  *)

\* ic, which got c: the byte that was pushed back, one of the buffer, or one
\* of as much as the kernel gives to fill it; EOF at the end or on an error.
Ic(c) ==
    \/ /\ back # EOF /\ c = back
       /\ back' = EOF /\ UNCHANGED <<ibuf, left>>
    \/ /\ back = EOF /\ ibuf # <<>>
       /\ c = Head(ibuf) /\ ibuf' = Tail(ibuf) /\ UNCHANGED <<back, left>>
    \/ /\ back = EOF /\ ibuf = <<>>
       /\ \/ c = EOF /\ UNCHANGED <<back, ibuf, left>>
          \/ \E n \in {k \in 1 .. InSize : k <= Len(left)} :
                 /\ c = left[1]
                 /\ ibuf' = SubSeq(left, 2, n)
                 /\ left' = SubSeq(left, n + 1, Len(left))
                 /\ UNCHANGED back
Gets(c) == Ic(c) /\ got' = (IF c = EOF THEN got ELSE Append(got, c)) /\ UNCHANGED ungets

Fgetc == /\ call = Idle /\ fd = "in"
         /\ \E c \in InChars \cup {EOF} : Gets(c) /\ result' = [fn |-> "fgetc", n |-> c]
         /\ UNCHANGED <<fd, outVars, call>>

\* Mutant of Pushes: a byte that is pushed back replaces the one before.
PushesAny == TRUE
\* ungetc keeps what was pushed back before.
Pushes == back = EOF
\* The byte the program read last is pushed back (vfscanf never does more).
Ungetc == /\ call = Idle /\ got # <<>> /\ ungets < MaxUngets
          /\ IF Pushes THEN back' = got[Len(got)] /\ got' = SubSeq(got, 1, Len(got) - 1)
                       ELSE UNCHANGED <<back, got>>
          /\ ungets' = ungets + 1
          /\ result' = [fn |-> "ungetc", n |-> back']
          /\ UNCHANGED <<fd, outVars, ibuf, left, call>>

\* fgets and fread, of at most n bytes; want is how many are still wanted.
Input(fn, n) == /\ call = Idle /\ fd = "in"
                /\ call' = [fn |-> fn, want |-> n, n |-> n, s |-> <<>>]
                /\ UNCHANGED <<fd, outVars, inVars, result>>

\* The next byte, unless there are enough or one ends the call: a newline ends
\* fgets, and whatever equals EOF as a char ends fread, which has it in its
\* buffer then but does not count it.
InByte(c) ==
    /\ call.fn \in {"fgets", "fread"} /\ call.want > 0
    /\ Gets(c)
    /\ call' = [call EXCEPT !.s = IF c = EOF THEN @ ELSE Append(@, c),
                            !.want = IF c = EOF \/ (call.fn = "fgets" /\ c = NL)
                                        \/ (call.fn = "fread" /\ c = 255) THEN 0 ELSE @ - 1,
                            !.n = IF call.fn = "fread" /\ c \in {255, EOF} THEN @ - call.want
                                  ELSE @]
    /\ UNCHANGED <<fd, outVars, result>>

InReturned == /\ call.fn \in {"fgets", "fread"} /\ call.want = 0
              /\ call' = Idle
              /\ result' = IF call.fn = "fgets" THEN [fn |-> "fgets", s |-> call.s]
                           ELSE [fn |-> "fread", s |-> call.s, n |-> call.n]
              /\ UNCHANGED <<fd, outVars, inVars>>

-----------------------------------------------------------------------------

Writes == UNION {[1 .. n -> OutChars] : n \in 1 .. MaxPut}

Next == \/ \E fn \in {"fputs", "fwrite", "vfprintf"}, s \in Writes : Output(fn, s)
        \/ Oc \/ Returned \/ Fflush \/ Fclose
        \/ Fgetc \/ Ungetc
        \/ \E n \in 1 .. InSize + 1 : Input("fgets", n) \/ Input("fread", n)
        \/ \E c \in InChars \cup {EOF} : InByte(c)
        \/ InReturned

Spec == Init /\ [][Next]_vars

-----------------------------------------------------------------------------
(* Properties.                                                             *)

\* Until a write fails, the file and the buffer hold what was put, in order and
\* once, whatever the calls, lines and buffer sizes (oc and fflush); between
\* calls the buffer holds less than a line, which is all that fclose and exit
\* can lose (oc, line 80).
OutputKept ==
    fd # "none" /\ fails = 0 =>
        /\ file \o obuf = asked
        /\ call = Idle => Len(obuf) < osize /\ \A k \in DOMAIN obuf : obuf[k] # NL

\* Whether writes are complete or not, no byte that oc stored is skipped: a
\* short write may repeat bytes in the file, and the rest is written again
\* (fflush, lines 66 to 71).
NoneSkipped ==
    FoldLeft(LAMBDA rest, c : IF rest # <<>> /\ Head(rest) = c THEN Tail(rest) ELSE rest,
             stored, file \o obuf) = <<>>

\* vsnprintf makes as much of the string as there is room for before its end,
\* and vfprintf tells how much that was, not how much there would be
\* (vfprintf's ostat - beg, and vsnprintf's osize of sz - 1).
StringCut ==
    fd = "none" /\ result.fn = "vfprintf" =>
        /\ obuf = (IF Len(asked) <= osize THEN asked ELSE SubSeq(asked, 1, osize))
        /\ result.n = Len(obuf)

\* What the program has read is the file, from its start and without a gap or
\* a repetition, however it is read: by byte, line or block, in whatever
\* pieces the kernel gives, with bytes pushed back in between (ic, ungetc).
ReadOnce ==
    fd = "in" =>
        got \o (IF back = EOF THEN <<>> ELSE <<back>>) \o ibuf \o left \in Inputs
=============================================================================
