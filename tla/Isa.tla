-------------------------------- MODULE Isa --------------------------------
(***************************************************************************)
(* What the assembler, the linker and the emulator share: the numbering    *)
(* and the widths of the fields of instructions (emu/consts.h, with the    *)
(* same values in py/consts.py), words of bits, and what an arithmetic     *)
(* instruction computes.                                                   *)
(***************************************************************************)
EXTENDS Integers, FiniteSetsExt, SequencesExt

CONSTANTS
    SIZE_B,          \* bits of a byte, 8 in the code
    PageSize,        \* bytes of a page
    LineBytes        \* bytes the processor fetches at a time

SIZE_H == 2 * SIZE_B
SIZE_T == 3 * SIZE_B
SIZE_W == 4 * SIZE_B

ASSUME IsaAssumption ==
    /\ SIZE_B \in Nat /\ 4 <= SIZE_B
    /\ {PageSize, LineBytes} \subseteq Nat \ {0}
    /\ LineBytes * SIZE_B > SIZE_W /\ PageSize % LineBytes = 0

OP_SZ   == 4
REG_SZ  == 4
ALT_SZ  == 2
JCC_SZ  == 3
SZ_SZ   == 2
EXT_SZ  == 1
SIGN_SZ == 1

OP_NAMES   == <<"load", "store", "push", "pop", "add", "sub", "mul", "divmod",
                "xor", "and", "or", "shl", "shr", "call", "JCC", "ALT">>
ALT_NAMES  == <<"syscall", "halt", "align", "brk">>
JCC_NAMES  == <<"jmp", "jz", "je", "jne", "jl", "jle", "jg", "jge">>
SZ_NAMES   == <<"byte", "half", "trib", "word">>
EXT_NAMES  == <<"zx", "sx">>
SIGN_NAMES == <<"unsigned", "signed">>

ZZ == 0
SP == 14
LR == 15
Regs == 0 .. 15

-----------------------------------------------------------------------------
(* Bits, least significant first.                                          *)

BitsOf(x, n) == [j \in 1 .. n |-> (x \div 2 ^ (j - 1)) % 2]
ValueOf(bs)  == FoldRight(LAMBDA b, v : b + 2 * v, bs, 0)

Zeros(n) == [j \in 1 .. n |-> 0]

\* What brings n to a multiple of unit.
Padding(n, unit) == (-n) % unit

PageUp(x)   == x + Padding(x, PageSize)
PageDown(x) == x - (x % PageSize)

Word(x)    == x % 2 ^ SIZE_W
Words      == 0 .. 2 ^ SIZE_W - 1

\* The word, or another field of n bits, read as a signed number.
Signed(x, n) == IF x < 2 ^ (n - 1) THEN x ELSE x - 2 ^ n

Bytes(x, n) == [k \in 0 .. n - 1 |-> (x \div 2 ^ (SIZE_B * k)) % 2 ^ SIZE_B]

-----------------------------------------------------------------------------
(* Arithmetic.                                                             *)

Bitwise(f(_, _), x, y) == LET a == BitsOf(x, SIZE_W)
                              b == BitsOf(y, SIZE_W)
                          IN  ValueOf([j \in 1 .. SIZE_W |-> f(a[j], b[j])])

\* val2 & 31: how far a shift goes.
Shift(y) == y % SIZE_W

\* C's division, which truncates; there is no quotient by zero, nor for the
\* least number by -1.
Abs(x) == IF x < 0 THEN -x ELSE x
Quotient(x, y) == LET q == Abs(x) \div Abs(y)
                  IN  IF (x < 0) = (y < 0) THEN q ELSE -q
Remainder(x, y) == x - y * Quotient(x, y)

Number(signed, x) == IF signed THEN Signed(x, SIZE_W) ELSE x
Divides(signed, x, y) == /\ y # 0
                         /\ ~(signed /\ x = 2 ^ (SIZE_W - 1) /\ y = 2 ^ SIZE_W - 1)

Compute(op, signed, x, y) ==
    CASE op = "add" -> Word(x + y)
      [] op = "sub" -> Word(x - y)
      [] op = "mul" -> Word(x * y)
      [] op = "and" -> Bitwise(LAMBDA a, b : a * b, x, y)
      [] op = "or"  -> Bitwise(LAMBDA a, b : a + b - a * b, x, y)
      [] op = "xor" -> Bitwise(LAMBDA a, b : (a + b) % 2, x, y)
      [] op = "shl" -> Word(x * 2 ^ Shift(y))
      [] op = "shr" -> IF signed THEN Word(Signed(x, SIZE_W) \div 2 ^ Shift(y))
                                 ELSE x \div 2 ^ Shift(y)

Holds(op, signed, x, y) ==
    LET a == Number(signed, x)
        b == Number(signed, y)
    IN  CASE op = "je"  -> x = y
          [] op = "jne" -> x # y
          [] op = "jl"  -> a < b
          [] op = "jle" -> a <= b
          [] op = "jg"  -> a > b
          [] op = "jge" -> a >= b
=============================================================================
