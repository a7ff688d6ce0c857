------------------------------- MODULE Words -------------------------------
(***************************************************************************)
(* Unsigned machine words (types.h) and the page rounding macros of        *)
(* emu/mem.c.  A word counts modulo MemSize (2^32 in the program), and     *)
(* every address and size of the memory map is one.                        *)
(***************************************************************************)
EXTENDS Integers

CONSTANTS
    PageSize,        \* PAGE_SIZE: the unit every mapping is rounded to
    MemSize,         \* MEM_SIZE: number of words, the first address that wraps
    MMAP_MIN_ADDR    \* the lowest address a mapping may have

ASSUME WordsAssumption ==
    /\ PageSize \in Nat /\ MemSize \in Nat /\ MMAP_MIN_ADDR \in Nat
    /\ 0 < PageSize /\ PageSize <= MMAP_MIN_ADDR /\ MMAP_MIN_ADDR < MemSize
    /\ MMAP_MIN_ADDR % PageSize = 0
    /\ MemSize % PageSize = 0

Words == 0 .. MemSize - 1

\* Reduction modulo MemSize of the sum or the difference of two words (and of
\* the slightly larger sums in RoundUp): at most one turn either way.
Word(x) == IF x < 0 THEN x + MemSize
           ELSE IF x >= MemSize THEN x - MemSize
           ELSE x

\* x & ~PAGE_MASK
PageDown(x) == x - (x % PageSize)

\* Mutant of RoundSize: the mask is missing.
RoundSizeUnmasked(size) == Word(size + PageSize - 1)

\* ROUND_SIZE.  A size within a page of MemSize wraps to 0.
RoundSize(size) == PageDown(Word(size + PageSize - 1))

\* The size ROUND_ADDR_SIZE computes (the address becomes PageDown(addr)):
\* whole pages from the first to the last one that addr .. addr+size-1 touches.
RoundUp(addr, size) == PageDown(Word((addr % PageSize) + size + PageSize - 1))

\* LAST_BYTE: the last address of a range, which does not wrap for a range
\* that ends exactly at MemSize.
LastByte(addr, size) == Word(Word(addr + size) - 1)
=============================================================================
