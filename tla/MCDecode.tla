------------------------------ MODULE MCDecode ------------------------------
(* Instances of Decode for TLC.                                            *)
EXTENDS Decode

\* Two mappings that touch, the second one up to the end of memory.
TwoRegions == {[addr |-> 4, size |-> 8], [addr |-> 12, size |-> 4]}
AllPatterns == [0 .. ByteBits - 1 -> {0, 1}]
\* Every bit of memory, and jumps that wrap either way.
AllTargets == -3 .. MemSize * ByteBits + 2
=============================================================================
