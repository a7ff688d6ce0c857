CONSTANTS
    tmpregs <- TmpRegs
    argregs <- ArgRegs
    MEM <- MemRegs
    PERM = {3}
    FP = 8
    LR = 9
    NTMPS = 12
    Sources <- Increment
SPECIFICATION Spec
INVARIANT LoadGivesLocal
