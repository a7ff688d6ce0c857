CONSTANTS
    PageSize = 2
    MemSize = 8
    MMAP_MIN_ADDR = 2
    Node = {n1, n2, n3}
    NULL = NULL
    Prots = {rw, rx}
    Values = {v}
    Addrs = {2, 4, 6}
    Sizes = {2, 4, 6}
    Numbs = {1}
    Junk = Junk
    LineBytes = 1
SPECIFICATION EmuFairSpec
INVARIANTS LineValid
PROPERTIES CodeStays ProgramGoesOn
