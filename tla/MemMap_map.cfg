CONSTANTS
    PageSize = 2
    MemSize = 10
    MMAP_MIN_ADDR = 2
    Node = {n1, n2, n3, n4}
    NULL = NULL
    Prots = {rw, rx}
    Values = {v}
    Addrs = {1, 2, 5, 6, 9}
    Sizes = {0, 1, 3, 4, 5, 8, 9}
    Numbs = {1, 2}
    Junk = Junk
SYMMETRY NodeSymmetry
SPECIFICATION Spec
INVARIANTS TypeOK Disjoint SortedList Merged NoDangling UnmapClears FindHolds PageAligned
PROPERTIES ImplementsPageMap
