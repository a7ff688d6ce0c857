CONSTANTS
    SIZE_B = 4
    PageSize = 32
    LineBytes = 8
    LongLong = 8
    HdrLen = 20
    SecAlign = 8
    OUT_ALIGNMENT = 8
    MAXOBJS = 5
    CodeAddr = 1024
    MMAP_MIN_ADDR = 512
    Links <- MCLinks
SPECIFICATION Spec
INVARIANTS RefsLand SegmentsLoad
PROPERTIES ArchiveResolves
