CONSTANTS
    PageSize = 4
    MemSize = 16
    MMAP_MIN_ADDR = 4
    ByteBits = 1
    LineBytes = 4
    WordBits = 4
    Regions <- TwoRegions
    FieldSizes = {1, 2, 3, 4}
    Targets <- AllTargets
    Patterns <- AllPatterns
    MaxStored = 1
SPECIFICATION Spec
PROPERTIES WordIsNextBits
