SPECIFICATION FairSpec
CONSTANTS
    SIZE_B = 4
    PageSize = 16
    LineBytes = 8
    FIXPOINT_LOOPS = 6
    BASE_ADDR = 32768
    SYS_exit = 1
    Results = {0}
    Debug = TRUE
    MMAP_MIN_ADDR = 16384
    STACK_SIZE = 64
    Junk = 9
    Tasks <- MCTasks
INVARIANTS FieldsResolved ArgumentsFound
PROPERTIES RunsAsWritten SectionsLoaded ComesToAnEnd
