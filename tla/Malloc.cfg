CONSTANTS
    PGSIZE = 64
    MSETMAX = 64
    MSETLEN = 192
    MsetSize = 8
    PtrSize = 4
    Pages = 8
    Sizes = {44, 48, 63, 65}
SPECIFICATION Spec
INVARIANTS BlocksApart BlocksMapped RefsCount FreeTells
PROPERTIES PoolReturned
