SPECIFICATION Spec
CONSTANTS
    OutChars = {1, 2, 10}
    InChars = {1, 10, 255}
    OutSizes = {1, 3}
    StrSizes = {1, 3}
    InSize = 2
    Inputs <- MCInputs
    MaxPut = 4
    MaxFails = 2
    MaxUngets = 2
INVARIANTS OutputKept NoneSkipped StringCut ReadOnce
CHECK_DEADLOCK FALSE
