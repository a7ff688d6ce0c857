CONSTANTS
    SIZE_B = 3
    Sizes = 3
    SZ_SZ = 2
    JumpHead = 2
    LabMin = 2
    MaxFuncs = 2
    MaxLen = 3
    Widths = {0, 4}
    Sources <- AllCode
    More <- LaterCode
    Frames <- TwoFrames
SPECIFICATION Spec
INVARIANTS JumpsLand WholeCode CallsAligned RelocsHit NothingLost
