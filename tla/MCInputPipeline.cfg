CONSTANTS
    MaxEpoch = 4
    MaxLines = 4
    Window = 2
    MaxBuffered = 3
    Disorder = 3
    LinesPerEpoch = 2
    Prns = {1, 2}
    BadPrns = {256}
    PageCount = 2
    PageSeconds = 2
    ModeShifts = {0, 1}
    MaxSubframe = 4
    LastLive = 1
    MaxLateness = 4
    EngineReasons = {}
    LineContents <- MCLineContents
    FileNames <- MCFileNames
    Files <- MCFiles
SPECIFICATION Spec
INVARIANT FedInOrder
INVARIANT EveryLineFedOnce
INVARIANT BufferBounded
INVARIANT HeardIsDelivered
INVARIANT SubframesAreGenuine
CHECK_DEADLOCK FALSE
