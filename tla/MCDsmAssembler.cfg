CONSTANTS
    Prns = {1}
    KrootIds = {0}
    PkrIds = {}
    MaxBlocks = 3
    NbOffset = 1
    KrootNbs = {1, 2}
    PkrNbs = {2}
    NbValues = {0, 1, 2}
    KrootMaxAge = 3
    PkrMaxAge = 3
    MaxEpoch = 6
    MaxLateness = 2
SPECIFICATION Spec
INVARIANT MessagesAreWhole
INVARIANT HeardIsHandedOver
INVARIANT MessagesSpanRetention
PROPERTY BlocksUsedOnce
PROPERTY UsefulBlocksKept
