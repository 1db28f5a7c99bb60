CONSTANTS
    Prns = {1}
    CedWords = {1, 2, 5}
    Contents = {"A", "B", "I", "NoGgto"}
    Payloads = {}
    SubframeSeconds = 4
    ModeShift = 1
    PageTimes <- MCPageTimes
    PartialTimeout = 4
    CompleteLifetime = 13
    PairMaxSpan = 8
    MaxCop = 4
    MaxLateness = 0
    MaxLatePages = 0
    NoCandidate = NoCandidate
    Pages <- MCPages
    Iod <- MCIod
    EphPart <- MCEphPart
    IonoPart <- MCIonoPart
    NoGgto = "NoGgto"
    AuthDelay = 8
    NoData = NoData
SPECIFICATION OutputSpec
INVARIANT AuthenticatedAfterInitial
INVARIANT LastInitialIsCurrent
INVARIANT AuthenticatedIsReported
