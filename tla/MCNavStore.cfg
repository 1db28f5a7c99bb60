CONSTANTS
    Prns = {1}
    CedWords = {1}
    Contents = {"A", "B"}
    Payloads <- MCPayloads
    SubframeSeconds = 2
    ModeShift = 1
    PageTimes <- MCPageTimes
    PartialTimeout = 4
    CompleteLifetime = 9
    PairMaxSpan = 8
    MaxCop = 4
    MaxLateness = 1
    MaxLatePages = 1
    NoCandidate = NoCandidate
SPECIFICATION NavSpec
INVARIANT AgesAreTrue
INVARIANT FoundWithinCop
INVARIANT NoStaleWord
PROPERTY CompleteTimeOfContents
PROPERTY KeptForLifetime
