CONSTANTS
    Satellites = {1, 36}
    Chains <- MCChains
    WideChains <- MCOneChain
    Starts <- MCStarts
    Root <- MCRoot
    Cop = 2
    MaxSuccess = 8
SPECIFICATION Spec
INVARIANT ReportedIsTransmitted
INVARIANT IntactTagsVerify
INVARIANT OwnDataInTwoSubframes
INVARIANT NewsIsNoticed
