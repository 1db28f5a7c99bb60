CONSTANTS
    Satellites = {1, 36}
    Chains <- MCOneChain
    WideChains <- MCOneChain
    Starts <- MCStarts
    Root <- MCRoot
    Cop = 2
    MaxSuccess = 8
SPECIFICATION Spec
INVARIANT AuthenticatedRowRepeats
