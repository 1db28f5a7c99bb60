CONSTANTS
    c1 = c1
    c2 = c2
    c3 = c3
    k1 = k1
    A = A
    B = B
    MCPrns = {1}
    MCLast = 3
    MCKinds = {"kroot"}
    NoChain = NoChain
    NoPair = NoPair
    NoNav = NoNav
    Chains <- MCChains
    KeySize <- MCKeySize
    MacFunction <- MCMacFunction
    Epochs <- MCEpochs
    MaxStoredKeys = 3
    Prns <- MCPrns
    Adkds = {"InavCed"}
    SlowMacDelay = 2
    NavContents = {A}
    Decodable = {A}
    MaxPending = 3
    PendingLifetime = 2
    NavLifetime = 2
    MaxSuccess = 2
    Transmitted <- MCTransmitted
    Subframes <- MCSubframes
    MaxLateness = 2
    PkIds = {1}
    Pairs = {k1}
    MerkleLeaves = {}
    LoadedKeys <- MCLoaded
    MaxPkr = 1
    MaxKroot = 1
SPECIFICATION EngineSpec
PROPERTY ExpiredOnlyWhenOld
