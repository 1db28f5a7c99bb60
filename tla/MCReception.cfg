CONSTANTS
    c1 = c1
    k1 = k1
    MCPrns = {1, 2}
    MCLast = 4
    MCAdkds = {"InavCed", "InavTiming"}
    NoChain = NoChain
    NoPair = NoPair
    NoNav = NoNav
    Chains <- MCChains
    KeySize <- MCKeySize
    MacFunction <- MCMacFunction
    Epochs <- MCEpochs
    MaxStoredKeys = 3
    Prns <- MCPrns
    Adkds <- MCAdkds
    SlowMacDelay = 2
    NavContents <- MCContents
    Decodable <- MCContents
    MaxPending = 4
    PendingLifetime = 4
    NavLifetime = 3
    MaxSuccess = 8
    Transmitted <- MCTransmitted
    Subframes <- MCSubframes
    MaxLateness = 0
    PkIds = {1}
    Pairs = {k1}
    MerkleLeaves = {}
    LoadedKeys <- MCLoaded
    MaxPkr = 1
    MaxKroot = 1
SPECIFICATION ReceptionSpec
PROPERTY EverythingAuthenticated
CHECK_DEADLOCK FALSE
