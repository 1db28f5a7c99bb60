CONSTANTS
    c1 = c1
    k1 = k1
    MCPrns = {1}
    MCLast = 5
    MCAdkds = {"InavCed", "SlowMac"}
    NoChain = NoChain
    NoPair = NoPair
    NoNav = NoNav
    Chains <- MCChains
    KeySize <- MCKeySize
    MacFunction <- MCMacFunction
    Epochs <- MCEpochs
    MaxStoredKeys = 3
    Prns <- MCPrns
    Adkds <- MCAdkds
    SlowMacDelay = 2
    NavContents <- MCContents
    Decodable <- MCContents
    MaxPending = 3
    PendingLifetime = 4
    NavLifetime = 3
    MaxSuccess = 8
    Transmitted <- MCTransmitted
    Subframes <- MCSubframes
    MaxLateness = 0
    PkIds = {1}
    Pairs = {k1}
    MerkleLeaves = {}
    LoadedKeys <- MCLoaded
    MaxPkr = 1
    MaxKroot = 1
SPECIFICATION ReceptionSpec
PROPERTY SlowMacAuthenticated
CHECK_DEADLOCK FALSE
