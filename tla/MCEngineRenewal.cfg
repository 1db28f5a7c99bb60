CONSTANTS
    c1 = c1
    c2 = c2
    c3 = c3
    k1 = k1
    A = A
    B = B
    MCPrns = {1}
    MCLast = 3
    MCKinds = {"kroot", "unusable", "resized", "reserved", "pkr", "damaged", "zero", "none"}
    NoChain = NoChain
    NoPair = NoPair
    NoNav = NoNav
    Chains <- MCChains
    KeySize <- MCKeySize
    MacFunction <- MCMacFunction
    Epochs <- MCEpochs
    MaxStoredKeys = 2
    Prns <- MCPrns
    Adkds = {"InavCed"}
    SlowMacDelay = 2
    NavContents = {A}
    Decodable = {A}
    MaxPending = 1
    PendingLifetime = 2
    NavLifetime = 2
    MaxSuccess = 2
    Transmitted <- MCTransmitted
    Subframes <- MCSubframes
    MaxLateness = 0
    PkIds = {1}
    Pairs = {k1}
    MerkleLeaves <- MCLoaded
    LoadedKeys <- MCLoaded
    MaxPkr = 1
    MaxKroot = 1
SPECIFICATION EngineSpec
INVARIANT KeySoundness
INVARIANT NeverCutOff
PROPERTY EvictionDropsOldest
PROPERTY TeslaSpec
PROPERTY TrustStoreSpec
PROPERTY DsmFailureReported
