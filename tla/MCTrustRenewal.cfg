CONSTANTS
    k1 = k1
    k2 = k2
    PkIds <- MCPkIds
    Pairs <- MCPairs
    NoPair = NoPair
    MerkleLeaves <- MCLeaves
    LoadedKeys <- MCLoaded
    Contents = {1}
    MaxPkr = 2
    MaxKroot = 2
    Times = {1, 2, 3}
SPECIFICATION RenewalSpec
INVARIANT TrustTypeOK
INVARIANT KrootsAreAuthentic
INVARIANT LastVerifiedKrootActive
INVARIANT RenewedKeyTakesOver
