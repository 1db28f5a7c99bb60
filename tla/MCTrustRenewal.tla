---------------------------- MODULE MCTrustRenewal ----------------------------
(* Two key ids; id 1 is loaded with pair k1 and renewed to k2 through the  *)
(* Merkle tree, id 2 comes from the tree only.  Two entries per list: the  *)
(* third accepted message reuses entry 0.                                  *)
EXTENDS TrustRenewal

CONSTANTS k1, k2

MCPkIds == {1, 2}
MCPairs == {k1, k2}
MCLeaves == {[id |-> 1, pair |-> k2], [id |-> 2, pair |-> k1]}
MCLoaded == {[id |-> 1, pair |-> k1]}
=============================================================================
