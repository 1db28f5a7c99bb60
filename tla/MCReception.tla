---------------------------- MODULE MCReception -----------------------------
(* One or two satellites whose navigation data changes in every subframe,  *)
(* with a CED, a timing and (in one run) a slow MAC tag in every MACK, and *)
(* a CED tag of each for the data of the other.  A KROOT is complete in    *)
(* the first subframe; from then on the DSM of a subframe is incomplete or *)
(* fails.                                                                  *)
EXTENDS Reception, SequencesExt

CONSTANTS c1, k1, MCPrns, MCLast, MCAdkds

MCChains == {c1}
MCKeySize == [c \in MCChains |-> 16]
MCMacFunction == [c \in MCChains |-> "CmacAes"]
MCEpochs == 1 .. MCLast
MCLoaded == {[id |-> 1, pair |-> k1]}
MCContents == 0 .. MCLast
MCTransmitted == [k \in MCPrns \X {"ced", "timing"} \X MCContents |-> k[3]]

Tag(adkd, p, e) ==
    [adkd |-> adkd, prnd |-> p, key |-> ChainKey(c1, e + KeyDelay(adkd)), nav |-> e - 1]

Genuine(p, e) ==
    [chain |-> c1, key |-> ChainKey(c1, e), macseq |-> ChainKey(c1, e + 1),
     tags |-> <<Tag("InavCed", p, e)>> \o
              SetToSeq({Tag("InavCed", q, e) : q \in MCPrns \ {p}}) \o
              (IF "InavTiming" \in MCAdkds THEN <<Tag("InavTiming", p, e)>> ELSE <<>>) \o
              (IF "SlowMac" \in MCAdkds THEN <<Tag("SlowMac", p, e)>> ELSE <<>>)]

KrootOf(signer) == KrootDsm([pkid |-> 1, signer |-> signer, content |-> Kroot(c1, 1, TRUE)])

DsmsOf(e) == IF e = 1 THEN {KrootOf(k1)} ELSE {NoDsm, BadDsm, KrootOf(NoPair)}

MCSubframes ==
    UNION {{[prn |-> p, epoch |-> e, hkroot |-> TRUE, dsm |-> d, mack |-> Genuine(p, e)]
            : d \in DsmsOf(e)} : p \in MCPrns, e \in MCEpochs}
=============================================================================
