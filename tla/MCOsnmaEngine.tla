--------------------------- MODULE MCOsnmaEngine ----------------------------
(* A satellite whose navigation data says A.  Chain c1 is on the air;      *)
(* KROOTs announce it, or two others: c2 with larger keys, c3 with a       *)
(* reserved MAC function.  Besides the genuine subframes there are         *)
(* subframes without OSNMA, with an all-zero MACK, with a failing DSM, and *)
(* MACKs made with a key that is already disclosed, for data B that nobody *)
(* transmitted.                                                            *)
EXTENDS OsnmaEngine

CONSTANTS c1, c2, c3, k1, A, B, MCPrns, MCLast, MCKinds

MCChains == {c1, c2, c3}
MCKeySize == [c \in MCChains |-> IF c = c2 THEN 32 ELSE 16]
MCMacFunction == [c \in MCChains |-> IF c = c3 THEN "Reserved" ELSE "HmacSha256"]
MCEpochs == 1 .. MCLast
MCLoaded == {[id |-> 1, pair |-> k1]}

MCTransmitted == [k \in MCPrns \X {"ced", "timing"} \X (0 .. MCLast) |-> A]

Tag(adkd, prnd, key, content) == [adkd |-> adkd, prnd |-> prnd, key |-> key, nav |-> content]
Mack(e, key, tags) ==
    [chain |-> c1, key |-> ChainKey(c1, e), macseq |-> key, tags |-> tags]

Genuine(p, e) ==
    LET key == ChainKey(c1, e + 1) IN Mack(e, key, <<Tag("InavCed", p, key, A)>>)

KeyDisclosed(p, e) ==
    LET key == ChainKey(c1, e) IN Mack(e, key, <<Tag("InavCed", p, key, B)>>)

KrootOf(signer, c, usable) ==
    KrootDsm([pkid |-> 1, signer |-> signer, content |-> Kroot(c, 1, usable)])

Subframe(p, e, dsm, mack) ==
    [prn |-> p, epoch |-> e, hkroot |-> TRUE, dsm |-> dsm, mack |-> mack]

(* The kinds of subframes that a run has.                                  *)
SubframeOf(kind, p, e) ==
    CASE kind = "kroot" -> Subframe(p, e, KrootOf(k1, c1, TRUE), Genuine(p, e))
      [] kind = "damaged" -> Subframe(p, e, KrootOf(NoPair, c1, TRUE), Genuine(p, e))
      [] kind = "unusable" -> Subframe(p, e, KrootOf(k1, c1, FALSE), Genuine(p, e))
      [] kind = "resized" -> Subframe(p, e, KrootOf(k1, c2, TRUE), Genuine(p, e))
      [] kind = "reserved" -> Subframe(p, e, KrootOf(k1, c3, TRUE), Genuine(p, e))
      [] kind = "pkr" -> Subframe(p, e, PkrDsm([id |-> 1, pair |-> k1]), Genuine(p, e))
      [] kind = "disclosed" -> Subframe(p, e, NoDsm, KeyDisclosed(p, e))
      [] kind = "zero" -> Subframe(p, e, BadDsm, NoMack)
      [] kind = "none" -> [Subframe(p, e, NoDsm, NoMack) EXCEPT !.hkroot = FALSE]

MCSubframes == {SubframeOf(kind, p, e) : kind \in MCKinds, p \in MCPrns, e \in MCEpochs}
=============================================================================
