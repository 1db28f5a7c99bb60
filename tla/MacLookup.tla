----------------------------- MODULE MacLookup -----------------------------
(***************************************************************************)
(* OsnmaMacLookupTable: which data each tag of a MACK authenticates.  A    *)
(* table has one sequence of slots for subframes that start at an even     *)
(* half minute and one for the others; slot 0 is Tag0.                     *)
(***************************************************************************)
EXTENDS GalileoTime, Sequences

Slot(adkd, target) == [adkd |-> adkd, target |-> target]
S00 == Slot("InavCed", "Self")
E00 == Slot("InavCed", "External")
S04 == Slot("InavTiming", "Self")
S12 == Slot("SlowMac", "Self")
E12 == Slot("SlowMac", "External")
FLX == Slot("Reserved", "Flexible")

Maclt ==
    [maclt \in {27, 28, 31, 33, 34, 35, 36, 37, 38, 39, 40, 41} |->
        CASE maclt = 27 -> << <<S00, E00, E00, E00, S12, E00>>, <<S00, E00, E00, S04, S12, E00>> >>
          [] maclt = 28 -> << <<S00, E00, E00, E00, S00, E00, E00, S12, E00, E00>>,
                          <<S00, E00, E00, S00, E00, E00, S04, S12, E00, E00>> >>
          [] maclt = 31 -> << <<S00, E00, E00, S12, E00>>, <<S00, E00, E00, S12, S04>> >>
          [] maclt = 33 -> << <<S00, E00, S04, E00, S12, E00>>, <<S00, E00, E00, S12, E00, E12>> >>
          [] maclt = 34 -> << <<S00, FLX, S04, FLX, S12, E00>>, <<S00, FLX, E00, S12, E00, E12>> >>
          [] maclt = 35 -> << <<S00, FLX, S04, FLX, S12, FLX>>, <<S00, FLX, FLX, S12, FLX, FLX>> >>
          [] maclt = 36 -> << <<S00, FLX, S04, FLX, S12>>, <<S00, FLX, E00, S12, E12>> >>
          [] maclt = 37 -> << <<S00, E00, S04, E00, S12>>, <<S00, E00, E00, S12, E12>> >>
          [] maclt = 38 -> << <<S00, FLX, S04, FLX, S12>>, <<S00, FLX, FLX, S12, FLX>> >>
          [] maclt = 39 -> << <<S00, FLX, S04, FLX>>, <<S00, FLX, E00, S12>> >>
          [] maclt = 40 -> << <<S00, E00, S04, S12>>, <<S00, E00, E00, E12>> >>
          [] maclt = 41 -> << <<S00, FLX, S04, FLX>>, <<S00, FLX, FLX, S12>> >>]

EachMinute(gst) == (gst.tow \div 60) % 2
MessageIndexFromGst(gst) == (gst.tow \div 30) % 2

(* GetExpectedSlot fails for an unknown table or an index it has no slot   *)
(* for; ExpectedSlot is its output.                                        *)
HasExpectedSlot(maclt, gst, index) ==
    /\ maclt \in DOMAIN Maclt
    /\ index >= 0 /\ index < Len(Maclt[maclt][1])
    /\ IsTimeValid(gst)
ExpectedSlot(maclt, gst, index) == Maclt[maclt][MessageIndexFromGst(gst) + 1][index + 1]

IsFlexible(slot) == slot.target = "Flexible"

IsTargetConsistent(slot, prna, prnd) ==
    /\ prna \in 1 .. 255 /\ prnd \in 1 .. 255
    /\ slot.target = "Self" => prnd = prna
    /\ slot.target = "External" => prnd # prna

IsTagConsistent(maclt, gst, prna, tag) ==
    /\ HasExpectedSlot(maclt, gst, tag.index)
    /\ LET slot == ExpectedSlot(maclt, gst, tag.index) IN
       /\ IF IsFlexible(slot) THEN tag.adkd # "Reserved" ELSE tag.adkd = slot.adkd
       /\ IsTargetConsistent(slot, prna, tag.prnd)

(* After how many subframes the key of a consistent tag is disclosed.      *)
NominalDelaySubframes(maclt, gst, tag) ==
    LET slot == ExpectedSlot(maclt, gst, tag.index)
        adkd == IF IsFlexible(slot) THEN tag.adkd ELSE slot.adkd
    IN  IF adkd = "SlowMac" THEN 11 ELSE 1

=============================================================================
