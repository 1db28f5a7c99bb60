------------------------ MODULE TagVerificationProofs ------------------------
(* Proofs about TagVerification, for any chain, satellites and starts: a   *)
(* tag that verifies was sent, the bits under it decide the values of the  *)
(* rows, and so what is reported was transmitted; and a tag that arrives   *)
(* as it was sent is reported.                                             *)
EXTENDS TagVerification, FiniteSetTheorems, SequenceTheorems, WellFoundedInduction, TLAPS

-----------------------------------------------------------------------------
(* The tables.                                                             *)
Slots == {S00, E00, S04, S12, E12, FLX}

(* Both halves of a table have as many slots, the first is Tag0's.         *)
GoodTable(table) ==
    /\ table[1] \in Seq(Slots) /\ table[2] \in Seq(Slots)
    /\ Len(table[1]) = Len(table[2]) /\ Len(table[1]) \in 4 .. 10
    /\ table[1][1] = S00 /\ table[2][1] = S00

LEMMA TablesAreGood == \A m \in DOMAIN Maclt : GoodTable(Maclt[m])
<1>1. SUFFICES ASSUME NEW m \in {27, 28, 31, 33, 34, 35, 36, 37, 38, 39, 40, 41}
               PROVE  GoodTable(Maclt[m])
  BY DEF Maclt
<1>2. CASE m = 27
  BY <1>2 DEF Maclt, GoodTable, Slots
<1>3. CASE m = 28
  BY <1>3 DEF Maclt, GoodTable, Slots
<1>4. CASE m = 31
  BY <1>4 DEF Maclt, GoodTable, Slots
<1>5. CASE m = 33
  BY <1>5 DEF Maclt, GoodTable, Slots
<1>6. CASE m = 34
  BY <1>6 DEF Maclt, GoodTable, Slots
<1>7. CASE m = 35
  BY <1>7 DEF Maclt, GoodTable, Slots
<1>8. CASE m = 36
  BY <1>8 DEF Maclt, GoodTable, Slots
<1>9. CASE m = 37
  BY <1>9 DEF Maclt, GoodTable, Slots
<1>10. CASE m = 38
  BY <1>10 DEF Maclt, GoodTable, Slots
<1>11. CASE m = 39
  BY <1>11 DEF Maclt, GoodTable, Slots
<1>12. CASE m = 40
  BY <1>12 DEF Maclt, GoodTable, Slots
<1>13. CASE m = 41
  BY <1>13 DEF Maclt, GoodTable, Slots
<1> QED
  BY <1>2, <1>3, <1>4, <1>5, <1>6, <1>7, <1>8, <1>9, <1>10, <1>11, <1>12, <1>13

(* The half of a table is chosen by half minutes (MessageIndexFromGst).    *)
LEMMA HalfOfTable ==
    ASSUME NEW tow \in Nat, tow % 30 = 0
    PROVE  ((tow \div 30) % 2) + 1 = 1 + (IF tow % 60 = 0 THEN 0 ELSE 1)
<1> DEFINE q == tow \div 30
<1>1. q \in Int /\ tow = 30 * q
  BY SMT
<1> HIDE DEF q
<1>2. tow % 60 = 30 * (q % 2)
  BY <1>1, SMT
<1>3. q % 2 \in {0, 1}
  BY <1>1, SMT
<1> QED
  BY <1>2, <1>3, SMT DEF q

(* What the sender takes for the slot of a tag is what the receiver takes  *)
(* for it at the same second of the week.                                  *)
LEMMA SlotOfTag ==
    ASSUME NEW c, NEW gst, NEW i \in Nat, HasExpectedSlot(c.maclt, gst, i),
           gst.tow = Now.tow, Now.tow \in Nat, Now.tow % 30 = 0
    PROVE  /\ ExpectedSlot(c.maclt, gst, i) = SentSlot(c, i)
           /\ SentSlot(c, i) \in Slots
           /\ i = 0 => SentSlot(c, i) = S00
<1> DEFINE k == 1 + (IF Now.tow % 60 = 0 THEN 0 ELSE 1)
<1>1. MessageIndexFromGst(gst) + 1 = k /\ k \in {1, 2}
  BY HalfOfTable DEF MessageIndexFromGst
<1> HIDE DEF k
<1>2. c.maclt \in DOMAIN Maclt /\ i < Len(Maclt[c.maclt][1])
  BY DEF HasExpectedSlot
<1>3. SentSlot(c, i) = Maclt[c.maclt][k][i + 1]
  BY <1>2 DEF SentSlot, k
<1>4. ExpectedSlot(c.maclt, gst, i) = Maclt[c.maclt][k][i + 1]
  BY <1>1 DEF ExpectedSlot
<1>5. GoodTable(Maclt[c.maclt])
  BY <1>2, TablesAreGood
<1>6. Maclt[c.maclt][k] \in Seq(Slots) /\ i + 1 \in 1 .. Len(Maclt[c.maclt][k])
  BY <1>1, <1>2, <1>5 DEF GoodTable
<1>7. Maclt[c.maclt][k][i + 1] \in Slots
  BY <1>6
<1>8. Maclt[c.maclt][k][1] = S00
  BY <1>1, <1>5 DEF GoodTable
<1> QED
  BY <1>3, <1>4, <1>7, <1>8

-----------------------------------------------------------------------------
(* What a success of Verify is: there was a tag to verify in the MACK, in  *)
(* a layout and with a MACSEQ that are right, of which the key is known,   *)
(* the data is there and young enough for its COP, and the MAC is the one  *)
(* over this data (OsnmaMacVerifier::Verify).                              *)
LEMMA SuccessIsVerified ==
    ASSUME NEW c, NEW m, NEW data, NEW rest, NEW s \in Verify(c, m, data, rest).successes
    PROVE  /\ ValidLayout(c) /\ MacseqStatus(c, m) = "Ok"
           /\ \E tag \in TagsToVerify(c, m) :
                 /\ s = Success(m, data, tag)
                 /\ FindForAdkd(data, tag) /\ HasKeyForTag(c, m, tag)
                 /\ tag.mac = Mac(KeyIndexForTag(c, m, tag),
                                  Message(m, tag, data[<<tag.prnd, NavKind(tag.adkd)>>].words))
<1> DEFINE status == MacseqStatus(c, m)
<1> DEFINE matching == MatchingTags(c, m, data, rest)
<1>1. /\ ValidLayout(c) /\ status = "Ok"
      /\ s \in FirstSuccesses(m, data, matching)
  <2>1. Outcome("Unknown", "InvalidFrameFormat", {}).successes = {}
        /\ \A reason, r : Outcome("Unknown", reason, {}).successes = {}
                          /\ Outcome("Yes", "None", r).successes = r
    BY DEF Outcome
  <2> HIDE DEF status, matching
  <2> QED
    BY <2>1 DEF Verify, status, matching
<1>2. PICK tag \in matching : s = Success(m, data, tag)
  BY <1>1 DEF FirstSuccesses
<1> QED
  BY <1>1, <1>2 DEF MatchingTags, TagEquals

-----------------------------------------------------------------------------
(* MACs.                                                                   *)
LEMMA MacIsNotJunk == \A k, m : Mac(k, m) # Junk
<1> SUFFICES ASSUME NEW k, NEW m PROVE Mac(k, m) # Junk
  OBVIOUS
<1>1. DOMAIN Mac(k, m) = {"key", "message"} /\ DOMAIN Junk = {"key"}
  BY DEF Mac, Junk
<1> QED
  BY <1>1

LEMMA MacsAreInjective == \A k, m, l, n : Mac(k, m) = Mac(l, n) => k = l /\ m = n
<1> SUFFICES ASSUME NEW k, NEW m, NEW l, NEW n, Mac(k, m) = Mac(l, n)
             PROVE  k = l /\ m = n
  OBVIOUS
<1>1. Mac(k, m).key = k /\ Mac(k, m).message = m /\ Mac(l, n).key = l /\ Mac(l, n).message = n
  BY DEF Mac
<1> QED
  BY <1>1

(* Two times are the same if they have the same second of the week, the    *)
(* same low bits of the week, and are in the same subframe of the chain:   *)
(* 4096 weeks are many subframes.                                          *)
LEMMA SameSubframe ==
    ASSUME NEW v \in Int, NEW w \in Int, NEW tow \in Int, NEW r \in Int,
           v % 4096 = w % 4096,
           (v * 604800 + tow - r) \div 30 = (w * 604800 + tow - r) \div 30
    PROVE  v = w
<1> DEFINE a == v * 604800 + tow - r
<1> DEFINE b == w * 604800 + tow - r
<1>1. a \in Int /\ b \in Int /\ a - b = (v - w) * 604800
  BY SMT
<1>2. a \div 30 = b \div 30
  OBVIOUS
<1> HIDE DEF a, b
<1>3. a - b < 30 /\ b - a < 30
  BY <1>1, <1>2, SMT
<1> QED
  BY <1>1, <1>3, SMT

Numbers == [wn : Int, tow : Int]

LEMMA EpochIsNow ==
    ASSUME NEW gst \in Numbers, IsTimeValid(gst), Now \in Numbers, Now.tow >= 0,
           GstSf(gst) = SentGst, KeyIndex(gst) + 1 = SecretKey("InavCed")
    PROVE  gst = Now
<1>1. gst.wn \in Int /\ gst.tow \in Int /\ Now.wn \in Int /\ Now.tow \in Int
  BY DEF Numbers
<1>2. gst.tow >= 0 /\ gst.tow < 604800
  BY DEF IsTimeValid, WeekSeconds
<1> DEFINE m == 2 ^ 20
<1>3. gst.wn % 4096 = Now.wn % 4096 /\ gst.tow % m = Now.tow
  <2>1. GstSf(gst) = <<gst.wn % 4096, gst.tow % m>>
    BY DEF GstSf
  <2> HIDE DEF m
  <2> QED
    BY <2>1 DEF SentGst
<1>4. gst.tow = Now.tow
  <2> DEFINE x == gst.tow
  <2>1. m = 1048576
    BY SMT
  <2> HIDE DEF m
  <2>2. x \in Int /\ x >= 0 /\ x < 604800 /\ x % m = Now.tow
    BY <1>1, <1>2, <1>3, SMT
  <2> HIDE DEF x
  <2>3. x % m = x
    BY <2>1, <2>2, SMT
  <2> QED
    BY <2>2, <2>3 DEF x
<1> HIDE DEF m
<1>5. Root.wn \in Int /\ Root.tow \in Int
  BY NumbersAssumption
<1>6. DiffSeconds(gst, Root) \div 30 = DiffSeconds(Now, Root) \div 30
  <2> DEFINE a == DiffSeconds(gst, Root)
  <2> DEFINE b == DiffSeconds(Now, Root)
  <2>1. a \in Int /\ b \in Int
    BY <1>1, <1>5, SMT DEF DiffSeconds, WeekSeconds
  <2>2. KeyIndex(gst) = a \div 30 /\ SecretKey("InavCed") = b \div 30 + 1
    BY DEF KeyIndex, SecretKey, SubframeSeconds
  <2> HIDE DEF a, b
  <2>3. a \div 30 \in Int /\ b \div 30 \in Int
    BY <2>1, SMT
  <2> QED
    BY <2>2, <2>3 DEF a, b
<1>7. gst.wn = Now.wn
  <2> DEFINE v == gst.wn
  <2> DEFINE w == Now.wn
  <2> DEFINE tow == Now.tow
  <2> DEFINE r == Root.wn * 604800 + Root.tow
  <2>1. v \in Int /\ w \in Int /\ tow \in Int /\ r \in Int /\ v % 4096 = w % 4096
    BY <1>1, <1>3, <1>5
  <2>2. /\ DiffSeconds(gst, Root) = (v - Root.wn) * 604800 + (tow - Root.tow)
        /\ DiffSeconds(Now, Root) = (w - Root.wn) * 604800 + (tow - Root.tow)
    BY <1>4 DEF DiffSeconds, WeekSeconds
  <2>3. /\ (v - Root.wn) * 604800 + (tow - Root.tow) = v * 604800 + tow - r
        /\ (w - Root.wn) * 604800 + (tow - Root.tow) = w * 604800 + tow - r
    BY <1>1, <1>5, SMT
  <2>4. (v * 604800 + tow - r) \div 30 = (w * 604800 + tow - r) \div 30
    BY <1>6, <2>2, <2>3
  <2> HIDE DEF v, w, tow, r
  <2>5. v = w
    BY <2>1, <2>4, SameSubframe
  <2> QED
    BY <2>5 DEF v, w
<1> QED
  BY <1>4, <1>7 DEF Numbers

-----------------------------------------------------------------------------
(* A MACSEQ that verifies says who sent the MACK, when, and what the tags  *)
(* of flexible slots are.                                                  *)
GoodNow == Now \in Numbers /\ Now.tow \in Nat /\ Now.tow % 30 = 0

InfosSent(c, tags) ==
    {[index |-> i - 1, prnd |-> tags[i].prnd, adkd |-> tags[i].adkd, cop |-> tags[i].cop] :
        i \in {j \in DOMAIN tags : SentSlot(c, j - 1).target = "Flexible"}}

LEMMA MacseqTellsSender ==
    ASSUME NEW c, NEW m, NEW prn, NEW tags, GoodNow, m.epoch \in Numbers,
           m.macseq \in {Junk, SentMacseq(c, prn, tags)}, MacseqStatus(c, m) = "Ok"
    PROVE  /\ m.prn = prn /\ m.epoch = Now
           /\ MacseqInput(c, m).infos = InfosSent(c, tags)
<1>1. /\ HasKeyForTag(c, m, Tag0(m))
      /\ m.macseq = Mac(KeyIndexForTag(c, m, Tag0(m)), MacseqInput(c, m))
  BY DEF MacseqStatus
<1> DEFINE sent_input ==
        [prna |-> prn, gst |-> SentGst, infos |-> InfosSent(c, tags)]
<1>2. m.macseq = SentMacseq(c, prn, tags)
      /\ SentMacseq(c, prn, tags) = Mac(SecretKey("InavCed"), sent_input)
  <2>1. m.macseq # Junk
    BY <1>1, MacIsNotJunk
  <2>2. SentMacseq(c, prn, tags) = Mac(SecretKey("InavCed"), sent_input)
    BY DEF SentMacseq, InfosSent
  <2> QED
    BY <2>1, <2>2
<1>3. KeyIndexForTag(c, m, Tag0(m)) = SecretKey("InavCed") /\ MacseqInput(c, m) = sent_input
  <2> DEFINE k == KeyIndexForTag(c, m, Tag0(m))
  <2> DEFINE l == SecretKey("InavCed")
  <2> DEFINE input == MacseqInput(c, m)
  <2>1. Mac(k, input) = Mac(l, sent_input)
    BY <1>1, <1>2
  <2> HIDE DEF k, l, input, sent_input
  <2>2. k = l /\ input = sent_input
    BY <2>1, MacsAreInjective
  <2> QED
    BY <2>2 DEF k, l, input
<1>4. /\ MacseqInput(c, m).prna = m.prn /\ MacseqInput(c, m).gst = GstSf(m.epoch)
      /\ sent_input.prna = prn /\ sent_input.gst = SentGst
      /\ sent_input.infos = InfosSent(c, tags)
  BY DEF MacseqInput
<1> HIDE DEF sent_input
<1>5. m.prn = prn /\ GstSf(m.epoch) = SentGst /\ MacseqInput(c, m).infos = InfosSent(c, tags)
  BY <1>3, <1>4
<1>6. Tag0(m).index = 0 /\ Tag0(m).adkd = "InavCed"
  BY DEF Tag0
<1>7. IsTagConsistent(c.maclt, m.epoch, m.prn, Tag0(m))
  BY <1>1 DEF HasKeyForTag
<1>8. HasExpectedSlot(c.maclt, m.epoch, 0)
  BY <1>6, <1>7 DEF IsTagConsistent
<1>9. NominalDelaySubframes(c.maclt, m.epoch, Tag0(m)) = 1
  <2> DEFINE slot == ExpectedSlot(c.maclt, m.epoch, 0)
  <2>1. IF IsFlexible(slot) THEN TRUE ELSE slot.adkd = "InavCed"
    BY <1>6, <1>7 DEF IsTagConsistent
  <2> HIDE DEF slot
  <2>2. (IF IsFlexible(slot) THEN "InavCed" ELSE slot.adkd) = "InavCed"
    BY <2>1
  <2> QED
    BY <1>6, <2>2 DEF NominalDelaySubframes, slot
<1>10. KeyIndex(m.epoch) + 1 = SecretKey("InavCed")
  BY <1>3, <1>9 DEF KeyIndexForTag
<1>11. IsTimeValid(m.epoch)
  BY <1>8 DEF HasExpectedSlot
<1>12. m.epoch = Now
  BY <1>5, <1>10, <1>11, EpochIsNow DEF GoodNow
<1> QED
  BY <1>5, <1>12

(* The tag that the sender put at the place of one that is to be verified. *)
LEMMA SentTagAt ==
    ASSUME NEW c, NEW prn, NEW other, NEW flx, NEW i \in Nat
    PROVE  LET t == SentTag(c, prn, other, flx, i)
               slot == SentSlot(c, i)
           IN  /\ t.adkd = IF slot.target = "Flexible" THEN flx.adkd ELSE slot.adkd
               /\ slot.target = "Flexible" => t.prnd = flx.prnd
               /\ slot.target = "Self" => t.prnd = prn
               /\ slot.target = "External" => t.prnd = other
               /\ t.cop = Cop
               /\ t.mac = IF t.adkd = "Reserved" THEN Junk
                          ELSE Mac(SecretKey(t.adkd),
                                   [prnd |-> IF i = 0 THEN 0 ELSE t.prnd, prna |-> prn,
                                    gst |-> SentGst, ctr |-> i + 1, nmas |-> 1,
                                    nav |-> UnderTag[t.prnd][issue][start][NavKind(t.adkd)]])
  BY DEF SentTag

(* What the receiver takes a tag of its MACK for.                          *)
LEMMA TagToVerify ==
    ASSUME NEW c, c.key_bits \in Nat, c.tag_bits \in Nat, NEW m, NEW tag \in TagsToVerify(c, m),
           HasKeyForTag(c, m, tag), m.epoch = Now, GoodNow
    PROVE  LET i == tag.index
               slot == SentSlot(c, i)
           IN  /\ i \in ParsedTags(c) \cup {0} /\ i \in Nat
               /\ tag.mac = m.tags[i + 1].mac
               /\ i = 0 => slot = S00 /\ tag.prnd = m.prn /\ tag.adkd = "InavCed"
               /\ i # 0 => /\ slot \in Slots
                          /\ ExpectedSlot(c.maclt, m.epoch, i) = slot
                          /\ tag.adkd = IF slot.target = "Flexible" THEN m.tags[i + 1].adkd
                                        ELSE slot.adkd
<1>1. \A i \in ParsedTags(c) : i \in Nat
  BY DEF ParsedTags
<1>2. IsTagConsistent(c.maclt, m.epoch, m.prn, tag)
  BY DEF HasKeyForTag
<1>3. HasExpectedSlot(c.maclt, m.epoch, tag.index)
  BY <1>2 DEF IsTagConsistent
<1>4. Now.tow \in Nat /\ Now.tow % 30 = 0
  BY DEF GoodNow
<1>5. ASSUME tag.index \in Nat
      PROVE  /\ ExpectedSlot(c.maclt, m.epoch, tag.index) = SentSlot(c, tag.index)
             /\ SentSlot(c, tag.index) \in Slots
             /\ tag.index = 0 => SentSlot(c, tag.index) = S00
  BY <1>3, <1>4, <1>5, SlotOfTag
<1>6. CASE tag = Tag0(m)
  <2>1. /\ tag.index = 0 /\ tag.prnd = m.prn /\ tag.adkd = "InavCed"
        /\ tag.mac = m.tags[0 + 1].mac
    BY <1>6 DEF Tag0
  <2> QED
    BY <1>5, <2>1
<1>7. ASSUME NEW i \in ParsedTags(c) \ {0}, tag = EffectiveTag(c, m, RawTag(m, i)),
             IsUsable(c, m, RawTag(m, i))
      PROVE  LET slot == SentSlot(c, i)
             IN  /\ tag.index = i /\ tag.mac = m.tags[i + 1].mac
                 /\ slot \in Slots /\ ExpectedSlot(c.maclt, m.epoch, i) = slot
                 /\ tag.adkd = IF slot.target = "Flexible" THEN m.tags[i + 1].adkd
                               ELSE slot.adkd
  <2> DEFINE raw == RawTag(m, i)
  <2>1. /\ raw.index = i /\ raw.mac = m.tags[i + 1].mac /\ raw.adkd = m.tags[i + 1].adkd
        /\ DOMAIN raw = {"index", "prnd", "adkd", "cop", "valid_info", "mac"}
    BY DEF RawTag
  <2>2. HasExpectedSlot(c.maclt, m.epoch, i) /\ i \in Nat
    BY <1>1, <1>7, <2>1 DEF IsUsable
  <2> DEFINE slot == SentSlot(c, i)
  <2>3. ExpectedSlot(c.maclt, m.epoch, i) = slot /\ slot \in Slots
    BY <1>4, <2>2, SlotOfTag
  <2>4. slot.target \in {"Self", "External", "Flexible"}
    <3> HIDE DEF slot
    <3> QED
      BY <2>3 DEF Slots, S00, E00, S04, S12, E12, FLX, Slot
  <2>5. tag = CASE slot.target = "Flexible" -> raw
                [] slot.target = "Self" -> [raw EXCEPT !.adkd = slot.adkd, !.prnd = m.prn]
                [] slot.target = "External" -> [raw EXCEPT !.adkd = slot.adkd]
    BY <1>7, <2>1, <2>3 DEF EffectiveTag
  <2> HIDE DEF raw, slot
  <2>6. /\ tag.index = i /\ tag.mac = m.tags[i + 1].mac
        /\ tag.adkd = IF slot.target = "Flexible" THEN m.tags[i + 1].adkd ELSE slot.adkd
    <3>1. CASE slot.target = "Flexible"
      BY <2>1, <2>5, <3>1
    <3>2. CASE slot.target = "Self"
      BY <2>1, <2>5, <3>2
    <3>3. CASE slot.target = "External"
      BY <2>1, <2>5, <3>3
    <3> QED
      BY <2>4, <3>1, <3>2, <3>3
  <2> QED
    BY <2>3, <2>6 DEF slot
<1> QED
  BY <1>1, <1>6, <1>7 DEF TagsToVerify

(* Nobody makes MACs but the sender.                                       *)
Unforged(m, original) ==
    /\ m.macseq \in {Junk, original.macseq}
    /\ \A i \in DOMAIN original.tags :
          m.tags[i].mac \in {Junk} \cup {original.tags[j].mac : j \in DOMAIN original.tags}

ChainRecords ==
    [maclt : Nat, key_bits : Nat, tag_bits : Nat,
     mac_function : {"HmacSha256", "CmacAes", "Reserved"}, newest : Int]

LEMMA TagsSent ==
    ASSUME NEW c \in ChainRecords, NEW prn, NEW other, NEW flx
    PROVE  LET original == SentMack(c, prn, other, flx)
           IN  /\ original.prn = prn /\ original.epoch = Now /\ original.nmas = 1
               /\ original.macseq = SentMacseq(c, prn, original.tags)
               /\ DOMAIN original.tags = 1 .. (TagInfoCount(c.key_bits, c.tag_bits) + 1)
               /\ TagInfoCount(c.key_bits, c.tag_bits) \in Int
               /\ \A i \in DOMAIN original.tags :
                     original.tags[i] = SentTag(c, prn, other, flx, i - 1)
<1>1. TagInfoCount(c.key_bits, c.tag_bits) \in Int
  BY DEF TagInfoCount, ChainRecords, MackBits
<1> QED
  BY <1>1 DEF SentMack

ShowsWhatWasSent(original, prn, data, s) ==
    LET t == original.tags[s.index + 1]
    IN  /\ s.index + 1 \in DOMAIN original.tags
        /\ s.prna = prn /\ s.prnd = t.prnd /\ s.adkd = t.adkd
        /\ s.nav_time = AddSeconds(Now, -30)
        /\ s.words = data[<<s.prnd, NavKind(s.adkd)>>].words
        /\ BuildNavData(s.words, s.adkd) = UnderTag[s.prnd][issue][start][NavKind(s.adkd)]
        /\ t.mac # Junk

(* Whatever else became of the MACK: a success shows the tag the satellite *)
(* sent in this subframe at this place, for the satellite and the kind of  *)
(* data it sent it for, and the data agrees with the data transmitted in   *)
(* every bit that is under a tag (OsnmaMacVerifier::Verify).               *)
THEOREM SuccessWasSent ==
    ASSUME NEW c \in ChainRecords, NEW prn, NEW other, NEW flx,
           GoodNow, NEW m, m.epoch \in Numbers, Unforged(m, SentMack(c, prn, other, flx)),
           NEW data, NEW rest, NEW s \in Verify(c, m, data, rest).successes
    PROVE  ShowsWhatWasSent(SentMack(c, prn, other, flx), prn, data, s)
<1> DEFINE original == SentMack(c, prn, other, flx)
<1>1. PICK tag \in TagsToVerify(c, m) :
         /\ s = Success(m, data, tag)
         /\ FindForAdkd(data, tag) /\ HasKeyForTag(c, m, tag)
         /\ tag.mac = Mac(KeyIndexForTag(c, m, tag),
                          Message(m, tag, data[<<tag.prnd, NavKind(tag.adkd)>>].words))
  BY SuccessIsVerified
<1>2. ValidLayout(c) /\ MacseqStatus(c, m) = "Ok"
  BY SuccessIsVerified
<1>3. /\ original.macseq = SentMacseq(c, prn, original.tags)
      /\ DOMAIN original.tags = 1 .. (TagInfoCount(c.key_bits, c.tag_bits) + 1)
      /\ \A i \in DOMAIN original.tags : original.tags[i] = SentTag(c, prn, other, flx, i - 1)
      /\ TagInfoCount(c.key_bits, c.tag_bits) \in Nat
  BY <1>2, TagsSent DEF ValidLayout
<1>4. Unforged(m, original)
  OBVIOUS
<1> HIDE DEF original
<1>5. /\ m.prn = prn /\ m.epoch = Now
      /\ MacseqInput(c, m).infos = InfosSent(c, original.tags)
  BY <1>2, <1>3, <1>4, MacseqTellsSender DEF Unforged
<1> DEFINE i == tag.index
<1> DEFINE slot == SentSlot(c, i)
<1>6. c.key_bits \in Nat /\ c.tag_bits \in Nat
  BY DEF ChainRecords
<1>7. /\ i \in ParsedTags(c) \cup {0} /\ i \in Nat
      /\ tag.mac = m.tags[i + 1].mac
      /\ i = 0 => slot = S00 /\ tag.prnd = m.prn /\ tag.adkd = "InavCed"
      /\ i # 0 => /\ slot \in Slots
                 /\ ExpectedSlot(c.maclt, m.epoch, i) = slot
                 /\ tag.adkd = IF slot.target = "Flexible" THEN m.tags[i + 1].adkd
                               ELSE slot.adkd
  BY <1>1, <1>5, <1>6, TagToVerify
<1>8. i + 1 \in DOMAIN original.tags
  BY <1>3, <1>7 DEF ParsedTags
<1> DEFINE words == data[<<tag.prnd, NavKind(tag.adkd)>>].words
<1>9. /\ s.index = i /\ s.prna = m.prn /\ s.prnd = tag.prnd /\ s.adkd = tag.adkd
      /\ s.nav_time = NavDataLookupTime(m.epoch) /\ s.words = words
  BY <1>1 DEF Success
<1> DEFINE message == Message(m, tag, words)
<1>10. tag.mac = Mac(KeyIndexForTag(c, m, tag), message)
  BY <1>1
<1>11. /\ message.ctr = i + 1 /\ message.nav = BuildNavData(words, tag.adkd)
       /\ message.prnd = IF i = 0 THEN 0 ELSE tag.prnd
  BY DEF Message, Counter
<1> HIDE DEF message, words, slot
<1>12. PICK j \in DOMAIN original.tags : tag.mac = original.tags[j].mac
  <2>1. m.tags[i + 1].mac \in {Junk} \cup {original.tags[j].mac : j \in DOMAIN original.tags}
    BY <1>4, <1>8 DEF Unforged
  <2>2. tag.mac # Junk
    BY <1>10, MacIsNotJunk
  <2>3. tag.mac = m.tags[i + 1].mac
    BY <1>7
  <2> HIDE DEF i
  <2> QED
    BY <2>1, <2>2, <2>3
<1>13. j - 1 \in Nat /\ (j - 1) + 1 = j /\ original.tags[j] = SentTag(c, prn, other, flx, j - 1)
  BY <1>3
<1> DEFINE t == original.tags[j]
<1> DEFINE sent_message ==
        [prnd |-> IF j - 1 = 0 THEN 0 ELSE t.prnd, prna |-> prn, gst |-> SentGst,
         ctr |-> (j - 1) + 1, nmas |-> 1,
         nav |-> UnderTag[t.prnd][issue][start][NavKind(t.adkd)]]
<1>14. /\ t.mac = (IF t.adkd = "Reserved" THEN Junk ELSE Mac(SecretKey(t.adkd), sent_message))
       /\ LET sl == SentSlot(c, j - 1) IN
             /\ t.adkd = IF sl.target = "Flexible" THEN flx.adkd ELSE sl.adkd
             /\ sl.target = "Self" => t.prnd = prn
  BY <1>13, SentTagAt
<1>15. /\ sent_message.ctr = j /\ sent_message.prnd = (IF j - 1 = 0 THEN 0 ELSE t.prnd)
       /\ sent_message.nav = UnderTag[t.prnd][issue][start][NavKind(t.adkd)]
  BY <1>13
<1> HIDE DEF sent_message, t
<1>16. message = sent_message /\ t.mac # Junk
  <2> DEFINE k == KeyIndexForTag(c, m, tag)
  <2> DEFINE l == SecretKey(t.adkd)
  <2>1. tag.mac = t.mac /\ t.mac # Junk
    BY <1>10, <1>12, MacIsNotJunk DEF t
  <2>2. t.mac = Mac(l, sent_message)
    BY <1>14, <2>1
  <2>3. Mac(k, message) = Mac(l, sent_message)
    BY <1>10, <2>1, <2>2
  <2> HIDE DEF k, l
  <2>4. message = sent_message
    BY <2>3, MacsAreInjective
  <2> QED
    BY <2>1, <2>4
<1>17. j = i + 1 /\ j - 1 = i
  BY <1>7, <1>11, <1>13, <1>15, <1>16
<1>18. tag.prnd = t.prnd
  <2>1. CASE i = 0
    <3>1. slot = S00 /\ tag.prnd = prn
      BY <1>5, <1>7, <2>1
    <3> QED
      BY <1>14, <1>17, <3>1 DEF slot, S00, Slot
  <2>2. CASE i # 0
    BY <1>11, <1>15, <1>16, <1>17, <2>2
  <2> QED
    BY <2>1, <2>2
<1>19. tag.adkd = t.adkd
  <2>1. CASE i = 0
    <3>1. slot = S00 /\ tag.adkd = "InavCed"
      BY <1>7, <2>1
    <3> QED
      BY <1>14, <1>17, <3>1 DEF slot, S00, Slot
  <2>2. CASE i # 0 /\ slot.target # "Flexible"
    BY <1>7, <1>14, <1>17, <2>2 DEF slot
  <2>3. CASE i # 0 /\ slot.target = "Flexible"
    <3> DEFINE info == [index |-> i, prnd |-> m.tags[i + 1].prnd, adkd |-> m.tags[i + 1].adkd,
                        cop |-> m.tags[i + 1].cop]
    <3>1. i \in {k \in ParsedTags(c) \ {0} : IsFlexible(ExpectedSlot(c.maclt, m.epoch, k))}
      BY <1>7, <2>3 DEF IsFlexible
    <3>2. info \in MacseqInput(c, m).infos
      BY <3>1 DEF MacseqInput
    <3>3. PICK k \in DOMAIN original.tags :
             info = [index |-> k - 1, prnd |-> original.tags[k].prnd,
                     adkd |-> original.tags[k].adkd, cop |-> original.tags[k].cop]
      BY <1>5, <3>2 DEF InfosSent
    <3>4. i = k - 1 /\ m.tags[i + 1].adkd = original.tags[k].adkd
      BY <3>3
    <3>5. k = j
      BY <1>3, <1>13, <1>17, <3>4
    <3> QED
      BY <1>7, <2>3, <3>4, <3>5 DEF t
  <2> QED
    BY <2>1, <2>2, <2>3
<1>20. BuildNavData(words, tag.adkd) = UnderTag[t.prnd][issue][start][NavKind(t.adkd)]
  BY <1>11, <1>15, <1>16
<1>21. NavDataLookupTime(m.epoch) = AddSeconds(Now, -30)
  BY <1>5 DEF NavDataLookupTime, SubframeSeconds
<1>22. /\ s.index + 1 \in DOMAIN original.tags /\ original.tags[s.index + 1] = t
       /\ s.prna = prn /\ s.prnd = t.prnd /\ s.adkd = t.adkd
       /\ s.nav_time = AddSeconds(Now, -30)
       /\ s.words = data[<<s.prnd, NavKind(s.adkd)>>].words
       /\ BuildNavData(s.words, s.adkd) = UnderTag[s.prnd][issue][start][NavKind(s.adkd)]
  BY <1>5, <1>8, <1>9, <1>17, <1>18, <1>19, <1>20, <1>21 DEF t, words
<1> QED
  BY <1>16, <1>22 DEF original, ShowsWhatWasSent

-----------------------------------------------------------------------------
(* Every nonempty set of numbers has a least one.                          *)
LEMMA LeastOf ==
    ASSUME NEW S \in SUBSET Nat, S # {}
    PROVE  \E m \in S : \A n \in S : m <= n
<1>1. IsWellFoundedOn(OpToRel(<, Nat), Nat)
  BY NatLessThanWellFounded
<1>2. PICK m \in S : \A n \in S : ~ (<<n, m>> \in OpToRel(<, Nat))
  BY <1>1, WFMin
<1>3. \A n \in S : ~(n < m)
  BY <1>2 DEF OpToRel
<1> QED
  BY <1>3

(***************************************************************************)
(* Where the fields of a word are: at the sum of the sizes of those before *)
(* them.                                                                   *)
(***************************************************************************)
Begins(wt, first) ==
    first = [n \in DOMAIN Signal[wt] |->
                IF n = 1 THEN 0 ELSE first[n - 1] + SizeOf[Signal[wt][n - 1]]]

(* FirstBit is defined by recursion over the fields.                       *)
LEMMA FirstBitBegins ==
    ASSUME NEW wt, NEW f, Begins(wt, f)
    PROVE  \E first : Begins(wt, first) /\ \A i : FirstBit(wt, i) = first[i]
<1> DEFINE first == CHOOSE g : Begins(wt, g)
<1>1. Begins(wt, first)
  BY Zenon
<1>2. \A i : FirstBit(wt, i) = first[i]
  BY Zenon DEF FirstBit, Begins
<1> QED
  BY <1>1, <1>2

(* A word has n fields of sizes z that begin at the bits p.                *)
Laid(wt, n, p, z) ==
    /\ DOMAIN Signal[wt] = 1 .. n /\ \A i \in 1 .. n : Signal[wt][i] \in Names
    /\ \A i \in 1 .. n : z[i] \in Nat /\ p[i] \in Nat /\ SizeOf[Signal[wt][i]] = z[i]
    /\ \A i \in 1 .. n : p[i] = IF i = 1 THEN 0 ELSE p[i - 1] + z[i - 1]
    /\ \A i, j \in 1 .. n : i < j => p[i] + z[i] <= p[j]

LEMMA FieldsBegin ==
    ASSUME NEW wt, NEW n \in Nat, NEW p, NEW z, Laid(wt, n, p, z)
    PROVE  \A i \in 1 .. n : FirstBit(wt, i) = p[i]
<1> DEFINE f == [i \in 1 .. n |-> p[i]]
<1>1. Begins(wt, f)
  <2>1. \A i \in 1 .. n : f[i] = IF i = 1 THEN 0 ELSE f[i - 1] + SizeOf[Signal[wt][i - 1]]
    BY DEF Laid
  <2>2. DOMAIN Signal[wt] = 1 .. n
    BY DEF Laid
  <2> HIDE DEF f
  <2>3. f = [i \in 1 .. n |-> f[i]]
    BY DEF f
  <2> QED
    BY <2>1, <2>2, <2>3 DEF Begins
<1>2. PICK first : Begins(wt, first) /\ \A i : FirstBit(wt, i) = first[i]
  BY <1>1, FirstBitBegins
<1>3. \A i \in 1 .. n : first[i] = IF i = 1 THEN 0 ELSE first[i - 1] + SizeOf[Signal[wt][i - 1]]
  BY <1>2 DEF Begins, Laid
<1> DEFINE wrong == {i \in 1 .. n : first[i] # p[i]}
<1>4. wrong = {}
  <2> SUFFICES ASSUME wrong # {} PROVE FALSE
    OBVIOUS
  <2>1. PICK i \in wrong : \A j \in wrong : i <= j
    <3>1. wrong \in SUBSET Nat
      OBVIOUS
    <3> HIDE DEF wrong
    <3> QED
      BY <3>1, LeastOf
  <2>2. i \in 1 .. n /\ first[i] # p[i] /\ \A j \in 1 .. n : j < i => first[j] = p[j]
    BY <2>1
  <2>3. CASE i = 1
    BY <1>3, <2>2, <2>3 DEF Laid
  <2>4. CASE i # 1
    <3>1. i - 1 \in 1 .. n /\ i - 1 < i
      BY <2>2, <2>4
    <3>2. first[i] = first[i - 1] + SizeOf[Signal[wt][i - 1]] /\ first[i - 1] = p[i - 1]
      BY <1>3, <2>2, <2>4, <3>1
    <3>3. SizeOf[Signal[wt][i - 1]] = z[i - 1] /\ p[i] = p[i - 1] + z[i - 1]
      BY <2>2, <2>4, <3>1 DEF Laid
    <3> QED
      BY <2>2, <3>2, <3>3
  <2> QED
    BY <2>3, <2>4
<1> QED
  BY <1>2, <1>4

(* The words, one by one.                                                  *)
LEMMA Word1Laid ==
    Laid(1, 6, <<0, 6, 16, 30, 62, 94>>,
         <<6, 10, 14, 32, 32, 32>>)
<1>1. Signal[1] = <<"type", "iodnav", "toe", "m_0", "eccentricity", "sqrt_a">>
  BY DEF Signal, CedWords, TimingWords
<1> QED
  BY <1>1 DEF Laid, SizeOf, Names

LEMMA Word2Laid ==
    Laid(2, 6, <<0, 6, 16, 48, 80, 112>>,
         <<6, 10, 32, 32, 32, 14>>)
<1>1. Signal[2] = <<"type", "iodnav", "omega_0", "i_0", "omega", "i_dot">>
  BY DEF Signal, CedWords, TimingWords
<1> QED
  BY <1>1 DEF Laid, SizeOf, Names

LEMMA Word3Laid ==
    Laid(3, 9, <<0, 6, 16, 40, 56, 72, 88, 104, 120>>,
         <<6, 10, 24, 16, 16, 16, 16, 16, 8>>)
<1>1. Signal[3] = <<"type", "iodnav", "omega_dot", "delta_n", "c_uc", "c_us", "c_rc",
                     "c_rs", "sisa">>
  BY DEF Signal, CedWords, TimingWords
<1> QED
  BY <1>1 DEF Laid, SizeOf, Names

LEMMA Word4Laid ==
    Laid(4, 9, <<0, 6, 16, 22, 38, 54, 68, 99, 120>>,
         <<6, 10, 6, 16, 16, 14, 31, 21, 6>>)
<1>1. Signal[4] = <<"type", "iodnav", "svid", "c_ic", "c_is", "toc", "af0", "af1",
                     "af2">>
  BY DEF Signal, CedWords, TimingWords
<1> QED
  BY <1>1 DEF Laid, SizeOf, Names

LEMMA Word5Laid ==
    Laid(5, 11, <<0, 6, 17, 28, 42, 47, 57, 67, 69, 71, 72>>,
         <<6, 11, 11, 14, 5, 10, 10, 2, 2, 1, 1>>)
<1>1. Signal[5] = <<"type", "ai0", "ai1", "ai2", "storm", "bgd_e5a_e1", "bgd_e5b_e1",
                     "e5b_shs", "e1b_shs", "e5b_dvs", "e1b_dvs">>
  BY DEF Signal, CedWords, TimingWords
<1> QED
  BY <1>1 DEF Laid, SizeOf, Names

LEMMA Word6Laid ==
    Laid(6, 9, <<0, 6, 38, 62, 70, 78, 86, 94, 97>>,
         <<6, 32, 24, 8, 8, 8, 8, 3, 8>>)
<1>1. Signal[6] = <<"type", "a0", "a1", "dt_ls", "t0", "wn0", "wn_lsf", "dn", "dt_lsf">>
  BY DEF Signal, CedWords, TimingWords
<1> QED
  BY <1>1 DEF Laid, SizeOf, Names

LEMMA Word10Laid ==
    Laid(10, 5, <<0, 86, 102, 114, 122>>,
         <<86, 16, 12, 8, 6>>)
<1>1. Signal[10] = <<"almanac", "a0g", "a1g", "t0g", "wn0g">>
  BY DEF Signal, CedWords, TimingWords
<1> QED
  BY <1>1 DEF Laid, SizeOf, Names

LEMMA Apart ==
    ASSUME NEW a \in Nat, NEW k \in Nat, NEW c \in Nat, NEW l \in Nat,
           NEW b \in a .. (a + k - 1), NEW o \in 0 .. (l - 1), b = c + o
    PROVE  ~(a + k <= c) /\ ~(c + l <= a)
  BY SMT

(* Bits of a word are those of the field they are in.                      *)
LEMMA BitsOfField ==
    ASSUME NEW wt, NEW n \in Nat, NEW p, NEW z, Laid(wt, n, p, z),
           NEW values, \A i \in 1 .. n : values[Signal[wt][i]] \subseteq 0 .. (z[i] - 1),
           NEW names, NEW i \in 1 .. n, Signal[wt][i] \in names,
           NEW b \in p[i] .. (p[i] + z[i] - 1)
    PROVE  b \in WordOf(values, wt, names) <=> b - p[i] \in values[Signal[wt][i]]
<1>1. \A j \in 1 .. n : FirstBit(wt, j) = p[j]
  BY FieldsBegin
<1>2. DOMAIN Signal[wt] = 1 .. n /\ p[i] \in Nat /\ z[i] \in Nat
  BY DEF Laid
<1>3. ASSUME b - p[i] \in values[Signal[wt][i]]
      PROVE  b \in WordOf(values, wt, names)
  <2>1. p[i] + (b - p[i]) = b
    BY <1>2
  <2>2. b \in {FirstBit(wt, i) + o : o \in values[Signal[wt][i]]}
    BY <1>1, <1>3, <2>1
  <2>3. i \in {j \in DOMAIN Signal[wt] : Signal[wt][j] \in names}
    BY <1>2
  <2> QED
    BY <2>2, <2>3 DEF WordOf
<1>4. ASSUME b \in WordOf(values, wt, names)
      PROVE  b - p[i] \in values[Signal[wt][i]]
  <2>0. PICK j \in 1 .. n : \E o \in values[Signal[wt][j]] : b = FirstBit(wt, j) + o
    BY <1>2, <1>4 DEF WordOf
  <2>1. PICK o \in values[Signal[wt][j]] : b = FirstBit(wt, j) + o
    BY <2>0
  <2>2. o \in 0 .. (z[j] - 1) /\ b = p[j] + o /\ p[j] \in Nat /\ z[j] \in Nat
    BY <1>1, <2>1 DEF Laid
  <2>3. ~(i < j) /\ ~(j < i)
    <3>1. i < j => p[i] + z[i] <= p[j]
      BY DEF Laid
    <3>2. j < i => p[j] + z[j] <= p[i]
      BY DEF Laid
    <3> QED
      BY <1>2, <2>2, <3>1, <3>2, Apart
  <2>4. i = j
    BY <2>3
  <2>5. b - p[i] = o
    BY <1>2, <2>2, <2>4
  <2> QED
    BY <2>1, <2>4, <2>5
<1> QED
  BY <1>3, <1>4


-----------------------------------------------------------------------------
(***************************************************************************)
(* What is encoded bit by bit is decoded bit by bit (GetUnsignedBits64).   *)
(***************************************************************************)
Halved(x, size, rest) ==
    rest = [k \in 0 .. (size - 1) |-> IF k = 0 THEN x ELSE rest[k - 1] \div 2]

LEMMA HalvesExist ==
    ASSUME NEW x \in Nat, NEW size \in Nat
    PROVE  \E rest : Halved(x, size, rest)
<1> DEFINE wrong == {n \in Nat : ~ \E rest \in [0 .. (n - 1) -> Nat] : Halved(x, n, rest)}
<1>1. wrong = {}
  <2> SUFFICES ASSUME wrong # {} PROVE FALSE
    OBVIOUS
  <2>1. PICK n \in wrong : \A m \in wrong : n <= m
    <3>1. wrong \in SUBSET Nat
      OBVIOUS
    <3> HIDE DEF wrong
    <3> QED
      BY <3>1, LeastOf
  <2>2. CASE n = 0
    <3> DEFINE f == [k \in 0 .. (n - 1) |-> 0]
    <3>1. 0 .. (n - 1) = {}
      BY <2>2
    <3>2. f \in [0 .. (n - 1) -> Nat] /\ Halved(x, n, f)
      BY <3>1 DEF Halved
    <3> QED
      BY <2>1, <3>2
  <2>3. CASE n > 0
    <3>0. n \in Nat
      OBVIOUS
    <3>1. n - 1 \in Nat /\ n - 1 \notin wrong
      <4>1. n - 1 \in Nat /\ ~(n <= n - 1)
        BY <2>3, <3>0
      <4> HIDE DEF wrong
      <4> QED
        BY <2>1, <4>1
    <3>2. PICK f \in [0 .. ((n - 1) - 1) -> Nat] : Halved(x, n - 1, f)
      BY <3>1
    <3>3. \A k \in 0 .. ((n - 1) - 1) : f[k] = IF k = 0 THEN x ELSE f[k - 1] \div 2
      BY <3>2 DEF Halved
    <3> DEFINE g == [k \in 0 .. (n - 1) |->
                        IF k < n - 1 THEN f[k] ELSE IF k = 0 THEN x ELSE f[k - 1] \div 2]
    <3>a. \A k \in 0 .. (n - 1) : k < n - 1 => f[k] \in Nat /\ g[k] = f[k]
      BY <3>0
    <3>b. g[n - 1] = IF n - 1 = 0 THEN x ELSE f[n - 1 - 1] \div 2
      BY <2>3, <3>0
    <3>c. n - 1 # 0 => f[n - 1 - 1] \in Nat /\ g[n - 1 - 1] = f[n - 1 - 1]
      BY <3>0, <3>a, <2>3
    <3> HIDE DEF g
    <3>4. \A k \in 0 .. (n - 1) : g[k] \in Nat
      <4>1. g[n - 1] \in Nat
        <5> DEFINE y == f[n - 1 - 1]
        <5>1. n - 1 # 0 => y \in Nat
          BY <3>c
        <5>2. g[n - 1] = IF n - 1 = 0 THEN x ELSE y \div 2
          BY <3>b
        <5> HIDE DEF y
        <5>3. n - 1 # 0 => y \div 2 \in Nat
          BY <5>1, SMT
        <5> QED
          BY <5>2, <5>3
      <4>2. \A k \in 0 .. (n - 1) : k < n - 1 \/ k = n - 1
        BY <3>0
      <4> QED
        BY <3>a, <4>1, <4>2
    <3>5. \A k \in 0 .. (n - 1) : g[k] = IF k = 0 THEN x ELSE g[k - 1] \div 2
      <4> SUFFICES ASSUME NEW k \in 0 .. (n - 1)
                   PROVE  g[k] = IF k = 0 THEN x ELSE g[k - 1] \div 2
        OBVIOUS
      <4>1. CASE k = n - 1
        <5>1. g[n - 1] = IF n - 1 = 0 THEN x ELSE g[n - 1 - 1] \div 2
          BY <3>b, <3>c
        <5> QED
          BY <4>1, <5>1
      <4>2. CASE k < n - 1
        <5>1. g[k] = f[k] /\ k \in 0 .. ((n - 1) - 1)
          BY <3>0, <3>a, <4>2
        <5>2. k # 0 => k - 1 \in 0 .. (n - 1) /\ k - 1 < n - 1
          BY <3>0, <4>2
        <5>3. k # 0 => g[k - 1] = f[k - 1]
          BY <3>a, <5>2
        <5> QED
          BY <3>3, <5>1, <5>3
      <4> QED
        BY <3>0, <4>1, <4>2
    <3>6. g = [k \in 0 .. (n - 1) |-> g[k]]
      BY DEF g
    <3>7. g \in [0 .. (n - 1) -> Nat] /\ Halved(x, n, g)
      BY <3>4, <3>5, <3>6 DEF Halved
    <3> QED
      BY <2>1, <3>7
  <2> QED
    BY <2>1, <2>2, <2>3
<1> QED
  BY <1>1

LEMMA EncodedBits ==
    ASSUME NEW x \in Nat, NEW size \in Nat
    PROVE  \E rest \in [0 .. (size - 1) -> Nat] :
               /\ \A k \in 0 .. (size - 1) : rest[k] = IF k = 0 THEN x ELSE rest[k - 1] \div 2
               /\ Encode(x, size) = {o \in 0 .. (size - 1) : rest[size - 1 - o] % 2 = 1}
<1> DEFINE rest == CHOOSE f : Halved(x, size, f)
<1>1. Halved(x, size, rest)
  BY HalvesExist, Zenon
<1>2. Encode(x, size) = {o \in 0 .. (size - 1) : rest[size - 1 - o] % 2 = 1}
  BY Zenon DEF Encode, Halved
<1> HIDE DEF rest
<1>3. \A k \in 0 .. (size - 1) : rest[k] = IF k = 0 THEN x ELSE rest[k - 1] \div 2
  BY <1>1 DEF Halved
<1> DEFINE wrong == {k \in 0 .. (size - 1) : rest[k] \notin Nat}
<1>4. wrong = {}
  <2> SUFFICES ASSUME wrong # {} PROVE FALSE
    OBVIOUS
  <2>1. PICK k \in wrong : \A m \in wrong : k <= m
    <3>1. wrong \in SUBSET Nat
      OBVIOUS
    <3> HIDE DEF wrong
    <3> QED
      BY <3>1, LeastOf
  <2>2. k \in 0 .. (size - 1) /\ rest[k] \notin Nat /\ k # 0
    BY <1>3, <2>1
  <2>3. k - 1 \in 0 .. (size - 1) /\ k - 1 \notin wrong
    BY <2>1, <2>2
  <2>4. rest[k - 1] \in Nat /\ rest[k] = rest[k - 1] \div 2
    BY <1>3, <2>2, <2>3
  <2> DEFINE y == rest[k - 1]
  <2>5. y \in Nat /\ rest[k] = y \div 2
    BY <2>4
  <2> HIDE DEF y
  <2>6. rest[k] \in Nat
    BY <2>5, SMT
  <2> QED
    BY <2>2, <2>6
<1>5. rest \in [0 .. (size - 1) -> Nat]
  <2>1. rest = [k \in 0 .. (size - 1) |-> IF k = 0 THEN x ELSE rest[k - 1] \div 2]
    BY <1>1 DEF Halved
  <2>2. \A k \in 0 .. (size - 1) : (IF k = 0 THEN x ELSE rest[k - 1] \div 2) \in Nat
    BY <1>3, <1>4
  <2> QED
    BY <2>1, <2>2
<1> QED
  BY <1>2, <1>3, <1>5

Shifted(field, bit_count, value) ==
    value = [n \in 0 .. bit_count |->
                IF n = 0 THEN 0 ELSE 2 * value[n - 1] + (IF n - 1 \in field THEN 1 ELSE 0)]

(* The value that is shifted in is what the first halves leave.            *)
LEMMA DecodedNumber ==
    ASSUME NEW x \in Nat, NEW size \in Nat \ {0},
           NEW rest \in [0 .. (size - 1) -> Nat],
           \A k \in 0 .. (size - 1) : rest[k] = IF k = 0 THEN x ELSE rest[k - 1] \div 2,
           rest[size - 1] <= 1,
           Encode(x, size) = {o \in 0 .. (size - 1) : rest[size - 1 - o] % 2 = 1}
    PROVE  Unsigned(Encode(x, size), size) = x
<1> DEFINE field == Encode(x, size)
<1> DEFINE g == [n \in 0 .. size |-> IF n = 0 THEN 0 ELSE rest[size - n]]
<1>1. \A n \in 0 .. size : n # 0 => (n - 1 \in field <=> rest[size - n] % 2 = 1)
  <2> SUFFICES ASSUME NEW n \in 0 .. size, n # 0 PROVE n - 1 \in field <=> rest[size - n] % 2 = 1
    OBVIOUS
  <2>1. n - 1 \in 0 .. (size - 1) /\ size - 1 - (n - 1) = size - n
    OBVIOUS
  <2> QED
    BY <2>1
<1> HIDE DEF field
<1>2. \A n \in 0 .. size : n # 0 =>
        g[n] = 2 * g[n - 1] + (IF n - 1 \in field THEN 1 ELSE 0)
  <2> SUFFICES ASSUME NEW n \in 0 .. size, n # 0
               PROVE  g[n] = 2 * g[n - 1] + (IF n - 1 \in field THEN 1 ELSE 0)
    OBVIOUS
  <2> DEFINE y == rest[size - n]
  <2>1. size - n \in 0 .. (size - 1) /\ y \in Nat /\ g[n] = y
    OBVIOUS
  <2>2. (IF n - 1 \in field THEN 1 ELSE 0) = y % 2
    <3>1. y % 2 \in {0, 1}
      <4> HIDE DEF y
      <4> QED BY <2>1, SMT
    <3> QED
      BY <1>1, <3>1
  <2>3. g[n - 1] = y \div 2
    <3>1. CASE n = 1
      <4>1. y <= 1 /\ g[n - 1] = 0
        BY <3>1
      <4> HIDE DEF y, g
      <4> QED
        BY <2>1, <4>1, SMT
    <3>2. CASE n # 1
      <4>1. /\ size - (n - 1) \in 0 .. (size - 1) /\ size - (n - 1) # 0
            /\ size - (n - 1) - 1 = size - n
        BY <3>2
      <4>2. rest[size - (n - 1)] = rest[size - n] \div 2
        BY <4>1
      <4>3. g[n - 1] = rest[size - (n - 1)]
        BY <3>2
      <4> QED
        BY <4>2, <4>3
    <3> QED
      BY <3>1, <3>2
  <2> HIDE DEF y, g
  <2>4. y = 2 * (y \div 2) + (y % 2)
    BY <2>1, SMT
  <2> QED
    BY <2>1, <2>2, <2>3, <2>4
<1>3. Shifted(field, size, g)
  <2>1. g[0] = 0
    OBVIOUS
  <2>2. g = [n \in 0 .. size |-> g[n]]
    OBVIOUS
  <2> HIDE DEF g
  <2> QED
    BY <1>2, <2>1, <2>2 DEF Shifted
<1> DEFINE value == CHOOSE v : Shifted(field, size, v)
<1>4. Shifted(field, size, value)
  BY <1>3, Zenon
<1>5. Unsigned(field, size) = value[size]
  BY Zenon DEF Unsigned, Shifted
<1> HIDE DEF value
<1>6. \A n \in 0 .. size :
        value[n] = IF n = 0 THEN 0 ELSE 2 * value[n - 1] + (IF n - 1 \in field THEN 1 ELSE 0)
  BY <1>4 DEF Shifted
<1>7. g[0] = 0 /\ g[size] = x
  OBVIOUS
<1> HIDE DEF g
<1> DEFINE wrong == {n \in 0 .. size : value[n] # g[n]}
<1>8. wrong = {}
  <2> SUFFICES ASSUME wrong # {} PROVE FALSE
    OBVIOUS
  <2>1. PICK n \in wrong : \A m \in wrong : n <= m
    <3>1. wrong \in SUBSET Nat
      OBVIOUS
    <3> HIDE DEF wrong
    <3> QED
      BY <3>1, LeastOf
  <2>2. n \in 0 .. size /\ value[n] # g[n] /\ n # 0
    BY <1>6, <1>7, <2>1
  <2>3. n - 1 \in 0 .. size /\ value[n - 1] = g[n - 1]
    <3>1. n - 1 \in 0 .. size /\ ~(n <= n - 1)
      BY <2>2
    <3>2. n - 1 \notin wrong
      <4> HIDE DEF wrong
      <4> QED
        BY <2>1, <3>1
    <3> QED
      BY <3>1, <3>2
  <2> QED
    BY <1>2, <1>6, <2>2, <2>3
<1>9. value[size] = g[size]
  <2>1. size \in 0 .. size
    OBVIOUS
  <2> QED
    BY <1>8, <2>1
<1> HIDE DEF wrong
<1> QED
  BY <1>5, <1>7, <1>9 DEF field

(* A number of as many bits as there are.                                  *)
LEMMA HalvesShrink ==
    ASSUME NEW a \in Nat, NEW b \in Nat, NEW n \in Nat, a <= 2 * n + 1, b = a \div 2
    PROVE  b <= n
  BY SMT

Fits(x, size) ==
    \/ size = 6 /\ x <= 63
    \/ size = 8 /\ x <= 255
    \/ size = 14 /\ x <= 16383

LEMMA LastHalf ==
    ASSUME NEW size \in Nat \ {0}, NEW rest \in [0 .. (size - 1) -> Nat],
           \A k \in 1 .. (size - 1) : rest[k] = rest[k - 1] \div 2,
           Fits(rest[0], size)
    PROVE  rest[size - 1] <= 1
<1>1. ASSUME NEW k \in 1 .. (size - 1), NEW n \in Nat, rest[k - 1] <= 2 * n + 1
      PROVE  rest[k] <= n
  <2>0. k - 1 \in 0 .. (size - 1) /\ k \in 0 .. (size - 1)
    OBVIOUS
  <2>1. rest[k - 1] \in Nat /\ rest[k] \in Nat /\ rest[k] = rest[k - 1] \div 2
    BY <2>0
  <2> QED
    BY <1>1, <2>1, HalvesShrink
<1>2. CASE size = 6 /\ rest[0] <= 63
  <2>1. rest[1] <= 31
    BY <1>1, <1>2
  <2>2. rest[2] <= 15
    BY <1>1, <1>2, <2>1
  <2>3. rest[3] <= 7
    BY <1>1, <1>2, <2>2
  <2>4. rest[4] <= 3
    BY <1>1, <1>2, <2>3
  <2> QED
    BY <1>1, <1>2, <2>4
<1>3. CASE size = 8 /\ rest[0] <= 255
  <2>1. rest[1] <= 127
    BY <1>1, <1>3
  <2>2. rest[2] <= 63
    BY <1>1, <1>3, <2>1
  <2>3. rest[3] <= 31
    BY <1>1, <1>3, <2>2
  <2>4. rest[4] <= 15
    BY <1>1, <1>3, <2>3
  <2>5. rest[5] <= 7
    BY <1>1, <1>3, <2>4
  <2>6. rest[6] <= 3
    BY <1>1, <1>3, <2>5
  <2> QED
    BY <1>1, <1>3, <2>6
<1>4. CASE size = 14 /\ rest[0] <= 16383
  <2>1. rest[1] <= 8191
    BY <1>1, <1>4
  <2>2. rest[2] <= 4095
    BY <1>1, <1>4, <2>1
  <2>3. rest[3] <= 2047
    BY <1>1, <1>4, <2>2
  <2>4. rest[4] <= 1023
    BY <1>1, <1>4, <2>3
  <2>5. rest[5] <= 511
    BY <1>1, <1>4, <2>4
  <2>6. rest[6] <= 255
    BY <1>1, <1>4, <2>5
  <2>7. rest[7] <= 127
    BY <1>1, <1>4, <2>6
  <2>8. rest[8] <= 63
    BY <1>1, <1>4, <2>7
  <2>9. rest[9] <= 31
    BY <1>1, <1>4, <2>8
  <2>10. rest[10] <= 15
    BY <1>1, <1>4, <2>9
  <2>11. rest[11] <= 7
    BY <1>1, <1>4, <2>10
  <2>12. rest[12] <= 3
    BY <1>1, <1>4, <2>11
  <2> QED
    BY <1>1, <1>4, <2>12
<1> QED
  BY <1>2, <1>3, <1>4 DEF Fits

(* Numbers of 6, 8 and 14 bits are read as they were written.              *)
THEOREM NumbersAreRead ==
    ASSUME NEW size \in Nat \ {0}, NEW x \in Nat, Fits(x, size)
    PROVE  /\ Encode(x, size) \subseteq 0 .. (size - 1)
           /\ Unsigned(Encode(x, size), size) = x
<1>2. PICK rest \in [0 .. (size - 1) -> Nat] :
         /\ \A k \in 0 .. (size - 1) : rest[k] = IF k = 0 THEN x ELSE rest[k - 1] \div 2
         /\ Encode(x, size) = {o \in 0 .. (size - 1) : rest[size - 1 - o] % 2 = 1}
  <2>1. size \in Nat
    OBVIOUS
  <2> QED
    BY <2>1, EncodedBits
<1>3. rest[size - 1] <= 1
  <2>1. rest[0] = x
    <3>1. 0 \in 0 .. (size - 1)
      OBVIOUS
    <3> QED
      BY <1>2, <3>1
  <2>2. ASSUME NEW k \in 1 .. (size - 1) PROVE rest[k] = rest[k - 1] \div 2
    <3>1. k \in 0 .. (size - 1) /\ k # 0
      OBVIOUS
    <3> QED
      BY <1>2, <3>1
  <2> QED
    BY <2>1, <2>2, LastHalf
<1>4. Unsigned(Encode(x, size), size) = x
  BY <1>2, <1>3, DecodedNumber
<1> QED
  BY <1>2, <1>4

-----------------------------------------------------------------------------
(***************************************************************************)
(* Data that agrees with what was said in the bits under tags has the      *)
(* fields that were said.                                                  *)
(***************************************************************************)
Tagged == Names \ {"type", "almanac"}
Fitting(values) == \A name \in Names : values[name] \subseteq 0 .. (SizeOf[name] - 1)
SameBits(words, values, wt, first, count) ==
    \A b \in BitsFrom(first, count) : b \in words[wt] <=> b \in WordOf(values, wt, Tagged)

LEMMA EncodeFits == \A x, size : Encode(x, size) \subseteq 0 .. (size - 1)
  BY Zenon DEF Encode

LEMMA WhatIsSaidFits ==
    ASSUME NEW prn \in Satellites, NEW n \in Issues, NEW s \in Starts
    PROVE  Fitting(Said[prn][n][s])
<1> SUFFICES ASSUME NEW name \in Names
             PROVE  Value(prn, n, s, name) \subseteq 0 .. (SizeOf[name] - 1)
  BY DEF Fitting, Said
<1>1. /\ SizeOf["toe"] = 14 /\ SizeOf["toc"] = 14 /\ SizeOf["svid"] = 6
      /\ SizeOf["iodnav"] = 10 /\ SizeOf["t0"] = 8 /\ SizeOf["wn0"] = 8
      /\ SizeOf["t0g"] = 8 /\ SizeOf["wn0g"] = 6
  BY DEF SizeOf
<1> QED
  BY <1>1, EncodeFits DEF Value

LEMMA FieldIsSaid ==
    ASSUME NEW wt, NEW n \in Nat, NEW p, NEW z, Laid(wt, n, p, z),
           NEW values, Fitting(values), NEW words,
           NEW first \in Nat, NEW count \in Nat, SameBits(words, values, wt, first, count),
           NEW i \in 1 .. n,
           Signal[wt][i] \in Tagged, first <= p[i], p[i] + z[i] <= first + count
    PROVE  Field(words, <<wt, p[i], z[i]>>) = values[Signal[wt][i]]
<1>1. p[i] \in Nat /\ z[i] \in Nat
      /\ \A j \in 1 .. n : values[Signal[wt][j]] \subseteq 0 .. (z[j] - 1)
  BY DEF Laid, Fitting
<1>2. ASSUME NEW b \in BitsFrom(p[i], z[i])
      PROVE  b \in words[wt] <=> b - p[i] \in values[Signal[wt][i]]
  <2>1. b \in BitsFrom(first, count) /\ b \in p[i] .. (p[i] + z[i] - 1)
    BY <1>1 DEF BitsFrom
  <2>2. b \in WordOf(values, wt, Tagged) <=> b - p[i] \in values[Signal[wt][i]]
    BY <1>1, <2>1, BitsOfField
  <2> QED
    BY <2>1, <2>2 DEF SameBits
<1>3. Field(words, <<wt, p[i], z[i]>>) = {b - p[i] : b \in words[wt] \cap BitsFrom(p[i], z[i])}
  BY DEF Field
<1>4. ASSUME NEW o \in values[Signal[wt][i]]
      PROVE  o \in {b - p[i] : b \in words[wt] \cap BitsFrom(p[i], z[i])}
  <2>1. o \in 0 .. (z[i] - 1)
    BY <1>1
  <2>2. p[i] + o \in BitsFrom(p[i], z[i]) /\ (p[i] + o) - p[i] = o
    BY <1>1, <2>1 DEF BitsFrom
  <2> QED
    BY <1>2, <2>2
<1> QED
  BY <1>2, <1>3, <1>4

FieldsSaid(wt, n, p, z, values, words, first, count) ==
    \A i \in 1 .. n : Signal[wt][i] \in Tagged /\ first <= p[i] /\ p[i] + z[i] <= first + count =>
        Field(words, <<wt, p[i], z[i]>>) = values[Signal[wt][i]]

LEMMA FieldsAreSaid ==
    ASSUME NEW wt, NEW n \in Nat, NEW p, NEW z, Laid(wt, n, p, z),
           NEW values, Fitting(values), NEW words,
           NEW first \in Nat, NEW count \in Nat, SameBits(words, values, wt, first, count)
    PROVE  FieldsSaid(wt, n, p, z, values, words, first, count)
  BY FieldIsSaid DEF FieldsSaid

(* What each word says.                                                    *)
LEMMA Word1Fields ==
    ASSUME NEW values, Fitting(values), NEW words, SameBits(words, values, 1, 6, 120)
    PROVE  /\ Field(words, <<1, 6, 10>>) = values["iodnav"]
           /\ Field(words, <<1, 16, 14>>) = values["toe"]
           /\ Field(words, <<1, 30, 32>>) = values["m_0"]
           /\ Field(words, <<1, 62, 32>>) = values["eccentricity"]
           /\ Field(words, <<1, 94, 32>>) = values["sqrt_a"]
<1>1. Signal[1] = <<"type", "iodnav", "toe", "m_0", "eccentricity", "sqrt_a">>
  BY DEF Signal, CedWords, TimingWords
<1>2. \A j \in 2 .. 6 : Signal[1][j] \in Tagged
  BY <1>1 DEF Tagged, Names, SizeOf
<1> DEFINE p == <<0, 6, 16, 30, 62, 94>>
<1> DEFINE z == <<6, 10, 14, 32, 32, 32>>
<1>3. FieldsSaid(1, 6, p, z, values, words, 6, 120)
  <2>1. Laid(1, 6, p, z)
    BY Word1Laid
  <2> HIDE DEF p, z
  <2> QED
    BY <2>1, FieldsAreSaid
<1> QED
  BY <1>1, <1>2, <1>3 DEF FieldsSaid

LEMMA Word2Fields ==
    ASSUME NEW values, Fitting(values), NEW words, SameBits(words, values, 2, 6, 120)
    PROVE  /\ Field(words, <<2, 6, 10>>) = values["iodnav"]
           /\ Field(words, <<2, 16, 32>>) = values["omega_0"]
           /\ Field(words, <<2, 48, 32>>) = values["i_0"]
           /\ Field(words, <<2, 80, 32>>) = values["omega"]
           /\ Field(words, <<2, 112, 14>>) = values["i_dot"]
<1>1. Signal[2] = <<"type", "iodnav", "omega_0", "i_0", "omega", "i_dot">>
  BY DEF Signal, CedWords, TimingWords
<1>2. \A j \in 2 .. 6 : Signal[2][j] \in Tagged
  BY <1>1 DEF Tagged, Names, SizeOf
<1> DEFINE p == <<0, 6, 16, 48, 80, 112>>
<1> DEFINE z == <<6, 10, 32, 32, 32, 14>>
<1>3. FieldsSaid(2, 6, p, z, values, words, 6, 120)
  <2>1. Laid(2, 6, p, z)
    BY Word2Laid
  <2> HIDE DEF p, z
  <2> QED
    BY <2>1, FieldsAreSaid
<1> QED
  BY <1>1, <1>2, <1>3 DEF FieldsSaid

LEMMA Word3Fields ==
    ASSUME NEW values, Fitting(values), NEW words, SameBits(words, values, 3, 6, 122)
    PROVE  /\ Field(words, <<3, 6, 10>>) = values["iodnav"]
           /\ Field(words, <<3, 16, 24>>) = values["omega_dot"]
           /\ Field(words, <<3, 40, 16>>) = values["delta_n"]
           /\ Field(words, <<3, 56, 16>>) = values["c_uc"]
           /\ Field(words, <<3, 72, 16>>) = values["c_us"]
           /\ Field(words, <<3, 88, 16>>) = values["c_rc"]
           /\ Field(words, <<3, 104, 16>>) = values["c_rs"]
           /\ Field(words, <<3, 120, 8>>) = values["sisa"]
<1>1. Signal[3] =
        <<"type", "iodnav", "omega_dot", "delta_n", "c_uc", "c_us", "c_rc", "c_rs", "sisa">>
  BY DEF Signal, CedWords, TimingWords
<1>2. \A j \in 2 .. 9 : Signal[3][j] \in Tagged
  BY <1>1 DEF Tagged, Names, SizeOf
<1> DEFINE p == <<0, 6, 16, 40, 56, 72, 88, 104, 120>>
<1> DEFINE z == <<6, 10, 24, 16, 16, 16, 16, 16, 8>>
<1>3. FieldsSaid(3, 9, p, z, values, words, 6, 122)
  <2>1. Laid(3, 9, p, z)
    BY Word3Laid
  <2> HIDE DEF p, z
  <2> QED
    BY <2>1, FieldsAreSaid
<1> QED
  BY <1>1, <1>2, <1>3 DEF FieldsSaid

LEMMA Word4Fields ==
    ASSUME NEW values, Fitting(values), NEW words, SameBits(words, values, 4, 6, 120)
    PROVE  /\ Field(words, <<4, 6, 10>>) = values["iodnav"]
           /\ Field(words, <<4, 16, 6>>) = values["svid"]
           /\ Field(words, <<4, 22, 16>>) = values["c_ic"]
           /\ Field(words, <<4, 38, 16>>) = values["c_is"]
           /\ Field(words, <<4, 54, 14>>) = values["toc"]
           /\ Field(words, <<4, 68, 31>>) = values["af0"]
           /\ Field(words, <<4, 99, 21>>) = values["af1"]
           /\ Field(words, <<4, 120, 6>>) = values["af2"]
<1>1. Signal[4] = <<"type", "iodnav", "svid", "c_ic", "c_is", "toc", "af0", "af1", "af2">>
  BY DEF Signal, CedWords, TimingWords
<1>2. \A j \in 2 .. 9 : Signal[4][j] \in Tagged
  BY <1>1 DEF Tagged, Names, SizeOf
<1> DEFINE p == <<0, 6, 16, 22, 38, 54, 68, 99, 120>>
<1> DEFINE z == <<6, 10, 6, 16, 16, 14, 31, 21, 6>>
<1>3. FieldsSaid(4, 9, p, z, values, words, 6, 120)
  <2>1. Laid(4, 9, p, z)
    BY Word4Laid
  <2> HIDE DEF p, z
  <2> QED
    BY <2>1, FieldsAreSaid
<1> QED
  BY <1>1, <1>2, <1>3 DEF FieldsSaid

LEMMA Word5Fields ==
    ASSUME NEW values, Fitting(values), NEW words, SameBits(words, values, 5, 6, 67)
    PROVE  /\ Field(words, <<5, 6, 11>>) = values["ai0"]
           /\ Field(words, <<5, 17, 11>>) = values["ai1"]
           /\ Field(words, <<5, 28, 14>>) = values["ai2"]
           /\ Field(words, <<5, 42, 5>>) = values["storm"]
           /\ Field(words, <<5, 47, 10>>) = values["bgd_e5a_e1"]
           /\ Field(words, <<5, 57, 10>>) = values["bgd_e5b_e1"]
           /\ Field(words, <<5, 67, 2>>) = values["e5b_shs"]
           /\ Field(words, <<5, 69, 2>>) = values["e1b_shs"]
           /\ Field(words, <<5, 71, 1>>) = values["e5b_dvs"]
           /\ Field(words, <<5, 72, 1>>) = values["e1b_dvs"]
<1>1. Signal[5] = <<"type", "ai0", "ai1", "ai2", "storm", "bgd_e5a_e1", "bgd_e5b_e1", "e5b_shs",
                  "e1b_shs", "e5b_dvs", "e1b_dvs">>
  BY DEF Signal, CedWords, TimingWords
<1>2. \A j \in 2 .. 11 : Signal[5][j] \in Tagged
  BY <1>1 DEF Tagged, Names, SizeOf
<1> DEFINE p == <<0, 6, 17, 28, 42, 47, 57, 67, 69, 71, 72>>
<1> DEFINE z == <<6, 11, 11, 14, 5, 10, 10, 2, 2, 1, 1>>
<1>3. FieldsSaid(5, 11, p, z, values, words, 6, 67)
  <2>1. Laid(5, 11, p, z)
    BY Word5Laid
  <2> HIDE DEF p, z
  <2> QED
    BY <2>1, FieldsAreSaid
<1> QED
  BY <1>1, <1>2, <1>3 DEF FieldsSaid

LEMMA Word6Fields ==
    ASSUME NEW values, Fitting(values), NEW words, SameBits(words, values, 6, 6, 99)
    PROVE  /\ Field(words, <<6, 6, 32>>) = values["a0"]
           /\ Field(words, <<6, 38, 24>>) = values["a1"]
           /\ Field(words, <<6, 62, 8>>) = values["dt_ls"]
           /\ Field(words, <<6, 70, 8>>) = values["t0"]
           /\ Field(words, <<6, 78, 8>>) = values["wn0"]
           /\ Field(words, <<6, 86, 8>>) = values["wn_lsf"]
           /\ Field(words, <<6, 94, 3>>) = values["dn"]
           /\ Field(words, <<6, 97, 8>>) = values["dt_lsf"]
<1>1. Signal[6] = <<"type", "a0", "a1", "dt_ls", "t0", "wn0", "wn_lsf", "dn", "dt_lsf">>
  BY DEF Signal, CedWords, TimingWords
<1>2. \A j \in 2 .. 9 : Signal[6][j] \in Tagged
  BY <1>1 DEF Tagged, Names, SizeOf
<1> DEFINE p == <<0, 6, 38, 62, 70, 78, 86, 94, 97>>
<1> DEFINE z == <<6, 32, 24, 8, 8, 8, 8, 3, 8>>
<1>3. FieldsSaid(6, 9, p, z, values, words, 6, 99)
  <2>1. Laid(6, 9, p, z)
    BY Word6Laid
  <2> HIDE DEF p, z
  <2> QED
    BY <2>1, FieldsAreSaid
<1> QED
  BY <1>1, <1>2, <1>3 DEF FieldsSaid

LEMMA Word10Fields ==
    ASSUME NEW values, Fitting(values), NEW words, SameBits(words, values, 10, 86, 42)
    PROVE  /\ Field(words, <<10, 86, 16>>) = values["a0g"]
           /\ Field(words, <<10, 102, 12>>) = values["a1g"]
           /\ Field(words, <<10, 114, 8>>) = values["t0g"]
           /\ Field(words, <<10, 122, 6>>) = values["wn0g"]
<1>1. Signal[10] = <<"almanac", "a0g", "a1g", "t0g", "wn0g">>
  BY DEF Signal, CedWords, TimingWords
<1>2. \A j \in 2 .. 5 : Signal[10][j] \in Tagged
  BY <1>1 DEF Tagged, Names, SizeOf
<1> DEFINE p == <<0, 86, 102, 114, 122>>
<1> DEFINE z == <<86, 16, 12, 8, 6>>
<1>3. FieldsSaid(10, 5, p, z, values, words, 86, 42)
  <2>1. Laid(10, 5, p, z)
    BY Word10Laid
  <2> HIDE DEF p, z
  <2> QED
    BY <2>1, FieldsAreSaid
<1> QED
  BY <1>1, <1>2, <1>3 DEF FieldsSaid

-----------------------------------------------------------------------------
(***************************************************************************)
(* Rows of data that agrees with what was said are the rows that say it.   *)
(***************************************************************************)
RangesOf(kind) == IF kind = "timing" THEN TimingRanges ELSE CedRanges

LEMMA DataUnderTags ==
    ASSUME NEW prn \in Satellites, NEW n \in Issues, NEW s \in Starts, NEW adkd, NEW words,
           BuildNavData(words, adkd) = UnderTag[prn][n][s][NavKind(adkd)]
    PROVE  \A r \in RangesOf(NavKind(adkd)) : SameBits(words, Said[prn][n][s], r[1], r[2], r[3])
<1> DEFINE kind == NavKind(adkd)
<1> DEFINE values == Said[prn][n][s]
<1> DEFINE ranges == RangesOf(kind)
<1>1. kind \in Kinds /\ BuildNavData(words, adkd) = Bits(words, ranges)
  BY DEF NavKind, Kinds, BuildNavData, RangesOf
<1>2. UnderTag[prn][n][s][kind] = UNION {{<<wt, b>> : b \in WordOf(values, wt, Tagged)} :
                                            wt \in WordsOf(kind)}
  BY <1>1 DEF UnderTag, Tagged
<1>3. \A r \in ranges : r[1] \in WordsOf(kind)
  BY <1>1 DEF RangesOf, WordsOf, CedRanges, TimingRanges, CedWords, TimingWords, Kinds
<1>4. \A q, r \in ranges : q[1] = r[1] => q = r
  BY DEF RangesOf, CedRanges, TimingRanges
<1>5. Bits(words, ranges) = UNION {{<<wt, b>> : b \in WordOf(values, wt, Tagged)} :
                                            wt \in WordsOf(kind)}
  BY <1>1, <1>2
<1> HIDE DEF kind, values, ranges
<1>6. ASSUME NEW r \in ranges, NEW b \in BitsFrom(r[2], r[3])
      PROVE  b \in words[r[1]] <=> b \in WordOf(values, r[1], Tagged)
  <2>1. ASSUME b \in words[r[1]] PROVE b \in WordOf(values, r[1], Tagged)
    <3>1. <<r[1], b>> \in Bits(words, ranges)
      BY <2>1 DEF Bits
    <3>2. PICK wt \in WordsOf(kind) : <<r[1], b>> \in {<<wt, c>> : c \in WordOf(values, wt, Tagged)}
      BY <1>5, <3>1
    <3> QED
      BY <3>2
  <2>2. ASSUME b \in WordOf(values, r[1], Tagged) PROVE b \in words[r[1]]
    <3>1. <<r[1], b>> \in {<<r[1], c>> : c \in WordOf(values, r[1], Tagged)}
      BY <2>2
    <3>2. <<r[1], b>> \in Bits(words, ranges)
      BY <1>3, <1>5, <3>1
    <3>3. PICK q \in ranges :
             <<r[1], b>> \in {<<q[1], c>> : c \in words[q[1]] \cap BitsFrom(q[2], q[3])}
      BY <3>2 DEF Bits
    <3> QED
      BY <3>3
  <2> QED
    BY <2>1, <2>2
<1> QED
  BY <1>6 DEF SameBits, kind, values, ranges

LEMMA CedUnderTags ==
    ASSUME NEW prn \in Satellites, NEW n \in Issues, NEW s \in Starts, NEW adkd, NEW words,
           BuildNavData(words, adkd) = UnderTag[prn][n][s][NavKind(adkd)], NavKind(adkd) = "ced"
    PROVE  LET values == Said[prn][n][s] IN
           /\ SameBits(words, values, 1, 6, 120) /\ SameBits(words, values, 2, 6, 120)
           /\ SameBits(words, values, 3, 6, 122) /\ SameBits(words, values, 4, 6, 120)
           /\ SameBits(words, values, 5, 6, 67)
<1>1. \A r \in CedRanges : SameBits(words, Said[prn][n][s], r[1], r[2], r[3])
  BY DataUnderTags DEF RangesOf
<1>2. /\ <<1, 6, 120>> \in CedRanges /\ <<2, 6, 120>> \in CedRanges /\ <<3, 6, 122>> \in CedRanges
      /\ <<4, 6, 120>> \in CedRanges /\ <<5, 6, 67>> \in CedRanges
  BY DEF CedRanges
<1> QED
  BY <1>1, <1>2

LEMMA TimingUnderTags ==
    ASSUME NEW prn \in Satellites, NEW n \in Issues, NEW s \in Starts, NEW adkd, NEW words,
           BuildNavData(words, adkd) = UnderTag[prn][n][s][NavKind(adkd)], NavKind(adkd) = "timing"
    PROVE  LET values == Said[prn][n][s] IN
           SameBits(words, values, 6, 6, 99) /\ SameBits(words, values, 10, 86, 42)
<1>1. \A r \in TimingRanges : SameBits(words, Said[prn][n][s], r[1], r[2], r[3])
  BY DataUnderTags DEF RangesOf
<1>2. <<6, 6, 99>> \in TimingRanges /\ <<10, 86, 42>> \in TimingRanges
  BY DEF TimingRanges
<1> QED
  BY <1>1, <1>2

(* The fields of the layouts.                                              *)
LEMMA EphFields ==
    ASSUME NEW values, Fitting(values), NEW words,
           SameBits(words, values, 1, 6, 120), SameBits(words, values, 2, 6, 120),
           SameBits(words, values, 3, 6, 122), SameBits(words, values, 4, 6, 120),
           SameBits(words, values, 5, 6, 67)
    PROVE  /\ Fields(words, EphLayout) = [f \in DOMAIN EphLayout |-> values[f]]
           /\ Fields(words, IonoLayout) = [f \in DOMAIN IonoLayout |-> values[f]]
<1>1. \A f \in DOMAIN EphLayout : Field(words, EphLayout[f]) = values[f]
  <2> DEFINE In(f) == Field(words, EphLayout[f]) = values[f]
  <2>1. In("iodnav") /\ In("m_0") /\ In("eccentricity") /\ In("sqrt_a")
    BY Word1Fields DEF EphLayout
  <2>2. In("omega_0") /\ In("i_0") /\ In("omega") /\ In("i_dot")
    BY Word2Fields DEF EphLayout
  <2>3. /\ In("omega_dot") /\ In("delta_n") /\ In("c_uc") /\ In("c_us") /\ In("c_rc")
        /\ In("c_rs") /\ In("sisa")
    BY Word3Fields DEF EphLayout
  <2>4. In("c_ic") /\ In("c_is") /\ In("af0") /\ In("af1") /\ In("af2")
    BY Word4Fields DEF EphLayout
  <2>5. In("bgd_e5a_e1") /\ In("bgd_e5b_e1")
    BY Word5Fields DEF EphLayout
  <2>6. DOMAIN EphLayout = {"iodnav", "m_0", "eccentricity", "sqrt_a", "omega_0", "i_0", "omega",
                            "i_dot", "omega_dot", "delta_n", "c_uc", "c_us", "c_rc", "c_rs", "sisa",
                            "c_ic", "c_is", "af0", "af1", "af2", "bgd_e5a_e1", "bgd_e5b_e1"}
    BY DEF EphLayout
  <2> HIDE DEF In
  <2>7. \A f \in DOMAIN EphLayout : In(f)
    BY <2>1, <2>2, <2>3, <2>4, <2>5, <2>6
  <2> QED
    BY <2>7 DEF In
<1>2. \A f \in DOMAIN IonoLayout : Field(words, IonoLayout[f]) = values[f]
  BY Word5Fields DEF IonoLayout
<1> QED
  BY <1>1, <1>2 DEF Fields

LEMMA UtcFields ==
    ASSUME NEW values, Fitting(values), NEW words,
           SameBits(words, values, 6, 6, 99), SameBits(words, values, 10, 86, 42)
    PROVE  /\ Fields(words, UtcLayout) = [f \in DOMAIN UtcLayout |-> values[f]]
           /\ Fields(words, GgtoLayout) = [f \in DOMAIN GgtoLayout |-> values[f]]
<1>1. \A f \in DOMAIN UtcLayout : Field(words, UtcLayout[f]) = values[f]
  BY Word6Fields DEF UtcLayout
<1>2. \A f \in DOMAIN GgtoLayout : Field(words, GgtoLayout[f]) = values[f]
  BY Word10Fields DEF GgtoLayout
<1> QED
  BY <1>1, <1>2 DEF Fields

(* The health bits.                                                        *)
LEMMA HealthIsSaid ==
    ASSUME NEW values, Fitting(values), NEW words, SameBits(words, values, 5, 6, 67)
    PROVE  PackHealth(words) = values["e1b_dvs"] \cup {2 - o : o \in values["e1b_shs"]}
                    \cup {6 + o : o \in values["e5b_dvs"]} \cup {8 - o : o \in values["e5b_shs"]}
<1> DEFINE bits == words[5]
<1>1. /\ Field(words, <<5, 67, 2>>) = values["e5b_shs"]
      /\ Field(words, <<5, 69, 2>>) = values["e1b_shs"]
      /\ Field(words, <<5, 71, 1>>) = values["e5b_dvs"]
      /\ Field(words, <<5, 72, 1>>) = values["e1b_dvs"]
  BY Word5Fields
<1>2. \A at, size :
        Field(words, <<5, at, size>>) = {b - at : b \in bits \cap (at .. (at + size - 1))}
  BY DEF Field, BitsFrom
<1> HIDE DEF bits
<1>3. values["e5b_shs"] = (IF 67 \in bits THEN {0} ELSE {}) \cup (IF 68 \in bits THEN {1} ELSE {})
  BY <1>1, <1>2
<1>4. values["e1b_shs"] = (IF 69 \in bits THEN {0} ELSE {}) \cup (IF 70 \in bits THEN {1} ELSE {})
  BY <1>1, <1>2
<1>5. values["e5b_dvs"] = (IF 71 \in bits THEN {0} ELSE {})
  <2>1. values["e5b_dvs"] = {b - 71 : b \in bits \cap (71 .. (71 + 1 - 1))}
    BY <1>1, <1>2
  <2>2. \A b : b \in 71 .. (71 + 1 - 1) <=> b = 71
    OBVIOUS
  <2> QED
    BY <2>1, <2>2
<1>6. values["e1b_dvs"] = (IF 72 \in bits THEN {0} ELSE {})
  BY <1>1, <1>2
<1>7. Field(words, <<5, 67, 6>>) =
         (IF 67 \in bits THEN {0} ELSE {}) \cup (IF 68 \in bits THEN {1} ELSE {})
         \cup (IF 69 \in bits THEN {2} ELSE {}) \cup (IF 70 \in bits THEN {3} ELSE {})
         \cup (IF 71 \in bits THEN {4} ELSE {}) \cup (IF 72 \in bits THEN {5} ELSE {})
  BY <1>2
<1>8. PackHealth(words) =
         (IF 67 \in bits THEN {8} ELSE {}) \cup (IF 68 \in bits THEN {7} ELSE {})
         \cup (IF 69 \in bits THEN {2} ELSE {}) \cup (IF 70 \in bits THEN {1} ELSE {})
         \cup (IF 71 \in bits THEN {6} ELSE {}) \cup (IF 72 \in bits THEN {0} ELSE {})
  BY <1>7 DEF PackHealth, HealthBits
<1>9. {8 - o : o \in values["e5b_shs"]} =
         (IF 67 \in bits THEN {8} ELSE {}) \cup (IF 68 \in bits THEN {7} ELSE {})
  <2> DEFINE v == values["e5b_shs"]
  <2>1. \A o : o \in v <=> (o = 0 /\ 67 \in bits) \/ (o = 1 /\ 68 \in bits)
    BY <1>3
  <2> HIDE DEF v
  <2>2. \A x : x \in {8 - o : o \in v} <=> (x = 8 /\ 67 \in bits) \/ (x = 7 /\ 68 \in bits)
    BY <2>1
  <2> QED
    BY <2>2 DEF v
<1>10. {2 - o : o \in values["e1b_shs"]} =
         (IF 69 \in bits THEN {2} ELSE {}) \cup (IF 70 \in bits THEN {1} ELSE {})
  <2> DEFINE v == values["e1b_shs"]
  <2>1. \A o : o \in v <=> (o = 0 /\ 69 \in bits) \/ (o = 1 /\ 70 \in bits)
    BY <1>4
  <2> HIDE DEF v
  <2>2. \A x : x \in {2 - o : o \in v} <=> (x = 2 /\ 69 \in bits) \/ (x = 1 /\ 70 \in bits)
    BY <2>1
  <2> QED
    BY <2>2 DEF v
<1>11. {6 + o : o \in values["e5b_dvs"]} = (IF 71 \in bits THEN {6} ELSE {})
  BY <1>5
<1>12. values["e1b_dvs"] = (IF 72 \in bits THEN {0} ELSE {})
  BY <1>6
<1> QED
  BY <1>8, <1>9, <1>10, <1>11, <1>12

-----------------------------------------------------------------------------
(***************************************************************************)
(* Times.                                                                  *)
(***************************************************************************)
IsTime(t) == t = Time(t.wn, t.tow) /\ t.wn \in Int /\ t.tow \in Int /\ t.tow >= 0 /\ t.tow < 604800
Second(t) == t.wn * 604800 + t.tow

LEMMA SecondsAdded ==
    ASSUME NEW t, t.wn \in Int, t.tow \in Int, NEW d \in Int
    PROVE  LET u == AddSeconds(t, d)
           IN  /\ IsTime(u) /\ Second(u) = Second(t) + d
               /\ (t.tow + d) % 60 = 0 => u.tow % 60 = 0
               /\ (t.tow + d) % 30 = 0 => u.tow % 30 = 0
<1> DEFINE u == AddSeconds(t, d)
<1> DEFINE x == t.tow + d
<1> DEFINE q == x \div 604800
<1> DEFINE r == x % 604800
<1>1. x \in Int
  BY SMT
<1>2. u.wn = t.wn + q /\ u.tow = r /\ u = Time(u.wn, u.tow)
  BY SMT DEF AddSeconds, Time, WeekSeconds
<1>3. q \in Int /\ r \in Int /\ 0 <= r /\ r <= 604799 /\ x = 604800 * q + r
  <2> HIDE DEF x
  <2> QED
    BY <1>1, SMT
<1>4. (x % 60 = 0 => r % 60 = 0) /\ (x % 30 = 0 => r % 30 = 0)
  <2> HIDE DEF x, q, r
  <2> QED
    BY <1>1, <1>3, SMT
<1> HIDE DEF u, q, r
<1>5. IsTime(u)
  BY <1>2, <1>3, SMT DEF IsTime
<1>6. Second(u) = Second(t) + d
  BY <1>2, <1>3, SMT DEF Second
<1> QED
  BY <1>2, <1>4, <1>5, <1>6, SMT DEF u

(* A time less than half a week from the reference is known from its       *)
(* second of the week.                                                     *)
LEMMA NearTime ==
    ASSUME NEW t, IsTime(t), NEW ref, IsTime(ref), ref.wn >= 0,
           Second(t) - Second(ref) < 302400, Second(ref) - Second(t) < 302400
    PROVE  TimeInWeek(ref, t.tow) = t
<1> DEFINE rw == ref.wn
<1> DEFINE rt == ref.tow
<1> DEFINE tw == t.wn
<1> DEFINE tt == t.tow
<1>1. rw \in Int /\ rt \in Int /\ rt >= 0 /\ rt < 604800 /\ rw >= 0
  BY SMT DEF IsTime
<1>2. tw \in Int /\ tt \in Int /\ tt >= 0 /\ tt < 604800
  BY SMT DEF IsTime
<1>3. /\ (tw * 604800 + tt) - (rw * 604800 + rt) < 302400
      /\ (rw * 604800 + rt) - (tw * 604800 + tt) < 302400
  BY SMT DEF Second
<1>4. HalfWeek = 302400
  BY SMT DEF HalfWeek, WeekSeconds
<1>5. ResolveWeekForTow(ref, tt) =
        IF tt - rt > 302400 THEN rw - 1 ELSE IF tt - rt < -302400 THEN rw + 1 ELSE rw
  BY <1>1, <1>4, SMT DEF ResolveWeekForTow, IsTimeValid, WeekSeconds
<1> HIDE DEF rw, rt, tw, tt
<1>6. tw = (IF tt - rt > 302400 THEN rw - 1 ELSE IF tt - rt < -302400 THEN rw + 1 ELSE rw)
  BY <1>1, <1>2, <1>3, SMT
<1>7. ResolveWeekForTow(ref, t.tow) = t.wn
  BY <1>5, <1>6, SMT DEF tw, tt
<1> QED
  BY <1>7, SMT DEF TimeInWeek, IsTime

(* So is a week of which the low bits are known.                           *)
LEMMA NearWeek ==
    ASSUME NEW reference \in Nat, NEW week \in Nat, NEW period \in {64, 256},
           2 * (week - reference) < period, 2 * (reference - week) < period
    PROVE  ResolveTruncatedWeek(reference, week % period, period) = week
<1>1. CASE period = 64
  BY <1>1, SMT DEF ResolveTruncatedWeek, InPeriod
<1>2. CASE period = 256
  BY <1>2, SMT DEF ResolveTruncatedWeek, InPeriod
<1> QED
  BY <1>1, <1>2, SMT

LEMMA StartIsTime ==
    ASSUME NEW s \in Starts
    PROVE  IsTime(s) /\ s.wn > 100 /\ s.tow % 30 = 0
  BY StartsAssumption, SMT DEF IsTime, WeekSeconds

(* The times that are said are whole minutes, near the start.              *)
IsNear(a, b) == a \in Int /\ b \in Int /\ a - b < 4000 /\ b - a < 4000

LEMMA SaidTimes ==
    ASSUME NEW s \in Starts, NEW n \in Issues
    PROVE  /\ IsTime(Toe(s, n)) /\ Toe(s, n).tow % 60 = 0
           /\ IsTime(Toc(s, n)) /\ Toc(s, n).tow % 60 = 0
           /\ IsNear(Second(Toe(s, n)), Second(s)) /\ IsNear(Second(Toc(s, n)), Second(s))
<1>1. s.wn \in Int /\ s.tow \in Int /\ s.tow >= 0
  BY StartIsTime, SMT DEF IsTime
<1> DEFINE x == s.tow
<1> DEFINE c == IF n = 1 THEN -600 ELSE 3600
<1> DEFINE d == c - (x % 60)
<1>2. c \in {-600, 3600}
  BY SMT
<1>3. d \in Int /\ d >= -660 /\ d <= 3600 /\ (x + d) % 60 = 0
  <2>1. x \in Int /\ c \in Int
    BY <1>1, <1>2, SMT
  <2>2. x % 60 \in Int /\ x % 60 >= 0 /\ x % 60 < 60
    <3> HIDE DEF x
    <3> QED
      BY <2>1, SMT
  <2>3. d \in Int /\ d >= -660 /\ d <= 3600
    <3> HIDE DEF x, c
    <3> QED
      BY <1>2, <2>1, <2>2, SMT
  <2>4. (x + (-600 - (x % 60))) % 60 = 0 /\ (x + (3600 - (x % 60))) % 60 = 0
    <3> HIDE DEF x
    <3> QED
      BY <2>1, SMT
  <2> QED
    BY <1>2, <2>3, <2>4, SMT
<1>4. Toe(s, n) = AddSeconds(s, d)
  BY SMT DEF Toe
<1> HIDE DEF c, d
<1>5. IsTime(Toe(s, n)) /\ Second(Toe(s, n)) = Second(s) + d /\ Toe(s, n).tow % 60 = 0
  BY <1>1, <1>3, <1>4, SecondsAdded, SMT
<1> DEFINE y == Toe(s, n).tow
<1>6. y \in Int /\ Toe(s, n).wn \in Int
  BY <1>5, SMT DEF IsTime
<1>7. (y + (-60)) % 60 = 0
  <2>1. y % 60 = 0
    BY <1>5, SMT
  <2> HIDE DEF y
  <2> QED
    BY <1>6, <2>1, SMT
<1>8. IsTime(Toc(s, n)) /\ Second(Toc(s, n)) = Second(Toe(s, n)) + (-60) /\ Toc(s, n).tow % 60 = 0
  <2>1. Toc(s, n) = AddSeconds(Toe(s, n), -60)
    BY SMT DEF Toc
  <2>2. -60 \in Int
    BY SMT
  <2> QED
    BY <1>6, <1>7, <2>1, <2>2, SecondsAdded, SMT
<1>9. Second(s) \in Int
  BY <1>1, SMT DEF Second
<1> QED
  BY <1>3, <1>5, <1>8, <1>9, SMT DEF IsNear

(* The subframe a tag authenticates is this one of the sender or the one   *)
(* before.                                                                 *)
NearStart(ref, s) ==
    /\ IsTime(ref) /\ ref.wn >= 0 /\ ref.wn - s.wn <= 1 /\ s.wn - ref.wn <= 1
    /\ IsNear(Second(ref), Second(s))

LEMMA TowIsRead ==
    ASSUME NEW t, IsTime(t), t.tow % 60 = 0
    PROVE  /\ Fits(t.tow \div 60, 14) /\ t.tow \div 60 \in Nat
           /\ (t.tow \div 60) * 60 = t.tow
<1> DEFINE x == t.tow
<1>1. x \in Int /\ x >= 0 /\ x <= 604799 /\ x % 60 = 0
  BY SMT DEF IsTime
<1> HIDE DEF x
<1>2. x \div 60 \in Nat /\ x \div 60 <= 16383 /\ (x \div 60) * 60 = x
  BY <1>1, SMT
<1> QED
  BY <1>2, SMT DEF Fits, x

-----------------------------------------------------------------------------
(* The numbers of what was said, read.                                     *)
LEMMA CedNumbers ==
    ASSUME NEW prn \in Satellites, NEW n \in Issues, NEW s \in Starts, NEW words,
           SameBits(words, Said[prn][n][s], 1, 6, 120), SameBits(words, Said[prn][n][s], 4, 6, 120)
    PROVE  /\ Svid(words) = prn
           /\ Number(words, <<1, 16, 14>>) * 60 = Toe(s, n).tow
           /\ Number(words, <<4, 54, 14>>) * 60 = Toc(s, n).tow
<1> DEFINE values == Said[prn][n][s]
<1>1. Fitting(values)
  BY WhatIsSaidFits
<1>2. /\ values["toe"] = Encode(Toe(s, n).tow \div 60, 14)
      /\ values["toc"] = Encode(Toc(s, n).tow \div 60, 14)
      /\ values["svid"] = Encode(prn, 6)
  <2>1. "toe" \in Names /\ "toc" \in Names /\ "svid" \in Names
    BY DEF Names, SizeOf
  <2>2. \A name \in Names : values[name] = Value(prn, n, s, name)
    BY DEF Said
  <2>3. "toe" \notin GgtoNames /\ "toc" \notin GgtoNames /\ "svid" \notin GgtoNames
    BY DEF GgtoNames
  <2>4. Value(prn, n, s, "toe") = Encode(Toe(s, n).tow \div 60, 14)
    BY <2>3 DEF Value
  <2>5. Value(prn, n, s, "toc") = Encode(Toc(s, n).tow \div 60, 14)
    BY <2>3 DEF Value
  <2>6. Value(prn, n, s, "svid") = Encode(prn, 6)
    BY <2>3 DEF Value
  <2> QED
    BY <2>1, <2>2, <2>4, <2>5, <2>6
<1> HIDE DEF values
<1>3. /\ Field(words, <<1, 16, 14>>) = values["toe"]
      /\ Field(words, <<4, 54, 14>>) = values["toc"]
      /\ Field(words, <<4, 16, 6>>) = values["svid"]
  BY <1>1, Word1Fields, Word4Fields DEF values
<1>4. /\ Number(words, <<1, 16, 14>>) = Unsigned(values["toe"], 14)
      /\ Number(words, <<4, 54, 14>>) = Unsigned(values["toc"], 14)
      /\ Svid(words) = Unsigned(values["svid"], 6)
  BY <1>3 DEF Number, Svid
<1>5. prn \in Nat /\ Fits(prn, 6)
  BY SatellitesAssumption DEF Fits
<1>6. ASSUME NEW t, IsTime(t), t.tow % 60 = 0
      PROVE  Unsigned(Encode(t.tow \div 60, 14), 14) * 60 = t.tow
  <2>1. Unsigned(Encode(t.tow \div 60, 14), 14) = t.tow \div 60
    BY <1>6, TowIsRead, NumbersAreRead
  <2> QED
    BY <1>6, <2>1, TowIsRead
<1>7. Unsigned(Encode(prn, 6), 6) = prn
  BY <1>5, NumbersAreRead
<1> QED
  BY <1>2, <1>4, <1>6, <1>7, SaidTimes

LEMMA CedRowsAreTrue ==
    ASSUME NEW prn \in Satellites, NEW n \in Issues, NEW s \in Starts, NEW adkd, NEW words,
           BuildNavData(words, adkd) = UnderTag[prn][n][s][NavKind(adkd)], NavKind(adkd) = "ced",
           NEW ref, NearStart(ref, s)
    PROVE  AuthenticatedRows(prn, "ced", words, ref) = TrueRows(prn, n, s, "ced")
<1> DEFINE values == Said[prn][n][s]
<1> DEFINE health == values["e1b_dvs"] \cup {2 - o : o \in values["e1b_shs"]}
                    \cup {6 + o : o \in values["e5b_dvs"]} \cup {8 - o : o \in values["e5b_shs"]}
<1>1. /\ SameBits(words, values, 1, 6, 120) /\ SameBits(words, values, 2, 6, 120)
      /\ SameBits(words, values, 3, 6, 122) /\ SameBits(words, values, 4, 6, 120)
      /\ SameBits(words, values, 5, 6, 67) /\ Fitting(values)
  BY CedUnderTags, WhatIsSaidFits
<1>2. /\ Svid(words) = prn
      /\ Number(words, <<1, 16, 14>>) * 60 = Toe(s, n).tow
      /\ Number(words, <<4, 54, 14>>) * 60 = Toc(s, n).tow
  BY <1>1, CedNumbers
<1> HIDE DEF values
<1>3. EphemerisValid(prn, words)
  <2>1. /\ Field(words, <<1, 6, 10>>) = values["iodnav"]
        /\ Field(words, <<2, 6, 10>>) = values["iodnav"]
        /\ Field(words, <<3, 6, 10>>) = values["iodnav"]
        /\ Field(words, <<4, 6, 10>>) = values["iodnav"]
    BY <1>1, Word1Fields, Word2Fields, Word3Fields, Word4Fields
  <2>2. \A wt \in IodWords : IodNav(words, wt) = values["iodnav"]
    BY <2>1 DEF IodWords, IodNav
  <2>3. 1 \in IodWords
    BY DEF IodWords
  <2> QED
    BY <1>2, <2>2, <2>3 DEF EphemerisValid
<1>4. /\ Fields(words, EphLayout) = [f \in DOMAIN EphLayout |-> values[f]]
      /\ Fields(words, IonoLayout) = [f \in DOMAIN IonoLayout |-> values[f]]
  BY <1>1, EphFields
<1>5. PackHealth(words) = health
  BY <1>1, HealthIsSaid
<1>6. AuthenticatedStormFlags(words) = {4 - o : o \in values["storm"]}
  <2>1. Field(words, <<5, 42, 5>>) = values["storm"]
    BY <1>1, Word5Fields
  <2> QED
    BY <2>1 DEF AuthenticatedStormFlags
<1>7. /\ TimeInWeek(ref, Toe(s, n).tow) = Toe(s, n)
      /\ TimeInWeek(ref, Toc(s, n).tow) = Toc(s, n)
  <2>1. ASSUME NEW t, IsTime(t), IsNear(Second(t), Second(s))
        PROVE  TimeInWeek(ref, t.tow) = t
    <3> DEFINE a == Second(t)
    <3> DEFINE b == Second(ref)
    <3> DEFINE c == Second(s)
    <3>1. IsNear(a, c) /\ IsNear(b, c) /\ IsTime(ref) /\ ref.wn >= 0
      BY <2>1 DEF NearStart
    <3> HIDE DEF a, b, c
    <3>2. a - b < 302400 /\ b - a < 302400
      BY <3>1, SMT DEF IsNear
    <3> QED
      BY <2>1, <3>1, <3>2, NearTime DEF a, b
  <2> QED
    BY <2>1, SaidTimes
<1> HIDE DEF health
<1>8. EphRow(prn, words, ref) =
         [prn |-> prn, fields |-> [f \in DOMAIN EphLayout |-> values[f]], sv_health |-> health,
          toe |-> Toe(s, n), toc |-> Toc(s, n)]
  BY <1>2, <1>4, <1>5, <1>7 DEF EphRow
<1>9. IonoRow(prn, words, AuthenticatedStormFlags(words)) =
         [prn |-> prn, fields |-> [f \in DOMAIN IonoLayout |-> values[f]],
          storm_flags |-> {4 - o : o \in values["storm"]}]
  BY <1>4, <1>6 DEF IonoRow
<1> DEFINE eph == EphRow(prn, words, ref)
<1> DEFINE iono == IonoRow(prn, words, AuthenticatedStormFlags(words))
<1> DEFINE rows == [r \in {"eph", "iono"} |-> IF r = "eph" THEN eph ELSE iono]
<1>10. AuthenticatedRows(prn, "ced", words, ref) = rows
  <2>1. RowsPresent(prn, "ced", words) = {"eph", "iono"}
    BY <1>3 DEF RowsPresent
  <2>2. StormFlags("ced", words, AuthenticatedStormFlags) = AuthenticatedStormFlags(words)
    BY DEF StormFlags
  <2> HIDE DEF eph, iono
  <2>3. AuthenticatedRows(prn, "ced", words, ref)
          = Rows(prn, "ced", words, ref, AuthenticatedStormFlags(words))
    BY <2>2 DEF AuthenticatedRows
  <2>4. Rows(prn, "ced", words, ref, AuthenticatedStormFlags(words)) = rows
    BY <2>1 DEF Rows, eph, iono
  <2> QED
    BY <2>3, <2>4
<1>11. TrueRows(prn, n, s, "ced") = rows
  <2> DEFINE e == [prn |-> prn, fields |-> [f \in DOMAIN EphLayout |-> values[f]],
                   sv_health |-> health, toe |-> Toe(s, n), toc |-> Toc(s, n)]
  <2> DEFINE i == [prn |-> prn, fields |-> [f \in DOMAIN IonoLayout |-> values[f]],
                   storm_flags |-> {4 - o : o \in values["storm"]}]
  <2>1. eph = e /\ iono = i
    BY <1>8, <1>9
  <2>2. TrueRows(prn, n, s, "ced") = [r \in {"eph", "iono"} |-> IF r = "eph" THEN e ELSE i]
    BY DEF TrueRows, values, health
  <2> HIDE DEF e, i, eph, iono
  <2> QED
    BY <2>1, <2>2
<1> QED
  BY <1>10, <1>11

(* A week that is said by its low bits.                                    *)
LEMMA WeekIsRead ==
    ASSUME NEW ref, NEW s \in Starts, NearStart(ref, s), NEW d \in Int,
           NEW size \in Nat \ {0}, NEW period \in Nat,
           \/ size = 8 /\ period = 256 /\ d \in {-100, 100}
           \/ size = 6 /\ period = 64 /\ d \in {-30, 30}
    PROVE  /\ Unsigned(Encode((s.wn + d) % period, size), size) = (s.wn + d) % period
           /\ ResolveTruncatedWeek(ref.wn, (s.wn + d) % period, period) = s.wn + d
<1> DEFINE v == s.wn
<1> DEFINE r == ref.wn
<1>1. v \in Int /\ v > 100 /\ r \in Int /\ r >= 0 /\ r - v <= 1 /\ v - r <= 1
  BY StartIsTime, SMT DEF IsTime, NearStart
<1> HIDE DEF v, r
<1>2. v + d \in Nat /\ r \in Nat
  BY <1>1, SMT
<1>3. (v + d) % period \in Nat /\ Fits((v + d) % period, size)
  BY <1>2, SMT DEF Fits
<1>4. Unsigned(Encode((v + d) % period, size), size) = (v + d) % period
  BY <1>3, NumbersAreRead
<1>5. 2 * ((v + d) - r) < period /\ 2 * (r - (v + d)) < period /\ period \in {64, 256}
  BY <1>1, SMT
<1>6. ResolveTruncatedWeek(r, (v + d) % period, period) = v + d
  BY <1>2, <1>5, NearWeek
<1> QED
  BY <1>4, <1>6 DEF v, r

LEMMA TimingValues ==
    ASSUME NEW prn \in Satellites, NEW n \in Issues, NEW s \in Starts
    PROVE  LET values == Said[prn][n][s]
               u == IF n = 1 THEN -100 ELSE 100
               g == IF n = 1 THEN 30 ELSE -30
           IN  /\ values["t0"] = Encode(37, 8) /\ values["wn0"] = Encode((s.wn + u) % 256, 8)
               /\ HasGgto(prn, n) => /\ values["t0g"] = Encode(12, 8)
                                    /\ values["wn0g"] = Encode((s.wn + g) % 64, 6)
               /\ ~HasGgto(prn, n) =>
                    /\ values["a0g"] = 0 .. (16 - 1) /\ values["a1g"] = 0 .. (12 - 1)
                    /\ values["t0g"] = 0 .. (8 - 1) /\ values["wn0g"] = 0 .. (6 - 1)
               /\ UtcReference(s, n) = Time(s.wn + u, 37 * 3600)
               /\ GgtoReference(s, n) = Time(s.wn + g, 12 * 3600)
<1> DEFINE values == Said[prn][n][s]
<1> DEFINE u == IF n = 1 THEN -100 ELSE 100
<1> DEFINE g == IF n = 1 THEN 30 ELSE -30
<1>1. /\ {"t0", "wn0", "t0g", "wn0g", "a0g", "a1g"} \subseteq Names
      /\ SizeOf["a0g"] = 16 /\ SizeOf["a1g"] = 12 /\ SizeOf["t0g"] = 8 /\ SizeOf["wn0g"] = 6
  BY DEF Names, SizeOf
<1>2. \A name \in Names : values[name] = Value(prn, n, s, name)
  BY DEF Said
<1>3. "t0" \notin GgtoNames /\ "wn0" \notin GgtoNames
      /\ {"t0g", "wn0g", "a0g", "a1g"} \subseteq GgtoNames
  BY DEF GgtoNames
<1>4. /\ UtcReference(s, n) = Time(s.wn + u, 37 * 3600)
      /\ GgtoReference(s, n) = Time(s.wn + g, 12 * 3600)
  BY SMT DEF UtcReference, GgtoReference
<1>5. /\ UtcReference(s, n).tow \div 3600 = 37 /\ UtcReference(s, n).wn = s.wn + u
      /\ GgtoReference(s, n).tow \div 3600 = 12 /\ GgtoReference(s, n).wn = s.wn + g
  BY <1>4, SMT DEF Time
<1>6. Value(prn, n, s, "t0") = Encode(UtcReference(s, n).tow \div 3600, 8)
  BY <1>3 DEF Value
<1>7. Value(prn, n, s, "wn0") = Encode(UtcReference(s, n).wn % 256, 8)
  BY <1>3 DEF Value
<1>8. HasGgto(prn, n) => Value(prn, n, s, "t0g") = Encode(GgtoReference(s, n).tow \div 3600, 8)
  BY <1>3 DEF Value
<1>9. HasGgto(prn, n) => Value(prn, n, s, "wn0g") = Encode(GgtoReference(s, n).wn % 64, 6)
  BY <1>3 DEF Value
<1>10. ASSUME ~HasGgto(prn, n), NEW name \in {"t0g", "wn0g", "a0g", "a1g"}
       PROVE  Value(prn, n, s, name) = 0 .. (SizeOf[name] - 1)
  BY <1>3, <1>10 DEF Value
<1>11. ~HasGgto(prn, n) => /\ values["a0g"] = 0 .. (16 - 1) /\ values["a1g"] = 0 .. (12 - 1)
                          /\ values["t0g"] = 0 .. (8 - 1) /\ values["wn0g"] = 0 .. (6 - 1)
  <2> SUFFICES ASSUME ~HasGgto(prn, n)
               PROVE  /\ values["a0g"] = 0 .. (16 - 1) /\ values["a1g"] = 0 .. (12 - 1)
                      /\ values["t0g"] = 0 .. (8 - 1) /\ values["wn0g"] = 0 .. (6 - 1)
    OBVIOUS
  <2>1. \A name \in {"t0g", "wn0g", "a0g", "a1g"} : values[name] = 0 .. (SizeOf[name] - 1)
    BY <1>1, <1>2, <1>10
  <2> HIDE DEF values
  <2> QED
    BY <1>1, <2>1
<1> HIDE DEF u, g, values
<1>12. /\ values["t0"] = Encode(37, 8) /\ values["wn0"] = Encode((s.wn + u) % 256, 8)
       /\ HasGgto(prn, n) => /\ values["t0g"] = Encode(12, 8)
                            /\ values["wn0g"] = Encode((s.wn + g) % 64, 6)
  BY <1>1, <1>2, <1>5, <1>6, <1>7, <1>8, <1>9
<1> QED
  BY <1>4, <1>11, <1>12 DEF u, g, values

(* A field of all ones.                                                    *)
LEMMA FullField ==
    ASSUME NEW bits, NEW at \in Nat, NEW size \in Nat,
           {b - at : b \in bits \cap (at .. (at + size - 1))} = 0 .. (size - 1)
    PROVE  \A c \in at .. (at + size - 1) : c \in bits
<1> SUFFICES ASSUME NEW c \in at .. (at + size - 1) PROVE c \in bits
  OBVIOUS
<1>1. c - at \in 0 .. (size - 1)
  OBVIOUS
<1> DEFINE x == c - at
<1>2. PICK b \in bits \cap (at .. (at + size - 1)) : x = b - at
  <2>1. x \in 0 .. (size - 1)
    BY <1>1
  <2> HIDE DEF x
  <2> QED
    BY <2>1, Zenon
<1>3. c = b
  BY <1>2
<1> QED
  BY <1>2, <1>3

(* An offset is there just if it was said.                                 *)
LEMMA GgtoIsThere ==
    ASSUME NEW prn \in Satellites, NEW n \in Issues, NEW s \in Starts, NEW words,
           SameBits(words, Said[prn][n][s], 10, 86, 42)
    PROVE  GgtoNotAvailable(words) <=> ~HasGgto(prn, n)
<1> DEFINE values == Said[prn][n][s]
<1> DEFINE bits == words[10]
<1>1. /\ Field(words, <<10, 86, 16>>) = values["a0g"]
      /\ Field(words, <<10, 102, 12>>) = values["a1g"]
      /\ Field(words, <<10, 114, 8>>) = values["t0g"]
      /\ Field(words, <<10, 122, 6>>) = values["wn0g"]
  BY Word10Fields, WhatIsSaidFits
<1>2. /\ values["a0g"] = {b - 86 : b \in bits \cap (86 .. (86 + 16 - 1))}
      /\ values["a1g"] = {b - 102 : b \in bits \cap (102 .. (102 + 12 - 1))}
      /\ values["t0g"] = {b - 114 : b \in bits \cap (114 .. (114 + 8 - 1))}
      /\ values["wn0g"] = {b - 122 : b \in bits \cap (122 .. (122 + 6 - 1))}
  BY <1>1 DEF Field, BitsFrom
<1>3. GgtoNotAvailable(words) <=> 86 .. 127 \subseteq bits
  BY DEF GgtoNotAvailable, BitsFrom
<1>4. CASE HasGgto(prn, n)
  <2>1. values["t0g"] = Encode(12, 8)
    BY <1>4, TimingValues
  <2>2. 7 \notin Encode(12, 8)
    <3>1. 12 \in Nat /\ 8 \in Nat
      OBVIOUS
    <3>2. PICK rest \in [0 .. (8 - 1) -> Nat] :
             /\ \A k \in 0 .. (8 - 1) : rest[k] = IF k = 0 THEN 12 ELSE rest[k - 1] \div 2
             /\ Encode(12, 8) = {o \in 0 .. (8 - 1) : rest[8 - 1 - o] % 2 = 1}
      BY <3>1, EncodedBits
    <3>3. rest[0] = 12
      BY <3>2
    <3>4. 8 - 1 - 7 = 0 /\ 12 % 2 = 0
      BY SMT
    <3> QED
      BY <3>2, <3>3, <3>4
  <2>3. 7 \notin {b - 114 : b \in bits \cap (114 .. (114 + 8 - 1))}
    BY <1>2, <2>1, <2>2
  <2> HIDE DEF bits
  <2>4. 121 \notin bits
    BY <2>3
  <2> QED
    BY <1>3, <1>4, <2>4
<1>5. CASE ~HasGgto(prn, n)
  <2>1. /\ values["a0g"] = 0 .. (16 - 1) /\ values["a1g"] = 0 .. (12 - 1)
        /\ values["t0g"] = 0 .. (8 - 1) /\ values["wn0g"] = 0 .. (6 - 1)
    BY <1>5, TimingValues
  <2> HIDE DEF values, bits
  <2>2. 16 \in Nat /\ 86 \in Nat /\ 12 \in Nat /\ 102 \in Nat /\ 8 \in Nat /\ 114 \in Nat
        /\ 6 \in Nat /\ 122 \in Nat
    OBVIOUS
  <2>3. \A c \in 86 .. (86 + 16 - 1) : c \in bits
    <3>1. {b - 86 : b \in bits \cap (86 .. (86 + 16 - 1))} = 0 .. (16 - 1)
      BY <1>2, <2>1, Zenon
    <3> QED
      BY <2>2, <3>1, FullField
  <2>4. \A c \in 102 .. (102 + 12 - 1) : c \in bits
    <3>1. {b - 102 : b \in bits \cap (102 .. (102 + 12 - 1))} = 0 .. (12 - 1)
      BY <1>2, <2>1, Zenon
    <3> QED
      BY <2>2, <3>1, FullField
  <2>5. \A c \in 114 .. (114 + 8 - 1) : c \in bits
    <3>1. {b - 114 : b \in bits \cap (114 .. (114 + 8 - 1))} = 0 .. (8 - 1)
      BY <1>2, <2>1, Zenon
    <3> QED
      BY <2>2, <3>1, FullField
  <2>6. \A c \in 122 .. (122 + 6 - 1) : c \in bits
    <3>1. {b - 122 : b \in bits \cap (122 .. (122 + 6 - 1))} = 0 .. (6 - 1)
      BY <1>2, <2>1, Zenon
    <3> QED
      BY <2>2, <3>1, FullField
  <2>7. 86 .. 127 \subseteq bits
    BY <2>3, <2>4, <2>5, <2>6
  <2> QED
    BY <1>3, <1>5, <2>7
<1> QED
  BY <1>4, <1>5

LEMMA TimingRowsAreTrue ==
    ASSUME NEW prn \in Satellites, NEW n \in Issues, NEW s \in Starts, NEW adkd, NEW words,
           BuildNavData(words, adkd) = UnderTag[prn][n][s][NavKind(adkd)], NavKind(adkd) = "timing",
           NEW ref, NearStart(ref, s)
    PROVE  AuthenticatedRows(prn, "timing", words, ref) = TrueRows(prn, n, s, "timing")
<1> DEFINE values == Said[prn][n][s]
<1>1. /\ SameBits(words, values, 6, 6, 99) /\ SameBits(words, values, 10, 86, 42)
      /\ Fitting(values)
  BY TimingUnderTags, WhatIsSaidFits
<1> DEFINE u == IF n = 1 THEN -100 ELSE 100
<1> DEFINE g == IF n = 1 THEN 30 ELSE -30
<1>2. u \in {-100, 100} /\ g \in {-30, 30}
  OBVIOUS
<1>3. /\ values["t0"] = Encode(37, 8) /\ values["wn0"] = Encode((s.wn + u) % 256, 8)
      /\ HasGgto(prn, n) => /\ values["t0g"] = Encode(12, 8)
                           /\ values["wn0g"] = Encode((s.wn + g) % 64, 6)
      /\ UtcReference(s, n) = Time(s.wn + u, 37 * 3600)
      /\ GgtoReference(s, n) = Time(s.wn + g, 12 * 3600)
  BY TimingValues
<1>4. GgtoNotAvailable(words) <=> ~HasGgto(prn, n)
  BY <1>1, GgtoIsThere
<1> HIDE DEF values, u, g
<1>5. /\ Fields(words, UtcLayout) = [f \in DOMAIN UtcLayout |-> values[f]]
      /\ Fields(words, GgtoLayout) = [f \in DOMAIN GgtoLayout |-> values[f]]
  BY <1>1, UtcFields
<1>6. /\ Number(words, <<6, 70, 8>>) = Unsigned(values["t0"], 8)
      /\ Number(words, <<6, 78, 8>>) = Unsigned(values["wn0"], 8)
      /\ Number(words, <<10, 114, 8>>) = Unsigned(values["t0g"], 8)
      /\ Number(words, <<10, 122, 6>>) = Unsigned(values["wn0g"], 6)
  BY <1>1, Word6Fields, Word10Fields DEF Number
<1>7. Unsigned(Encode(37, 8), 8) = 37 /\ Unsigned(Encode(12, 8), 8) = 12
  BY NumbersAreRead DEF Fits
<1>8. /\ Unsigned(Encode((s.wn + u) % 256, 8), 8) = (s.wn + u) % 256
      /\ ResolveTruncatedWeek(ref.wn, (s.wn + u) % 256, 256) = s.wn + u
  BY <1>2, WeekIsRead
<1>9. /\ Unsigned(Encode((s.wn + g) % 64, 6), 6) = (s.wn + g) % 64
      /\ ResolveTruncatedWeek(ref.wn, (s.wn + g) % 64, 64) = s.wn + g
  BY <1>2, WeekIsRead
<1> DEFINE utc == UtcRow(prn, words, ref)
<1> DEFINE ggto == GgtoRow(prn, words, ref)
<1>10. utc = [prn |-> prn, fields |-> [f \in DOMAIN UtcLayout |-> values[f]],
              reference |-> UtcReference(s, n)]
  BY <1>3, <1>5, <1>6, <1>7, <1>8 DEF UtcRow
<1>11. HasGgto(prn, n) =>
          ggto = [prn |-> prn, fields |-> [f \in DOMAIN GgtoLayout |-> values[f]],
                  reference |-> GgtoReference(s, n)]
  BY <1>3, <1>5, <1>6, <1>7, <1>9 DEF GgtoRow
<1> DEFINE rows == [r \in {"utc"} \cup (IF HasGgto(prn, n) THEN {"ggto"} ELSE {}) |->
                        IF r = "utc" THEN utc ELSE ggto]
<1>12. AuthenticatedRows(prn, "timing", words, ref) = rows
  <2>1. RowsPresent(prn, "timing", words) = {"utc"} \cup (IF HasGgto(prn, n) THEN {"ggto"} ELSE {})
    BY <1>4 DEF RowsPresent
  <2>2. AuthenticatedRows(prn, "timing", words, ref)
          = Rows(prn, "timing", words, ref, StormFlags("timing", words, AuthenticatedStormFlags))
    BY DEF AuthenticatedRows
  <2> DEFINE flags == StormFlags("timing", words, AuthenticatedStormFlags)
  <2> HIDE DEF utc, ggto, flags
  <2>3. Rows(prn, "timing", words, ref, flags) = rows
    BY <2>1 DEF Rows, utc, ggto
  <2> QED
    BY <2>2, <2>3 DEF flags
<1>13. TrueRows(prn, n, s, "timing") = rows
  <2> DEFINE x == [prn |-> prn, fields |-> [f \in DOMAIN UtcLayout |-> values[f]],
                   reference |-> UtcReference(s, n)]
  <2> DEFINE y == [prn |-> prn, fields |-> [f \in DOMAIN GgtoLayout |-> values[f]],
                   reference |-> GgtoReference(s, n)]
  <2>1. utc = x /\ (HasGgto(prn, n) => ggto = y)
    BY <1>10, <1>11
  <2>2. TrueRows(prn, n, s, "timing")
          = [r \in {"utc"} \cup (IF HasGgto(prn, n) THEN {"ggto"} ELSE {}) |->
                IF r = "utc" THEN x ELSE y]
    BY DEF TrueRows, values
  <2> HIDE DEF x, y, utc, ggto
  <2> QED
    BY <2>1, <2>2
<1> QED
  BY <1>12, <1>13

(* Every row of data that agrees with the data transmitted in the bits     *)
(* that are under tags says what was transmitted, and no row is missing:   *)
(* the bits a MAC is made over are enough for the values of all rows, and  *)
(* weeks are resolved to the weeks meant (BuildNavData, PushCedStatus,     *)
(* PushTiming).                                                            *)
THEOREM TaggedBitsDecideRows ==
    ASSUME NEW prn \in Satellites, NEW n \in Issues, NEW s \in Starts, NEW adkd, NEW words,
           BuildNavData(words, adkd) = UnderTag[prn][n][s][NavKind(adkd)],
           NEW ref, NearStart(ref, s)
    PROVE  AuthenticatedRows(prn, NavKind(adkd), words, ref) = TrueRows(prn, n, s, NavKind(adkd))
<1>1. NavKind(adkd) = "ced" \/ NavKind(adkd) = "timing"
  BY DEF NavKind
<1>2. CASE NavKind(adkd) = "ced"
  BY <1>2, CedRowsAreTrue
<1>3. CASE NavKind(adkd) = "timing"
  BY <1>3, TimingRowsAreTrue
<1> QED
  BY <1>1, <1>2, <1>3

-----------------------------------------------------------------------------
(* The sender's MACK does not depend on the keys the receiver has.         *)
SameChain(c, d) == c.maclt = d.maclt /\ c.key_bits = d.key_bits /\ c.tag_bits = d.tag_bits

LEMMA SameMackSent ==
    ASSUME NEW c, NEW d, SameChain(c, d), NEW prn, NEW other, NEW flx
    PROVE  SentMack(c, prn, other, flx) = SentMack(d, prn, other, flx)
<1>1. \A i : SentSlot(c, i) = SentSlot(d, i)
  BY DEF SentSlot, SameChain
<1>2. \A i : SentTag(c, prn, other, flx, i) = SentTag(d, prn, other, flx, i)
  BY <1>1 DEF SentTag
<1>3. \A tags : SentMacseq(c, prn, tags) = SentMacseq(d, prn, tags)
  BY <1>1 DEF SentMacseq
<1>4. TagInfoCount(c.key_bits, c.tag_bits) = TagInfoCount(d.key_bits, d.tag_bits)
  BY DEF SameChain
<1> QED
  BY <1>2, <1>3, <1>4 DEF SentMack

LEMMA SameTimeSameMack ==
    ASSUME start' = start, step' = step, issue' = issue
    PROVE  \A c, prn, other, flx : SentMack(c, prn, other, flx)' = SentMack(c, prn, other, flx)
<1>1. Now' = Now
  BY DEF Now
<1>2. \A c, i : SentSlot(c, i)' = SentSlot(c, i)
  BY <1>1 DEF SentSlot
<1>3. \A adkd : SecretKey(adkd)' = SecretKey(adkd)
  BY <1>1 DEF SecretKey
<1>4. SentGst' = SentGst
  BY <1>1 DEF SentGst
<1>5. \A c, prn, other, flx, i :
         SentTag(c, prn, other, flx, i)' = SentTag(c, prn, other, flx, i)
  BY <1>2, <1>3, <1>4 DEF SentTag
<1> SUFFICES ASSUME NEW c, NEW prn, NEW other, NEW flx
             PROVE  SentMack(c, prn, other, flx)' = SentMack(c, prn, other, flx)
  OBVIOUS
<1> DEFINE tags == [i \in 1 .. (TagInfoCount(c.key_bits, c.tag_bits) + 1) |->
                       SentTag(c, prn, other, flx, i - 1)]
<1>7. tags' = tags
  BY <1>5
<1>8. SentMack(c, prn, other, flx)
        = [prn |-> prn, epoch |-> Now, nmas |-> 1, macseq |-> SentMacseq(c, prn, tags),
           tags |-> tags]
  BY DEF SentMack
<1>9. SentMack(c, prn, other, flx)'
        = [prn |-> prn, epoch |-> Now', nmas |-> 1, macseq |-> SentMacseq(c, prn, tags)',
           tags |-> tags']
  BY DEF SentMack
<1>10. SentMacseq(c, prn, tags)' = SentMacseq(c, prn, tags)
  BY <1>2, <1>3, <1>4, <1>7 DEF SentMacseq
<1> HIDE DEF tags
<1> QED
  BY <1>1, <1>7, <1>8, <1>9, <1>10

-----------------------------------------------------------------------------
(* The invariant: what is received comes from a MACK that was sent, no MAC *)
(* of it is forged, all data is there or not, and what was returned is     *)
(* what Verify makes of it.                                                *)
FlexibleTag == [prnd : Satellites, adkd : {"InavCed", "InavTiming", "SlowMac"}]
ComesFrom(c, m, original) ==
    /\ m.epoch \in Numbers /\ Unforged(m, original)
    /\ \E prn \in Satellites : \E other \in Satellites \ {prn}, flx \in FlexibleTag :
          original = SentMack(c, prn, other, flx)
GoodData(data) ==
    /\ DOMAIN data = Satellites \X Kinds
    /\ \A k \in DOMAIN data : data[k].age \in Int
TagInv ==
    /\ chain \in ChainRecords /\ start \in Starts /\ step \in 0 .. 1 /\ issue \in Issues
    /\ \/ sent = NoMack /\ result = NoResult
       \/ /\ ComesFrom(chain, mack, sent) /\ GoodData(store)
          /\ result \in {NoResult, Verify(chain, mack, store, surplus)}

LEMMA NowIsGood ==
    ASSUME TagInv
    PROVE  GoodNow /\ NearStart(AddSeconds(Now, -30), start) /\ IsTime(Now)
<1> DEFINE v == start.wn
<1> DEFINE x == start.tow
<1> DEFINE d == SubframeSeconds * step
<1> DEFINE ref == AddSeconds(Now, -30)
<1>1. IsTime(start) /\ v > 100 /\ x % 30 = 0
  BY StartIsTime, SMT DEF TagInv
<1>2. v \in Int /\ x \in Int /\ x >= 0 /\ x < 604800
  BY <1>1, SMT DEF IsTime
<1>3. d \in {0, 30}
  BY SMT DEF TagInv, SubframeSeconds
<1>4. IsTime(Now) /\ Second(Now) = Second(start) + d /\ Now = AddSeconds(start, d)
  <2>1. d \in Int /\ Now = AddSeconds(start, d)
    BY <1>3, SMT DEF Now
  <2> HIDE DEF d
  <2> QED
    BY <1>2, <2>1, SecondsAdded, SMT
<1>5. Now.wn \in Int /\ Now.tow \in Int /\ Now.tow >= 0 /\ Now = Time(Now.wn, Now.tow)
  BY <1>4, SMT DEF IsTime
<1>6. IsTime(ref) /\ Second(ref) = Second(Now) + (-30)
  <2>1. -30 \in Int
    OBVIOUS
  <2> QED
    BY <1>5, <2>1, SecondsAdded, SMT
<1>7. Now.tow % 30 = 0
  <2>1. (x + d) % 30 = 0
    <3> HIDE DEF x, d
    <3> QED
      BY <1>1, <1>2, <1>3, SMT DEF x
  <2>2. d \in Int
    BY <1>3, SMT
  <2> HIDE DEF d
  <2> QED
    BY <1>2, <1>4, <2>1, <2>2, SecondsAdded, SMT
<1>8. Now \in Numbers
  BY <1>5, SMT DEF Numbers, Time
<1>9. NearStart(ref, start)
  <2> DEFINE w == ref.wn
  <2> DEFINE t == ref.tow
  <2>1. w \in Int /\ t \in Int /\ t >= 0 /\ t < 604800
    BY <1>6, SMT DEF IsTime
  <2>2. /\ Second(ref) = w * 604800 + t /\ Second(start) = v * 604800 + x
        /\ Second(ref) = Second(start) + d + (-30)
    BY <1>4, <1>6, SMT DEF Second
  <2> DEFINE a == Second(ref)
  <2> DEFINE b == Second(start)
  <2>3. a = w * 604800 + t /\ b = v * 604800 + x /\ a = b + d + (-30)
    BY <2>2, SMT
  <2> HIDE DEF w, t, v, x, d, a, b
  <2>4. /\ w >= 0 /\ w - v <= 1 /\ v - w <= 1
        /\ a \in Int /\ b \in Int /\ a - b < 4000 /\ b - a < 4000
    BY <1>1, <1>2, <1>3, <2>1, <2>3, SMT DEF v, x
  <2> QED
    BY <1>6, <2>4, SMT DEF NearStart, IsNear, w, v, a, b
<1> QED
  BY <1>4, <1>5, <1>7, <1>8, <1>9, SMT DEF GoodNow

(* What the receiver reports is what was transmitted.                      *)
LEMMA ReportsAreTrue == TagInv => ReportedIsTransmitted
<1> SUFFICES ASSUME TagInv, NEW s \in result.successes
             PROVE  LET t == sent.tags[s.index + 1] IN
                    /\ s.prna = sent.prn /\ s.prnd = t.prnd /\ s.adkd = t.adkd
                    /\ s.nav_time = AddSeconds(Now, -30)
                    /\ AuthenticatedRows(s.prnd, NavKind(s.adkd), s.words, s.nav_time)
                         = TrueRows(s.prnd, issue, start, NavKind(s.adkd))
  BY DEF ReportedIsTransmitted
<1>1. result # NoResult
  BY DEF NoResult
<1>2. /\ ComesFrom(chain, mack, sent) /\ result = Verify(chain, mack, store, surplus)
      /\ chain \in ChainRecords /\ start \in Starts /\ issue \in Issues
  BY <1>1 DEF TagInv
<1>3. PICK prn \in Satellites, other \in Satellites, flx \in FlexibleTag :
         sent = SentMack(chain, prn, other, flx)
  BY <1>2 DEF ComesFrom
<1>4. mack.epoch \in Numbers /\ Unforged(mack, SentMack(chain, prn, other, flx))
  BY <1>2, <1>3 DEF ComesFrom
<1> DEFINE t == sent.tags[s.index + 1]
<1>5. GoodNow /\ NearStart(AddSeconds(Now, -30), start)
  BY NowIsGood
<1> DEFINE original == SentMack(chain, prn, other, flx)
<1>16. ShowsWhatWasSent(original, prn, store, s)
  <2>1. s \in Verify(chain, mack, store, surplus).successes
    BY <1>2
  <2> HIDE DEF original
  <2>2. GoodNow /\ mack.epoch \in Numbers /\ chain \in ChainRecords
    BY <1>2, <1>4, <1>5
  <2>3. Unforged(mack, SentMack(chain, prn, other, flx))
    BY <1>4
  <2> QED
    BY <2>1, <2>2, <2>3, SuccessWasSent DEF original
<1>6. /\ s.index + 1 \in DOMAIN sent.tags
      /\ s.prna = prn /\ s.prnd = t.prnd /\ s.adkd = t.adkd
      /\ s.nav_time = AddSeconds(Now, -30)
      /\ BuildNavData(s.words, s.adkd) = UnderTag[s.prnd][issue][start][NavKind(s.adkd)]
  BY <1>3, <1>16 DEF ShowsWhatWasSent
<1>7. sent.prn = prn /\ t = SentTag(chain, prn, other, flx, (s.index + 1) - 1)
  BY <1>2, <1>3, <1>6, TagsSent
<1>8. t.prnd \in Satellites
  <2>1. t.prnd \in {prn, other, flx.prnd}
    BY <1>7 DEF SentTag
  <2>2. flx.prnd \in Satellites
    BY DEF FlexibleTag
  <2> QED
    BY <2>1, <2>2
<1>9. s.prnd \in Satellites
  BY <1>6, <1>8
<1>10. AuthenticatedRows(s.prnd, NavKind(s.adkd), s.words, s.nav_time)
         = TrueRows(s.prnd, issue, start, NavKind(s.adkd))
  BY <1>2, <1>5, <1>6, <1>9, TaggedBitsDecideRows
<1> QED
  BY <1>6, <1>7, <1>10

-----------------------------------------------------------------------------
(* Altering a MACK forges nothing.                                         *)
MackFields == {"prn", "epoch", "nmas", "macseq", "tags"}
TagFields == {"prnd", "adkd", "cop", "mac"}

LEMMA ExchangedPlaces ==
    ASSUME NEW n \in Int, NEW tags, tags = [i \in 1 .. n |-> tags[i]],
           NEW i \in 1 .. (Len(tags) - 1)
    PROVE  i \in 1 .. n /\ i + 1 \in 1 .. n
<1> DEFINE l == IF n >= 0 THEN n ELSE 0
<1>1. l \in Nat /\ 1 .. n = 1 .. l
  OBVIOUS
<1> HIDE DEF l
<1>2. DOMAIN tags = 1 .. l /\ tags = [j \in 1 .. l |-> tags[j]]
  BY <1>1
<1> DEFINE S == {tags[j] : j \in 1 .. l}
<1>3. tags \in [1 .. l -> S]
  BY <1>2
<1> HIDE DEF S
<1>4. tags \in Seq(S)
  BY <1>1, <1>3, SeqDef
<1>5. Len(tags) = l
  <2>1. \A k, m \in Nat : 1 .. k = 1 .. m => k = m
    OBVIOUS
  <2>2. Len(tags) \in Nat /\ 1 .. Len(tags) = 1 .. l
    BY <1>2, <1>4, LenProperties
  <2> QED
    BY <1>1, <2>1, <2>2
<1>6. i \in 1 .. (l - 1)
  BY <1>5
<1>7. i \in 1 .. l /\ i + 1 \in 1 .. l
  BY <1>1, <1>6
<1> QED
  BY <1>1, <1>7

LEMMA AlteredCases ==
    ASSUME NEW m, NEW a \in AlteredMacks(m)
    PROVE  \/ \E i \in DOMAIN m.tags : \E t \in AlteredTags(m.tags[i]) :
                 a = [m EXCEPT !.tags[i] = t]
           \/ \E i \in 1 .. (Len(m.tags) - 1) : a = [m EXCEPT !.tags = Exchanged(m.tags, i)]
           \/ a \in {[m EXCEPT !.macseq = Junk], [m EXCEPT !.nmas = 2]}
           \/ \E p \in Satellites : a = [m EXCEPT !.prn = p]
           \/ \E d \in {-60, -30, 30, WeekSeconds} : a = [m EXCEPT !.epoch = AddSeconds(@, d)]
<1>1. a \in TagAltered(m) =>
        \E i \in DOMAIN m.tags : \E t \in AlteredTags(m.tags[i]) : a = [m EXCEPT !.tags[i] = t]
  BY DEF TagAltered
<1>2. a \in TagsExchanged(m) =>
        \E i \in 1 .. (Len(m.tags) - 1) : a = [m EXCEPT !.tags = Exchanged(m.tags, i)]
  BY DEF TagsExchanged
<1>3. a \in HeadAltered(m) =>
        \/ a \in {[m EXCEPT !.macseq = Junk], [m EXCEPT !.nmas = 2]}
        \/ \E p \in Satellites : a = [m EXCEPT !.prn = p]
  BY DEF HeadAltered
<1>4. a \in EpochAltered(m) =>
        \E d \in {-60, -30, 30, WeekSeconds} : a = [m EXCEPT !.epoch = AddSeconds(@, d)]
  BY DEF EpochAltered
<1>5. a \in TagAltered(m) \/ a \in TagsExchanged(m) \/ a \in HeadAltered(m) \/ a \in EpochAltered(m)
  BY DEF AlteredMacks
<1> QED
  BY <1>1, <1>2, <1>3, <1>4, <1>5, Zenon

LEMMA AlteredIsUnforged ==
    ASSUME NEW m, DOMAIN m = MackFields,
           NEW n \in Int, m.tags = [i \in 1 .. n |-> m.tags[i]],
           \A i \in 1 .. n : DOMAIN m.tags[i] = TagFields,
           NEW a \in AlteredMacks(m)
    PROVE  Unforged(a, m)
<1> DEFINE tags == m.tags
<1>1. DOMAIN tags = 1 .. n /\ tags = [i \in 1 .. n |-> tags[i]]
  OBVIOUS
<1> DEFINE macs == {Junk} \cup {tags[j].mac : j \in DOMAIN tags}
<1>2. \A i \in DOMAIN tags : tags[i].mac \in macs
  OBVIOUS
<1>3. SUFFICES /\ a.macseq \in {Junk, m.macseq}
               /\ \A i \in DOMAIN tags : a.tags[i].mac \in macs
  BY DEF Unforged
<1>4. ASSUME NEW i \in DOMAIN tags, NEW t \in AlteredTags(tags[i]), a = [m EXCEPT !.tags[i] = t]
      PROVE  /\ a.macseq \in {Junk, m.macseq}
             /\ \A k \in DOMAIN tags : a.tags[k].mac \in macs
  <2>1. a.macseq = m.macseq /\ a.tags = [tags EXCEPT ![i] = t]
    BY <1>4 DEF MackFields
  <2>2. DOMAIN tags[i] = TagFields
    BY <1>1
  <2>3. t.mac \in {Junk, tags[i].mac}
    BY <2>2 DEF AlteredTags, TagFields
  <2>4. t.mac \in macs
    BY <1>2, <2>3
  <2> HIDE DEF tags, macs
  <2>5. \A k \in DOMAIN tags : a.tags[k] = IF k = i THEN t ELSE tags[k]
    BY <2>1
  <2> QED
    BY <1>2, <2>1, <2>4, <2>5
<1>5. ASSUME NEW i \in 1 .. (Len(tags) - 1), a = [m EXCEPT !.tags = Exchanged(tags, i)]
      PROVE  /\ a.macseq \in {Junk, m.macseq}
             /\ \A k \in DOMAIN tags : a.tags[k].mac \in macs
  <2>1. a.macseq = m.macseq /\ a.tags = Exchanged(tags, i)
    BY <1>5 DEF MackFields
  <2>2. i \in DOMAIN tags /\ i + 1 \in DOMAIN tags
    <3> HIDE DEF tags
    <3> QED
      BY <1>1, <1>5, ExchangedPlaces
  <2>3. DOMAIN tags[i] = TagFields /\ DOMAIN tags[i + 1] = TagFields
    BY <1>1, <2>2
  <2> DEFINE x == [tags[i] EXCEPT !.mac = tags[i + 1].mac]
  <2> DEFINE y == [tags[i + 1] EXCEPT !.mac = tags[i].mac]
  <2>4. x.mac = tags[i + 1].mac /\ y.mac = tags[i].mac
    BY <2>3 DEF TagFields
  <2>5. x.mac \in macs /\ y.mac \in macs
    BY <1>2, <2>2, <2>4
  <2>6. i # i + 1
    OBVIOUS
  <2> HIDE DEF tags, macs
  <2>7. Exchanged(tags, i) = [[tags EXCEPT ![i] = x] EXCEPT ![i + 1] = y]
    BY <2>2, <2>6 DEF Exchanged
  <2> HIDE DEF x, y
  <2>8. \A k \in DOMAIN tags : a.tags[k] = IF k = i + 1 THEN y ELSE IF k = i THEN x ELSE tags[k]
    BY <2>1, <2>7
  <2> QED
    BY <1>2, <2>1, <2>5, <2>8
<1>6. ASSUME \/ a \in {[m EXCEPT !.macseq = Junk], [m EXCEPT !.nmas = 2]}
             \/ \E p \in Satellites : a = [m EXCEPT !.prn = p]
             \/ \E d \in {-60, -30, 30, WeekSeconds} : a = [m EXCEPT !.epoch = AddSeconds(@, d)]
      PROVE  /\ a.macseq \in {Junk, m.macseq}
             /\ \A k \in DOMAIN tags : a.tags[k].mac \in macs
  <2>1. a.macseq \in {Junk, m.macseq} /\ a.tags = tags
    BY <1>6 DEF MackFields
  <2> QED
    BY <1>2, <2>1
<1> QED
  BY <1>4, <1>5, <1>6, AlteredCases, Zenon

LEMMA AlteredEpoch ==
    ASSUME NEW m, DOMAIN m = MackFields, IsTime(m.epoch), NEW a \in AlteredMacks(m)
    PROVE  a.epoch \in Numbers
<1>1. a.epoch = m.epoch \/ \E d \in Int : a.epoch = AddSeconds(m.epoch, d)
  <2>1. CASE \E d \in {-60, -30, 30, WeekSeconds} : a = [m EXCEPT !.epoch = AddSeconds(@, d)]
    <3>1. \A d \in {-60, -30, 30, WeekSeconds} : d \in Int
      BY DEF WeekSeconds
    <3> QED
      BY <2>1, <3>1 DEF MackFields
  <2>2. CASE \/ \E i \in DOMAIN m.tags : \E t \in AlteredTags(m.tags[i]) :
                   a = [m EXCEPT !.tags[i] = t]
             \/ \E i \in 1 .. (Len(m.tags) - 1) : a = [m EXCEPT !.tags = Exchanged(m.tags, i)]
             \/ a \in {[m EXCEPT !.macseq = Junk], [m EXCEPT !.nmas = 2]}
             \/ \E p \in Satellites : a = [m EXCEPT !.prn = p]
    BY <2>2 DEF MackFields
  <2>3. \/ \E i \in DOMAIN m.tags : \E t \in AlteredTags(m.tags[i]) :
                   a = [m EXCEPT !.tags[i] = t]
        \/ \E i \in 1 .. (Len(m.tags) - 1) : a = [m EXCEPT !.tags = Exchanged(m.tags, i)]
        \/ a \in {[m EXCEPT !.macseq = Junk], [m EXCEPT !.nmas = 2]}
        \/ \E p \in Satellites : a = [m EXCEPT !.prn = p]
        \/ \E d \in {-60, -30, 30, WeekSeconds} : a = [m EXCEPT !.epoch = AddSeconds(@, d)]
    BY AlteredCases
  <2> QED
    BY <2>1, <2>2, <2>3
<1>2. \A u : IsTime(u) => u \in Numbers
  BY SMT DEF IsTime, Numbers, Time
<1>3. m.epoch.wn \in Int /\ m.epoch.tow \in Int
  BY SMT DEF IsTime
<1> QED
  BY <1>1, <1>2, <1>3, SecondsAdded
LEMMA WhatArrives ==
    ASSUME TagInv, NEW c \in ChainRecords, NEW prn, NEW other, NEW flx,
           NEW m \in {SentMack(c, prn, other, flx)} \cup AlteredMacks(SentMack(c, prn, other, flx))
    PROVE  m.epoch \in Numbers /\ Unforged(m, SentMack(c, prn, other, flx))
<1> DEFINE original == SentMack(c, prn, other, flx)
<1> DEFINE n == TagInfoCount(c.key_bits, c.tag_bits) + 1
<1>1. /\ original.epoch = Now /\ DOMAIN original.tags = 1 .. n /\ n \in Int
      /\ \A i \in DOMAIN original.tags : original.tags[i] = SentTag(c, prn, other, flx, i - 1)
  BY TagsSent
<1>2. DOMAIN original = MackFields /\ original.tags = [i \in 1 .. n |-> original.tags[i]]
  BY DEF SentMack, MackFields
<1>3. \A i \in 1 .. n : DOMAIN original.tags[i] = TagFields
  <2>1. \A i : DOMAIN SentTag(c, prn, other, flx, i) = TagFields
    BY DEF SentTag, TagFields
  <2> HIDE DEF original, n
  <2> QED
    BY <1>1, <2>1
<1>4. IsTime(Now) /\ Now \in Numbers
  BY NowIsGood DEF GoodNow
<1>5. m \in {original} \cup AlteredMacks(original)
  OBVIOUS
<1> HIDE DEF original, n
<1>6. m = original => m.epoch \in Numbers /\ Unforged(m, original)
  BY <1>1, <1>4 DEF Unforged
<1>7. m \in AlteredMacks(original) => m.epoch \in Numbers /\ Unforged(m, original)
  BY <1>1, <1>2, <1>3, <1>4, AlteredIsUnforged, AlteredEpoch
<1> QED
  BY <1>5, <1>6, <1>7 DEF original

LEMMA StoresAreGood ==
    ASSUME NEW c, NEW data \in {GenuineStore} \cup AlteredStores(c)
    PROVE  GoodData(data)
<1>1. DOMAIN GenuineStore = Satellites \X Kinds
      /\ \A k \in Satellites \X Kinds : GenuineStore[k] = Genuine(k[1], k[2])
  BY DEF GenuineStore
<1>2. ASSUME NEW prn, NEW kind, NEW a \in {Genuine(prn, kind)} \cup AlteredCandidates(c, prn, kind)
      PROVE  a.age \in Int
  <2> DEFINE g == Genuine(prn, kind)
  <2>1. g.age = 0 /\ DOMAIN g = {"found", "words", "age"}
    BY DEF Genuine
  <2>2. Cop - 1 \in Int /\ Cop \in Int
    BY NumbersAssumption
  <2>3. \/ a = g \/ a = [g EXCEPT !.found = FALSE]
        \/ \E b \in {Cop - 1, Cop} : a = [g EXCEPT !.age = b]
        \/ \E w : a = [g EXCEPT !.words = w]
    BY DEF AlteredCandidates
  <2> HIDE DEF g
  <2> QED
    BY <2>1, <2>2, <2>3
<1>3. CASE data = GenuineStore
  BY <1>1, <1>2, <1>3 DEF GoodData
<1>4. ASSUME NEW k \in DOMAIN GenuineStore, NEW a \in AlteredCandidates(c, k[1], k[2]),
             data = [GenuineStore EXCEPT ![k] = a]
      PROVE  GoodData(data)
  <2>1. a.age \in Int
    BY <1>2
  <2>2. DOMAIN data = Satellites \X Kinds
        /\ \A l \in Satellites \X Kinds : data[l] = IF l = k THEN a ELSE GenuineStore[l]
    BY <1>1, <1>4
  <2>3. \A l \in Satellites \X Kinds : GenuineStore[l].age \in Int
    BY <1>1, <1>2
  <2> QED
    BY <2>1, <2>2, <2>3 DEF GoodData
<1>5. data \in AlteredStores(c) =>
        \E k \in DOMAIN GenuineStore : \E a \in AlteredCandidates(c, k[1], k[2]) :
            data = [GenuineStore EXCEPT ![k] = a]
  BY Zenon DEF AlteredStores
<1> QED
  BY <1>3, <1>4, <1>5

LEMMA NothingSentYet ==
    ASSUME TagInv, sent = NoMack
    PROVE  result = NoResult
<1>1. SUFFICES ASSUME ComesFrom(chain, mack, sent)
               PROVE  FALSE
  BY DEF TagInv
<1>2. PICK prn \in Satellites, other \in Satellites, flx \in FlexibleTag :
         sent = SentMack(chain, prn, other, flx)
  BY <1>1 DEF ComesFrom
<1>3. sent.prn = prn
  BY <1>2 DEF SentMack
<1>4. sent.prn = 0
  BY DEF NoMack
<1> QED
  BY <1>3, <1>4, SatellitesAssumption

LEMMA KeyIsNumber ==
    ASSUME TagInv, NEW newest \in NewestKeys
    PROVE  newest \in Int
<1>1. Now.wn \in Int /\ Now.tow \in Int
  BY NowIsGood, SMT DEF IsTime
<1>2. DiffSeconds(Now, Root) \in Int
  BY <1>1, NumbersAssumption, SMT DEF DiffSeconds, WeekSeconds
<1> HIDE DEF DiffSeconds
<1>3. PICK d \in {0, 1, 11} : newest = DiffSeconds(Now, Root) \div 30 + d
  BY DEF NewestKeys
<1> DEFINE q == DiffSeconds(Now, Root)
<1> HIDE DEF q
<1>4. q \in Int /\ newest = q \div 30 + d
  BY <1>2, <1>3 DEF q
<1> QED
  BY <1>4

LEMMA TagInvInit == Init => TagInv
<1> SUFFICES ASSUME Init PROVE TagInv
  OBVIOUS
<1>1. chain \in ChainRecords
  BY ChainsAssumption DEF Init, ChainRecords
<1> QED
  BY <1>1 DEF Init, TagInv, Issues

LEMMA TagInvReceive ==
    ASSUME TagInv, NEW prn \in Satellites, Receive(prn)
    PROVE  TagInv'
<1>1. /\ sent = NoMack /\ start' = start /\ step' = step /\ issue' = issue /\ result' = result
  BY DEF Receive
<1>2. PICK other \in Satellites \ {prn}, newest \in NewestKeys, flx \in FlexibleTags(chain) :
         /\ sent' = SentMack(chain, prn, other, flx)
         /\ chain' = [chain EXCEPT !.newest = newest]
         /\ mack' \in {sent'} \cup AlteredMacks(sent')
         /\ store' \in {GenuineStore} \cup AlteredStores(chain)
  <2>1. PICK other \in Satellites \ {prn}, newest \in NewestKeys, flx \in FlexibleTags(chain) :
           /\ sent' = SentMack(chain, prn, other, flx)
           /\ chain' = [chain EXCEPT !.newest = newest]
           /\ mack' = sent' \/ mack' \in AlteredMacks(sent')
           /\ store' = GenuineStore \/ store' \in AlteredStores(chain)
    BY DEF Receive
  <2> QED
    BY <2>1
<1>3. chain \in ChainRecords
  BY DEF TagInv
<1>4. chain' \in ChainRecords /\ SameChain(chain, chain')
  <2>1. newest \in Int
    BY KeyIsNumber
  <2> QED
    BY <1>2, <1>3, <2>1 DEF ChainRecords, SameChain
<1>5. sent' = SentMack(chain', prn, other, flx)
  BY <1>2, <1>4, SameMackSent
<1>6. mack'.epoch \in Numbers /\ Unforged(mack', sent')
  BY <1>2, <1>3, WhatArrives
<1>7. flx \in FlexibleTag
  BY DEF FlexibleTags, FlexibleTag
<1>8. \A c, p, o, f : SentMack(c, p, o, f)' = SentMack(c, p, o, f)
  BY <1>1, SameTimeSameMack
<1>9. sent' = SentMack(chain, prn, other, flx)'
  BY <1>5, <1>8
<1>10. ComesFrom(chain, mack, sent)'
  BY <1>6, <1>7, <1>9 DEF ComesFrom
<1>11. GoodData(store)'
  BY <1>2, StoresAreGood DEF GoodData
<1>12. result' = NoResult
  BY <1>1, NothingSentYet
<1> QED
  BY <1>1, <1>4, <1>10, <1>11, <1>12 DEF TagInv

LEMMA TagInvVerifyMack ==
    ASSUME TagInv, VerifyMack
    PROVE  TagInv'
<1>1. /\ sent # NoMack /\ result' = Verify(chain, mack, store, surplus)
      /\ chain' = chain /\ mack' = mack /\ store' = store /\ surplus' = surplus
      /\ start' = start /\ step' = step /\ issue' = issue /\ sent' = sent
  BY DEF VerifyMack
<1>2. ComesFrom(chain, mack, sent) /\ GoodData(store)
  BY <1>1 DEF TagInv
<1>3. \A c, p, o, f : SentMack(c, p, o, f)' = SentMack(c, p, o, f)
  BY <1>1, SameTimeSameMack
<1>4. ComesFrom(chain, mack, sent)' /\ GoodData(store)'
  BY <1>1, <1>2, <1>3 DEF ComesFrom, GoodData
<1>5. Verify(chain, mack, store, surplus)' = Verify(chain, mack, store, surplus)
  BY <1>1
<1> QED
  BY <1>1, <1>4, <1>5 DEF TagInv

LEMMA TagInvNextSubframe ==
    ASSUME TagInv, NextSubframe
    PROVE  TagInv'
<1>1. chain' = chain /\ start' = start /\ step' = 1 /\ issue' \in Issues
  BY DEF NextSubframe
<1>2. sent' = NoMack /\ result' = NoResult
  BY DEF NextSubframe
<1> QED
  BY <1>1, <1>2 DEF TagInv

LEMMA TagInvAgain ==
    ASSUME TagInv, Again
    PROVE  TagInv'
<1>1. chain' = NoKeys(chain) /\ start' = start /\ step' = 0 /\ issue' = 1
  BY DEF Again
<1>2. sent' = NoMack /\ result' = NoResult
  BY DEF Again
<1>3. chain' \in ChainRecords
  BY <1>1 DEF TagInv, ChainRecords, NoKeys
<1> QED
  BY <1>1, <1>2, <1>3 DEF TagInv, Issues

LEMMA TagInvUnchanged ==
    ASSUME TagInv, UNCHANGED vars
    PROVE  TagInv'
<1>1. /\ chain' = chain /\ mack' = mack /\ store' = store /\ surplus' = surplus
      /\ start' = start /\ step' = step /\ issue' = issue /\ sent' = sent /\ result' = result
  BY DEF vars
<1>2. \A c, p, o, f : SentMack(c, p, o, f)' = SentMack(c, p, o, f)
  BY <1>1, SameTimeSameMack
<1>3. /\ ComesFrom(chain, mack, sent) => ComesFrom(chain, mack, sent)'
      /\ GoodData(store) => GoodData(store)'
  BY <1>1, <1>2 DEF ComesFrom, GoodData
<1>4. Verify(chain, mack, store, surplus)' = Verify(chain, mack, store, surplus)
  BY <1>1
<1> QED
  BY <1>1, <1>3, <1>4 DEF TagInv

LEMMA TagInvNext == TagInv /\ [Next]_vars => TagInv'
  BY TagInvReceive, TagInvVerifyMack, TagInvNextSubframe, TagInvAgain, TagInvUnchanged DEF Next

(* Whatever is altered on the way, what a verified tag reports is what was *)
(* transmitted, for every chain, start, key index and set of satellites.   *)
THEOREM WhatIsReportedWasTransmitted == Spec => []ReportedIsTransmitted
<1>1. Init => TagInv
  BY TagInvInit
<1>2. TagInv /\ [Next]_vars => TagInv'
  BY TagInvNext
<1>3. TagInv => ReportedIsTransmitted
  BY ReportsAreTrue
<1> QED
  BY <1>1, <1>2, <1>3, PTL DEF Spec
-----------------------------------------------------------------------------
(***************************************************************************)
(* Data as transmitted has the bits under tags that the sender makes MACs  *)
(* over.                                                                   *)
(***************************************************************************)
Covers(wt, n, p, z, first, count) ==
    \A i \in 1 .. n : IF Signal[wt][i] \in Tagged
                      THEN first <= p[i] /\ p[i] + z[i] <= first + count
                      ELSE p[i] + z[i] <= first
SaidUnderTag(values, wt, first, count) ==
    WordOf(values, wt, Names) \cap BitsFrom(first, count) = WordOf(values, wt, Tagged)

LEMMA CoveredBits ==
    ASSUME NEW wt, NEW n \in Nat, NEW p, NEW z, Laid(wt, n, p, z),
           NEW values, Fitting(values),
           NEW first \in Nat, NEW count \in Nat, Covers(wt, n, p, z, first, count)
    PROVE  SaidUnderTag(values, wt, first, count)
<1>1. \A i \in 1 .. n : /\ FirstBit(wt, i) = p[i] /\ p[i] \in Nat /\ z[i] \in Nat
                        /\ Signal[wt][i] \in Names
                        /\ values[Signal[wt][i]] \subseteq 0 .. (z[i] - 1)
  <2>1. \A i \in 1 .. n : FirstBit(wt, i) = p[i]
    BY FieldsBegin
  <2>2. \A i \in 1 .. n : /\ p[i] \in Nat /\ z[i] \in Nat /\ Signal[wt][i] \in Names
                          /\ SizeOf[Signal[wt][i]] = z[i]
    BY DEF Laid
  <2>3. \A i \in 1 .. n : values[Signal[wt][i]] \subseteq 0 .. (SizeOf[Signal[wt][i]] - 1)
    BY <2>2 DEF Fitting
  <2>4. \A i \in 1 .. n : values[Signal[wt][i]] \subseteq 0 .. (z[i] - 1)
    BY <2>2, <2>3
  <2> QED
    BY <2>1, <2>2, <2>4
<1>2. \A names, b : b \in WordOf(values, wt, names) <=>
        \E i \in 1 .. n : Signal[wt][i] \in names /\
            \E o \in values[Signal[wt][i]] : b = p[i] + o
  <2> SUFFICES ASSUME NEW names, NEW b
               PROVE  b \in WordOf(values, wt, names) <=>
                        \E i \in 1 .. n : Signal[wt][i] \in names /\
                            \E o \in values[Signal[wt][i]] : b = p[i] + o
    OBVIOUS
  <2>1. DOMAIN Signal[wt] = 1 .. n
    BY DEF Laid
  <2>2. b \in WordOf(values, wt, names) <=>
          \E i \in {j \in 1 .. n : Signal[wt][j] \in names} :
              b \in {FirstBit(wt, i) + o : o \in values[Signal[wt][i]]}
    BY <2>1, Zenon DEF WordOf
  <2>3. \A i \in 1 .. n : b \in {FirstBit(wt, i) + o : o \in values[Signal[wt][i]]} <=>
                            \E o \in values[Signal[wt][i]] : b = p[i] + o
    BY <1>1
  <2> QED
    BY <2>2, <2>3, Zenon
<1>3. ASSUME NEW b \in WordOf(values, wt, Tagged)
      PROVE  b \in WordOf(values, wt, Names) \cap BitsFrom(first, count)
  <2>1. PICK i \in 1 .. n : Signal[wt][i] \in Tagged /\ \E o \in values[Signal[wt][i]] : b = p[i] + o
    BY <1>2
  <2>2. PICK o \in 0 .. (z[i] - 1) : b = p[i] + o
    BY <1>1, <2>1
  <2>3. b \in WordOf(values, wt, Names)
    BY <1>1, <1>2, <2>1
  <2>4. first <= p[i] /\ p[i] + z[i] <= first + count
    BY <2>1 DEF Covers
  <2>5. p[i] \in Nat /\ z[i] \in Nat
    BY <1>1
  <2>6. b \in BitsFrom(first, count)
    BY <2>2, <2>4, <2>5 DEF BitsFrom
  <2> QED
    BY <2>3, <2>6
<1>4. ASSUME NEW b \in WordOf(values, wt, Names), b \in BitsFrom(first, count)
      PROVE  b \in WordOf(values, wt, Tagged)
  <2>1. PICK i \in 1 .. n : \E o \in values[Signal[wt][i]] : b = p[i] + o
    BY <1>2
  <2>2. PICK o \in 0 .. (z[i] - 1) : b = p[i] + o
    BY <1>1, <2>1
  <2>3. p[i] \in Nat /\ z[i] \in Nat
    BY <1>1
  <2>4. ~(p[i] + z[i] <= first)
    BY <1>4, <2>2, <2>3 DEF BitsFrom
  <2>5. Signal[wt][i] \in Tagged
    BY <2>4 DEF Covers
  <2> QED
    BY <1>2, <2>1, <2>5
<1> QED
  BY <1>3, <1>4 DEF SaidUnderTag

LEMMA AllIsCovered ==
    ASSUME NEW values, Fitting(values), NEW kind \in Kinds, NEW r \in RangesOf(kind)
    PROVE  SaidUnderTag(values, r[1], r[2], r[3])
<1>1. SaidUnderTag(values, 1, 6, 120)
  <2> DEFINE p == <<0, 6, 16, 30, 62, 94>>
  <2> DEFINE z == <<6, 10, 14, 32, 32, 32>>
  <2>1. Signal[1] = <<"type", "iodnav", "toe", "m_0", "eccentricity", "sqrt_a">>
    BY DEF Signal, CedWords, TimingWords
  <2>2. Covers(1, 6, p, z, 6, 120)
    BY <2>1 DEF Covers, Tagged, Names, SizeOf
  <2>3. Laid(1, 6, p, z)
    BY Word1Laid
  <2> HIDE DEF p, z
  <2> QED
    BY <2>2, <2>3, CoveredBits
<1>2. SaidUnderTag(values, 2, 6, 120)
  <2> DEFINE p == <<0, 6, 16, 48, 80, 112>>
  <2> DEFINE z == <<6, 10, 32, 32, 32, 14>>
  <2>1. Signal[2] = <<"type", "iodnav", "omega_0", "i_0", "omega", "i_dot">>
    BY DEF Signal, CedWords, TimingWords
  <2>2. Covers(2, 6, p, z, 6, 120)
    BY <2>1 DEF Covers, Tagged, Names, SizeOf
  <2>3. Laid(2, 6, p, z)
    BY Word2Laid
  <2> HIDE DEF p, z
  <2> QED
    BY <2>2, <2>3, CoveredBits
<1>3. SaidUnderTag(values, 3, 6, 122)
  <2> DEFINE p == <<0, 6, 16, 40, 56, 72, 88, 104, 120>>
  <2> DEFINE z == <<6, 10, 24, 16, 16, 16, 16, 16, 8>>
  <2>1. Signal[3] =
          <<"type", "iodnav", "omega_dot", "delta_n", "c_uc", "c_us", "c_rc", "c_rs", "sisa">>
    BY DEF Signal, CedWords, TimingWords
  <2>2. Covers(3, 9, p, z, 6, 122)
    BY <2>1 DEF Covers, Tagged, Names, SizeOf
  <2>3. Laid(3, 9, p, z)
    BY Word3Laid
  <2> HIDE DEF p, z
  <2> QED
    BY <2>2, <2>3, CoveredBits
<1>4. SaidUnderTag(values, 4, 6, 120)
  <2> DEFINE p == <<0, 6, 16, 22, 38, 54, 68, 99, 120>>
  <2> DEFINE z == <<6, 10, 6, 16, 16, 14, 31, 21, 6>>
  <2>1. Signal[4] = <<"type", "iodnav", "svid", "c_ic", "c_is", "toc", "af0", "af1", "af2">>
    BY DEF Signal, CedWords, TimingWords
  <2>2. Covers(4, 9, p, z, 6, 120)
    BY <2>1 DEF Covers, Tagged, Names, SizeOf
  <2>3. Laid(4, 9, p, z)
    BY Word4Laid
  <2> HIDE DEF p, z
  <2> QED
    BY <2>2, <2>3, CoveredBits
<1>5. SaidUnderTag(values, 5, 6, 67)
  <2> DEFINE p == <<0, 6, 17, 28, 42, 47, 57, 67, 69, 71, 72>>
  <2> DEFINE z == <<6, 11, 11, 14, 5, 10, 10, 2, 2, 1, 1>>
  <2>1. Signal[5] = <<"type", "ai0", "ai1", "ai2", "storm", "bgd_e5a_e1", "bgd_e5b_e1",
                     "e5b_shs", "e1b_shs", "e5b_dvs", "e1b_dvs">>
    BY DEF Signal, CedWords, TimingWords
  <2>2. Covers(5, 11, p, z, 6, 67)
    BY <2>1 DEF Covers, Tagged, Names, SizeOf
  <2>3. Laid(5, 11, p, z)
    BY Word5Laid
  <2> HIDE DEF p, z
  <2> QED
    BY <2>2, <2>3, CoveredBits
<1>6. SaidUnderTag(values, 6, 6, 99)
  <2> DEFINE p == <<0, 6, 38, 62, 70, 78, 86, 94, 97>>
  <2> DEFINE z == <<6, 32, 24, 8, 8, 8, 8, 3, 8>>
  <2>1. Signal[6] = <<"type", "a0", "a1", "dt_ls", "t0", "wn0", "wn_lsf", "dn", "dt_lsf">>
    BY DEF Signal, CedWords, TimingWords
  <2>2. Covers(6, 9, p, z, 6, 99)
    BY <2>1 DEF Covers, Tagged, Names, SizeOf
  <2>3. Laid(6, 9, p, z)
    BY Word6Laid
  <2> HIDE DEF p, z
  <2> QED
    BY <2>2, <2>3, CoveredBits
<1>7. SaidUnderTag(values, 10, 86, 42)
  <2> DEFINE p == <<0, 86, 102, 114, 122>>
  <2> DEFINE z == <<86, 16, 12, 8, 6>>
  <2>1. Signal[10] = <<"almanac", "a0g", "a1g", "t0g", "wn0g">>
    BY DEF Signal, CedWords, TimingWords
  <2>2. Covers(10, 5, p, z, 86, 42)
    BY <2>1 DEF Covers, Tagged, Names, SizeOf
  <2>3. Laid(10, 5, p, z)
    BY Word10Laid
  <2> HIDE DEF p, z
  <2> QED
    BY <2>2, <2>3, CoveredBits
<1>8. r \in CedRanges \cup TimingRanges
  BY DEF RangesOf
<1> QED
  BY <1>1, <1>2, <1>3, <1>4, <1>5, <1>6, <1>7, <1>8 DEF CedRanges, TimingRanges

LEMMA TransmittedIsUnderTag ==
    ASSUME NEW prn \in Satellites, NEW n \in Issues, NEW s \in Starts, NEW adkd
    PROVE  BuildNavData(Transmitted[prn][n][s][NavKind(adkd)], adkd) = UnderTag[prn][n][s][NavKind(adkd)]
<1> DEFINE kind == NavKind(adkd)
<1> DEFINE values == Said[prn][n][s]
<1> DEFINE ranges == RangesOf(kind)
<1> DEFINE words == Transmitted[prn][n][s][kind]
<1>1. kind \in Kinds /\ BuildNavData(words, adkd) = Bits(words, ranges)
  BY DEF NavKind, Kinds, BuildNavData, RangesOf
<1>2. UnderTag[prn][n][s][kind] = UNION {{<<wt, b>> : b \in WordOf(values, wt, Tagged)} :
                                            wt \in WordsOf(kind)}
  BY <1>1 DEF UnderTag, Tagged
<1>3. \A wt \in WordsOf(kind) : words[wt] = WordOf(values, wt, Names)
  BY <1>1 DEF Transmitted
<1>4. \A r \in ranges : r[1] \in WordsOf(kind)
  BY <1>1 DEF RangesOf, WordsOf, CedRanges, TimingRanges, CedWords, TimingWords, Kinds
<1>5. \A wt \in WordsOf(kind) : \E r \in ranges : r[1] = wt
  <2>1. \A wt \in 1 .. 5 : \E r \in CedRanges : r[1] = wt
    <3>1. /\ <<1, 6, 120>> \in CedRanges /\ <<2, 6, 120>> \in CedRanges /\ <<3, 6, 122>> \in CedRanges
          /\ <<4, 6, 120>> \in CedRanges /\ <<5, 6, 67>> \in CedRanges
      BY DEF CedRanges
    <3>2. /\ <<1, 6, 120>>[1] = 1 /\ <<2, 6, 120>>[1] = 2 /\ <<3, 6, 122>>[1] = 3
          /\ <<4, 6, 120>>[1] = 4 /\ <<5, 6, 67>>[1] = 5
      OBVIOUS
    <3>3. \A wt \in 1 .. 5 : wt = 1 \/ wt = 2 \/ wt = 3 \/ wt = 4 \/ wt = 5
      OBVIOUS
    <3> QED
      BY <3>1, <3>2, <3>3, Zenon
  <2>2. \A wt \in {6, 10} : \E r \in TimingRanges : r[1] = wt
    <3>1. <<6, 6, 99>> \in TimingRanges /\ <<10, 86, 42>> \in TimingRanges
      BY DEF TimingRanges
    <3>2. <<6, 6, 99>>[1] = 6 /\ <<10, 86, 42>>[1] = 10
      OBVIOUS
    <3> QED
      BY <3>1, <3>2, Zenon
  <2>3. CASE kind = "ced"
    BY <2>1, <2>3 DEF RangesOf, WordsOf, CedWords
  <2>4. CASE kind = "timing"
    BY <2>2, <2>4 DEF RangesOf, WordsOf, TimingWords
  <2> QED
    BY <1>1, <2>3, <2>4 DEF Kinds
<1>6. \A r \in ranges : words[r[1]] \cap BitsFrom(r[2], r[3]) = WordOf(values, r[1], Tagged)
  <2>1. \A r \in ranges : SaidUnderTag(values, r[1], r[2], r[3])
    BY <1>1, WhatIsSaidFits, AllIsCovered
  <2> QED
    BY <1>3, <1>4, <2>1 DEF SaidUnderTag
<1> HIDE DEF kind, values, ranges, words
<1>7. Bits(words, ranges) = UNION {{<<r[1], b>> : b \in WordOf(values, r[1], Tagged)} : r \in ranges}
  BY <1>6 DEF Bits
<1> DEFINE pairs(wt) == {<<wt, b>> : b \in WordOf(values, wt, Tagged)}
<1>8. Bits(words, ranges) = UNION {pairs(r[1]) : r \in ranges}
  BY <1>7
<1>9. UnderTag[prn][n][s][kind] = UNION {pairs(wt) : wt \in WordsOf(kind)}
  BY <1>2
<1> HIDE DEF pairs
<1>10. {pairs(r[1]) : r \in ranges} = {pairs(wt) : wt \in WordsOf(kind)}
  BY <1>4, <1>5
<1>11. Bits(words, ranges) = UnderTag[prn][n][s][kind]
  BY <1>8, <1>9, <1>10
<1> QED
  BY <1>1, <1>11 DEF kind, words
-----------------------------------------------------------------------------
(* How many successes there are: the first MaxSuccess tags, or all.        *)
Before(tags, t) == {u \in tags : u.index < t.index}
FirstOf(tags) == {t \in tags : Cardinality(Before(tags, t)) < MaxSuccess}
Indexed(tags) ==
    /\ IsFiniteSet(tags)
    /\ \A t \in tags : t.index \in Int
    /\ \A t, u \in tags : t.index = u.index => t = u

LEMMA OneToOne ==
    ASSUME NEW S, NEW T, IsFiniteSet(S), NEW f \in [S -> T],
           \A x, y \in S : f[x] = f[y] => x = y,
           \A y \in T : \E x \in S : f[x] = y
    PROVE  IsFiniteSet(T) /\ Cardinality(T) = Cardinality(S)
<1>1. f \in Injection(S, T) /\ f \in Surjection(S, T)
  BY DEF Injection, IsInjective, Surjection
<1>2. ExistsBijection(S, T)
  BY <1>1 DEF ExistsBijection, Bijection
<1> QED
  BY <1>2, FS_Bijection

LEMMA RanksOfTags ==
    ASSUME NEW tags, Indexed(tags)
    PROVE  LET rank == [t \in tags |-> Cardinality(Before(tags, t))]
               n == Cardinality(tags)
           IN  /\ n \in Nat
               /\ rank \in [tags -> 0 .. (n - 1)]
               /\ \A t, u \in tags : rank[t] = rank[u] => t = u
               /\ \A k \in 0 .. (n - 1) : \E t \in tags : rank[t] = k
<1> DEFINE n == Cardinality(tags)
<1> DEFINE rank == [t \in tags |-> Cardinality(Before(tags, t))]
<1>1. n \in Nat /\ IsFiniteSet(tags)
  BY FS_CardinalityType DEF Indexed
<1>2. \A t \in tags : t.index \in Int
  BY DEF Indexed
<1>3. ASSUME NEW t \in tags
      PROVE  /\ IsFiniteSet(Before(tags, t)) /\ Cardinality(Before(tags, t)) \in 0 .. (n - 1)
  <2>1. IsFiniteSet(tags \ {t}) /\ Cardinality(tags \ {t}) = n - 1
    BY <1>1, FS_RemoveElement
  <2>2. Before(tags, t) \in SUBSET (tags \ {t})
    BY <1>2 DEF Before
  <2>3. IsFiniteSet(Before(tags, t)) /\ Cardinality(Before(tags, t)) <= n - 1
    BY <2>1, <2>2, FS_Subset
  <2>4. Cardinality(Before(tags, t)) \in Nat
    BY <2>3, FS_CardinalityType
  <2> QED
    BY <1>1, <2>3, <2>4
<1>4. rank \in [tags -> 0 .. (n - 1)]
  BY <1>3
<1>5. ASSUME NEW t \in tags, NEW u \in tags, t.index < u.index
      PROVE  rank[t] < rank[u]
  <2>1. IsFiniteSet(Before(tags, t)) /\ IsFiniteSet(Before(tags, u))
        /\ Cardinality(Before(tags, t)) \in Int /\ Cardinality(Before(tags, u)) \in Int
    BY <1>3
  <2>2. t \notin Before(tags, t)
    BY <1>2 DEF Before
  <2>3. Before(tags, t) \cup {t} \in SUBSET Before(tags, u)
    BY <1>2, <1>5 DEF Before
  <2>4. Cardinality(Before(tags, t) \cup {t}) = Cardinality(Before(tags, t)) + 1
    BY <2>1, <2>2, FS_AddElement
  <2>5. Cardinality(Before(tags, t) \cup {t}) <= Cardinality(Before(tags, u))
    BY <2>1, <2>3, FS_Subset
  <2> QED
    BY <2>1, <2>4, <2>5
<1>6. ASSUME NEW t \in tags, NEW u \in tags, rank[t] = rank[u]
      PROVE  t = u
  <2>1. rank[t] \in Int /\ rank[u] \in Int
    BY <1>3
  <2> HIDE DEF rank
  <2>2. ~(t.index < u.index) /\ ~(u.index < t.index)
    BY <1>5, <1>6, <2>1
  <2>3. t.index = u.index
    BY <1>2, <2>2
  <2> QED
    BY <2>3 DEF Indexed
<1>7. \A k \in 0 .. (n - 1) : \E t \in tags : rank[t] = k
  <2> HIDE DEF rank
  <2>1. rank \in Injection(tags, 0 .. (n - 1))
    BY <1>4, <1>6 DEF Injection, IsInjective
  <2>2. IsFiniteSet(0 .. (n - 1)) /\ Cardinality(0 .. (n - 1)) = n
    <3>1. 0 \in Int /\ n - 1 \in Int
      BY <1>1
    <3> HIDE DEF n
    <3>2. IsFiniteSet(0 .. (n - 1))
          /\ Cardinality(0 .. (n - 1)) = IF 0 > n - 1 THEN 0 ELSE (n - 1) - 0 + 1
      BY <3>1, FS_Interval
    <3> QED
      BY <1>1, <3>2
  <2>3. rank \in Surjection(tags, 0 .. (n - 1))
    BY <2>1, <2>2, FS_Injection
  <2> QED
    BY <2>3 DEF Surjection
<1> QED
  BY <1>1, <1>4, <1>6, <1>7

LEMMA FirstTags ==
    ASSUME NEW tags, Indexed(tags), NEW t \in tags, t \notin FirstOf(tags)
    PROVE  IsFiniteSet(FirstOf(tags)) /\ Cardinality(FirstOf(tags)) = MaxSuccess
<1> DEFINE n == Cardinality(tags)
<1> DEFINE rank == [u \in tags |-> Cardinality(Before(tags, u))]
<1> DEFINE first == FirstOf(tags)
<1>1. /\ n \in Nat /\ rank \in [tags -> 0 .. (n - 1)]
      /\ \A u, v \in tags : rank[u] = rank[v] => u = v
      /\ \A k \in 0 .. (n - 1) : \E u \in tags : rank[u] = k
  BY RanksOfTags
<1>2. first = {u \in tags : rank[u] < MaxSuccess}
  BY DEF FirstOf
<1>3. MaxSuccess \in Nat
  BY NumbersAssumption
<1> HIDE DEF n, rank, first
<1>4. ~(rank[t] < MaxSuccess)
  BY <1>2 DEF first
<1>5. MaxSuccess <= n - 1
  BY <1>1, <1>3, <1>4
<1> DEFINE f == [u \in first |-> rank[u]]
<1>6. f \in [first -> 0 .. (MaxSuccess - 1)]
  BY <1>1, <1>2, <1>3
<1>7. \A u, v \in first : f[u] = f[v] => u = v
  BY <1>1, <1>2
<1>8. \A k \in 0 .. (MaxSuccess - 1) : \E u \in first : f[u] = k
  <2> SUFFICES ASSUME NEW k \in 0 .. (MaxSuccess - 1)
               PROVE  \E u \in first : f[u] = k
    OBVIOUS
  <2>1. k \in 0 .. (n - 1) /\ k < MaxSuccess
    BY <1>1, <1>3, <1>5
  <2>2. PICK u \in tags : rank[u] = k
    BY <1>1, <2>1
  <2> QED
    BY <1>2, <2>1, <2>2
<1>9. IsFiniteSet(first)
  <2>1. first \in SUBSET tags
    BY <1>2
  <2> QED
    BY <2>1, FS_Subset DEF Indexed
<1> HIDE DEF f
<1>10. Cardinality(0 .. (MaxSuccess - 1)) = Cardinality(first)
  BY <1>6, <1>7, <1>8, <1>9, OneToOne
<1>11. Cardinality(0 .. (MaxSuccess - 1)) = MaxSuccess
  <2>1. 0 \in Int /\ MaxSuccess - 1 \in Int
    BY <1>3
  <2>2. Cardinality(0 .. (MaxSuccess - 1))
          = IF 0 > MaxSuccess - 1 THEN 0 ELSE (MaxSuccess - 1) - 0 + 1
    BY <2>1, FS_Interval
  <2> QED
    BY <1>3, <2>2
<1> QED
  BY <1>9, <1>10, <1>11 DEF first

(* A tag that is not among the first comes after all of them.              *)
LEMMA FirstTagsComeFirst ==
    ASSUME NEW tags, Indexed(tags), NEW t \in tags, t \notin FirstOf(tags),
           NEW u \in FirstOf(tags)
    PROVE  u.index < t.index
<1>1. u \in tags /\ u.index \in Int /\ t.index \in Int /\ u.index # t.index
  BY DEF FirstOf, Indexed
<1>2. SUFFICES ASSUME t.index < u.index
               PROVE  FALSE
  BY <1>1
<1>3. Before(tags, t) \subseteq Before(tags, u)
  <2>1. \A v \in tags : v.index \in Int
    BY DEF Indexed
  <2> QED
    BY <1>1, <1>2, <2>1 DEF Before
<1>4. IsFiniteSet(Before(tags, t)) /\ IsFiniteSet(Before(tags, u))
  <2>1. IsFiniteSet(tags)
    BY DEF Indexed
  <2> QED
    BY <2>1, FS_Subset DEF Before
<1>5. Cardinality(Before(tags, t)) <= Cardinality(Before(tags, u))
  BY <1>3, <1>4, FS_Subset
<1>6. Cardinality(Before(tags, t)) \in Nat /\ Cardinality(Before(tags, u)) \in Nat
  BY <1>4, FS_CardinalityType
<1>7. ~(Cardinality(Before(tags, t)) < MaxSuccess) /\ Cardinality(Before(tags, u)) < MaxSuccess
  BY DEF FirstOf
<1> QED
  BY <1>5, <1>6, <1>7, NumbersAssumption

LEMMA MatchIsReported ==
    ASSUME NEW m, NEW data, NEW tags, Indexed(tags), NEW t \in tags
    PROVE  \/ \E s \in FirstSuccesses(m, data, tags) : s.index = t.index
           \/ /\ Cardinality(FirstSuccesses(m, data, tags)) = MaxSuccess
              /\ \A s \in FirstSuccesses(m, data, tags) : s.index < t.index
<1> DEFINE successes == FirstSuccesses(m, data, tags)
<1>1. successes = {Success(m, data, u) : u \in FirstOf(tags)}
  BY DEF FirstSuccesses, FirstOf, Before
<1>2. \A u : Success(m, data, u).index = u.index
  BY DEF Success
<1>3. CASE t \in FirstOf(tags)
  BY <1>1, <1>2, <1>3
<1>4. CASE t \notin FirstOf(tags)
  <2>1. IsFiniteSet(FirstOf(tags)) /\ Cardinality(FirstOf(tags)) = MaxSuccess
    BY <1>4, FirstTags
  <2> DEFINE f == [u \in FirstOf(tags) |-> Success(m, data, u)]
  <2>2. f \in [FirstOf(tags) -> successes]
    BY <1>1
  <2>3. \A u, v \in FirstOf(tags) : f[u] = f[v] => u = v
    <3>1. \A u, v \in FirstOf(tags) : f[u] = f[v] => u.index = v.index
      BY <1>2
    <3>2. \A u, v \in FirstOf(tags) : u.index = v.index => u = v
      BY DEF FirstOf, Indexed
    <3> QED
      BY <3>1, <3>2
  <2>4. \A s \in successes : \E u \in FirstOf(tags) : f[u] = s
    BY <1>1
  <2>5. \A s \in successes : s.index < t.index
    BY <1>1, <1>2, <1>4, FirstTagsComeFirst
  <2> HIDE DEF f, successes
  <2>6. Cardinality(successes) = Cardinality(FirstOf(tags))
    BY <2>1, <2>2, <2>3, <2>4, OneToOne
  <2> QED
    BY <2>1, <2>5, <2>6 DEF successes
<1> QED
  BY <1>3, <1>4

-----------------------------------------------------------------------------
(* Now a tag that arrives as it was sent: the receiver takes it for what   *)
(* it was sent for, and its MAC is the one the receiver computes.          *)
KeyIsPast == DiffSeconds(Now, Root) >= 0 /\ DiffSeconds(Now, Root) \in Int
GoodTime == GoodNow /\ IsTime(Now) /\ Now.wn >= 0 /\ KeyIsPast
Arrived(c, prn, m) ==
    /\ c \in ChainRecords /\ prn \in Satellites
    /\ m.prn = prn /\ m.epoch = Now /\ m.nmas = 1
    /\ c.maclt \in DOMAIN Maclt
    /\ TagInfoCount(c.key_bits, c.tag_bits) \in Nat
    /\ TagInfoCount(c.key_bits, c.tag_bits) < Len(Maclt[c.maclt][1])
InUse == {"InavCed", "InavTiming", "SlowMac"}

LEMMA TimeIsSent ==
    ASSUME GoodTime
    PROVE  IsTimeValid(Now) /\ GstSf(Now) = SentGst
<1>1. Now.wn \in Int /\ Now.wn >= 0 /\ Now.tow \in Int /\ Now.tow >= 0 /\ Now.tow < 604800
  BY SMT DEF GoodTime, IsTime
<1>2. Now.tow % (2 ^ 20) = Now.tow
  <2> DEFINE x == Now.tow
  <2> DEFINE m == 2 ^ 20
  <2>1. m = 1048576
    BY SMT
  <2> HIDE DEF m, x
  <2>2. x % m = x
    BY <1>1, <2>1, SMT DEF x
  <2> QED
    BY <2>2 DEF x, m
<1> QED
  BY <1>1, <1>2, SMT DEF IsTimeValid, WeekSeconds, GstSf, SentGst

LEMMA PlacesOfTags ==
    ASSUME GoodTime, NEW c, NEW prn, NEW m, Arrived(c, prn, m)
    PROVE  /\ ValidLayout(c) /\ ParsedTags(c) = 0 .. TagInfoCount(c.key_bits, c.tag_bits)
           /\ \A i \in ParsedTags(c) :
                 /\ HasExpectedSlot(c.maclt, m.epoch, i)
                 /\ ExpectedSlot(c.maclt, m.epoch, i) = SentSlot(c, i)
                 /\ SentSlot(c, i) \in Slots
                 /\ i = 0 => SentSlot(c, i) = S00
<1> DEFINE n == TagInfoCount(c.key_bits, c.tag_bits)
<1>1. n \in Nat /\ n < Len(Maclt[c.maclt][1]) /\ c.maclt \in DOMAIN Maclt /\ m.epoch = Now
  BY DEF Arrived
<1>2. Len(Maclt[c.maclt][1]) \in 4 .. 10
  BY <1>1, TablesAreGood DEF GoodTable
<1>3. ValidLayout(c)
  <2> DEFINE l == Len(Maclt[c.maclt][1])
  <2>1. n \in Nat /\ n < l /\ l \in 4 .. 10
    BY <1>1, <1>2
  <2> HIDE DEF n, l
  <2>2. n \in 0 .. 15
    BY <2>1
  <2> QED
    BY <2>2 DEF ValidLayout, n
<1>4. ParsedTags(c) = 0 .. n
  BY DEF ParsedTags
<1> HIDE DEF n
<1>5. ASSUME NEW i \in ParsedTags(c)
      PROVE  /\ HasExpectedSlot(c.maclt, m.epoch, i)
             /\ ExpectedSlot(c.maclt, m.epoch, i) = SentSlot(c, i)
             /\ SentSlot(c, i) \in Slots
             /\ i = 0 => SentSlot(c, i) = S00
  <2>1. i \in Nat /\ i < Len(Maclt[c.maclt][1])
    BY <1>1, <1>2, <1>4
  <2>2. IsTimeValid(m.epoch)
    BY <1>1, TimeIsSent
  <2>3. HasExpectedSlot(c.maclt, m.epoch, i)
    BY <1>1, <2>1, <2>2 DEF HasExpectedSlot
  <2>4. m.epoch.tow = Now.tow /\ Now.tow \in Nat /\ Now.tow % 30 = 0
    BY <1>1 DEF GoodTime, GoodNow
  <2> QED
    BY <2>1, <2>3, <2>4, SlotOfTag
<1> QED
  BY <1>3, <1>4, <1>5 DEF n

LEMMA SatellitesAreGalileo ==
    \A p \in Satellites : IsGalileoPrn(p) /\ p \in 1 .. 255
<1> SUFFICES ASSUME NEW p \in Satellites PROVE IsGalileoPrn(p) /\ p \in 1 .. 255
  OBVIOUS
<1>1. p \in 1 .. 36
  BY SatellitesAssumption
<1>2. p \in 1 .. 255
  BY <1>1
<1> QED
  BY <1>1, <1>2 DEF IsGalileoPrn

(* What a tag is sent for, at a place the table has.                       *)
SentFor(c, prn, i, t) ==
    LET slot == SentSlot(c, i)
    IN  /\ t.prnd \in Satellites /\ t.adkd \in InUse /\ t.cop = Cop
        /\ slot.target # "Flexible" => t.adkd = slot.adkd
        /\ slot.target = "Self" => t.prnd = prn
        /\ slot.target = "External" => t.prnd # prn
        /\ t.mac = Mac(SecretKey(t.adkd),
                       [prnd |-> IF i = 0 THEN 0 ELSE t.prnd, prna |-> prn, gst |-> SentGst,
                        ctr |-> i + 1, nmas |-> 1,
                        nav |-> UnderTag[t.prnd][issue][start][NavKind(t.adkd)]])

LEMMA TagIsSentFor ==
    ASSUME NEW c, NEW prn \in Satellites, NEW other \in Satellites \ {prn},
           NEW flx \in FlexibleTag, NEW i \in Nat, SentSlot(c, i) \in Slots
    PROVE  SentFor(c, prn, i, SentTag(c, prn, other, flx, i))
<1> DEFINE slot == SentSlot(c, i)
<1> DEFINE t == SentTag(c, prn, other, flx, i)
<1>1. /\ t.adkd = IF slot.target = "Flexible" THEN flx.adkd ELSE slot.adkd
      /\ slot.target = "Flexible" => t.prnd = flx.prnd
      /\ slot.target = "Self" => t.prnd = prn
      /\ slot.target = "External" => t.prnd = other
      /\ t.cop = Cop
      /\ t.mac = IF t.adkd = "Reserved" THEN Junk
                 ELSE Mac(SecretKey(t.adkd),
                          [prnd |-> IF i = 0 THEN 0 ELSE t.prnd, prna |-> prn,
                           gst |-> SentGst, ctr |-> i + 1, nmas |-> 1,
                           nav |-> UnderTag[t.prnd][issue][start][NavKind(t.adkd)]])
  BY SentTagAt
<1>2. slot \in Slots /\ flx.prnd \in Satellites /\ flx.adkd \in InUse
  BY DEF FlexibleTag, InUse
<1> HIDE DEF slot, t
<1>3. /\ slot.target \in {"Self", "External", "Flexible"}
      /\ slot.target # "Flexible" => slot.adkd \in InUse
  BY <1>2 DEF Slots, S00, E00, S04, S12, E12, FLX, Slot, InUse
<1>4. t.prnd \in Satellites /\ t.adkd \in InUse /\ t.adkd # "Reserved"
  BY <1>1, <1>2, <1>3 DEF InUse
<1>5. slot.target = "External" => t.prnd # prn
  BY <1>1
<1>6. slot.target # "Flexible" => t.adkd = slot.adkd
  BY <1>1
<1> QED
  BY <1>1, <1>4, <1>5, <1>6 DEF SentFor, slot, t

(* When the receiver computes the MAC of a tag it has the key for.         *)
LEMMA KeyOfTag ==
    ASSUME GoodTime, NEW c, NEW prn, NEW m, Arrived(c, prn, m), NEW i \in ParsedTags(c),
           NEW t, SentFor(c, prn, i, t), NEW tag,
           tag.index = i, tag.prnd = t.prnd, tag.adkd = t.adkd, tag.valid_info
    PROVE  /\ KeyIndexForTag(c, m, tag) = SecretKey(t.adkd)
           /\ c.newest >= SecretKey(t.adkd) => HasKeyForTag(c, m, tag)
<1> DEFINE slot == SentSlot(c, i)
<1>1. /\ HasExpectedSlot(c.maclt, m.epoch, i) /\ ExpectedSlot(c.maclt, m.epoch, i) = slot
      /\ slot \in Slots
  BY PlacesOfTags
<1>2. /\ t.prnd \in Satellites /\ t.adkd \in InUse
      /\ slot.target # "Flexible" => t.adkd = slot.adkd
      /\ slot.target = "Self" => t.prnd = prn
      /\ slot.target = "External" => t.prnd # prn
  BY DEF SentFor
<1>3. m.prn = prn /\ prn \in Satellites /\ m.epoch = Now /\ c.newest \in Int
  BY DEF Arrived, ChainRecords
<1>4. KeyIndex(m.epoch) \in Nat
      /\ SecretKey(t.adkd) = KeyIndex(m.epoch) + (IF t.adkd = "SlowMac" THEN 11 ELSE 1)
  <2> DEFINE d == DiffSeconds(Now, Root)
  <2>1. d \in Nat
    BY DEF GoodTime, KeyIsPast
  <2>2. KeyIndex(m.epoch) = d \div 30
        /\ SecretKey(t.adkd) = d \div 30 + (IF t.adkd = "SlowMac" THEN 11 ELSE 1)
    BY <1>3 DEF KeyIndex, SecretKey, SubframeSeconds
  <2> HIDE DEF d
  <2>3. d \div 30 \in Nat
    BY <2>1, SMT
  <2> QED
    BY <2>2, <2>3
<1> HIDE DEF slot
<1>5. NominalDelaySubframes(c.maclt, m.epoch, tag) = IF t.adkd = "SlowMac" THEN 11 ELSE 1
  BY <1>1, <1>2 DEF NominalDelaySubframes, IsFlexible
<1>6. KeyIndexForTag(c, m, tag) = SecretKey(t.adkd)
  BY <1>4, <1>5 DEF KeyIndexForTag
<1>7. IsTargetConsistent(slot, m.prn, tag.prnd)
  <2>1. prn \in 1 .. 255 /\ t.prnd \in 1 .. 255
    BY <1>2, <1>3, SatellitesAreGalileo
  <2> QED
    BY <1>2, <1>3, <2>1 DEF IsTargetConsistent
<1>8. IsTagConsistent(c.maclt, m.epoch, m.prn, tag)
  <2>1. IF IsFlexible(slot) THEN tag.adkd # "Reserved" ELSE tag.adkd = slot.adkd
    BY <1>2 DEF IsFlexible, InUse
  <2> QED
    BY <1>1, <1>7, <2>1 DEF IsTagConsistent
<1>9. KeyIndex(m.epoch) >= 0
  BY <1>4
<1>10. SecretKey(t.adkd) \in Int
  BY <1>4
<1>11. c.newest >= SecretKey(t.adkd) => KeyIndexForTag(c, m, tag) <= c.newest
  BY <1>3, <1>6, <1>10
<1> QED
  BY <1>6, <1>8, <1>9, <1>11 DEF HasKeyForTag

(* A tag that arrives intact is among the tags to verify.                  *)
Descriptor(i, t) ==
    [index |-> i, prnd |-> t.prnd, adkd |-> t.adkd, cop |-> t.cop, valid_info |-> TRUE,
     mac |-> t.mac]

LEMMA IntactTagIsUsed ==
    ASSUME GoodTime, NEW c, NEW prn, NEW m, Arrived(c, prn, m), NEW i \in ParsedTags(c),
           NEW t, SentFor(c, prn, i, t), m.tags[i + 1] = t
    PROVE  Descriptor(i, t) \in TagsToVerify(c, m)
<1> DEFINE slot == SentSlot(c, i)
<1> DEFINE tag == Descriptor(i, t)
<1>1. /\ HasExpectedSlot(c.maclt, m.epoch, i) /\ ExpectedSlot(c.maclt, m.epoch, i) = slot
      /\ slot \in Slots /\ (i = 0 => slot = S00)
  BY PlacesOfTags
<1>2. /\ t.prnd \in Satellites /\ t.adkd \in InUse
      /\ slot.target # "Flexible" => t.adkd = slot.adkd
      /\ slot.target = "Self" => t.prnd = prn
      /\ slot.target = "External" => t.prnd # prn
  BY DEF SentFor
<1>3. m.prn = prn /\ prn \in Satellites
  BY DEF Arrived
<1>4. ValidInfo(t) /\ IsGalileoPrn(t.prnd) /\ IsGalileoPrn(prn)
  BY <1>2, <1>3, SatellitesAreGalileo DEF ValidInfo, InUse
<1>5. CASE i = 0
  <2>1. t.adkd = "InavCed" /\ t.prnd = m.prn
    BY <1>1, <1>2, <1>3, <1>5 DEF S00, Slot
  <2>2. m.tags[1] = t
    BY <1>5
  <2>3. tag = Tag0(m)
    BY <1>5, <2>1, <2>2 DEF Tag0, Descriptor
  <2> QED
    BY <2>3 DEF TagsToVerify
<1>6. CASE i # 0
  <2> DEFINE raw == RawTag(m, i)
  <2>1. raw = tag
    BY <1>4 DEF RawTag, Descriptor
  <2>2. /\ tag.index = i /\ tag.prnd = t.prnd /\ tag.adkd = t.adkd /\ tag.valid_info
        /\ DOMAIN tag = {"index", "prnd", "adkd", "cop", "valid_info", "mac"}
        /\ tag = [index |-> tag.index, prnd |-> tag.prnd, adkd |-> tag.adkd, cop |-> tag.cop,
                  valid_info |-> tag.valid_info, mac |-> tag.mac]
    BY DEF Descriptor
  <2> HIDE DEF slot, tag, raw
  <2>3. slot.target = "Self" \/ slot.target = "External" \/ slot.target = "Flexible"
    BY <1>1 DEF Slots, S00, E00, S04, S12, E12, FLX, Slot
  <2>7. ASSUME IsUsable(c, m, tag) PROVE EffectiveTag(c, m, tag) \in TagsToVerify(c, m)
    <3>1. i \in {j \in ParsedTags(c) \ {0} : IsUsable(c, m, RawTag(m, j))}
      BY <1>6, <2>1, <2>7 DEF raw
    <3>2. EffectiveTag(c, m, RawTag(m, i)) \in TagsToVerify(c, m)
      BY <3>1 DEF TagsToVerify
    <3> QED
      BY <2>1, <3>2 DEF raw
  <2>4. CASE slot.target = "Flexible"
    <3>1. IsUsable(c, m, tag) /\ EffectiveTag(c, m, tag) = tag
      BY <1>1, <1>4, <2>2, <2>4 DEF IsUsable, EffectiveTag
    <3> QED
      BY <2>7, <3>1 DEF tag
  <2>5. CASE slot.target = "Self"
    <3>1. IsUsable(c, m, tag)
          /\ EffectiveTag(c, m, tag) = [tag EXCEPT !.adkd = slot.adkd, !.prnd = m.prn]
      BY <1>1, <1>3, <1>4, <2>2, <2>5 DEF IsUsable, EffectiveTag
    <3>2. slot.adkd = tag.adkd /\ m.prn = tag.prnd
      BY <1>2, <1>3, <2>2, <2>5
    <3>3. [tag EXCEPT !.adkd = slot.adkd, !.prnd = m.prn] = tag
      BY <2>2, <3>2
    <3> QED
      BY <2>7, <3>1, <3>3 DEF tag
  <2>6. CASE slot.target = "External"
    <3>1. IsUsable(c, m, tag) /\ EffectiveTag(c, m, tag) = [tag EXCEPT !.adkd = slot.adkd]
      BY <1>1, <1>2, <1>3, <1>4, <2>2, <2>6 DEF IsUsable, EffectiveTag
    <3>2. slot.adkd = tag.adkd
      BY <1>2, <2>2, <2>6
    <3>3. [tag EXCEPT !.adkd = slot.adkd] = tag
      BY <2>2, <3>2
    <3> QED
      BY <2>7, <3>1, <3>3 DEF tag
  <2> QED
    BY <2>3, <2>4, <2>5, <2>6 DEF tag
<1> QED
  BY <1>5, <1>6

LEMMA MacseqIsSent ==
    ASSUME GoodTime, NEW c, NEW prn, NEW m, Arrived(c, prn, m), NEW tags,
           DOMAIN tags = 1 .. (TagInfoCount(c.key_bits, c.tag_bits) + 1),
           m.macseq = SentMacseq(c, prn, tags),
           \A i \in DOMAIN tags : SentSlot(c, i - 1).target = "Flexible" =>
               /\ m.tags[i].prnd = tags[i].prnd /\ m.tags[i].adkd = tags[i].adkd
               /\ m.tags[i].cop = tags[i].cop
    PROVE  m.macseq = Mac(SecretKey("InavCed"), MacseqInput(c, m))
<1> DEFINE n == TagInfoCount(c.key_bits, c.tag_bits)
<1>1. n \in Nat /\ m.prn = prn /\ m.epoch = Now
  BY DEF Arrived
<1>2. ParsedTags(c) = 0 .. n
      /\ \A i \in ParsedTags(c) : /\ ExpectedSlot(c.maclt, m.epoch, i) = SentSlot(c, i)
                                  /\ i = 0 => SentSlot(c, i) = S00
  BY PlacesOfTags
<1>3. S00.target # "Flexible"
  BY DEF S00, Slot
<1>4. DOMAIN tags = 1 .. (n + 1)
  OBVIOUS
<1> DEFINE info(ts, i) == [index |-> i - 1, prnd |-> ts[i].prnd, adkd |-> ts[i].adkd,
                           cop |-> ts[i].cop]
<1> DEFINE flexible == {j \in DOMAIN tags : SentSlot(c, j - 1).target = "Flexible"}
<1> DEFINE received == {j \in ParsedTags(c) \ {0} :
                           IsFlexible(ExpectedSlot(c.maclt, m.epoch, j))}
<1> HIDE DEF n
<1>5. \A i \in received : i + 1 \in flexible /\ (i + 1) - 1 = i
  <2> SUFFICES ASSUME NEW i \in received PROVE i + 1 \in flexible /\ (i + 1) - 1 = i
    OBVIOUS
  <2>1. i \in 0 .. n /\ IsFlexible(SentSlot(c, i))
    BY <1>2
  <2>2. i + 1 \in 1 .. (n + 1) /\ (i + 1) - 1 = i
    BY <1>1, <2>1
  <2> QED
    BY <1>4, <2>1, <2>2 DEF IsFlexible
<1>6. \A j \in flexible : j - 1 \in received /\ (j - 1) + 1 = j
  <2> SUFFICES ASSUME NEW j \in flexible PROVE j - 1 \in received /\ (j - 1) + 1 = j
    OBVIOUS
  <2>1. j \in 1 .. (n + 1) /\ SentSlot(c, j - 1).target = "Flexible"
    BY <1>4
  <2>2. j - 1 \in 0 .. n /\ (j - 1) + 1 = j
    BY <1>1, <2>1
  <2>3. j - 1 # 0
    BY <1>2, <1>3, <2>1, <2>2
  <2> QED
    BY <1>2, <2>1, <2>2, <2>3 DEF IsFlexible
<1>7. \A j \in flexible : info(m.tags, j) = info(tags, j)
  OBVIOUS
<1>8. MacseqInput(c, m) = [prna |-> m.prn, gst |-> GstSf(m.epoch),
                           infos |-> {[index |-> i, prnd |-> m.tags[i + 1].prnd,
                                       adkd |-> m.tags[i + 1].adkd, cop |-> m.tags[i + 1].cop] :
                                      i \in received}]
  BY DEF MacseqInput
<1>9. SentMacseq(c, prn, tags)
        = Mac(SecretKey("InavCed"), [prna |-> prn, gst |-> SentGst,
                                     infos |-> {info(tags, j) : j \in flexible}])
  BY DEF SentMacseq
<1> HIDE DEF received, flexible
<1>10. {[index |-> i, prnd |-> m.tags[i + 1].prnd, adkd |-> m.tags[i + 1].adkd,
         cop |-> m.tags[i + 1].cop] : i \in received}
         = {info(tags, j) : j \in flexible}
  <2>1. \A i \in received :
           [index |-> i, prnd |-> m.tags[i + 1].prnd, adkd |-> m.tags[i + 1].adkd,
            cop |-> m.tags[i + 1].cop] = info(m.tags, i + 1)
    BY <1>5
  <2>2. {[index |-> i, prnd |-> m.tags[i + 1].prnd, adkd |-> m.tags[i + 1].adkd,
          cop |-> m.tags[i + 1].cop] : i \in received}
          = {info(m.tags, i + 1) : i \in received}
    BY <2>1
  <2> HIDE DEF info
  <2>3. {info(m.tags, i + 1) : i \in received} = {info(m.tags, j) : j \in flexible}
    BY <1>5, <1>6
  <2>4. {info(m.tags, j) : j \in flexible} = {info(tags, j) : j \in flexible}
    BY <1>7
  <2> QED
    BY <2>2, <2>3, <2>4
<1>11. GstSf(m.epoch) = SentGst
  BY <1>1, TimeIsSent
<1> QED
  BY <1>1, <1>8, <1>9, <1>10, <1>11

(* If any key of the subframe is known, MACSEQ is verified.                *)
LEMMA MacseqVerifies ==
    ASSUME GoodTime, NEW c, NEW prn, NEW m, Arrived(c, prn, m), MacIsComputable(c),
           m.macseq = Mac(SecretKey("InavCed"), MacseqInput(c, m)),
           NEW adkd, c.newest >= SecretKey(adkd)
    PROVE  MacseqStatus(c, m) = "Ok"
<1> DEFINE tag == Tag0(m)
<1>1. 0 \in ParsedTags(c) /\ \A i \in ParsedTags(c) : HasExpectedSlot(c.maclt, m.epoch, i)
  <2> DEFINE n == TagInfoCount(c.key_bits, c.tag_bits)
  <2>1. n \in Nat
    BY DEF Arrived
  <2>2. ParsedTags(c) = 0 .. n /\ \A i \in ParsedTags(c) : HasExpectedSlot(c.maclt, m.epoch, i)
    BY PlacesOfTags
  <2> HIDE DEF n
  <2> QED
    BY <2>1, <2>2
<1>2. /\ ExpectedSlot(c.maclt, m.epoch, 0) = S00 /\ HasExpectedSlot(c.maclt, m.epoch, 0)
  BY <1>1, PlacesOfTags
<1>3. /\ S00.target = "Self" /\ S00.adkd = "InavCed"
  BY DEF S00, Slot
<1>4. /\ tag.index = 0 /\ tag.prnd = m.prn /\ tag.adkd = "InavCed" /\ tag.valid_info
  BY DEF Tag0
<1> HIDE DEF tag
<1>5. m.prn = prn /\ prn \in 1 .. 255 /\ m.epoch = Now /\ c.newest \in Int
  BY SatellitesAreGalileo DEF Arrived, ChainRecords
<1>6. IsTagConsistent(c.maclt, m.epoch, m.prn, tag)
  BY <1>2, <1>3, <1>4, <1>5 DEF IsTagConsistent, IsTargetConsistent, IsFlexible
<1>7. NominalDelaySubframes(c.maclt, m.epoch, tag) = 1
  BY <1>2, <1>3, <1>4 DEF NominalDelaySubframes, IsFlexible
<1>8. /\ KeyIndex(m.epoch) \in Nat /\ SecretKey("InavCed") = KeyIndex(m.epoch) + 1
      /\ SecretKey("InavCed") <= c.newest
  <2> DEFINE d == DiffSeconds(Now, Root)
  <2>1. d \in Nat
    BY DEF GoodTime, KeyIsPast
  <2>2. KeyIndex(m.epoch) = d \div 30 /\ SecretKey("InavCed") = d \div 30 + 1
        /\ SecretKey(adkd) = d \div 30 + (IF adkd = "SlowMac" THEN 11 ELSE 1)
    BY <1>5 DEF KeyIndex, SecretKey, SubframeSeconds
  <2> HIDE DEF d
  <2>3. d \div 30 \in Nat
    BY <2>1, SMT
  <2> QED
    BY <1>5, <2>2, <2>3
<1>9. KeyIndexForTag(c, m, tag) = SecretKey("InavCed")
  BY <1>7, <1>8 DEF KeyIndexForTag
<1>10. HasKeyForTag(c, m, tag)
  BY <1>4, <1>6, <1>8, <1>9 DEF HasKeyForTag
<1>11. MacseqInputFits(c, m)
  BY <1>1 DEF MacseqInputFits
<1> QED
  BY <1>9, <1>10, <1>11 DEF MacseqStatus, tag

(* The receiver computes the MAC that was sent.                            *)
LEMMA IntactTagMatches ==
    ASSUME GoodTime, start \in Starts, issue \in Issues,
           NEW c, NEW prn, NEW m, Arrived(c, prn, m),
           NEW i \in ParsedTags(c),
           NEW t, SentFor(c, prn, i, t), m.tags[i + 1] = t, c.newest >= SecretKey(t.adkd),
           NEW data, <<t.prnd, NavKind(t.adkd)>> \in DOMAIN data,
           NEW candidate, candidate = data[<<t.prnd, NavKind(t.adkd)>>],
           candidate.found, candidate.age + 1 <= Cop,
           candidate.words = Transmitted[t.prnd][issue][start][NavKind(t.adkd)],
           NEW rest, c.tag_bits % 8 = 0 \/ rest = 0
    PROVE  Descriptor(i, t) \in MatchingTags(c, m, data, rest)
<1> DEFINE tag == Descriptor(i, t)
<1> DEFINE words == candidate.words
<1>1. /\ tag.index = i /\ tag.prnd = t.prnd /\ tag.adkd = t.adkd /\ tag.cop = t.cop
      /\ tag.valid_info /\ tag.mac = t.mac
  BY DEF Descriptor
<1>2. tag \in TagsToVerify(c, m)
  BY IntactTagIsUsed
<1>3. /\ t.prnd \in Satellites /\ t.cop = Cop
      /\ t.mac = Mac(SecretKey(t.adkd),
                     [prnd |-> IF i = 0 THEN 0 ELSE t.prnd, prna |-> prn, gst |-> SentGst,
                      ctr |-> i + 1, nmas |-> 1,
                      nav |-> UnderTag[t.prnd][issue][start][NavKind(t.adkd)]])
  BY DEF SentFor
<1>4. BuildNavData(words, t.adkd) = UnderTag[t.prnd][issue][start][NavKind(t.adkd)]
  BY <1>3, TransmittedIsUnderTag
<1>5. m.prn = prn /\ m.epoch = Now /\ m.nmas = 1
  BY DEF Arrived
<1>6. GstSf(m.epoch) = SentGst
  BY <1>5, TimeIsSent
<1> HIDE DEF tag
<1>7. KeyIndexForTag(c, m, tag) = SecretKey(t.adkd) /\ HasKeyForTag(c, m, tag)
  BY <1>1, KeyOfTag
<1>8. FindForAdkd(data, tag)
  BY <1>1, <1>3 DEF FindForAdkd
<1>9. Message(m, tag, words)
        = [prnd |-> IF i = 0 THEN 0 ELSE t.prnd, prna |-> prn, gst |-> SentGst,
           ctr |-> i + 1, nmas |-> 1,
           nav |-> UnderTag[t.prnd][issue][start][NavKind(t.adkd)]]
  BY <1>1, <1>4, <1>5, <1>6 DEF Message, Counter
<1>10. tag.mac = Mac(KeyIndexForTag(c, m, tag), Message(m, tag, words))
  BY <1>1, <1>3, <1>7, <1>9
<1>11. data[<<tag.prnd, NavKind(tag.adkd)>>].words = words
  BY <1>1
<1>12. tag \in MatchingTags(c, m, data, rest)
  BY <1>2, <1>7, <1>8, <1>10, <1>11 DEF MatchingTags, TagEquals
<1> QED
  BY <1>12 DEF tag

(* A MACK has one tag to verify at most at each place.                     *)
LEMMA TagsAreIndexed ==
    ASSUME GoodTime, NEW c, NEW prn, NEW m, Arrived(c, prn, m), NEW data, NEW rest
    PROVE  Indexed(MatchingTags(c, m, data, rest))
<1> DEFINE tags == MatchingTags(c, m, data, rest)
<1> DEFINE n == TagInfoCount(c.key_bits, c.tag_bits)
<1> DEFINE at(i) == IF i = 0 THEN Tag0(m) ELSE EffectiveTag(c, m, RawTag(m, i))
<1>1. n \in Nat /\ ParsedTags(c) = 0 .. n
  BY PlacesOfTags DEF Arrived
<1>2. ASSUME NEW i \in ParsedTags(c) \ {0}, IsUsable(c, m, RawTag(m, i))
      PROVE  EffectiveTag(c, m, RawTag(m, i)).index = i
  <2> DEFINE raw == RawTag(m, i)
  <2> DEFINE slot == SentSlot(c, i)
  <2>1. ExpectedSlot(c.maclt, m.epoch, i) = slot /\ slot \in Slots
    BY PlacesOfTags
  <2>2. /\ raw.index = i
        /\ DOMAIN raw = {"index", "prnd", "adkd", "cop", "valid_info", "mac"}
    BY DEF RawTag
  <2>3. EffectiveTag(c, m, raw)
          = CASE slot.target = "Flexible" -> raw
              [] slot.target = "Self" -> [raw EXCEPT !.adkd = slot.adkd, !.prnd = m.prn]
              [] slot.target = "External" -> [raw EXCEPT !.adkd = slot.adkd]
    BY <2>1, <2>2 DEF EffectiveTag
  <2> HIDE DEF raw, slot
  <2>4. slot.target = "Self" \/ slot.target = "External" \/ slot.target = "Flexible"
    BY <2>1 DEF Slots, S00, E00, S04, S12, E12, FLX, Slot
  <2>5. EffectiveTag(c, m, raw).index = i
    BY <2>2, <2>3, <2>4
  <2> QED
    BY <2>5 DEF raw
<1>3. ASSUME NEW t \in tags
      PROVE  t.index \in 0 .. n /\ t = at(t.index)
  <2>1. t \in TagsToVerify(c, m)
    BY DEF MatchingTags
  <2>2. CASE t = Tag0(m)
    <3>1. Tag0(m).index = 0
      BY DEF Tag0
    <3> HIDE DEF n
    <3> QED
      BY <1>1, <2>2, <3>1
  <2>3. ASSUME NEW i \in ParsedTags(c) \ {0}, IsUsable(c, m, RawTag(m, i)),
               t = EffectiveTag(c, m, RawTag(m, i))
        PROVE  t.index \in 0 .. n /\ t = at(t.index)
    <3>1. t.index = i
      BY <1>2, <2>3
    <3> HIDE DEF n
    <3> QED
      BY <1>1, <2>3, <3>1
  <2> HIDE DEF n, at
  <2> QED
    BY <2>1, <2>2, <2>3 DEF TagsToVerify
<1> HIDE DEF n, at, tags
<1>4. \A t, u \in tags : t.index = u.index => t = u
  BY <1>3
<1>5. IsFiniteSet(tags)
  <2> DEFINE f == [t \in tags |-> t.index]
  <2>1. f \in [tags -> 0 .. n]
    BY <1>3
  <2>2. \A t, u \in tags : f[t] = f[u] => t = u
    BY <1>4
  <2> HIDE DEF f
  <2>3. f \in Injection(tags, 0 .. n)
    BY <2>1, <2>2 DEF Injection, IsInjective
  <2>4. IsFiniteSet(0 .. n)
    BY <1>1, FS_Interval
  <2> QED
    BY <2>3, <2>4, FS_Injection
<1>6. \A t \in tags : t.index \in Int
  BY <1>1, <1>3
<1> QED
  BY <1>4, <1>5, <1>6 DEF Indexed, tags

LEMMA SameHead ==
    ASSUME NEW m, NEW o, DOMAIN o = MackFields,
           [m EXCEPT !.tags = <<>>] = [o EXCEPT !.tags = <<>>]
    PROVE  m.prn = o.prn /\ m.epoch = o.epoch /\ m.nmas = o.nmas /\ m.macseq = o.macseq
<1>1. DOMAIN m = MackFields
  <2>1. DOMAIN [m EXCEPT !.tags = <<>>] = DOMAIN m /\ DOMAIN [o EXCEPT !.tags = <<>>] = DOMAIN o
    OBVIOUS
  <2> QED
    BY <2>1
<1>2. \A f \in MackFields \ {"tags"} : m[f] = o[f]
  <2> SUFFICES ASSUME NEW f \in MackFields \ {"tags"} PROVE m[f] = o[f]
    OBVIOUS
  <2>1. [m EXCEPT !.tags = <<>>][f] = m[f] /\ [o EXCEPT !.tags = <<>>][f] = o[f]
    BY <1>1
  <2> QED
    BY <2>1
<1> QED
  BY <1>2 DEF MackFields

LEMMA SameInfo ==
    ASSUME NEW x, NEW y, DOMAIN y = TagFields, [x EXCEPT !.mac = Junk] = [y EXCEPT !.mac = Junk]
    PROVE  x.prnd = y.prnd /\ x.adkd = y.adkd /\ x.cop = y.cop
<1>1. DOMAIN x = TagFields
  <2>1. DOMAIN [x EXCEPT !.mac = Junk] = DOMAIN x /\ DOMAIN [y EXCEPT !.mac = Junk] = DOMAIN y
    OBVIOUS
  <2> QED
    BY <2>1
<1>2. \A f \in TagFields \ {"mac"} : x[f] = y[f]
  <2> SUFFICES ASSUME NEW f \in TagFields \ {"mac"} PROVE x[f] = y[f]
    OBVIOUS
  <2>1. [x EXCEPT !.mac = Junk][f] = x[f] /\ [y EXCEPT !.mac = Junk][f] = y[f]
    BY <1>1
  <2> QED
    BY <2>1
<1> QED
  BY <1>2 DEF TagFields

(* Whatever else became of the MACK: a tag that arrives intact, with its   *)
(* MACSEQ, while its key is known and its data is there and young enough,  *)
(* is reported, or as many before it as a result can hold                  *)
(* (OsnmaMacVerifier::Verify, AddSuccess).                                 *)
THEOREM IntactTagIsReported ==
    ASSUME GoodTime, start \in Starts, issue \in Issues, NEW c, NEW prn, NEW m,
           Arrived(c, prn, m), MacIsComputable(c),
           m.macseq = Mac(SecretKey("InavCed"), MacseqInput(c, m)),
           NEW i \in ParsedTags(c),
           NEW t, SentFor(c, prn, i, t), m.tags[i + 1] = t, c.newest >= SecretKey(t.adkd),
           NEW data, <<t.prnd, NavKind(t.adkd)>> \in DOMAIN data,
           NEW candidate, candidate = data[<<t.prnd, NavKind(t.adkd)>>],
           candidate.found, candidate.age + 1 <= Cop,
           candidate.words = Transmitted[t.prnd][issue][start][NavKind(t.adkd)],
           NEW rest, c.tag_bits % 8 = 0 \/ rest = 0
    PROVE  LET successes == Verify(c, m, data, rest).successes
           IN  \/ \E s \in successes : s.index = i
               \/ /\ Cardinality(successes) = MaxSuccess
                  /\ \A s \in successes : s.index < i
<1> DEFINE tags == MatchingTags(c, m, data, rest)
<1> DEFINE successes == FirstSuccesses(m, data, tags)
<1>1. Descriptor(i, t) \in tags /\ Descriptor(i, t).index = i
  BY IntactTagMatches DEF Descriptor
<1>2. Indexed(tags)
  BY TagsAreIndexed
<1>3. MacseqStatus(c, m) = "Ok" /\ ValidLayout(c)
  BY MacseqVerifies, PlacesOfTags
<1> HIDE DEF tags
<1>4. \/ \E s \in successes : s.index = i
      \/ Cardinality(successes) = MaxSuccess /\ \A s \in successes : s.index < i
  BY <1>1, <1>2, MatchIsReported
<1>5. tags # {}
  BY <1>1
<1> HIDE DEF successes
<1>6. Verify(c, m, data, rest) = Outcome("Yes", "None", successes)
  BY <1>3, <1>5 DEF Verify, tags, successes
<1>7. Verify(c, m, data, rest).successes = successes
  BY <1>6 DEF Outcome
<1> QED
  BY <1>4, <1>7

-----------------------------------------------------------------------------
LEMMA TimeIsGood ==
    ASSUME TagInv
    PROVE  GoodTime
<1> DEFINE v == start.wn
<1> DEFINE x == start.tow
<1> DEFINE d == SubframeSeconds * step
<1> DEFINE w == Now.wn
<1> DEFINE t == Now.tow
<1> DEFINE rw == Root.wn
<1> DEFINE rt == Root.tow
<1>1. /\ v \in Int /\ x \in Int /\ v > 100 /\ x >= 0 /\ DiffSeconds(start, Root) >= 0
  BY StartsAssumption, SMT DEF TagInv
<1>2. d \in {0, 30}
  BY SMT DEF TagInv, SubframeSeconds
<1>3. IsTime(Now) /\ GoodNow
  BY NowIsGood
<1>4. w \in Int /\ t \in Int /\ t >= 0 /\ t < 604800
  BY <1>3, SMT DEF IsTime
<1>5. Second(Now) = Second(start) + d
  <2>1. d \in Int /\ Now = AddSeconds(start, d)
    BY <1>2, SMT DEF Now
  <2> HIDE DEF d
  <2> QED
    BY <1>1, <2>1, SecondsAdded, SMT
<1>6. w * 604800 + t = v * 604800 + x + d
  BY <1>5, SMT DEF Second
<1>7. rw \in Int /\ rt \in Int
  BY NumbersAssumption
<1>8. /\ DiffSeconds(start, Root) = (v - rw) * 604800 + (x - rt)
      /\ DiffSeconds(Now, Root) = (w - rw) * 604800 + (t - rt)
  BY SMT DEF DiffSeconds, WeekSeconds
<1> DEFINE a == DiffSeconds(start, Root)
<1> DEFINE b == DiffSeconds(Now, Root)
<1>9. a = (v - rw) * 604800 + (x - rt) /\ b = (w - rw) * 604800 + (t - rt) /\ a >= 0
  BY <1>1, <1>8
<1> HIDE DEF v, x, d, w, t, rw, rt, a, b
<1>10. b \in Int /\ b >= 0
  BY <1>1, <1>2, <1>4, <1>6, <1>7, <1>9, SMT
<1>11. w >= 0
  BY <1>1, <1>2, <1>4, <1>6, SMT
<1> QED
  BY <1>3, <1>10, <1>11 DEF GoodTime, KeyIsPast, b, w

LEMMA IntactTagsAreReported == TagInv => IntactTagsVerify
<1> DEFINE data(t) == store[<<t.prnd, NavKind(t.adkd)>>]
<1> SUFFICES ASSUME TagInv, result # NoResult, Supported, SameMack, NEW i \in DOMAIN sent.tags,
                    mack.tags[i] = sent.tags[i],
                    chain.newest >= SecretKey(sent.tags[i].adkd),
                    data(sent.tags[i]).found, data(sent.tags[i]).age < Cop,
                    data(sent.tags[i]).words
                      = Transmitted[sent.tags[i].prnd][issue][start][NavKind(sent.tags[i].adkd)]
             PROVE  \/ \E s \in result.successes : s.index = i - 1
                    \/ /\ Cardinality(result.successes) = MaxSuccess
                       /\ \A s \in result.successes : s.index < i - 1
  BY DEF IntactTagsVerify
<1> DEFINE t == sent.tags[i]
<1> DEFINE n == TagInfoCount(chain.key_bits, chain.tag_bits)
<1>1. /\ ComesFrom(chain, mack, sent) /\ result = Verify(chain, mack, store, surplus)
      /\ chain \in ChainRecords /\ start \in Starts /\ issue \in Issues /\ GoodData(store)
  BY DEF TagInv
<1>2. PICK prn \in Satellites : \E other \in Satellites \ {prn}, flx \in FlexibleTag :
         sent = SentMack(chain, prn, other, flx)
  BY <1>1 DEF ComesFrom
<1>3. PICK other \in Satellites \ {prn}, flx \in FlexibleTag :
         sent = SentMack(chain, prn, other, flx)
  BY <1>2
<1>4. /\ sent.prn = prn /\ sent.epoch = Now /\ sent.nmas = 1
      /\ sent.macseq = SentMacseq(chain, prn, sent.tags)
      /\ DOMAIN sent.tags = 1 .. (n + 1) /\ n \in Int
      /\ \A j \in DOMAIN sent.tags : sent.tags[j] = SentTag(chain, prn, other, flx, j - 1)
  BY <1>1, <1>3, TagsSent
<1>5. DOMAIN sent = MackFields
  BY <1>3 DEF SentMack, MackFields
<1>6. /\ mack.prn = prn /\ mack.epoch = Now /\ mack.nmas = 1
      /\ mack.macseq = SentMacseq(chain, prn, sent.tags)
  BY <1>4, <1>5, SameHead DEF SameMack
<1>7. GoodTime
  BY TimeIsGood
<1> HIDE DEF n
<1>8. i \in 1 .. (n + 1) /\ n \in Nat /\ i - 1 \in 0 .. n /\ (i - 1) + 1 = i
  BY <1>4
<1>9. Arrived(chain, prn, mack)
  BY <1>1, <1>6, <1>8 DEF Arrived, Supported, n
<1>10. ParsedTags(chain) = 0 .. n
       /\ \A j \in ParsedTags(chain) : SentSlot(chain, j) \in Slots
  BY <1>7, <1>9, PlacesOfTags DEF n
<1>11. mack.macseq = Mac(SecretKey("InavCed"), MacseqInput(chain, mack))
  <2>1. ASSUME NEW j \in DOMAIN sent.tags, SentSlot(chain, j - 1).target = "Flexible"
        PROVE  /\ mack.tags[j].prnd = sent.tags[j].prnd /\ mack.tags[j].adkd = sent.tags[j].adkd
               /\ mack.tags[j].cop = sent.tags[j].cop
    <3>1. [mack.tags[j] EXCEPT !.mac = Junk] = [sent.tags[j] EXCEPT !.mac = Junk]
      BY <2>1 DEF SameMack
    <3>2. DOMAIN sent.tags[j] = TagFields
      <4>1. DOMAIN SentTag(chain, prn, other, flx, j - 1) = TagFields
        BY DEF SentTag, TagFields
      <4> QED
        BY <1>4, <4>1
    <3> QED
      BY <3>1, <3>2, SameInfo
  <2>2. DOMAIN sent.tags = 1 .. (TagInfoCount(chain.key_bits, chain.tag_bits) + 1)
    BY <1>4 DEF n
  <2> QED
    BY <1>6, <1>7, <1>9, <2>1, <2>2, MacseqIsSent
<1>12. SentFor(chain, prn, i - 1, t) /\ i - 1 \in ParsedTags(chain)
  <2>1. i - 1 \in ParsedTags(chain) /\ i - 1 \in Nat
    BY <1>8, <1>10
  <2>2. SentSlot(chain, i - 1) \in Slots
    BY <1>10, <2>1
  <2>3. t = SentTag(chain, prn, other, flx, i - 1)
    BY <1>4
  <2> HIDE DEF t
  <2> QED
    BY <2>1, <2>2, <2>3, TagIsSentFor
<1>13. (chain.tag_bits % 8 = 0 \/ surplus = 0) /\ MacIsComputable(chain)
  BY DEF Supported, MacIsComputable
<1> DEFINE candidate == data(t)
<1>14. /\ mack.tags[(i - 1) + 1] = t /\ chain.newest >= SecretKey(t.adkd)
       /\ candidate = store[<<t.prnd, NavKind(t.adkd)>>]
       /\ candidate.found /\ candidate.age < Cop
       /\ candidate.words = Transmitted[t.prnd][issue][start][NavKind(t.adkd)]
  BY <1>8
<1> HIDE DEF t, candidate
<1>15. <<t.prnd, NavKind(t.adkd)>> \in DOMAIN store
  <2>1. t.prnd \in Satellites
    BY <1>12 DEF SentFor
  <2>2. NavKind(t.adkd) \in Kinds
    BY DEF NavKind, Kinds
  <2> QED
    BY <1>1, <2>1, <2>2 DEF GoodData
<1>16. candidate.age + 1 <= Cop
  <2>1. candidate.age \in Int
    BY <1>1, <1>14, <1>15 DEF GoodData
  <2> QED
    BY <1>14, <2>1, NumbersAssumption
<1> DEFINE k == i - 1
<1>17. k \in ParsedTags(chain) /\ SentFor(chain, prn, k, t) /\ mack.tags[k + 1] = t
  BY <1>12, <1>14
<1> HIDE DEF k
<1> DEFINE successes == Verify(chain, mack, store, surplus).successes
<1>18. \/ \E s \in successes : s.index = k
       \/ Cardinality(successes) = MaxSuccess /\ \A s \in successes : s.index < k
  BY <1>1, <1>7, <1>9, <1>11, <1>13, <1>14, <1>15, <1>16, <1>17, IntactTagIsReported
<1>19. successes = result.successes
  BY <1>1
<1> HIDE DEF successes
<1> QED
  BY <1>18, <1>19 DEF k

(* A tag that arrives intact, in a MACK whose MACSEQ covers it intact, is  *)
(* verified as soon as its key is known and its data is there, for every   *)
(* chain the code supports, start and set of satellites, whatever becomes  *)
(* of the other tags and the other data.                                   *)
THEOREM IntactTagsAreVerified == Spec => []IntactTagsVerify
<1>1. Init => TagInv
  BY TagInvInit
<1>2. TagInv /\ [Next]_vars => TagInv'
  BY TagInvNext
<1>3. TagInv => IntactTagsVerify
  BY IntactTagsAreReported
<1> QED
  BY <1>1, <1>2, <1>3, PTL DEF Spec
=============================================================================
