---------------------------- MODULE MackVerifier ---------------------------
(***************************************************************************)
(* OsnmaMackProcessor and OsnmaMacVerifier: how a received MACK is cut and *)
(* verified, given the key chain and the navigation data.  A MAC is the    *)
(* key and the message it was made with.                                   *)
(*                                                                         *)
(* chain: maclt, the sizes key_bits and tag_bits, mac_function, and newest,*)
(*     the index of the newest key known (all keys up to it are).          *)
(* mack:  prn, epoch, nmas, macseq, and tags, the sequence of tags from    *)
(*     Tag0 on, as long as the sizes of the chain tell.  A tag is a record *)
(*     of prnd, adkd, cop and mac.                                         *)
(* store: by satellite and "ced" or "timing", the candidate of the         *)
(*     subframe before that of the MACK, found or not: words, and the age  *)
(*     of its oldest word in subframes.                                    *)
(***************************************************************************)
EXTENDS MacLookup, NavigationBits, FiniteSets

CONSTANTS
    Root,          \* time of key 0 of the chain
    MaxSuccess     \* MAX_SUCCESS_RECORDS

IsGalileoPrn(prn) == prn \in 1 .. 36
Junk == [key |-> -1]
MackBits == 480

(* ParseMack: Tag0, MACSEQ and COP, then tags with their info, the key and *)
(* padding.                                                                *)
TagInfoCount(key_bits, tag_bits) ==
    (MackBits - (tag_bits + 16) - key_bits) \div (tag_bits + 16)
ValidLayout(chain) == TagInfoCount(chain.key_bits, chain.tag_bits) \in 0 .. 15
ParsedTags(chain) == 0 .. TagInfoCount(chain.key_bits, chain.tag_bits)

ValidInfo(tag) == tag.prnd \in 1 .. 255 /\ tag.adkd # "Reserved"

-----------------------------------------------------------------------------
(* Tag descriptors: index, prnd, adkd, cop, valid_info and mac.            *)
Tag0(mack) ==
    [index |-> 0, prnd |-> mack.prn, adkd |-> "InavCed", cop |-> mack.tags[1].cop,
     valid_info |-> TRUE, mac |-> mack.tags[1].mac]
RawTag(mack, i) ==
    LET tag == mack.tags[i + 1] IN
    [index |-> i, prnd |-> tag.prnd, adkd |-> tag.adkd, cop |-> tag.cop,
     valid_info |-> ValidInfo(tag), mac |-> tag.mac]

(* MakeEffectiveMacltTag: what a tag is for, or that it is to be skipped.  *)
IsUsable(chain, mack, raw) ==
    /\ HasExpectedSlot(chain.maclt, mack.epoch, raw.index)
    /\ LET slot == ExpectedSlot(chain.maclt, mack.epoch, raw.index) IN
       CASE slot.target = "Flexible" -> raw.valid_info /\ IsGalileoPrn(raw.prnd)
         [] slot.target = "Self" -> IsGalileoPrn(mack.prn)
         [] slot.target = "External" -> IsGalileoPrn(raw.prnd) /\ raw.prnd # mack.prn
EffectiveTag(chain, mack, raw) ==
    LET slot == ExpectedSlot(chain.maclt, mack.epoch, raw.index) IN
    CASE slot.target = "Flexible" -> raw
      [] slot.target = "Self" -> [raw EXCEPT !.adkd = slot.adkd, !.prnd = mack.prn]
      [] slot.target = "External" -> [raw EXCEPT !.adkd = slot.adkd]

TagsToVerify(chain, mack) ==
    {Tag0(mack)} \cup
    {EffectiveTag(chain, mack, RawTag(mack, i)) :
        i \in {j \in ParsedTags(chain) \ {0} : IsUsable(chain, mack, RawTag(mack, j))}}

-----------------------------------------------------------------------------
(* GetKeyForTag, with ComputeKeyIndexForTag.                               *)
KeyIndex(gst) == DiffSeconds(gst, Root) \div SubframeSeconds
KeyIndexForTag(chain, mack, tag) ==
    KeyIndex(mack.epoch) + NominalDelaySubframes(chain.maclt, mack.epoch, tag)
HasKeyForTag(chain, mack, tag) ==
    /\ tag.valid_info
    /\ KeyIndex(mack.epoch) >= 0
    /\ IsTagConsistent(chain.maclt, mack.epoch, mack.prn, tag)
    /\ KeyIndexForTag(chain, mack, tag) <= chain.newest

(* FindForAdkd: COP 0 excludes any data.                                   *)
NavKind(adkd) == IF adkd = "InavTiming" THEN "timing" ELSE "ced"
FindForAdkd(store, tag) ==
    /\ <<tag.prnd, NavKind(tag.adkd)>> \in DOMAIN store
    /\ LET candidate == store[<<tag.prnd, NavKind(tag.adkd)>>] IN
       candidate.found /\ candidate.age + 1 <= tag.cop

(* BuildTag0Message and BuildTagMessage.  Tag0's has no PRND; a candidate  *)
(* is only found for COP > 0, so no message is ever one of a dummy tag.    *)
Counter(tag) == tag.index + 1
Message(mack, tag, words) ==
    [prnd |-> IF tag.index = 0 THEN 0 ELSE tag.prnd, prna |-> mack.prn,
     gst |-> GstSf(mack.epoch), ctr |-> Counter(tag), nmas |-> mack.nmas,
     nav |-> BuildNavData(words, tag.adkd)]

(* BuildMacseqInput: the infos of the tags whose slot is flexible.         *)
MacseqInputFits(chain, mack) ==
    \A i \in ParsedTags(chain) \ {0} : HasExpectedSlot(chain.maclt, mack.epoch, i)
NoInfos(chain, mack) == [prna |-> mack.prn, gst |-> GstSf(mack.epoch), infos |-> {}]
MacseqInput(chain, mack) ==
    [prna |-> mack.prn, gst |-> GstSf(mack.epoch),
     infos |-> {[index |-> i, prnd |-> mack.tags[i + 1].prnd,
                 adkd |-> mack.tags[i + 1].adkd, cop |-> mack.tags[i + 1].cop] :
                i \in {j \in ParsedTags(chain) \ {0} :
                        IsFlexible(ExpectedSlot(chain.maclt, mack.epoch, j))}}]

(* ComputeMac: CMAC works with AES keys only.                              *)
MacIsComputable(chain) ==
    \/ chain.mac_function = "HmacSha256"
    \/ chain.mac_function = "CmacAes" /\ chain.key_bits \in {128, 192, 256}
Mac(key, message) == [key |-> key, message |-> message]

(* ConstantTimeEqual compares whole bytes.  The last byte of the computed  *)
(* MAC is not cut to the size of the tag, that of the received tag is:     *)
(* they are equal only if the surplus bits happen to be zero (surplus).    *)
TagEquals(chain, received, computed, surplus) ==
    received = computed /\ (chain.tag_bits % 8 = 0 \/ surplus = 0)

MatchingTags(chain, mack, store, surplus) ==
    {tag \in TagsToVerify(chain, mack) :
        /\ FindForAdkd(store, tag)
        /\ HasKeyForTag(chain, mack, tag)
        /\ TagEquals(chain, tag.mac,
                Mac(KeyIndexForTag(chain, mack, tag),
                    Message(mack, tag, store[<<tag.prnd, NavKind(tag.adkd)>>].words)),
                surplus)}

(* AddSuccess.                                                             *)
Success(mack, store, tag) ==
    [prna |-> mack.prn, prnd |-> tag.prnd, adkd |-> tag.adkd, index |-> tag.index,
     nav_time |-> NavDataLookupTime(mack.epoch),
     words |-> store[<<tag.prnd, NavKind(tag.adkd)>>].words]
FirstSuccesses(mack, store, tags) ==
    {Success(mack, store, tag) :
        tag \in {t \in tags : Cardinality({u \in tags : u.index < t.index}) < MaxSuccess}}

-----------------------------------------------------------------------------
(* Verify: MACSEQ, then the tags, then why none of them matched.           *)
MacseqStatus(chain, mack) ==
    CASE ~HasKeyForTag(chain, mack, Tag0(mack)) -> "WaitingForKey"
      [] ~MacseqInputFits(chain, mack) -> "InvalidFrameFormat"
      [] ~MacIsComputable(chain) -> "UnsupportedMessage"
      [] mack.macseq # Mac(KeyIndexForTag(chain, mack, Tag0(mack)), MacseqInput(chain, mack))
            -> "MackVerificationFailed"
      [] OTHER -> "Ok"

Outcome(state, reason, successes) ==
    [state |-> state, reason |-> reason, successes |-> successes]
ReasonOfTags(chain, mack, store) ==
    LET found == {tag \in TagsToVerify(chain, mack) : FindForAdkd(store, tag)} IN
    IF found = {} THEN "MissingNavData"
    ELSE IF \A tag \in found : ~HasKeyForTag(chain, mack, tag) THEN "WaitingForKey"
    ELSE "MackVerificationFailed"

Verify(chain, mack, store, surplus) ==
    LET status == MacseqStatus(chain, mack)
        matching == MatchingTags(chain, mack, store, surplus)
    IN  IF ~ValidLayout(chain) THEN Outcome("Unknown", "InvalidFrameFormat", {})
        ELSE IF status # "Ok" THEN Outcome("Unknown", status, {})
        ELSE IF matching # {} THEN Outcome("Yes", "None", FirstSuccesses(mack, store, matching))
        ELSE Outcome("Unknown", ReasonOfTags(chain, mack, store), {})

=============================================================================
