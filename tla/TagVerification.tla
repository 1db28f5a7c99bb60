-------------------------- MODULE TagVerification --------------------------
(***************************************************************************)
(* The path of navigation data from a satellite to the rows of the output  *)
(* files: satellites transmit words and, a subframe later, tags over them; *)
(* the receiver holds words of some age, verifies the MACK and decodes     *)
(* what it authenticates.  Any part may reach the receiver altered.  The   *)
(* sender follows the Galileo signal definition, not the code.             *)
(***************************************************************************)
EXTENDS MackVerifier

CONSTANTS
    Satellites,     \* their PRNs
    Chains,         \* chain parameters, no key known yet (newest = -1)
    Starts,         \* time of the first subframe with a MACK
    WideChains,     \* chains for which every bit of the words is tried
    Cop             \* the COP of every tag

ASSUME SatellitesAssumption == Satellites \subseteq 1 .. 36
ASSUME ChainsAssumption ==
    Chains \subseteq [maclt : Nat, key_bits : Nat, tag_bits : Nat,
                     mac_function : {"HmacSha256", "CmacAes", "Reserved"}, newest : {-1}]
(* Subframes begin at half minutes, after the chain; what is said dates    *)
(* back 100 weeks.                                                         *)
ASSUME StartsAssumption ==
    \A s \in Starts :
        /\ s = Time(s.wn, s.tow) /\ s.wn \in Nat /\ s.wn > 100
        /\ s.tow \in Nat /\ s.tow < WeekSeconds /\ s.tow % 30 = 0
        /\ DiffSeconds(s, Root) >= 0
ASSUME NumbersAssumption ==
    /\ Root = Time(Root.wn, Root.tow) /\ Root.wn \in Nat /\ Root.tow \in Nat
    /\ Cop \in Nat /\ MaxSuccess \in Nat

VARIABLES
    chain, mack, store,    \* what Verify is given
    surplus,               \* bits of the computed MACs behind a short tag
    result,                \* what Verify returned
    start, step,           \* the MACK's subframe: step subframes after start
    issue,                 \* issue of the data transmitted in the subframe before
    sent,                  \* the MACK as transmitted
    own                    \* the sender of the MACK of the subframe before, if
                           \* any, and which ADKDs of its own data it verified

vars == <<chain, mack, store, surplus, result, start, step, issue, sent, own>>

Issues == 1 .. 2
Kinds == {"ced", "timing"}
NoMack == [prn |-> 0]
NoOwn == [prn |-> 0, adkds |-> {}]
NoResult == [state |-> "None", reason |-> "None", successes |-> {}]
Now == AddSeconds(start, SubframeSeconds * step)

-----------------------------------------------------------------------------
(***************************************************************************)
(* The signal: the fields of a word in their order, and their sizes.       *)
(***************************************************************************)
Signal == [wt \in CedWords \cup TimingWords |->
    CASE wt = 1 -> <<"type", "iodnav", "toe", "m_0", "eccentricity", "sqrt_a">>
      [] wt = 2 -> <<"type", "iodnav", "omega_0", "i_0", "omega", "i_dot">>
      [] wt = 3 -> <<"type", "iodnav", "omega_dot", "delta_n", "c_uc", "c_us", "c_rc", "c_rs",
                     "sisa">>
      [] wt = 4 -> <<"type", "iodnav", "svid", "c_ic", "c_is", "toc", "af0", "af1", "af2">>
      [] wt = 5 -> <<"type", "ai0", "ai1", "ai2", "storm", "bgd_e5a_e1", "bgd_e5b_e1", "e5b_shs",
                     "e1b_shs", "e5b_dvs", "e1b_dvs">>
      [] wt = 6 -> <<"type", "a0", "a1", "dt_ls", "t0", "wn0", "wn_lsf", "dn", "dt_lsf">>
      [] wt = 10 -> <<"almanac", "a0g", "a1g", "t0g", "wn0g">>]
SizeOf == [
    type |-> 6, iodnav |-> 10, toe |-> 14, m_0 |-> 32, eccentricity |-> 32, sqrt_a |-> 32,
    omega_0 |-> 32, i_0 |-> 32, omega |-> 32, i_dot |-> 14,
    omega_dot |-> 24, delta_n |-> 16, c_uc |-> 16, c_us |-> 16, c_rc |-> 16, c_rs |-> 16,
    sisa |-> 8, svid |-> 6, c_ic |-> 16, c_is |-> 16, toc |-> 14, af0 |-> 31, af1 |-> 21, af2 |-> 6,
    ai0 |-> 11, ai1 |-> 11, ai2 |-> 14, storm |-> 5, bgd_e5a_e1 |-> 10, bgd_e5b_e1 |-> 10,
    e5b_shs |-> 2, e1b_shs |-> 2, e5b_dvs |-> 1, e1b_dvs |-> 1,
    a0 |-> 32, a1 |-> 24, dt_ls |-> 8, t0 |-> 8, wn0 |-> 8, wn_lsf |-> 8, dn |-> 3, dt_lsf |-> 8,
    almanac |-> 86, a0g |-> 16, a1g |-> 12, t0g |-> 8, wn0g |-> 6]
Names == DOMAIN SizeOf
WordsOf(kind) == IF kind = "ced" THEN CedWords ELSE TimingWords

FirstBit(wt, i) ==
    LET first[n \in DOMAIN Signal[wt]] ==
            IF n = 1 THEN 0 ELSE first[n - 1] + SizeOf[Signal[wt][n - 1]]
    IN  first[i]
Encode(number, size) ==
    LET rest[k \in 0 .. (size - 1)] == IF k = 0 THEN number ELSE rest[k - 1] \div 2
    IN  {o \in 0 .. (size - 1) : rest[size - 1 - o] % 2 = 1}

(* What a satellite has to say in the behaviours that begin at s: times,   *)
(* and in every other field at most one bit.  All ones say that the offset *)
(* to GPS time is not available.                                           *)
Toe(s, n) == AddSeconds(s, (IF n = 1 THEN -600 ELSE 3600) - (s.tow % 60))
Toc(s, n) == AddSeconds(Toe(s, n), -60)
UtcReference(s, n) == Time(s.wn + (IF n = 1 THEN -100 ELSE 100), 37 * 3600)
GgtoReference(s, n) == Time(s.wn + (IF n = 1 THEN 30 ELSE -30), 12 * 3600)
GgtoNames == {"a0g", "a1g", "t0g", "wn0g"}
HasGgto(prn, n) == prn # 36 \/ n # 2

Value(prn, n, s, name) ==
    CASE name \in GgtoNames /\ ~HasGgto(prn, n) -> 0 .. (SizeOf[name] - 1)
      [] name = "toe" -> Encode(Toe(s, n).tow \div 60, 14)
      [] name = "toc" -> Encode(Toc(s, n).tow \div 60, 14)
      [] name = "svid" -> Encode(prn, 6)
      [] name = "iodnav" -> Encode(100 + 7 * n, 10)
      [] name = "t0" -> Encode(UtcReference(s, n).tow \div 3600, 8)
      [] name = "wn0" -> Encode(UtcReference(s, n).wn % 256, 8)
      [] name = "t0g" /\ HasGgto(prn, n) -> Encode(GgtoReference(s, n).tow \div 3600, 8)
      [] name = "wn0g" /\ HasGgto(prn, n) -> Encode(GgtoReference(s, n).wn % 64, 6)
      [] OTHER -> {(prn + 2 * n) % (SizeOf[name] + 1)} \cap 0 .. (SizeOf[name] - 1)

(* Tables of what is said, the words that say it, and of them the bits     *)
(* under tags: all but types, almanac and what follows the last field.     *)
Said == [prn \in Satellites |-> [n \in Issues |-> [s \in Starts |->
            [name \in Names |-> Value(prn, n, s, name)]]]]
WordOf(values, wt, names) ==
    UNION {{FirstBit(wt, i) + o : o \in values[Signal[wt][i]]} :
            i \in {j \in DOMAIN Signal[wt] : Signal[wt][j] \in names}}
Transmitted == [prn \in Satellites |-> [n \in Issues |-> [s \in Starts |-> [kind \in Kinds |->
    [wt \in WordsOf(kind) |-> WordOf(Said[prn][n][s], wt, Names)]]]]]
UnderTag == [prn \in Satellites |-> [n \in Issues |-> [s \in Starts |-> [kind \in Kinds |->
    UNION {{<<wt, b>> : b \in WordOf(Said[prn][n][s], wt, Names \ {"type", "almanac"})} :
            wt \in WordsOf(kind)}]]]]

(* The rows that say the same.                                             *)
TrueRows(prn, n, s, kind) ==
    LET v == Said[prn][n][s]
        Only(layout) == [f \in DOMAIN layout |-> v[f]]
        health == v["e1b_dvs"] \cup {2 - o : o \in v["e1b_shs"]}
                    \cup {6 + o : o \in v["e5b_dvs"]} \cup {8 - o : o \in v["e5b_shs"]}
    IN  [r \in (IF kind = "ced" THEN {"eph", "iono"}
                ELSE {"utc"} \cup IF HasGgto(prn, n) THEN {"ggto"} ELSE {}) |->
            CASE r = "eph" -> [prn |-> prn, fields |-> Only(EphLayout), sv_health |-> health,
                               toe |-> Toe(s, n), toc |-> Toc(s, n)]
              [] r = "iono" -> [prn |-> prn, fields |-> Only(IonoLayout),
                                storm_flags |-> {4 - o : o \in v["storm"]}]
              [] r = "utc" -> [prn |-> prn, fields |-> Only(UtcLayout),
                               reference |-> UtcReference(s, n)]
              [] r = "ggto" -> [prn |-> prn, fields |-> Only(GgtoLayout),
                                reference |-> GgtoReference(s, n)]]

-----------------------------------------------------------------------------
(***************************************************************************)
(* The sender.  prn transmits a MACK whose tags for other satellites all   *)
(* name other, and whose flexible tags all are for flx: prnd and adkd.     *)
(***************************************************************************)
SentSlot(c, i) ==
    IF c.maclt \in DOMAIN Maclt /\ i < Len(Maclt[c.maclt][1])
    THEN Maclt[c.maclt][1 + (IF Now.tow % 60 = 0 THEN 0 ELSE 1)][i + 1]
    ELSE Slot("Reserved", "Unknown")

SecretKey(adkd) == DiffSeconds(Now, Root) \div 30 + (IF adkd = "SlowMac" THEN 11 ELSE 1)
SentGst == <<Now.wn % 4096, Now.tow>>

SentTag(c, prn, other, flx, i) ==
    LET slot == SentSlot(c, i)
        adkd == IF slot.target = "Flexible" THEN flx.adkd ELSE slot.adkd
        prnd == CASE slot.target = "Flexible" -> flx.prnd
                  [] slot.target = "Self" -> prn
                  [] OTHER -> other
    IN  [prnd |-> prnd, adkd |-> adkd, cop |-> Cop,
         mac |-> IF adkd = "Reserved" THEN Junk
                 ELSE Mac(SecretKey(adkd),
                          [prnd |-> IF i = 0 THEN 0 ELSE prnd, prna |-> prn, gst |-> SentGst,
                           ctr |-> i + 1, nmas |-> 1,
                           nav |-> UnderTag[prnd][issue][start][NavKind(adkd)]])]

SentMacseq(c, prn, tags) ==
    Mac(SecretKey("InavCed"),
        [prna |-> prn, gst |-> SentGst,
         infos |-> {[index |-> i - 1, prnd |-> tags[i].prnd, adkd |-> tags[i].adkd,
                     cop |-> tags[i].cop] :
                    i \in {j \in DOMAIN tags : SentSlot(c, j - 1).target = "Flexible"}}])

SentMack(c, prn, other, flx) ==
    LET tags == [i \in 1 .. (TagInfoCount(c.key_bits, c.tag_bits) + 1) |->
                    SentTag(c, prn, other, flx, i - 1)]
    IN  [prn |-> prn, epoch |-> Now, nmas |-> 1, macseq |-> SentMacseq(c, prn, tags),
         tags |-> tags]

(***************************************************************************)
(* The channel: a MACK with one part altered, and navigation data not      *)
(* received in time, too old for COP, of another issue in whole or in one  *)
(* word, or with one bit altered.                                          *)
(***************************************************************************)
AlteredTags(tag) ==
    {[tag EXCEPT !.mac = Junk], [tag EXCEPT !.cop = 0]}
        \cup {[tag EXCEPT !.prnd = p] : p \in Satellites \cup {0, 37}}
        \cup {[tag EXCEPT !.adkd = a] : a \in {"InavCed", "InavTiming", "SlowMac", "Reserved"}}
Exchanged(tags, i) ==
    [tags EXCEPT ![i].mac = tags[i + 1].mac, ![i + 1].mac = tags[i].mac]
TagAltered(m) ==
    UNION {{[m EXCEPT !.tags[i] = t] : t \in AlteredTags(m.tags[i])} : i \in DOMAIN m.tags}
TagsExchanged(m) == {[m EXCEPT !.tags = Exchanged(m.tags, i)] : i \in 1 .. (Len(m.tags) - 1)}
HeadAltered(m) ==
    {[m EXCEPT !.macseq = Junk], [m EXCEPT !.nmas = 2]}
        \cup {[m EXCEPT !.prn = p] : p \in Satellites}
EpochAltered(m) == {[m EXCEPT !.epoch = AddSeconds(@, d)] : d \in {-60, -30, 30, WeekSeconds}}
AlteredMacks(m) == TagAltered(m) \cup TagsExchanged(m) \cup HeadAltered(m) \cup EpochAltered(m)

Genuine(prn, kind) ==
    [found |-> TRUE, words |-> Transmitted[prn][issue][start][kind], age |-> 0]
GenuineStore == [k \in Satellites \X Kinds |-> Genuine(k[1], k[2])]

NoKeys(c) == [c EXCEPT !.newest = -1]
OtherBits(words) ==
    {[words EXCEPT ![wt] = (@ \ {b}) \cup ({b} \ @)] : wt \in DOMAIN words, b \in 0 .. 127}
OtherWords(prn, kind) ==
    LET old == Transmitted[prn][3 - issue][start][kind]
        new == Transmitted[prn][issue][start][kind]
    IN  {old} \cup {[new EXCEPT ![wt] = old[wt]] : wt \in DOMAIN new}
AlteredCandidates(c, prn, kind) ==
    LET g == Genuine(prn, kind) IN
    {[g EXCEPT !.found = FALSE]} \cup {[g EXCEPT !.age = a] : a \in {Cop - 1, Cop}}
        \cup {[g EXCEPT !.words = w] : w \in OtherWords(prn, kind)
                    \cup (IF NoKeys(c) \in WideChains THEN OtherBits(g.words) ELSE {})}
AlteredStores(c) ==
    UNION {{[GenuineStore EXCEPT ![k] = a] : a \in AlteredCandidates(c, k[1], k[2])} :
            k \in DOMAIN GenuineStore}

-----------------------------------------------------------------------------
Init ==
    /\ start \in Starts /\ step = 0 /\ issue = 1 /\ own = NoOwn
    /\ chain \in Chains
    /\ sent = NoMack /\ mack = NoMack /\ store = <<>> /\ surplus = 0
    /\ result = NoResult

NewestKeys == {DiffSeconds(Now, Root) \div 30 + d : d \in {0, 1, 11}}

FlexibleTags(c) ==
    {f \in [prnd : Satellites, adkd : {"InavCed", "InavTiming", "SlowMac"}] :
        \/ \E i \in ParsedTags(c) : SentSlot(c, i).target = "Flexible"
        \/ f.adkd = "InavCed"}

(* A MACK of prn comes, intact or not, while the receiver knows some keys. *)
Receive(prn) ==
    /\ sent = NoMack
    /\ step = 1 => prn = own.prn
    /\ \E other \in Satellites \ {prn}, newest \in NewestKeys, flx \in FlexibleTags(chain) :
        /\ sent' = SentMack(chain, prn, other, flx)
        /\ chain' = [chain EXCEPT !.newest = newest]
        /\ \/ mack' = sent' /\ store' = GenuineStore
           \/ /\ step = 0 /\ newest >= SecretKey("SlowMac")
              /\ \/ mack' = sent' /\ store' \in AlteredStores(chain)
                 \/ mack' \in AlteredMacks(sent') /\ store' = GenuineStore
    /\ surplus' \in IF chain.tag_bits % 8 = 0 THEN {0} ELSE {0, 1}
    /\ UNCHANGED <<result, start, step, issue, own>>

VerifyMack ==
    /\ sent # NoMack /\ result = NoResult
    /\ result' = Verify(chain, mack, store, surplus)
    /\ UNCHANGED <<chain, mack, store, surplus, start, step, issue, sent, own>>

OwnAdkds == {s.adkd : s \in {t \in result.successes : t.prnd = sent.prn}}
Intact == mack = sent /\ store = GenuineStore

(* The next subframe, with the same data or the next issue.                *)
NextSubframe ==
    /\ result # NoResult /\ step = 0 /\ Intact /\ chain.newest >= SecretKey("SlowMac")
    /\ step' = 1
    /\ own' = [prn |-> sent.prn, adkds |-> OwnAdkds]
    /\ issue' \in Issues
    /\ sent' = NoMack /\ mack' = NoMack /\ store' = <<>> /\ result' = NoResult
    /\ UNCHANGED <<chain, surplus, start>>

(* Later, from the beginning.                                              *)
Again ==
    /\ result # NoResult
    /\ step' = 0 /\ issue' = 1 /\ own' = NoOwn /\ surplus' = 0
    /\ chain' = NoKeys(chain)
    /\ sent' = NoMack /\ mack' = NoMack /\ store' = <<>> /\ result' = NoResult
    /\ UNCHANGED start

Next == (\E prn \in Satellites : Receive(prn)) \/ VerifyMack \/ NextSubframe \/ Again
Spec == Init /\ [][Next]_vars

-----------------------------------------------------------------------------
(* The rows made of words, by what asks for them: a page just received     *)
(* (MakeReceivedPegasus...), or an authentication (PushCedStatus,          *)
(* PushTiming).                                                            *)
RowsPresent(prn, kind, words) ==
    IF kind = "ced" THEN {"iono"} \cup IF EphemerisValid(prn, words) THEN {"eph"} ELSE {}
    ELSE {"utc"} \cup IF GgtoNotAvailable(words) THEN {} ELSE {"ggto"}
Rows(prn, kind, words, reference, storm_flags) ==
    [r \in RowsPresent(prn, kind, words) |->
        CASE r = "eph" -> EphRow(prn, words, reference)
          [] r = "iono" -> IonoRow(prn, words, storm_flags)
          [] r = "utc" -> UtcRow(prn, words, reference)
          [] r = "ggto" -> GgtoRow(prn, words, reference)]

StormFlags(kind, words, Reading(_)) == IF kind = "ced" THEN Reading(words) ELSE {}
AuthenticatedRows(prn, kind, words, nav_time) ==
    Rows(prn, kind, words, nav_time, StormFlags(kind, words, AuthenticatedStormFlags))
ReceivedRows(prn, kind, words, page_time) ==
    Rows(prn, kind, words, page_time, StormFlags(kind, words, ReceivedStormFlags))

Fingerprints(kind, words) ==
    IF kind = "ced"
    THEN [eph |-> Bits(words, EphRanges), iono |-> Bits(words, IonoRanges)]
    ELSE [utc |-> Bits(words, UtcRanges), ggto |-> Bits(words, GgtoRanges)]

WithoutStormFlags(rows) ==
    IF "iono" \in DOMAIN rows THEN [rows EXCEPT !.iono.storm_flags = {}] ELSE rows
PageTime(candidate) == AddSeconds(Now, 18 - SubframeSeconds * (candidate.age + 1))

-----------------------------------------------------------------------------
(* What a verified tag reports is what was transmitted: the tag was sent   *)
(* in this subframe, by this satellite, for this satellite and ADKD, and   *)
(* every value of the rows made of the data (weeks resolved from their low *)
(* bits included, across week boundaries) is the one transmitted, whatever *)
(* was altered on the way.                                                 *)
ReportedIsTransmitted ==
    \A s \in result.successes :
        LET t == sent.tags[s.index + 1] IN
        /\ s.prna = sent.prn /\ s.prnd = t.prnd /\ s.adkd = t.adkd
        /\ s.nav_time = AddSeconds(Now, -30)
        /\ AuthenticatedRows(s.prnd, NavKind(s.adkd), s.words, s.nav_time)
             = TrueRows(s.prnd, issue, start, NavKind(s.adkd))

(* A tag that arrives intact, in a MACK whose MACSEQ covers it intact, is  *)
(* verified as soon as its key is known if its data is there and not older *)
(* than COP allows, whatever becomes of the other tags.  Only the last of  *)
(* more tags than a result can hold are lost (AddSuccess).                 *)
Supported ==
    /\ chain.maclt \in DOMAIN Maclt
    /\ TagInfoCount(chain.key_bits, chain.tag_bits) < Len(Maclt[chain.maclt][1])
    /\ chain.tag_bits % 8 = 0 \/ surplus = 0
    /\ \/ chain.mac_function = "HmacSha256"
       \/ chain.mac_function = "CmacAes" /\ chain.key_bits \in {128, 192, 256}
SameMack ==
    /\ [mack EXCEPT !.tags = <<>>] = [sent EXCEPT !.tags = <<>>]
    /\ \A i \in DOMAIN sent.tags :
        SentSlot(chain, i - 1).target = "Flexible" =>
            [mack.tags[i] EXCEPT !.mac = Junk] = [sent.tags[i] EXCEPT !.mac = Junk]
IntactTagsVerify ==
    result # NoResult /\ Supported /\ SameMack =>
        \A i \in DOMAIN sent.tags :
            LET t == sent.tags[i]
                candidate == store[<<t.prnd, NavKind(t.adkd)>>]
            IN  /\ mack.tags[i] = t
                /\ chain.newest >= SecretKey(t.adkd)
                /\ candidate.found /\ candidate.age < Cop
                /\ candidate.words = Transmitted[t.prnd][issue][start][NavKind(t.adkd)]
                => \/ \E s \in result.successes : s.index = i - 1
                   \/ /\ Cardinality(result.successes) = MaxSuccess
                      /\ \A s \in result.successes : s.index < i - 1

(* In any two successive subframes received intact, a satellite's tags     *)
(* authenticate its own CED with tags of both kinds and its own timing     *)
(* data: the tables alternate with the half minutes, across the week too.  *)
(* (A MACK with more tags than a result can hold loses the last of them.)  *)
OwnDataInTwoSubframes ==
    step = 1 /\ result # NoResult /\ Intact /\ Supported /\ chain.newest >= SecretKey("SlowMac")
        /\ Len(sent.tags) <= MaxSuccess
        => own.adkds \cup OwnAdkds = {"InavCed", "InavTiming", "SlowMac"}

(* Received and authenticated rows of the same data agree on every value   *)
(* but the storm flags, although they resolve weeks with different times,  *)
(* and data whose rows differ never has the same fingerprint: no change of *)
(* a value is taken for a repetition.                                      *)
NewsIsNoticed ==
    store # <<>> => \A k \in DOMAIN store :
        LET words == store[k].words
            rows == AuthenticatedRows(k[1], k[2], words, AddSeconds(Now, -30))
            before == AuthenticatedRows(k[1], k[2], Genuine(k[1], k[2]).words, AddSeconds(Now, -30))
        IN  /\ WithoutStormFlags(rows)
                 = WithoutStormFlags(ReceivedRows(k[1], k[2], words, PageTime(store[k])))
            /\ \A r \in DOMAIN rows \cap DOMAIN before : rows[r] # before[r] =>
                    Fingerprints(k[2], words)[r]
                        # Fingerprints(k[2], Genuine(k[1], k[2]).words)[r]

(* An authenticated row is a repetition of the row of the same data as it  *)
(* was received.                                                           *)
AuthenticatedRowRepeats ==
    \A s \in result.successes :
        LET kind == NavKind(s.adkd) IN
        AuthenticatedRows(s.prnd, kind, s.words, s.nav_time)
            = ReceivedRows(s.prnd, kind, s.words, PageTime(store[<<s.prnd, kind>>]))

=============================================================================
