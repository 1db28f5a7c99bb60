--------------------------- MODULE NavigationBits --------------------------
(***************************************************************************)
(* What OsnmaMacInputBuilder and GalileoInavDecoder read in the bits of an *)
(* I/NAV word.  A word is the set of the positions (0 .. 127) of its one   *)
(* bits; words maps word types to words.  A field is the set of the        *)
(* offsets of its one bits; scaling it to a physical value is left out,    *)
(* the weeks and times that must be resolved are numbers.                  *)
(***************************************************************************)
EXTENDS GalileoTime

CedWords == 1 .. 5
IodWords == 1 .. 4
TimingWords == {6, 10}

BitsFrom(first, count) == first .. (first + count - 1)

(***************************************************************************)
(* BuildNavData: the ranges of bits a MAC is made over.                    *)
(***************************************************************************)
ShortWt5 == {<<1, 6, 120>>, <<2, 6, 120>>, <<3, 6, 122>>, <<4, 6, 120>>, <<5, 6, 66>>}
CedRanges == {<<1, 6, 120>>, <<2, 6, 120>>, <<3, 6, 122>>, <<4, 6, 120>>, <<5, 6, 67>>}
TimingRanges == {<<6, 6, 99>>, <<10, 86, 42>>}

Bits(words, ranges) ==
    UNION {{<<r[1], b>> : b \in words[r[1]] \cap BitsFrom(r[2], r[3])} : r \in ranges}

BuildNavData(words, adkd) ==
    Bits(words, IF adkd = "InavTiming" THEN TimingRanges ELSE CedRanges)

(***************************************************************************)
(* The fields of the rows: word type, first bit, number of bits.           *)
(***************************************************************************)
EphLayout == [
    iodnav |-> <<1, 6, 10>>, m_0 |-> <<1, 30, 32>>, eccentricity |-> <<1, 62, 32>>,
    sqrt_a |-> <<1, 94, 32>>,
    omega_0 |-> <<2, 16, 32>>, i_0 |-> <<2, 48, 32>>, omega |-> <<2, 80, 32>>,
    i_dot |-> <<2, 112, 14>>,
    omega_dot |-> <<3, 16, 24>>, delta_n |-> <<3, 40, 16>>, c_uc |-> <<3, 56, 16>>,
    c_us |-> <<3, 72, 16>>, c_rc |-> <<3, 88, 16>>, c_rs |-> <<3, 104, 16>>,
    sisa |-> <<3, 120, 8>>,
    c_ic |-> <<4, 22, 16>>, c_is |-> <<4, 38, 16>>, af0 |-> <<4, 68, 31>>,
    af1 |-> <<4, 99, 21>>, af2 |-> <<4, 120, 6>>,
    bgd_e5a_e1 |-> <<5, 47, 10>>, bgd_e5b_e1 |-> <<5, 57, 10>>]
IonoLayout == [ai0 |-> <<5, 6, 11>>, ai1 |-> <<5, 17, 11>>, ai2 |-> <<5, 28, 14>>]
UtcLayout == [a0 |-> <<6, 6, 32>>, a1 |-> <<6, 38, 24>>]
GgtoLayout == [a0g |-> <<10, 86, 16>>, a1g |-> <<10, 102, 12>>]

Field(words, at) == {b - at[2] : b \in words[at[1]] \cap BitsFrom(at[2], at[3])}
Fields(words, layout) == [f \in DOMAIN layout |-> Field(words, layout[f])]

(* GetUnsignedBits64Msb0: bit after bit is shifted in.                     *)
Unsigned(field, bit_count) ==
    LET value[n \in 0 .. bit_count] ==
            IF n = 0 THEN 0 ELSE 2 * value[n - 1] + (IF n - 1 \in field THEN 1 ELSE 0)
    IN  value[bit_count]
Number(words, at) == Unsigned(Field(words, at), at[3])

Svid(words) == Number(words, <<4, 16, 6>>)
IodNav(words, wt) == Field(words, <<wt, 6, 10>>)
EphemerisValid(prn, words) ==
    /\ \A wt \in IodWords : IodNav(words, wt) = IodNav(words, 1)
    /\ Svid(words) = prn

(* PackRinexHealth: signal health and data validity in one bit field.      *)
HealthBits == <<8, 7, 2, 1, 6, 0>>
PackHealth(words) == {HealthBits[o + 1] : o \in Field(words, <<5, 67, 6>>)}

(* The two readings of the five storm flags: of a row just received and of *)
(* an authenticated one.                                                   *)
ReceivedStormFlags(words) == Field(words, <<5, 42, 5>>)
AuthenticatedStormFlags(words) == {4 - i : i \in Field(words, <<5, 42, 5>>)}

TimeInWeek(reference, tow) == Time(ResolveWeekForTow(reference, tow), tow)

(* The rows of a data set.  reference is the time weeks are resolved with: *)
(* when the data was received, or the subframe its tag authenticates.      *)
EphRow(prn, words, reference) ==
    [prn |-> prn, fields |-> Fields(words, EphLayout), sv_health |-> PackHealth(words),
     toe |-> TimeInWeek(reference, Number(words, <<1, 16, 14>>) * 60),
     toc |-> TimeInWeek(reference, Number(words, <<4, 54, 14>>) * 60)]

IonoRow(prn, words, storm_flags) ==
    [prn |-> prn, fields |-> Fields(words, IonoLayout), storm_flags |-> storm_flags]

UtcRow(prn, words, reference) ==
    [prn |-> prn, fields |-> Fields(words, UtcLayout),
     reference |-> Time(ResolveTruncatedWeek(reference.wn, Number(words, <<6, 78, 8>>), 256),
                        Number(words, <<6, 70, 8>>) * 3600)]

GgtoNotAvailable(words) == BitsFrom(86, 42) \subseteq words[10]
GgtoRow(prn, words, reference) ==
    [prn |-> prn, fields |-> Fields(words, GgtoLayout),
     reference |-> Time(ResolveTruncatedWeek(reference.wn, Number(words, <<10, 122, 6>>), 64),
                        Number(words, <<10, 114, 8>>) * 3600)]

(***************************************************************************)
(* The fingerprints that decide whether a row is news.                     *)
(***************************************************************************)
EphRangesWithoutDvs == {<<wt, 0, 128>> : wt \in IodWords} \cup {<<5, 47, 25>>}
EphRanges == {<<wt, 0, 128>> : wt \in IodWords} \cup {<<5, 47, 26>>}
IonoRanges == {<<5, 6, 41>>}
UtcRanges == {<<6, 6, 56>>, <<6, 70, 16>>}
GgtoRanges == {<<10, 86, 42>>}

=============================================================================
