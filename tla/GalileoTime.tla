---------------------------- MODULE GalileoTime ----------------------------
(***************************************************************************)
(* Galileo System Time and the arithmetic the code does on it: a time is a *)
(* week number and the second of the week (GnssTime), and the navigation   *)
(* message carries the low bits of a week number, or no week at all.       *)
(***************************************************************************)
EXTENDS Integers

WeekSeconds == 604800
HalfWeek == WeekSeconds \div 2
SubframeSeconds == 30

Time(wn, tow) == [wn |-> wn, tow |-> tow]

IsTimeValid(t) == t.wn >= 0 /\ t.tow >= 0 /\ t.tow < WeekSeconds

DiffSeconds(a, b) == (a.wn - b.wn) * WeekSeconds + (a.tow - b.tow)

(* AddSecondsNormalized: both loops over the weeks.                        *)
AddSeconds(t, s) ==
    Time(t.wn + (t.tow + s) \div WeekSeconds, (t.tow + s) % WeekSeconds)

(* Tags authenticate the data of the subframe before theirs.               *)
NavDataLookupTime(mack_time) == AddSeconds(mack_time, -SubframeSeconds)

(* GST_SF of a MAC input: 12 bits of week and 20 bits of second.           *)
GstSf(t) == <<t.wn % 4096, t.tow % (2 ^ 20)>>

(***************************************************************************)
(* The week meant by the low bits of a week number: in the same period (64 *)
(* weeks for 6 bits, 256 for 8) as the reference, or the next or previous  *)
(* one if nearer.                                                          *)
(***************************************************************************)
InPeriod(week, truncated, period) == (week - (week % period)) + (truncated % period)

ResolveTruncatedWeek(reference, truncated, period) ==
    LET candidate == InPeriod(reference, truncated, period)
    IN  IF reference < 0 THEN truncated
        ELSE IF candidate - reference > period \div 2 THEN candidate - period
        ELSE IF reference - candidate > period \div 2 THEN candidate + period
        ELSE candidate

(* The week of a second of the week given without one.                     *)
ResolveWeekForTow(reference, tow) ==
    IF ~IsTimeValid(reference) THEN reference.wn
    ELSE IF tow - reference.tow > HalfWeek THEN reference.wn - 1
    ELSE IF tow - reference.tow < -HalfWeek THEN reference.wn + 1
    ELSE reference.wn

=============================================================================
