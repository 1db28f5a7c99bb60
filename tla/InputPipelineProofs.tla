------------------------ MODULE InputPipelineProofs -------------------------
(* Proofs about InputPipeline with its readers and the assembler, for any  *)
(* number of lines, satellites and pages, any window and any disorder; and *)
(* about the times and dates it reckons with, for all weeks and dates.     *)
EXTENDS InputPipeline, FiniteSetTheorems, WellFoundedInduction, TLAPS

-----------------------------------------------------------------------------
(***************************************************************************)
(* Times and dates (GalileoTime, CivilCalendar).                           *)
(***************************************************************************)
Times == [wn : Nat, tow : 0 .. (GST!WeekSeconds - 1)]

(* A time is two numbers.                                                  *)
LEMMA TimesAreNumbers ==
    ASSUME NEW t \in Times
    PROVE  t.wn \in Nat /\ t.tow \in Int /\ t.tow >= 0 /\ t.tow < 604800
<1>1. t.wn \in Nat /\ t.tow \in 0 .. (GST!WeekSeconds - 1)
  BY DEF Times
<1>2. GST!WeekSeconds = 604800
  BY SMT DEF GST!WeekSeconds
<1>3. \A w \in Int : \A x \in 0 .. (w - 1) : x \in Int /\ x >= 0 /\ x < w
  BY SMT
<1>4. GST!WeekSeconds \in Int
  BY <1>2, SMT
<1>5. t.tow \in Int /\ t.tow >= 0 /\ t.tow < GST!WeekSeconds
  BY <1>1, <1>3, <1>4
<1> DEFINE tow == t.tow
<1>6. tow \in Int /\ tow >= 0 /\ tow < GST!WeekSeconds
  BY <1>5
<1> HIDE DEF tow
<1>7. tow \in Int /\ tow >= 0 /\ tow < 604800
  BY <1>2, <1>6, SMT
<1> QED
  BY <1>1, <1>7 DEF tow

(* The low bits of a week number name the week, if it is nearer to the     *)
(* reference than half their period: what the rows of UTC and GPS          *)
(* parameters rely on (ResolveTruncatedWeek).                              *)
THEOREM WeekIsResolved ==
    ASSUME NEW reference \in Nat, NEW week \in Nat, NEW period \in {64, 256},
           2 * (week - reference) < period, 2 * (reference - week) < period
    PROVE  GST!ResolveTruncatedWeek(reference, week % period, period) = week
<1>1. CASE period = 64
  BY <1>1, SMT DEF GST!ResolveTruncatedWeek, GST!InPeriod
<1>2. CASE period = 256
  BY <1>2, SMT DEF GST!ResolveTruncatedWeek, GST!InPeriod
<1> QED
  BY <1>1, <1>2

(* A time less than half a week from the reference is known from its       *)
(* second of the week: the times of ephemeris and clock of a row           *)
(* (ResolveWeekForTow).                                                    *)
THEOREM TowIsResolved ==
    ASSUME NEW reference \in Times, NEW t \in Times,
           GST!DiffSeconds(t, reference) < GST!HalfWeek, GST!DiffSeconds(reference, t) < GST!HalfWeek
    PROVE  GST!ResolveWeekForTow(reference, t.tow) = t.wn
<1> DEFINE rw == reference.wn
<1> DEFINE rt == reference.tow
<1> DEFINE tw == t.wn
<1> DEFINE tt == t.tow
<1>1. rw \in Nat /\ rt \in Int /\ rt >= 0 /\ rt < 604800
  BY TimesAreNumbers
<1>2. tw \in Nat /\ tt \in Int /\ tt >= 0 /\ tt < 604800
  BY TimesAreNumbers
<1>3. GST!HalfWeek = 302400
  BY SMT DEF GST!HalfWeek, GST!WeekSeconds
<1>4. (tw - rw) * 604800 + (tt - rt) < 302400 /\ (rw - tw) * 604800 + (rt - tt) < 302400
  BY <1>3 DEF GST!DiffSeconds, GST!WeekSeconds
<1>5. GST!ResolveWeekForTow(reference, tt) =
        IF tt - rt > 302400 THEN rw - 1 ELSE IF tt - rt < -302400 THEN rw + 1 ELSE rw
  BY <1>1, <1>3 DEF GST!ResolveWeekForTow, GST!IsTimeValid, GST!WeekSeconds
<1> HIDE DEF rw, rt, tw, tt
<1>6. tw = (IF tt - rt > 302400 THEN rw - 1 ELSE IF tt - rt < -302400 THEN rw + 1 ELSE rw)
  BY <1>1, <1>2, <1>4, SMT
<1> QED
  BY <1>5, <1>6 DEF tw, tt

(* The sum of a time and seconds is that time, later by the seconds, and   *)
(* is normal unless it is before week 0 (AddSecondsNormalized,             *)
(* AdvanceTime).                                                           *)
THEOREM SecondsAreAdded ==
    ASSUME NEW t \in Times, NEW s \in Int
    PROVE  /\ GST!DiffSeconds(GST!AddSeconds(t, s), t) = s
           /\ GST!AddSeconds(t, s).wn >= 0 => GST!IsTimeValid(GST!AddSeconds(t, s))
<1> DEFINE x == t.tow + s
<1> DEFINE q == x \div 604800
<1> DEFINE r == x % 604800
<1>1. t.wn \in Nat /\ t.tow \in Int
  BY TimesAreNumbers
<1>2. x \in Int
  BY <1>1
<1>3. q \in Int /\ r \in Int /\ 0 <= r /\ r < 604800 /\ x = 604800 * q + r
  <2> HIDE DEF x
  <2> QED BY <1>2, SMT
<1>4. GST!AddSeconds(t, s).wn = t.wn + q /\ GST!AddSeconds(t, s).tow = r
  BY DEF GST!AddSeconds, GST!Time, GST!WeekSeconds
<1>5. GST!DiffSeconds(GST!AddSeconds(t, s), t) = q * 604800 + (r - t.tow)
  <2> HIDE DEF q, r
  <2>1. (t.wn + q) - t.wn = q
    BY <1>1, <1>3, SMT
  <2> QED
    BY <1>4, <2>1 DEF GST!DiffSeconds, GST!WeekSeconds
<1>6. q * 604800 + (r - t.tow) = s
  <2>1. t.tow + s = 604800 * q + r
    BY <1>3
  <2> HIDE DEF q, r
  <2> QED
    BY <1>1, <1>3, <2>1, SMT
<1>7. GST!AddSeconds(t, s).wn >= 0 => GST!IsTimeValid(GST!AddSeconds(t, s))
  BY <1>3, <1>4 DEF GST!IsTimeValid, GST!WeekSeconds
<1> QED
  BY <1>5, <1>6, <1>7

-----------------------------------------------------------------------------
(* DaysFromCivil of numbers, the year of a date in January or February     *)
(* being the one before.                                                   *)
Number(year, month, day) ==
    LET era == year \div 400
        yoe == year - era * 400
        doy == ((153 * (month + (IF month > 2 THEN -3 ELSE 9)) + 2) \div 5) + day - 1
    IN  era * 146097 + (yoe * 365 + (yoe \div 4) - (yoe \div 100) + doy) - 719468
ShiftedYear(year, month) == IF month <= 2 THEN year - 1 ELSE year

(* The end of a year that is counted from March.                           *)
LEMMA EndOfShiftedYear ==
    ASSUME NEW y \in Int
    PROVE  Number(y + 1, 3, 1) = Number(y, 2, IF IsLeapYear(y + 1) THEN 29 ELSE 28) + 1
<1> DEFINE q == y \div 400
<1> DEFINE k == y % 400
<1>1. q \in Int /\ k \in 0 .. 399 /\ y = 400 * q + k
  BY SMT
<1>2. CASE k = 399
  BY <1>1, <1>2, SMT DEF Number, IsLeapYear
<1>3. CASE k < 399
  BY <1>1, <1>3, SMT DEF Number, IsLeapYear
<1> QED
  BY <1>1, <1>2, <1>3, SMT

(* Days are numbered without a gap or a repetition: the number of the next *)
(* day is one more, at the end of every month of every year                *)
(* (DaysFromCivil).                                                        *)
THEOREM DaysAreCounted ==
    ASSUME NEW d \in Dates
    PROVE  DaysFromCivil(NextDate(d)) = DaysFromCivil(d) + 1
<1> DEFINE y == d.year
<1> DEFINE m == d.month
<1> DEFINE n == d.day
<1> DEFINE last == MonthDays(y, m)
<1>1. y \in Nat /\ m \in 1 .. 12 /\ n \in 1 .. 31 /\ n <= last
  BY DEF Dates
<1>2. \A a, b, c : DaysFromCivil(Date(a, b, c)) = Number(ShiftedYear(a, b), b, c)
  BY DEF DaysFromCivil, Date, Number, ShiftedYear
<1>3. DaysFromCivil(d) = Number(ShiftedYear(y, m), m, n)
  BY DEF DaysFromCivil, Number, ShiftedYear
<1>4. last \in Int
  BY <1>1, SMT DEF MonthDays, YearDays
<1>5. NextDate(d) = IF n < last THEN Date(y, m, n + 1)
                    ELSE IF m < 12 THEN Date(y, m + 1, 1) ELSE Date(y + 1, 1, 1)
  BY <1>1, <1>4, SMT DEF NextDate
<1> HIDE DEF y, m, n
<1>6. CASE n < last
  <2>1. Number(ShiftedYear(y, m), m, n + 1) = Number(ShiftedYear(y, m), m, n) + 1
    BY <1>1, SMT DEF Number, ShiftedYear
  <2> QED
    BY <1>2, <1>3, <1>5, <1>6, <2>1
<1>7. CASE n = last /\ m = 2
  <2>1. last = IF IsLeapYear(y) THEN 29 ELSE 28
    BY <1>7, SMT DEF MonthDays, YearDays
  <2>2. ShiftedYear(y, 3) = y /\ ShiftedYear(y, 2) = y - 1
    BY DEF ShiftedYear
  <2>3. y - 1 \in Int /\ (y - 1) + 1 = y
    BY <1>1
  <2>4. Number(y, 3, 1) = Number(y - 1, 2, last) + 1
    BY <2>1, <2>3, EndOfShiftedYear
  <2>5. NextDate(d) = Date(y, 3, 1)
    BY <1>4, <1>5, <1>7
  <2> QED
    BY <1>2, <1>3, <1>7, <2>2, <2>4, <2>5
<1>8. CASE n = last /\ m = 12
  <2>1. last = 31
    BY <1>8, SMT DEF MonthDays
  <2>2. Number(ShiftedYear(y + 1, 1), 1, 1) = Number(ShiftedYear(y, 12), 12, 31) + 1
    BY <1>1, SMT DEF Number, ShiftedYear
  <2>3. NextDate(d) = Date(y + 1, 1, 1)
    BY <1>4, <1>5, <1>8
  <2> QED
    BY <1>2, <1>3, <1>8, <2>1, <2>2, <2>3
<1>9. CASE n = last /\ m # 2 /\ m < 12
  <2>1. last = IF m \in {4, 6, 9, 11} THEN 30 ELSE 31
    BY <1>9, SMT DEF MonthDays
  <2>2. Number(ShiftedYear(y, m + 1), m + 1, 1) = Number(ShiftedYear(y, m), m, last) + 1
    BY <1>1, <1>9, <2>1, SMT DEF Number, ShiftedYear
  <2>3. NextDate(d) = Date(y, m + 1, 1)
    BY <1>4, <1>5, <1>9
  <2> QED
    BY <1>2, <1>3, <1>9, <2>2, <2>3
<1> QED
  BY <1>1, <1>4, <1>6, <1>7, <1>8, <1>9, SMT

-----------------------------------------------------------------------------
(***************************************************************************)
(* The number of a date is how many dates there are before it: numbers go  *)
(* up with the dates, and by one from each to the next.                    *)
(***************************************************************************)
LEMMA LeastOf ==
    ASSUME NEW S \in SUBSET Nat, S # {}
    PROVE  \E m \in S : \A n \in S : m <= n
<1>1. IsWellFoundedOn(OpToRel(<, Nat), Nat)
  BY NatLessThanWellFounded
<1>2. PICK m \in S : \A n \in S : ~ (<<n, m>> \in OpToRel(<, Nat))
  BY <1>1, WFMin
<1>3. \A n \in S : ~(n < m)
  BY <1>2 DEF OpToRel
<1> QED
  BY <1>3

(* Days before a year that is counted from March, but for a constant.      *)
Before(y) == 365 * y + (y \div 4) - (y \div 100) + (y \div 400)
Origin == 719469
DaysInto(month) == (153 * (month + (IF month > 2 THEN -3 ELSE 9)) + 2) \div 5

(* A number is the days of the years before and of the months before, and  *)
(* the day.                                                                *)
LEMMA NumberIsSum ==
    ASSUME NEW y \in Int, NEW m \in 1 .. 12, NEW n \in Int
    PROVE  Number(y, m, n) = Before(y) + DaysInto(m) + n - Origin /\ Number(y, m, n) \in Int
<1> DEFINE q == y \div 400
           k == y % 400
<1>1. q \in Int /\ k \in Int /\ 0 <= k /\ k < 400 /\ y = 400 * q + k
  BY SMT
<1>2. /\ y \div 4 = 100 * q + (k \div 4) /\ y \div 100 = 4 * q + (k \div 100)
      /\ (y \div 4) \in Int /\ (y \div 100) \in Int
  BY <1>1, SMT
<1>3. y - q * 400 = k
  BY <1>1, SMT
<1>4. Number(y, m, n) = q * 146097 + (k * 365 + (k \div 4) - (k \div 100) + (DaysInto(m) + n - 1)) - 719468
  BY <1>3 DEF Number, DaysInto
<1>5. Before(y) = 365 * y + (y \div 4) - (y \div 100) + q
  BY DEF Before
<1>6. DaysInto(m) \in Int
  BY SMT DEF DaysInto
<1> DEFINE into == DaysInto(m)
<1> HIDE DEF q, k, into
<1>7. into \in Int
  BY <1>6 DEF into
<1>8. q * 146097 + (k * 365 + (k \div 4) - (k \div 100) + (into + n - 1)) - 719468
          = 365 * y + (y \div 4) - (y \div 100) + q + into + n - 719469
  BY <1>1, <1>2, <1>7, SMT
<1>9. Number(y, m, n) = Before(y) + into + n - Origin
  BY <1>4, <1>5, <1>8, SMT DEF into, Origin
<1>10. Before(y) \in Int
  BY <1>1, <1>2, <1>5, SMT
<1>11. Number(y, m, n) \in Int
  BY <1>7, <1>9, <1>10, SMT DEF Origin
<1> QED
  BY <1>9, <1>11 DEF into

(* Every year counted from March has at least 365 days.                    *)
LEMMA YearsGoUp ==
    ASSUME NEW y \in Int, NEW z \in Int, y < z
    PROVE  Before(y) + 365 <= Before(z) /\ Before(y) \in Int /\ Before(z) \in Int
<1> DEFINE q == y \div 100
           k == y % 100
           r == z \div 100
           l == z % 100
<1>1. /\ q \in Int /\ k \in Int /\ 0 <= k /\ k < 100 /\ y = 100 * q + k
      /\ r \in Int /\ l \in Int /\ 0 <= l /\ l < 100 /\ z = 100 * r + l
  BY SMT
<1>2. /\ y \div 4 = 25 * q + (k \div 4) /\ y \div 400 = q \div 4
      /\ z \div 4 = 25 * r + (l \div 4) /\ z \div 400 = r \div 4
  BY <1>1, SMT
<1> HIDE DEF q, k, r, l
<1>3. /\ Before(y) = 365 * y + 24 * q + (k \div 4) + (q \div 4)
      /\ Before(z) = 365 * z + 24 * r + (l \div 4) + (r \div 4)
  <2>1. Before(y) = 365 * y + (25 * q + (k \div 4)) - q + (q \div 4)
    BY <1>2 DEF Before, q
  <2>2. Before(z) = 365 * z + (25 * r + (l \div 4)) - r + (r \div 4)
    BY <1>2 DEF Before, r
  <2> QED
    BY <1>1, <2>1, <2>2, SMT
<1>4. q <= r /\ (q = r => k < l)
  BY <1>1, SMT
<1>5. 24 * q + (k \div 4) <= 24 * r + (l \div 4) /\ (q \div 4) <= (r \div 4)
  BY <1>1, <1>4, SMT
<1>6. /\ (k \div 4) \in Int /\ (l \div 4) \in Int /\ (q \div 4) \in Int /\ (r \div 4) \in Int
  BY <1>1, SMT
<1> QED
  BY <1>1, <1>3, <1>5, <1>6, SMT

(* The year that ends with February has 366 days if that February has 29.  *)
LEMMA LeapDay ==
    ASSUME NEW y \in Int
    PROVE  Before(y) = Before(y - 1) + (IF IsLeapYear(y) THEN 366 ELSE 365)
<1> DEFINE q == y \div 400
           k == y % 400
<1>1. q \in Int /\ k \in Int /\ 0 <= k /\ k < 400 /\ y = 400 * q + k
  BY SMT
<1>2. CASE k = 0
  BY <1>1, <1>2, SMT DEF Before, IsLeapYear
<1>3. CASE k > 0
  BY <1>1, <1>3, SMT DEF Before, IsLeapYear
<1> QED
  BY <1>1, <1>2, <1>3, SMT

(* The numbers of the dates of a year lie between those of its ends, and   *)
(* go up with the months.                                                  *)
DateNumber(y, m, n) == Number(ShiftedYear(y, m), m, n)

(* The number of a date in the terms of the lemmas above.                  *)
LEMMA NumberOfDate ==
    ASSUME NEW d \in Dates
    PROVE  /\ d.year \in Nat /\ d.month \in 1 .. 12 /\ d.day \in 1 .. 31
           /\ d.day <= MonthDays(d.year, d.month)
           /\ DaysFromCivil(d) = DateNumber(d.year, d.month, d.day)
           /\ DaysFromCivil(d) \in Int
<1>1. /\ d.year \in Nat /\ d.month \in 1 .. 12 /\ d.day \in 1 .. 31
      /\ d.day <= MonthDays(d.year, d.month)
  BY DEF Dates
<1>2. DaysFromCivil(d) = DateNumber(d.year, d.month, d.day)
  <2>1. DaysFromCivil(d) = Number(ShiftedYear(d.year, d.month), d.month, d.day)
    BY DEF DaysFromCivil, Number, ShiftedYear
  <2> QED
    BY <2>1 DEF DateNumber
<1> DEFINE shifted == ShiftedYear(d.year, d.month)
<1>3. shifted \in Int /\ d.day \in Int
  BY <1>1 DEF ShiftedYear
<1> HIDE DEF shifted
<1>4. Number(shifted, d.month, d.day) \in Int
  BY <1>1, <1>3, NumberIsSum
<1>5. Number(ShiftedYear(d.year, d.month), d.month, d.day) \in Int
  BY <1>4 DEF shifted
<1> QED
  BY <1>1, <1>2, <1>5 DEF DateNumber

(* In one year, a date of an earlier month has the lesser number.          *)
LEMMA MonthsGoUp ==
    ASSUME NEW y \in Int, NEW m \in 1 .. 12, NEW n \in 1 .. 31, n <= MonthDays(y, m),
           NEW k \in 1 .. 12, NEW l \in 1 .. 31, m < k
    PROVE  DateNumber(y, m, n) < DateNumber(y, k, l)
<1> DEFINE b == Before(y)
           a == Before(y - 1)
           leap == IsLeapYear(y)
<1>1. b = a + (IF leap THEN 366 ELSE 365) /\ a \in Int /\ b \in Int
  <2>1. y - 1 \in Int /\ y - 1 < y
    OBVIOUS
  <2> QED
    BY <2>1, LeapDay, YearsGoUp
<1>2. \A p \in 1 .. 12, x \in 1 .. 31 :
          DateNumber(y, p, x) = (IF p <= 2 THEN a ELSE b) + DaysInto(p) + x - Origin
  <2> SUFFICES ASSUME NEW p \in 1 .. 12, NEW x \in 1 .. 31
               PROVE  DateNumber(y, p, x) = (IF p <= 2 THEN a ELSE b) + DaysInto(p) + x - Origin
    OBVIOUS
  <2>1. y \in Int /\ y - 1 \in Int /\ x \in Int
    OBVIOUS
  <2>2. CASE p <= 2
    BY <2>1, <2>2, NumberIsSum DEF DateNumber, ShiftedYear
  <2>3. CASE ~(p <= 2)
    BY <2>1, <2>3, NumberIsSum DEF DateNumber, ShiftedYear
  <2> QED
    BY <2>2, <2>3
<1>3. MonthDays(y, m) = IF m = 2 THEN (IF leap THEN 29 ELSE 28)
                        ELSE IF m \in {4, 6, 9, 11} THEN 30 ELSE 31
  BY SMT DEF MonthDays, YearDays
<1> DEFINE from == DaysInto(m)
           to == DaysInto(k)
           length == MonthDays(y, m)
<1>4. /\ from \in Int /\ to \in Int /\ to >= 0
      /\ m = 1 => from = 306
      /\ m = 2 => from = 337
      /\ k = 2 => to = 337
      /\ m > 2 /\ m \in {4, 6, 9, 11} => from + 30 <= to
      /\ m > 2 /\ m \notin {4, 6, 9, 11} => from + 31 <= to
  BY SMT DEF DaysInto
<1>5. /\ DateNumber(y, m, n) = (IF m <= 2 THEN a ELSE b) + from + n - Origin
      /\ DateNumber(y, k, l) = (IF k <= 2 THEN a ELSE b) + to + l - Origin
      /\ n <= length
  BY <1>2
<1> HIDE DEF a, b, leap, from, to, length
<1>6. (IF m <= 2 THEN a ELSE b) + from + n < (IF k <= 2 THEN a ELSE b) + to + l
  <2>1. CASE k <= 2
    BY <1>1, <1>3, <1>4, <1>5, <2>1, SMT DEF length
  <2>2. CASE m = 1 /\ k > 2
    BY <1>1, <1>3, <1>4, <1>5, <2>2, SMT DEF length
  <2>3. CASE m = 2 /\ k > 2
    <3>1. n <= IF leap THEN 29 ELSE 28
      BY <1>3, <1>5, <2>3 DEF length
    <3> QED
      BY <1>1, <1>4, <2>3, <3>1, SMT
  <2>4. CASE m > 2
    BY <1>1, <1>3, <1>4, <1>5, <2>4, SMT DEF length
  <2> QED
    BY <2>1, <2>2, <2>3, <2>4, SMT
<1> QED
  BY <1>1, <1>4, <1>5, <1>6, SMT DEF Origin

(* The numbers of the dates of a year lie between those of its first and   *)
(* its last day.                                                           *)
LEMMA WithinItsYear ==
    ASSUME NEW y \in Int, NEW m \in 1 .. 12, NEW n \in 1 .. 31, n <= MonthDays(y, m)
    PROVE  /\ Before(y - 1) + 307 - Origin <= DateNumber(y, m, n)
           /\ DateNumber(y, m, n) < Before(y) + 307 - Origin
<1>1. /\ DateNumber(y, 1, 1) = Before(y - 1) + DaysInto(1) + 1 - Origin
      /\ \A x \in 1 .. 31 : DateNumber(y, 1, x) = Before(y - 1) + DaysInto(1) + x - Origin
      /\ \A x \in 1 .. 31 : DateNumber(y, 12, x) = Before(y) + DaysInto(12) + x - Origin
  <2>1. 1 \in 1 .. 12 /\ 12 \in 1 .. 12 /\ 1 \in 1 .. 31 /\ 1 .. 31 \subseteq Int /\ y - 1 \in Int
    OBVIOUS
  <2>2. ShiftedYear(y, 1) = y - 1 /\ ShiftedYear(y, 12) = y
    BY DEF ShiftedYear
  <2>3. \A x \in 1 .. 31 : DateNumber(y, 1, x) = Before(y - 1) + DaysInto(1) + x - Origin
    <3> SUFFICES ASSUME NEW x \in 1 .. 31
                 PROVE  DateNumber(y, 1, x) = Before(y - 1) + DaysInto(1) + x - Origin
      OBVIOUS
    <3>1. DateNumber(y, 1, x) = Number(y - 1, 1, x) /\ x \in Int
      BY <2>2 DEF DateNumber
    <3>2. Number(y - 1, 1, x) = Before(y - 1) + DaysInto(1) + x - Origin
      BY <2>1, <3>1, NumberIsSum
    <3> QED
      BY <3>1, <3>2
  <2>4. \A x \in 1 .. 31 : DateNumber(y, 12, x) = Before(y) + DaysInto(12) + x - Origin
    <3> SUFFICES ASSUME NEW x \in 1 .. 31
                 PROVE  DateNumber(y, 12, x) = Before(y) + DaysInto(12) + x - Origin
      OBVIOUS
    <3>1. DateNumber(y, 12, x) = Number(y, 12, x) /\ x \in Int
      BY <2>2 DEF DateNumber
    <3>2. Number(y, 12, x) = Before(y) + DaysInto(12) + x - Origin
      BY <2>1, <3>1, NumberIsSum
    <3> QED
      BY <3>1, <3>2
  <2> QED
    BY <2>1, <2>3, <2>4
<1>2. DaysInto(1) = 306 /\ DaysInto(12) = 275
  BY SMT DEF DaysInto
<1>3. Before(y) \in Int /\ Before(y - 1) \in Int /\ Origin \in Int
  <2>1. y - 1 \in Int /\ y - 1 < y
    OBVIOUS
  <2> QED
    BY <2>1, YearsGoUp, SMT DEF Origin
<1> DEFINE number == DateNumber(y, m, n)
<1>4. number \in Int
  <2>1. ShiftedYear(y, m) \in Int /\ n \in Int
    BY DEF ShiftedYear
  <2> QED
    BY <2>1, NumberIsSum DEF DateNumber
<1>5. 1 <= MonthDays(y, 1)
  BY SMT DEF MonthDays, YearDays
<1>6. DateNumber(y, 1, 1) <= number
  <2>1. CASE m = 1
    BY <1>1, <1>2, <1>3, <2>1
  <2>2. CASE m # 1
    <3>1. 1 \in 1 .. 12 /\ 1 \in 1 .. 31 /\ 1 < m
      BY <2>2
    <3>2. DateNumber(y, 1, 1) < number
      BY <1>5, <3>1, MonthsGoUp
    <3> QED
      BY <1>1, <1>2, <1>3, <1>4, <3>2
  <2> QED
    BY <2>1, <2>2
<1>7. number <= DateNumber(y, 12, 31)
  <2>1. CASE m = 12
    BY <1>1, <1>2, <1>3, <2>1
  <2>2. CASE m # 12
    <3>1. 12 \in 1 .. 12 /\ 31 \in 1 .. 31 /\ m < 12
      BY <2>2
    <3>2. number < DateNumber(y, 12, 31)
      BY <3>1, MonthsGoUp
    <3>3. 31 \in 1 .. 31
      OBVIOUS
    <3> QED
      BY <1>1, <1>2, <1>3, <1>4, <3>2, <3>3
  <2> QED
    BY <2>1, <2>2
<1> HIDE DEF number
<1>8. /\ DateNumber(y, 1, 1) = Before(y - 1) + 307 - Origin
      /\ DateNumber(y, 12, 31) = Before(y) + 306 - Origin
  <2>1. 1 \in 1 .. 31 /\ 31 \in 1 .. 31
    OBVIOUS
  <2> QED
    BY <1>1, <1>2, <1>3, <2>1
<1> QED
  BY <1>3, <1>4, <1>6, <1>7, <1>8 DEF number

(* The earlier of two dates has the lesser number.                         *)
LEMMA EarlierIsLess ==
    ASSUME NEW a \in Dates, NEW b \in Dates, IsBefore(a, b)
    PROVE  DaysFromCivil(a) < DaysFromCivil(b)
<1> DEFINE A == DaysFromCivil(a)
           B == DaysFromCivil(b)
<1>1. /\ a.year \in Int /\ a.month \in 1 .. 12 /\ a.day \in 1 .. 31
      /\ a.day <= MonthDays(a.year, a.month)
      /\ A = DateNumber(a.year, a.month, a.day) /\ A \in Int
  BY NumberOfDate
<1>2. /\ b.year \in Int /\ b.month \in 1 .. 12 /\ b.day \in 1 .. 31
      /\ b.day <= MonthDays(b.year, b.month)
      /\ B = DateNumber(b.year, b.month, b.day) /\ B \in Int
  BY NumberOfDate
<1> HIDE DEF A, B
<1>3. CASE a.year < b.year
  <2>1. A < Before(a.year) + 307 - Origin
    BY <1>1, WithinItsYear
  <2>2. Before(b.year - 1) + 307 - Origin <= B
    BY <1>2, WithinItsYear
  <2>3. Before(a.year) <= Before(b.year - 1) /\ Before(a.year) \in Int /\ Before(b.year - 1) \in Int
    <3>1. b.year - 1 \in Int /\ (a.year = b.year - 1 \/ a.year < b.year - 1) /\ a.year < b.year
      BY <1>1, <1>2, <1>3
    <3>2. Before(a.year) \in Int
      BY <1>1, <1>2, <3>1, YearsGoUp
    <3>3. CASE a.year = b.year - 1
      BY <3>2, <3>3
    <3>4. CASE a.year < b.year - 1
      <4> DEFINE x == Before(a.year)
                 z == Before(b.year - 1)
      <4>1. x + 365 <= z /\ x \in Int /\ z \in Int
        BY <1>1, <3>1, <3>4, YearsGoUp
      <4> HIDE DEF x, z
      <4>2. x <= z
        BY <4>1
      <4> QED
        BY <4>1, <4>2 DEF x, z
    <3> QED
      BY <3>1, <3>3, <3>4
  <2>4. Origin \in Int
    BY SMT DEF Origin
  <2> QED
    BY <1>1, <1>2, <2>1, <2>2, <2>3, <2>4 DEF A, B
<1>4. CASE a.year = b.year /\ a.month < b.month
  BY <1>1, <1>2, <1>4, MonthsGoUp DEF A, B
<1>5. CASE a.year = b.year /\ a.month = b.month /\ a.day < b.day
  <2>1. /\ A = Before(ShiftedYear(a.year, a.month)) + DaysInto(a.month) + a.day - Origin
        /\ B = Before(ShiftedYear(a.year, a.month)) + DaysInto(a.month) + b.day - Origin
    <3> DEFINE x == ShiftedYear(a.year, a.month)
    <3>1. x \in Int /\ a.day \in Int /\ b.day \in Int
      BY <1>1, <1>2 DEF ShiftedYear
    <3>2. A = Number(x, a.month, a.day) /\ B = Number(x, a.month, b.day)
      BY <1>1, <1>2, <1>5 DEF DateNumber
    <3> HIDE DEF x
    <3>3. /\ Number(x, a.month, a.day) = Before(x) + DaysInto(a.month) + a.day - Origin
          /\ Number(x, a.month, b.day) = Before(x) + DaysInto(a.month) + b.day - Origin
      BY <1>1, <3>1, NumberIsSum
    <3> QED
      BY <3>2, <3>3 DEF x
  <2>2. Before(ShiftedYear(a.year, a.month)) \in Int /\ DaysInto(a.month) \in Int /\ Origin \in Int
    <3> DEFINE x == ShiftedYear(a.year, a.month)
    <3>1. x \in Int /\ x < x + 1 /\ x + 1 \in Int
      BY <1>1 DEF ShiftedYear
    <3> HIDE DEF x
    <3>2. Before(x) \in Int
      BY <3>1, YearsGoUp
    <3>3. DaysInto(a.month) \in Int
      BY <1>1, SMT DEF DaysInto
    <3>4. Origin \in Int
      BY SMT DEF Origin
    <3> QED
      BY <3>2, <3>3, <3>4 DEF x
  <2> QED
    BY <1>1, <1>2, <1>5, <2>1, <2>2 DEF A, B
<1> QED
  BY <1>3, <1>4, <1>5 DEF IsBefore, A, B

(* Of two dates one is before the other.                                   *)
LEMMA DatesAreOrdered ==
    ASSUME NEW a \in Dates, NEW b \in Dates
    PROVE  IsBefore(a, b) \/ IsBefore(b, a) \/ a = b
<1>1. /\ a.year \in Int /\ a.month \in Int /\ a.day \in Int
      /\ b.year \in Int /\ b.month \in Int /\ b.day \in Int
  BY NumberOfDate
<1>2. /\ a = [year |-> a.year, month |-> a.month, day |-> a.day]
      /\ b = [year |-> b.year, month |-> b.month, day |-> b.day]
  BY DEF Dates
<1> QED
  BY <1>1, <1>2 DEF IsBefore

(* The day after a date is a date.                                         *)
LEMMA NextDateIsDate ==
    ASSUME NEW d \in Dates PROVE NextDate(d) \in Dates
<1> DEFINE y == d.year
           m == d.month
           n == d.day
           last == MonthDays(y, m)
<1>1. y \in Nat /\ m \in 1 .. 12 /\ n \in 1 .. 31 /\ n <= last
  BY NumberOfDate
<1>2. last \in 28 .. 31
  BY <1>1, SMT DEF MonthDays, YearDays
<1>3. NextDate(d) = IF n < last THEN Date(y, m, n + 1)
                    ELSE IF m < 12 THEN Date(y, m + 1, 1) ELSE Date(y + 1, 1, 1)
  BY <1>1, <1>2, SMT DEF NextDate
<1>4. \A p \in Nat, q \in 1 .. 12, r \in 1 .. 31 : r <= MonthDays(p, q) => Date(p, q, r) \in Dates
  BY DEF Date, Dates
<1>5. \A p \in Nat, q \in 1 .. 12 : 1 <= MonthDays(p, q)
  BY SMT DEF MonthDays, YearDays
<1> HIDE DEF y, m, n
<1>6. CASE n < last
  <2>1. n + 1 \in 1 .. 31 /\ n + 1 <= last
    BY <1>1, <1>2, <1>6
  <2> QED
    BY <1>1, <1>3, <1>4, <1>6, <2>1
<1>7. CASE ~(n < last) /\ m < 12
  <2>1. m + 1 \in 1 .. 12 /\ 1 \in 1 .. 31
    BY <1>1, <1>7
  <2> QED
    BY <1>1, <1>3, <1>4, <1>5, <1>7, <2>1
<1>8. CASE ~(n < last) /\ ~(m < 12)
  <2>1. y + 1 \in Nat /\ 1 \in 1 .. 12 /\ 1 \in 1 .. 31
    BY <1>1
  <2> QED
    BY <1>3, <1>4, <1>5, <1>8, <2>1
<1> QED
  BY <1>6, <1>7, <1>8

(* The days that DaysFromCivil counts from one date to a later one are as  *)
(* many as there are dates from the one to the other in the calendar.      *)
THEOREM DaysAreDates ==
    ASSUME NEW first \in Dates, NEW last \in Dates, ~IsBefore(last, first)
    PROVE  DaysFromCivil(last) - DaysFromCivil(first) = Cardinality(DatesBetween(first, last))
<1> DEFINE f == DaysFromCivil(first)
           l == DaysFromCivil(last)
           S == DatesBetween(first, last)
           number == [d \in S |-> DaysFromCivil(d)]
<1>1. /\ f \in Int /\ l \in Int /\ first.year \in Nat /\ last.year \in Nat
      /\ f <= l
  <2>1. f \in Int /\ l \in Int /\ first.year \in Nat /\ last.year \in Nat
    BY NumberOfDate
  <2>2. first = last \/ f < l
    BY DatesAreOrdered, EarlierIsLess
  <2> QED
    BY <2>1, <2>2
<1>2. \A d \in S : d \in Dates /\ ~IsBefore(d, first) /\ IsBefore(d, last)
  <2> SUFFICES ASSUME NEW d \in S PROVE d \in Dates /\ ~IsBefore(d, first) /\ IsBefore(d, last)
    OBVIOUS
  <2>1. /\ d \in [year : first.year .. last.year, month : 1 .. 12, day : 1 .. 31]
        /\ d.day <= MonthDays(d.year, d.month) /\ ~IsBefore(d, first) /\ IsBefore(d, last)
    BY DEF DatesBetween
  <2>2. \A y \in first.year .. last.year : y \in Nat
    BY <1>1
  <2>3. d \in [year : Nat, month : 1 .. 12, day : 1 .. 31]
    BY <2>1, <2>2
  <2> QED
    BY <2>1, <2>3 DEF Dates
<1>3. \A d \in Dates : ~IsBefore(d, first) /\ IsBefore(d, last) => d \in S
  <2> SUFFICES ASSUME NEW d \in Dates, ~IsBefore(d, first), IsBefore(d, last) PROVE d \in S
    OBVIOUS
  <2>1. d.year \in Nat /\ d.month \in 1 .. 12 /\ d.day \in 1 .. 31 /\ d.day <= MonthDays(d.year, d.month)
    BY NumberOfDate
  <2>2. d.year \in first.year .. last.year
    <3>1. ~(d.year < first.year) /\ ~(last.year < d.year)
      BY <1>1, <2>1 DEF IsBefore
    <3> QED
      BY <1>1, <2>1, <3>1
  <2>3. d = [year |-> d.year, month |-> d.month, day |-> d.day]
    BY DEF Dates
  <2>4. d \in [year : first.year .. last.year, month : 1 .. 12, day : 1 .. 31]
    BY <2>1, <2>2, <2>3
  <2> QED
    BY <2>1, <2>4 DEF DatesBetween
<1> HIDE DEF f, l, S
<1>4. \A d \in S : DaysFromCivil(d) \in f .. (l - 1)
  <2> SUFFICES ASSUME NEW d \in S PROVE DaysFromCivil(d) \in f .. (l - 1)
    OBVIOUS
  <2>1. DaysFromCivil(d) \in Int /\ DaysFromCivil(d) < l
    BY <1>2, NumberOfDate, EarlierIsLess DEF l
  <2>2. d = first \/ f < DaysFromCivil(d)
    BY <1>2, DatesAreOrdered, EarlierIsLess DEF f
  <2>3. f <= DaysFromCivil(d)
    BY <1>1, <2>1, <2>2 DEF f
  <2> QED
    BY <1>1, <2>1, <2>3
<1>5. \A a, b \in S : DaysFromCivil(a) = DaysFromCivil(b) => a = b
  <2> SUFFICES ASSUME NEW a \in S, NEW b \in S, DaysFromCivil(a) = DaysFromCivil(b) PROVE a = b
    OBVIOUS
  <2>1. a \in Dates /\ b \in Dates /\ DaysFromCivil(a) \in Int /\ DaysFromCivil(b) \in Int
    BY <1>2, NumberOfDate
  <2>2. ~IsBefore(a, b) /\ ~IsBefore(b, a)
    <3>1. ~(DaysFromCivil(a) < DaysFromCivil(b)) /\ ~(DaysFromCivil(b) < DaysFromCivil(a))
      BY <2>1
    <3> QED
      BY <2>1, <3>1, EarlierIsLess
  <2> QED
    BY <2>1, <2>2, DatesAreOrdered
<1>6. \A n \in f .. (l - 1) : \E d \in S : DaysFromCivil(d) = n
  <2> DEFINE Reached(k) == \E d \in Dates : ~IsBefore(d, first) /\ DaysFromCivil(d) = f + k
             missed == {k \in Nat : f + k < l /\ ~Reached(k)}
  <2>1. ASSUME missed # {} PROVE FALSE
    <3>1. missed \in SUBSET Nat
      OBVIOUS
    <3>2. PICK k \in missed : \A j \in missed : k <= j
      BY <2>1, <3>1, LeastOf
    <3>3. k # 0
      <4>1. ~IsBefore(first, first)
        BY NumberOfDate DEF IsBefore
      <4>2. DaysFromCivil(first) = f + 0
        BY <1>1 DEF f
      <4> QED
        BY <4>1, <4>2
    <3>4. k - 1 \in Nat /\ f + (k - 1) < l /\ k - 1 \notin missed
      BY <1>1, <3>2, <3>3
    <3>5. PICK d \in Dates : ~IsBefore(d, first) /\ DaysFromCivil(d) = f + (k - 1)
      BY <3>4
    <3>6. NextDate(d) \in Dates /\ DaysFromCivil(NextDate(d)) = f + k
      <4>1. DaysFromCivil(NextDate(d)) = DaysFromCivil(d) + 1
        BY DaysAreCounted
      <4> QED
        BY <1>1, <3>2, <3>5, <4>1, NextDateIsDate
    <3>7. ~IsBefore(NextDate(d), first)
      <4>1. ~(f + k < f)
        BY <1>1, <3>2
      <4> QED
        BY <3>6, <4>1, EarlierIsLess DEF f
    <3> QED
      BY <3>2, <3>6, <3>7
  <2> SUFFICES ASSUME NEW n \in f .. (l - 1) PROVE \E d \in S : DaysFromCivil(d) = n
    OBVIOUS
  <2>2. n - f \in Nat /\ f + (n - f) = n /\ n < l
    BY <1>1
  <2>3. Reached(n - f)
    BY <2>1, <2>2
  <2>4. PICK d \in Dates : ~IsBefore(d, first) /\ DaysFromCivil(d) = n
    BY <2>2, <2>3
  <2>5. IsBefore(d, last)
    <3>1. ~(l < n) /\ l # n
      BY <1>1, <2>2
    <3>2. l # DaysFromCivil(d) /\ ~(l < DaysFromCivil(d))
      BY <2>4, <3>1
    <3>3. ~IsBefore(last, d)
      BY <3>2, EarlierIsLess DEF l
    <3>4. last # d
      BY <3>2 DEF l
    <3> QED
      BY <3>3, <3>4, DatesAreOrdered
  <2> QED
    BY <1>3, <2>4, <2>5
<1>7. number \in Bijection(S, f .. (l - 1))
  <2>1. number \in Injection(S, f .. (l - 1))
    BY <1>4, <1>5 DEF Injection, IsInjective
  <2>2. number \in Surjection(S, f .. (l - 1))
    BY <1>4, <1>6 DEF Surjection
  <2> QED
    BY <2>1, <2>2 DEF Bijection
<1>8. /\ IsFiniteSet(f .. (l - 1))
      /\ Cardinality(f .. (l - 1)) = l - f
  <2> DEFINE h == l - 1
  <2>1. h \in Int /\ h >= f - 1 /\ h - f + 1 = l - f
    BY <1>1
  <2> HIDE DEF h
  <2>2. IsFiniteSet(f .. h) /\ Cardinality(f .. h) = IF f > h THEN 0 ELSE h - f + 1
    BY <1>1, <2>1, FS_Interval
  <2>3. Cardinality(f .. h) = l - f
    BY <1>1, <2>1, <2>2
  <2> QED
    BY <2>2, <2>3 DEF h
<1>9. Cardinality(S) = l - f
  <2>1. IsFiniteSet(S)
    <3>1. number \in Injection(S, f .. (l - 1))
      BY <1>7 DEF Bijection
    <3> HIDE DEF number
    <3> QED
      BY <1>8, <3>1, FS_Injection
  <2>2. ExistsBijection(S, f .. (l - 1))
    BY <1>7 DEF ExistsBijection
  <2> QED
    BY <1>8, <2>1, <2>2, FS_Bijection
<1> QED
  BY <1>9 DEF f, l, S

-----------------------------------------------------------------------------
(***************************************************************************)
(* The reorder buffer.  ls are the lines read, b what is buffered of them, *)
(* f what was flushed.  A buffered line is one that was read, with the     *)
(* subframe it was read for, and is there once; so is a flushed one; and   *)
(* no line is both.  EveryLineFedOnce alone is not inductive: it does not  *)
(* say under which subframe a line is buffered.                            *)
(***************************************************************************)
FeedsIn(f, n) == {m \in DOMAIN f : \E entry \in f[m] : entry.line = n}
IsBuffered(b, ls, n) == \E line \in b[ls[n]] : line.number = n

Numbered(b, ls) ==
    /\ \A e \in Epochs : \A line \in b[e] : line.number \in DOMAIN ls /\ ls[line.number] = e
    /\ \A e \in Epochs : \A line, other \in b[e] : line.number = other.number => line = other

FedFrom(f, ls) ==
    \A m \in DOMAIN f : \A entry \in f[m] : entry.line \in DOMAIN ls /\ ls[entry.line] = entry.epoch

FedOnce(b, ls, f) ==
    \A n \in DOMAIN ls : ls[n] \in Epochs =>
        /\ IsBuffered(b, ls, n) => FeedsIn(f, n) = {}
        /\ ~IsBuffered(b, ls, n) => \E m : FeedsIn(f, n) = {m}

(* A new line of subframe e joins the buffer.                              *)
LEMMA LineAdded ==
    ASSUME NEW b, NEW ls \in Seq(Int), NEW f, NEW e \in Epochs, NEW pages,
           b = [d \in Epochs |-> b[d]],
           Numbered(b, ls), FedFrom(f, ls), FedOnce(b, ls, f)
    PROVE  LET read == Append(ls, e)
               added == [b EXCEPT ![e] = @ \cup {[number |-> Len(ls) + 1, pages |-> pages]}]
           IN  Numbered(added, read) /\ FedFrom(f, read) /\ FedOnce(added, read, f)
<1> DEFINE read == Append(ls, e)
           new == [number |-> Len(ls) + 1, pages |-> pages]
           added == [b EXCEPT ![e] = @ \cup {new}]
<1>1. \A d \in Epochs : added[d] = IF d = e THEN b[d] \cup {new} ELSE b[d]
  OBVIOUS
<1>2. /\ DOMAIN ls = 1 .. Len(ls) /\ Len(ls) \in Nat /\ DOMAIN read = 1 .. (Len(ls) + 1)
      /\ \A n \in DOMAIN ls : n \in DOMAIN read /\ read[n] = ls[n] /\ n # Len(ls) + 1
      /\ Len(ls) + 1 \in DOMAIN read /\ read[Len(ls) + 1] = e
      /\ \A n \in DOMAIN read : n \in DOMAIN ls \/ n = Len(ls) + 1
      /\ Len(ls) + 1 \notin DOMAIN ls
  OBVIOUS
<1>3. new.number = Len(ls) + 1
  OBVIOUS
<1> HIDE DEF read, new, added
<1>4. Numbered(added, read)
  <2>1. ASSUME NEW d \in Epochs, NEW line \in added[d]
        PROVE  \/ /\ line \in b[d] /\ line.number \in DOMAIN ls /\ line.number # Len(ls) + 1
                  /\ ls[line.number] = d
               \/ line = new /\ d = e
    <3>1. line \in b[d] \/ (line = new /\ d = e)
      BY <1>1
    <3>2. line \in b[d] => line.number \in DOMAIN ls /\ ls[line.number] = d
      BY DEF Numbered
    <3> QED
      BY <1>2, <3>1, <3>2
  <2>2. ASSUME NEW d \in Epochs, NEW line \in added[d]
        PROVE  line.number \in DOMAIN read /\ read[line.number] = d
    BY <1>2, <1>3, <2>1
  <2>3. ASSUME NEW d \in Epochs, NEW line \in added[d], NEW other \in added[d],
               line.number = other.number
        PROVE  line = other
    <3>1. line \in b[d] /\ other \in b[d] => line = other
      BY <2>3 DEF Numbered
    <3> QED
      BY <1>2, <1>3, <2>1, <2>3, <3>1
  <2> QED
    BY <2>2, <2>3 DEF Numbered
<1>5. FedFrom(f, read)
  BY <1>2 DEF FedFrom
<1>6. FedOnce(added, read, f)
  <2> SUFFICES ASSUME NEW n \in DOMAIN read, read[n] \in Epochs
               PROVE  /\ IsBuffered(added, read, n) => FeedsIn(f, n) = {}
                      /\ ~IsBuffered(added, read, n) => \E m : FeedsIn(f, n) = {m}
    BY DEF FedOnce
  <2>1. CASE n = Len(ls) + 1
    <3>1. IsBuffered(added, read, n)
      BY <1>1, <1>2, <1>3, <2>1 DEF IsBuffered
    <3>2. FeedsIn(f, n) = {}
      BY <1>2, <2>1 DEF FeedsIn, FedFrom
    <3> QED
      BY <3>1, <3>2
  <2>2. CASE n \in DOMAIN ls
    <3>1. IsBuffered(added, read, n) <=> IsBuffered(b, ls, n)
      <4>1. read[n] = ls[n] /\ n # Len(ls) + 1 /\ ls[n] \in Epochs
        BY <1>2, <2>2
      <4>2. \A line : line.number = n => (line \in added[ls[n]] <=> line \in b[ls[n]])
        BY <1>1, <1>3, <4>1
      <4> QED
        BY <4>1, <4>2 DEF IsBuffered
    <3> QED
      BY <1>2, <2>2, <3>1 DEF FedOnce
  <2> QED
    BY <1>2, <2>1, <2>2
<1> QED
  BY <1>4, <1>5, <1>6 DEF read, new, added

(* A flush of the subframes in out.                                        *)
LEMMA LinesFlushed ==
    ASSUME NEW b, NEW ls, NEW out \in SUBSET Epochs, NEW T, NEW f \in Seq(T),
           Numbered(b, ls), FedFrom(f, ls), FedOnce(b, ls, f)
    PROVE  LET left == Without(b, out)
               flushed == Append(f, Batch(b, out))
           IN  Numbered(left, ls) /\ FedFrom(flushed, ls) /\ FedOnce(left, ls, flushed)
<1> DEFINE left == Without(b, out)
           batch == Batch(b, out)
           flushed == Append(f, batch)
<1>1. \A d \in Epochs : left[d] = IF d \in out THEN {} ELSE b[d]
  BY DEF Without
<1>2. /\ \A d \in out : \A line \in b[d] : [epoch |-> d, line |-> line.number] \in batch
      /\ \A entry \in batch : /\ entry.epoch \in out
                              /\ \E line \in b[entry.epoch] : line.number = entry.line
  <2>1. ASSUME NEW d \in out, NEW line \in b[d]
        PROVE  [epoch |-> d, line |-> line.number] \in batch
    BY DEF Batch
  <2>2. ASSUME NEW entry \in batch
        PROVE  entry.epoch \in out /\ \E line \in b[entry.epoch] : line.number = entry.line
    <3>1. PICK d \in out : entry \in {[epoch |-> d, line |-> line.number] : line \in b[d]}
      BY DEF Batch
    <3>2. PICK line \in b[d] : entry = [epoch |-> d, line |-> line.number]
      BY <3>1
    <3> QED
      BY <3>2
  <2> QED
    BY <2>1, <2>2
<1> HIDE DEF batch
<1>3. /\ DOMAIN f = 1 .. Len(f) /\ Len(f) \in Nat
      /\ \A m \in DOMAIN f : m \in DOMAIN flushed /\ flushed[m] = f[m]
      /\ Len(f) + 1 \in DOMAIN flushed /\ flushed[Len(f) + 1] = batch
      /\ \A m \in DOMAIN flushed : m \in DOMAIN f \/ m = Len(f) + 1
  <2>1. f \in Seq(T \cup {batch}) /\ batch \in T \cup {batch}
    OBVIOUS
  <2> QED
    BY <2>1
<1> HIDE DEF left, flushed
<1>4. Numbered(left, ls)
  BY <1>1 DEF Numbered
<1>5. \A entry \in batch : entry.line \in DOMAIN ls /\ ls[entry.line] = entry.epoch
  BY <1>2 DEF Numbered
<1>6. FedFrom(flushed, ls)
  BY <1>3, <1>5 DEF FedFrom
<1>7. FedOnce(left, ls, flushed)
  <2> SUFFICES ASSUME NEW n \in DOMAIN ls, ls[n] \in Epochs
               PROVE  /\ IsBuffered(left, ls, n) => FeedsIn(flushed, n) = {}
                      /\ ~IsBuffered(left, ls, n) => \E m : FeedsIn(flushed, n) = {m}
    BY DEF FedOnce
  <2> DEFINE inBatch == \E entry \in batch : entry.line = n
  <2>1. FeedsIn(flushed, n) = FeedsIn(f, n) \cup (IF inBatch THEN {Len(f) + 1} ELSE {})
    BY <1>3 DEF FeedsIn
  <2>2. inBatch <=> ls[n] \in out /\ IsBuffered(b, ls, n)
    <3>1. inBatch => ls[n] \in out /\ IsBuffered(b, ls, n)
      BY <1>2, <1>5 DEF IsBuffered
    <3>2. ls[n] \in out /\ IsBuffered(b, ls, n) => inBatch
      BY <1>2 DEF IsBuffered
    <3> QED
      BY <3>1, <3>2
  <2> HIDE DEF inBatch
  <2>3. IsBuffered(left, ls, n) <=> ls[n] \notin out /\ IsBuffered(b, ls, n)
    BY <1>1 DEF IsBuffered
  <2>4. /\ IsBuffered(b, ls, n) => FeedsIn(f, n) = {}
        /\ ~IsBuffered(b, ls, n) => \E m : FeedsIn(f, n) = {m}
    BY DEF FedOnce
  <2>5. CASE inBatch
    <3>1. FeedsIn(flushed, n) = {Len(f) + 1}
      BY <2>1, <2>2, <2>4, <2>5
    <3> QED
      BY <2>2, <2>3, <2>5, <3>1
  <2>6. CASE ~inBatch
    <3>1. FeedsIn(flushed, n) = FeedsIn(f, n)
      BY <2>1, <2>6
    <3> QED
      BY <2>2, <2>3, <2>4, <2>6, <3>1
  <2> QED
    BY <2>5, <2>6
<1> QED
  BY <1>4, <1>6, <1>7 DEF left, flushed, batch

-----------------------------------------------------------------------------
(* Buffered lines are counted by their numbers.                            *)
LEMMA CountedByNumber ==
    ASSUME NEW b, NEW ls \in Seq(Int), Numbered(b, ls), NEW S \in SUBSET Buffered(b),
           NEW N \in SUBSET (DOMAIN ls), \A line \in S : line.number \in N
    PROVE  IsFiniteSet(S) /\ Cardinality(S) <= Cardinality(N) /\ Cardinality(N) \in Nat
<1> DEFINE number == [line \in S |-> line.number]
<1>1. IsFiniteSet(DOMAIN ls)
  <2>1. Len(ls) \in Int /\ DOMAIN ls = 1 .. Len(ls)
    OBVIOUS
  <2> QED
    BY <2>1, FS_Interval
<1>2. IsFiniteSet(N)
  BY <1>1, FS_Subset
<1>3. \A line, other \in S : line.number = other.number => line = other
  <2> SUFFICES ASSUME NEW line \in S, NEW other \in S, line.number = other.number
               PROVE  line = other
    OBVIOUS
  <2>1. PICK d \in Epochs : line \in b[d]
    BY DEF Buffered
  <2>2. PICK e \in Epochs : other \in b[e]
    BY DEF Buffered
  <2>3. d = ls[line.number] /\ e = ls[other.number]
    BY <2>1, <2>2 DEF Numbered
  <2>4. d = e
    BY <2>3
  <2> QED
    BY <2>1, <2>2, <2>4 DEF Numbered
<1>4. number \in Injection(S, N)
  BY <1>3 DEF Injection, IsInjective
<1> QED
  BY <1>2, <1>4, FS_Injection, FS_CardinalityType

(* After flush_ready the buffer is within its bounds, whatever it held.    *)
LEMMA FlushBounds ==
    ASSUME NEW b, NEW ls \in Seq(Int), Numbered(b, ls), NEW latest \in Int
    PROVE  LET left == Without(b, Ready(b, latest))
           IN  /\ Cardinality(Buffered(left)) <= MaxBuffered
               /\ \A e \in Epochs : left[e] # {} => latest - e < Window
<1> DEFINE left == Without(b, Ready(b, latest))
           rest == {e \in Epochs : left[e] # {}}
<1>0. MaxBuffered \in Nat /\ Window \in Nat /\ Epochs \subseteq Int
  BY BoundsAssumption DEF Epochs
<1>1. \A e \in Epochs : left[e] = IF e \in Ready(b, latest) THEN {} ELSE b[e]
  BY DEF Without
<1>2. \A e \in rest : left[e] = b[e] /\ ~WatermarkReady(e, latest) /\ ~BufferTooDeep(b, e)
  BY <1>1 DEF Ready
<1> HIDE DEF left
<1>3. \A e \in Epochs : left[e] # {} => latest - e < Window
  BY <1>0, <1>2 DEF WatermarkReady
<1>4. Cardinality(Buffered(left)) <= MaxBuffered
  <2>1. CASE rest = {}
    <3>1. Buffered(left) = {}
      BY <2>1 DEF Buffered
    <3> QED
      BY <1>0, <3>1, FS_EmptySet
  <2>2. CASE rest # {}
    <3>1. rest \in SUBSET Nat
      BY DEF Epochs
    <3>2. PICK first \in rest : \A e \in rest : first <= e
      BY <2>2, <3>1, LeastOf
    <3>3. Buffered(left) \subseteq LinesFrom(b, first)
      <4> SUFFICES ASSUME NEW line \in Buffered(left) PROVE line \in LinesFrom(b, first)
        OBVIOUS
      <4>1. PICK e \in Epochs : line \in left[e]
        BY DEF Buffered
      <4>2. e \in rest /\ e \in first .. MaxEpoch /\ line \in b[e]
        BY <1>2, <3>1, <3>2, <4>1, BoundsAssumption DEF Epochs
      <4> QED
        BY <4>2 DEF LinesFrom
    <3>4. LinesFrom(b, first) \subseteq Buffered(b)
      <4> SUFFICES ASSUME NEW line \in LinesFrom(b, first) PROVE line \in Buffered(b)
        OBVIOUS
      <4>1. PICK e \in first .. MaxEpoch : line \in b[e]
        BY DEF LinesFrom
      <4>2. e \in Epochs
        BY <3>1, BoundsAssumption DEF Epochs
      <4> QED
        BY <4>1, <4>2 DEF Buffered
    <3>5. \A line \in LinesFrom(b, first) : line.number \in DOMAIN ls
      BY <3>4 DEF Buffered, Numbered
    <3>6. IsFiniteSet(LinesFrom(b, first))
      BY <3>4, <3>5, CountedByNumber
    <3>7. Cardinality(LinesFrom(b, first)) \in Nat /\ Cardinality(Buffered(left)) \in Nat
          /\ Cardinality(Buffered(left)) <= Cardinality(LinesFrom(b, first))
      BY <3>3, <3>6, FS_Subset, FS_CardinalityType
    <3>8. ~(Cardinality(LinesFrom(b, first)) > MaxBuffered)
      BY <1>2 DEF BufferTooDeep
    <3> QED
      BY <1>0, <3>7, <3>8
  <2> QED
    BY <2>1, <2>2
<1> QED
  BY <1>3, <1>4 DEF left

-----------------------------------------------------------------------------
(* The invariant of the JSON reader.                                       *)
FedEntries == SUBSET [epoch : Epochs, line : Nat]

ReaderTypeOK ==
    /\ line_count = Len(lines) /\ lines \in Seq(Int)
    /\ \A n \in DOMAIN lines : lines[n] \in Epochs \cup {0}
    /\ newest_seen \in Epochs \cup {0}
    /\ reorder_buffer = [e \in Epochs |-> reorder_buffer[e]]
    /\ fed \in Seq(FedEntries)
    /\ ended \in BOOLEAN
    /\ source # "json" => \A e \in Epochs : reorder_buffer[e] = {}

(* The newest line is the newest of those read.                            *)
NewestSeen ==
    /\ newest_seen # 0 => \E n \in DOMAIN lines : lines[n] = newest_seen
    /\ \A n \in DOMAIN lines : lines[n] <= newest_seen

NothingLeftOver == ended => \A e \in Epochs : reorder_buffer[e] = {}

ReaderInv ==
    /\ ReaderTypeOK
    /\ NewestSeen
    /\ Numbered(reorder_buffer, lines)
    /\ FedFrom(fed, lines)
    /\ FedOnce(reorder_buffer, lines, fed)
    /\ BufferBounded
    /\ NothingLeftOver

LEMMA InitReaderInv == Init => ReaderInv
<1> SUFFICES ASSUME Init PROVE ReaderInv
  OBVIOUS
<1>1. /\ line_count = 0 /\ lines = <<>> /\ newest_seen = 0 /\ fed = <<>> /\ ended = FALSE
      /\ reorder_buffer = [e \in Epochs |-> {}]
  BY DEF Init, JsonInit
<1>2. Buffered(reorder_buffer) = {}
  BY <1>1 DEF Buffered
<1>3. BufferBounded
  <2>1. Cardinality(Buffered(reorder_buffer)) = 0
    BY <1>2, FS_EmptySet
  <2> QED
    BY <1>1, <2>1, BoundsAssumption DEF BufferBounded
<1>4. ReaderTypeOK /\ NewestSeen /\ NothingLeftOver
  <2>1. Len(lines) = 0 /\ DOMAIN lines = {} /\ lines \in Seq(Int) /\ fed \in Seq(FedEntries)
    BY <1>1
  <2>2. \A e \in Epochs : reorder_buffer[e] = {}
    BY <1>1
  <2>3. reorder_buffer = [e \in Epochs |-> reorder_buffer[e]]
    BY <1>1
  <2>4. ReaderTypeOK
    BY <1>1, <2>1, <2>2, <2>3 DEF ReaderTypeOK
  <2> QED
    BY <1>1, <2>1, <2>2, <2>4 DEF NewestSeen, NothingLeftOver
<1>5. Numbered(reorder_buffer, lines) /\ FedFrom(fed, lines) /\ FedOnce(reorder_buffer, lines, fed)
  BY <1>1 DEF Numbered, FedFrom, FedOnce
<1> QED
  BY <1>3, <1>4, <1>5 DEF ReaderInv

(* A step that leaves the reader alone keeps its invariant.                *)
LEMMA ReaderKept ==
    ASSUME ReaderInv, UNCHANGED <<jsonVars, source>>,
           ended' \in BOOLEAN, ended' => ended \/ source # "json"
    PROVE  ReaderInv'
<1>1. UNCHANGED <<line_count, reorder_buffer, newest_seen, fed, lines, source>>
  BY DEF jsonVars
<1>2. ReaderTypeOK' /\ NothingLeftOver'
  BY <1>1 DEF ReaderInv, ReaderTypeOK, NothingLeftOver
<1>3. NewestSeen' /\ BufferBounded'
  BY <1>1 DEF ReaderInv, NewestSeen, BufferBounded, Buffered
<1>4. (Numbered(reorder_buffer, lines))' /\ (FedFrom(fed, lines))'
  BY <1>1 DEF ReaderInv, Numbered, FedFrom
<1>5. (FedOnce(reorder_buffer, lines, fed))'
  BY <1>1 DEF ReaderInv, FedOnce, IsBuffered, FeedsIn
<1> QED
  BY <1>2, <1>3, <1>4, <1>5 DEF ReaderInv

(* What is flushed at once is the list of its lines.                       *)
LEMMA BatchTyped ==
    ASSUME NEW b, NEW ls \in Seq(Int), Numbered(b, ls), NEW out \in SUBSET Epochs
    PROVE  Batch(b, out) \in FedEntries
<1> SUFFICES ASSUME NEW entry \in Batch(b, out) PROVE entry \in [epoch : Epochs, line : Nat]
  BY DEF FedEntries
<1>1. PICK e \in out : entry \in {[epoch |-> e, line |-> line.number] : line \in b[e]}
  BY DEF Batch
<1>2. PICK line \in b[e] : entry = [epoch |-> e, line |-> line.number]
  BY <1>1
<1>3. line.number \in DOMAIN ls
  BY <1>2 DEF Numbered
<1>4. line.number \in Nat
  BY <1>3
<1> QED
  BY <1>2, <1>4

(* What any flush leaves: the invariant but for the bounds.                *)
LEMMA FlushKept ==
    ASSUME NEW b, b = [e \in Epochs |-> b[e]], NEW ls \in Seq(Int), NEW out \in SUBSET Epochs,
           fed \in Seq(FedEntries), Numbered(b, ls), FedFrom(fed, ls), FedOnce(b, ls, fed),
           reorder_buffer' = Without(b, out), fed' = Append(fed, Batch(b, out)), lines' = ls
    PROVE  /\ reorder_buffer' = [e \in Epochs |-> reorder_buffer'[e]]
           /\ \A e \in Epochs : reorder_buffer'[e] = IF e \in out THEN {} ELSE b[e]
           /\ fed' \in Seq(FedEntries)
           /\ (Numbered(reorder_buffer, lines))'
           /\ (FedFrom(fed, lines))'
           /\ (FedOnce(reorder_buffer, lines, fed))'
<1> DEFINE left == Without(b, out)
           flushed == Append(fed, Batch(b, out))
<1>1. Numbered(left, ls) /\ FedFrom(flushed, ls) /\ FedOnce(left, ls, flushed)
  BY LinesFlushed
<1>2. /\ left = [e \in Epochs |-> left[e]]
      /\ \A e \in Epochs : left[e] = IF e \in out THEN {} ELSE b[e]
  BY DEF Without
<1>3. flushed \in Seq(FedEntries)
  BY BatchTyped
<1> HIDE DEF left, flushed
<1>4. reorder_buffer' = left /\ fed' = flushed /\ lines' = ls
  BY DEF left, flushed
<1>5. (Numbered(reorder_buffer, lines))' /\ (FedFrom(fed, lines))'
  BY <1>1, <1>4 DEF Numbered, FedFrom
<1>6. (FedOnce(reorder_buffer, lines, fed))'
  <2> SUFFICES ASSUME NEW n \in DOMAIN lines', lines'[n] \in Epochs
               PROVE  /\ (IsBuffered(reorder_buffer, lines, n))' => (FeedsIn(fed, n))' = {}
                      /\ ~(IsBuffered(reorder_buffer, lines, n))' => \E m : (FeedsIn(fed, n))' = {m}
    BY DEF FedOnce
  <2>1. (IsBuffered(reorder_buffer, lines, n))' <=> IsBuffered(left, ls, n)
    BY <1>4 DEF IsBuffered
  <2>2. (FeedsIn(fed, n))' = FeedsIn(flushed, n)
    BY <1>4 DEF FeedsIn
  <2>3. n \in DOMAIN ls /\ ls[n] \in Epochs
    BY <1>4
  <2>4. /\ IsBuffered(left, ls, n) => FeedsIn(flushed, n) = {}
        /\ ~IsBuffered(left, ls, n) => \E m : FeedsIn(flushed, n) = {m}
    BY <1>1, <2>3 DEF FedOnce
  <2> QED
    BY <2>1, <2>2, <2>4
<1> QED
  BY <1>2, <1>3, <1>4, <1>5, <1>6

LEMMA ReadLineInv ==
    ASSUME ReaderInv, source = "json", NEW e \in Epochs, NEW line, ReadLine(e, line),
           UNCHANGED source
    PROVE  ReaderInv'
<1> DEFINE new == [number |-> line_count + 1, pages |-> ParseLine(line)]
           buffer == [reorder_buffer EXCEPT ![e] = @ \cup {new}]
           latest == IF e > newest_seen THEN e ELSE newest_seen
           ready == Ready(buffer, latest)
           read == Append(lines, e)
<1>1. /\ ReaderTypeOK /\ NewestSeen /\ Numbered(reorder_buffer, lines) /\ FedFrom(fed, lines)
      /\ FedOnce(reorder_buffer, lines, fed) /\ NothingLeftOver
  BY DEF ReaderInv
<1>2. /\ lines \in Seq(Int) /\ line_count = Len(lines) /\ Len(lines) \in Nat
      /\ reorder_buffer = [d \in Epochs |-> reorder_buffer[d]] /\ fed \in Seq(FedEntries)
  BY <1>1 DEF ReaderTypeOK
<1>3. /\ line_count' = line_count + 1 /\ newest_seen' = latest /\ lines' = read
      /\ reorder_buffer' = Without(buffer, ready) /\ fed' = Append(fed, Batch(buffer, ready))
      /\ ended = FALSE /\ ended' = FALSE
  BY DEF ReadLine, ReaderInv, ReaderTypeOK
<1>4. Numbered(buffer, read) /\ FedFrom(fed, read) /\ FedOnce(buffer, read, fed)
  BY <1>1, <1>2, LineAdded
<1>5. buffer = [d \in Epochs |-> buffer[d]]
  BY <1>2
<1>6. read \in Seq(Int) /\ e \in Nat /\ latest \in Epochs \cup {0} /\ latest \in Int
  BY <1>1, <1>2 DEF Epochs, ReaderTypeOK
<1>7. ready \in SUBSET Epochs
  BY DEF Ready
<1>8. /\ DOMAIN read = 1 .. (Len(lines) + 1) /\ Len(read) = Len(lines) + 1
      /\ \A n \in DOMAIN lines : n \in DOMAIN read /\ read[n] = lines[n]
      /\ Len(lines) + 1 \in DOMAIN read /\ read[Len(lines) + 1] = e
      /\ \A n \in DOMAIN read : n \in DOMAIN lines \/ n = Len(lines) + 1
  BY <1>2
<1>9. latest >= newest_seen /\ latest >= e /\ (latest = e \/ latest = newest_seen)
  BY <1>1, <1>6 DEF ReaderTypeOK, Epochs
<1> HIDE DEF buffer, ready, read, latest
<1>10. /\ reorder_buffer' = [d \in Epochs |-> reorder_buffer'[d]]
       /\ fed' \in Seq(FedEntries)
       /\ (Numbered(reorder_buffer, lines))'
       /\ (FedFrom(fed, lines))'
       /\ (FedOnce(reorder_buffer, lines, fed))'
  BY <1>2, <1>3, <1>4, <1>5, <1>6, <1>7, FlushKept
<1>11. BufferBounded'
  <2>1. /\ Cardinality(Buffered(Without(buffer, ready))) <= MaxBuffered
        /\ \A d \in Epochs : Without(buffer, ready)[d] # {} => latest - d < Window
    BY <1>4, <1>6, FlushBounds DEF ready
  <2> QED
    BY <1>3, <2>1 DEF BufferBounded, Buffered
<1>12. \A n \in DOMAIN read : read[n] \in Epochs \cup {0}
  BY <1>1, <1>8 DEF ReaderTypeOK
<1>13. ReaderTypeOK'
  BY <1>2, <1>3, <1>6, <1>8, <1>10, <1>12 DEF ReaderTypeOK
<1>14. NewestSeen'
  <2>1. \A n \in DOMAIN read : read[n] <= latest
    BY <1>1, <1>6, <1>8, <1>9 DEF NewestSeen, ReaderTypeOK, Epochs
  <2>2. latest # 0 => \E n \in DOMAIN read : read[n] = latest
    BY <1>1, <1>8, <1>9 DEF NewestSeen
  <2> QED
    BY <1>3, <2>1, <2>2 DEF NewestSeen
<1> QED
  BY <1>3, <1>10, <1>11, <1>13, <1>14 DEF ReaderInv, NothingLeftOver

(* A line without a time is not buffered.                                  *)
LEMMA SkipLineInv ==
    ASSUME ReaderInv, SkipMalformedLine, UNCHANGED source
    PROVE  ReaderInv'
<1> DEFINE read == Append(lines, 0)
<1>1. /\ lines \in Seq(Int) /\ line_count = Len(lines) /\ Len(lines) \in Nat
      /\ newest_seen \in Nat
  BY DEF ReaderInv, ReaderTypeOK, Epochs
<1>2. /\ line_count' = line_count + 1 /\ lines' = read
      /\ UNCHANGED <<reorder_buffer, newest_seen, ended, fed>>
  BY DEF SkipMalformedLine
<1>3. /\ DOMAIN read = 1 .. (Len(lines) + 1) /\ Len(read) = Len(lines) + 1 /\ read \in Seq(Int)
      /\ \A n \in DOMAIN lines : n \in DOMAIN read /\ read[n] = lines[n]
      /\ Len(lines) + 1 \in DOMAIN read /\ read[Len(lines) + 1] = 0
      /\ \A n \in DOMAIN read : n \in DOMAIN lines \/ n = Len(lines) + 1
  BY <1>1
<1>4. 0 \notin Epochs
  BY DEF Epochs
<1> HIDE DEF read
<1>5. Numbered(reorder_buffer, read) /\ FedFrom(fed, read)
  BY <1>3 DEF ReaderInv, Numbered, FedFrom
<1>6. FedOnce(reorder_buffer, read, fed)
  <2> SUFFICES ASSUME NEW n \in DOMAIN read, read[n] \in Epochs
               PROVE  /\ IsBuffered(reorder_buffer, read, n) => FeedsIn(fed, n) = {}
                      /\ ~IsBuffered(reorder_buffer, read, n) => \E m : FeedsIn(fed, n) = {m}
    BY DEF FedOnce
  <2>1. n \in DOMAIN lines /\ read[n] = lines[n]
    BY <1>3, <1>4
  <2>2. IsBuffered(reorder_buffer, read, n) <=> IsBuffered(reorder_buffer, lines, n)
    BY <2>1 DEF IsBuffered
  <2> QED
    BY <2>1, <2>2 DEF ReaderInv, FedOnce
<1>7. (Numbered(reorder_buffer, lines))' /\ (FedFrom(fed, lines))'
  BY <1>2, <1>5 DEF Numbered, FedFrom
<1>8. (FedOnce(reorder_buffer, lines, fed))'
  BY <1>2, <1>6 DEF FedOnce, IsBuffered, FeedsIn
<1>9. \A n \in DOMAIN read : read[n] \in Epochs \cup {0} /\ read[n] <= newest_seen
  BY <1>1, <1>3 DEF ReaderInv, ReaderTypeOK, NewestSeen
<1>10. ReaderTypeOK'
  BY <1>1, <1>2, <1>3, <1>9 DEF ReaderInv, ReaderTypeOK
<1>11. NewestSeen'
  BY <1>2, <1>3, <1>9 DEF ReaderInv, NewestSeen
<1>12. BufferBounded' /\ NothingLeftOver'
  BY <1>2 DEF ReaderInv, BufferBounded, Buffered, NothingLeftOver
<1> QED
  BY <1>7, <1>8, <1>10, <1>11, <1>12 DEF ReaderInv

LEMMA EndOfFileInv ==
    ASSUME ReaderInv, EndOfFile, UNCHANGED source
    PROVE  ReaderInv'
<1> DEFINE rest == {e \in Epochs : reorder_buffer[e] # {}}
<1>1. /\ ended' = TRUE /\ reorder_buffer' = Without(reorder_buffer, rest)
      /\ fed' = Append(fed, Batch(reorder_buffer, rest))
      /\ UNCHANGED <<line_count, newest_seen, lines>>
  BY DEF EndOfFile
<1>2. rest \in SUBSET Epochs
  OBVIOUS
<1>3. /\ ReaderTypeOK /\ Numbered(reorder_buffer, lines) /\ FedFrom(fed, lines)
      /\ FedOnce(reorder_buffer, lines, fed)
  BY DEF ReaderInv
<1>4. \A e \in Epochs : e \notin rest => reorder_buffer[e] = {}
  OBVIOUS
<1> HIDE DEF rest
<1>5. /\ reorder_buffer' = [d \in Epochs |-> reorder_buffer'[d]]
      /\ \A e \in Epochs : reorder_buffer'[e] = IF e \in rest THEN {} ELSE reorder_buffer[e]
      /\ fed' \in Seq(FedEntries)
      /\ (Numbered(reorder_buffer, lines))'
      /\ (FedFrom(fed, lines))'
      /\ (FedOnce(reorder_buffer, lines, fed))'
  <2>1. /\ reorder_buffer = [e \in Epochs |-> reorder_buffer[e]] /\ lines \in Seq(Int)
        /\ fed \in Seq(FedEntries)
    BY <1>3 DEF ReaderTypeOK
  <2>2. lines' = lines
    BY <1>1
  <2> QED
    BY <1>1, <1>2, <1>3, <2>1, <2>2, FlushKept
<1>6. \A e \in Epochs : reorder_buffer'[e] = {}
  BY <1>4, <1>5
<1>7. ReaderTypeOK'
  BY <1>1, <1>3, <1>5, <1>6 DEF ReaderTypeOK
<1>8. NewestSeen' /\ NothingLeftOver'
  BY <1>1, <1>6 DEF ReaderInv, NewestSeen, NothingLeftOver
<1>9. BufferBounded'
  <2>1. Buffered(reorder_buffer') = {}
    BY <1>6 DEF Buffered
  <2>2. Cardinality(Buffered(reorder_buffer')) = 0
    BY <2>1, FS_EmptySet
  <2> QED
    BY <1>6, <2>2, BoundsAssumption DEF BufferBounded, Buffered
<1> QED
  BY <1>5, <1>7, <1>8, <1>9 DEF ReaderInv

LEMMA NextReaderInv == ReaderInv /\ [Next]_vars => ReaderInv'
<1> SUFFICES ASSUME ReaderInv, [Next]_vars PROVE ReaderInv'
  OBVIOUS
<1>0. ended \in BOOLEAN
  BY DEF ReaderInv, ReaderTypeOK
<1>1. CASE ReceiveLive
  BY <1>0, <1>1, ReaderKept DEF ReceiveLive
<1>2. CASE ReadJson
  <2>1. source = "json" /\ UNCHANGED source
    BY <1>2 DEF ReadJson
  <2> QED
    BY <1>2, <2>1, ReadLineInv, SkipLineInv, EndOfFileInv DEF ReadJson
<1>3. CASE ReadTestVector
  <2>1. source = "vectors" /\ ended' = TRUE /\ UNCHANGED <<jsonVars, source>>
    BY <1>3 DEF ReadTestVector
  <2> QED
    BY <2>1, ReaderKept
<1>4. CASE FeedNextPage
  BY <1>0, <1>4, ReaderKept DEF FeedNextPage
<1>5. CASE UNCHANGED vars
  BY <1>0, <1>5, ReaderKept DEF vars
<1> QED
  BY <1>1, <1>2, <1>3, <1>4, <1>5 DEF Next

(* Between two lines the reader never holds more lines than its limit, and *)
(* none older than its window, in whatever order the lines come.           *)
THEOREM BufferStaysBounded == Spec => []BufferBounded
<1>1. ReaderInv => BufferBounded
  BY DEF ReaderInv
<1> QED
  BY <1>1, InitReaderInv, NextReaderInv, PTL DEF Spec

(* No line that was read is lost, and none is fed twice.                   *)
THEOREM LinesAreFedOnce == Spec => []EveryLineFedOnce
<1>1. ReaderInv => EveryLineFedOnce
  <2> SUFFICES ASSUME ReaderInv, NEW n \in DOMAIN lines, lines[n] # 0
               PROVE  /\ \A m \in DOMAIN fed : \A entry \in fed[m] :
                            entry.line = n => entry.epoch = lines[n]
                      /\ Cardinality(Feeds(n)) =
                           IF n \in {line.number : line \in Buffered(reorder_buffer)} THEN 0 ELSE 1
                      /\ ended => Feeds(n) # {}
    BY DEF EveryLineFedOnce
  <2>1. lines[n] \in Epochs
    BY DEF ReaderInv, ReaderTypeOK
  <2>2. Feeds(n) = FeedsIn(fed, n)
    BY DEF Feeds, FeedsIn
  <2>3. n \in {line.number : line \in Buffered(reorder_buffer)} <=>
            IsBuffered(reorder_buffer, lines, n)
    BY <2>1 DEF ReaderInv, Numbered, IsBuffered, Buffered
  <2>4. \A m \in DOMAIN fed : \A entry \in fed[m] : entry.line = n => entry.epoch = lines[n]
    BY DEF ReaderInv, FedFrom
  <2>5. CASE IsBuffered(reorder_buffer, lines, n)
    <3>1. Feeds(n) = {} /\ ~ended
      BY <2>1, <2>2, <2>5 DEF ReaderInv, FedOnce, NothingLeftOver, IsBuffered
    <3> QED
      BY <2>3, <2>4, <2>5, <3>1, FS_EmptySet
  <2>6. CASE ~IsBuffered(reorder_buffer, lines, n)
    <3>1. PICK m : Feeds(n) = {m}
      BY <2>1, <2>2, <2>6 DEF ReaderInv, FedOnce
    <3> QED
      BY <2>3, <2>4, <2>6, <3>1, FS_Singleton
  <2> QED
    BY <2>5, <2>6
<1> QED
  BY <1>1, InitReaderInv, NextReaderInv, PTL DEF Spec
-----------------------------------------------------------------------------
(* Page times lie on a grid: subframes, and the pages of each.              *)
LEMMA DivMod ==
    ASSUME NEW n \in Nat \ {0}, NEW e \in Nat, NEW r \in Nat, r < n
    PROVE  (e * n + r) \div n = e /\ (e * n + r) % n = r
<1> DEFINE x == e * n + r
           q == x \div n
           m == x % n
<1>1. x \in Nat /\ q \in Int /\ m \in Int /\ x = n * q + m /\ 0 <= m /\ m < n
  OBVIOUS
<1>0. x = n * e + r
  OBVIOUS
<1> HIDE DEF x, q, m
<1>2. n * (q - e) = r - m
  BY <1>0, <1>1
<1>3. ~(q - e >= 1)
  BY <1>1, <1>2
<1>4. ~(q - e <= -1)
  BY <1>1, <1>2
<1>5. q = e
  BY <1>1, <1>3, <1>4
<1>6. m = r
  BY <1>0, <1>1, <1>5
<1> QED
  BY <1>5, <1>6 DEF x, q, m

(* Where a page goes is found from its time.                               *)
LEMMA OnTheGrid ==
    ASSUME NEW e \in Nat, NEW i \in PageIndices
    PROVE  /\ PageStart(e, i) \in Nat
           /\ PageStart(e, i) \div SubframeSeconds = e
           /\ (PageStart(e, i) % SubframeSeconds) \div PageSeconds = i
           /\ PageStart(e, 0) <= PageStart(e, i)
           /\ PageStart(e, i) < PageStart(e + 1, 0)
<1> DEFINE r == i * PageSeconds
           n == SubframeSeconds
<1>1. PageSeconds \in Nat \ {0} /\ PageCount \in Nat \ {0} /\ i \in Nat /\ i <= PageCount - 1
  BY SizesAssumption DEF PageIndices
<1>2. n \in Nat \ {0} /\ r \in Nat
  BY <1>1 DEF SubframeSeconds
<1>3. r < n
  <2>1. r <= (PageCount - 1) * PageSeconds
    BY <1>1
  <2>2. (PageCount - 1) * PageSeconds = n - PageSeconds
    BY <1>1 DEF SubframeSeconds
  <2> QED
    BY <1>1, <1>2, <2>1, <2>2
<1>4. PageStart(e, i) = e * n + r /\ PageStart(e, 0) = e * n /\ PageStart(e + 1, 0) = (e + 1) * n
  BY <1>1, <1>2 DEF PageStart
<1> HIDE DEF n
<1>5. (e * n + r) \div n = e /\ (e * n + r) % n = r
  BY <1>2, <1>3, DivMod
<1>6. r \div PageSeconds = i
  <2>1. (i * PageSeconds + 0) \div PageSeconds = i
    BY <1>1, DivMod
  <2>2. i * PageSeconds + 0 = r
    BY <1>2
  <2> QED
    BY <2>1, <2>2
<1>7. e * n + r \in Nat /\ e * n <= e * n + r /\ e * n + r < (e + 1) * n
  <2>1. (e + 1) * n = e * n + n
    BY <1>2
  <2>2. e * n \in Nat
    BY <1>2
  <2> QED
    BY <1>2, <1>3, <2>1, <2>2
<1> QED
  BY <1>4, <1>5, <1>6, <1>7 DEF n

(* A later subframe starts later.                                          *)
LEMMA SubframesInOrder ==
    ASSUME NEW e \in Nat, NEW d \in Nat, e <= d
    PROVE  PageStart(e, 0) <= PageStart(d, 0) /\ PageStart(e, 0) \in Nat
<1> DEFINE n == SubframeSeconds
           k == d - e
<1>1. n \in Nat /\ PageSeconds \in Nat
  BY SizesAssumption DEF SubframeSeconds
<1>2. PageStart(e, 0) = e * n /\ PageStart(d, 0) = d * n
  BY <1>1 DEF PageStart
<1>3. k \in Nat /\ d = e + k
  OBVIOUS
<1> HIDE DEF n, k
<1>4. d * n = e * n + k * n /\ k * n \in Nat /\ e * n \in Nat /\ d * n \in Nat
  BY <1>1, <1>3
<1> QED
  BY <1>2, <1>4

-----------------------------------------------------------------------------
(***************************************************************************)
(* The invariant of the assembler.  While no page was late, what was heard *)
(* of a satellite is of its current subframe, and there, or of an older    *)
(* one; and the current subframe has begun.                                *)
(***************************************************************************)
Assemblies ==
    [active : BOOLEAN, epoch : Nat, chunks : [PageIndices -> [prn : Prns \cup {0}, sent : Int]]]

AssemblerTypeOK ==
    /\ shift \in {0, 1}
    /\ sats \in [Prns -> Assemblies]
    /\ newest \in Nat
    /\ ordered \in BOOLEAN
    /\ heard = [p \in Prns |-> heard[p]]
    /\ delivered = [p \in Prns |-> delivered[p]]

IsGenuine(sat, p) ==
    \A i \in PageIndices :
        sat.chunks[i] = NoChunk \/ sat.chunks[i] = [prn |-> p, sent |-> PageStart(sat.epoch, i)]

IsKept(sat, pages) ==
    /\ ~sat.active => pages = {}
    /\ \A e \in Nat, i \in PageIndices : PageStart(e, i) \in pages =>
           e <= sat.epoch /\ (e = sat.epoch => sat.chunks[i] # NoChunk)

IsFollowed(p) ==
    /\ IsKept(sats[p], heard[p])
    /\ sats[p].active /\ IsWhole(sats[p]) => sats[p].epoch \in delivered[p]
    /\ sats[p].active => PageStart(sats[p].epoch, 0) + shift <= newest

AllDelivered(p) ==
    \A e \in Nat : (\A i \in PageIndices : PageStart(e, i) \in heard[p]) => e \in delivered[p]

AssemblerInv ==
    /\ AssemblerTypeOK
    /\ \A p \in Prns : IsGenuine(sats[p], p) /\ AllDelivered(p)
    /\ ordered => \A p \in Prns : IsFollowed(p)
    /\ SubframesAreGenuine

(* What CurrentAssembly and the page make of an assembly.                  *)
WithPage(p, e, i, chunk) == [CurrentAssembly(sats[p], e) EXCEPT !.chunks[i] = chunk]

IsPlaced(sat, p, e, i, chunk) ==
    /\ sat \in Assemblies /\ sat.active = TRUE /\ sat.epoch = e
    /\ sat.chunks[i] = chunk
    /\ \A j \in PageIndices \ {i} : \/ sat.chunks[j] = NoChunk
                                    \/ (sat.chunks[j] = sats[p].chunks[j] /\ sats[p].epoch = e)
    /\ sats[p].active /\ sats[p].epoch = e =>
           \A j \in PageIndices \ {i} : sat.chunks[j] = sats[p].chunks[j]

(* A page is put into the assembly of its subframe, at its index.          *)
LEMMA PagePlaced ==
    ASSUME AssemblerTypeOK, NEW p \in Prns, NEW e \in Nat, NEW i \in PageIndices,
           NEW chunk \in [prn : Prns \cup {0}, sent : Int]
    PROVE  IsPlaced(WithPage(p, e, i, chunk), p, e, i, chunk)
<1> DEFINE sat == WithPage(p, e, i, chunk)
           started == CurrentAssembly(sats[p], e)
           Chunks == [prn : Prns \cup {0}, sent : Int]
<1>1. /\ sats[p] \in Assemblies /\ sats[p].chunks \in [PageIndices -> Chunks]
      /\ NoChunk \in Chunks
  BY DEF AssemblerTypeOK, Assemblies, NoChunk
<1>2. /\ started \in Assemblies /\ started.active = TRUE /\ started.epoch = e
      /\ \/ (started.chunks = sats[p].chunks /\ sats[p].epoch = e)
         \/ started.chunks = [j \in PageIndices |-> NoChunk]
      /\ sats[p].active /\ sats[p].epoch = e => started.chunks = sats[p].chunks
  <2>1. CASE sats[p].active /\ sats[p].epoch = e
    <3>1. started = sats[p]
      BY <2>1 DEF CurrentAssembly
    <3>2. sats[p].active = TRUE
      BY <1>1, <2>1 DEF Assemblies
    <3> QED
      BY <1>1, <2>1, <3>1, <3>2
  <2>2. CASE ~(sats[p].active /\ sats[p].epoch = e)
    <3>1. started = [active |-> TRUE, epoch |-> e, chunks |-> [j \in PageIndices |-> NoChunk]]
      BY <2>2 DEF CurrentAssembly, EmptyAssembly
    <3> QED
      BY <1>1, <2>2, <3>1 DEF Assemblies
  <2> QED
    BY <2>1, <2>2
<1>3. sat = [started EXCEPT !.chunks = [started.chunks EXCEPT ![i] = chunk]]
  BY DEF WithPage
<1> HIDE DEF started, sat
<1>4. /\ started = [active |-> started.active, epoch |-> started.epoch, chunks |-> started.chunks]
      /\ started.chunks \in [PageIndices -> Chunks]
  BY <1>2 DEF Assemblies
<1>5. /\ sat = [active |-> TRUE, epoch |-> e, chunks |-> [started.chunks EXCEPT ![i] = chunk]]
      /\ [started.chunks EXCEPT ![i] = chunk] \in [PageIndices -> Chunks]
  BY <1>2, <1>3, <1>4
<1>6. /\ sat.chunks[i] = chunk
      /\ \A j \in PageIndices \ {i} : sat.chunks[j] = started.chunks[j]
  BY <1>4, <1>5
<1>7. sat \in Assemblies /\ sat.active = TRUE /\ sat.epoch = e
  BY <1>5 DEF Assemblies
<1> HIDE DEF Chunks
<1>8. \A j \in PageIndices \ {i} : \/ sat.chunks[j] = NoChunk
                                   \/ (sat.chunks[j] = sats[p].chunks[j] /\ sats[p].epoch = e)
  BY <1>2, <1>6
<1>9. sats[p].active /\ sats[p].epoch = e =>
          \A j \in PageIndices \ {i} : sat.chunks[j] = sats[p].chunks[j]
  BY <1>2, <1>6
<1> QED
  BY <1>6, <1>7, <1>8, <1>9 DEF IsPlaced, sat

(* A page of the grid reaches the assembler.                               *)
LEMMA GoodPageInv ==
    ASSUME AssemblerInv, NEW p \in Prns, NEW e \in Nat, NEW i \in PageIndices,
           FeedGoodPage(p, PageStart(e, i) + shift, PageStart(e, i)), UNCHANGED shift
    PROVE  AssemblerInv'
<1> DEFINE sent == PageStart(e, i)
           t == sent + shift
           chunk == [prn |-> p, sent |-> sent]
           sat == WithPage(p, e, i, chunk)
<1>1. AssemblerTypeOK /\ p # 0
  BY PrnsAssumption DEF AssemblerInv
<1>2. sent \in Nat /\ t \in Nat /\ t - shift = sent
  BY <1>1, OnTheGrid DEF AssemblerTypeOK
<1>3. PageIndexFromTow(t) = i /\ SubframeEpochFromTime(t) = e
  BY <1>2, OnTheGrid DEF PageIndexFromTow, SubframeEpochFromTime, PageReferenceTow
<1>4. IsPlaced(sat, p, e, i, chunk)
  <2>1. chunk \in [prn : Prns \cup {0}, sent : Int]
    BY <1>2
  <2> QED
    BY <1>1, <2>1, PagePlaced
<1>5. /\ sats' = [sats EXCEPT ![p] = sat]
      /\ subframe' = IF IsWhole(sat) THEN [prn |-> p, epoch |-> sat.epoch, chunks |-> sat.chunks]
                     ELSE NoSubframe
      /\ ordered' = (ordered /\ t >= newest)
      /\ newest' = IF t > newest THEN t ELSE newest
      /\ heard' = IF ordered' THEN [heard EXCEPT ![p] = @ \cup {sent}] ELSE heard
  BY <1>3 DEF FeedGoodPage, FeedParsedPage, NotesTime, WithPage
<1>6. \/ /\ subframe' # NoSubframe
         /\ delivered' = IF ordered' THEN [delivered EXCEPT ![p] = @ \cup {subframe'.epoch}]
                         ELSE delivered
      \/ subframe' = NoSubframe /\ delivered' = delivered
  BY DEF FeedGoodPage
<1>7. PageStart(e, 0) <= sent
  BY OnTheGrid
<1> HIDE DEF sat
<1>8. IsWhole(sat) => subframe' # NoSubframe /\ subframe'.epoch = e
  BY <1>1, <1>4, <1>5 DEF NoSubframe, IsPlaced
<1>9. ~IsWhole(sat) => delivered' = delivered
  BY <1>5, <1>6
<1>10. AssemblerTypeOK'
  <2>1. sats' \in [Prns -> Assemblies]
    BY <1>1, <1>4, <1>5 DEF AssemblerTypeOK, IsPlaced
  <2>2. newest' \in Nat /\ ordered' \in BOOLEAN
    BY <1>1, <1>2, <1>5 DEF AssemblerTypeOK
  <2>3. heard' = [q \in Prns |-> heard'[q]]
    BY <1>1, <1>5 DEF AssemblerTypeOK
  <2>4. delivered' = [q \in Prns |-> delivered'[q]]
    BY <1>1, <1>6 DEF AssemblerTypeOK
  <2> QED
    BY <1>1, <2>1, <2>2, <2>3, <2>4 DEF AssemblerTypeOK
<1>11. /\ sats'[p] = sat
       /\ \A q \in Prns : q # p => sats'[q] = sats[q] /\ heard'[q] = heard[q] /\ delivered'[q] = delivered[q]
       /\ heard'[p] = IF ordered' THEN heard[p] \cup {sent} ELSE heard[p]
       /\ \A q \in Prns : delivered[q] \subseteq delivered'[q]
       /\ IsWhole(sat) /\ ordered' => e \in delivered'[p]
  BY <1>1, <1>5, <1>6, <1>8 DEF AssemblerTypeOK
<1>12. IsGenuine(sat, p)
  BY <1>4 DEF AssemblerInv, IsGenuine, IsPlaced
<1>13. SubframesAreGenuine'
  <2> SUFFICES ASSUME subframe' # NoSubframe, NEW j \in PageIndices
               PROVE  subframe'.chunks[j] =
                          [prn |-> subframe'.prn, sent |-> PageStart(subframe'.epoch, j)]
    BY DEF SubframesAreGenuine
  <2>1. /\ IsWhole(sat) /\ subframe'.prn = p /\ subframe'.epoch = sat.epoch
        /\ subframe'.chunks = sat.chunks
    BY <1>5
  <2>2. sat.chunks[j] # NoChunk
    BY <2>1 DEF IsWhole, ReceivedMask
  <2> QED
    BY <1>12, <2>1, <2>2 DEF IsGenuine
<1>14. ASSUME ordered' PROVE IsKept(sat, heard[p] \cup {sent})
  <2>1. IsFollowed(p) /\ ordered /\ t >= newest
    BY <1>5, <1>14 DEF AssemblerInv
  <2>2. sats[p].active => sats[p].epoch \in Nat /\ sats[p].epoch <= e
    <3> SUFFICES ASSUME sats[p].active PROVE sats[p].epoch \in Nat /\ sats[p].epoch <= e
      OBVIOUS
    <3>1. sats[p].epoch \in Nat /\ newest \in Nat /\ shift \in Int
      BY <1>1 DEF AssemblerTypeOK, Assemblies
    <3>2. PageStart(sats[p].epoch, 0) + shift <= newest
      BY <2>1 DEF IsFollowed
    <3>3. PageStart(sats[p].epoch, 0) \in Int /\ PageStart(e + 1, 0) \in Int
      BY <3>1, SubframesInOrder
    <3>4. sent < PageStart(e + 1, 0)
      BY OnTheGrid
    <3>5. PageStart(sats[p].epoch, 0) < PageStart(e + 1, 0)
      BY <1>2, <2>1, <3>1, <3>2, <3>3, <3>4
    <3>6. ~(e + 1 <= sats[p].epoch)
      BY <3>1, <3>3, <3>5, SubframesInOrder
    <3> QED
      BY <3>1, <3>6
  <2>3. \A d \in Nat, j \in PageIndices : PageStart(d, j) = sent => d = e /\ j = i
    BY OnTheGrid
  <2>4. ASSUME NEW d \in Nat, NEW j \in PageIndices, PageStart(d, j) \in heard[p] \cup {sent}
        PROVE  d <= e /\ (d = e => sat.chunks[j] # NoChunk)
    <3>1. CASE PageStart(d, j) = sent
      <4>1. d = e /\ j = i /\ chunk # NoChunk
        BY <1>1, <2>3, <3>1 DEF NoChunk
      <4> QED
        BY <1>4, <4>1 DEF IsPlaced
    <3>2. CASE PageStart(d, j) \in heard[p]
      <4>1. /\ sats[p].active /\ d <= sats[p].epoch
            /\ d = sats[p].epoch => sats[p].chunks[j] # NoChunk
        BY <2>1, <3>2 DEF IsFollowed, IsKept
      <4>2. d <= e /\ (d = e => sats[p].epoch = e)
        BY <2>2, <4>1
      <4>3. chunk # NoChunk
        BY <1>1 DEF NoChunk
      <4> QED
        BY <1>4, <4>1, <4>2, <4>3 DEF IsPlaced
    <3> QED
      BY <2>4, <3>1, <3>2
  <2> QED
    BY <1>4, <2>4 DEF IsKept, IsPlaced
<1>15. ASSUME NEW q \in Prns PROVE (AllDelivered(q))'
  <2>1. \A d \in Nat : (\A j \in PageIndices : PageStart(d, j) \in heard[q]) => d \in delivered[q]
    BY DEF AssemblerInv, AllDelivered
  <2>2. CASE q # p \/ ~ordered'
    <3>1. heard'[q] = heard[q] /\ delivered[q] \subseteq delivered'[q]
      BY <1>11, <2>2
    <3> QED
      BY <2>1, <3>1 DEF AllDelivered
  <2>3. CASE q = p /\ ordered'
    <3> SUFFICES ASSUME NEW d \in Nat, \A j \in PageIndices : PageStart(d, j) \in heard'[p]
                 PROVE  d \in delivered'[p]
      BY <2>3 DEF AllDelivered
    <3>1. heard'[p] = heard[p] \cup {sent} /\ IsKept(sat, heard[p] \cup {sent})
      BY <1>11, <1>14, <2>3
    <3>2. CASE d = e
      <4>1. \A j \in PageIndices : sat.chunks[j] # NoChunk
        BY <1>4, <3>1, <3>2 DEF IsKept, IsPlaced
      <4>2. IsWhole(sat)
        BY <4>1 DEF IsWhole, ReceivedMask
      <4> QED
        BY <1>11, <2>3, <3>2, <4>2
    <3>3. CASE d # e
      <4>1. \A j \in PageIndices : PageStart(d, j) # sent
        BY <3>3, OnTheGrid
      <4>2. d \in delivered[p]
        BY <2>1, <2>3, <3>1, <4>1
      <4> QED
        BY <1>11, <4>2
    <3> QED
      BY <3>2, <3>3
  <2> QED
    BY <2>2, <2>3
<1>16. ASSUME ordered', NEW q \in Prns PROVE (IsFollowed(q))'
  <2>1. IsFollowed(q) /\ ordered /\ t >= newest
    BY <1>5, <1>16 DEF AssemblerInv
  <2>2. newest' = t /\ newest <= newest'
    BY <1>1, <1>2, <1>5, <2>1 DEF AssemblerTypeOK
  <2>3. CASE q # p
    <3>1. sats'[q] = sats[q] /\ heard'[q] = heard[q] /\ delivered'[q] = delivered[q]
      BY <1>11, <2>3
    <3>2. sats[q].active => PageStart(sats[q].epoch, 0) + shift <= newest'
      <4>1. sats[q].epoch \in Nat /\ shift \in Int /\ newest \in Int /\ newest' \in Int
        BY <1>1, <1>10 DEF AssemblerTypeOK, Assemblies
      <4>2. PageStart(sats[q].epoch, 0) \in Int
        BY <4>1, SubframesInOrder
      <4> QED
        BY <2>1, <2>2, <4>1, <4>2 DEF IsFollowed
    <3> QED
      BY <2>1, <3>1, <3>2 DEF IsFollowed
  <2>4. CASE q = p
    <3>1. sats'[p] = sat /\ heard'[p] = heard[p] \cup {sent}
      BY <1>11, <1>16
    <3>2. IsKept(sats'[p], heard'[p])
      BY <1>14, <1>16, <3>1
    <3>3. PageStart(e, 0) + shift <= newest'
      <4>1. PageStart(e, 0) \in Int /\ shift \in Int
        BY <1>1, SubframesInOrder DEF AssemblerTypeOK
      <4> QED
        BY <1>2, <1>7, <2>2, <4>1
    <3> QED
      BY <1>4, <1>11, <1>16, <2>4, <3>1, <3>2, <3>3 DEF IsFollowed, IsPlaced
  <2> QED
    BY <2>3, <2>4
<1>17. \A q \in Prns : IsGenuine(sats'[q], q)
  BY <1>11, <1>12 DEF AssemblerInv
<1> QED
  BY <1>10, <1>13, <1>15, <1>16, <1>17 DEF AssemblerInv, IsGenuine

(* Nothing but the clock moves: a bad page, one of an impossible satellite,*)
(* a line, or the change of the timing mode before the first page.         *)
LEMMA NothingFed ==
    ASSUME AssemblerInv, UNCHANGED <<sats, heard, delivered>>,
           newest' \in Nat, newest' >= newest, ordered' \in BOOLEAN, ordered' => ordered,
           shift' \in {0, 1}, shift' = shift \/ \A p \in Prns : ~sats[p].active,
           subframe' = subframe \/ subframe' = NoSubframe
    PROVE  AssemblerInv'
<1>1. AssemblerTypeOK'
  BY DEF AssemblerInv, AssemblerTypeOK
<1>2. SubframesAreGenuine'
  BY DEF AssemblerInv, SubframesAreGenuine
<1>3. \A p \in Prns : (IsGenuine(sats[p], p) /\ AllDelivered(p))'
  BY DEF AssemblerInv, IsGenuine, AllDelivered
<1>4. ASSUME ordered', NEW p \in Prns PROVE (IsFollowed(p))'
  <2>1. IsFollowed(p)
    BY <1>4 DEF AssemblerInv
  <2>2. sats[p].active => PageStart(sats[p].epoch, 0) + shift' <= newest'
    <3> SUFFICES ASSUME sats[p].active PROVE PageStart(sats[p].epoch, 0) + shift <= newest'
      OBVIOUS
    <3>1. sats[p].epoch \in Nat /\ shift \in Int /\ newest \in Int
      BY DEF AssemblerInv, AssemblerTypeOK, Assemblies
    <3>2. PageStart(sats[p].epoch, 0) \in Int
      BY <3>1, SubframesInOrder
    <3> QED
      BY <2>1, <3>1, <3>2 DEF IsFollowed
  <2> QED
    BY <2>1, <2>2 DEF IsFollowed
<1> QED
  BY <1>1, <1>2, <1>3, <1>4 DEF AssemblerInv

(* Nothing is assembled and nothing was delivered.                         *)
LEMMA EmptyAssemblies ==
    ASSUME shift \in {0, 1}, sats = [p \in Prns |-> EmptyAssembly], newest = 0, ordered = TRUE,
           heard = [p \in Prns |-> {}], delivered = [p \in Prns |-> {}], subframe = NoSubframe
    PROVE  AssemblerInv
<1>1. EmptyAssembly \in Assemblies
  BY DEF EmptyAssembly, Assemblies, NoChunk
<1>2. AssemblerTypeOK
  BY <1>1 DEF AssemblerTypeOK
<1>3. \A p \in Prns : sats[p] = EmptyAssembly /\ heard[p] = {} /\ ~sats[p].active
  BY DEF EmptyAssembly
<1>4. 0 \in PageIndices
  BY SizesAssumption DEF PageIndices
<1>5. \A p \in Prns : IsGenuine(sats[p], p) /\ AllDelivered(p)
  BY <1>3, <1>4 DEF IsGenuine, EmptyAssembly, AllDelivered
<1>6. \A p \in Prns : IsFollowed(p)
  BY <1>3 DEF IsFollowed, IsKept
<1> QED
  BY <1>2, <1>5, <1>6 DEF AssemblerInv, SubframesAreGenuine

-----------------------------------------------------------------------------
(* A page that waits to be fed lies on the grid of its source.             *)
JsonPages == {page \in [prn : Prns \cup BadPrns, index : PageIndices, sent : PageIndices] :
                 page.sent = page.index}

IsWaiting(page) ==
    /\ page.prn \in Prns \cup BadPrns
    /\ source = "json" => /\ page.epoch \in Epochs /\ page.index \in PageIndices
                          /\ page.sent = page.index
    /\ source = "vectors" => /\ \E e \in Nat, i \in PageIndices : page.sent = PageStart(e, i)
                             /\ page.time = page.sent + 1

(* A line that is parsed gives pages at their indices.                     *)
LEMMA ParsedPages ==
    ASSUME NEW line \in LineContents PROVE ParseLine(line) \in SUBSET JsonPages
<1> SUFFICES ASSUME NEW page \in ParseLine(line) PROVE page \in JsonPages
  OBVIOUS
<1>0. PICK n \in DOMAIN line : \E i \in DOMAIN line[n].items :
          page = [prn |-> line[n].prn, index |-> PageIndex(line[n].items, i), sent |-> i - 1]
  BY DEF ParseLine
<1>1. PICK i \in DOMAIN line[n].items :
          page = [prn |-> line[n].prn, index |-> PageIndex(line[n].items, i), sent |-> i - 1]
  BY <1>0
<1>2. line[n].prn \in Prns \cup BadPrns /\ i \in 1 .. PageCount
  BY LinesAssumption
<1>3. i - 1 \in PageIndices
  BY <1>2, SizesAssumption DEF PageIndices
<1> QED
  BY <1>1, <1>2, <1>3 DEF JsonPages, PageIndex

(* The pages that are flushed are of the subframes that are flushed.       *)
LEMMA FlushedPages ==
    ASSUME NEW b, NEW out \in SUBSET Epochs,
           \A e \in Epochs : \A line \in b[e] : line.pages \in SUBSET JsonPages
    PROVE  \A page \in PagesOf(b, out) :
               /\ page.prn \in Prns \cup BadPrns
               /\ page.epoch \in out /\ page.index \in PageIndices /\ page.sent = page.index
               /\ b[page.epoch] # {}
<1> SUFFICES ASSUME NEW page \in PagesOf(b, out)
             PROVE  /\ page.prn \in Prns \cup BadPrns
                    /\ page.epoch \in out /\ page.index \in PageIndices /\ page.sent = page.index
                    /\ b[page.epoch] # {}
  OBVIOUS
<1>1. PICK e \in out : \E line \in b[e] : \E parsed \in line.pages :
          page = PageOf(e, line.number, parsed)
  BY DEF PagesOf
<1>2. PICK line \in b[e] : \E parsed \in line.pages : page = PageOf(e, line.number, parsed)
  BY <1>1
<1>3. PICK parsed \in line.pages : page = PageOf(e, line.number, parsed)
  BY <1>2
<1>4. parsed \in JsonPages
  BY <1>2
<1>5. parsed.prn \in Prns \cup BadPrns /\ parsed.index \in PageIndices /\ parsed.sent = parsed.index
  BY <1>4 DEF JsonPages
<1> QED
  BY <1>1, <1>3, <1>5 DEF PageOf

-----------------------------------------------------------------------------
(***************************************************************************)
(* The times that the reader of test vectors gives its pages, on the time  *)
(* scale of the recording: they are right because DaysFromCivil counts the *)
(* days as the calendar does (DaysAreDates).                               *)
(***************************************************************************)
LEMMA DaysAreRight ==
    ASSUME NEW date \in Dates, DeltaDays(date) >= 0
    PROVE  DeltaDays(date) = GalileoDays(date) /\ DeltaDays(date) \in Int
<1>1. GalileoEpoch \in Dates
  <2>1. 22 <= MonthDays(1999, 8) /\ 1999 \in Nat /\ 8 \in 1 .. 12 /\ 22 \in 1 .. 31
    BY SMT DEF MonthDays
  <2> QED
    BY <2>1 DEF GalileoEpoch, Date, Dates
<1> DEFINE days == DaysFromCivil(date)
           first == DaysFromCivil(GalileoEpoch)
<1>2. days \in Int /\ first \in Int /\ DeltaDays(date) = days - first
  BY <1>1, NumberOfDate DEF DeltaDays
<1>3. ~IsBefore(date, GalileoEpoch)
  <2>1. ~(days < first)
    <3> HIDE DEF days, first
    <3> QED
      BY <1>2
  <2> QED
    BY <1>1, <2>1, EarlierIsLess
<1>4. days - first = GalileoDays(date)
  BY <1>1, <1>3, DaysAreDates DEF GalileoDays
<1> HIDE DEF days, first
<1> QED
  BY <1>2, <1>4

TimeOf(name, k) ==
    SinceRecording(GalileoDays(name.date), name.second, SubframeSeconds, PageTime(name, k))

(* A page of a test vector gets a second after the time it was sent at.    *)
LEMMA TimesAreRight ==
    ASSUME NEW name \in FileNames, HasStartTime(name), NEW k \in Nat
    PROVE  TimeOf(name, k) = ((name.second - 1) % SubframeSeconds) + 2 * k + 1
<1> DEFINE d == DeltaDays(name.date)
           s == name.second
           g == (s - 1) % SubframeSeconds
           tow == (d % 7) * 86400 + s
           x == tow + 2 * k
           t == PageTime(name, k)
<1>1. d \in Int /\ s \in Nat /\ d = GalileoDays(name.date) /\ SubframeSeconds \in Nat \ {0}
  BY DaysAreRight, NamesAssumption, SizesAssumption DEF HasStartTime, SubframeSeconds
<1>2. g \in Int
  BY <1>1
<1>3. t.wn = (d \div 7) + (x \div 604800) /\ t.tow = x % 604800
  BY DEF PageTime, StartTime, DaySeconds, GST!AddSeconds, GST!Time, GST!WeekSeconds
<1>4. TimeOf(name, k) = (7 * t.wn - d) * 86400 + t.tow - (s - 1 - g)
  BY <1>1 DEF TimeOf, SinceRecording, DaySeconds
<1>5. x \in Int /\ x = tow + 2 * k /\ tow = (d % 7) * 86400 + s
  BY <1>1
<1> HIDE DEF d, s, g, x, t, tow
<1> DEFINE week == d \div 7
           day == d % 7
           later == x \div 604800
           sec == x % 604800
<1>6. /\ 604800 * later + sec = x /\ 7 * week + day = d
      /\ later \in Int /\ sec \in Int /\ week \in Int /\ day \in Int
  BY <1>1, <1>5
<1>7. t.wn = week + later /\ t.tow = sec /\ x = day * 86400 + s + 2 * k
  BY <1>3, <1>5
<1> HIDE DEF week, day, later, sec
<1>8. (7 * (week + later) - d) * 86400 + sec - (s - 1 - g) = g + 2 * k + 1
  BY <1>1, <1>2, <1>6, <1>7
<1> QED
  BY <1>4, <1>7, <1>8 DEF g, s, t

-----------------------------------------------------------------------------
(***************************************************************************)
(* The invariant of the whole input: what is buffered and what waits to be *)
(* fed lies on the grid, in the timing mode the assembler is in.           *)
(***************************************************************************)
BufferedPages(b) == \A e \in Epochs : \A line \in b[e] : line.pages \in SUBSET JsonPages

ModeOfSource ==
    /\ source \in {"live", "json", "vectors"}
    /\ source = "live" => pending = {}
    /\ source = "json" => shift = 0
    /\ source = "vectors" /\ ended => shift = 1
    /\ source = "vectors" /\ ~ended =>
           pending = {} /\ newest = 0 /\ ordered = TRUE /\ \A p \in Prns : ~sats[p].active

PipelineInv ==
    /\ ReaderInv
    /\ AssemblerInv
    /\ ModeOfSource
    /\ BufferedPages(reorder_buffer)
    /\ \A page \in pending : IsWaiting(page)

LEMMA InitPipelineInv == Init => PipelineInv
<1> SUFFICES ASSUME Init PROVE PipelineInv
  OBVIOUS
<1>1. /\ source \in {"live", "json", "vectors"} /\ pending = {} /\ ended = FALSE
      /\ reorder_buffer = [e \in Epochs |-> {}]
      /\ shift \in IF source = "live" THEN ModeShifts ELSE {0}
  BY DEF Init, JsonInit, Shift
<1>2. shift \in {0, 1}
  BY <1>1, ShiftsAssumption
<1>3. /\ sats = [p \in Prns |-> EmptyAssembly] /\ newest = 0 /\ ordered = TRUE
      /\ heard = [p \in Prns |-> {}] /\ delivered = [p \in Prns |-> {}] /\ subframe = NoSubframe
  BY DEF Init, AssemblerInit
<1>4. AssemblerInv
  BY <1>2, <1>3, EmptyAssemblies
<1>5. \A p \in Prns : ~sats[p].active
  BY <1>3 DEF EmptyAssembly
<1>6. ModeOfSource /\ BufferedPages(reorder_buffer) /\ \A page \in pending : IsWaiting(page)
  BY <1>1, <1>3, <1>5 DEF ModeOfSource, BufferedPages
<1> QED
  BY <1>4, <1>6, InitReaderInv DEF PipelineInv

LEMMA LiveInv ==
    ASSUME PipelineInv, ReceiveLive
    PROVE  AssemblerInv' /\ ModeOfSource'
<1>1. /\ source = "live" /\ AssemblerInv /\ ModeOfSource
      /\ UNCHANGED <<pending, shift, source>>
  BY DEF ReceiveLive, PipelineInv
<1>2. ModeOfSource'
  BY <1>1 DEF ModeOfSource
<1>3. shift \in {0, 1} /\ newest \in Nat /\ ordered \in BOOLEAN
  BY <1>1 DEF AssemblerInv, AssemblerTypeOK
<1>4. CASE ReceivePage
  <2>1. PICK p \in Prns, sent \in Pages :
            \/ FeedGoodPage(p, sent + shift, sent)
            \/ \E reason : FeedBadPage(p, sent + shift, reason)
    BY <1>4 DEF ReceivePage
  <2>2. PICK e \in 0 .. MaxSubframe, i \in PageIndices : sent = PageStart(e, i)
    BY DEF Pages
  <2>3. e \in Nat /\ sent \in Nat
    BY <2>2, OnTheGrid
  <2>4. CASE FeedGoodPage(p, sent + shift, sent)
    <3>1. FeedGoodPage(p, PageStart(e, i) + shift, PageStart(e, i))
      BY <2>2, <2>4
    <3>2. AssemblerInv'
      BY <1>1, <2>3, <3>1, GoodPageInv
    <3> QED
      BY <1>2, <3>2
  <2>5. CASE \E reason : FeedBadPage(p, sent + shift, reason)
    <3>1. /\ UNCHANGED <<sats, heard, delivered>> /\ subframe' = NoSubframe
          /\ ordered' = (ordered /\ sent + shift >= newest)
          /\ newest' = IF sent + shift > newest THEN sent + shift ELSE newest
      BY <2>5 DEF FeedBadPage, NotesTime
    <3>2. sent + shift \in Nat
      BY <1>3, <2>3
    <3>3. newest' \in Nat /\ newest' >= newest /\ ordered' \in BOOLEAN /\ (ordered' => ordered)
      BY <1>3, <3>1, <3>2
    <3>4. AssemblerInv'
      BY <1>1, <1>3, <3>1, <3>3, NothingFed
    <3> QED
      BY <1>2, <3>4
  <2> QED
    BY <1>2, <2>1, <2>4, <2>5
<1>5. CASE RejectPage
  BY <1>1, <1>2, <1>3, <1>5, NothingFed DEF RejectPage
<1>6. CASE Reset
  <2>1. /\ shift' \in {0, 1} /\ sats' = [p \in Prns |-> EmptyAssembly] /\ newest' = 0
        /\ ordered' = TRUE /\ heard' = [p \in Prns |-> {}] /\ delivered' = [p \in Prns |-> {}]
        /\ subframe' = NoSubframe
    BY <1>1, <1>3, <1>6 DEF Reset
  <2>2. EmptyAssembly \in Assemblies
    BY DEF EmptyAssembly, Assemblies, NoChunk
  <2>3. AssemblerTypeOK'
    BY <2>1, <2>2 DEF AssemblerTypeOK
  <2>4. \A p \in Prns : sats'[p] = EmptyAssembly /\ heard'[p] = {} /\ ~sats'[p].active
    BY <2>1 DEF EmptyAssembly
  <2>5. 0 \in PageIndices
    BY SizesAssumption DEF PageIndices
  <2>6. \A p \in Prns : (IsGenuine(sats[p], p) /\ AllDelivered(p))'
    BY <2>4, <2>5 DEF IsGenuine, EmptyAssembly, AllDelivered
  <2>7. \A p \in Prns : (IsFollowed(p))'
    BY <2>4 DEF IsFollowed, IsKept
  <2> QED
    BY <1>2, <2>1, <2>3, <2>6, <2>7 DEF AssemblerInv, SubframesAreGenuine
<1> QED
  BY <1>2, <1>4, <1>5, <1>6 DEF ReceiveLive

(* The pages of a JSON file.                                               *)
LEMMA JsonReadInv ==
    ASSUME PipelineInv, ReadJson
    PROVE  /\ AssemblerInv' /\ ModeOfSource' /\ (BufferedPages(reorder_buffer))'
           /\ \A page \in pending' : (IsWaiting(page))'
<1>1. /\ source = "json" /\ UNCHANGED <<assemblerVars, source>>
      /\ ReaderTypeOK /\ AssemblerInv /\ ModeOfSource /\ BufferedPages(reorder_buffer)
  BY DEF ReadJson, PipelineInv, ReaderInv
<1>2. AssemblerInv'
  <2>1. UNCHANGED <<shift, sats, subframe, newest, ordered, heard, delivered>>
    BY <1>1 DEF assemblerVars
  <2>2. shift \in {0, 1} /\ newest \in Nat /\ ordered \in BOOLEAN
    BY <1>1 DEF AssemblerInv, AssemblerTypeOK
  <2> QED
    BY <1>1, <2>1, <2>2, NothingFed
<1>3. ModeOfSource'
  BY <1>1 DEF ModeOfSource, assemblerVars
<1>4. ASSUME NEW b, BufferedPages(b), NEW out \in SUBSET Epochs,
             reorder_buffer' = Without(b, out), pending' = PagesOf(b, out)
      PROVE  /\ (BufferedPages(reorder_buffer))'
             /\ \A page \in pending' : (IsWaiting(page))'
  <2>1. \A page \in PagesOf(b, out) :
            /\ page.prn \in Prns \cup BadPrns
            /\ page.epoch \in out /\ page.index \in PageIndices /\ page.sent = page.index
    BY <1>4, FlushedPages DEF BufferedPages
  <2>2. \A page \in pending' : (IsWaiting(page))'
    BY <1>1, <1>4, <2>1 DEF IsWaiting
  <2>3. (BufferedPages(reorder_buffer))'
    BY <1>4 DEF BufferedPages, Without
  <2> QED
    BY <2>2, <2>3
<1>5. CASE \E e \in Epochs, line \in LineContents : InFile(e) /\ ReadLine(e, line)
  <2>1. PICK e \in Epochs, line \in LineContents : ReadLine(e, line)
    BY <1>5
  <2> DEFINE new == [number |-> line_count + 1, pages |-> ParseLine(line)]
             buffer == [reorder_buffer EXCEPT ![e] = @ \cup {new}]
             latest == IF e > newest_seen THEN e ELSE newest_seen
             ready == Ready(buffer, latest)
  <2>2. reorder_buffer' = Without(buffer, ready) /\ pending' = PagesOf(buffer, ready)
    BY <2>1 DEF ReadLine
  <2>3. ready \in SUBSET Epochs
    BY DEF Ready
  <2>4. new.pages \in SUBSET JsonPages
    BY ParsedPages
  <2>5. \A d \in Epochs : buffer[d] = IF d = e THEN reorder_buffer[d] \cup {new}
                                     ELSE reorder_buffer[d]
    BY <1>1 DEF ReaderTypeOK
  <2> HIDE DEF new, buffer, ready
  <2>6. BufferedPages(buffer)
    BY <1>1, <2>4, <2>5 DEF BufferedPages
  <2> QED
    BY <1>2, <1>3, <1>4, <2>2, <2>3, <2>6
<1>6. CASE SkipMalformedLine
  <2>1. pending' = {} /\ reorder_buffer' = reorder_buffer
    BY <1>6 DEF SkipMalformedLine
  <2> QED
    BY <1>1, <1>2, <1>3, <2>1 DEF BufferedPages
<1>7. CASE EndOfFile
  <2> DEFINE rest == {e \in Epochs : reorder_buffer[e] # {}}
  <2>1. reorder_buffer' = Without(reorder_buffer, rest) /\ pending' = PagesOf(reorder_buffer, rest)
    BY <1>7 DEF EndOfFile
  <2>2. rest \in SUBSET Epochs
    OBVIOUS
  <2> HIDE DEF rest
  <2> QED
    BY <1>1, <1>2, <1>3, <1>4, <2>1, <2>2
<1> QED
  BY <1>5, <1>6, <1>7 DEF ReadJson

(* The pages of a test vector.                                             *)
LEMMA VectorPages ==
    ASSUME NEW name \in FileNames, HasStartTime(name), NEW rows \in Files,
           NEW decoded \in DecodedPages(rows)
    PROVE  LET sent == ((name.second - 1) % SubframeSeconds) + 2 * decoded.k
           IN  /\ decoded.prn \in Prns \cup BadPrns
               /\ decoded.k \in Nat
               /\ \E e \in Nat, i \in PageIndices : sent = PageStart(e, i)
               /\ TimeOf(name, decoded.k) = sent + 1
<1> DEFINE n == SubframeSeconds
           g == (name.second - 1) % n
           k == decoded.k
           sent == g + 2 * k
<1>1. /\ name.second \in Nat \ {0} /\ PageSeconds = 2 /\ (name.second - 1) % 2 = 0
      /\ PageCount \in Nat \ {0} /\ n = PageCount * 2 /\ n \in Nat \ {0}
  BY NamesAssumption, SizesAssumption DEF SubframeSeconds
<1>2. PICK r \in Streams(rows) : \E i \in DOMAIN rows[r].pages :
          decoded = [prn |-> rows[r].prn, k |-> i - 1, row |-> r]
  BY DEF DecodedPages
<1>3. PICK j \in DOMAIN rows[r].pages : decoded = [prn |-> rows[r].prn, k |-> j - 1, row |-> r]
  BY <1>2
<1>4. /\ r \in DOMAIN rows /\ rows[r].prn \in Prns \cup BadPrns \cup {0} /\ rows[r].prn > 0
      /\ j \in Nat \ {0}
  BY FilesAssumption DEF Streams, IsConsistent
<1>5. k \in Nat /\ decoded.prn \in Prns \cup BadPrns
  <2>1. rows[r].prn # 0
    BY <1>4
  <2> QED
    BY <1>3, <1>4, <2>1
<1>6. TimeOf(name, k) = sent + 1
  BY <1>5, TimesAreRight
<1>7. \E e \in Nat, i \in PageIndices : sent = PageStart(e, i)
  <2> DEFINE s == name.second - 1
             h == s \div 2
             q == s \div n
             m == h - q * PageCount + k
             e == m \div PageCount
             i == m % PageCount
  <2>1. s \in Nat /\ s = 2 * h /\ h \in Nat /\ q \in Nat /\ s = n * q + g /\ g \in Nat /\ g < n
    <3>1. s \in Nat /\ s % 2 = 0 /\ n \in Nat \ {0} /\ g = s % n
      BY <1>1
    <3> HIDE DEF s, n, g
    <3>2. s = 2 * h /\ h \in Nat
      BY <3>1
    <3>3. q \in Nat /\ s = n * q + g /\ g \in Nat /\ g < n
      BY <3>1
    <3> QED
      BY <3>1, <3>2, <3>3
  <2> HIDE DEF s, h, q, g, n
  <2>2. g = 2 * (h - q * PageCount)
    BY <1>1, <2>1
  <2>3. sent = 2 * m /\ m \in Nat
    BY <1>1, <1>5, <2>1, <2>2
  <2> HIDE DEF m
  <2>4. e \in Nat /\ i \in 0 .. (PageCount - 1) /\ m = PageCount * e + i
    BY <1>1, <2>3
  <2> HIDE DEF e, i, sent
  <2>5. PageStart(e, i) = e * n + i * 2
    BY <1>1 DEF PageStart, n
  <2>6. e * n = 2 * (PageCount * e) /\ PageCount * e \in Int
    BY <1>1, <2>4
  <2>7. sent = PageStart(e, i)
    BY <2>3, <2>4, <2>5, <2>6
  <2> QED
    BY <2>4, <2>7 DEF PageIndices
<1> QED
  BY <1>5, <1>6, <1>7 DEF sent, g, n

LEMMA VectorsReadInv ==
    ASSUME PipelineInv, ReadTestVector
    PROVE  /\ AssemblerInv' /\ ModeOfSource' /\ (BufferedPages(reorder_buffer))'
           /\ \A page \in pending' : (IsWaiting(page))'
<1>1. /\ source = "vectors" /\ ~ended /\ shift' = 1 /\ ended' = TRUE
      /\ UNCHANGED <<sats, subframe, newest, ordered, heard, delivered, source, reorder_buffer>>
      /\ AssemblerInv /\ ModeOfSource /\ BufferedPages(reorder_buffer)
  BY DEF ReadTestVector, PipelineInv, Shift, jsonVars
<1>2. AssemblerInv'
  <2>1. \A p \in Prns : ~sats[p].active
    BY <1>1 DEF ModeOfSource
  <2>2. newest \in Nat /\ ordered \in BOOLEAN
    BY <1>1 DEF AssemblerInv, AssemblerTypeOK
  <2> QED
    BY <1>1, <2>1, <2>2, NothingFed
<1>3. ModeOfSource' /\ (BufferedPages(reorder_buffer))'
  BY <1>1 DEF ModeOfSource, BufferedPages
<1>4. ASSUME NEW page \in pending' PROVE (IsWaiting(page))'
  <2>1. PICK name \in FileNames, rows \in Files :
            pending' = IF ~HasStartTime(name) THEN {}
                       ELSE {[prn |-> decoded.prn, k |-> decoded.k, row |-> decoded.row,
                              time |-> TimeOf(name, decoded.k),
                              sent |-> ((name.second - 1) % SubframeSeconds) + 2 * decoded.k] :
                                decoded \in DecodedPages(rows)}
    BY DEF ReadTestVector, TimeOf
  <2>2. HasStartTime(name)
    BY <1>4, <2>1
  <2>3. PICK decoded \in DecodedPages(rows) :
            page = [prn |-> decoded.prn, k |-> decoded.k, row |-> decoded.row,
                    time |-> TimeOf(name, decoded.k),
                    sent |-> ((name.second - 1) % SubframeSeconds) + 2 * decoded.k]
    BY <1>4, <2>1, <2>2
  <2> DEFINE sent == ((name.second - 1) % SubframeSeconds) + 2 * decoded.k
  <2>4. /\ decoded.prn \in Prns \cup BadPrns
        /\ \E e \in Nat, i \in PageIndices : sent = PageStart(e, i)
        /\ TimeOf(name, decoded.k) = sent + 1
    BY <2>2, VectorPages
  <2>5. page.prn = decoded.prn /\ page.sent = sent /\ page.time = sent + 1
    BY <2>3, <2>4
  <2> QED
    BY <1>1, <2>4, <2>5 DEF IsWaiting
<1> QED
  BY <1>2, <1>3, <1>4

LEMMA FeedInv ==
    ASSUME PipelineInv, FeedNextPage
    PROVE  /\ AssemblerInv' /\ ModeOfSource' /\ (BufferedPages(reorder_buffer))'
           /\ \A page \in pending' : (IsWaiting(page))'
<1>1. PICK page \in pending : pending' = pending \ {page} /\ Feed(page)
  BY DEF FeedNextPage
<1>2. /\ UNCHANGED <<reorder_buffer, ended, shift, source>>
      /\ AssemblerInv /\ ModeOfSource /\ BufferedPages(reorder_buffer) /\ IsWaiting(page)
      /\ \A other \in pending : IsWaiting(other)
  BY DEF FeedNextPage, PipelineInv, jsonVars
<1>3. /\ (BufferedPages(reorder_buffer))'
      /\ \A other \in pending' : (IsWaiting(other))'
  BY <1>1, <1>2 DEF BufferedPages, IsWaiting
<1>4. ModeOfSource'
  BY <1>1, <1>2 DEF ModeOfSource
<1>5. AssemblerInv'
  <2>1. CASE page.prn \in BadPrns
    <3>1. UNCHANGED <<sats, newest, ordered, heard, delivered>> /\ subframe' = NoSubframe
      BY <1>1, <2>1 DEF Feed, RejectPage
    <3>2. shift \in {0, 1} /\ newest \in Nat /\ ordered \in BOOLEAN
      BY <1>2 DEF AssemblerInv, AssemblerTypeOK
    <3> QED
      BY <1>2, <3>1, <3>2, NothingFed
  <2>2. CASE page.prn \notin BadPrns /\ source = "json"
    <3>1. /\ page.prn \in Prns /\ page.epoch \in Nat /\ page.index \in PageIndices
          /\ page.sent = page.index /\ shift = 0
      BY <1>2, <2>2 DEF IsWaiting, ModeOfSource, Epochs
    <3>2. PageStart(page.epoch, page.index) + shift = PageStart(page.epoch, page.index)
      BY <3>1, OnTheGrid
    <3>3. FeedGoodPage(page.prn, PageStart(page.epoch, page.index) + shift,
                       PageStart(page.epoch, page.index))
      BY <1>1, <2>2, <3>1, <3>2 DEF Feed
    <3> QED
      BY <1>2, <3>1, <3>3, GoodPageInv
  <2>3. CASE page.prn \notin BadPrns /\ source # "json"
    <3>1. source = "vectors" /\ shift = 1 /\ page.prn \in Prns
      BY <1>1, <1>2, <2>3 DEF IsWaiting, ModeOfSource
    <3>2. page.time = page.sent + 1 /\ \E e \in Nat, i \in PageIndices : page.sent = PageStart(e, i)
      BY <1>2, <3>1 DEF IsWaiting
    <3>3. PICK e \in Nat, i \in PageIndices : page.sent = PageStart(e, i)
      BY <3>2
    <3>4. FeedGoodPage(page.prn, PageStart(e, i) + shift, PageStart(e, i))
      BY <1>1, <2>3, <3>1, <3>2, <3>3 DEF Feed
    <3> QED
      BY <1>2, <3>1, <3>4, GoodPageInv
  <2> QED
    BY <2>1, <2>2, <2>3
<1> QED
  BY <1>3, <1>4, <1>5

LEMMA NextPipelineInv ==
    PipelineInv /\ [Next]_vars => PipelineInv'
<1> SUFFICES ASSUME PipelineInv, [Next]_vars PROVE PipelineInv'
  OBVIOUS
<1>1. ReaderInv'
  BY NextReaderInv DEF PipelineInv
<1>2. CASE ReceiveLive
  <2>1. AssemblerInv' /\ ModeOfSource'
    BY <1>2, LiveInv
  <2>2. UNCHANGED <<reorder_buffer, pending, source>>
    BY <1>2 DEF ReceiveLive, jsonVars
  <2> QED
    BY <1>1, <2>1, <2>2 DEF PipelineInv, BufferedPages, IsWaiting
<1>3. CASE ReadJson
  BY <1>1, <1>3, JsonReadInv DEF PipelineInv
<1>4. CASE ReadTestVector
  BY <1>1, <1>4, VectorsReadInv DEF PipelineInv
<1>5. CASE FeedNextPage
  BY <1>1, <1>5, FeedInv DEF PipelineInv
<1>6. CASE UNCHANGED vars
  <2>1. UNCHANGED <<reorder_buffer, pending, source, ended, shift, sats, subframe, newest,
                    ordered, heard, delivered>>
    BY <1>6 DEF vars, jsonVars, assemblerVars
  <2>2. AssemblerInv /\ shift \in {0, 1} /\ newest \in Nat /\ ordered \in BOOLEAN
    BY DEF PipelineInv, AssemblerInv, AssemblerTypeOK
  <2>3. AssemblerInv'
    BY <2>1, <2>2, NothingFed
  <2>4. ModeOfSource'
    BY <2>1 DEF PipelineInv, ModeOfSource
  <2> QED
    BY <1>1, <2>1, <2>3, <2>4 DEF PipelineInv, BufferedPages, IsWaiting
<1> QED
  BY <1>2, <1>3, <1>4, <1>5, <1>6 DEF Next

(* A subframe that the assembler delivers is what one satellite sent in    *)
(* one subframe, byte for byte, whatever the source, the order of its      *)
(* pages and the timing mode.                                              *)
THEOREM DeliveredIsGenuine == Spec => []SubframesAreGenuine
<1>1. PipelineInv => SubframesAreGenuine
  BY DEF PipelineInv, AssemblerInv
<1>2. PipelineInv /\ [Next]_vars => PipelineInv'
  BY NextPipelineInv
<1> QED
  BY <1>1, <1>2, InitPipelineInv, PTL DEF Spec

(* With input in order no complete subframe of any satellite is missed.    *)
THEOREM HeardSubframesAreDelivered == Spec => []HeardIsDelivered
<1>1. PipelineInv => HeardIsDelivered
  <2>1. 0 .. MaxSubframe \subseteq Nat
    BY SizesAssumption
  <2> QED
    BY <2>1 DEF PipelineInv, AssemblerInv, AllDelivered, HeardIsDelivered
<1>2. PipelineInv /\ [Next]_vars => PipelineInv'
  BY NextPipelineInv
<1> QED
  BY <1>1, <1>2, InitPipelineInv, PTL DEF Spec

-----------------------------------------------------------------------------
(***************************************************************************)
(* The order of time.  Of an orderly recording the reader flushes only     *)
(* what is a window old; so a line that is read later is of a later        *)
(* subframe than all that was fed.                                         *)
(***************************************************************************)
OrderlyLines(ls) ==
    \A n \in 1 .. Len(ls) : \E latest \in {0} \cup {ls[m] : m \in 1 .. n} :
        /\ \A m \in 1 .. n : ls[m] <= latest
        /\ ls[n] # 0 => latest - ls[n] < Window
        /\ Cardinality({m \in 1 .. n : ls[m] > latest - Window /\ ls[m] # 0}) <= MaxBuffered

(* Lines that are in order were in order before the last one.              *)
LEMMA OrderlyPrefix ==
    ASSUME NEW ls \in Seq(Int), NEW x \in Int, OrderlyLines(Append(ls, x))
    PROVE  OrderlyLines(ls)
<1> DEFINE read == Append(ls, x)
<1>1. /\ Len(ls) \in Nat /\ Len(read) = Len(ls) + 1
      /\ \A n \in 1 .. Len(ls) : read[n] = ls[n] /\ n \in 1 .. Len(read)
  OBVIOUS
<1> HIDE DEF read
<1> SUFFICES ASSUME NEW n \in 1 .. Len(ls)
             PROVE  \E latest \in {0} \cup {ls[m] : m \in 1 .. n} :
                        /\ \A m \in 1 .. n : ls[m] <= latest
                        /\ ls[n] # 0 => latest - ls[n] < Window
                        /\ Cardinality({m \in 1 .. n : ls[m] > latest - Window /\ ls[m] # 0})
                               <= MaxBuffered
  BY DEF OrderlyLines
<1>2. \A m \in 1 .. n : m \in 1 .. Len(ls) /\ read[m] = ls[m]
  BY <1>1
<1>3. PICK latest \in {0} \cup {read[m] : m \in 1 .. n} :
          /\ \A m \in 1 .. n : read[m] <= latest
          /\ read[n] # 0 => latest - read[n] < Window
          /\ Cardinality({m \in 1 .. n : read[m] > latest - Window /\ read[m] # 0}) <= MaxBuffered
  BY <1>1 DEF OrderlyLines, read
<1>4. {read[m] : m \in 1 .. n} = {ls[m] : m \in 1 .. n}
  BY <1>2
<1>5. {m \in 1 .. n : read[m] > latest - Window /\ read[m] # 0}
          = {m \in 1 .. n : ls[m] > latest - Window /\ ls[m] # 0}
  BY <1>2
<1>6. n \in 1 .. n
  BY <1>1
<1>7. /\ latest \in {0} \cup {ls[m] : m \in 1 .. n}
      /\ \A m \in 1 .. n : ls[m] <= latest
      /\ ls[n] # 0 => latest - ls[n] < Window
  BY <1>2, <1>3, <1>4, <1>6
<1>8. Cardinality({m \in 1 .. n : ls[m] > latest - Window /\ ls[m] # 0}) <= MaxBuffered
  BY <1>3, <1>5
<1> QED
  BY <1>7, <1>8

(* In an orderly recording the buffer is never too deep, and the newest    *)
(* line within the window.                                                 *)
LEMMA ReadyIsOld ==
    ASSUME NEW b, NEW ls \in Seq(Int), Numbered(b, ls), OrderlyLines(ls), NEW latest \in Nat,
           \A n \in DOMAIN ls : ls[n] \in Nat /\ ls[n] <= latest,
           \E n \in DOMAIN ls : ls[n] = latest
    PROVE  /\ \A e \in Ready(b, latest) : e <= latest - Window
           /\ ls[Len(ls)] # 0 => latest - ls[Len(ls)] < Window
<1> DEFINE n == Len(ls)
<1>1. n \in Nat /\ DOMAIN ls = 1 .. n /\ n \in 1 .. n
  OBVIOUS
<1>2. PICK top \in {0} \cup {ls[m] : m \in 1 .. n} :
          /\ \A m \in 1 .. n : ls[m] <= top
          /\ ls[n] # 0 => top - ls[n] < Window
          /\ Cardinality({m \in 1 .. n : ls[m] > top - Window /\ ls[m] # 0}) <= MaxBuffered
  BY <1>1 DEF OrderlyLines
<1>3. top = latest
  <2>1. top \in Nat /\ top <= latest
    BY <1>1, <1>2
  <2>2. latest <= top
    BY <1>1, <1>2
  <2> QED
    BY <2>1, <2>2
<1>4. ASSUME NEW e \in Ready(b, latest), ~(e <= latest - Window) PROVE FALSE
  <2> DEFINE S == LinesFrom(b, e)
             N == {m \in 1 .. n : ls[m] > latest - Window /\ ls[m] # 0}
  <2>1. e \in Nat /\ e # 0 /\ Window \in Nat /\ MaxBuffered \in Nat /\ MaxEpoch \in Nat
    BY BoundsAssumption DEF Ready, Epochs
  <2>2. Cardinality(S) > MaxBuffered
    BY <1>4, <2>1 DEF Ready, WatermarkReady, BufferTooDeep
  <2>3. ASSUME NEW line \in S PROVE line \in Buffered(b) /\ line.number \in N
    <3>1. PICK d \in e .. MaxEpoch : line \in b[d]
      BY <2>3 DEF LinesFrom
    <3>2. d \in Epochs /\ d >= e /\ d \in Nat
      BY <2>1, <3>1 DEF Epochs
    <3>3. line.number \in 1 .. n /\ ls[line.number] = d
      BY <1>1, <3>1, <3>2 DEF Numbered
    <3>4. line \in Buffered(b)
      BY <3>1, <3>2 DEF Buffered
    <3> QED
      BY <1>4, <2>1, <3>2, <3>3, <3>4
  <2>4. S \in SUBSET Buffered(b) /\ N \in SUBSET (DOMAIN ls) /\ \A line \in S : line.number \in N
    BY <1>1, <2>3
  <2> HIDE DEF S, N
  <2>5. IsFiniteSet(S) /\ Cardinality(S) <= Cardinality(N) /\ Cardinality(N) \in Nat
    BY <2>4, CountedByNumber
  <2>6. Cardinality(N) <= MaxBuffered
    BY <1>2, <1>3 DEF N
  <2>7. Cardinality(S) \in Nat
    BY <2>5, FS_CardinalityType
  <2> QED
    BY <2>1, <2>2, <2>5, <2>6, <2>7
<1> QED
  BY <1>2, <1>3, <1>4

(* Pages of one subframe start in the order of their indices.              *)
LEMMA PagesInOrder ==
    ASSUME NEW e \in Nat, NEW d \in Nat, NEW i \in PageIndices, NEW j \in PageIndices,
           e < d \/ (e = d /\ i <= j)
    PROVE  PageStart(e, i) <= PageStart(d, j)
<1>1. CASE e < d
  <2>1. e + 1 <= d /\ e + 1 \in Nat
    BY <1>1
  <2>2. PageStart(e, i) < PageStart(e + 1, 0) /\ PageStart(e, i) \in Nat
    BY OnTheGrid
  <2>3. PageStart(e + 1, 0) <= PageStart(d, 0) /\ PageStart(e + 1, 0) \in Nat
    BY <2>1, SubframesInOrder
  <2>4. PageStart(d, 0) <= PageStart(d, j) /\ PageStart(d, j) \in Nat
    BY OnTheGrid
  <2>5. PageStart(d, 0) \in Nat
    BY SubframesInOrder
  <2> QED
    BY <2>2, <2>3, <2>4, <2>5
<1>2. CASE e = d /\ i <= j
  <2> DEFINE n == SubframeSeconds
  <2>1. i \in Nat /\ j \in Nat /\ PageSeconds \in Nat /\ n \in Nat
    BY SizesAssumption DEF PageIndices, SubframeSeconds
  <2>2. PageStart(e, i) = e * n + i * PageSeconds /\ PageStart(d, j) = d * n + j * PageSeconds
    BY DEF PageStart
  <2> HIDE DEF n
  <2>3. i * PageSeconds <= j * PageSeconds /\ i * PageSeconds \in Nat /\ j * PageSeconds \in Nat
    BY <1>2, <2>1
  <2>4. e * n = d * n /\ e * n \in Nat
    BY <1>2, <2>1
  <2> QED
    BY <2>2, <2>3, <2>4
<1> QED
  BY <1>1, <1>2

(***************************************************************************)
(* What waits is not older than what was fed, and what was fed of a        *)
(* recording before its end is a window older than the newest line.        *)
(***************************************************************************)
FedUpTo(n, latest) ==
    n = 0 \/ \E e \in Nat : e <= latest - Window /\ n < PageStart(e + 1, 0)

JsonInOrder ==
    source = "json" /\ Orderly =>
        /\ ordered
        /\ \A page \in pending : newest <= PageStart(page.epoch, page.index)
        /\ ~ended => /\ \A page \in pending : page.epoch <= newest_seen - Window
                     /\ FedUpTo(newest, newest_seen)

VectorsInOrder ==
    source = "vectors" =>
        /\ ordered
        /\ \A page \in pending : page.k \in Int /\ page.time \in Nat /\ newest <= page.time
        /\ \A page, other \in pending : page.k <= other.k => page.time <= other.time

OrderInv == PipelineInv /\ JsonInOrder /\ VectorsInOrder

LEMMA OrderlyIsOrderly == Orderly <=> OrderlyLines(lines)
  BY DEF Orderly, OrderlyLines

LEMMA OrderlyIsOrderlyNext == Orderly' <=> OrderlyLines(lines')
  BY DEF Orderly, OrderlyLines

LEMMA InitOrderInv == Init => OrderInv
<1> SUFFICES ASSUME Init PROVE OrderInv
  OBVIOUS
<1>1. pending = {} /\ newest = 0 /\ ordered = TRUE
  BY DEF Init, JsonInit, AssemblerInit
<1> QED
  BY <1>1, InitPipelineInv DEF OrderInv, JsonInOrder, VectorsInOrder, FedUpTo

(* The subframes that become ready with a line of an orderly recording.    *)
LEMMA ReadLineInOrder ==
    ASSUME OrderInv, source = "json", NEW e \in Epochs, NEW line \in LineContents,
           ReadLine(e, line), UNCHANGED <<assemblerVars, source>>
    PROVE  JsonInOrder'
<1> SUFFICES ASSUME Orderly'
             PROVE  /\ ordered'
                    /\ \A page \in pending' : newest <= PageStart(page.epoch, page.index)
                    /\ \A page \in pending' : page.epoch <= newest_seen' - Window
                    /\ FedUpTo(newest, newest_seen')
  BY DEF JsonInOrder, FedUpTo, assemblerVars
<1> DEFINE new == [number |-> line_count + 1, pages |-> ParseLine(line)]
           buffer == [reorder_buffer EXCEPT ![e] = @ \cup {new}]
           latest == IF e > newest_seen THEN e ELSE newest_seen
           ready == Ready(buffer, latest)
           read == Append(lines, e)
<1>1. /\ ReaderTypeOK /\ NewestSeen /\ Numbered(reorder_buffer, lines) /\ FedFrom(fed, lines)
      /\ FedOnce(reorder_buffer, lines, fed) /\ BufferBounded
      /\ BufferedPages(reorder_buffer) /\ JsonInOrder /\ newest \in Nat
  BY DEF OrderInv, PipelineInv, ReaderInv, AssemblerInv, AssemblerTypeOK
<1>2. /\ newest_seen' = latest /\ lines' = read /\ pending' = PagesOf(buffer, ready)
      /\ ~ended /\ pending = {}
  BY DEF ReadLine
<1>3. /\ lines \in Seq(Int) /\ line_count = Len(lines) /\ e \in Nat /\ e \in Int
      /\ reorder_buffer = [d \in Epochs |-> reorder_buffer[d]] /\ newest_seen \in Nat
      /\ Window \in Nat /\ \A n \in DOMAIN lines : lines[n] \in Nat
  <2>1. \A x \in Epochs \cup {0} : x \in Nat /\ x \in Int
    BY BoundsAssumption DEF Epochs
  <2>2. Window \in Nat
    BY BoundsAssumption
  <2> QED
    BY <1>1, <2>1, <2>2 DEF ReaderTypeOK
<1>4. Numbered(buffer, read)
  BY <1>1, <1>3, LineAdded
<1>5. /\ DOMAIN read = 1 .. (Len(lines) + 1) /\ Len(read) = Len(lines) + 1 /\ read \in Seq(Int)
      /\ \A n \in DOMAIN lines : n \in DOMAIN read /\ read[n] = lines[n]
      /\ Len(lines) + 1 \in DOMAIN read /\ read[Len(lines) + 1] = e
      /\ \A n \in DOMAIN read : n \in DOMAIN lines \/ n = Len(lines) + 1
  BY <1>3
<1>6. latest \in Nat /\ latest >= newest_seen /\ latest >= e /\ (latest = e \/ latest = newest_seen)
  BY <1>3
<1>7. OrderlyLines(read) /\ OrderlyLines(lines)
  <2>1. OrderlyLines(read)
    BY <1>2, OrderlyIsOrderlyNext
  <2> QED
    BY <1>3, <2>1, OrderlyPrefix
<1>8. /\ \A d \in Epochs : buffer[d] = IF d = e THEN reorder_buffer[d] \cup {new}
                                      ELSE reorder_buffer[d]
      /\ new.pages \in SUBSET JsonPages
  BY <1>3, ParsedPages
<1>9. ready \in SUBSET Epochs
  BY DEF Ready
<1> HIDE DEF new, buffer, latest, read
<1>10. /\ \A n \in DOMAIN read : read[n] \in Nat /\ read[n] <= latest
       /\ \E n \in DOMAIN read : read[n] = latest
  <2>1. \A n \in DOMAIN read : read[n] \in Nat /\ read[n] <= latest
    BY <1>1, <1>3, <1>5, <1>6 DEF NewestSeen
  <2>2. \E n \in DOMAIN read : read[n] = latest
    BY <1>1, <1>3, <1>5, <1>6 DEF NewestSeen
  <2> QED
    BY <2>1, <2>2
<1>11. /\ \A d \in ready : d <= latest - Window
       /\ read[Len(read)] # 0 => latest - read[Len(read)] < Window
  BY <1>4, <1>5, <1>6, <1>7, <1>10, ReadyIsOld
<1> HIDE DEF ready
<1>12. e \notin ready
  <2>1. e # 0 /\ latest - e < Window
    BY <1>5, <1>11 DEF Epochs
  <2> QED
    BY <1>3, <1>6, <1>11, <2>1
<1>13. Orderly /\ ordered /\ FedUpTo(newest, newest_seen)
  BY <1>1, <1>2, <1>7, OrderlyIsOrderly DEF JsonInOrder
<1>14. FedUpTo(newest, latest)
  BY <1>3, <1>6, <1>13 DEF FedUpTo
<1>15. ASSUME NEW page \in pending'
       PROVE  /\ newest <= PageStart(page.epoch, page.index)
              /\ page.epoch <= latest - Window
  <2>1. \A d \in Epochs : \A x \in buffer[d] : x.pages \in SUBSET JsonPages
    BY <1>1, <1>8 DEF BufferedPages
  <2>2. page.epoch \in ready /\ page.index \in PageIndices /\ buffer[page.epoch] # {}
    BY <1>2, <1>9, <1>15, <2>1, FlushedPages
  <2>3. page.epoch \in Nat /\ page.epoch \in Epochs /\ page.epoch # e
    <3>1. \A x \in Epochs : x \in Nat
      BY BoundsAssumption DEF Epochs
    <3> QED
      BY <1>9, <1>12, <2>2, <3>1
  <2>4. newest_seen - page.epoch < Window
    BY <1>1, <1>8, <2>2, <2>3 DEF BufferBounded
  <2>5. newest <= PageStart(page.epoch, page.index)
    <3>1. PageStart(page.epoch, page.index) \in Nat
      BY <2>2, <2>3, OnTheGrid
    <3>2. CASE newest = 0
      BY <3>1, <3>2
    <3>3. CASE newest # 0
      <4>1. PICK d \in Nat : d <= newest_seen - Window /\ newest < PageStart(d + 1, 0)
        BY <1>13, <3>3 DEF FedUpTo
      <4>2. d + 1 <= page.epoch /\ d + 1 \in Nat
        BY <1>3, <2>3, <2>4, <4>1
      <4>3. 0 \in PageIndices
        BY SizesAssumption DEF PageIndices
      <4>4. PageStart(d + 1, 0) <= PageStart(page.epoch, 0) /\ PageStart(d + 1, 0) \in Nat
        BY <2>3, <4>2, SubframesInOrder
      <4>5. PageStart(page.epoch, 0) <= PageStart(page.epoch, page.index)
            /\ PageStart(page.epoch, 0) \in Nat
        BY <2>2, <2>3, <4>3, OnTheGrid
      <4> QED
        BY <1>1, <3>1, <4>1, <4>4, <4>5
    <3> QED
      BY <3>2, <3>3
  <2> QED
    BY <1>11, <2>2, <2>5
<1> QED
  BY <1>2, <1>13, <1>14, <1>15 DEF assemblerVars

LEMMA JsonReadInOrder ==
    ASSUME OrderInv, ReadJson
    PROVE  JsonInOrder'
<1>1. /\ source = "json" /\ UNCHANGED <<assemblerVars, source>>
      /\ ReaderTypeOK /\ BufferBounded /\ BufferedPages(reorder_buffer) /\ JsonInOrder
      /\ newest \in Nat
  BY DEF ReadJson, OrderInv, PipelineInv, ReaderInv, AssemblerInv, AssemblerTypeOK
<1>2. ordered' = ordered /\ newest' = newest
  BY <1>1 DEF assemblerVars
<1>3. CASE \E e \in Epochs, line \in LineContents : InFile(e) /\ ReadLine(e, line)
  BY <1>1, <1>3, ReadLineInOrder
<1>4. CASE SkipMalformedLine
  <2>1. /\ lines' = Append(lines, 0) /\ pending' = {} /\ ~ended
        /\ newest_seen' = newest_seen
    BY <1>4 DEF SkipMalformedLine
  <2>2. Orderly' => Orderly
    <3>1. lines \in Seq(Int) /\ 0 \in Int
      BY <1>1 DEF ReaderTypeOK
    <3> QED
      BY <2>1, <3>1, OrderlyPrefix, OrderlyIsOrderly, OrderlyIsOrderlyNext
  <2>3. Orderly => ordered /\ FedUpTo(newest, newest_seen)
    BY <1>1, <2>1 DEF JsonInOrder
  <2> QED
    BY <1>2, <2>1, <2>2, <2>3 DEF JsonInOrder, FedUpTo
<1>5. CASE EndOfFile
  <2> DEFINE rest == {e \in Epochs : reorder_buffer[e] # {}}
  <2>1. /\ ended' = TRUE /\ pending' = PagesOf(reorder_buffer, rest) /\ lines' = lines /\ ~ended
    BY <1>5 DEF EndOfFile
  <2>2. rest \in SUBSET Epochs
    OBVIOUS
  <2> HIDE DEF rest
  <2>3. Orderly' => Orderly
    BY <2>1, OrderlyIsOrderly, OrderlyIsOrderlyNext
  <2>4. Orderly => ordered /\ FedUpTo(newest, newest_seen)
    BY <1>1, <2>1 DEF JsonInOrder
  <2>5. ASSUME Orderly, NEW page \in pending'
        PROVE  newest <= PageStart(page.epoch, page.index)
    <3>1. /\ page.epoch \in Epochs /\ page.index \in PageIndices
          /\ reorder_buffer[page.epoch] # {}
      BY <1>1, <2>1, <2>2, <2>5, FlushedPages DEF BufferedPages
    <3>2. newest_seen - page.epoch < Window
      BY <1>1, <3>1 DEF BufferBounded
    <3>3. (\A x \in Epochs \cup {0} : x \in Nat) /\ Window \in Nat
      BY BoundsAssumption DEF Epochs
    <3>4. page.epoch \in Nat /\ newest_seen \in Nat
      BY <1>1, <3>1, <3>3 DEF ReaderTypeOK
    <3>5. PageStart(page.epoch, page.index) \in Nat
      BY <3>1, <3>4, OnTheGrid
    <3>6. CASE newest = 0
      BY <3>5, <3>6
    <3>7. CASE newest # 0
      <4>1. PICK d \in Nat : d <= newest_seen - Window /\ newest < PageStart(d + 1, 0)
        BY <2>4, <2>5, <3>7 DEF FedUpTo
      <4>2. d + 1 <= page.epoch /\ d + 1 \in Nat
        BY <3>2, <3>3, <3>4, <4>1
      <4>3. PageStart(d + 1, 0) <= PageStart(page.epoch, 0) /\ PageStart(d + 1, 0) \in Nat
        BY <3>4, <4>2, SubframesInOrder
      <4>4. PageStart(page.epoch, 0) <= PageStart(page.epoch, page.index)
            /\ PageStart(page.epoch, 0) \in Nat
        BY <3>1, <3>4, OnTheGrid, SubframesInOrder
      <4> QED
        BY <1>1, <3>5, <4>1, <4>3, <4>4
    <3> QED
      BY <3>6, <3>7
  <2> QED
    BY <1>2, <2>1, <2>3, <2>4, <2>5 DEF JsonInOrder
<1> QED
  BY <1>3, <1>4, <1>5 DEF ReadJson

LEMMA VectorsReadInOrder ==
    ASSUME OrderInv, ReadTestVector
    PROVE  VectorsInOrder'
<1>1. source = "vectors" /\ newest = 0 /\ ordered = TRUE /\ newest' = newest /\ ordered' = ordered
  BY DEF ReadTestVector, OrderInv, PipelineInv, ModeOfSource
<1>2. PICK name \in FileNames, rows \in Files :
          pending' = IF ~HasStartTime(name) THEN {}
                     ELSE {[prn |-> decoded.prn, k |-> decoded.k, row |-> decoded.row,
                            time |-> TimeOf(name, decoded.k),
                            sent |-> ((name.second - 1) % SubframeSeconds) + 2 * decoded.k] :
                              decoded \in DecodedPages(rows)}
  BY DEF ReadTestVector, TimeOf
<1> DEFINE g == (name.second - 1) % SubframeSeconds
<1>3. g \in Nat
  <2>1. SubframeSeconds \in Nat \ {0} /\ name.second - 1 \in Nat
    BY NamesAssumption, SizesAssumption DEF SubframeSeconds
  <2> QED
    BY <2>1
<1>4. ASSUME NEW page \in pending' PROVE page.k \in Nat /\ page.time = g + 2 * page.k + 1
  <2>1. HasStartTime(name)
    BY <1>2, <1>4
  <2>2. PICK decoded \in DecodedPages(rows) :
            page = [prn |-> decoded.prn, k |-> decoded.k, row |-> decoded.row,
                    time |-> TimeOf(name, decoded.k),
                    sent |-> ((name.second - 1) % SubframeSeconds) + 2 * decoded.k]
    BY <1>2, <1>4, <2>1
  <2>3. /\ decoded.k \in Nat
        /\ TimeOf(name, decoded.k)
               = g + 2 * decoded.k + 1
    BY <2>1, VectorPages
  <2> QED
    BY <2>2, <2>3
<1> HIDE DEF g
<1>5. \A page \in pending' : page.k \in Int /\ page.time \in Nat /\ newest <= page.time
  BY <1>1, <1>3, <1>4
<1>6. ASSUME NEW page \in pending', NEW other \in pending', page.k <= other.k
      PROVE  page.time <= other.time
  <2> DEFINE k == page.k
             l == other.k
  <2>1. k \in Nat /\ l \in Nat /\ k <= l /\ page.time = g + 2 * k + 1 /\ other.time = g + 2 * l + 1
    BY <1>4, <1>6
  <2> HIDE DEF k, l
  <2> QED
    BY <1>3, <2>1
<1> QED
  BY <1>1, <1>5, <1>6 DEF VectorsInOrder

(* The page that is fed moves the clock to its own time.                   *)
LEMMA FedAtItsTime ==
    ASSUME NEW t \in Nat, newest \in Nat, newest <= t, ordered = TRUE,
           NEW p, NEW sent, FeedGoodPage(p, t, sent)
    PROVE  newest' = t /\ ordered' = TRUE
<1>1. ordered' = (ordered /\ t >= newest) /\ newest' = IF t > newest THEN t ELSE newest
  BY DEF FeedGoodPage, NotesTime
<1>2. t >= newest /\ (t > newest \/ t = newest)
  OBVIOUS
<1>3. newest' = t
  BY <1>1, <1>2
<1>4. ordered' = TRUE
  BY <1>1, <1>2
<1> QED
  BY <1>3, <1>4

LEMMA FeedInOrder ==
    ASSUME OrderInv, FeedNextPage
    PROVE  JsonInOrder' /\ VectorsInOrder'
<1>1. PICK page \in pending :
          /\ \A other \in pending \ {page} : ComesBefore(page, other)
          /\ pending' = pending \ {page} /\ Feed(page)
  BY DEF FeedNextPage
<1>2. /\ UNCHANGED <<ended, source, newest_seen, lines>>
      /\ newest \in Nat /\ ordered \in BOOLEAN
      /\ JsonInOrder /\ VectorsInOrder /\ \A other \in pending : IsWaiting(other)
  BY DEF FeedNextPage, OrderInv, PipelineInv, AssemblerInv, AssemblerTypeOK, jsonVars
<1>3. Orderly' <=> Orderly
  BY <1>2, OrderlyIsOrderly, OrderlyIsOrderlyNext
<1>4. CASE page.prn \in BadPrns
  <2>1. newest' = newest /\ ordered' = ordered
    BY <1>1, <1>4 DEF Feed, RejectPage
  <2>2. JsonInOrder'
    BY <1>1, <1>2, <1>3, <2>1 DEF JsonInOrder, FedUpTo
  <2>3. VectorsInOrder'
    BY <1>1, <1>2, <2>1 DEF VectorsInOrder
  <2> QED
    BY <2>2, <2>3
<1>5. CASE page.prn \notin BadPrns /\ source = "json"
  <2> SUFFICES ASSUME Orderly PROVE JsonInOrder' /\ VectorsInOrder'
    BY <1>2, <1>3, <1>5 DEF JsonInOrder, VectorsInOrder
  <2> DEFINE t == PageStart(page.epoch, page.index)
  <2>1. \A x \in Epochs : x \in Nat
    BY BoundsAssumption DEF Epochs
  <2>2. page.epoch \in Nat /\ page.index \in PageIndices
    BY <1>2, <1>5, <2>1 DEF IsWaiting
  <2>3. t \in Nat /\ t < PageStart(page.epoch + 1, 0)
    BY <2>2, OnTheGrid
  <2>4. ordered = TRUE /\ newest <= t /\ (~ended => page.epoch <= newest_seen - Window)
    BY <1>2, <1>5 DEF JsonInOrder
  <2>5. FeedGoodPage(page.prn, t, PageStart(page.epoch, page.sent))
    BY <1>1, <1>5 DEF Feed
  <2>6. newest' = t /\ ordered' = TRUE
    BY <1>2, <2>3, <2>4, <2>5, FedAtItsTime
  <2>7. ASSUME NEW other \in pending' PROVE t <= PageStart(other.epoch, other.index)
    <3>1. other \in pending /\ IsFedBefore(page, other)
      BY <1>1, <1>5, <2>7 DEF ComesBefore
    <3>2. other.epoch \in Nat /\ other.index \in PageIndices
      BY <1>2, <1>5, <2>1, <3>1 DEF IsWaiting
    <3>3. page.epoch < other.epoch \/ (page.epoch = other.epoch /\ page.index <= other.index)
      <4>1. page.index \in Int /\ other.index \in Int
        BY <2>2, <3>2 DEF PageIndices
      <4> QED
        BY <3>1, <4>1 DEF IsFedBefore, OldestFirst
    <3> QED
      BY <2>2, <3>2, <3>3, PagesInOrder
  <2>8. ~ended => FedUpTo(t, newest_seen)
    BY <2>2, <2>3, <2>4 DEF FedUpTo
  <2> HIDE DEF t
  <2>9. \A other \in pending' : newest' <= PageStart(other.epoch, other.index)
    BY <2>6, <2>7
  <2>10. ~ended' => (FedUpTo(newest, newest_seen))'
    BY <1>2, <2>6, <2>8 DEF FedUpTo
  <2>11. ~ended' => \A other \in pending' : other.epoch <= newest_seen' - Window
    BY <1>1, <1>2, <1>5 DEF JsonInOrder
  <2> QED
    BY <1>2, <1>5, <2>6, <2>9, <2>10, <2>11 DEF JsonInOrder, VectorsInOrder
<1>6. CASE page.prn \notin BadPrns /\ source # "json"
  <2>1. source = "vectors"
    BY <1>1, <1>6 DEF OrderInv, PipelineInv, ModeOfSource
  <2>2. /\ ordered = TRUE /\ page.time \in Nat /\ newest <= page.time
        /\ \A other \in pending : other.k \in Int /\ other.time \in Nat
        /\ \A other \in pending : page.k <= other.k => page.time <= other.time
        /\ \A a, b \in pending : a.k <= b.k => a.time <= b.time
    BY <1>2, <2>1 DEF VectorsInOrder
  <2>3. FeedGoodPage(page.prn, page.time, page.sent)
    BY <1>1, <1>6 DEF Feed
  <2>4. newest' = page.time /\ ordered' = TRUE
    BY <1>2, <2>2, <2>3, FedAtItsTime
  <2>5. ASSUME NEW other \in pending' PROVE page.time <= other.time
    <3>1. other \in pending /\ IsDecodedBefore(page, other)
      BY <1>1, <1>6, <2>5 DEF ComesBefore
    <3>2. page.k <= other.k
      <4>1. page.k \in Int /\ other.k \in Int
        BY <2>2, <3>1
      <4>2. page.k < other.k \/ page.k = other.k
        BY <3>1 DEF IsDecodedBefore
      <4> QED
        BY <4>1, <4>2
    <3> QED
      BY <2>2, <3>1, <3>2
  <2>6. \A other \in pending' : other \in pending
    BY <1>1
  <2> QED
    BY <1>2, <2>1, <2>2, <2>4, <2>5, <2>6 DEF JsonInOrder, VectorsInOrder
<1> QED
  BY <1>4, <1>5, <1>6

LEMMA NextOrderInv ==
    OrderInv /\ [Next]_vars => OrderInv'
<1> SUFFICES ASSUME OrderInv, [Next]_vars PROVE OrderInv'
  OBVIOUS
<1>1. PipelineInv' /\ JsonInOrder /\ VectorsInOrder
  BY NextPipelineInv DEF OrderInv
<1>2. CASE ReceiveLive
  BY <1>1, <1>2 DEF ReceiveLive, OrderInv, JsonInOrder, VectorsInOrder
<1>3. CASE ReadJson
  BY <1>1, <1>3, JsonReadInOrder DEF ReadJson, OrderInv, VectorsInOrder
<1>4. CASE ReadTestVector
  BY <1>1, <1>4, VectorsReadInOrder DEF ReadTestVector, OrderInv, JsonInOrder
<1>5. CASE FeedNextPage
  BY <1>1, <1>5, FeedInOrder DEF OrderInv
<1>6. CASE UNCHANGED vars
  <2>1. UNCHANGED <<source, pending, ended, newest_seen, lines, newest, ordered>>
    BY <1>6 DEF vars, jsonVars, assemblerVars
  <2>2. Orderly' <=> Orderly
    BY <2>1, OrderlyIsOrderly, OrderlyIsOrderlyNext
  <2>3. JsonInOrder'
    BY <1>1, <2>1, <2>2 DEF JsonInOrder, FedUpTo
  <2> QED
    BY <1>1, <2>1, <2>3 DEF OrderInv, VectorsInOrder
<1> QED
  BY <1>2, <1>3, <1>4, <1>5, <1>6 DEF Next

(* Pages come to the authenticator in the order of time: from a test       *)
(* vector always, from a JSON recording as long as its lines are less than *)
(* the window late and a window of lines fits the buffer.                  *)
THEOREM PagesAreFedInOrder == Spec => []FedInOrder
<1>1. OrderInv => FedInOrder
  BY DEF OrderInv, JsonInOrder, VectorsInOrder, FedInOrder
<1>2. OrderInv /\ [Next]_vars => OrderInv'
  BY NextOrderInv
<1> QED
  BY <1>1, <1>2, InitOrderInv, PTL DEF Spec
=============================================================================
