---------------------------- MODULE CivilCalendar ----------------------------
(***************************************************************************)
(* Civil dates: how the code numbers the days, and the calendar itself.    *)
(***************************************************************************)
EXTENDS Integers

Date(year, month, day) == [year |-> year, month |-> month, day |-> day]

JulianDaysFromCivil(date) ==
    LET year == IF date.month <= 2 THEN date.year - 1 ELSE date.year
        doy == ((153 * (date.month + (IF date.month > 2 THEN -3 ELSE 9)) + 2) \div 5) + date.day - 1
    IN  year * 365 + (year \div 4) + doy - 719470
(* DaysFromCivil: days since 1970-01-01.                                   *)
DaysFromCivil(date) ==
    LET year == IF date.month <= 2 THEN date.year - 1 ELSE date.year
        era == year \div 400
        yoe == year - era * 400
        doy == ((153 * (date.month + (IF date.month > 2 THEN -3 ELSE 9)) + 2) \div 5) + date.day - 1
        doe == yoe * 365 + (yoe \div 4) - (yoe \div 100) + doy
    IN  era * 146097 + doe - 719468

-----------------------------------------------------------------------------
(* The Gregorian calendar.                                                 *)
IsLeapYear(year) == (year % 4 = 0 /\ year % 100 # 0) \/ year % 400 = 0
YearDays(year) == IF IsLeapYear(year) THEN 366 ELSE 365
MonthDays(year, month) ==
    CASE month = 2 -> YearDays(year) - 337
      [] month \in {4, 6, 9, 11} -> 30
      [] OTHER -> 31

IsBefore(a, b) ==
    \/ a.year < b.year
    \/ a.year = b.year /\ a.month < b.month
    \/ a.year = b.year /\ a.month = b.month /\ a.day < b.day

(* The dates from the first on and before the last.                        *)
DatesBetween(first, last) ==
    {d \in [year : first.year .. last.year, month : 1 .. 12, day : 1 .. 31] :
        d.day <= MonthDays(d.year, d.month) /\ ~IsBefore(d, first) /\ IsBefore(d, last)}

Dates == {d \in [year : Nat, month : 1 .. 12, day : 1 .. 31] : d.day <= MonthDays(d.year, d.month)}
NextDate(d) ==
    CASE d.day < MonthDays(d.year, d.month) -> Date(d.year, d.month, d.day + 1)
      [] d.day = MonthDays(d.year, d.month) /\ d.month < 12 -> Date(d.year, d.month + 1, 1)
      [] OTHER -> Date(d.year + 1, 1, 1)
=============================================================================
