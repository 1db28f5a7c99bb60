-------------------------- MODULE TestVectorReader --------------------------
(***************************************************************************)
(* The reader of the official test vectors: OsnmaOfficialTestVectorReader. *)
(*                                                                         *)
(* A file has one row per satellite: its number, how many bits follow and  *)
(* all its pages in hexadecimal.  The time of the first page is read from  *)
(* the name of the file, a civil date and a time of day; the grid of pages *)
(* is a second earlier.                                                    *)
(*                                                                         *)
(* A row is its PRN, its claimed length in pages and, for every page in    *)
(* it, whether the page is well-formed.  A name is a date and a second of  *)
(* the day.  Times are seconds from the start of the subframe in which the *)
(* recording began.                                                        *)
(***************************************************************************)
EXTENDS CivilCalendar, Sequences, FiniteSets

GST == INSTANCE GalileoTime

DaySeconds == 86400
GalileoEpoch == Date(1999, 8, 22)
DeltaDays(date) == DaysFromCivil(date) - DaysFromCivil(GalileoEpoch)

(* TryParseStartTimeFromFilename, for a name of the right form.            *)
HasStartTime(name) == DeltaDays(name.date) >= 0
StartTime(name) ==
    GST!Time(DeltaDays(name.date) \div 7, (DeltaDays(name.date) % 7) * DaySeconds + name.second)

(* AdvanceTime is AddSeconds.                                              *)
PageTime(name, k) == GST!AddSeconds(StartTime(name), 2 * k)

-----------------------------------------------------------------------------
(* ParseCsvRow fails for PRN 0; the lengths must agree.                    *)
IsConsistent(row) == row.prn > 0 /\ row.claimed = Len(row.pages)

(* The pages of all consistent rows, as many of each as the shortest has.  *)
Streams(rows) == {n \in DOMAIN rows : IsConsistent(rows[n])}
DecodedPages(rows) ==
    UNION {{[prn |-> rows[n].prn, k |-> i - 1, row |-> n] :
               i \in {j \in DOMAIN rows[n].pages :
                         rows[n].pages[j] /\ \A m \in Streams(rows) : j \in DOMAIN rows[m].pages}} :
              n \in Streams(rows)}

(* ReadFile: page k of every satellite before page k + 1 of any.           *)
SatelliteBySatellite(a, b) == a.row < b.row \/ (a.row = b.row /\ a.k < b.k)
IsDecodedBefore(a, b) == a.k < b.k \/ (a.k = b.k /\ a.row < b.row)

-----------------------------------------------------------------------------
(* The recorder that named the file goes by the Gregorian calendar.        *)
GalileoDays(date) == Cardinality(DatesBetween(GalileoEpoch, date))

(* From Galileo time to the time scale of a recording on the given day.    *)
SinceRecording(day, second, subframe_seconds, t) ==
    LET grid_second == second - 1
    IN  (7 * t.wn - day) * DaySeconds + t.tow - (grid_second - (grid_second % subframe_seconds))
=============================================================================
