----------------------------- MODULE LineParser -----------------------------
(***************************************************************************)
(* LineParser: ParseNATLine as far as the rows it makes depend on it: which*)
(* format a line is taken for, and the time of its row.  A syslog stamp has*)
(* no year; the year is that of the archive's date or one beside it.       *)
(*                                                                         *)
(* Days are numbered from the first day of year 0, and a stamp names a day *)
(* of the year as a leap year counts them.                                 *)
(***************************************************************************)
EXTENDS Integers, FiniteSets

CONSTANTS
    None,
    YearDays,        \* days of a year that is not a leap year
    LeapDay,         \* the day of the year that only leap years have
    LeapYears,
    HalfYear,        \* 183 days
    Years            \* years of archives

CalendarAssumption ==
    /\ YearDays \in Nat \ {0} /\ LeapDay \in 1 .. YearDays /\ HalfYear \in Nat
    /\ 2 * HalfYear > YearDays /\ HalfYear < YearDays
    /\ LeapYears \subseteq Int /\ Years \subseteq Int

VARIABLES line, fileDate, row
lvars == <<line, fileDate, row>>

\* "nat": Huawei, H3C and lines with labels, "none": a line without the fields of any.
Formats == {"nat", "fortigate", "none"}
DaysOfYear == 1 .. YearDays + 1

\* stamp: the day of the year that the line carries; late: its time is after midnight;
\* year: its year, and first: it stands before the day.  None where the line has none.
Stamped == [format : Formats \ {"none"}, stamp : DaysOfYear \cup {None}, late : BOOLEAN,
            year : Years \cup {None}, first : BOOLEAN]
NoLine == [format |-> "none", stamp |-> None, late |-> FALSE, year |-> None, first |-> FALSE]
Lines == Stamped \cup {NoLine}

-----------------------------------------------------------------------------
\* The calendar.
LeapYearsBefore(y) ==
    IF y >= 0 THEN Cardinality({l \in LeapYears : 0 <= l /\ l < y})
    ELSE -Cardinality({l \in LeapYears : y <= l /\ l < 0})

FirstDay(y) == YearDays * y + LeapYearsBefore(y)

\* The day of the year y that a stamp names; Feb 29 is Mar 1 where there is none.
Date(y, stamp) ==
    FirstDay(y) + IF y \in LeapYears \/ stamp <= LeapDay THEN stamp - 1 ELSE stamp - 2

Exists(y, stamp) == y \in LeapYears \/ stamp # LeapDay

-----------------------------------------------------------------------------
\* The distance of a date from another is more than 183 days, to the hour.
TooFar(days, late) == days > HalfYear \/ (days = HalfYear /\ late)

\* Mutant: a stamp that is far behind is left in the past.
NearestYearBehindOnly(date, l) ==
    IF TooFar(Date(date.year, l.stamp) - Date(date.year, date.day), l.late)
    THEN Date(date.year - 1, l.stamp)
    ELSE Date(date.year, l.stamp)

\* parseSyslogTimestamp: in the year of the date, or, when that is more than 183 days
\* away, in the one before or after.
NearestYear(date, l) ==
    LET ts == Date(date.year, l.stamp)
        day == Date(date.year, date.day)
    IN  IF TooFar(ts - day, l.late) THEN Date(date.year - 1, l.stamp)
        ELSE IF day - ts > HalfYear THEN Date(date.year + 1, l.stamp)
        ELSE ts

\* parseNATTimestamp: with the year of the line, with the nearest one, or the date.
Timestamp(l, date) ==
    IF l.stamp = None THEN Date(date.year, date.day)
    ELSE IF l.year # None /\ Exists(l.year, l.stamp) THEN Date(l.year, l.stamp)
    ELSE IF (l.year = None \/ ~l.first) /\ Exists(date.year, l.stamp) THEN NearestYear(date, l)
    ELSE Date(date.year, date.day)

\* A FortiGate stamp counts only with its year.
RowTime(l, date) ==
    IF l.format = "fortigate" /\ (l.year = None \/ l.stamp = None \/ ~Exists(l.year, l.stamp))
    THEN Date(date.year, date.day)
    ELSE Timestamp(l, date)

-----------------------------------------------------------------------------
ParserInit ==
    /\ line = NoLine
    /\ fileDate \in {d \in [year : Years, day : DaysOfYear] : Exists(d.year, d.day)}
    /\ row = None

\* The importer parses the next line of the archive: no row, or one with its time.
Parse(l) ==
    /\ line' = l
    /\ row' = IF l.format # "none" THEN RowTime(l, fileDate) ELSE None
    /\ UNCHANGED fileDate

ParserNext == \E l \in Lines : Parse(l)

ParserSpec == ParserInit /\ [][ParserNext]_lvars

-----------------------------------------------------------------------------
ParserTypeOK ==
    /\ line \in Lines
    /\ fileDate \in [year : Years, day : DaysOfYear]
    /\ row \in Int \cup {None}

\* A row whose line has no year is never more than half a year from the date of its
\* archive: over New Year and leap days the line's year is the one beside the archive's.
YearIsNear ==
    row # None /\ line.year = None =>
        /\ row - Date(fileDate.year, fileDate.day) <= HalfYear
        /\ Date(fileDate.year, fileDate.day) - row <= HalfYear
=============================================================================
