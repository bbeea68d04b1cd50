--------------------------- MODULE ReportCalendar ---------------------------
(* The calendar of the reports: school days, the school window, months and *)
(* weeks.  A day is counted from 1 January 2026, a Thursday; an instant is *)
(* counted in half hours from the first midnight of that day in Bangkok.   *)
(* Dates written as strings are days here: parseDateStrict lets no other   *)
(* string in, and bangkokDate and dayStart convert both ways.              *)
EXTENDS Integers, FiniteSets, FiniteSetsExt

DayLength == 48
DayOf(at) == at \div DayLength           \* bangkokDate
DayStart(day) == day * DayLength
TimeOfDay(at) == at % DayLength
InclusiveDays(from, to) == to - from + 1

(* Months are counted from January 2026, up to December 2028.              *)
MonthLength(m) ==
  IF m = 25 THEN 29
  ELSE IF m % 12 = 1 THEN 28
  ELSE IF m % 12 \in {3, 5, 8, 10} THEN 30 ELSE 31
MonthStart == [m \in 0..36 |-> MapThenSumSet(MonthLength, 0..m - 1)]
MonthOf(day) == CHOOSE m \in 0..35 : MonthStart[m] <= day /\ day < MonthStart[m + 1]

WeekdayOf(day) == (day + 4) % 7          \* 0 is Sunday
IsoWeekdayOf(day) == IF WeekdayOf(day) = 0 THEN 7 ELSE WeekdayOf(day)

(* isSchoolDay: from Monday to Friday, out of the break (1 April, 15 May). *)
IsSchoolDay(day) ==
  LET m == MonthOf(day)
      monthDay == 100 * ((m % 12) + 1) + day - MonthStart[m] + 1 IN
  WeekdayOf(day) \notin {0, 6} /\ monthDay \notin 401..515
SchoolDays(from, to) == {day \in from..to : IsSchoolDay(day)}
SchoolDaysIn(from, to) == Cardinality(SchoolDays(from, to))
SchoolDaysByWeekday(from, to) ==
  [w \in 1..5 |-> Cardinality({d \in SchoolDays(from, to) : IsoWeekdayOf(d) = w})]

(* The school window is 08:30 to 16:30.                                    *)
WindowStart(day) == DayStart(day) + 17
WindowEnd(day) == DayStart(day) + 33
SchoolDayLength == 16

(* clipToSchoolWindow: the parts of a span in the windows of the school    *)
(* days of a range.                                                        *)
ClipToSchoolWindow(span, from, to) ==
  LET days == (DayOf(span.start)..DayOf(span.end - 1)) \cap (from..to)
      part == [d \in days |-> [day |-> d, start |-> Max({span.start, WindowStart(d)}),
                               end |-> Min({span.end, WindowEnd(d)})]] IN
  {part[d] : d \in {e \in days : IsSchoolDay(e) /\ part[e].end > part[e].start}}
SegmentLength(seg) == seg.end - seg.start
SplitAndClip(span, from, to) ==
  MapThenSumSet(SegmentLength, ClipToSchoolWindow(span, from, to))

(* A range is cut at the ends of its months, or of its weeks.              *)
Bucket(first, last, from, to) ==
  LET b == [from |-> Max({first, from}), to |-> Min({last, to})] IN
  [from |-> b.from, to |-> b.to, partial |-> b # [from |-> first, to |-> last]]
MonthBuckets(from, to) ==
  {Bucket(MonthStart[m], MonthStart[m + 1] - 1, from, to) : m \in MonthOf(from)..MonthOf(to)}
WeekStart(day) == day - (IsoWeekdayOf(day) - 1)
WeekBuckets(from, to) ==
  {Bucket(monday, monday + 6, from, to) : monday \in {WeekStart(d) : d \in from..to}}
=============================================================================
