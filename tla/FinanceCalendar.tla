--------------------------- MODULE FinanceCalendar ---------------------------
(***************************************************************************)
(* The dates the reports on expenses and incomes are made of.  An instant  *)
(* is a number of hours (UTC); a date is a number of days in the time zone *)
(* of the user, Offset hours from UTC.  Day 0 is a Monday.  The lengths of *)
(* days, weeks, months and years are parameters.                           *)
(***************************************************************************)
EXTENDS Integers, FiniteSets, FiniteSetsExt

CONSTANTS
    HoursPerDay,
    WeekDays,
    MonthStarts,    \* the days on which a month begins
    YearStarts,     \* the days on which a year begins
    YearSpan,       \* the 365 days of the default window
    Offset,         \* user_timezone
    NoDate          \* spent_at or received_at is null

ASSUME CalendarAssumption ==
    /\ HoursPerDay \in Nat \ {0} /\ WeekDays \in Nat \ {0} /\ YearSpan \in Nat
    /\ Offset \in Int
    /\ YearStarts \subseteq MonthStarts /\ MonthStarts \subseteq Int
    /\ NoDate \notin Int

LocalDay(ts) == (ts + Offset) \div HoursPerDay
LocalHour(ts) == (ts + Offset) % HoursPerDay
UtcDay(ts) == ts \div HoursPerDay

\* _convert_to_utc: the first and the last instant of a local day.
DayStart(day) == day * HoursPerDay - Offset
DayEnd(day) == DayStart(day) + HoursPerDay - 1

WeekStart(day) == day - (day % WeekDays)
Begun(starts, day) == Max({s \in starts : s <= day})
Coming(starts, day) == Min({s \in starts : s > day})
MonthStart(day) == Begun(MonthStarts, day)
MonthEnd(day) == Coming(MonthStarts, day) - 1
\* The first day of the month n months before the one of day.
MonthsBack(n, day) ==
    CHOOSE s \in MonthStarts :
        s <= day /\ Cardinality({t \in MonthStarts : s < t /\ t <= day}) = n
YearStart(day) == Begun(YearStarts, day)
YearEnd(day) == Coming(YearStarts, day) - 1

-----------------------------------------------------------------------------
Filters == {"today", "yesterday", "current_week", "previous_week",
            "current_month", "previous_month", "current_year",
            "previous_year", "custom", "all"}

\* The first and the last day of a date_filter; "all" stands for anything else.
Window(filter, custom, today) ==
    CASE filter = "today" -> <<today, today>>
      [] filter = "yesterday" -> <<today - 1, today - 1>>
      [] filter = "current_week" ->
            <<WeekStart(today), WeekStart(today) + WeekDays - 1>>
      [] filter = "previous_week" ->
            <<WeekStart(today) - WeekDays, WeekStart(today) - 1>>
      [] filter = "current_month" -> <<MonthStart(today), MonthEnd(today)>>
      [] filter = "previous_month" ->
            <<MonthStart(MonthStart(today) - 1), MonthStart(today) - 1>>
      [] filter = "current_year" -> <<YearStart(today), YearEnd(today)>>
      [] filter = "previous_year" ->
            <<YearStart(YearStart(today) - 1), YearStart(today) - 1>>
      [] filter = "custom" -> custom
      [] filter = "all" -> <<today - YearSpan, today>>

DaysBetween(window) == window[2] - window[1]

\* Instants of a window, and the same by the date of the server (UTC).
Stamped(row, window) ==
    DayStart(window[1]) <= row.ts /\ row.ts <= DayEnd(window[2])
ServerDated(row, window) ==
    window[1] <= UtcDay(row.ts) /\ UtcDay(row.ts) <= window[2]

\* The date of the movement decides; its instant if it has none.
InPeriod(row, window) ==
    IF row.date = NoDate THEN Stamped(row, window)
    ELSE window[1] <= row.date /\ row.date <= window[2]

EffectiveDate(row) == IF row.date = NoDate THEN LocalDay(row.ts) ELSE row.date

-----------------------------------------------------------------------------
(* The time axis of a chart: a period is a day and an hour.                *)

Periods(group, window) ==
    IF group = "hour" /\ DaysBetween(window) <= 1
    THEN (window[1]..window[2]) \X (0..HoursPerDay - 1)
    ELSE LET days ==
               IF group = "day" THEN window[1]..window[2]
               ELSE IF group = "week"
               THEN {d \in WeekStart(window[1])..window[2] : WeekStart(d) = d}
               ELSE {d \in MonthStart(window[1])..window[2] : MonthStart(d) = d}
         IN  days \X {0}

\* get_time_key
TimeKey(ts, group) ==
    LET day == LocalDay(ts)
    IN  CASE group = "hour" -> <<day, LocalHour(ts)>>
          [] group = "day" -> <<day, 0>>
          [] group = "week" -> <<WeekStart(day), 0>>
          [] OTHER -> <<MonthStart(day), 0>>

\* format_date_label: %H:%M, %d/%m (a day without its year), %b %Y
Label(period, group) ==
    LET day == period[1]
        InYear(d) == d - YearStart(d)
    IN  CASE group = "hour" -> period[2]
          [] group = "day" -> InYear(day)
          [] group = "week" -> InYear(WeekStart(day))
          [] OTHER -> day

LabelsAreDistinct(group, window) ==
    LET axis == Periods(group, window)
    IN  Cardinality({Label(p, group) : p \in axis}) = Cardinality(axis)
=============================================================================
