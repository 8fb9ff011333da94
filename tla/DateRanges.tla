----------------------------- MODULE DateRanges -----------------------------
(* Which instants a question is about: the presets of the pages and the CLI    *)
(* (date_utils.py, DateRangeMixin, helpers.py), the strict ranges of API v1    *)
(* (contracts.py) and the periods each is compared with.  Time is counted in   *)
(* hours; a page's range includes both ends, so the last microsecond of an     *)
(* hour is that hour, and an API range ends before its end.                    *)
EXTENDS Integers, FiniteSets

CONSTANTS
    Years,         \* calendar years 0 .. Years-1 are known
    LeapYears,     \* those of 366 days
    FirstWeekday,  \* weekday of day 0, Monday being 0
    Zones,         \* IANA time zones: [base, from, to], summer time between
    Nows,          \* bound: the moments questions are asked at
    Explicit,      \* bound: boundaries given by hand, [kind, at]
    Offsets        \* bound: periods stepped back

\* A boundary is a date (its midnight), a wall clock of the zone without an
\* offset, or an instant written with one.
Boundary == [kind : {"date", "local", "offset"}, at : Nat]

ASSUME DateRangesAssumption ==
    /\ Years \in Nat /\ FirstWeekday \in 0..6
    /\ LeapYears \subseteq 0..(Years - 1)
    /\ Nows \subseteq Nat /\ Offsets \subseteq Nat
    /\ Explicit \subseteq Boundary
    /\ \A b \in Explicit : b.kind = "date" => b.at % 24 = 0
    \* a clock is within 14 hours of UTC, and is not put back within a month of
    \* being put forward
    /\ \A z \in Zones : /\ z.base \in (-12)..14 /\ z.from \in Int /\ z.to \in Int
                        /\ z.from = z.to \/ z.from + 32 * 24 < z.to

VARIABLES
    now,           \* _now()
    asked          \* the last question, with its answer

dateVars == <<now, asked>>

Nothing == [kind |-> "none"]
Refused == [kind |-> "error"]

-----------------------------------------------------------------------------
(* The calendar: months counted from January of year 0, days from its first.  *)

Months == 0..(12 * Years - 1)
MonthLength(m) ==
    IF m % 12 = 1 THEN (IF m \div 12 \in LeapYears THEN 29 ELSE 28)
    ELSE IF m % 12 \in {3, 5, 8, 10} THEN 30 ELSE 31
DaysBefore == <<0, 31, 59, 90, 120, 151, 181, 212, 243, 273, 304, 334>>
MonthStart == [m \in 0..(12 * Years) |->
    LET y == m \div 12
        k == m % 12
    IN  365 * y + Cardinality({l \in LeapYears : l < y}) + DaysBefore[k + 1]
            + (IF k >= 2 /\ y \in LeapYears THEN 1 ELSE 0)]
MonthOf == [d \in 0..(MonthStart[12 * Years] - 1) |->
    CHOOSE m \in Months : MonthStart[m] <= d /\ d < MonthStart[m + 1]]

Hour(d) == 24 * d                       \* the first hour of a day
Day(t) == t \div 24

\* the calendar holds the year before each question, the day after it, and the
\* days around the boundaries given by hand
ASSUME CalendarAssumption ==
    /\ \A t \in Nows : MonthStart[12] < Day(t) /\ Day(t) + 1 < MonthStart[12 * Years]
    /\ \A b \in Explicit : 0 < Day(b.at) /\ Day(b.at) + 1 < MonthStart[12 * Years]

Weekday(d) == (d + FirstWeekday) % 7

Least(x, y) == IF x <= y THEN x ELSE y
Greatest(x, y) == IF x >= y THEN x ELSE y

\* helpers of date_utils.py; an end is the last hour of its period
StartOfDay(t) == Hour(Day(t))
EndOfDay(t) == StartOfDay(t) + 23
StartOfWeek(t) == Hour(Day(t) - Weekday(Day(t)))
\* Mutant: the week ends on its Saturday.
EndOfSixDays(t) == StartOfWeek(t) + 5 * 24 + 23
EndOfWeek(t) == StartOfWeek(t) + 6 * 24 + 23
StartOfMonth(t) == Hour(MonthStart[MonthOf[Day(t)]])
EndOfMonth(t) == EndOfDay(Hour(MonthStart[MonthOf[Day(t)] + 1] - 1))
QuarterMonth(m) == (m \div 3) * 3
StartOfQuarter(t) == Hour(MonthStart[QuarterMonth(MonthOf[Day(t)])])
\* one day before the first of the quarter's third month, as the code has it
EndOfQuarter(t) == EndOfDay(Hour(MonthStart[QuarterMonth(MonthOf[Day(t)]) + 2] - 1))
StartOfYear(t) == Hour(MonthStart[12 * (MonthOf[Day(t)] \div 12)])
EndOfYear(t) == Hour(MonthStart[12 * (MonthOf[Day(t)] \div 12) + 12]) - 1

\* the same wall clock years later; February 29 becomes 28 in a common year
ShiftYear(t, n) ==
    LET m == MonthOf[Day(t)]
        there == m + 12 * n
        d == Least(Day(t) - MonthStart[m], MonthLength(there) - 1)
    IN  Hour(MonthStart[there] + d) + (t % 24)

-----------------------------------------------------------------------------
(* The presets of the pages and the CLI.                                       *)

HourPresets == [h \in {"1h", "3h", "6h", "24h"} |->
    CASE h = "1h" -> 1 [] h = "3h" -> 3 [] h = "6h" -> 6 [] h = "24h" -> 24]
DayPresets == [p \in {"7d", "14d", "30d", "60d", "90d", "6m", "12m"} |->
    CASE p = "7d" -> 7 [] p = "14d" -> 14 [] p = "30d" -> 30 [] p = "60d" -> 60
      [] p = "90d" -> 90 [] p = "6m" -> 180 [] p = "12m" -> 365]
CalendarPresets ==
    {"today", "yesterday", "this_week", "last_week", "this_month", "last_month",
     "this_quarter", "last_quarter", "this_year", "last_year"}
Presets == DOMAIN HourPresets \cup DOMAIN DayPresets \cup CalendarPresets

DateRange(s, e) == [start |-> s, end |-> e]

StartOfLastQuarter(t) == StartOfQuarter(StartOfQuarter(t) - 24)

CalendarRange(p, t) ==
    CASE p = "today" -> DateRange(StartOfDay(t), t)
      [] p = "yesterday" -> DateRange(StartOfDay(t - 24), EndOfDay(t - 24))
      [] p = "this_week" -> DateRange(StartOfWeek(t), t)
      [] p = "last_week" -> DateRange(StartOfWeek(t) - 7 * 24, EndOfWeek(StartOfWeek(t) - 7 * 24))
      [] p = "this_month" -> DateRange(StartOfMonth(t), t)
      [] p = "last_month" -> DateRange(StartOfMonth(StartOfMonth(t) - 24), EndOfMonth(StartOfMonth(t) - 24))
      [] p = "this_quarter" -> DateRange(StartOfQuarter(t), t)
      [] p = "last_quarter" -> DateRange(StartOfLastQuarter(t), EndOfQuarter(StartOfLastQuarter(t)))
      [] p = "this_year" -> DateRange(StartOfYear(t), t)
      [] p = "last_year" -> DateRange(StartOfYear(ShiftYear(t, -1)), EndOfYear(ShiftYear(t, -1)))

ResolveDateRange(p, t) ==
    IF p \in DOMAIN HourPresets THEN DateRange(t - HourPresets[p], t)
    ELSE IF p \in DOMAIN DayPresets
         THEN DateRange(StartOfDay(t) - 24 * DayPresets[p], EndOfDay(t))
    ELSE CalendarRange(p, t)

\* prev/next: whole spans back from the preset's range
Stepped(r, n) == LET shift == (r.end - r.start) * n
                 IN DateRange(r.start - shift, r.end - shift)

GetComparisonRange(r, mode) ==
    LET span == r.end - r.start
        d == span \div 24
    IN  CASE mode = "previous_year" -> DateRange(ShiftYear(r.start, -1), ShiftYear(r.end, -1))
          [] mode = "previous_period" /\ span < 24 -> DateRange(r.start - span, r.end - span)
          [] mode = "previous_period" /\ span >= 24 ->
                DateRange(r.start - 24 * (d + 1), r.start - 24)

Granularities == {"minute", "hour", "day", "week", "month"}
AutoGranularity(r) ==
    LET span == r.end - r.start
    IN  CASE span <= 6 -> "minute"
          [] 6 < span /\ span <= 36 -> "hour"
          [] 36 < span /\ span <= 90 * 24 -> "day"
          [] 90 * 24 < span /\ span <= 365 * 24 -> "week"
          [] 365 * 24 < span -> "month"
ResolveGranularity(g, r) == IF g = "auto" THEN AutoGranularity(r) ELSE g

\* parse_date_args of the CLI: a start without an end runs to now
ParsedArgs(p, s, e) ==
    CASE s # 0 /\ e # 0 -> DateRange(s, e)
      [] s # 0 /\ e = 0 -> DateRange(s, now)
      [] s = 0 /\ p \in Presets -> ResolveDateRange(p, now)
      [] s = 0 /\ p \notin Presets -> DateRange(now - 365 * 24, now)

-----------------------------------------------------------------------------
(* Local time in a zone (external: zoneinfo).  A wall-clock hour is skipped in *)
(* spring and comes twice in autumn; fold tells the two apart.                 *)

UtcOffset(z, t) == IF z.from <= t /\ t < z.to THEN z.base + 1 ELSE z.base
Wall(z, t) == t + UtcOffset(z, t)
Fold(z, t) == IF z.to <= t /\ t < z.to + 1 THEN 1 ELSE 0
AtWall(z, w, fold) ==
    LET later == 1 - fold
        summer == z.from + z.base + later <= w /\ w < z.to + z.base + later
    IN  w - (IF summer THEN z.base + 1 ELSE z.base)

\* Mutant: a wall clock that comes twice, or never, is taken for the first.
LocalizeFirst(z, w) == AtWall(z, w, 0)

\* the instant that shows this wall clock, unless there is none or there are two
LocalizeStrict(z, w) ==
    LET first == AtWall(z, w, 0)
        second == AtWall(z, w, 1)
        valid(t) == Wall(z, t) = w
    IN  CASE ~valid(first) /\ ~valid(second) -> -1
          [] valid(first) /\ valid(second) /\ first # second -> -1
          [] valid(first) /\ (valid(second) => first = second) -> first
          [] ~valid(first) /\ valid(second) -> second

-----------------------------------------------------------------------------
(* API v1: half-open ranges.                                                   *)

LocalDay(z, d) == AtWall(z, Hour(d), 0)
LocalDayRange(z, d1, d2) == DateRange(LocalDay(z, d1), LocalDay(z, d2))

PresetRange(p, t, z) ==
    LET today == Day(Wall(z, t))
        week == today - Weekday(today)
        month == MonthOf[today]
        quarter == QuarterMonth(month)
        year == 12 * (month \div 12)
    IN  CASE p \in DOMAIN HourPresets -> DateRange(t - HourPresets[p], t)
          [] p \in DOMAIN DayPresets -> DateRange(LocalDay(z, today - DayPresets[p]), t)
          [] p = "today" -> DateRange(LocalDay(z, today), t)
          [] p = "yesterday" -> LocalDayRange(z, today - 1, today)
          [] p = "this_week" -> DateRange(LocalDay(z, week), t)
          [] p = "last_week" -> LocalDayRange(z, week - 7, week)
          [] p = "this_month" -> DateRange(LocalDay(z, MonthStart[month]), t)
          [] p = "last_month" -> LocalDayRange(z, MonthStart[month - 1], MonthStart[month])
          [] p = "this_quarter" -> DateRange(LocalDay(z, MonthStart[quarter]), t)
          [] p = "last_quarter" ->
                LocalDayRange(z, MonthStart[quarter - 3], MonthStart[quarter])
          [] p = "this_year" -> DateRange(LocalDay(z, MonthStart[year]), t)
          [] p = "last_year" -> LocalDayRange(z, MonthStart[year - 12], MonthStart[year])

\* the bucket a wall-clock hour lies in (hours and minutes are whole here)
Floor(w, g) ==
    CASE g \in {"minute", "hour"} -> w
      [] g = "day" -> Hour(Day(w))
      [] g = "week" -> Hour(Day(w) - Weekday(Day(w)))
      [] g = "month" -> Hour(MonthStart[MonthOf[Day(w)]])

\* flooring to a week subtracts days, which forgets the fold
FloorInstant(z, t, g) ==
    AtWall(z, Floor(Wall(z, t), g), IF g = "week" THEN 0 ELSE Fold(z, t))

WithPartialBucket(z, r, g) == [start |-> r.start, end |-> Least(r.end, now), kind |-> "range"]

\* resolve_range, from boundaries to the interval that is queried
Effective(z, r, g, includePartial) ==
    LET bucket == IF g = "none" THEN "day" ELSE g
        last == Least(r.end, now)
        partial == r.end > now \/ Wall(z, last) # Floor(Wall(z, last), bucket)
        complete == FloorInstant(z, last, bucket)
    IN  CASE r.end <= r.start -> Refused
          [] r.end > r.start /\ (includePartial \/ g = "none" \/ ~partial \/ last <= r.start) ->
                WithPartialBucket(z, r, g)
          [] r.end > r.start /\ ~(includePartial \/ g = "none" \/ ~partial \/ last <= r.start) ->
                IF complete > r.start
                THEN [start |-> r.start, end |-> complete, kind |-> "range"] ELSE Refused

\* only a wall clock is taken strictly; a date is its first midnight
ParseBoundary(z, b) ==
    CASE b.kind = "date" -> LocalDay(z, Day(b.at))
      [] b.kind = "local" -> LocalizeStrict(z, b.at)
      [] b.kind = "offset" -> b.at

ResolveExplicit(z, b1, b2, g, includePartial) ==
    LET s == ParseBoundary(z, b1)
        e == ParseBoundary(z, b2)
    IN  IF s = -1 \/ e = -1 THEN Refused ELSE Effective(z, DateRange(s, e), g, includePartial)

ShiftLocalDays(z, t, n) == AtWall(z, Wall(z, t) + 24 * n, 0)
ShiftLocalYear(z, t, n) == AtWall(z, ShiftYear(Wall(z, t), n), Fold(z, t))

ComparisonRange(z, r, mode) ==
    CASE mode = "previous_period" -> DateRange(2 * r.start - r.end, r.start)
      [] mode = "previous_week" ->
            DateRange(ShiftLocalDays(z, r.start, -7), ShiftLocalDays(z, r.end, -7))
      [] mode = "previous_year" ->
            DateRange(ShiftLocalYear(z, r.start, -1), ShiftLocalYear(z, r.end, -1))

-----------------------------------------------------------------------------
InitDates == now \in Nows /\ asked = Nothing

TimePasses ==
    /\ \E t \in Nows : t > now /\ now' = t
    /\ asked' = Nothing

\* a page, or a command of the CLI, with the period it is compared with
ViewPage(p, n, g, mode) ==
    LET r == Stepped(ResolveDateRange(p, now), n)
    IN  /\ asked' = [kind |-> "page", preset |-> p, offset |-> n, range |-> r,
                     granularity |-> ResolveGranularity(g, r),
                     compared |-> GetComparisonRange(r, mode)]
        /\ UNCHANGED now

RunCommand(p, s, e) ==
    /\ asked' = [kind |-> "command", range |-> ParsedArgs(p, s, e)]
    /\ UNCHANGED now

\* a query of API v1 by preset, or between two boundaries
Queried(z, r, g, include, mode, bounds) ==
    asked' = IF r = Refused THEN Refused
             ELSE [kind |-> "query", zone |-> z, range |-> r, granularity |-> g, bounds |-> bounds,
                   complete |-> ~include, compared |-> ComparisonRange(z, r, mode)]

QueryPreset(p, z, g, include, mode) ==
    /\ Queried(z, Effective(z, PresetRange(p, now, z), g, include), g, include, mode, <<>>)
    /\ UNCHANGED now

QueryBetween(b1, b2, z, g, include, mode) ==
    /\ Queried(z, ResolveExplicit(z, b1, b2, g, include), g, include, mode, <<b1, b2>>)
    /\ UNCHANGED now

\* one question a moment: nothing is kept between two of them
Asks ==
    \/ \E p \in Presets, n \in Offsets, g \in Granularities \cup {"auto"},
          mode \in {"previous_period", "previous_year"} : ViewPage(p, n, g, mode)
    \/ \E p \in Presets \cup {"all"}, s, e \in {b.at : b \in Explicit} \cup {0} : RunCommand(p, s, e)
    \/ \E z \in Zones, g \in Granularities \cup {"none"}, include \in BOOLEAN,
          mode \in {"previous_period", "previous_week", "previous_year"} :
          \/ \E p \in Presets : QueryPreset(p, z, g, include, mode)
          \/ \E b1, b2 \in Explicit : QueryBetween(b1, b2, z, g, include, mode)

NextDates == TimePasses \/ (asked = Nothing /\ Asks)

DatesSpec == InitDates /\ [][NextDates]_dateVars

-----------------------------------------------------------------------------
(* The pages and API v1 resolve the presets with separate code (date_utils.py  *)
(* and contracts._preset_range): of what has happened before now, a page shows *)
(* exactly what the API answers for the same preset in UTC.  last_quarter is   *)
(* the exception, see LastQuarterIsWhole.                                      *)
Utc == [base |-> 0, from |-> 0, to |-> 0]
PresetsAgree ==
    asked.kind = "page" /\ asked.preset # "last_quarter" /\ asked.offset = 0 =>
        LET page == asked.range
            api == PresetRange(asked.preset, now, Utc)
        IN  page.start = api.start /\ Least(page.end + 1, now) = Least(api.end, now)

(* The instants a boundary may be: a date, those its day begins at on the       *)
(* clocks of the zone; a wall clock, those it is shown at.                      *)
StandsFor(z, b, t) ==
    CASE b.kind = "date" -> Day(Wall(z, t)) = Day(b.at) /\ Day(Wall(z, t - 1)) < Day(b.at)
      [] b.kind = "local" -> Wall(z, t) = b.at
      [] b.kind = "offset" -> t = b.at
Possible(z, b) ==
    IF b.kind = "offset" THEN {b.at} ELSE (b.at - z.base - 1)..(b.at - z.base)
OnlyInstant(z, b, t) == {u \in Possible(z, b) : StandsFor(z, b, u)} = {t}

(* A boundary is taken as the one instant it can be, or refused: a wall clock   *)
(* without an offset only when exactly one instant shows it (_localize_strict's *)
(* two round trips), a date, which no such check guards, as the instant its day *)
(* begins on the zone's clocks, also when its midnight is skipped or comes      *)
(* twice.  And a query that leaves out the partial bucket ends, by now, where a *)
(* bucket of the zone's calendar begins: its clocks show the beginning or, when *)
(* they are put forward over it, have just skipped it.                          *)
RangesAreExact ==
    asked.kind = "query" =>
        LET z == asked.zone
            r == asked.range
            whole == asked.complete /\ asked.granularity # "none"
            first == Floor(Wall(z, r.end), asked.granularity)
        IN  /\ asked.bounds # <<>> =>
                  /\ OnlyInstant(z, asked.bounds[1], r.start)
                  /\ \E e \in Possible(z, asked.bounds[2]) :
                        /\ OnlyInstant(z, asked.bounds[2], e)
                        /\ r.end <= Least(e, now) /\ (whole \/ r.end = Least(e, now))
            /\ whole /\ r.start < now =>
                  /\ r.start < r.end /\ r.end <= now
                  /\ Wall(z, r.end) = first \/ Wall(z, r.end - 1) < first

(* "Return the last microsecond of the last day of the quarter"                 *)
(* (_end_of_quarter): the quarter before now's ends where now's begins.         *)
LastQuarterIsWhole ==
    asked.kind = "page" /\ asked.preset = "last_quarter" /\ asked.offset = 0 =>
        asked.range.end + 1 = StartOfQuarter(now)
=============================================================================
