------------------------------ MODULE Calendar -------------------------------
(***************************************************************************)
(* The calendar of a target: civil time, delivery days and intervals       *)
(* (contracts/intervals.py, runtime/context.py), cron expressions          *)
(* (runtime/cron.py), the instant a capture is for (runtime/schedule.py)   *)
(* and month arithmetic (fetch/render.py, runtime/freshness.py).           *)
(*                                                                         *)
(* Time is counted in the ticks a cron expression can name (minutes in the *)
(* code, where a day has 1440).  The zone has one change forward and one   *)
(* back, of one tick each: the tick the wall clock skips and the one it    *)
(* shows twice.                                                            *)
(***************************************************************************)
EXTENDS Integers, FiniteSetsExt

CONSTANTS
    DayLen,         \* ticks of an ordinary day
    WeekLen,        \* days of a week
    Spring, Autumn, \* instants of the two changes of the clock
    Horizon,        \* bound: the last instant
    Cron            \* [hours, days, weekdays: the parts of a field]

ASSUME CalendarAssumption ==
    /\ {DayLen, WeekLen, Spring, Autumn, Horizon} \subseteq Nat \ {0}
    /\ Spring < Autumn /\ Autumn <= Horizon /\ DayLen > 2

\* Before every instant.
None == -(6 * DayLen)

------------------------------------------------------------------------------
(* Civil time.                                                             *)

Local(t) == t + DayLen + IF Spring <= t /\ t < Autumn THEN 1 ELSE 0
TimeOfDay(t) == Local(t) % DayLen

\* delivery_day_for: the civil date of an instant.
delivery_day_for(t) == Local(t) \div DayLen

\* _local_midnight: the instant a civil day begins, the first if there are two.
Span == -(5 * DayLen) .. Horizon + 3 * DayLen
Midnights == [day \in delivery_day_for(Min(Span)) + 1 .. delivery_day_for(Max(Span)) |->
                Min({t \in Span : delivery_day_for(t) = day})]
Midnight(day) == Midnights[day]

\* delivery_day_bounds
delivery_day_bounds(day) == <<Midnight(day), Midnight(day + 1)>>

\* Mutant: a day has the same length all the year.
FixedDayIntervals(day) == [i \in 1 .. DayLen |-> Midnight(day) + i - 1]

\* local_day_intervals, of one tick each: the start of interval i.
local_day_intervals(day) ==
    [i \in 1 .. Midnight(day + 1) - Midnight(day) |-> Midnight(day) + i - 1]

\* interval_for_index: a source's 1-based period index; None outside the day.
interval_for_index(day, i) ==
    IF i \in DOMAIN local_day_intervals(day) THEN local_day_intervals(day)[i] ELSE None

------------------------------------------------------------------------------
(* Cron expressions.  A part of a field is a record of the bounds a and b,  *)
(* None where the text has none, and the step.                             *)

\* _field: the values of a comma list of *, n, a-b, */s, a-b/s and n/s.
Field(parts, lo, hi) ==
    LET first(x) == IF x.a = None THEN lo ELSE x.a
        last(x) == IF x.b # None THEN x.b ELSE IF x.a = None \/ x.step # 1 THEN hi ELSE x.a IN
    {v \in lo .. hi : \E x \in parts : /\ v \in first(x) .. last(x)
                                       /\ (v - first(x)) % x.step = 0}

Star == {[a |-> None, b |-> None, step |-> 1]}

\* CronExpression.parse; day-of-week 7 is 0, and a month is as long as a day here.
parse == [hours |-> Field(Cron.hours, 0, DayLen - 1),
          days |-> Field(Cron.days, 1, DayLen),
          weekdays |-> {d % WeekLen : d \in Field(Cron.weekdays, 0, WeekLen)},
          day_restricted |-> Cron.days # Star,
          weekday_restricted |-> Cron.weekdays # Star]

\* CronExpression.matches: of two restricted day fields either is enough.
matches(t) ==
    LET day == delivery_day_for(t)
        day_ok == (day % DayLen) + 1 \in parse.days
        weekday_ok == day % WeekLen \in parse.weekdays IN
    /\ TimeOfDay(t) \in parse.hours
    /\ IF parse.day_restricted /\ parse.weekday_restricted
       THEN day_ok \/ weekday_ok ELSE day_ok /\ weekday_ok

Firings == {t \in Span : matches(t)}

\* cron_instants: start < t <= end.
cron_instants(start, end) == {t \in Firings : start < t /\ t <= end}

\* cadence_of: the smallest gap in the day before and the day after.
Cadences ==
    [reference \in 0 .. Horizon |->
        LET T == cron_instants(reference - DayLen, reference + DayLen)
            gaps == {p[2] - p[1] : p \in {q \in T \X T : q[1] < q[2]}} IN
        IF gaps = {} THEN DayLen ELSE Min(gaps)]
cadence_of(reference) == Cadences[reference]

------------------------------------------------------------------------------
(* The instant a capture is for.                                           *)

SearchDays == 4   \* the code's window of 62 days

\* Mutant: the search steps over the first instant of a day.
LatestInOpenWindow(now) ==
    LET found(k) == {t \in cron_instants(now - (k + 1) * DayLen, now - k * DayLen) :
                        t < now - k * DayLen}
        hits == {k \in 0 .. SearchDays - 1 : found(k) # {}} IN
    IF hits = {} THEN None ELSE Max(found(Min(hits)))

\* latest_instant: searched one day at a time.
latest_instant(now) ==
    LET found(k) == cron_instants(now - (k + 1) * DayLen, now - k * DayLen)
        hits == {k \in 0 .. SearchDays - 1 : found(k) # {}} IN
    IF hits = {} THEN None ELSE Max(found(Min(hits)))

\* Mutant: the run is the moment the pod started (before amendment 1).
IntendedNow(now, job) == now

\* intended_instant: the controller's tick in the Job name if it is an instant
\* of the cadence within the last day, else the newest instant, else now.
intended_instant(now, job) ==
    IF job # None /\ job \in now - DayLen .. now /\ matches(job) THEN job
    ELSE IF latest_instant(now) # None THEN latest_instant(now)
    ELSE now

------------------------------------------------------------------------------
(* Months, of a real calendar, as <<year, month>>.                         *)

\* _MonthBack: month_start[k] and month_end[k] of a template.
MonthBack(y, m, k) == <<(y * 12 + m - 1 - k) \div 12, ((y * 12 + m - 1 - k) % 12) + 1>>

\* _shift_month and max_age_cutoff: twelve months are added until one is left.
ShiftMonth(y, m, k) ==
    LET n == Min({i \in 0 .. k : m - k + 12 * i >= 1}) IN <<y - n, m - k + 12 * n>>
==============================================================================
