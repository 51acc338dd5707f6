------------------------------ MODULE Freshness ------------------------------
(***************************************************************************)
(* A target's schedule as it is carried out: the controller fires, pods    *)
(* start late, by hand or never, and `gaps --with-freshness` looks for     *)
(* instants without capture (runtime/gaps.py) and records the target's     *)
(* freshness (runtime/freshness.py), across both changes of the clock.     *)
(*                                                                         *)
(* The partition is a delivery day.  Of the ledger only the states that    *)
(* the detector sets are here; Pipeline has the rest.                      *)
(***************************************************************************)
EXTENDS Calendar

CONSTANTS
    Lookback,      \* of the detector
    DetectEvery,   \* bound: ticks between two runs of the detector
    MaxAgeDays,    \* history.max_age
    MaxDelay,      \* bound: startingDeadlineSeconds
    MaxEvents      \* bound: firings without a pod, captures by hand and
                   \* corrections that withdraw a period, together

ASSUME FreshnessAssumption ==
    {Lookback, DetectEvery, MaxAgeDays, MaxDelay, MaxEvents} \subseteq Nat

VARIABLES
    now,
    waiting,    \* firings whose pod has not started
    served,     \* firings whose own pod has captured
    events,     \* bounded events so far
    captured,   \* the instants with an entry in the capture log
    complete,   \* delivery days of which every period is current
    wasComplete,\* history: days that were complete at some time
    state,      \* run state per instant: none, captured or what the detector set
    detected,   \* when the detector ran last
    row,        \* table freshness
    lateSeen    \* history: days that were recorded as late

vars == <<now, waiting, served, events, captured, complete, wasComplete,
          state, detected, row, lateSeen>>

Instants == 0 .. Horizon
Days == delivery_day_for(0) .. delivery_day_for(Horizon)

------------------------------------------------------------------------------
(* detect_gaps                                                             *)

\* The instant that shows a wall clock; a skipped one is read with the old offset.
FromLocal(l) ==
    LET T == {t \in l - DayLen - 1 .. l - DayLen : Local(t) = l} IN
    IF T = {} THEN l - DayLen ELSE Min(T)

\* max_age_cutoff: days step the civil calendar.
max_age_cutoff(at) == FromLocal(Local(at) - MaxAgeDays * DayLen)

Tolerance(at) == 2 * cadence_of(at)

\* Mutant: two days are waited for whatever the cadence.
DueAfterTwoDays(at) ==
    {t \in cron_instants(at - Lookback, at) \cap Instants : at - t >= 2 * DayLen}

\* The instants the detector acts on.
Due(at) == {t \in cron_instants(at - Lookback, at) \cap Instants : at - t >= Tolerance(at)}

DetectedState(t) ==
    IF t \notin Due(now) \/ t \in captured THEN state[t]
    ELSE IF t >= max_age_cutoff(now)
         THEN IF state[t] = "none" THEN "missing_capture" ELSE state[t]
         ELSE "unrecoverable"

------------------------------------------------------------------------------
(* compute_freshness                                                       *)

\* The last instant inside the partition, and the tolerance of the moment.
ExpectedBy(day, at) ==
    LET b == delivery_day_bounds(day)
        T == cron_instants(b[1] - 1, b[2] - 1) IN
    (IF T = {} THEN b[2] ELSE Max(T)) + Tolerance(at)

\* classify_partition
Status(day) ==
    LET b == delivery_day_bounds(day)
        T == cron_instants(b[1] - 1, b[2] - 1)
        first == IF T = {} THEN b[1] ELSE Min(T) IN
    IF day \in complete THEN "complete"
    ELSE IF now < first THEN "pending"
    ELSE IF now > ExpectedBy(day, now) THEN "late" ELSE "partial"

Collected(day) ==
    \E t \in captured : delivery_day_bounds(day)[1] <= t /\ t < delivery_day_bounds(day)[2]

\* Mutant: the row is always about the current day.
ChosenCurrent == delivery_day_for(now)

\* Mutant: a late day is shown once.
ChosenOnce ==
    LET day == delivery_day_for(now) IN
    IF /\ day \notin complete /\ Status(day - 1) = "late" /\ Collected(day - 1)
       /\ row # [day |-> day - 1, status |-> "late"]
    THEN day - 1 ELSE day

\* Which partition the row reports: a previous day that is late and was
\* collected stays in view while the current one is not complete.
Chosen ==
    LET day == delivery_day_for(now) IN
    IF day \notin complete /\ Status(day - 1) = "late" /\ Collected(day - 1) THEN day - 1 ELSE day

------------------------------------------------------------------------------
(* Steps.                                                                  *)

\* capture for instant t: the entry, and ensure_run.
CaptureFor(t) ==
    /\ captured' = captured \cup {t}
    /\ state' = [state EXCEPT ![t] = "captured"]

\* The clock; the controller fires at the instants of the cadence.
Tick ==
    /\ now < Horizon /\ now - detected < DetectEvery
    /\ \A t \in waiting : now - t < MaxDelay
    /\ now' = now + 1
    /\ waiting' = IF now + 1 \in Firings THEN waiting \cup {now + 1} ELSE waiting
    /\ UNCHANGED <<served, events, captured, complete, wasComplete, state,
                   detected, row, lateSeen>>

\* The pod of a firing; the Job's name has the tick.
CaptureTick(t) ==
    /\ waiting' = waiting \ {t}
    /\ served' = served \cup {t}
    /\ CaptureFor(intended_instant(now, t))
    /\ UNCHANGED <<now, events, complete, wasComplete, detected, row, lateSeen>>

\* A firing without pod: the deadline passed, or the node was away.
Miss(t) ==
    /\ events < MaxEvents
    /\ events' = events + 1
    /\ waiting' = waiting \ {t}
    /\ UNCHANGED <<now, served, captured, complete, wasComplete, state,
                   detected, row, lateSeen>>

\* A Job by hand, whose name has no tick.
CaptureByHand ==
    /\ events < MaxEvents
    /\ events' = events + 1
    /\ CaptureFor(intended_instant(now, None))
    /\ UNCHANGED <<now, waiting, served, complete, wasComplete, detected, row,
                   lateSeen>>

\* backfill of an instant that the detector marked.
Backfill(t) ==
    /\ state[t] = "missing_capture" /\ t \notin captured
    /\ CaptureFor(t)
    /\ UNCHANGED <<now, waiting, served, events, complete, wasComplete,
                   detected, row, lateSeen>>

\* process has made every period of a day current; a correction withdraws one.
Complete(day) ==
    /\ day \notin complete /\ Collected(day)
    /\ complete' = complete \cup {day} /\ wasComplete' = wasComplete \cup {day}
    /\ UNCHANGED <<now, waiting, served, events, captured, state, detected,
                   row, lateSeen>>

Withdraw(day) ==
    /\ events < MaxEvents /\ day \in complete
    /\ events' = events + 1
    /\ complete' = complete \ {day}
    /\ UNCHANGED <<now, waiting, served, captured, wasComplete, state, detected,
                   row, lateSeen>>

\* gaps --with-freshness: detect_gaps, then record_freshness.
Detect ==
    /\ detected < now
    /\ detected' = now
    /\ state' = [t \in Instants |-> DetectedState(t)]
    /\ row' = [day |-> Chosen, status |-> Status(Chosen)]
    /\ lateSeen' = IF row'.status = "late" THEN lateSeen \cup {Chosen} ELSE lateSeen
    /\ UNCHANGED <<now, waiting, served, events, captured, complete, wasComplete>>

Init ==
    /\ now = 0 /\ detected = 0 /\ events = 0
    /\ waiting = {} /\ served = {} /\ captured = {} /\ complete = {} /\ wasComplete = {}
    /\ state = [t \in Instants |-> "none"]
    /\ row = [day |-> delivery_day_for(0), status |-> "pending"] /\ lateSeen = {}

Next ==
    \/ Tick \/ CaptureByHand \/ Detect
    \/ \E t \in waiting : CaptureTick(t) \/ Miss(t)
    \/ \E t \in Instants : Backfill(t)
    \/ \E day \in {delivery_day_for(now), delivery_day_for(now) - 1} : Complete(day) \/ Withdraw(day)

Spec == Init /\ [][Next]_vars

------------------------------------------------------------------------------
(* Properties.                                                             *)

\* No phantom gaps (schedule.py, review 3 R2): an instant whose own pod captured,
\* however late it started and on whichever side of a change of the clock, is
\* never a gap, and nothing is captured for an instant that nobody expects.
NoPhantomGap ==
    /\ \A t \in served : t \in captured /\ state[t] = "captured"
    /\ \A t \in captured : matches(t) \/ latest_instant(t) = None

\* Nothing slips between two runs of the detector, "older than the tolerance
\* (2 x cadence)" (gaps.py): an instant of the cadence that is older than the
\* tolerance and a round, whichever tolerance was computed during that round, is
\* captured or marked; also when it has left the look-back since.
NothingSlipsThrough ==
    \A t \in cron_instants(0, now) :
        (\A at \in {at \in 0 .. now : now - at <= DetectEvery} :
            now - t >= Tolerance(at) + DetectEvery)
        => t \in captured \/ state[t] # "none"

\* "stays visible as late after midnight instead of vanishing" (freshness.py):
\* a day that was collected and never complete has been recorded as late before
\* the next day is over, unless that one was complete at some time.
LateSurfaces ==
    \A day \in Days : LET over == Midnight(day + 2) IN
        (/\ over <= now /\ detected >= over - 1
         /\ \E t \in captured \cap served : delivery_day_for(t) = day
         /\ {day, day + 1} \cap wasComplete = {})
        => day \in lateSeen

\* A day that was collected and is reported late stays in the row through the
\* next day until it or the next one is complete, although the tolerance is
\* computed anew from the instants around each moment.  It gives way only to the
\* day before it, when that one has become late (a correction withdrew a period).
LateStaysInView ==
    [][row.status = "late" /\ delivery_day_for(now) <= row.day + 1 /\ Collected(row.day)
       /\ {row.day, delivery_day_for(now)} \cap complete = {}
       => row' \in {row, [row EXCEPT !.day = @ - 1]}]_vars

\* What the two properties of late days need of a cadence: after a day with
\* instants, the detector's last round of the next day is past the tolerance;
\* and the tolerance never grows faster than time passes.
ToleranceEndsInTime ==
    \A at \in Instants, t \in Firings :
        /\ delivery_day_for(at) = delivery_day_for(t) + 1
        /\ Midnight(delivery_day_for(at) + 1) - at <= DetectEvery
        => at > ExpectedBy(delivery_day_for(t), at)

ToleranceKeepsPace ==
    \A a, b \in Instants : a <= b => Tolerance(b) - Tolerance(a) <= b - a

\* Delivery days tile the time line, and their intervals the day: each instant
\* is in exactly one, 23, 24 or 25 hours long; capture and process agree on it.
DaysTile ==
    LET day == delivery_day_for(now)
        b == delivery_day_bounds(day) IN
    /\ b[1] <= now /\ now < b[2] /\ delivery_day_bounds(day - 1)[2] = b[1]
    /\ \E i \in 1 .. DayLen + 1 : interval_for_index(day, i) = now
    /\ \A i \in DOMAIN local_day_intervals(day) :
          delivery_day_for(local_day_intervals(day)[i]) = day

\* The search by days finds the newest instant at or before now, and both ways
\* to go back k months agree, over the turn of the year and more than once.
InstantAndMonthsAgree ==
    /\ LET T == cron_instants(now - SearchDays * DayLen, now) IN
       latest_instant(now) = IF T = {} THEN None ELSE Max(T)
    /\ LET m == (now % 12) + 1 IN \A k \in 0 .. 13 : ShiftMonth(2026, m, k) = MonthBack(2026, m, k)
==============================================================================
