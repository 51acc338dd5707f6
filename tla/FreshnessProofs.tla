--------------------------- MODULE FreshnessProofs ----------------------------
(***************************************************************************)
(* Theorems about the calendar and the freshness of a target, for every    *)
(* length of the day, every two changes of the clock, every cron           *)
(* expression and every horizon.                                           *)
(***************************************************************************)
EXTENDS Freshness, WellFoundedInduction, TLAPS

------------------------------------------------------------------------------
(* Integers: least and greatest elements, division.                        *)

LEMMA LeastNatural ==
    ASSUME NEW T \in SUBSET Nat, T # {}
    PROVE  \E n \in T : \A y \in T : n <= y
<1> DEFINE R == OpToRel(<, Nat)
<1>1. \A x, y \in Nat : <<x, y>> \in R <=> x < y
  BY DEF OpToRel
<1>2. IsWellFoundedOn(R, Nat)
  BY NatLessThanWellFounded
<1> HIDE DEF R
<1>3. PICK n \in T : \A y \in T : ~(<<y, n>> \in R)
  BY <1>2, WFMin
<1>4. ASSUME NEW y \in T PROVE n <= y
  <2>1. y \in Nat /\ n \in Nat /\ <<y, n>> \notin R
    BY <1>3
  <2>2. ~(y < n)
    BY <1>1, <2>1
  <2> QED BY <2>1, <2>2
<1> QED BY <1>4

\* A set of integers that is bounded from below has a least element, the one
\* that Min takes.
LEMMA LeastInteger ==
    ASSUME NEW S \in SUBSET Int, S # {}, NEW a \in Int, \A x \in S : a <= x
    PROVE  Min(S) \in S /\ \A x \in S : Min(S) <= x
<1> DEFINE T == {x - a : x \in S}
<1>1. T \subseteq Nat /\ T # {}
  <2>1. \A x \in S : x - a \in Nat
    OBVIOUS
  <2> QED BY <2>1
<1> HIDE DEF T
<1>2. PICK n \in T : \A y \in T : n <= y
  BY <1>1, LeastNatural
<1>3. n \in Nat /\ \A y \in T : y \in Nat /\ n <= y
  BY <1>1, <1>2
<1>4. PICK m \in S : n = m - a
  BY <1>2 DEF T
<1>5. ASSUME NEW x \in S PROVE m <= x
  <2>1. x - a \in T
    BY DEF T
  <2> QED BY <1>3, <1>4, <2>1
<1> QED BY <1>5 DEF Min

LEMMA MinNatural ==
    ASSUME NEW S \in SUBSET Nat, S # {}
    PROVE  Min(S) \in S /\ \A x \in S : Min(S) <= x
<1>1. \E x \in S : \A y \in S : x =< y
  BY LeastNatural
<1> QED BY <1>1 DEF Min

LEMMA GreatestInteger ==
    ASSUME NEW S \in SUBSET Int, S # {}, NEW b \in Int, \A x \in S : x <= b
    PROVE  Max(S) \in S /\ \A x \in S : x <= Max(S)
<1> DEFINE T == {b - x : x \in S}
<1>1. T \subseteq Nat /\ T # {}
  <2>1. \A x \in S : b - x \in Nat
    OBVIOUS
  <2> QED BY <2>1
<1> HIDE DEF T
<1>2. PICK n \in T : \A y \in T : n <= y
  BY <1>1, LeastNatural
<1>3. n \in Nat /\ \A y \in T : y \in Nat /\ n <= y
  BY <1>1, <1>2
<1>4. PICK m \in S : n = b - m
  BY <1>2 DEF T
<1>5. ASSUME NEW x \in S PROVE m >= x
  <2>1. b - x \in T
    BY DEF T
  <2> QED BY <1>3, <1>4, <2>1
<1>6. \E x \in S : \A y \in S : x >= y
  BY <1>5
<1>7. Max(S) \in S /\ \A y \in S : Max(S) >= y
  BY <1>6 DEF Max
<1> QED BY <1>7

\* Who is above all is the greatest.
LEMMA GreatestIs ==
    ASSUME NEW S \in SUBSET Int, NEW m \in S, \A x \in S : x <= m
    PROVE  Max(S) = m
<1>1. \E x \in S : \A y \in S : x >= y
  OBVIOUS
<1>2. Max(S) \in S /\ \A y \in S : Max(S) >= y
  BY <1>1 DEF Max
<1>3. PICK k \in Int : k = Max(S)
  BY <1>2
<1>4. k >= m /\ m >= k
  BY <1>2, <1>3
<1> QED BY <1>3, <1>4

LEMMA LeastIs ==
    ASSUME NEW S \in SUBSET Int, NEW m \in S, \A x \in S : m <= x
    PROVE  Min(S) = m
<1>1. \E x \in S : \A y \in S : x =< y
  OBVIOUS
<1>2. Min(S) \in S /\ \A y \in S : Min(S) <= y
  BY <1>1 DEF Min
<1>3. PICK k \in Int : k = Min(S)
  BY <1>2
<1>4. k <= m /\ m <= k
  BY <1>2, <1>3
<1> QED BY <1>3, <1>4

\* Euclid: the quotient and what it leaves.
LEMMA Quotient ==
    ASSUME NEW a \in Int, NEW d \in Nat \ {0}
    PROVE  /\ a \div d \in Int
           /\ d * (a \div d) <= a /\ a < d * (a \div d) + d
  OBVIOUS

LEMMA QuotientGrows ==
    ASSUME NEW a \in Int, NEW b \in Int, a <= b, NEW d \in Nat \ {0}
    PROVE  a \div d <= b \div d
<1>1. PICK p \in Int : p = a \div d /\ d * p <= a /\ a < d * p + d
  BY Quotient
<1>2. PICK q \in Int : q = b \div d /\ d * q <= b /\ b < d * q + d
  BY Quotient
<1>3. CASE p >= q + 1
  <2>1. d * p >= d * (q + 1) /\ d * (q + 1) = d * q + d
    BY <1>3
  <2> QED BY <1>1, <1>2, <2>1
<1> QED BY <1>1, <1>2, <1>3

------------------------------------------------------------------------------
(* Civil time: the wall clock never goes back by a whole tick, and skips no *)
(* day.                                                                    *)

LEMMA Sizes ==
    /\ DayLen \in Nat \ {0} /\ DayLen > 2
    /\ Spring \in Nat \ {0} /\ Autumn \in Nat \ {0} /\ Horizon \in Nat \ {0}
    /\ Spring < Autumn /\ Autumn <= Horizon
  BY CalendarAssumption

LEMMA LocalRuns ==
    ASSUME NEW s \in Int, NEW t \in Int, s <= t
    PROVE  /\ Local(s) \in Int /\ Local(t) \in Int
           /\ s + DayLen <= Local(s) /\ Local(s) <= s + DayLen + 1
           /\ Local(s) <= Local(t)
           /\ Local(s) + (t - s) - 1 <= Local(t)
           /\ Local(t) <= Local(s) + (t - s) + 1
  BY Sizes DEF Local

LEMMA DayOfInstant ==
    ASSUME NEW t \in Int
    PROVE  /\ delivery_day_for(t) \in Int
           /\ DayLen * delivery_day_for(t) <= Local(t)
           /\ Local(t) < DayLen * delivery_day_for(t) + DayLen
<1>1. Local(t) \in Int
  BY LocalRuns
<1> QED BY <1>1, Quotient, Sizes DEF delivery_day_for

LEMMA DaysRun ==
    ASSUME NEW s \in Int, NEW t \in Int, s <= t
    PROVE  delivery_day_for(s) <= delivery_day_for(t)
<1>1. Local(s) \in Int /\ Local(t) \in Int /\ Local(s) <= Local(t)
  BY LocalRuns
<1> QED BY <1>1, QuotientGrows, Sizes DEF delivery_day_for

LEMMA NoDaySkipped ==
    ASSUME NEW t \in Int
    PROVE  delivery_day_for(t + 1) <= delivery_day_for(t) + 1
<1>1. PICK d \in Int : /\ d = delivery_day_for(t)
                       /\ DayLen * d <= Local(t) /\ Local(t) < DayLen * d + DayLen
  BY DayOfInstant
<1>2. PICK e \in Int : /\ e = delivery_day_for(t + 1) /\ DayLen * e <= Local(t + 1)
  BY DayOfInstant
<1>3. /\ Local(t) \in Int /\ Local(t + 1) \in Int
      /\ Local(t + 1) <= Local(t) + 2
  BY LocalRuns
<1>4. CASE e >= d + 2
  <2>1. DayLen * e >= DayLen * (d + 2) /\ DayLen * (d + 2) = DayLen * d + DayLen + DayLen
    BY <1>4, Sizes
  <2> QED BY <1>1, <1>2, <1>3, <2>1, Sizes
<1> QED BY <1>1, <1>2, <1>4

LEMMA SpanEnds ==
    /\ Span \subseteq Int
    /\ Min(Span) = -(5 * DayLen) /\ Max(Span) = Horizon + 3 * DayLen
<1>1. /\ -(5 * DayLen) \in Int /\ Horizon + 3 * DayLen \in Int
      /\ -(5 * DayLen) <= Horizon + 3 * DayLen
  BY Sizes
<1>2. \A a, b \in Int : a <= b =>
         /\ (a .. b) \subseteq Int /\ a \in a .. b /\ b \in a .. b
         /\ \A x \in a .. b : a <= x /\ x <= b
  OBVIOUS
<1>3. /\ Span \subseteq Int
      /\ -(5 * DayLen) \in Span /\ \A x \in Span : -(5 * DayLen) <= x
      /\ Horizon + 3 * DayLen \in Span /\ \A x \in Span : x <= Horizon + 3 * DayLen
  BY <1>1, <1>2 DEF Span
<1> QED BY <1>1, <1>3, LeastIs, GreatestIs

\* The days whose midnight the calendar knows.
KnownDays == delivery_day_for(-(5 * DayLen)) + 1 .. delivery_day_for(Horizon + 3 * DayLen)

LEMMA MidnightIs ==
    ASSUME NEW day \in KnownDays
    PROVE  Midnight(day) = Min({t \in Span : delivery_day_for(t) = day})
  BY SpanEnds DEF Midnight, Midnights, KnownDays

\* A day begins once: what is before its midnight is an earlier day, what is
\* not is that day or a later one.
LEMMA MidnightBegins ==
    ASSUME NEW day \in KnownDays
    PROVE  /\ Midnight(day) \in Span
           /\ \A t \in Span : t < Midnight(day) <=> delivery_day_for(t) < day
           /\ delivery_day_for(Midnight(day)) = day
<1> DEFINE a == -(5 * DayLen)
           b == Horizon + 3 * DayLen
           Later == {t \in Span : day <= delivery_day_for(t)}
           Same == {t \in Span : delivery_day_for(t) = day}
<1>1. /\ a \in Int /\ b \in Int /\ a <= b /\ Span = a .. b
  BY Sizes DEF Span
<1>2. /\ day \in Int /\ delivery_day_for(a) < day /\ day <= delivery_day_for(b)
  <2>1. delivery_day_for(a) \in Int /\ delivery_day_for(b) \in Int
    BY <1>1, DayOfInstant
  <2> QED BY <2>1 DEF KnownDays
<1> HIDE DEF a, b
<1>3. Later \in SUBSET Int /\ b \in Later /\ \A x \in Later : a <= x
  BY <1>1, <1>2
<1>4. PICK m \in Int : m = Min(Later) /\ m \in Later /\ \A x \in Later : m <= x
  BY <1>1, <1>3, LeastInteger
<1>5. a < m /\ m <= b
  <2>1. a <= m /\ m <= b /\ delivery_day_for(m) >= day
    BY <1>1, <1>4
  <2>2. m # a
    BY <1>1, <1>2, <2>1, DayOfInstant
  <2> QED BY <1>1, <2>1, <2>2
<1>6. m - 1 \in Span /\ m - 1 \notin Later
  BY <1>1, <1>4, <1>5
<1>7. PICK p \in Int : p = delivery_day_for(m - 1) /\ p < day
  BY <1>2, <1>6, DayOfInstant
<1>8. PICK q \in Int : q = delivery_day_for(m) /\ q <= p + 1 /\ day <= q
  <2>1. (m - 1) + 1 = m /\ m - 1 \in Int
    BY <1>4
  <2>2. delivery_day_for(m) <= delivery_day_for(m - 1) + 1
    BY <2>1, NoDaySkipped
  <2> QED BY <1>4, <1>7, <2>2, DayOfInstant
<1>9. m \in Same /\ delivery_day_for(m) = day
  BY <1>2, <1>4, <1>7, <1>8
<1>10. Same \in SUBSET Int /\ \A x \in Same : m <= x
  BY <1>1, <1>2, <1>4
<1>11. Midnight(day) = m
  BY <1>9, <1>10, LeastIs, MidnightIs
<1>12. ASSUME NEW t \in Span PROVE t < m <=> delivery_day_for(t) < day
  <2>1. t \in Int /\ delivery_day_for(t) \in Int
    BY <1>1, DayOfInstant
  <2>2. t < m => t \notin Later
    BY <1>4, <2>1
  <2>3. m <= t => delivery_day_for(m) <= delivery_day_for(t)
    BY <1>4, <2>1, DaysRun
  <2> QED BY <1>2, <1>4, <1>9, <2>1, <2>2, <2>3
<1> QED BY <1>4, <1>9, <1>11, <1>12

\* The days around an instant up to the horizon are known.
LEMMA DaysAround ==
    ASSUME NEW t \in 0 .. Horizon
    PROVE  /\ t \in Span
           /\ \A k \in -1 .. 2 : delivery_day_for(t) + k \in KnownDays
<1> DEFINE a == -(5 * DayLen)
           b == Horizon + 3 * DayLen
<1>1. t \in Int /\ a \in Int /\ b \in Int /\ t \in Span
  BY Sizes DEF Span
<1>2. Local(a) = -(4 * DayLen) /\ Local(t) >= DayLen /\ Local(t) <= Horizon + DayLen + 1
  BY Sizes DEF Local
<1>3. Local(b) >= Horizon + 4 * DayLen /\ Local(t) \in Int /\ Local(b) \in Int
  BY Sizes DEF Local
<1>4. PICK d \in Int : /\ d = delivery_day_for(t)
                       /\ DayLen * d <= Local(t) /\ Local(t) < DayLen * d + DayLen
  BY <1>1, DayOfInstant
<1>5. PICK p \in Int : /\ p = delivery_day_for(a) /\ DayLen * p <= Local(a)
  BY <1>1, DayOfInstant
<1>6. PICK q \in Int : /\ q = delivery_day_for(b) /\ Local(b) < DayLen * q + DayLen
  BY <1>1, DayOfInstant
<1> HIDE DEF a, b
<1>7. d >= 1
  <2>1. CASE d <= 0
    <3>1. DayLen * d <= 0
      BY <2>1, Sizes
    <3> QED BY <1>2, <1>3, <1>4, <3>1, Sizes
  <2> QED BY <2>1, <1>4
<1>8. p <= -4
  <2>1. CASE p >= -3
    <3>1. DayLen * p >= -(3 * DayLen)
      BY <2>1, Sizes
    <3> QED BY <1>2, <1>5, <3>1, Sizes
  <2> QED BY <2>1, <1>5
<1>9. q >= d + 2
  <2>1. CASE q <= d + 1
    <3>1. DayLen * q <= DayLen * (d + 1) /\ DayLen * (d + 1) = DayLen * d + DayLen
      BY <2>1, Sizes
    <3> QED BY <1>2, <1>3, <1>4, <1>6, <3>1, Sizes
  <2> QED BY <2>1, <1>4, <1>6
<1>10. \A k \in -1 .. 2 : p + 1 <= d + k /\ d + k <= q /\ d + k \in Int
  BY <1>7, <1>8, <1>9
<1> QED BY <1>1, <1>4, <1>5, <1>6, <1>10 DEF KnownDays, a, b

LEMMA KnownFromDay ==
    ASSUME NEW t \in 0 .. Horizon
    PROVE  LET d == delivery_day_for(t) IN
           /\ d \in Int /\ t \in Span
           /\ d - 1 \in KnownDays /\ d \in KnownDays /\ d + 1 \in KnownDays /\ d + 2 \in KnownDays
<1>1. PICK d \in Int : d = delivery_day_for(t) /\ t \in Span
  BY DayOfInstant, DaysAround
<1>2. /\ -1 \in -1 .. 2 /\ 0 \in -1 .. 2 /\ 1 \in -1 .. 2 /\ 2 \in -1 .. 2
      /\ d + (-1) = d - 1 /\ d + 0 = d
  OBVIOUS
<1>3. \A k \in -1 .. 2 : d + k \in KnownDays
  BY <1>1, DaysAround
<1> QED BY <1>1, <1>2, <1>3

------------------------------------------------------------------------------
(* Delivery days tile the time line.                                       *)

LEMMA TilesAt ==
    ASSUME now \in 0 .. Horizon
    PROVE  DaysTile
<1>1. PICK t \in Int : t = now /\ t \in Span /\ t \in 0 .. Horizon
  BY DaysAround
<1>2. PICK d \in Int : d = delivery_day_for(t)
  BY DayOfInstant
<1>3. d \in KnownDays /\ d - 1 \in KnownDays /\ d + 1 \in KnownDays
  <2>1. \A k \in -1 .. 2 : d + k \in KnownDays
    BY <1>1, <1>2, DaysAround
  <2>2. -1 \in -1 .. 2 /\ 0 \in -1 .. 2 /\ 1 \in -1 .. 2 /\ d + (-1) = d - 1 /\ d + 0 = d
    BY <1>2
  <2> QED BY <2>1, <2>2
<1>4. PICK m \in Int : /\ m = Midnight(d) /\ m \in Span /\ delivery_day_for(m) = d
                       /\ \A x \in Span : x < m <=> delivery_day_for(x) < d
  BY <1>3, MidnightBegins, SpanEnds
<1>5. PICK n \in Int : /\ n = Midnight(d + 1) /\ n \in Span /\ delivery_day_for(n) = d + 1
                       /\ \A x \in Span : x < n <=> delivery_day_for(x) < d + 1
  BY <1>3, MidnightBegins, SpanEnds
<1>6. m <= t /\ t < n
  BY <1>1, <1>2, <1>4, <1>5
<1>7. delivery_day_bounds(d) = <<m, n>>
  BY <1>4, <1>5 DEF delivery_day_bounds
<1>8. delivery_day_bounds(d - 1)[2] = m
  <2>1. (d - 1) + 1 = d
    BY <1>2
  <2> QED BY <1>4, <2>1 DEF delivery_day_bounds
<1>9. local_day_intervals(d) = [i \in 1 .. n - m |-> m + i - 1]
  BY <1>4, <1>5 DEF local_day_intervals
<1>10. \E i \in 1 .. DayLen + 1 : interval_for_index(d, i) = t
  <2>1. t - m <= DayLen
    <3>1. /\ Local(m) \in Int /\ Local(t) \in Int /\ Local(m) + (t - m) - 1 <= Local(t)
      BY <1>6, LocalRuns
    <3>2. DayLen * d <= Local(m)
      BY <1>4, DayOfInstant
    <3>3. Local(t) < DayLen * d + DayLen
      BY <1>2, DayOfInstant
    <3>4. PICK x \in Int : x = DayLen * d
      BY Sizes
    <3> QED BY <3>1, <3>2, <3>3, <3>4, Sizes
  <2>2. PICK i \in Int : i = t - m + 1
    OBVIOUS
  <2>3. i \in 1 .. DayLen + 1 /\ i \in 1 .. n - m /\ m + i - 1 = t
    BY <1>6, <2>1, <2>2, Sizes
  <2>4. interval_for_index(d, i) = t
    BY <1>9, <2>3 DEF interval_for_index
  <2> QED BY <2>3, <2>4
<1>11. ASSUME NEW i \in DOMAIN local_day_intervals(d)
       PROVE  delivery_day_for(local_day_intervals(d)[i]) = d
  <2>1. i \in 1 .. n - m /\ local_day_intervals(d)[i] = m + i - 1
    BY <1>9, <1>11
  <2>2. PICK x \in Int : x = m + i - 1 /\ m <= x /\ x < n
    BY <2>1
  <2>3. x \in Span
    BY <1>4, <1>5, <2>2, Sizes DEF Span
  <2>4. delivery_day_for(x) \in Int
    BY DayOfInstant
  <2>5. ~(delivery_day_for(x) < d) /\ delivery_day_for(x) < d + 1
    BY <1>4, <1>5, <2>2, <2>3
  <2> QED BY <2>1, <2>2, <2>4, <2>5
<1> QED
  BY <1>1, <1>2, <1>6, <1>7, <1>8, <1>10, <1>11 DEF DaysTile

------------------------------------------------------------------------------
(* Months, and the search for the newest instant.                          *)

\* Adding twelve until a month is left is the same as counting all months from
\* the year 0, for every year and however many months back.
LEMMA MonthsAgree ==
    ASSUME NEW y \in Int, NEW m \in 1 .. 12, NEW k \in Nat
    PROVE  ShiftMonth(y, m, k) = MonthBack(y, m, k)
<1> DEFINE N == {i \in 0 .. k : m - k + 12 * i >= 1}
<1>1. N \in SUBSET Nat /\ k \in N
  OBVIOUS
<1> HIDE DEF N
<1>2. PICK n \in Nat : n = Min(N) /\ n \in N /\ \A i \in N : n <= i
  <2>1. Min(N) \in N /\ \A i \in N : Min(N) <= i
    BY <1>1, MinNatural
  <2>2. Min(N) \in Nat
    BY <1>1, <2>1
  <2> QED BY <2>1, <2>2
<1>3. n \in 0 .. k /\ m - k + 12 * n >= 1
  BY <1>2 DEF N
<1>4. n > 0 => ~(m - k + 12 * (n - 1) >= 1)
  <2>1. n > 0 => n - 1 \in 0 .. k /\ n - 1 \notin N
    BY <1>2, <1>3
  <2> QED BY <2>1 DEF N
<1>5. PICK r \in Int : r = m - k + 12 * n /\ 1 <= r /\ r <= 12
  BY <1>3, <1>4
<1>6. ShiftMonth(y, m, k) = <<y - n, r>>
  BY <1>2, <1>5 DEF ShiftMonth, N
<1>7. y * 12 + m - 1 - k = 12 * (y - n) + (r - 1)
  BY <1>3, <1>5
<1>8. (y * 12 + m - 1 - k) \div 12 = y - n /\ ((y * 12 + m - 1 - k) % 12) + 1 = r
  BY <1>3, <1>5, <1>7
<1> QED BY <1>6, <1>8 DEF MonthBack

Found(at, k) == cron_instants(at - (k + 1) * DayLen, at - k * DayLen)

LEMMA FoundIs ==
    ASSUME NEW at \in Int, NEW k \in Nat
    PROVE  /\ Found(at, k) \subseteq Firings /\ Found(at, k) \subseteq Int
           /\ \A t \in Found(at, k) : at - (k + 1) * DayLen < t /\ t <= at - k * DayLen
           /\ \A t \in Firings : at - (k + 1) * DayLen < t /\ t <= at - k * DayLen
                => t \in Found(at, k)
  BY SpanEnds DEF Found, cron_instants, Firings

\* A search that goes back by days and one that looks at all of them at once
\* find the same instant: the first day with an instant has the newest one.
LEMMA LatestIsNewest ==
    ASSUME NEW at \in Int
    PROVE  LET T == cron_instants(at - SearchDays * DayLen, at) IN
           latest_instant(at) = IF T = {} THEN None ELSE Max(T)
<1> DEFINE T == cron_instants(at - SearchDays * DayLen, at)
           hits == {k \in 0 .. SearchDays - 1 : Found(at, k) # {}}
<1>1. latest_instant(at) = IF hits = {} THEN None ELSE Max(Found(at, Min(hits)))
  BY DEF latest_instant, Found
<1>2. /\ T \subseteq Int /\ T \subseteq Firings
      /\ \A t \in T : at - 4 * DayLen < t /\ t <= at
      /\ \A t \in Firings : at - 4 * DayLen < t /\ t <= at => t \in T
  BY SpanEnds DEF cron_instants, Firings, SearchDays
<1>3. \A k \in 0 .. 3 : Found(at, k) \subseteq T
  <2> SUFFICES ASSUME NEW k \in 0 .. 3, NEW t \in Found(at, k) PROVE t \in T
    OBVIOUS
  <2>1. t \in Firings /\ t \in Int /\ at - (k + 1) * DayLen < t /\ t <= at - k * DayLen
    BY FoundIs
  <2>2. k = 0 \/ k = 1 \/ k = 2 \/ k = 3
    OBVIOUS
  <2>3. at - 4 * DayLen < t /\ t <= at
    BY <2>1, <2>2, Sizes
  <2> QED BY <1>2, <2>1, <2>3
<1>4. ASSUME NEW t \in T PROVE \E k \in 0 .. 3 : t \in Found(at, k)
  <2>1. t \in Firings /\ t \in Int /\ at - 4 * DayLen < t /\ t <= at
    BY <1>2
  <2>2. \E k \in 0 .. 3 : at - (k + 1) * DayLen < t /\ t <= at - k * DayLen
    <3>1. \/ at - (0 + 1) * DayLen < t /\ t <= at - 0 * DayLen
          \/ at - (1 + 1) * DayLen < t /\ t <= at - 1 * DayLen
          \/ at - (2 + 1) * DayLen < t /\ t <= at - 2 * DayLen
          \/ at - (3 + 1) * DayLen < t /\ t <= at - 3 * DayLen
      BY <2>1, Sizes
    <3>2. 0 \in 0 .. 3 /\ 1 \in 0 .. 3 /\ 2 \in 0 .. 3 /\ 3 \in 0 .. 3
      OBVIOUS
    <3> QED BY <3>1, <3>2
  <2> QED BY <2>1, <2>2, FoundIs
<1>5. hits = {k \in 0 .. 3 : Found(at, k) # {}}
  BY DEF SearchDays
<1> HIDE DEF T, hits
<1>6. CASE T = {}
  <2>1. hits = {}
    BY <1>3, <1>5, <1>6
  <2> QED BY <1>1, <1>6, <2>1 DEF T
<1>7. CASE T # {}
  <2>1. hits # {} /\ hits \in SUBSET Nat
    BY <1>4, <1>5, <1>7
  <2>2. PICK k \in Nat : k = Min(hits) /\ k \in hits /\ \A j \in hits : k <= j
    <3>1. Min(hits) \in hits /\ \A j \in hits : Min(hits) <= j
      BY <2>1, MinNatural
    <3>2. Min(hits) \in Nat
      BY <2>1, <3>1
    <3> QED BY <3>1, <3>2
  <2>3. k \in 0 .. 3 /\ Found(at, k) # {}
    BY <1>5, <2>2
  <2>4. /\ Found(at, k) \in SUBSET Int
        /\ \A t \in Found(at, k) : at - (k + 1) * DayLen < t /\ t <= at - k * DayLen
    BY <2>3, FoundIs
  <2>5. at - k * DayLen \in Int
    BY <2>2, Sizes
  <2>6. PICK m \in Int : /\ m = Max(Found(at, k)) /\ m \in Found(at, k)
                         /\ \A t \in Found(at, k) : t <= m
    BY <2>3, <2>4, <2>5, GreatestInteger
  <2>7. m \in T
    BY <1>3, <2>3, <2>6
  <2>8. ASSUME NEW t \in T PROVE t <= m
    <3>1. PICK j \in 0 .. 3 : t \in Found(at, j)
      BY <1>4
    <3>2. j \in hits /\ k <= j
      BY <1>5, <2>2, <3>1
    <3>3. CASE j = k
      BY <2>6, <3>1, <3>3
    <3>4. CASE k + 1 <= j
      <4>1. t \in Int /\ t <= at - j * DayLen
        BY <3>1, FoundIs
      <4>2. (k + 1) * DayLen <= j * DayLen
        BY <2>2, <3>4, Sizes
      <4>3. at - (k + 1) * DayLen < m
        BY <2>4, <2>6
      <4>4. PICK p \in Int : p = (k + 1) * DayLen
        BY <2>2, Sizes
      <4>5. PICK q \in Int : q = j * DayLen
        BY Sizes
      <4> QED BY <4>1, <4>2, <4>3, <4>4, <4>5
    <3> QED BY <2>2, <3>2, <3>3, <3>4
  <2>9. Max(T) = m
    BY <1>2, <2>7, <2>8, GreatestIs
  <2> QED BY <1>1, <1>7, <2>1, <2>2, <2>6, <2>9 DEF T
<1> QED BY <1>6, <1>7

LEMMA AgreesAt ==
    ASSUME now \in 0 .. Horizon
    PROVE  InstantAndMonthsAgree
<1>1. PICK t \in Int : t = now /\ 0 <= t
  BY Sizes
<1>2. (t % 12) + 1 \in 1 .. 12
  BY <1>1
<1>3. \A k \in 0 .. 13 : ShiftMonth(2026, (t % 12) + 1, k) = MonthBack(2026, (t % 12) + 1, k)
  BY <1>2, MonthsAgree
<1>4. LET T == cron_instants(t - SearchDays * DayLen, t) IN
      latest_instant(t) = IF T = {} THEN None ELSE Max(T)
  BY LatestIsNewest
<1> QED BY <1>1, <1>3, <1>4 DEF InstantAndMonthsAgree

\* What the search finds is an instant of the cadence.
LEMMA LatestFires ==
    ASSUME NEW at \in Int, latest_instant(at) # None
    PROVE  latest_instant(at) \in Firings
<1> DEFINE T == cron_instants(at - SearchDays * DayLen, at)
<1>1. T \in SUBSET Int /\ T \subseteq Firings /\ \A t \in T : t <= at
  BY SpanEnds DEF cron_instants, Firings
<1>2. latest_instant(at) = IF T = {} THEN None ELSE Max(T)
  BY LatestIsNewest
<1> HIDE DEF T
<1>3. T # {} /\ latest_instant(at) = Max(T)
  BY <1>2
<1>4. Max(T) \in T
  BY <1>1, <1>3, GreatestInteger
<1> QED BY <1>1, <1>3, <1>4

LEMMA CadenceIsLong ==
    ASSUME NEW at \in 0 .. Horizon
    PROVE  cadence_of(at) \in Nat
<1> DEFINE T == cron_instants(at - DayLen, at + DayLen)
           gaps == {p[2] - p[1] : p \in {q \in T \X T : q[1] < q[2]}}
<1>1. cadence_of(at) = IF gaps = {} THEN DayLen ELSE Min(gaps)
  BY DEF cadence_of, Cadences
<1>2. T \subseteq Int
  BY SpanEnds DEF cron_instants, Firings
<1> HIDE DEF T
<1>3. ASSUME NEW g \in gaps PROVE g \in Nat
  <2>1. PICK p \in T \X T : p[1] < p[2] /\ g = p[2] - p[1]
    OBVIOUS
  <2>2. p[1] \in Int /\ p[2] \in Int
    BY <1>2
  <2> QED BY <2>1, <2>2
<1>4. gaps \in SUBSET Nat
  BY <1>3
<1> HIDE DEF gaps
<1>5. CASE gaps = {}
  BY <1>1, <1>5, Sizes
<1>6. CASE gaps # {}
  <2>1. Min(gaps) \in gaps
    BY <1>4, <1>6, MinNatural
  <2> QED BY <1>1, <1>4, <1>6, <2>1
<1> QED BY <1>5, <1>6

LEMMA ToleranceIsLong ==
    ASSUME NEW at \in 0 .. Horizon
    PROVE  Tolerance(at) \in Nat
  BY CadenceIsLong DEF Tolerance

------------------------------------------------------------------------------
(* The schedule as it is carried out.                                      *)

States == {"none", "captured", "missing_capture", "unrecoverable"}

\* The clock, the pods that wait for their start, and what the detector marked:
\* it marks instants of the cadence only, and no instant that was captured.
ScheduleInv ==
    /\ now \in 0 .. Horizon /\ detected \in 0 .. now /\ now - detected <= DetectEvery
    /\ waiting \subseteq Firings \cap (1 .. now)
    /\ \A t \in waiting : now - t <= MaxDelay
    /\ state \in [Instants -> States]
    /\ \A t \in Instants : state[t] = "missing_capture" => t \in Firings
    /\ served \subseteq captured \cap Instants
    /\ \A t \in captured : t \in Firings \/ (t \in Int /\ latest_instant(t) = None)
    /\ \A t \in captured \cap Instants : state[t] = "captured"

LEMMA Bounds ==
    /\ Lookback \in Nat /\ DetectEvery \in Nat /\ MaxDelay \in Nat /\ MaxEvents \in Nat
  BY FreshnessAssumption

LEMMA FiringsMatch == Firings \subseteq Int /\ \A t \in Firings : matches(t)
  BY SpanEnds DEF Firings

\* A Job of the controller captures its own tick, one by hand the newest
\* instant or, when the cadence is rarer than the search, the moment itself.
LEMMA IntendedByJob ==
    ASSUME ScheduleInv, MaxDelay <= DayLen, NEW t \in waiting
    PROVE  intended_instant(now, t) = t
<1>1. t \in Firings /\ t \in 1 .. now /\ now - t <= MaxDelay /\ now \in Int
  BY DEF ScheduleInv
<1>2. t # None
  BY <1>1, Sizes DEF None
<1>3. t \in now - DayLen .. now
  BY <1>1, Sizes, Bounds
<1> QED BY <1>1, <1>2, <1>3, FiringsMatch DEF intended_instant

LEMMA IntendedByHand ==
    ASSUME NEW at \in Int
    PROVE  LET x == intended_instant(at, None) IN
           x \in Firings \/ (x \in Int /\ latest_instant(x) = None)
<1>1. CASE latest_instant(at) # None
  BY <1>1, LatestFires DEF intended_instant
<1>2. CASE latest_instant(at) = None
  BY <1>2 DEF intended_instant
<1> QED BY <1>1, <1>2

\* What capture does to the log and the ledger.
LEMMA Captured ==
    ASSUME ScheduleInv, NEW x, CaptureFor(x),
           x \in Firings \/ (x \in Int /\ latest_instant(x) = None),
           UNCHANGED <<now, detected>>, waiting' \subseteq waiting,
           served' \subseteq served \cup ({x} \cap Instants)
    PROVE  ScheduleInv'
<1>1. captured' = captured \cup {x} /\ state' = [state EXCEPT ![x] = "captured"]
  BY DEF CaptureFor
<1>2. /\ now' \in 0 .. Horizon /\ detected' \in 0 .. now' /\ now' - detected' <= DetectEvery
      /\ waiting' \subseteq Firings \cap (1 .. now')
      /\ \A t \in waiting' : now' - t <= MaxDelay
  BY DEF ScheduleInv
<1>3. /\ state' \in [Instants -> States]
      /\ \A t \in Instants : state'[t] = IF t = x THEN "captured" ELSE state[t]
  BY <1>1 DEF ScheduleInv, States
<1>4. /\ \A t \in Instants : state'[t] = "missing_capture" => t \in Firings
      /\ served' \subseteq captured' \cap Instants
      /\ \A t \in captured' : t \in Firings \/ (t \in Int /\ latest_instant(t) = None)
      /\ \A t \in captured' \cap Instants : state'[t] = "captured"
  BY <1>1, <1>3 DEF ScheduleInv
<1> QED BY <1>2, <1>3, <1>4 DEF ScheduleInv

\* The detector marks what it looked at and nothing else.
LEMMA Detected ==
    ASSUME ScheduleInv, Detect
    PROVE  /\ ScheduleInv'
           /\ \A t \in Instants : state[t] # "none" => state'[t] # "none"
           /\ \A t \in Instants \cap Due(now) : t \in captured \/ state'[t] # "none"
<1>1. /\ \A t \in Instants : state'[t] = DetectedState(t)
      /\ DOMAIN state' = Instants /\ state' = [t \in Instants |-> state'[t]]
      /\ detected' = now /\ UNCHANGED <<now, waiting, served, captured>>
  BY DEF Detect
<1>2. ASSUME NEW t \in Instants
      PROVE  /\ state'[t] \in States
             /\ state'[t] = "missing_capture" => t \in Firings
             /\ t \in captured => state'[t] = "captured"
             /\ state[t] # "none" => state'[t] # "none"
             /\ t \in Due(now) => t \in captured \/ state'[t] # "none"
  <2>1. state[t] \in States /\ (state[t] = "missing_capture" => t \in Firings)
        /\ (t \in captured => state[t] = "captured")
    BY DEF ScheduleInv
  <2>2. t \in Due(now) => t \in Firings
    BY DEF Due, cron_instants
  <2>3. state'[t] = DetectedState(t)
    BY <1>1
  <2> QED BY <2>1, <2>2, <2>3 DEF DetectedState, States
<1>3. state' \in [Instants -> States]
  BY <1>1, <1>2
<1>4. detected' \in 0 .. now' /\ now' - detected' <= DetectEvery /\ now' \in 0 .. Horizon
  BY <1>1, Bounds, Sizes DEF ScheduleInv
<1>5. ScheduleInv'
  BY <1>1, <1>2, <1>3, <1>4 DEF ScheduleInv
<1> QED BY <1>2, <1>5

LEMMA ScheduleInit == Init => ScheduleInv
  BY Sizes, Bounds DEF Init, ScheduleInv, Instants, States

LEMMA ScheduleStep ==
    ASSUME ScheduleInv, MaxDelay <= DayLen, [Next]_vars
    PROVE  ScheduleInv'
<1>1. CASE Tick
  <2>1. /\ now' = now + 1 /\ now < Horizon /\ now - detected < DetectEvery
        /\ \A t \in waiting : now - t < MaxDelay
        /\ waiting' \subseteq waiting \cup ({now + 1} \cap Firings)
        /\ UNCHANGED <<served, captured, state, detected>>
    BY <1>1 DEF Tick
  <2>2. now \in Int /\ detected \in Int /\ 0 <= now /\ 0 <= detected /\ detected <= now
    BY Sizes DEF ScheduleInv
  <2>3. /\ now' \in 0 .. Horizon /\ detected' \in 0 .. now' /\ now' - detected' <= DetectEvery
    BY <2>1, <2>2, Sizes, Bounds
  <2>4. ASSUME NEW t \in waiting'
        PROVE  t \in Firings /\ t \in 1 .. now' /\ now' - t <= MaxDelay
    <3>1. CASE t \in waiting
      <4>1. t \in Firings /\ t \in 1 .. now /\ now - t < MaxDelay
        BY <2>1, <3>1 DEF ScheduleInv
      <4> QED BY <2>1, <2>2, <4>1, Bounds
    <3>2. CASE t = now + 1 /\ t \in Firings
      BY <2>1, <2>2, <3>2, Bounds
    <3> QED BY <2>1, <2>4, <3>1, <3>2
  <2>5. waiting' \subseteq Firings \cap (1 .. now') /\ \A t \in waiting' : now' - t <= MaxDelay
    BY <2>4
  <2> QED BY <2>1, <2>3, <2>5 DEF ScheduleInv
<1>2. CASE CaptureByHand
  <2>1. now \in Int
    BY DEF ScheduleInv
  <2>2. /\ CaptureFor(intended_instant(now, None))
        /\ UNCHANGED <<now, detected, waiting, served>>
    BY <1>2 DEF CaptureByHand
  <2> QED BY <2>1, <2>2, IntendedByHand, Captured
<1>3. CASE Detect
  BY <1>3, Detected
<1>4. ASSUME NEW t \in waiting, CaptureTick(t) PROVE ScheduleInv'
  <2>1. t \in Firings /\ t \in 1 .. now /\ now \in 0 .. Horizon
    BY DEF ScheduleInv
  <2>2. t \in Instants
    BY <2>1, Sizes DEF Instants
  <2>3. /\ CaptureFor(t) /\ UNCHANGED <<now, detected>> /\ waiting' \subseteq waiting
        /\ served' = served \cup {t}
    BY <1>4, IntendedByJob DEF CaptureTick
  <2> QED BY <2>1, <2>2, <2>3, Captured
<1>5. ASSUME NEW t \in waiting, Miss(t) PROVE ScheduleInv'
  BY <1>5 DEF Miss, ScheduleInv
<1>6. ASSUME NEW t \in Instants, Backfill(t) PROVE ScheduleInv'
  <2>1. t \in Firings
    BY <1>6 DEF Backfill, ScheduleInv
  <2>2. CaptureFor(t) /\ UNCHANGED <<now, detected, waiting, served>>
    BY <1>6 DEF Backfill
  <2> QED BY <2>1, <2>2, Captured
<1>7. ASSUME NEW day, Complete(day) \/ Withdraw(day) PROVE ScheduleInv'
  BY <1>7 DEF Complete, Withdraw, ScheduleInv
<1>8. CASE UNCHANGED vars
  BY <1>8 DEF vars, ScheduleInv
<1> QED BY <1>1, <1>2, <1>3, <1>4, <1>5, <1>6, <1>7, <1>8 DEF Next

------------------------------------------------------------------------------
(* Theorems.                                                               *)

\* What a pod, the detector and backfill do is about the instants of the cadence.
THEOREM ScheduleInvariant ==
  ASSUME MaxDelay <= DayLen
  PROVE  Spec => []ScheduleInv
<1>1. ScheduleInv /\ [Next]_vars => ScheduleInv'
  BY ScheduleStep
<1> QED BY ScheduleInit, <1>1, PTL DEF Spec

\* schedule.py: a pod that starts within a day of its tick, on whichever side of
\* a change of the clock, captures that tick and leaves no phantom gap; nothing
\* is captured for an instant that nobody expects.
THEOREM NoGapIsPhantom ==
  ASSUME MaxDelay <= DayLen
  PROVE  Spec => []NoPhantomGap
<1>1. ScheduleInv => NoPhantomGap
  BY FiringsMatch DEF ScheduleInv, NoPhantomGap
<1> QED BY <1>1, ScheduleInvariant, PTL

\* What was past every tolerance at the detector's last run, and what that run
\* acted on, is captured or marked.
MarkedBy(W) ==
    \A t \in cron_instants(0, detected) :
        detected - t >= W \/ t \in Due(detected) => t \in captured \/ state[t] # "none"

\* gaps.py: no instant of the cadence that is older than the tolerance and a round
\* escapes the detector, as long as its look-back is longer than the tolerance and
\* a round of its own CronJob together.  (A cadence of which a day around the
\* reference has one instant at most has a tolerance of two days, which is all that
\* the deployment looks back.)
THEOREM NoInstantSlipsThrough ==
  ASSUME MaxDelay <= DayLen, NEW W \in Nat, W + DetectEvery <= Lookback,
         \A at \in 0 .. Horizon : Tolerance(at) <= W
  PROVE  Spec => []NothingSlipsThrough
<1>1. Init => MarkedBy(W)
  <2> SUFFICES ASSUME Init PROVE MarkedBy(W)
    OBVIOUS
  <2>1. detected = 0
    BY DEF Init
  <2>2. ASSUME NEW t \in cron_instants(0, detected) PROVE FALSE
    <3>1. t \in Firings /\ 0 < t /\ t <= 0
      BY <2>1 DEF cron_instants
    <3>2. t \in Int
      BY <3>1, FiringsMatch
    <3> QED BY <3>1, <3>2
  <2> QED BY <2>2 DEF MarkedBy
<1>2. ASSUME ScheduleInv, ScheduleInv', MarkedBy(W), [Next]_vars PROVE MarkedBy(W)'
  <2>1. CASE Detect
    <3> SUFFICES ASSUME NEW t \in cron_instants(0, now), now - t >= W \/ t \in Due(now)
                 PROVE  t \in captured' \/ state'[t] # "none"
      BY <2>1 DEF MarkedBy, Detect
    <3>1. /\ now \in 0 .. Horizon /\ detected \in 0 .. now /\ now - detected <= DetectEvery
          /\ captured' = captured
      BY <1>2, <2>1 DEF ScheduleInv, Detect
    <3>2. t \in Firings /\ t \in Int /\ 0 < t /\ t <= now /\ t \in Instants
      BY <3>1, FiringsMatch, Sizes DEF cron_instants, Instants
    <3>3. CASE detected - t >= W
      <4>1. t \in cron_instants(0, detected)
        BY <3>1, <3>2, <3>3 DEF cron_instants
      <4> QED BY <1>2, <2>1, <3>1, <3>2, <3>3, <4>1, Detected DEF MarkedBy
    <3>4. CASE t \in Due(now)
      BY <1>2, <2>1, <3>1, <3>2, <3>4, Detected
    <3>5. CASE now - t >= W /\ detected - t < W
      <4>1. now - t < Lookback /\ now - t >= Tolerance(now)
        BY <3>1, <3>5, <3>2, Sizes, Bounds, ToleranceIsLong
      <4>2. now \in Int /\ now - Lookback < t
        BY <3>1, <3>2, <4>1, Bounds
      <4>3. t \in Due(now)
        BY <3>1, <3>2, <4>1, <4>2 DEF Due, cron_instants
      <4> QED BY <3>4, <4>3
    <3> QED BY <3>1, <3>2, <3>3, <3>4, <3>5
  <2>2. CASE detected' = detected /\ captured \subseteq captured'
             /\ \A t \in Instants : state[t] # "none" => state'[t] # "none"
    <3>1. ASSUME NEW t \in cron_instants(0, detected) PROVE t \in Instants
      <4>1. t \in Firings /\ 0 < t /\ t <= detected
        BY DEF cron_instants
      <4>2. now \in 0 .. Horizon /\ detected \in 0 .. now
        BY <1>2 DEF ScheduleInv
      <4>3. t \in Int
        BY <4>1, FiringsMatch
      <4> QED BY <4>1, <4>2, <4>3, Sizes DEF Instants
    <3> QED BY <1>2, <2>2, <3>1 DEF MarkedBy
  <2>3. ASSUME NEW x, CaptureFor(x), UNCHANGED detected PROVE MarkedBy(W)'
    <3>1. /\ captured \subseteq captured'
          /\ \A t \in Instants : state[t] # "none" => state'[t] # "none"
      BY <1>2, <2>3 DEF CaptureFor, ScheduleInv
    <3> QED BY <2>2, <2>3, <3>1
  <2>4. CASE Tick
    BY <2>2, <2>4 DEF Tick
  <2>5. CASE CaptureByHand
    BY <2>3, <2>5 DEF CaptureByHand
  <2>6. ASSUME NEW t \in waiting, CaptureTick(t) \/ Miss(t) PROVE MarkedBy(W)'
    BY <2>2, <2>3, <2>6 DEF CaptureTick, Miss
  <2>7. ASSUME NEW t \in Instants, Backfill(t) PROVE MarkedBy(W)'
    BY <2>3, <2>7 DEF Backfill
  <2>8. ASSUME NEW day, Complete(day) \/ Withdraw(day) PROVE MarkedBy(W)'
    BY <2>2, <2>8 DEF Complete, Withdraw
  <2>9. CASE UNCHANGED vars
    BY <2>2, <2>9 DEF vars
  <2> QED BY <1>2, <2>1, <2>4, <2>5, <2>6, <2>7, <2>8, <2>9 DEF Next
<1>3. ScheduleInv /\ MarkedBy(W) => NothingSlipsThrough
  <2> SUFFICES ASSUME ScheduleInv, MarkedBy(W), NEW t \in cron_instants(0, now),
                      \A at \in {at \in 0 .. now : now - at <= DetectEvery} :
                         now - t >= Tolerance(at) + DetectEvery
               PROVE  t \in captured \/ state[t] # "none"
    BY DEF NothingSlipsThrough
  <2>1. /\ now \in 0 .. Horizon /\ detected \in 0 .. now /\ now - detected <= DetectEvery
    BY DEF ScheduleInv
  <2>2. t \in Firings /\ t \in Int /\ 0 < t /\ t <= now /\ t \in Instants
    BY <2>1, FiringsMatch, Sizes DEF cron_instants, Instants
  <2>3. /\ detected \in 0 .. Horizon /\ Tolerance(detected) \in Nat
        /\ now - t >= Tolerance(detected) + DetectEvery
    BY <2>1, Sizes, ToleranceIsLong
  <2>4. detected - t >= Tolerance(detected)
    BY <2>1, <2>2, <2>3, Bounds
  <2>5. t \in cron_instants(0, detected)
    BY <2>1, <2>2, <2>3, <2>4 DEF cron_instants
  <2>6. CASE detected - t >= W
    BY <2>5, <2>6 DEF MarkedBy
  <2>7. CASE detected - t < W
    <3>1. detected - Lookback < t /\ t <= detected
      BY <2>1, <2>2, <2>3, <2>4, <2>7, Bounds
    <3>2. t \in Due(detected)
      BY <2>2, <2>4, <3>1 DEF Due, cron_instants
    <3> QED BY <2>5, <3>2 DEF MarkedBy
  <2> QED BY <2>1, <2>2, <2>6, <2>7
<1>4. ScheduleInv /\ [Next]_vars => ScheduleInv'
  BY ScheduleStep
<1>5. ScheduleInv /\ ScheduleInv' /\ MarkedBy(W) /\ [Next]_vars => MarkedBy(W)'
  BY <1>2
<1> HIDE DEF MarkedBy
<1> QED BY <1>1, <1>3, <1>4, <1>5, ScheduleInit, PTL DEF Spec

LEMMA ClockInv == Spec => [](now \in 0 .. Horizon)
<1>1. Init => now \in 0 .. Horizon
  BY Sizes DEF Init
<1>2. now \in 0 .. Horizon /\ [Next]_vars => (now \in 0 .. Horizon)'
  BY Sizes DEF Next, vars, Tick, CaptureByHand, Detect, CaptureTick, Miss, Backfill,
               Complete, Withdraw
<1> QED BY <1>1, <1>2, PTL DEF Spec

\* intervals.py and context.py: every instant is in one delivery day, in one of
\* its intervals, and capture and process agree on the day, whatever the length
\* of the day and wherever the clock changes.
THEOREM DaysAlwaysTile == Spec => []DaysTile
<1>1. now \in 0 .. Horizon => DaysTile
  BY TilesAt
<1> QED BY <1>1, ClockInv, PTL

\* latest_instant finds the newest instant of its window for every cron
\* expression; both ways to count months back agree.
THEOREM SearchesAgree == Spec => []InstantAndMonthsAgree
<1>1. now \in 0 .. Horizon => InstantAndMonthsAgree
  BY AgreesAt
<1> QED BY <1>1, ClockInv, PTL

------------------------------------------------------------------------------
(* Days that end incomplete.                                               *)

\* The part of ExpectedBy that does not depend on the moment.
LastOf(day) ==
    LET b == delivery_day_bounds(day)
        T == cron_instants(b[1] - 1, b[2] - 1) IN
    IF T = {} THEN b[2] ELSE Max(T)

LEMMA ExpectedIs ==
    ASSUME NEW day, NEW at
    PROVE  ExpectedBy(day, at) = LastOf(day) + Tolerance(at)
  BY DEF ExpectedBy, LastOf

LEMMA CronIntegers ==
    ASSUME NEW a, NEW b
    PROVE  cron_instants(a, b) \in SUBSET Int
  BY FiringsMatch DEF cron_instants

\* A late day is one that is past its deadline and not complete: what comes
\* first in classify_partition does not apply to it.
LEMMA LateIs ==
    ASSUME NEW day \in KnownDays, day + 1 \in KnownDays, now \in 0 .. Horizon
    PROVE  /\ LastOf(day) \in Int
           /\ Status(day) = "late" <=> day \notin complete /\ now > LastOf(day) + Tolerance(now)
<1> DEFINE b == delivery_day_bounds(day)
           T == cron_instants(b[1] - 1, b[2] - 1)
           first == IF T = {} THEN b[1] ELSE Min(T)
           last == IF T = {} THEN b[2] ELSE Max(T)
<1>1. b[1] = Midnight(day) /\ b[2] = Midnight(day + 1)
  BY DEF delivery_day_bounds
<1>2. b[1] \in Int /\ b[2] \in Int /\ b[1] < b[2]
  <2>1. day \in Int /\ day < day + 1
    <3>1. delivery_day_for(Midnight(day)) = day /\ Midnight(day) \in Int
      BY MidnightBegins, SpanEnds
    <3> QED BY <3>1, DayOfInstant
  <2>2. /\ Midnight(day) \in Span /\ Midnight(day + 1) \in Span
        /\ delivery_day_for(Midnight(day)) = day
        /\ \A t \in Span : t < Midnight(day + 1) <=> delivery_day_for(t) < day + 1
    BY MidnightBegins
  <2> QED BY <1>1, <2>1, <2>2, SpanEnds
<1>3. first \in Int /\ last \in Int /\ first <= last
  <2>1. CASE T = {}
    BY <1>2, <2>1
  <2>2. CASE T # {}
    <3>1. T \in SUBSET Int /\ \A x \in T : x <= b[2] - 1
      BY CronIntegers DEF cron_instants
    <3>2. PICK lo \in Int : lo = b[1] - 1 /\ \A x \in T : lo <= x
      BY <1>2, <3>1 DEF cron_instants
    <3>3. PICK hi \in Int : hi = b[2] - 1 /\ \A x \in T : x <= hi
      BY <1>2, <3>1
    <3> HIDE DEF T
    <3>4. Min(T) \in T /\ \A x \in T : Min(T) <= x
      BY <2>2, <3>1, <3>2, LeastInteger
    <3>5. Max(T) \in T
      BY <2>2, <3>1, <3>3, GreatestInteger
    <3> QED BY <2>2, <3>1, <3>4, <3>5
  <2> QED BY <2>1, <2>2
<1>4. LastOf(day) = last
  BY DEF LastOf
<1>5. Status(day) = IF day \in complete THEN "complete"
                    ELSE IF now < first THEN "pending"
                    ELSE IF now > ExpectedBy(day, now) THEN "late" ELSE "partial"
  BY DEF Status
<1>6. Tolerance(now) \in Nat /\ now \in Int
  BY ToleranceIsLong
<1> HIDE DEF first, last
<1> QED BY <1>3, <1>4, <1>5, <1>6, ExpectedIs

LEMMA CollectedIs ==
    ASSUME NEW t \in captured, t \in 0 .. Horizon
    PROVE  Collected(delivery_day_for(t))
<1> DEFINE day == delivery_day_for(t)
<1>1. t \in Int /\ t \in Span /\ day \in Int
  BY DaysAround, DayOfInstant
<1>2. day \in KnownDays /\ day + 1 \in KnownDays
  BY KnownFromDay
<1> HIDE DEF day
<1>3. ~(t < Midnight(day)) /\ t < Midnight(day + 1)
  BY <1>1, <1>2, MidnightBegins DEF day
<1>4. Midnight(day) <= t
  <2>1. Midnight(day) \in Int
    BY <1>2, MidnightBegins, SpanEnds
  <2> QED BY <1>1, <1>3, <2>1
<1>5. /\ delivery_day_bounds(day)[1] = Midnight(day)
      /\ delivery_day_bounds(day)[2] = Midnight(day + 1)
  BY DEF delivery_day_bounds
<1> SUFFICES Collected(day)
  BY DEF day
<1> QED BY <1>3, <1>4, <1>5 DEF Collected

\* What the row says was true when the detector ran.
RowInv ==
    /\ now \in 0 .. Horizon /\ detected \in 0 .. now
    /\ row = [day |-> row.day, status |-> row.status]
    /\ row.day \in {delivery_day_for(detected), delivery_day_for(detected) - 1}
    /\ row.status = "late" => detected > LastOf(row.day) + Tolerance(detected)

LEMMA ChosenIs ==
    ASSUME now \in 0 .. Horizon
    PROVE  /\ Chosen \in {delivery_day_for(now), delivery_day_for(now) - 1}
           /\ Chosen \in KnownDays /\ Chosen + 1 \in KnownDays
<1>1. Chosen \in {delivery_day_for(now), delivery_day_for(now) - 1}
  BY DEF Chosen
<1>2. PICK d \in Int : /\ d = delivery_day_for(now)
                       /\ d - 1 \in KnownDays /\ d \in KnownDays /\ d + 1 \in KnownDays
  BY KnownFromDay
<1>3. (d - 1) + 1 = d
  OBVIOUS
<1> QED BY <1>1, <1>2, <1>3

LEMMA RowInit == Init => RowInv
<1> SUFFICES ASSUME Init PROVE RowInv
  OBVIOUS
<1>1. row = [day |-> delivery_day_for(0), status |-> "pending"] /\ now = 0 /\ detected = 0
  BY DEF Init
<1>2. row.day = delivery_day_for(0) /\ row.status = "pending"
  BY <1>1
<1> QED BY <1>1, <1>2, Sizes DEF RowInv

LEMMA RowStep ==
    ASSUME RowInv, [Next]_vars
    PROVE  RowInv'
<1>1. now \in 0 .. Horizon /\ detected \in 0 .. now
  BY DEF RowInv
<1>2. CASE Detect
  <2>1. /\ detected' = now /\ now' = now
        /\ row' = [day |-> Chosen, status |-> Status(Chosen)]
    BY <1>2 DEF Detect
  <2>2. row'.day = Chosen /\ row'.status = Status(Chosen)
    BY <2>1
  <2>3. Status(Chosen) = "late" => now > LastOf(Chosen) + Tolerance(now)
    BY <1>1, ChosenIs, LateIs
  <2>4. detected' \in 0 .. now' /\ now' \in 0 .. Horizon
    BY <1>1, <2>1
  <2> QED BY <1>1, <2>1, <2>2, <2>3, <2>4, ChosenIs DEF RowInv
<1>3. CASE UNCHANGED <<row, detected>> /\ now' \in {now, now + 1} /\ now' \in 0 .. Horizon
  <2>1. detected' \in 0 .. now'
    BY <1>1, <1>3
  <2> QED BY <1>3, <2>1 DEF RowInv
<1>4. CASE ~Detect
  <2>1. UNCHANGED <<row, detected>> /\ (now' = now \/ (now < Horizon /\ now' = now + 1))
    BY <1>4 DEF Next, vars, Tick, CaptureByHand, CaptureTick, Miss, Backfill, Complete, Withdraw
  <2> QED BY <1>1, <1>3, <2>1, Sizes
<1> QED BY <1>2, <1>4

\* freshness.py: "a day that ended incomplete stays visible as late after
\* midnight instead of vanishing", as long as the tolerance, which is computed
\* anew from the instants around each moment, never grows faster than time passes.
THEOREM LateDaysStayInView ==
  ASSUME ToleranceKeepsPace
  PROVE  Spec => LateStaysInView
<1> DEFINE Stays ==
      row.status = "late" /\ delivery_day_for(now) <= row.day + 1 /\ Collected(row.day)
        /\ {row.day, delivery_day_for(now)} \cap complete = {}
      => row' \in {row, [row EXCEPT !.day = @ - 1]}
<1>1. ASSUME RowInv, Detect, row.status = "late", delivery_day_for(now) <= row.day + 1,
             Collected(row.day), {row.day, delivery_day_for(now)} \cap complete = {}
      PROVE  row' \in {row, [row EXCEPT !.day = @ - 1]}
  <2>1. /\ now \in 0 .. Horizon /\ detected \in 0 .. Horizon /\ detected <= now
        /\ row = [day |-> row.day, status |-> "late"]
        /\ detected > LastOf(row.day) + Tolerance(detected)
    <3>1. /\ now \in 0 .. Horizon /\ detected \in 0 .. now
          /\ row = [day |-> row.day, status |-> row.status]
          /\ detected > LastOf(row.day) + Tolerance(detected)
      BY <1>1 DEF RowInv
    <3>2. detected \in 0 .. Horizon /\ detected <= now
      BY <3>1, Sizes
    <3> QED BY <1>1, <3>1, <3>2
  <2>2. PICK d \in Int : /\ d = delivery_day_for(now)
                         /\ d - 1 \in KnownDays /\ d \in KnownDays /\ d + 1 \in KnownDays
    BY <2>1, KnownFromDay
  <2>3. PICK e \in Int : e = delivery_day_for(detected) /\ e <= d
    BY <2>1, <2>2, DaysRun, DayOfInstant
  <2>4. PICK r \in Int : r = row.day /\ r \in {d - 1, d}
    <3>1. row.day \in {e, e - 1} /\ d <= row.day + 1
      BY <1>1, <2>2, <2>3 DEF RowInv
    <3> QED BY <2>2, <2>3, <3>1
  <2>5. Status(r) = "late"
    <3>1. r \in KnownDays /\ r + 1 \in KnownDays
      <4>1. (d - 1) + 1 = d
        OBVIOUS
      <4> QED BY <2>2, <2>4, <4>1
    <3>2. LastOf(r) \in Int /\ (Status(r) = "late" <=> r \notin complete /\ now > LastOf(r) + Tolerance(now))
      BY <2>1, <3>1, LateIs
    <3>3. Tolerance(now) - Tolerance(detected) <= now - detected
      BY <2>1 DEF ToleranceKeepsPace, Instants
    <3>4. Tolerance(now) \in Nat /\ Tolerance(detected) \in Nat
      BY <2>1, ToleranceIsLong
    <3>5. now > LastOf(r) + Tolerance(now)
      BY <2>1, <2>4, <3>2, <3>3, <3>4
    <3> QED BY <1>1, <2>4, <3>2, <3>5
  <2>6. row' = [day |-> Chosen, status |-> Status(Chosen)]
    BY <1>1 DEF Detect
  <2>7. CASE Chosen = r
    BY <2>1, <2>4, <2>5, <2>6, <2>7
  <2>8. CASE Chosen # r
    <3>1. CASE r = d - 1
      BY <1>1, <2>2, <2>4, <2>5, <2>8, <3>1 DEF Chosen
    <3>2. CASE r = d
      <4>1. Chosen = r - 1 /\ Status(Chosen) = "late"
        BY <2>2, <2>8, <3>2 DEF Chosen
      <4>2. [row EXCEPT !.day = @ - 1] = [day |-> r - 1, status |-> "late"]
        BY <2>1, <2>4
      <4> QED BY <2>6, <4>1, <4>2
    <3> QED BY <2>4, <3>1, <3>2
  <2> QED BY <2>7, <2>8
<1>2. RowInv /\ [Next]_vars => Stays
  <2> SUFFICES ASSUME RowInv, [Next]_vars PROVE Stays
    OBVIOUS
  <2>1. CASE Detect
    BY <1>1, <2>1
  <2>2. CASE ~Detect
    <3>1. row' = row
      BY <2>2 DEF Next, vars, Tick, CaptureByHand, CaptureTick, Miss, Backfill, Complete, Withdraw
    <3> QED BY <3>1
  <2> QED BY <2>1, <2>2
<1>3. RowInv /\ [Next]_vars => RowInv'
  BY RowStep
<1> QED BY <1>2, <1>3, RowInit, PTL DEF Spec, LateStaysInView

\* From an instant to the end of the day after its own there is a day at least.
LEMMA DayAhead ==
    ASSUME NEW t \in 0 .. Horizon, NEW over \in Int, over = Midnight(delivery_day_for(t) + 2)
    PROVE  /\ t + DayLen <= over
           /\ \A at \in 0 .. Horizon : over - at < DayLen /\ at < over
                 => delivery_day_for(at) = delivery_day_for(t) + 1
<1>1. PICK d \in Int : /\ d = delivery_day_for(t) /\ t \in Span /\ d + 2 \in KnownDays
  BY KnownFromDay
<1>2. /\ over \in Span /\ delivery_day_for(over) = d + 2
      /\ \A x \in Span : x < over <=> delivery_day_for(x) < d + 2
  BY <1>1, MidnightBegins
<1>3. PICK p \in Int : p = DayLen * d
  BY <1>1, Sizes
<1>4. DayLen * (d + 2) = p + DayLen + DayLen
  <2>1. DayLen * (d + 2) = DayLen * d + DayLen + DayLen
    BY <1>1, Sizes
  <2> QED BY <1>3, <2>1
<1>5. p + DayLen + DayLen <= Local(over) /\ Local(over) \in Int
  BY <1>2, <1>4, DayOfInstant, LocalRuns
<1>6. t \in Int /\ t < over
  BY <1>1, <1>2
<1>7. t + DayLen <= over
  <2>1. Local(t) < p + DayLen /\ Local(t) \in Int
    BY <1>1, <1>3, DayOfInstant, LocalRuns
  <2>2. Local(over) <= Local(t) + (over - t) + 1
    BY <1>6, LocalRuns
  <2> QED BY <1>5, <1>6, <2>1, <2>2, Sizes
<1>8. ASSUME NEW at \in 0 .. Horizon, over - at < DayLen, at < over
      PROVE  delivery_day_for(at) = d + 1
  <2>1. PICK e \in Int : /\ e = delivery_day_for(at) /\ at \in Span
                         /\ Local(at) \in Int /\ Local(at) < DayLen * e + DayLen
    BY KnownFromDay, DayOfInstant, LocalRuns
  <2>2. e < d + 2
    BY <1>2, <1>8, <2>1
  <2>3. Local(over) <= Local(at) + (over - at) + 1
    BY <1>8, LocalRuns
  <2>4. CASE e <= d
    <3>1. DayLen * e <= p
      BY <1>1, <1>3, <2>1, <2>4, Sizes
    <3>2. PICK q \in Int : q = DayLen * e
      BY <2>1, Sizes
    <3> QED BY <1>5, <1>8, <2>1, <2>3, <3>1, <3>2, Sizes
  <2> QED BY <1>1, <2>1, <2>2, <2>4
<1> QED BY <1>1, <1>7, <1>8

\* The last round of the detector before the end of the next day.
LastRoundOver(t) == detected >= Midnight(delivery_day_for(t) + 2) - DetectEvery

\* A day of which a pod has captured, and that was never complete nor the next
\* one, has been recorded as late once that round is over.
SurfaceInv ==
    /\ complete \subseteq wasComplete
    /\ served \subseteq Firings
    /\ \A t \in served : LastRoundOver(t)
          /\ {delivery_day_for(t), delivery_day_for(t) + 1} \cap wasComplete = {}
             => delivery_day_for(t) \in lateSeen

\* In that round the detector finds the day late and reports it.
LEMMA RoundRecords ==
    ASSUME ToleranceEndsInTime, DetectEvery < DayLen,
           ScheduleInv, SurfaceInv, Detect, NEW t \in served,
           LastRoundOver(t)', ~LastRoundOver(t),
           {delivery_day_for(t), delivery_day_for(t) + 1} \cap wasComplete = {}
    PROVE  delivery_day_for(t) \in lateSeen'
<1>1. /\ now \in 0 .. Horizon /\ detected \in 0 .. now /\ now - detected <= DetectEvery
      /\ t \in captured /\ t \in 0 .. Horizon /\ t \in Firings
  BY DEF ScheduleInv, SurfaceInv, Instants
<1>2. PICK d \in Int : /\ d = delivery_day_for(t)
                       /\ d \in KnownDays /\ d + 1 \in KnownDays /\ d + 2 \in KnownDays
  BY <1>1, KnownFromDay
<1>3. PICK over \in Int : over = Midnight(d + 2)
  BY <1>2, MidnightBegins, SpanEnds
<1>4. detected < over - DetectEvery /\ now >= over - DetectEvery
  BY <1>1, <1>2, <1>3, Bounds DEF LastRoundOver, Detect
<1>5. now < over /\ over - now <= DetectEvery /\ over - now < DayLen
  BY <1>1, <1>4, Bounds, Sizes
<1>6. delivery_day_for(now) = d + 1
  BY <1>1, <1>2, <1>3, <1>5, DayAhead
<1>7. now > LastOf(d) + Tolerance(now)
  <2>1. (d + 1) + 1 = d + 2
    BY <1>2
  <2>2. Midnight(delivery_day_for(now) + 1) - now <= DetectEvery
    BY <1>3, <1>5, <1>6, <2>1
  <2>3. now \in Instants
    BY <1>1 DEF Instants
  <2>4. now > ExpectedBy(d, now)
    BY <1>1, <1>2, <1>6, <2>2, <2>3 DEF ToleranceEndsInTime
  <2> QED BY <2>4, ExpectedIs
<1>8. d \notin complete /\ d + 1 \notin complete
  BY <1>2 DEF SurfaceInv
<1>9. Status(d) = "late"
  BY <1>1, <1>2, <1>7, <1>8, LateIs
<1>10. Collected(d)
  BY <1>1, <1>2, CollectedIs
<1>11. Chosen = d
  <2>1. (d + 1) - 1 = d
    BY <1>2
  <2> QED BY <1>6, <1>8, <1>9, <1>10, <2>1 DEF Chosen
<1>12. row'.status = "late" /\ lateSeen' = lateSeen \cup {d}
  BY <1>9, <1>11 DEF Detect
<1> QED BY <1>2, <1>12

LEMMA SurfaceStep ==
    ASSUME ToleranceEndsInTime, MaxDelay + DetectEvery < DayLen,
           ScheduleInv, SurfaceInv, [Next]_vars
    PROVE  SurfaceInv'
<1>1. now \in 0 .. Horizon /\ detected \in 0 .. now
  BY DEF ScheduleInv
<1>2. CASE Detect
  <2>1. UNCHANGED <<served, complete, wasComplete>> /\ lateSeen \subseteq lateSeen'
    BY <1>2 DEF Detect
  <2>2. DetectEvery < DayLen
    BY Bounds, Sizes
  <2>3. ASSUME NEW t \in served, LastRoundOver(t)',
               {delivery_day_for(t), delivery_day_for(t) + 1} \cap wasComplete = {}
        PROVE  delivery_day_for(t) \in lateSeen'
    <3>1. CASE LastRoundOver(t)
      BY <2>1, <2>3, <3>1 DEF SurfaceInv
    <3>2. CASE ~LastRoundOver(t)
      BY <1>2, <2>2, <2>3, <3>2, RoundRecords
    <3> QED BY <3>1, <3>2
  <2> QED BY <2>1, <2>3 DEF SurfaceInv
<1>3. CASE UNCHANGED <<served, detected, lateSeen>> /\ wasComplete \subseteq wasComplete'
           /\ complete' \subseteq complete \cup wasComplete'
  BY <1>3 DEF SurfaceInv, LastRoundOver
<1>4. ASSUME NEW t \in waiting, CaptureTick(t) PROVE SurfaceInv'
  <2>1. /\ served' = served \cup {t} /\ UNCHANGED <<detected, lateSeen, complete, wasComplete>>
        /\ t \in Firings /\ t \in 0 .. Horizon /\ now - t <= MaxDelay
    BY <1>1, <1>4, Sizes DEF CaptureTick, ScheduleInv
  <2>2. PICK d \in Int : d = delivery_day_for(t) /\ d + 2 \in KnownDays
    BY <2>1, KnownFromDay
  <2>3. PICK over \in Int : over = Midnight(d + 2)
    BY <2>2, MidnightBegins, SpanEnds
  <2>4. t + DayLen <= over
    BY <2>1, <2>2, <2>3, DayAhead
  <2>5. detected < over - DetectEvery
    BY <1>1, <2>1, <2>4, Bounds, Sizes
  <2>6. ~LastRoundOver(t)'
    BY <2>1, <2>2, <2>3, <2>5, <1>1, Bounds DEF LastRoundOver
  <2> QED BY <2>1, <2>6 DEF SurfaceInv, LastRoundOver
<1>5. ASSUME NEW t \in waiting, Miss(t) PROVE SurfaceInv'
  BY <1>3, <1>5 DEF Miss
<1>6. ASSUME NEW t \in Instants, Backfill(t) PROVE SurfaceInv'
  BY <1>3, <1>6 DEF Backfill
<1>7. ASSUME NEW day, Complete(day) \/ Withdraw(day) PROVE SurfaceInv'
  BY <1>3, <1>7 DEF Complete, Withdraw
<1>8. CASE Tick \/ CaptureByHand \/ UNCHANGED vars
  BY <1>3, <1>8 DEF Tick, CaptureByHand, vars
<1> QED BY <1>2, <1>4, <1>5, <1>6, <1>7, <1>8 DEF Next

\* freshness.py: a day that a pod captured of and that ended incomplete has been
\* recorded as late before the next day is over, for every cadence of which the
\* tolerance ends before the detector's last round of the next day, and pods
\* that start so early that the detector comes after them.
THEOREM LateDaysSurface ==
  ASSUME ToleranceEndsInTime, 0 < DetectEvery, MaxDelay + DetectEvery < DayLen
  PROVE  Spec => []LateSurfaces
<1>1. Init => SurfaceInv
  BY DEF Init, SurfaceInv
<1>2. ScheduleInv /\ SurfaceInv /\ [Next]_vars => SurfaceInv'
  BY SurfaceStep
<1>3. ScheduleInv /\ SurfaceInv => LateSurfaces
  <2> SUFFICES ASSUME ScheduleInv, SurfaceInv, NEW day \in Days,
                      detected >= Midnight(day + 2) - 1,
                      NEW t \in captured \cap served, delivery_day_for(t) = day,
                      {day, day + 1} \cap wasComplete = {}
               PROVE  day \in lateSeen
    BY DEF LateSurfaces
  <2>1. t \in 0 .. Horizon /\ detected \in Int
    BY DEF ScheduleInv, Instants
  <2>2. PICK over \in Int : over = Midnight(day + 2)
    BY <2>1, KnownFromDay, MidnightBegins, SpanEnds
  <2>3. LastRoundOver(t)
    BY <2>1, <2>2, Bounds DEF LastRoundOver
  <2> QED BY <2>3 DEF SurfaceInv
<1>4. MaxDelay <= DayLen
  BY Bounds, Sizes
<1>5. Spec => []ScheduleInv
  BY <1>4, ScheduleInvariant
<1> QED BY <1>1, <1>2, <1>3, <1>5, PTL DEF Spec
==============================================================================
