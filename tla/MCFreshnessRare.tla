--------------------------- MODULE MCFreshnessRare ---------------------------
(* Cadences that are too rare for the tolerances of freshness or of gaps.     *)
EXTENDS Freshness

Part(a, b, step) == [a |-> a, b |-> b, step |-> step]
\* Once a day.
Daily == [hours |-> {Part(2, None, 1)}, days |-> Star, weekdays |-> Star]
\* Once in a "month": the detector waits two days for it and looks back two days.
Monthly == [hours |-> {Part(2, None, 1)}, days |-> {Part(2, None, 1)}, weekdays |-> Star]
\* A few times on two days of the week, as on working days.
Weekdays == [hours |-> {Part(1, 3, 1)}, days |-> Star, weekdays |-> {Part(1, 2, 1)}]
==============================================================================
