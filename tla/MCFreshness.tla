----------------------------- MODULE MCFreshness -----------------------------
(* Days of four ticks.  The clock skips tick 1 of one day and shows tick 2 of *)
(* another twice; both are instants of the cadence.                          *)
EXTENDS Freshness

Part(a, b, step) == [a |-> a, b |-> b, step |-> step]
Often == [hours |-> {Part(1, 3, 1)}, days |-> Star, weekdays |-> Star]

\* The conditions of the theorems hold of this cadence.
ASSUME OftenAssumption ==
    /\ ToleranceEndsInTime /\ ToleranceKeepsPace
    /\ 0 < DetectEvery /\ MaxDelay + DetectEvery < DayLen
==============================================================================
