----------------------------- MODULE MCRunLedger -----------------------------
(* The ledger under its most general client, for TLC.                      *)
EXTENDS RunLedger, TLC

CONSTANTS w1, w2

MCWorkers == {w1, w2}
Symmetry == Permutations(MCWorkers)
==============================================================================
