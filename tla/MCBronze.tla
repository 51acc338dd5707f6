------------------------------ MODULE MCBronze -------------------------------
(* Bronze for TLC: pods, documents and resources are interchangeable.      *)
EXTENDS Bronze, TLC

CONSTANTS w1, w2, p1, p2, u1, u2

MCWriters == {w1, w2}
MCPayloads == {p1, p2}
MCUrls == {u1, u2}
Symmetry ==
    Permutations(MCWriters) \cup Permutations(MCPayloads) \cup Permutations(MCUrls)

OneDay == [t \in Instants |-> 1]
==============================================================================
