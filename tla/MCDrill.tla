------------------------------ MODULE MCDrill --------------------------------
(* Two targets of one dataset and transport; the second derivation keeps the *)
(* value of document "a" and changes that of "b".                            *)
EXTENDS Drill

Siblings == <<1, 2>>
Sources == <<{"a", "b"}, {"a"}>>
Values == <<[p \in Payloads |-> 1], [p \in Payloads |-> IF p = "a" THEN 1 ELSE 2]>>
==============================================================================
