----------------------------- MODULE MCPipeline ------------------------------
(* The runtime verbs for TLC: every instant is of one delivery day.        *)
EXTENDS Pipeline

OneDay == [t \in Instants |-> "d1"]

==============================================================================
