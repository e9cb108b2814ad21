---------------------------- MODULE MCParallelRuns ----------------------------
(* The batches for checking ParallelRuns. *)
EXTENDS ParallelRuns

CONSTANTS g1, g2

\* One batch asks for more workers than are allowed, one for none and gets one.
LargeAndSmall == [g \in Group |-> IF g = g1 THEN 4 ELSE 0]
Two           == [g \in Group |-> 2]
=============================================================================
