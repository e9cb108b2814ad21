---------------------------- MODULE MCReservoir -----------------------------
(* Symmetry for checking Reservoir. *)
EXTENDS Reservoir, TLC

ReservoirSymmetry == Permutations(Caller) \cup Permutations(IssueKey)
=============================================================================
