----------------------------- MODULE MCRunsView -----------------------------
(* A batch of two runs and a single run. *)
EXTENDS RunsView, TLC

CONSTANTS r1, r2, r3

MCBatches == {{r1, r2}, {r3}}

ViewSymmetry == Permutations({r1, r2})
=============================================================================
