---------------------------- MODULE MCSharedCache ----------------------------
(* Symmetry for checking SharedCache. *)
EXTENDS SharedCache, TLC

CacheSymmetry == Permutations(Run) \cup Permutations(Key)
=============================================================================
