--------------------------- MODULE MCScriptCatalog ---------------------------
(* Symmetry for checking ScriptCatalog. *)
EXTENDS ScriptCatalog

CatalogSymmetry == Permutations(Reloader) \cup Permutations(Fetch)
=============================================================================
