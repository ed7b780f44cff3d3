-------------------------- MODULE MCCatalogExport --------------------------
(* Values for TLC. *)
EXTENDS CatalogExport, TLC

Symmetry == Permutations(Workers)
=============================================================================
