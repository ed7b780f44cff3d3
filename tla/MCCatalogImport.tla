-------------------------- MODULE MCCatalogImport --------------------------
(* Values for TLC: the first two items are combinations of one product. *)
EXTENDS CatalogImport, TLC

CONSTANTS i1, i2, i3

MCCode == (i1 :> 1) @@ (i2 :> 1) @@ (i3 :> 2)
=============================================================================
