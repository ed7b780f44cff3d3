--------------------------- MODULE MCOrderExport ---------------------------
(* Two processes; an order has one line, and after an edit two. *)
EXTENDS OrderExport, TLC

MCLines == <<1, 2>>
MCOneVersion == <<1>>

Symmetry == Permutations(Workers)
=============================================================================
