------------------------- MODULE MCAttributeValues -------------------------
(* AttributeValues for TLC. *)
EXTENDS AttributeValues, TLC

Symmetry == Permutations(Workers) \cup Permutations(Values)
=============================================================================
