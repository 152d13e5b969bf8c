---------------------------- MODULE MCSkuMapping ----------------------------
(* SkuMapping for TLC: an import whose second record the database refuses. *)
EXTENDS SkuMapping

Record(c, o) == [sku |-> c, outcome |-> o]
Imports == {<<Record("c1", "valid"), Record("c2", "refused"), Record("c2", "valid")>>}
=============================================================================
