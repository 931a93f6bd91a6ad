--------------------------- MODULE MCProductUpsert ---------------------------
(* Model-checking instance of ProductUpsert. *)
EXTENDS ProductUpsert, TLC

Symmetry == Permutations(Sku) \union Permutations(Value)
=============================================================================
