--------------------------- MODULE MCBoundarySweep ---------------------------
(* Model-checking instance of BoundarySweep. *)
EXTENDS BoundarySweep, TLC

Symmetry == Permutations(Promotion) \union Permutations(Reconciler)
=============================================================================
