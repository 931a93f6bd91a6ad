----------------------------- MODULE MCPromotions -----------------------------
(* Model-checking instance of Promotions. *)
EXTENDS Promotions, TLC
=============================================================================
