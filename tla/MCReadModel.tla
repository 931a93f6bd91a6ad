----------------------------- MODULE MCReadModel -----------------------------
(* Model-checking instance of ReadModel.  Handlers and categories may be    *)
(* exchanged for one another, but both runs check liveness, for which TLC's *)
(* symmetry reduction is not sound.                                         *)
EXTENDS ReadModel
=============================================================================
