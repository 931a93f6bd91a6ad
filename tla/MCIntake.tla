------------------------------- MODULE MCIntake -------------------------------
(* Model-checking instance of Intake. *)
EXTENDS Intake

CONSTANTS r1, r2, v1, full, empty, old

MCJob == (Request \X (1..Copies)) \union Stale
=============================================================================
