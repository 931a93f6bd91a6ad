----------------------------- MODULE MCChunkFiles -----------------------------
(* Model-checking instance of ChunkFiles: every file of up to MaxSize bytes. *)
EXTENDS ChunkFiles, TLC
=============================================================================
