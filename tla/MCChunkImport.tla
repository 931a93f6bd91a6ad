---------------------------- MODULE MCChunkImport ----------------------------
(* Model-checking instance of ChunkImport: two chunks, two workers. *)
EXTENDS ChunkImport, TLC

Symmetry == Permutations(Chunk) \union Permutations(Worker)
=============================================================================
