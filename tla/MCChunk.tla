------------------------------- MODULE MCChunk -------------------------------
(* Model-checking instance of Chunk: constants are interchangeable. *)
EXTENDS Chunk, TLC

Symmetry == Permutations(Values)
=============================================================================
