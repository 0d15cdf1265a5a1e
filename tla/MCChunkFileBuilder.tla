------------------------- MODULE MCChunkFileBuilder -------------------------
(* Two chunks of three bytes; the files are interchangeable.                *)
EXTENDS ChunkFileBuilder, TLC

Symmetry == Permutations(File)
=============================================================================
