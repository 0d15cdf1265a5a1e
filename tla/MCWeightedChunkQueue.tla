------------------------ MODULE MCWeightedChunkQueue ------------------------
(* Three remotes and three chunks in two overlapping Metas.                 *)
EXTENDS WeightedChunkQueue, TLC

CONSTANTS c1, c2, c3

MCMeta == {{c1, c2}, {c2, c3}}
Symmetry == Permutations(Remote)
=============================================================================
