---------------------------- MODULE MCAssembler ----------------------------
(* Two files that share a chunk; for the run on revisions, one file whose    *)
(* second revision replaces a chunk and whose third deletes it.              *)
EXTENDS Assembler, TLC

CONSTANTS p, q, a, b, c

MCShared == (p :> <<<<a, b>>>>) @@ (q :> <<<<b, c>>>>)
MCRevisions == p :> <<<<a, b>>, <<b, c>>, <<>>>>
=============================================================================
