---------------------------- MODULE MCDownloader ----------------------------
(* Two chunks of three and one bytes that share a Meta, two remotes, block  *)
(* sizes that split the larger chunk unevenly.                              *)
EXTENDS Downloader, TLC

CONSTANTS r1, r2, c1, c2

MCChunkSize == (c1 :> 3) @@ (c2 :> 1)
MCMeta == {{c1}, {c1, c2}}
=============================================================================
