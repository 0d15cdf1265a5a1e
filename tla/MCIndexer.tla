----------------------------- MODULE MCIndexer -----------------------------
(* One path, which users change and for which Metas are received, two times  *)
(* in all.                                                                   *)
EXTENDS Indexer
=============================================================================
