--------------------------- MODULE MCFolderGroup ---------------------------
(* A peer that is dialled at its listening endpoint and that dials us from   *)
(* another, a second peer behind the first one's endpoint, and a connection  *)
(* to ourselves.                                                             *)
EXTENDS FolderGroup, TLC

CONSTANTS c1, c2, c3, c4, own, peer, other, e1, e2, e3

MCPeerDigest == (c1 :> peer) @@ (c2 :> peer) @@ (c3 :> other) @@ (c4 :> own)
MCPeerEndpoint == (c1 :> e1) @@ (c2 :> e2) @@ (c3 :> e1) @@ (c4 :> e3)
=============================================================================
