----------------------------- MODULE MCMetaSync -----------------------------
(* Three nodes in a row: the outer ones learn of each other's Metas through  *)
(* the one in the middle.                                                    *)
EXTENDS MetaSync

CONSTANTS a, b, c

MCLinkOf == {{a, b}, {b, c}}
=============================================================================
