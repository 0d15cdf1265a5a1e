------------------------------- MODULE MCLink -------------------------------
(* One connection of two nodes that share two chunks: another peer of the    *)
(* server may supply b, the client may lose a, the server b.                 *)
EXTENDS Link

CONSTANTS a, b

AtServer == [n \in End |-> IF n = "CLIENT" THEN {} ELSE {b}]
AtBoth == [n \in End |-> IF n = "CLIENT" THEN {a} ELSE {b}]
=============================================================================
