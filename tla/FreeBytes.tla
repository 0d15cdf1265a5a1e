----------------------------- MODULE FreeBytes -----------------------------
(***************************************************************************)
(* What AvailabilityMap promises its callers: it is a set of bytes that    *)
(* are still free.  insert(block) succeeds exactly when the block is not   *)
(* empty and all of its bytes are free; it then takes them, and otherwise  *)
(* it changes nothing.                                                     *)
(***************************************************************************)
EXTENDS Integers

CONSTANTS
    Size,       \* size_original_: the bytes are 0 .. Size - 1
    Blocks      \* the <<offset, size>> pairs callers may insert

VARIABLES
    free,       \* the free bytes
    inserted    \* the Boolean insert() returned last

vars == <<free, inserted>>

\* The bytes of the block of n bytes that starts at offset o.
Bytes(o, n) == o .. (o + n - 1)

Init == /\ free = Bytes(0, Size)
        /\ inserted = FALSE

Insert(o, n) ==
    \/ /\ n # 0
       /\ Bytes(o, n) \subseteq free
       /\ free' = free \ Bytes(o, n)
       /\ inserted' = TRUE
    \/ /\ ~(n # 0 /\ Bytes(o, n) \subseteq free)
       /\ inserted' = FALSE
       /\ UNCHANGED free

Next == \E b \in Blocks : Insert(b[1], b[2])

Spec == Init /\ [][Next]_vars
=============================================================================
