------------------------- MODULE MCAvailabilityMap -------------------------
(* AvailabilityMap on a chunk of a few bytes, with every block that starts  *)
(* inside it or just past it, empty and too long blocks included.           *)
EXTENDS AvailabilityMap

MCBlocks == (0 .. Size + 1) \X (0 .. Size + 1)
=============================================================================
