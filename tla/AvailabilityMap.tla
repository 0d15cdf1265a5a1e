-------------------------- MODULE AvailabilityMap --------------------------
(***************************************************************************)
(* AvailabilityMap<OffsetT> (daemon/util/AvailabilityMap.h): the free      *)
(* ranges of a chunk, kept as a std::map from the offset of each range to  *)
(* its length, next to a counter of the free bytes.  ChunkFileBuilder      *)
(* keeps one for the bytes not yet received, and Downloader copies it and  *)
(* inserts the outstanding requests to find a byte to ask for.             *)
(*                                                                         *)
(* A std::map is a function with a finite domain of offsets.  offset_type  *)
(* is not wrapped: every caller passes blocks that end inside the chunk    *)
(* (DownloaderProofs shows it), so first + second never passes 2^32.       *)
(***************************************************************************)
EXTENDS Integers, FiniteSets

CONSTANTS
    Size,           \* the constructor's argument
    Blocks          \* the <<offset, size>> pairs passed to insert

ASSUME SizeAssumption == Size \in Nat
ASSUME BlocksAssumption == Blocks \subseteq Nat \X Nat

VARIABLES
    available_map,  \* offset |-> length of the free range that starts there
    size_left,      \* size_left_
    inserted        \* the Boolean the last insert() returned

vars == <<available_map, size_left, inserted>>

size_original == Size

\* The entry insert() looks at: the last one that starts at or before o,
\* which is upper_bound(o) stepped back once.
IsSpaceFor(o, s) ==
    /\ s \in DOMAIN available_map
    /\ s <= o
    /\ \A k \in DOMAIN available_map : k <= o => k <= s

\* Faulty: the end of the block is not compared.
MutSliceSuperset(o, n, s) ==
    /\ n # 0
    /\ available_map[s] # 0
    /\ ~(o < s)

\* slice_superset's verdict: the block <<o, n>> lies inside the range that
\* starts at s.  The code compares the offsets of the last bytes.
slice_superset(o, n, s) ==
    /\ n # 0
    /\ available_map[s] # 0
    /\ ~(o < s)
    /\ ~(o + n - 1 > s + available_map[s] - 1)

\* block_left and block_right of slice_superset, as sets of offsets that
\* are empty for the "invalid" value (0,0).
BlockLeft(o, s) == IF o # s THEN {s} ELSE {}

BlockRight(o, n, s) ==
    IF o + n - 1 # s + available_map[s] - 1 THEN {o + n} ELSE {}

\* Faulty: the left range is one byte too long.
MutCut(o, n, s) ==
    [k \in (DOMAIN available_map \ {s}) \cup BlockLeft(o, s)
                                        \cup BlockRight(o, n, s) |->
        IF k \in BlockRight(o, n, s) THEN s + available_map[s] - (o + n)
        ELSE IF k = s THEN o - s + 1
        ELSE available_map[k]]

\* The map after the range at s gives up the block <<o, n>>.
Cut(o, n, s) ==
    [k \in (DOMAIN available_map \ {s}) \cup BlockLeft(o, s)
                                        \cup BlockRight(o, n, s) |->
        IF k \in BlockRight(o, n, s) THEN s + available_map[s] - (o + n)
        ELSE IF k = s THEN o - s
        ELSE available_map[k]]

full == size_left = 0

Init == /\ available_map = [k \in {0} |-> size_original]
        /\ size_left = size_original
        /\ inserted = FALSE

\* insert() takes the block: the range found contains it.
InsertTakes(o, n) ==
    /\ o < size_original
    /\ o + n <= size_original
    /\ \E s \in DOMAIN available_map :
        /\ IsSpaceFor(o, s)
        /\ slice_superset(o, n, s)
        /\ available_map' = Cut(o, n, s)
        /\ size_left' = size_left - n
        /\ inserted' = TRUE

\* insert() refuses the block, at its first test, because no range starts
\* at or before it, or because slice_superset refuses.
InsertRefuses(o, n) ==
    /\ \/ o >= size_original
       \/ o + n > size_original
       \/ \A s \in DOMAIN available_map :
            IsSpaceFor(o, s) => ~slice_superset(o, n, s)
    /\ inserted' = FALSE
    /\ UNCHANGED <<available_map, size_left>>

Insert(o, n) == InsertTakes(o, n) \/ InsertRefuses(o, n)

Next == \E b \in Blocks : Insert(b[1], b[2])

Spec == Init /\ [][Next]_vars
-----------------------------------------------------------------------------
\* The bytes of the range at offset k.
RangeAt(k) == k .. (k + available_map[k] - 1)

\* The free bytes: what the map stands for.
FreeBytesOf == UNION {RangeAt(k) : k \in DOMAIN available_map}

\* Every free range lies inside the chunk, and no range is empty unless the
\* chunk is: available_map_ and size_left_ keep their types.
TypeOK ==
    /\ DOMAIN available_map \subseteq 0 .. size_original
    /\ available_map \in [DOMAIN available_map -> 0 .. size_original]
    /\ size_left \in 0 .. size_original
    /\ inserted \in BOOLEAN

\* Two ranges neither overlap nor touch: insert() leaves at least one taken
\* byte between the range it cuts off on the left and the one on the right.
\* Callers rely on it: begin() must return a whole run of free bytes.
RangesSeparated ==
    \A j, k \in DOMAIN available_map :
        j < k => j + available_map[j] < k

\* size_left_ counts the free bytes exactly, so full() (the chunk is complete)
\* holds when no byte is free and not before.
SizeLeftExact == size_left = Cardinality(FreeBytesOf)

\* The map and its counter say which bytes are missing, and how many, whatever
\* blocks insert() took and refused.
MapExact == RangesSeparated /\ SizeLeftExact

\* AvailabilityMap implements the set of free bytes of FreeBytes: what
\* insert() accepts, refuses and takes is what a set of bytes would.
Abstract == INSTANCE FreeBytes WITH free <- FreeBytesOf

ImplementsFreeBytes == Abstract!Spec
=============================================================================
