-------------------------- MODULE ContainersProofs --------------------------
(***************************************************************************)
(* Proofs about the two containers that Downloader is built on.            *)
(* AvailabilityMap, for a chunk of any size and any sequence of            *)
(* insertions: its ranges stay apart, size_left_ is exact, and it          *)
(* implements the set of free bytes of FreeBytes.  WeightedChunkQueue, for *)
(* any remotes, chunks and Metas: its weights stay comparable.             *)
(***************************************************************************)
EXTENDS AvailabilityMap, WeightedChunkQueue, FiniteSetTheorems, TLAPS

\* The shape of available_map_: the inductive part that needs no counting.
Shape ==
    /\ DOMAIN available_map \subseteq 0 .. size_original
    /\ available_map \in [DOMAIN available_map -> 0 .. size_original]
    /\ \A k \in DOMAIN available_map :
        /\ k + available_map[k] <= size_original
        /\ size_original # 0 => available_map[k] # 0
    /\ RangesSeparated
    /\ inserted \in BOOLEAN

\* A byte is free exactly when some range holds it.
LEMMA FreeByte ==
    ASSUME Shape, NEW i
    PROVE  i \in FreeBytesOf <=>
             \E k \in DOMAIN available_map :
                /\ i \in Int
                /\ k <= i
                /\ i < k + available_map[k]
<1>1. \A k \in DOMAIN available_map : k \in Int /\ available_map[k] \in Int
  BY SizeAssumption DEF Shape, size_original
<1>2. \A k \in DOMAIN available_map :
        i \in RangeAt(k) <=> i \in Int /\ k <= i /\ i < k + available_map[k]
  BY <1>1 DEF RangeAt
<1>3. i \in FreeBytesOf <=> \E k \in DOMAIN available_map : i \in RangeAt(k)
  BY DEF FreeBytesOf
<1> QED BY <1>2, <1>3

\* insert() accepts the block <<o, n>> found in the range at s: the map keeps
\* its shape and loses exactly the bytes of the block.
LEMMA CutTakesBlock ==
    ASSUME Shape, NEW o \in Nat, NEW n \in Nat, NEW s \in DOMAIN available_map,
           slice_superset(o, n, s),
           available_map' = Cut(o, n, s), inserted' = TRUE
    PROVE  /\ Shape'
           /\ FreeBytesOf' = FreeBytesOf \ (o .. (o + n - 1))
           /\ (o .. (o + n - 1)) \subseteq FreeBytesOf
<1> DEFINE m == available_map
           e == s + m[s]
<1>1. /\ Size \in Nat /\ Size # 0
      /\ \A k \in DOMAIN m : k \in Nat /\ m[k] \in Nat /\ m[k] # 0 /\ k + m[k] <= Size
      /\ \A j, k \in DOMAIN m : j < k => j + m[j] < k
      /\ s <= o /\ n # 0 /\ o + n <= e
  BY SizeAssumption DEF Shape, size_original, slice_superset, RangesSeparated
<1>2. /\ DOMAIN m' = (DOMAIN m \ {s}) \cup BlockLeft(o, s) \cup BlockRight(o, n, s)
      /\ \A k \in DOMAIN m' :
            m'[k] = IF k \in BlockRight(o, n, s) THEN e - (o + n)
                    ELSE IF k = s THEN o - s ELSE m[k]
  <2>1. \A k \in DOMAIN Cut(o, n, s) :
          Cut(o, n, s)[k] = IF k \in BlockRight(o, n, s) THEN e - (o + n)
                            ELSE IF k = s THEN o - s ELSE m[k]
    BY <1>1 DEF Cut
  <2>2. DOMAIN Cut(o, n, s) = (DOMAIN m \ {s}) \cup BlockLeft(o, s) \cup BlockRight(o, n, s)
    BY DEF Cut
  <2> QED BY <2>1, <2>2
<1>3. /\ \A k \in BlockLeft(o, s) : k = s /\ s < o
      /\ s < o => s \in BlockLeft(o, s)
      /\ \A k \in BlockRight(o, n, s) : k = o + n /\ o + n < e
      /\ o + n < e => o + n \in BlockRight(o, n, s)
  BY <1>1 DEF BlockLeft, BlockRight
<1>4. \A k \in DOMAIN m' :
        \/ k \in DOMAIN m /\ k # s /\ k # o + n /\ m'[k] = m[k]
        \/ k = s /\ s < o /\ m'[k] = o - s
        \/ k = o + n /\ o + n < e /\ m'[k] = e - (o + n)
  <2> SUFFICES ASSUME NEW k \in DOMAIN m'
               PROVE  \/ k \in DOMAIN m /\ k # s /\ k # o + n /\ m'[k] = m[k]
                      \/ k = s /\ s < o /\ m'[k] = o - s
                      \/ k = o + n /\ o + n < e /\ m'[k] = e - (o + n)
    OBVIOUS
  <2>1. CASE k \in BlockRight(o, n, s)
    BY <2>1, <1>2, <1>3
  <2>2. CASE k \notin BlockRight(o, n, s) /\ k = s
    BY <2>2, <1>1, <1>2, <1>3
  <2>3. CASE k \notin BlockRight(o, n, s) /\ k # s
    <3>1. k \in DOMAIN m /\ m'[k] = m[k]
      BY <2>3, <1>2, <1>3
    <3>2. k # o + n
      BY <2>3, <3>1, <1>1, <1>3
    <3> QED BY <2>3, <3>1, <3>2
  <2> QED BY <2>1, <2>2, <2>3
<1>5. /\ \A k \in DOMAIN m : k # s => k \in DOMAIN m' /\ m'[k] = m[k]
      /\ s < o => s \in DOMAIN m' /\ m'[s] = o - s
      /\ o + n < e => o + n \in DOMAIN m' /\ m'[o + n] = e - (o + n)
  BY <1>1, <1>2, <1>3
<1>6. /\ \A k \in DOMAIN m' : k \in Nat /\ m'[k] \in Nat /\ m'[k] # 0 /\ k + m'[k] <= Size
      /\ \A j, k \in DOMAIN m' : j < k => j + m'[j] < k
  BY <1>1, <1>4
<1>7. Shape'
  <2>1. m' = [k \in DOMAIN m' |-> m'[k]]
    BY DEF Cut
  <2>2. \A k \in DOMAIN m' : k \in 0 .. Size /\ m'[k] \in 0 .. Size
    BY <1>1, <1>6
  <2>3. m' \in [DOMAIN m' -> 0 .. Size]
    BY <2>1, <2>2
  <2> QED BY <1>6, <2>2, <2>3 DEF Shape, RangesSeparated, size_original
<1>8. \A i : i \in FreeBytesOf' <=> \E k \in DOMAIN m' : i \in Int /\ k <= i /\ i < k + m'[k]
  <2> SUFFICES ASSUME NEW i
               PROVE  i \in FreeBytesOf' <=>
                        \E k \in DOMAIN m' : i \in Int /\ k <= i /\ i < k + m'[k]
    OBVIOUS
  <2>1. \A k \in DOMAIN m' : i \in RangeAt(k)' <=> i \in Int /\ k <= i /\ i < k + m'[k]
    BY <1>6 DEF RangeAt
  <2>2. i \in FreeBytesOf' <=> \E k \in DOMAIN m' : i \in RangeAt(k)'
    BY DEF FreeBytesOf, RangeAt
  <2> QED BY <2>1, <2>2
<1>9. \A i : i \in FreeBytesOf <=> \E k \in DOMAIN m : i \in Int /\ k <= i /\ i < k + m[k]
  BY FreeByte
<1>10. \A i : i \in FreeBytesOf' <=> i \in FreeBytesOf /\ i \notin o .. (o + n - 1)
  <2> SUFFICES ASSUME NEW i
               PROVE  i \in FreeBytesOf' <=> i \in FreeBytesOf /\ i \notin o .. (o + n - 1)
    OBVIOUS
  <2>1. CASE i \notin Int
    BY <2>1, <1>8, <1>9
  <2>2. CASE i \in Int
    <3>1. ASSUME NEW k \in DOMAIN m', k <= i, i < k + m'[k]
          PROVE  i \in FreeBytesOf /\ i \notin o .. (o + n - 1)
      <4>1. CASE k \in DOMAIN m /\ k # s /\ k # o + n /\ m'[k] = m[k]
        <5>1. i \in FreeBytesOf
          BY <3>1, <4>1, <2>2, <1>9
        <5>2. i \notin o .. (o + n - 1)
          BY <3>1, <4>1, <2>2, <1>1
        <5> QED BY <5>1, <5>2
      <4>2. CASE \/ k = s /\ s < o /\ m'[k] = o - s
                 \/ k = o + n /\ o + n < e /\ m'[k] = e - (o + n)
        <5>1. s <= i /\ i < e /\ i \notin o .. (o + n - 1)
          BY <3>1, <4>2, <2>2, <1>1
        <5> QED BY <5>1, <2>2, <1>9
      <4> QED BY <4>1, <4>2, <1>4
    <3>2. ASSUME NEW k \in DOMAIN m, k <= i, i < k + m[k], i \notin o .. (o + n - 1)
          PROVE  i \in FreeBytesOf'
      <4>1. CASE k # s
        BY <3>2, <4>1, <2>2, <1>5, <1>8
      <4>2. CASE k = s /\ i < o
        <5>1. s \in DOMAIN m' /\ m'[s] = o - s
          BY <3>2, <4>2, <2>2, <1>1, <1>5
        <5>2. s <= i /\ i < s + m'[s]
          BY <3>2, <4>2, <2>2, <5>1, <1>1
        <5> QED BY <5>1, <5>2, <2>2, <1>8
      <4>3. CASE k = s /\ ~(i < o)
        <5>1. o + n <= i /\ i < e
          BY <3>2, <4>3, <2>2, <1>1
        <5>2. o + n \in DOMAIN m' /\ m'[o + n] = e - (o + n)
          BY <5>1, <2>2, <1>1, <1>5
        <5>3. i < (o + n) + m'[o + n]
          BY <5>1, <5>2, <2>2, <1>1
        <5> QED BY <5>1, <5>2, <5>3, <2>2, <1>8
      <4> QED BY <4>1, <4>2, <4>3
    <3> QED BY <3>1, <3>2, <2>2, <1>8, <1>9
  <2> QED BY <2>1, <2>2
<1>11. (o .. (o + n - 1)) \subseteq FreeBytesOf
  BY <1>1, <1>9
<1>12. FreeBytesOf' = FreeBytesOf \ (o .. (o + n - 1))
  BY <1>10
<1> QED BY <1>7, <1>11, <1>12

\* insert() refuses a block: some byte of it is not free, or it is empty.
\* This is where the separation of the ranges is needed: a block whose
\* bytes are all free cannot straddle two ranges.
LEMMA RefusedBlockNotFree ==
    ASSUME Shape, NEW o \in Nat, NEW n \in Nat, n # 0,
           (o .. (o + n - 1)) \subseteq FreeBytesOf
    PROVE  /\ o < size_original
           /\ o + n <= size_original
           /\ \E s \in DOMAIN available_map : IsSpaceFor(o, s) /\ slice_superset(o, n, s)
<1> DEFINE m == available_map
<1>1. /\ Size \in Nat
      /\ \A k \in DOMAIN m : k \in Nat /\ m[k] \in Nat /\ k + m[k] <= Size
      /\ \A j, k \in DOMAIN m : j < k => j + m[j] < k
  BY SizeAssumption DEF Shape, size_original, RangesSeparated
<1>2. \A i : i \in FreeBytesOf <=> \E k \in DOMAIN m : i \in Int /\ k <= i /\ i < k + m[k]
  BY FreeByte
<1>3. o \in FreeBytesOf /\ o + n - 1 \in FreeBytesOf
  OBVIOUS
<1>4. PICK s \in DOMAIN m : s <= o /\ o < s + m[s]
  BY <1>2, <1>3
<1>5. IsSpaceFor(o, s)
  BY <1>1, <1>4 DEF IsSpaceFor
<1>6. o + n <= s + m[s]
  <2> SUFFICES ASSUME s + m[s] < o + n PROVE FALSE
    BY <1>1
  <2>1. s + m[s] \in o .. (o + n - 1)
    BY <1>1, <1>4
  <2>2. PICK k \in DOMAIN m : k <= s + m[s] /\ s + m[s] < k + m[k]
    BY <2>1, <1>2
  <2> QED BY <2>2, <1>1, <1>4
<1>7. slice_superset(o, n, s)
  BY <1>1, <1>4, <1>6 DEF slice_superset
<1>8. o < Size /\ o + n <= Size
  BY <1>1, <1>4, <1>6
<1> QED BY <1>5, <1>7, <1>8 DEF size_original

\* The inductive invariant: the shape of the map, and a size_left_ that
\* counts its free bytes.
Inv == /\ Shape
       /\ IsFiniteSet(FreeBytesOf)
       /\ SizeLeftExact

\* The constructor establishes the invariant with every byte free.
LEMMA InitInv == Init => Inv /\ FreeBytesOf = 0 .. (Size - 1)
<1> SUFFICES ASSUME Init PROVE Inv /\ FreeBytesOf = 0 .. (Size - 1)
  OBVIOUS
<1>1. /\ DOMAIN available_map = {0} /\ available_map[0] = Size
      /\ available_map \in [{0} -> 0 .. Size]
      /\ size_left = Size /\ inserted = FALSE
  BY SizeAssumption DEF Init, size_original
<1>2. Shape
  <2>1. DOMAIN available_map \subseteq 0 .. Size
    BY <1>1, SizeAssumption
  <2>2. available_map \in [DOMAIN available_map -> 0 .. Size]
    BY <1>1
  <2>3. \A k \in DOMAIN available_map :
            k + available_map[k] <= Size /\ (Size # 0 => available_map[k] # 0)
    BY <1>1, SizeAssumption
  <2>4. RangesSeparated
    BY <1>1 DEF RangesSeparated
  <2> QED BY <1>1, <2>1, <2>2, <2>3, <2>4 DEF Shape, size_original
<1>3. FreeBytesOf = 0 .. (Size - 1)
  <2>1. \A i : i \in FreeBytesOf <=> i \in Int /\ 0 <= i /\ i < 0 + Size
    BY <1>1, <1>2, FreeByte
  <2>2. \A i : i \in FreeBytesOf <=> i \in 0 .. (Size - 1)
    BY <2>1, SizeAssumption
  <2> QED BY <2>2
<1>4. IsFiniteSet(0 .. (Size - 1)) /\ Cardinality(0 .. (Size - 1)) = Size
  BY FS_Interval, SizeAssumption
<1> QED BY <1>1, <1>2, <1>3, <1>4 DEF Inv, SizeLeftExact

\* insert() takes a block: exactly its bytes stop being free, and size_left_
\* goes down by as many.
LEMMA TakesInv ==
    ASSUME Inv, NEW o \in Nat, NEW n \in Nat, InsertTakes(o, n)
    PROVE  /\ Inv'
           /\ n # 0
           /\ (o .. (o + n - 1)) \subseteq FreeBytesOf
           /\ FreeBytesOf' = FreeBytesOf \ (o .. (o + n - 1))
<1> DEFINE B == o .. (o + n - 1)
<1>1. PICK s \in DOMAIN available_map :
        /\ slice_superset(o, n, s)
        /\ available_map' = Cut(o, n, s)
        /\ size_left' = size_left - n
        /\ inserted' = TRUE
  BY DEF InsertTakes
<1>2. n # 0
  BY <1>1 DEF slice_superset
<1>3. Shape' /\ FreeBytesOf' = FreeBytesOf \ B /\ B \subseteq FreeBytesOf
  BY <1>1, CutTakesBlock DEF Inv
<1>4. IsFiniteSet(FreeBytesOf) /\ size_left = Cardinality(FreeBytesOf)
  BY DEF Inv, SizeLeftExact
<1>5. Cardinality(B) = n
  BY <1>2, FS_Interval
<1>6. FreeBytesOf \cap B = B
  BY <1>3
<1>7. IsFiniteSet(FreeBytesOf \ B) /\ Cardinality(FreeBytesOf \ B) = Cardinality(FreeBytesOf) - n
  <2>1. /\ IsFiniteSet(FreeBytesOf \ B)
        /\ Cardinality(FreeBytesOf \ B) =
             Cardinality(FreeBytesOf) - Cardinality(FreeBytesOf \cap B)
    BY <1>4, FS_Difference
  <2> QED BY <2>1, <1>5, <1>6
<1>8. IsFiniteSet(FreeBytesOf)' /\ SizeLeftExact'
  BY <1>1, <1>3, <1>4, <1>7 DEF SizeLeftExact
<1> QED BY <1>2, <1>3, <1>8 DEF Inv

\* Steps that leave the map and its counter alone keep the invariant.
LEMMA UnchangedInv ==
    ASSUME Inv, UNCHANGED <<available_map, size_left>>, inserted' \in BOOLEAN
    PROVE  Inv' /\ FreeBytesOf' = FreeBytesOf
<1>1. FreeBytesOf' = FreeBytesOf
  BY DEF FreeBytesOf, RangeAt
<1> QED BY <1>1 DEF Inv, Shape, RangesSeparated, SizeLeftExact

\* Every step of the specification keeps the invariant.
LEMMA NextInv == Inv /\ [Next]_vars => Inv'
<1> SUFFICES ASSUME Inv, [Next]_vars PROVE Inv'
  OBVIOUS
<1>1. CASE UNCHANGED vars
  BY <1>1, UnchangedInv DEF vars, Inv, Shape
<1>2. CASE Next
  <2>1. PICK b \in Blocks : Insert(b[1], b[2])
    BY <1>2 DEF Next
  <2>2. b[1] \in Nat /\ b[2] \in Nat
    BY <2>1, BlocksAssumption
  <2>3. CASE InsertTakes(b[1], b[2])
    BY <2>2, <2>3, TakesInv
  <2>4. CASE InsertRefuses(b[1], b[2])
    BY <2>4, UnchangedInv DEF InsertRefuses
  <2> QED BY <2>1, <2>3, <2>4 DEF Insert
<1> QED BY <1>1, <1>2

\* size_left_ is between 0 and the size of the chunk: it never underflows.
LEMMA InvTypes == Inv => TypeOK
<1> SUFFICES ASSUME Inv PROVE TypeOK
  OBVIOUS
<1>1. \A k \in DOMAIN available_map :
        k \in Nat /\ available_map[k] \in Nat /\ k + available_map[k] <= Size
  BY SizeAssumption DEF Inv, Shape, size_original
<1>2. FreeBytesOf \subseteq 0 .. (Size - 1)
  BY <1>1, FreeByte, SizeAssumption DEF Inv
<1>3. IsFiniteSet(0 .. (Size - 1)) /\ Cardinality(0 .. (Size - 1)) = Size
  BY FS_Interval, SizeAssumption
<1>4. Cardinality(FreeBytesOf) \in Nat /\ Cardinality(FreeBytesOf) <= Size
  BY <1>2, <1>3, FS_Subset, FS_CardinalityType DEF Inv
<1> QED BY <1>4, SizeAssumption DEF Inv, Shape, TypeOK, SizeLeftExact, size_original

\* For a chunk of any size and any sequence of insertions the free ranges
\* stay inside the chunk and neither overlap nor touch, so that upper_bound finds
\* the one range a block can lie in, and size_left_ counts the free bytes.
THEOREM RangesAndCountCorrect == Spec => [](TypeOK /\ MapExact)
<1>1. Init => Inv
  BY InitInv
<1>2. Inv => TypeOK /\ MapExact
  BY InvTypes DEF Inv, Shape, MapExact
<1> QED BY <1>1, <1>2, NextInv, PTL DEF Spec

\* AvailabilityMap implements FreeBytes: insert() accepts, refuses and takes
\* what a plain set of free bytes would, for a chunk of any size.
THEOREM MapImplementsFreeBytes == Spec => ImplementsFreeBytes
<1>1. Init => Inv /\ Abstract!Init
  BY InitInv, SizeAssumption DEF Init, Abstract!Init, Abstract!Bytes
<1>2. Inv /\ [Next]_vars => [Abstract!Next]_(Abstract!vars)
  <2> SUFFICES ASSUME Inv, [Next]_vars PROVE [Abstract!Next]_(Abstract!vars)
    OBVIOUS
  <2>1. CASE UNCHANGED vars
    <3>1. FreeBytesOf' = FreeBytesOf
      BY <2>1, UnchangedInv DEF vars, Inv, Shape
    <3> QED BY <2>1, <3>1 DEF vars, Abstract!vars
  <2>2. CASE Next
    <3>1. PICK b \in Blocks : Insert(b[1], b[2])
      BY <2>2 DEF Next
    <3>2. b[1] \in Nat /\ b[2] \in Nat
      BY <3>1, BlocksAssumption
    <3>3. CASE InsertTakes(b[1], b[2])
      <4>1. inserted' = TRUE
        BY <3>3 DEF InsertTakes
      <4>2. Abstract!Insert(b[1], b[2])
        BY <4>1, <3>2, <3>3, TakesInv DEF Abstract!Insert, Abstract!Bytes
      <4> QED BY <4>2, <3>1 DEF Abstract!Next
    <3>4. CASE InsertRefuses(b[1], b[2])
      <4>1. inserted' = FALSE /\ FreeBytesOf' = FreeBytesOf
        BY <3>4, UnchangedInv DEF InsertRefuses
      <4>2. ~(b[2] # 0 /\ (b[1] .. (b[1] + b[2] - 1)) \subseteq FreeBytesOf)
        <5> SUFFICES ASSUME b[2] # 0, (b[1] .. (b[1] + b[2] - 1)) \subseteq FreeBytesOf
                     PROVE  FALSE
          OBVIOUS
        <5>1. /\ b[1] < size_original /\ b[1] + b[2] <= size_original
              /\ \E s \in DOMAIN available_map :
                    IsSpaceFor(b[1], s) /\ slice_superset(b[1], b[2], s)
          BY <3>2, RefusedBlockNotFree DEF Inv
        <5> QED BY <5>1, <3>2, <3>4, SizeAssumption DEF InsertRefuses, size_original
      <4>3. Abstract!Insert(b[1], b[2])
        BY <4>1, <4>2 DEF Abstract!Insert, Abstract!Bytes
      <4> QED BY <4>3, <3>1 DEF Abstract!Next
    <3> QED BY <3>1, <3>3, <3>4 DEF Insert
  <2> QED BY <2>1, <2>2
<1> QED BY <1>1, <1>2, NextInv, PTL DEF Spec, ImplementsFreeBytes, Abstract!Spec
-----------------------------------------------------------------------------
\* The number of tracked remotes.
Tracked == Cardinality(remotes)

\* The counts of a weight, for a chunk with these owners.  With remotes_count = 0
\* an update of owned_by is skipped unless one of the values is NaN, so it stays
\* at what the first owner made it.
Counted(w, owners) ==
    /\ w.remotes_count \in {0, Tracked}
    /\ w.owned_by <= Tracked
    /\ w.remotes_count = 0 => w.owned_by \in {0, 1} /\ (w.owned_by = 0 => owners = {})

\* The inductive invariant.
QInv ==
    /\ QueueTypeOK
    /\ IsFiniteSet(remotes)
    /\ DOMAIN queue \subseteq Chunk
    /\ \A c \in Chunk : owned_by[c] \subseteq remotes
    /\ \A c \in DOMAIN queue : Counted(queue[c], owned_by[c])

LEMMA Cancel ==
    ASSUME NEW x \in Int, NEW y \in Int, NEW n \in Nat, n > 0, x * n = y * n
    PROVE  x = y
OBVIOUS

\* What reweightChunk makes of a weight whose count of owners is set: with
\* remotes_count = 0 both values may be minus infinity and compare equal.
LEMMA ReweightFacts ==
    ASSUME NEW v \in Weight, NEW k \in Nat, NEW w,
           w = reweightChunk(v, [v EXCEPT !.owned_by = k])
    PROVE  /\ w \in Weight
           /\ w.remotes_count = v.remotes_count
           /\ v.remotes_count # 0 => w.owned_by = k
           /\ v.remotes_count = 0 =>
                w.owned_by = IF v.owned_by # 0 /\ k # 0 THEN v.owned_by ELSE k
<1> DEFINE u == [v EXCEPT !.owned_by = k]
           n == v.remotes_count
           t == (IF v.clustered THEN CLUSTERED_COEFFICIENT ELSE 0) * n
<1>1. /\ u \in Weight /\ u.remotes_count = n /\ u.owned_by = k
      /\ u.clustered = v.clustered
  BY DEF Weight
<1>2. w = IF SameValue(v, u) THEN v ELSE u
  BY DEF reweightChunk
<1>3. n \in Nat /\ v.owned_by \in Nat /\ t \in Int
  BY DEF Weight, CLUSTERED_COEFFICIENT
<1>4. /\ Numerator(v) = t + 25 * (n - v.owned_by)
      /\ Numerator(u) = t + 25 * (n - k)
  BY <1>1 DEF Numerator, RARITY_COEFFICIENT
<1> HIDE DEF u, t
<1>5. CASE n # 0
  <2>1. ASSUME SameValue(v, u) PROVE v.owned_by = k
    <3>1. Numerator(v) * n = Numerator(u) * n
      BY <1>1, <2>1 DEF SameValue
    <3>2. Numerator(v) \in Int /\ Numerator(u) \in Int
      BY <1>3, <1>4
    <3>3. Numerator(v) = Numerator(u)
      BY <1>3, <1>5, <3>1, <3>2, Cancel
    <3> HIDE DEF n
    <3> QED BY <1>3, <1>4, <3>3
  <2> QED BY <1>1, <1>2, <1>5, <2>1
<1>6. CASE n = 0
  <2>1. Numerator(v) \in Int /\ Numerator(u) \in Int
    BY <1>3, <1>4
  <2>2. Numerator(v) * u.remotes_count = Numerator(u) * v.remotes_count
    BY <1>1, <1>6, <2>1
  <2>3. SameValue(v, u) <=> v.owned_by # 0 /\ k # 0
    BY <1>1, <1>6, <2>2 DEF SameValue, IsNaN, IsMinusInfinity
  <2> QED BY <1>1, <1>2, <1>6, <2>3
<1> QED BY <1>5, <1>6

\* markClustered leaves the counts alone.
LEMMA ClusteredFacts ==
    ASSUME NEW v \in Weight, NEW w,
           w = reweightChunk(v, [v EXCEPT !.clustered = TRUE])
    PROVE  /\ w \in Weight
           /\ w.remotes_count = v.remotes_count /\ w.owned_by = v.owned_by
BY DEF reweightChunk, Weight

LEMMA OwnersFinite ==
    ASSUME QInv, NEW S \in SUBSET remotes
    PROVE  IsFiniteSet(S) /\ Cardinality(S) \in Nat /\ Cardinality(S) <= Tracked /\ Tracked \in Nat
           /\ (Cardinality(S) = 0 <=> S = {})
<1>1. IsFiniteSet(remotes)
  BY DEF QInv
<1> QED BY <1>1, FS_Subset, FS_CardinalityType, FS_EmptySet DEF Tracked

\* Marking clusters keeps what is said of the weights.
LEMMA MarkKeeps ==
    ASSUME NEW q, q \in [DOMAIN q -> Weight], NEW S, NEW owners,
           \A c \in DOMAIN q : Counted(q[c], owners[c])
    PROVE  LET r == MarkClustered(q, S) IN
             /\ r \in [DOMAIN r -> Weight] /\ DOMAIN r = DOMAIN q
             /\ \A c \in DOMAIN q : Counted(r[c], owners[c])
<1> DEFINE r == MarkClustered(q, S)
<1>1. r = [c \in DOMAIN q |->
             IF c \in S THEN reweightChunk(q[c], [q[c] EXCEPT !.clustered = TRUE]) ELSE q[c]]
  BY DEF MarkClustered
<1>2. ASSUME NEW c \in DOMAIN q
      PROVE  r[c] \in Weight /\ Counted(r[c], owners[c])
  <2>1. q[c] \in Weight
    OBVIOUS
  <2>2. CASE c \in S
    <3>1. r[c] = reweightChunk(q[c], [q[c] EXCEPT !.clustered = TRUE])
      BY <1>1, <2>2
    <3> HIDE DEF r
    <3>2. /\ r[c] \in Weight
          /\ r[c].remotes_count = q[c].remotes_count /\ r[c].owned_by = q[c].owned_by
      BY <2>1, <3>1, ClusteredFacts
    <3> QED BY <1>2, <3>2 DEF Counted
  <2>3. CASE c \notin S
    BY <1>1, <1>2, <2>1, <2>3
  <2> QED BY <2>2, <2>3
<1>3. DOMAIN r = DOMAIN q /\ r = [c \in DOMAIN r |-> r[c]]
  BY <1>1
<1> HIDE DEF r
<1>4. r \in [DOMAIN r -> Weight]
  BY <1>2, <1>3
<1> QED BY <1>2, <1>3, <1>4 DEF r

LEMMA LocalMetaKeeps ==
    ASSUME QInv, NEW m \in Meta, NEW have \in SUBSET m, NotifyLocalMeta(m, have)
    PROVE  QInv'
<1> DEFINE missing == m \ have
           q0 == RemoveChunks(queue, have)
           q == AddChunks(q0, missing)
<1>1. m \subseteq Chunk
  BY MetaAssumption
<1>2. PICK S : queue' = MarkClustered(q, S)
  BY DEF NotifyLocalMeta
<1>3. /\ index' = index \cup {m} /\ remotes' = remotes
      /\ owned_by' = [c \in Chunk |-> IF c \in m THEN {} ELSE owned_by[c]]
  BY DEF NotifyLocalMeta
<1>4. q0 = [c \in DOMAIN queue \ have |-> queue[c]]
  BY DEF RemoveChunks
<1>5. q = [c \in DOMAIN q0 \cup missing |-> IF c \in DOMAIN q0 THEN q0[c] ELSE NewWeight]
  BY DEF AddChunks
<1>6. /\ NewWeight \in Weight
      /\ NewWeight.owned_by = 0 /\ NewWeight.remotes_count = 0
  BY DEF NewWeight, Weight
<1> HIDE DEF q, q0
<1>7. /\ DOMAIN q = (DOMAIN queue \ have) \cup missing
      /\ \A c \in DOMAIN queue \ have : q[c] = queue[c]
      /\ \A c \in missing \ DOMAIN queue : q[c] = NewWeight
  BY <1>4, <1>5
<1>8. q \in [DOMAIN q -> Weight]
  <2>1. queue \in [DOMAIN queue -> Weight]
    BY DEF QInv, QueueTypeOK
  <2>2. \A c \in DOMAIN q : q[c] \in Weight
    BY <1>6, <1>7, <2>1
  <2> QED BY <1>5, <2>2
<1>9. Tracked \in Nat
  BY OwnersFinite
<1>10. DOMAIN queue \subseteq Chunk /\ owned_by \in [Chunk -> SUBSET Remote]
  BY DEF QInv, QueueTypeOK
<1>11. ASSUME NEW c \in DOMAIN q PROVE Counted(q[c], owned_by'[c])
  <2>1. CASE c \in DOMAIN queue \ have
    <3>1. owned_by'[c] \in {{}, owned_by[c]}
      BY <1>3, <1>10, <2>1
    <3>2. Counted(queue[c], owned_by[c])
      BY <2>1 DEF QInv
    <3> QED BY <1>7, <2>1, <3>1, <3>2 DEF Counted
  <2>2. CASE c \in missing \ DOMAIN queue
    <3>1. owned_by'[c] = {}
      BY <1>1, <1>3, <2>2
    <3> QED BY <1>6, <1>7, <1>9, <2>2, <3>1 DEF Counted
  <2> QED BY <1>7, <1>11, <2>1, <2>2
<1>12. /\ queue' \in [DOMAIN queue' -> Weight] /\ DOMAIN queue' = DOMAIN q
       /\ \A c \in DOMAIN q : Counted(queue'[c], owned_by'[c])
  BY <1>2, <1>8, <1>11, MarkKeeps
<1>13. /\ owned_by' \in [Chunk -> SUBSET Remote]
       /\ \A c \in Chunk : owned_by'[c] \subseteq remotes'
       /\ \A c \in Chunk : owned_by'[c] # {} => c \in DOMAIN queue'
  <2>1. \A c \in Chunk : owned_by'[c] = IF c \in m THEN {} ELSE owned_by[c]
    BY <1>3
  <2>2. \A c \in Chunk : owned_by[c] # {} => c \in DOMAIN queue
    BY DEF QInv, QueueTypeOK
  <2>3. \A c \in Chunk : owned_by[c] \subseteq remotes
    BY DEF QInv
  <2> QED BY <1>3, <1>7, <1>10, <1>12, <2>1, <2>2, <2>3
<1>14. QueueTypeOK'
  BY <1>3, <1>12, <1>13 DEF QInv, QueueTypeOK
<1>15. \A c \in DOMAIN queue' : Counted(queue[c], owned_by[c])'
  BY <1>3, <1>12 DEF Counted, Tracked
<1> QED BY <1>1, <1>3, <1>7, <1>10, <1>12, <1>13, <1>14, <1>15 DEF QInv

LEMMA LocalChunkKeeps ==
    ASSUME QInv, NEW d \in Chunk, NotifyLocalChunk(d)
    PROVE  QInv'
<1> DEFINE q == RemoveChunks(queue, {d})
<1>1. PICK S : queue' = MarkClustered(q, S)
  BY DEF NotifyLocalChunk
<1>2. /\ index' = index /\ remotes' = remotes
      /\ owned_by' = [owned_by EXCEPT ![d] = {}]
  BY DEF NotifyLocalChunk
<1>3. q = [c \in DOMAIN queue \ {d} |-> queue[c]]
  BY DEF RemoveChunks
<1> HIDE DEF q
<1>4. /\ DOMAIN queue \subseteq Chunk /\ owned_by \in [Chunk -> SUBSET Remote]
      /\ queue \in [DOMAIN queue -> Weight]
  BY DEF QInv, QueueTypeOK
<1>5. q \in [DOMAIN q -> Weight] /\ DOMAIN q = DOMAIN queue \ {d}
  BY <1>3, <1>4
<1>6. \A c \in DOMAIN q : Counted(q[c], owned_by'[c])
  BY <1>2, <1>3, <1>4 DEF QInv
<1>7. /\ queue' \in [DOMAIN queue' -> Weight] /\ DOMAIN queue' = DOMAIN q
      /\ \A c \in DOMAIN q : Counted(queue'[c], owned_by'[c])
  BY <1>1, <1>5, <1>6, MarkKeeps
<1>8. /\ owned_by' \in [Chunk -> SUBSET Remote]
      /\ \A c \in Chunk : owned_by'[c] \subseteq remotes'
      /\ \A c \in Chunk : owned_by'[c] # {} => c \in DOMAIN queue'
  <2>1. owned_by'[d] = {} /\ \A c \in Chunk : c # d => owned_by'[c] = owned_by[c]
    BY <1>2, <1>4
  <2>2. \A c \in Chunk : owned_by[c] \subseteq remotes /\ (owned_by[c] # {} => c \in DOMAIN queue)
    BY DEF QInv, QueueTypeOK
  <2> QED BY <1>2, <1>4, <1>5, <1>7, <2>1, <2>2
<1>9. QueueTypeOK'
  BY <1>2, <1>7, <1>8 DEF QInv, QueueTypeOK
<1>10. \A c \in DOMAIN queue' : Counted(queue[c], owned_by[c])'
  BY <1>2, <1>7 DEF Counted, Tracked
<1> QED BY <1>2, <1>4, <1>5, <1>7, <1>8, <1>9, <1>10 DEF QInv

LEMMA RemoteChunksKeeps ==
    ASSUME QInv, NEW r \in Remote, NEW S, NotifyRemoteChunks(r, S)
    PROVE  QInv'
<1>1. /\ r \in remotes /\ remotes' = remotes /\ index' = index
      /\ owned_by' = [c \in Chunk |-> IF c \in S \cap DOMAIN queue
                                      THEN owned_by[c] \cup {r} ELSE owned_by[c]]
      /\ queue' = [c \in DOMAIN queue |->
                    IF c \in S
                    THEN reweightChunk(queue[c],
                            [queue[c] EXCEPT !.owned_by = Cardinality(owned_by'[c])])
                    ELSE queue[c]]
  BY DEF NotifyRemoteChunks
<1>2. /\ DOMAIN queue \subseteq Chunk /\ owned_by \in [Chunk -> SUBSET Remote]
      /\ queue \in [DOMAIN queue -> Weight]
      /\ \A c \in Chunk : owned_by[c] \subseteq remotes /\ (owned_by[c] # {} => c \in DOMAIN queue)
  BY DEF QInv, QueueTypeOK
<1>3. /\ owned_by' \in [Chunk -> SUBSET Remote]
      /\ \A c \in Chunk : owned_by'[c] \subseteq remotes
      /\ \A c \in Chunk : owned_by'[c] # {} => c \in DOMAIN queue
  BY <1>1, <1>2
<1>4. ASSUME NEW c \in DOMAIN queue
      PROVE  queue'[c] \in Weight /\ Counted(queue'[c], owned_by'[c])
  <2>1. queue[c] \in Weight /\ Counted(queue[c], owned_by[c]) /\ c \in Chunk
    BY <1>2 DEF QInv
  <2>2. CASE c \notin S
    BY <1>1, <1>2, <2>1, <2>2
  <2>3. CASE c \in S
    <3> DEFINE k == Cardinality(owned_by'[c])
    <3>1. owned_by'[c] = owned_by[c] \cup {r} /\ owned_by'[c] \subseteq remotes
      BY <1>1, <1>3, <2>1, <2>3
    <3>2. k \in Nat /\ k <= Tracked /\ k # 0 /\ Tracked \in Nat
      BY <3>1, OwnersFinite
    <3>3. owned_by[c] = {} => k = 1
      BY <3>1, FS_Singleton
    <3>4. queue'[c] = reweightChunk(queue[c], [queue[c] EXCEPT !.owned_by = k])
      BY <1>1, <2>3
    <3> HIDE DEF k
    <3>5. /\ queue'[c] \in Weight
          /\ queue'[c].remotes_count = queue[c].remotes_count
          /\ queue[c].remotes_count # 0 => queue'[c].owned_by = k
          /\ queue[c].remotes_count = 0 =>
               queue'[c].owned_by =
                 IF queue[c].owned_by # 0 /\ k # 0 THEN queue[c].owned_by ELSE k
      BY <2>1, <3>2, <3>4, ReweightFacts
    <3> QED BY <2>1, <3>2, <3>3, <3>5 DEF Counted
  <2> QED BY <2>2, <2>3
<1>5. DOMAIN queue' = DOMAIN queue /\ queue' = [c \in DOMAIN queue |-> queue'[c]]
  BY <1>1
<1>6. queue' \in [DOMAIN queue' -> Weight]
  BY <1>4, <1>5
<1>7. QueueTypeOK'
  BY <1>1, <1>3, <1>5, <1>6 DEF QInv, QueueTypeOK
<1>8. \A c \in DOMAIN queue' : Counted(queue[c], owned_by[c])'
  BY <1>1, <1>4, <1>5 DEF Counted, Tracked
<1> QED BY <1>1, <1>2, <1>3, <1>5, <1>7, <1>8 DEF QInv

\* setRemotesCount(count) changes that count only.
LEMMA SetCountFacts ==
    ASSUME NEW q, q \in [DOMAIN q -> Weight], NEW n \in Nat
    PROVE  LET s == SetRemotesCount(q, n) IN
             /\ s \in [DOMAIN s -> Weight] /\ DOMAIN s = DOMAIN q
             /\ \A c \in DOMAIN q : s[c].remotes_count = n /\ s[c].owned_by = q[c].owned_by
<1>1. \A v \in Weight : LET w == [v EXCEPT !.remotes_count = n] IN
        w \in Weight /\ w.remotes_count = n /\ w.owned_by = v.owned_by
  BY DEF Weight
<1> QED BY <1>1 DEF SetRemotesCount

LEMMA TrackKeeps ==
    ASSUME QInv, NEW r \in Remote, TrackRemote(r)
    PROVE  QInv'
<1> DEFINE n == Cardinality(remotes')
<1>1. /\ remotes' = remotes \cup {r} /\ r \notin remotes
      /\ queue' = SetRemotesCount(queue, n)
      /\ owned_by' = owned_by /\ index' = index
  BY DEF TrackRemote
<1>2. IsFiniteSet(remotes') /\ n = Tracked + 1 /\ Tracked \in Nat
  BY <1>1, FS_AddElement, OwnersFinite DEF QInv, Tracked
<1>3. queue \in [DOMAIN queue -> Weight]
  BY DEF QInv, QueueTypeOK
<1>4. Tracked' = n
  BY DEF Tracked
<1> HIDE DEF n
<1>5. /\ queue' \in [DOMAIN queue' -> Weight] /\ DOMAIN queue' = DOMAIN queue
      /\ \A c \in DOMAIN queue :
            queue'[c].remotes_count = n /\ queue'[c].owned_by = queue[c].owned_by
  BY <1>1, <1>2, <1>3, SetCountFacts
<1>6. QueueTypeOK'
  BY <1>1, <1>5 DEF QInv, QueueTypeOK
<1>7. ASSUME NEW c \in DOMAIN queue' PROVE Counted(queue[c], owned_by[c])'
  <2>1. queue[c].owned_by \in Nat /\ queue[c].owned_by <= Tracked
    BY <1>3, <1>5 DEF QInv, Counted, Weight
  <2> QED BY <1>2, <1>4, <1>5, <2>1 DEF Counted
<1> QED BY <1>1, <1>2, <1>5, <1>6, <1>7 DEF QInv

LEMMA UntrackKeeps ==
    ASSUME QInv, NEW r \in Remote, UntrackRemote(r)
    PROVE  QInv'
<1> DEFINE n == Cardinality(remotes')
           q == SetOwnersCount(queue, owned_by')
<1>1. /\ r \in remotes /\ remotes' = remotes \ {r}
      /\ owned_by' = [c \in Chunk |-> owned_by[c] \ {r}]
      /\ queue' = SetRemotesCount(q, n) /\ index' = index
  BY DEF UntrackRemote
<1>2. IsFiniteSet(remotes') /\ n = Tracked - 1 /\ n \in Nat /\ Tracked \in Nat
  BY <1>1, FS_RemoveElement, FS_CardinalityType, OwnersFinite DEF QInv, Tracked
<1>3. Tracked' = n
  BY DEF Tracked
<1>4. /\ DOMAIN queue \subseteq Chunk /\ owned_by \in [Chunk -> SUBSET Remote]
      /\ queue \in [DOMAIN queue -> Weight]
      /\ \A c \in Chunk : owned_by[c] \subseteq remotes /\ (owned_by[c] # {} => c \in DOMAIN queue)
  BY DEF QInv, QueueTypeOK
<1>5. /\ owned_by' \in [Chunk -> SUBSET Remote]
      /\ \A c \in Chunk : owned_by'[c] \subseteq remotes' /\ owned_by'[c] \subseteq owned_by[c]
      /\ \A c \in Chunk : owned_by'[c] # {} => c \in DOMAIN queue
  BY <1>1, <1>4
<1>6. \A S \in SUBSET remotes' : Cardinality(S) \in Nat /\ Cardinality(S) <= n
        /\ (Cardinality(S) = 0 <=> S = {})
  BY <1>2, FS_Subset, FS_CardinalityType, FS_EmptySet
<1>7. q = [c \in DOMAIN queue |->
            reweightChunk(queue[c], [queue[c] EXCEPT !.owned_by = Cardinality(owned_by'[c])])]
  BY DEF SetOwnersCount
<1> HIDE DEF n, q
<1>8. ASSUME NEW c \in DOMAIN queue
      PROVE  /\ q[c] \in Weight
             /\ q[c].owned_by <= n
             /\ n = 0 => q[c].owned_by = 0 /\ owned_by'[c] = {}
  <2> DEFINE k == Cardinality(owned_by'[c])
  <2>1. queue[c] \in Weight /\ Counted(queue[c], owned_by[c]) /\ c \in Chunk
    BY <1>4 DEF QInv
  <2>2. k \in Nat /\ k <= n /\ (k = 0 <=> owned_by'[c] = {})
    BY <1>5, <1>6, <2>1
  <2>3. q[c] = reweightChunk(queue[c], [queue[c] EXCEPT !.owned_by = k])
    BY <1>7
  <2> HIDE DEF k
  <2>4. /\ q[c] \in Weight
        /\ queue[c].remotes_count # 0 => q[c].owned_by = k
        /\ queue[c].remotes_count = 0 =>
             q[c].owned_by = IF queue[c].owned_by # 0 /\ k # 0 THEN queue[c].owned_by ELSE k
    BY <2>1, <2>2, <2>3, ReweightFacts
  <2>5. queue[c].remotes_count = 0 => queue[c].owned_by \in {0, 1}
    BY <2>1 DEF Counted
  <2> QED BY <1>2, <2>2, <2>4, <2>5
<1>9. q \in [DOMAIN q -> Weight] /\ DOMAIN q = DOMAIN queue
  <2>1. DOMAIN q = DOMAIN queue /\ q = [c \in DOMAIN queue |-> q[c]]
    BY <1>7
  <2> QED BY <1>8, <2>1
<1>10. /\ queue' \in [DOMAIN queue' -> Weight] /\ DOMAIN queue' = DOMAIN queue
       /\ \A c \in DOMAIN queue :
            queue'[c].remotes_count = n /\ queue'[c].owned_by = q[c].owned_by
  BY <1>1, <1>2, <1>9, SetCountFacts
<1>11. QueueTypeOK'
  <2>1. remotes' \subseteq Remote /\ index' \subseteq Meta
    BY <1>1 DEF QInv, QueueTypeOK
  <2> QED BY <1>5, <1>10, <2>1 DEF QueueTypeOK
<1>12. ASSUME NEW c \in DOMAIN queue' PROVE Counted(queue[c], owned_by[c])'
  BY <1>3, <1>8, <1>10 DEF Counted
<1> QED BY <1>2, <1>4, <1>5, <1>10, <1>11, <1>12 DEF QInv

LEMMA QueueInvariance == QueueSpec => []QInv
<1>1. QueueInit => QInv
  BY FS_EmptySet DEF QueueInit, QInv, QueueTypeOK
<1>2. QInv /\ [QueueNext]_queueVars => QInv'
  <2> SUFFICES ASSUME QInv, [QueueNext]_queueVars PROVE QInv'
    OBVIOUS
  <2>1. CASE UNCHANGED queueVars
    BY <2>1 DEF queueVars, QInv, QueueTypeOK, Counted, Tracked
  <2> QED BY <2>1, LocalMetaKeeps, LocalChunkKeeps, RemoteChunksKeeps, TrackKeeps, UntrackKeeps
          DEF QueueNext
<1> QED BY <1>1, <1>2, PTL DEF QueueSpec

\* The types of WeightedChunkQueue, and that only queued chunks have owners.
THEOREM ChunkQueueTypes == QueueSpec => []QueueTypeOK
<1>1. QInv => QueueTypeOK
  BY DEF QInv
<1> QED BY QueueInvariance, <1>1, PTL

\* The counts of all weights can be compared, for any number of remotes: an
\* update that reweightChunk skips because the values are equal was of the same
\* counts, or of a weight that setRemotesCount(count) is still to make finite.
THEOREM WeightsComparable == QueueSpec => []CountsConsistent
<1>1. QInv => CountsConsistent
  <2> SUFFICES ASSUME QInv, NEW c \in DOMAIN queue
               PROVE  /\ queue[c].remotes_count \in {0, Cardinality(remotes)}
                      /\ queue[c].remotes_count > 0 =>
                            queue[c].owned_by \in 0 .. queue[c].remotes_count
    BY DEF CountsConsistent, RemotesCountUniform, RarityInRange
  <2>1. queue[c] \in Weight /\ Counted(queue[c], owned_by[c])
    BY DEF QInv, QueueTypeOK
  <2>2. queue[c].owned_by \in Nat /\ queue[c].remotes_count \in Nat
    BY <2>1 DEF Weight
  <2> QED BY <2>1, <2>2 DEF Counted, Tracked
<1> QED BY QueueInvariance, <1>1, PTL
=============================================================================
