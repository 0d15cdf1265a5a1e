----------------------- MODULE ChunkFileBuilderProofs -----------------------
(***************************************************************************)
(* Proofs about ChunkFileBuilder for any chunks, bytes and files, however   *)
(* often chunks are added.  That an announced chunk is stored is proved of  *)
(* each chunk that is added once: a run shows that another may be lost.     *)
(***************************************************************************)
EXTENDS ChunkFileBuilder, TLAPS

\* The files that a chunk has a path or a handle of.
Held(c) == {incomplete[c], opened_files[c], enc_storage[c]} \ {NoFile}

\* A chunk comes without a handle; one that was added once writes to the file at its
\* path, which has what came.
Building(c) ==
    /\ adds[c] = 0 => opened_files[c] = NoFile /\ c \notin wanted /\ c \notin announced
    /\ c \in wanted /\ adds[c] = 1 =>
        /\ incomplete[c] # NoFile
        /\ opened_files[c] \in {NoFile, incomplete[c]}
        /\ Byte \ free[c] \subseteq content[incomplete[c]]

\* An announced chunk that was added once is stored.
Stored(c) == c \in announced /\ adds[c] = 1 => c \notin wanted /\ ChunkStored(c)

\* No file belongs to two chunks.
Apart(c, d) == c # d => Held(c) \cap Held(d) = {}

\* The inductive invariant.
IInv ==
    /\ TypeOK
    /\ NoLeftoverFile
    /\ \A c \in Chunk : Building(c)
    /\ \A c \in Chunk : Stored(c)
    /\ \A c, d \in Chunk : Apart(c, d)
-----------------------------------------------------------------------------
\* What is written to is a file.
LEMMA Handles ==
    ASSUME TypeOK, NEW c \in Chunk, NEW f \in File, IsHandle(c, f) \/ IsOpened(c, f)
    PROVE  \A B \in SUBSET Byte : Written(c, f, B) \in SUBSET Byte
BY DEF TypeOK, Written

LEMMA AddType ==
    ASSUME TypeOK, NEW c \in Chunk, AddChunk(c)
    PROVE  TypeOK'
<1>1. adds' \in [Chunk -> 0 .. MaxAdds]
  BY MaxAddsAssumption DEF AddChunk, TypeOK
<1>2. free' \in [Chunk -> SUBSET Byte] /\ wanted' = {d \in Chunk : free'[d] # {}}
  BY ByteAssumption DEF AddChunk, TypeOK
<1>3. /\ content' \in [File -> SUBSET Byte]
      /\ incomplete' \in [Chunk -> File \cup {NoFile}]
  BY DEF AddChunk, TypeOK
<1> QED BY <1>1, <1>2, <1>3 DEF AddChunk, TypeOK

LEMMA RemoveType ==
    ASSUME TypeOK, NEW c \in Chunk, RemoveChunk(c)
    PROVE  TypeOK'
<1>1. free' \in [Chunk -> SUBSET Byte] /\ wanted' = {d \in Chunk : free'[d] # {}}
  BY DEF RemoveChunk, TypeOK
<1> QED BY <1>1 DEF RemoveChunk, TypeOK

LEMMA PutType ==
    ASSUME TypeOK, NEW c \in Chunk, NEW B \in SUBSET Byte, PutBlock(c, B)
    PROVE  TypeOK'
<1>1. free' \in [Chunk -> SUBSET Byte] /\ wanted' = {d \in Chunk : free'[d] # {}}
  BY DEF PutBlock, TypeOK
<1>2. PICK f \in File :
        /\ IsHandle(c, f)
        /\ content' = [content EXCEPT ![f] = Written(c, f, B)]
        /\ opened_files' = [opened_files EXCEPT ![c] = f]
        /\ incomplete' = [incomplete EXCEPT ![c] = IF opened_files[c] = NoFile THEN f ELSE @]
  BY DEF PutBlock
<1>3. Written(c, f, B) \in SUBSET Byte
  BY <1>2, Handles
<1>4. content' \in [File -> SUBSET Byte]
  BY <1>2, <1>3 DEF TypeOK
<1>5. /\ opened_files' \in [Chunk -> File \cup {NoFile}]
      /\ incomplete' \in [Chunk -> File \cup {NoFile}]
  BY <1>2 DEF TypeOK
<1> QED BY <1>1, <1>4, <1>5 DEF PutBlock, TypeOK

LEMMA PutLastType ==
    ASSUME TypeOK, NEW c \in Chunk, PutLastBlock(c)
    PROVE  TypeOK'
<1>1. free' \in [Chunk -> SUBSET Byte] /\ wanted' = {d \in Chunk : free'[d] # {}}
  BY DEF PutLastBlock, TypeOK
<1>2. PICK f \in File :
        /\ IsHandle(c, f)
        /\ content' = [content EXCEPT ![f] = Written(c, f, free[c])]
        /\ enc_storage' = [enc_storage EXCEPT ![c] =
                            IF opened_files[c] = NoFile THEN f ELSE incomplete[c]]
  BY DEF PutLastBlock
<1>3. Written(c, f, free[c]) \in SUBSET Byte
  BY <1>2, Handles DEF TypeOK
<1>4. content' \in [File -> SUBSET Byte]
  BY <1>2, <1>3 DEF TypeOK
<1>5. enc_storage' \in [Chunk -> File \cup {NoFile}]
  BY <1>2 DEF TypeOK
<1> QED BY <1>1, <1>4, <1>5 DEF PutLastBlock, TypeOK

LEMMA TypeNext == TypeOK /\ NoLeftoverFile /\ [Next]_vars => TypeOK' /\ NoLeftoverFile'
<1> SUFFICES ASSUME TypeOK, NoLeftoverFile, [Next]_vars PROVE TypeOK' /\ NoLeftoverFile'
  OBVIOUS
<1>1. ASSUME NEW c \in Chunk, AddChunk(c) PROVE TypeOK' /\ NoLeftoverFile'
  BY <1>1, AddType DEF AddChunk, TypeOK, NoLeftoverFile
<1>2. ASSUME NEW c \in Chunk, RemoveChunk(c) PROVE TypeOK' /\ NoLeftoverFile'
  BY <1>2, RemoveType DEF RemoveChunk, TypeOK, NoLeftoverFile
<1>3. ASSUME NEW c \in Chunk, NEW B \in SUBSET Byte, PutBlock(c, B)
      PROVE  TypeOK' /\ NoLeftoverFile'
  BY <1>3, PutType DEF PutBlock, TypeOK, NoLeftoverFile
<1>4. ASSUME NEW c \in Chunk, PutLastBlock(c) PROVE TypeOK' /\ NoLeftoverFile'
  BY <1>4, PutLastType DEF PutLastBlock, TypeOK, NoLeftoverFile
<1>5. ASSUME NEW c \in Chunk, EvictHandle(c) PROVE TypeOK' /\ NoLeftoverFile'
  BY <1>5 DEF EvictHandle, TypeOK, NoLeftoverFile
<1>6. CASE UNCHANGED vars
  BY <1>6 DEF vars, TypeOK, NoLeftoverFile
<1> QED BY <1>1, <1>2, <1>3, <1>4, <1>5, <1>6 DEF Next

LEMMA TypeInit == Init => TypeOK /\ NoLeftoverFile
BY MaxAddsAssumption DEF Init, TypeOK, NoLeftoverFile

\* Every variable keeps its type, and a builder is there exactly while bytes of
\* its chunk are missing, however often chunks are added.
THEOREM BuilderTypes == Spec => []TypeOK
BY TypeInit, TypeNext, PTL DEF Spec

\* However often chunks are added and removed and handles evicted, ~ChunkFileBuilder
\* and put_chunk leave no incomplete-<hash> file of a chunk that is not wanted.
THEOREM NothingLeftBehind == Spec => []NoLeftoverFile
BY TypeInit, TypeNext, PTL DEF Spec
-----------------------------------------------------------------------------
\* What is opened for a chunk, or is its handle, is a file of no other chunk.
LEMMA OwnFile ==
    ASSUME IInv, NEW c \in Chunk, NEW f \in File, IsHandle(c, f) \/ IsOpened(c, f)
    PROVE  f # NoFile /\ \A d \in Chunk : d # c => f \notin Held(d)
<1>1. f # NoFile
  BY FilesAssumption
<1>2. f \in Held(c) \/ ~InUse(f)
  BY <1>1 DEF IsHandle, IsOpened, Held
<1>3. ~InUse(f) => \A d \in Chunk : f \notin Held(d)
  BY DEF InUse, Held
<1> QED BY <1>1, <1>2, <1>3 DEF IInv, Apart

\* A step writes one file f for chunk c, and gives c no other file.
LEMMA StaysApart ==
    ASSUME IInv, NEW c \in Chunk, NEW f, \A d \in Chunk : d # c => f \notin Held(d),
           Held(c)' \subseteq Held(c) \cup {f},
           \A d \in Chunk : d # c => Held(d)' = Held(d)
    PROVE  \A d, e \in Chunk : Apart(d, e)'
<1>1. \A d, e \in Chunk : d # e => Held(d) \cap Held(e) = {}
  BY DEF IInv, Apart
<1>2. ASSUME NEW d \in Chunk, NEW e \in Chunk, d # e PROVE Held(d)' \cap Held(e)' = {}
  BY <1>1, <1>2
<1> QED BY <1>2 DEF Apart

\* Nothing changes for another chunk d.
LEMMA OthersKept ==
    ASSUME IInv, NEW f, NEW d \in Chunk, f \notin Held(d),
           \A g \in File : g # f => content'[g] = content[g],
           d \in wanted' <=> d \in wanted, d \in announced' <=> d \in announced,
           adds'[d] = adds[d], free'[d] = free[d], incomplete'[d] = incomplete[d],
           opened_files'[d] = opened_files[d], enc_storage'[d] = enc_storage[d]
    PROVE  Building(d)' /\ Stored(d)' /\ Held(d)' = Held(d)
<1>1. /\ incomplete[d] # NoFile => incomplete[d] \in File /\ incomplete[d] # f
      /\ enc_storage[d] # NoFile => enc_storage[d] \in File /\ enc_storage[d] # f
  BY DEF IInv, TypeOK, Held
<1>2. Building(d) /\ Stored(d)
  BY DEF IInv
<1>3. Building(d)'
  BY <1>1, <1>2 DEF Building
<1>4. Stored(d)'
  BY <1>1, <1>2 DEF Stored, ChunkStored
<1> QED BY <1>3, <1>4 DEF Held

LEMMA AddStored ==
    ASSUME IInv, NEW c \in Chunk, AddChunk(c)
    PROVE  \A d, e \in Chunk : Building(d)' /\ Stored(d)' /\ Apart(d, e)'
<1>1. PICK f \in File :
        /\ IsOpened(c, f)
        /\ content' = [content EXCEPT ![f] = {}]
        /\ incomplete' = [incomplete EXCEPT ![c] = IF c \in wanted THEN NoFile ELSE f]
  BY DEF AddChunk
<1>2. f # NoFile /\ \A d \in Chunk : d # c => f \notin Held(d)
  BY <1>1, OwnFile
<1>3. ASSUME NEW d \in Chunk, d # c PROVE Building(d)' /\ Stored(d)' /\ Held(d)' = Held(d)
  <2>1. /\ \A g \in File : g # f => content'[g] = content[g]
        /\ d \in wanted' <=> d \in wanted
        /\ announced' = announced /\ adds'[d] = adds[d] /\ free'[d] = free[d]
        /\ incomplete'[d] = incomplete[d] /\ opened_files' = opened_files
        /\ enc_storage' = enc_storage
    BY <1>1, <1>3 DEF AddChunk, IInv, TypeOK
  <2> QED BY <1>2, <1>3, <2>1, OthersKept
<1>4. Held(c)' \subseteq Held(c) \cup {f}
  BY <1>1 DEF Held, AddChunk, IInv, TypeOK
<1>5. /\ adds'[c] = adds[c] + 1 /\ adds[c] \in Nat /\ free'[c] = Byte
      /\ incomplete'[c] = IF c \in wanted THEN NoFile ELSE f
      /\ opened_files' = opened_files /\ announced' = announced
  BY <1>1 DEF AddChunk, IInv, TypeOK
<1>6. adds[c] = 0 => opened_files[c] = NoFile /\ c \notin wanted /\ c \notin announced
  BY DEF IInv, Building
<1>7. Building(c)' /\ Stored(c)'
  BY <1>2, <1>5, <1>6 DEF Building, Stored
<1> QED BY <1>2, <1>3, <1>4, <1>7, StaysApart

LEMMA RemoveStored ==
    ASSUME IInv, NEW c \in Chunk, RemoveChunk(c)
    PROVE  \A d, e \in Chunk : Building(d)' /\ Stored(d)' /\ Apart(d, e)'
<1>1. \A d \in Chunk : Held(d)' \subseteq Held(d)
  BY DEF Held, RemoveChunk, IInv, TypeOK
<1>2. \A d, e \in Chunk : Apart(d, e)'
  BY <1>1 DEF IInv, Apart
<1>3. \A d \in Chunk : Building(d)' /\ Stored(d)'
  BY DEF Building, Stored, ChunkStored, RemoveChunk, IInv, TypeOK
<1> QED BY <1>2, <1>3

LEMMA EvictStored ==
    ASSUME IInv, NEW c \in Chunk, EvictHandle(c)
    PROVE  \A d, e \in Chunk : Building(d)' /\ Stored(d)' /\ Apart(d, e)'
<1>1. \A d \in Chunk : Held(d)' \subseteq Held(d)
  BY DEF Held, EvictHandle, IInv, TypeOK
<1>2. \A d, e \in Chunk : Apart(d, e)'
  BY <1>1 DEF IInv, Apart
<1>3. \A d \in Chunk : Building(d)' /\ Stored(d)'
  BY DEF Building, Stored, ChunkStored, EvictHandle, IInv, TypeOK
<1> QED BY <1>2, <1>3

\* The handle of a chunk that was added once is that of the file at its path, and what is
\* written adds to it.
LEMMA WritesInPlace ==
    ASSUME IInv, NEW c \in Chunk, c \in wanted, adds[c] = 1, NEW f \in File, IsHandle(c, f),
           NEW B \in SUBSET Byte
    PROVE  f = incomplete[c] /\ Written(c, f, B) = content[f] \cup B
<1>1. incomplete[c] # NoFile /\ opened_files[c] \in {NoFile, incomplete[c]}
  BY DEF IInv, Building
<1> QED BY <1>1 DEF IsHandle, IsOpened, Written

LEMMA PutStored ==
    ASSUME IInv, NEW c \in Chunk, NEW B \in SUBSET Byte, PutBlock(c, B)
    PROVE  \A d, e \in Chunk : Building(d)' /\ Stored(d)' /\ Apart(d, e)'
<1>1. PICK f \in File :
        /\ IsHandle(c, f)
        /\ content' = [content EXCEPT ![f] = Written(c, f, B)]
        /\ opened_files' = [opened_files EXCEPT ![c] = f]
        /\ incomplete' = [incomplete EXCEPT ![c] = IF opened_files[c] = NoFile THEN f ELSE @]
  BY DEF PutBlock
<1>2. f # NoFile /\ \A d \in Chunk : d # c => f \notin Held(d)
  BY <1>1, OwnFile
<1>3. ASSUME NEW d \in Chunk, d # c PROVE Building(d)' /\ Stored(d)' /\ Held(d)' = Held(d)
  <2>1. /\ \A g \in File : g # f => content'[g] = content[g]
        /\ wanted' = wanted
        /\ announced' = announced /\ adds' = adds /\ free'[d] = free[d]
        /\ incomplete'[d] = incomplete[d] /\ opened_files'[d] = opened_files[d]
        /\ enc_storage' = enc_storage
    BY <1>1, <1>3 DEF PutBlock, IInv, TypeOK
  <2> QED BY <1>2, <1>3, <2>1, OthersKept
<1>4. Held(c)' \subseteq Held(c) \cup {f}
  BY <1>1 DEF Held, PutBlock, IInv, TypeOK
<1>5. /\ content'[f] = Written(c, f, B) /\ free'[c] = free[c] \ B
      /\ wanted' = wanted /\ announced' = announced /\ adds' = adds /\ c \in wanted
      /\ opened_files'[c] = f
      /\ incomplete'[c] = IF opened_files[c] = NoFile THEN f ELSE incomplete[c]
  BY <1>1 DEF PutBlock, IInv, TypeOK
<1>6. adds[c] = 1 => /\ f = incomplete[c] /\ Written(c, f, B) = content[f] \cup B
                     /\ Byte \ free[c] \subseteq content[f]
  BY <1>1, <1>5, WritesInPlace DEF IInv, Building
<1>7. Building(c) /\ Stored(c)
  BY DEF IInv
<1>8. Building(c)' /\ Stored(c)'
  BY <1>2, <1>5, <1>6, <1>7 DEF Building, Stored
<1> QED BY <1>2, <1>3, <1>4, <1>8, StaysApart

LEMMA PutLastStored ==
    ASSUME IInv, NEW c \in Chunk, PutLastBlock(c)
    PROVE  \A d, e \in Chunk : Building(d)' /\ Stored(d)' /\ Apart(d, e)'
<1>1. PICK f \in File :
        /\ IsHandle(c, f)
        /\ content' = [content EXCEPT ![f] = Written(c, f, free[c])]
        /\ enc_storage' = [enc_storage EXCEPT ![c] =
                            IF opened_files[c] = NoFile THEN f ELSE incomplete[c]]
  BY DEF PutLastBlock
<1>2. f # NoFile /\ \A d \in Chunk : d # c => f \notin Held(d)
  BY <1>1, OwnFile
<1>3. ASSUME NEW d \in Chunk, d # c PROVE Building(d)' /\ Stored(d)' /\ Held(d)' = Held(d)
  <2>1. /\ \A g \in File : g # f => content'[g] = content[g]
        /\ d \in wanted' <=> d \in wanted
        /\ d \in announced' <=> d \in announced
        /\ adds' = adds /\ free'[d] = free[d]
        /\ incomplete'[d] = incomplete[d] /\ opened_files'[d] = opened_files[d]
        /\ enc_storage'[d] = enc_storage[d]
    BY <1>1, <1>3 DEF PutLastBlock, IInv, TypeOK
  <2> QED BY <1>2, <1>3, <2>1, OthersKept
<1>4. /\ enc_storage'[c] = IF opened_files[c] = NoFile THEN f ELSE incomplete[c]
      /\ incomplete'[c] = NoFile /\ opened_files'[c] = NoFile
      /\ content'[f] = Written(c, f, free[c]) /\ c \in wanted /\ c \notin wanted'
      /\ adds' = adds /\ free[c] \in SUBSET Byte
  BY <1>1 DEF PutLastBlock, IInv, TypeOK
<1>5. Held(c)' \subseteq Held(c) \cup {f}
  BY <1>4 DEF Held
<1>6. Building(c)
  BY DEF IInv
<1>7. Building(c)'
  BY <1>4, <1>6 DEF Building
<1>8. Stored(c)'
  <2> SUFFICES ASSUME adds[c] = 1 PROVE ChunkStored(c)'
    BY <1>4 DEF Stored
  <2>1. f = incomplete[c] /\ Written(c, f, free[c]) = content[f] \cup free[c]
    BY <1>1, <1>4, WritesInPlace
  <2>2. content[f] \subseteq Byte /\ Byte \ free[c] \subseteq content[f]
    BY <1>4, <1>6, <2>1 DEF Building, IInv, TypeOK
  <2> QED BY <1>2, <1>4, <2>1, <2>2 DEF ChunkStored
<1> QED BY <1>2, <1>3, <1>5, <1>7, <1>8, StaysApart

LEMMA NextInv == IInv /\ [Next]_vars => IInv'
<1> SUFFICES ASSUME IInv, [Next]_vars PROVE IInv'
  OBVIOUS
<1>1. TypeOK' /\ NoLeftoverFile'
  BY TypeNext DEF IInv
<1>2. \A d, e \in Chunk : Building(d)' /\ Stored(d)' /\ Apart(d, e)'
  <2>1. CASE UNCHANGED vars
    BY <2>1 DEF vars, IInv, Building, Stored, ChunkStored, Apart, Held
  <2>2. CASE Next
    BY <2>2, AddStored, RemoveStored, PutStored, PutLastStored, EvictStored DEF Next
  <2> QED BY <2>1, <2>2
<1> QED BY <1>1, <1>2 DEF IInv

LEMMA InitInv == Init => IInv
BY TypeInit DEF Init, IInv, Building, Stored, Apart, Held

\* release_chunk and EncStorage::put_chunk store the whole chunk before it is announced, if it
\* was added once, for any order of blocks, evictions, removals and whatever is
\* done with other chunks.
THEOREM AddedOnceIsStored == Spec => []AddedOnceStored
<1>1. IInv => AddedOnceStored
  BY DEF IInv, Stored, AddedOnceStored, TypeOK
<1> QED BY InitInv, NextInv, <1>1, PTL DEF Spec
=============================================================================
