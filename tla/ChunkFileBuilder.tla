-------------------------- MODULE ChunkFileBuilder --------------------------
(***************************************************************************)
(* The files behind the chunks being downloaded: ChunkFileBuilder and its  *)
(* pool of open files (daemon/folder/transfer/downloader), with the calls  *)
(* of Downloader::addChunk, removeChunk and putBlock that reach them and   *)
(* the rename of EncStorage::put_chunk that ends them.                     *)
(*                                                                         *)
(* A path of the system directory names a file, and a file lives on while  *)
(* a handle refers to it, as on POSIX systems.  A file is the set of the   *)
(* bytes of the chunk that it holds; a fresh or truncated one holds none.  *)
(***************************************************************************)
EXTENDS Naturals, FiniteSets

CONSTANTS
    Chunk,          \* ct_hashes; each names one incomplete-<hash> path
    Byte,           \* the bytes of a chunk
    File,           \* file identities (inodes)
    NoFile,         \* no file at a path, or no handle in the pool
    MaxAdds         \* bound: how often addChunk is called for one chunk

ASSUME MaxAddsAssumption == MaxAdds \in Nat \ {0}
ASSUME FilesAssumption == NoFile \notin File
ASSUME ByteAssumption == Byte # {}

VARIABLES
    wanted,         \* chunks with a DownloadChunk, so with a builder
    free,           \* file_map_: bytes of each wanted chunk not received
    incomplete,     \* the file at each incomplete-<hash> path
    opened_files,   \* the handle FdPool keeps for each such path
    enc_storage,    \* the file at each chunk-<hash> path of EncStorage
    content,        \* the bytes each file holds
    announced,      \* chunks for which ChunkStorage emitted chunkAdded
    adds            \* how often each chunk was added

vars == <<wanted, free, incomplete, opened_files, enc_storage, content,
          announced, adds>>

InUse(f) == \E c \in Chunk : f \in {incomplete[c], opened_files[c], enc_storage[c]}

\* Opening a path for writing gives the file it names, or creates one.
IsOpened(c, f) ==
    IF incomplete[c] # NoFile THEN f = incomplete[c] ELSE f \in File /\ ~InUse(f)

Init == /\ wanted = {}
        /\ free = [c \in Chunk |-> {}]
        /\ incomplete = [c \in Chunk |-> NoFile]
        /\ opened_files = [c \in Chunk |-> NoFile]
        /\ enc_storage = [c \in Chunk |-> NoFile]
        /\ content = [f \in File |-> {}]
        /\ announced = {}
        /\ adds = [c \in Chunk |-> 0]

\* Downloader::addChunk for a chunk ChunkStorage lacks: the new builder's
\* constructor creates or truncates the file.  down_chunks_.insert then
\* destroys the builder it replaces, if any, and ~ChunkFileBuilder removes
\* the same path.
AddChunk(c) ==
    /\ adds[c] < MaxAdds
    /\ enc_storage[c] = NoFile
    /\ \E f \in File :
        /\ IsOpened(c, f)
        /\ content' = [content EXCEPT ![f] = {}]
        /\ incomplete' = [incomplete EXCEPT ![c] = IF c \in wanted THEN NoFile ELSE f]
    /\ wanted' = wanted \cup {c}
    /\ free' = [free EXCEPT ![c] = Byte]
    /\ adds' = [adds EXCEPT ![c] = @ + 1]
    /\ UNCHANGED <<opened_files, enc_storage, announced>>

\* Faulty: the destructor leaves the file.
MutRemoveChunk(c) ==
    /\ c \in wanted
    /\ wanted' = wanted \ {c}
    /\ free' = [free EXCEPT ![c] = {}]
    /\ UNCHANGED <<incomplete, opened_files, enc_storage, content, announced, adds>>

\* Downloader::removeChunk for a chunk that was obtained in another way:
\* ~ChunkFileBuilder removes the file.  The pool keeps its handle.
RemoveChunk(c) ==
    /\ c \in wanted
    /\ wanted' = wanted \ {c}
    /\ free' = [free EXCEPT ![c] = {}]
    /\ incomplete' = [incomplete EXCEPT ![c] = NoFile]
    /\ UNCHANGED <<opened_files, enc_storage, content, announced, adds>>

\* getFile: the handle in the pool, or a newly opened one.
IsHandle(c, f) ==
    IF opened_files[c] # NoFile THEN f = opened_files[c] ELSE IsOpened(c, f)

\* Faulty: a file is truncated when it is opened again.
MutWritten(c, f, B) == (IF opened_files[c] = NoFile THEN {} ELSE content[f]) \cup B

\* What a file holds once the block B is written to it.
Written(c, f, B) ==
    (IF opened_files[c] = NoFile /\ incomplete[c] = NoFile THEN {} ELSE content[f]) \cup B

\* Faulty: a complete chunk is not released.
MutPutBlock(c, B) ==
    /\ c \in wanted
    /\ B # {} /\ B \subseteq free[c]
    /\ free' = [free EXCEPT ![c] = @ \ B]
    /\ \E f \in File :
        /\ IsHandle(c, f)
        /\ content' = [content EXCEPT ![f] = Written(c, f, B)]
        /\ opened_files' = [opened_files EXCEPT ![c] = f]
        /\ incomplete' = [incomplete EXCEPT ![c] =
                            IF opened_files[c] = NoFile THEN f ELSE @]
    /\ UNCHANGED <<wanted, enc_storage, announced, adds>>

\* putBlock of a block that leaves bytes missing.
PutBlock(c, B) ==
    /\ c \in wanted
    /\ B # {} /\ B \subseteq free[c] /\ B # free[c]
    /\ free' = [free EXCEPT ![c] = @ \ B]
    /\ \E f \in File :
        /\ IsHandle(c, f)
        /\ content' = [content EXCEPT ![f] = Written(c, f, B)]
        /\ opened_files' = [opened_files EXCEPT ![c] = f]
        /\ incomplete' = [incomplete EXCEPT ![c] =
                            IF opened_files[c] = NoFile THEN f ELSE @]
    /\ UNCHANGED <<wanted, enc_storage, announced, adds>>

\* putBlock of the last block: release_chunk takes the handle out of the
\* pool, EncStorage::put_chunk renames its path to chunk-<hash> (which fails
\* unnoticed when there is no such path), chunkAdded is emitted and the
\* chunk is no longer wanted.
PutLastBlock(c) ==
    /\ c \in wanted
    /\ \E f \in File :
        /\ IsHandle(c, f)
        /\ content' = [content EXCEPT ![f] = Written(c, f, free[c])]
        /\ enc_storage' = [enc_storage EXCEPT ![c] =
                            IF opened_files[c] = NoFile THEN f ELSE incomplete[c]]
    /\ opened_files' = [opened_files EXCEPT ![c] = NoFile]
    /\ incomplete' = [incomplete EXCEPT ![c] = NoFile]
    /\ announced' = announced \cup {c}
    /\ wanted' = wanted \ {c}
    /\ free' = [free EXCEPT ![c] = {}]
    /\ UNCHANGED adds

\* The QCache of the pool is full: the handle of another path is closed.
EvictHandle(c) ==
    /\ opened_files[c] # NoFile
    /\ opened_files' = [opened_files EXCEPT ![c] = NoFile]
    /\ UNCHANGED <<wanted, free, incomplete, enc_storage, content, announced, adds>>

Next == \E c \in Chunk :
            \/ AddChunk(c)
            \/ RemoveChunk(c)
            \/ \E B \in SUBSET Byte : PutBlock(c, B)
            \/ PutLastBlock(c)
            \/ EvictHandle(c)

Spec == Init /\ [][Next]_vars
-----------------------------------------------------------------------------
\* Every variable keeps its type, and a chunk is wanted exactly while its
\* file_map_ has free bytes: a complete builder is released at once.
TypeOK ==
    /\ wanted = {c \in Chunk : free[c] # {}}
    /\ free \in [Chunk -> SUBSET Byte]
    /\ incomplete \in [Chunk -> File \cup {NoFile}]
    /\ opened_files \in [Chunk -> File \cup {NoFile}]
    /\ enc_storage \in [Chunk -> File \cup {NoFile}]
    /\ content \in [File -> SUBSET Byte]
    /\ announced \subseteq Chunk
    /\ adds \in [Chunk -> 0 .. MaxAdds]

\* EncStorage has the chunk with all of its bytes: "If complete(), then an encrypted
\* chunk is located in" the file.
ChunkStored(c) == enc_storage[c] # NoFile /\ content[enc_storage[c]] = Byte

\* A chunk that was announced as complete is stored.
CompleteChunkStored == \A c \in announced : ChunkStored(c)

\* A chunk that is added once is stored when it is announced, in whichever order its
\* blocks come and handles are evicted, and although other chunks are added
\* again and write to files that have no path any more.
AddedOnceStored == \A c \in announced : adds[c] = 1 => ChunkStored(c)

\* An incomplete-<hash> file exists only while its chunk is wanted: nothing
\* is left behind in the system directory.
NoLeftoverFile == \A c \in Chunk : incomplete[c] # NoFile => c \in wanted
=============================================================================
