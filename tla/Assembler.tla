----------------------------- MODULE Assembler -----------------------------
(***************************************************************************)
(* How received Metas and chunks become files: Index (daemon/folder/meta), *)
(* ChunkStorage with its memory, encrypted and open storages, and the      *)
(* AssemblerWorkers of AssemblerQueue's thread pool (daemon/folder/chunk). *)
(*                                                                         *)
(* The main thread handles one event at a time; workers run concurrently   *)
(* with it and with each other, and the process may stop at any moment:    *)
(* the database and the files survive it.  Chunks are of one size, so an   *)
(* offset is an index in the list of chunks.  Files change through the     *)
(* assembler only.                                                         *)
(***************************************************************************)
EXTENDS Naturals, Sequences, SequencesExt

CONSTANTS
    Path,           \* path_ids
    Chunk,          \* ct_hashes
    Content,        \* chunk lists of the revisions of each path; a Meta
                    \* with none is of type DELETED
    Thread,         \* threads of threadpool_
    MaxFailures     \* bound: how often a file operation fails or the process stops

ASSUME ContentAssumption == Content \in [Path -> Seq(Seq(Chunk))]
ASSUME MaxFailuresAssumption == MaxFailures \in Nat

VARIABLES
    revision,       \* table meta: revision of each path, 0 if it has no row
    assembled,      \* table meta: its column of that name
    openfs,         \* paths whose rows of table openfs have assembled = 1
    enc_storage,    \* chunks in EncStorage
    mem_storage,    \* chunks in MemoryCachedStorage
    file,           \* the revision whose content is at each path, 0 if none
    threadpool,     \* <<path, revision>> of the AssemblerWorkers to be run
    worker,         \* what each thread is doing
    down_chunks,    \* chunks the Downloader is after
    failures        \* how many such failures there were

indexVars == <<revision, assembled, openfs>>
storageVars == <<enc_storage, mem_storage>>
vars == <<indexVars, storageVars, file, threadpool, worker, down_chunks, failures>>

Idle == [pc |-> "idle"]

\* Index::containingChunk and the rows of openfs: the chunks of the Meta
\* that is stored for a path.
Chunks(p) == IF revision[p] = 0 THEN {} ELSE ToSet(Content[p][revision[p]])

IsDeleted(p, r) == Content[p][r] = <<>>

\* Index::isAssembledChunk, which is OpenStorage::have_chunk.
isAssembledChunk(c) == \E p \in openfs : c \in Chunks(p)

have_chunk(c) == c \in mem_storage \/ c \in enc_storage \/ isAssembledChunk(c)

\* Faulty: the chunk itself is counted in its offset.
MutReadableInFile(c) ==
    \E p \in Path :
        /\ c \in Chunks(p)
        /\ file[p] # 0
        /\ LET i == SelectInSeq(Content[p][revision[p]], LAMBDA d : d = c) + 1
               f == Content[p][file[p]]
           IN  i <= Len(f) /\ f[i] = c

\* OpenStorage::get_chunk finds the chunk: at its place in the file of some
\* Meta that contains it, whether that is marked as assembled or not.
ReadableInFile(c) ==
    \E p \in Path :
        /\ c \in Chunks(p)
        /\ file[p] # 0
        /\ LET i == SelectInSeq(Content[p][revision[p]], LAMBDA d : d = c)
               f == Content[p][file[p]]
           IN  i <= Len(f) /\ f[i] = c

\* ChunkStorage::get_chunk finds it.
Obtainable(c) == c \in mem_storage \/ c \in enc_storage \/ ReadableInFile(c)

Init == /\ revision = [p \in Path |-> 0]
        /\ assembled = [p \in Path |-> FALSE]
        /\ openfs = {}
        /\ enc_storage = {}
        /\ mem_storage = {}
        /\ file = [p \in Path |-> 0]
        /\ threadpool = {}
        /\ worker = [t \in Thread |-> Idle]
        /\ down_chunks = {}
        /\ failures = 0
-----------------------------------------------------------------------------
\* MetaDownloader::handle_meta_reply of an allowed revision: Index::putMeta
\* replaces the rows of the path; metaAdded tells the Downloader which chunks
\* are missing, metaAddedExternal starts an AssemblerWorker.
PutMeta(p, r) ==
    /\ revision[p] < r
    /\ revision' = [revision EXCEPT ![p] = r]
    /\ assembled' = [assembled EXCEPT ![p] = FALSE]
    /\ openfs' = openfs \ {p}
    /\ UNCHANGED <<storageVars, file, worker, failures>>
    /\ LET chunks == ToSet(Content[p][r])
           have == {c \in chunks : have_chunk(c)'}
       IN  down_chunks' = (down_chunks \ have) \cup (chunks \ have)
    /\ threadpool' = threadpool \cup {<<p, r>>}

\* Faulty: every path is tried, also one the index has no Meta of.
MutPutChunk(c) ==
    /\ c \in down_chunks
    /\ enc_storage' = enc_storage \cup {c}
    /\ threadpool' = threadpool \cup {<<p, revision[p]>> : p \in Path}
    /\ down_chunks' = down_chunks \ {c}
    /\ UNCHANGED <<indexVars, mem_storage, file, worker, failures>>

\* ChunkStorage::put_chunk of a downloaded chunk: every Meta that contains it
\* is tried, and chunkAdded takes it off the Downloader's list.
PutChunk(c) ==
    /\ c \in down_chunks
    /\ enc_storage' = enc_storage \cup {c}
    /\ threadpool' = threadpool \cup
            {<<p, revision[p]>> : p \in {q \in Path : c \in Chunks(q)}}
    /\ down_chunks' = down_chunks \ {c}
    /\ UNCHANGED <<indexVars, mem_storage, file, worker, failures>>

\* Index::getIncompleteMeta.
getIncompleteMeta ==
    {p \in Path : revision[p] # 0 /\ ~assembled[p] /\ ~IsDeleted(p, revision[p])}

\* Faulty: the timer has nothing assembled.
MutPeriodicAssemble == UNCHANGED vars

\* AssemblerQueue::periodic_assemble_operation.
PeriodicAssemble ==
    /\ threadpool' = threadpool \cup {<<p, revision[p]>> : p \in getIncompleteMeta}
    /\ UNCHANGED <<indexVars, storageVars, file, worker, down_chunks, failures>>

\* The cache of MemoryCachedStorage drops a chunk.
Evict(c) ==
    /\ c \in mem_storage
    /\ mem_storage' = mem_storage \ {c}
    /\ UNCHANGED <<indexVars, enc_storage, file, threadpool, worker, down_chunks, failures>>
-----------------------------------------------------------------------------
\* Thread t goes on to pc.
Goto(t, pc) == worker' = [worker EXCEPT ![t].pc = pc]

At(t, pc) == worker[t].pc = pc

\* A thread takes a worker from the queue: AssemblerWorker::run.
StartWorker(t, w) ==
    /\ At(t, "idle")
    /\ w \in threadpool
    /\ threadpool' = threadpool \ {w}
    /\ worker' = [worker EXCEPT ![t] =
                    [path |-> w[1], rev |-> w[2], got |-> {},
                     pc |-> IF IsDeleted(w[1], w[2]) THEN "archive" ELSE "check"]]
    /\ UNCHANGED <<indexVars, storageVars, file, down_chunks, failures>>

WorkerChunks(t) == ToSet(Content[worker[t].path][worker[t].rev])

\* assemble_file: "Check if we have all needed chunks", and retreat if not.
CheckChunks(t) ==
    /\ At(t, "check")
    /\ IF \A c \in WorkerChunks(t) : have_chunk(c)
       THEN Goto(t, "fetch")
       ELSE worker' = [worker EXCEPT ![t] = Idle]
    /\ UNCHANGED <<indexVars, storageVars, file, threadpool, down_chunks, failures>>

\* get_chunk_pt of a chunk not yet written to the temporary file: it goes
\* through the cache, or throws no_such_chunk.
FetchChunk(t, c) ==
    /\ At(t, "fetch")
    /\ c \in WorkerChunks(t) \ worker[t].got
    /\ \/ /\ Obtainable(c)
          /\ mem_storage' = mem_storage \cup {c}
          /\ worker' = [worker EXCEPT ![t].got = @ \cup {c}]
       \/ /\ ~Obtainable(c)
          /\ worker' = [worker EXCEPT ![t] = Idle]
          /\ UNCHANGED mem_storage
    /\ UNCHANGED <<indexVars, enc_storage, file, threadpool, down_chunks, failures>>

\* assembly_f.commit(): the temporary file is complete.
Commit(t) ==
    /\ At(t, "fetch")
    /\ WorkerChunks(t) \subseteq worker[t].got
    /\ Goto(t, "archive")
    /\ UNCHANGED <<indexVars, storageVars, file, threadpool, down_chunks, failures>>

\* abort_assembly: a file cannot be opened, written or moved.
Abort(t) ==
    /\ failures < MaxFailures
    /\ failures' = failures + 1
    /\ \/ At(t, "fetch")
       \/ At(t, "rename")
    /\ worker' = [worker EXCEPT ![t] = Idle]
    /\ UNCHANGED <<indexVars, storageVars, file, threadpool, down_chunks>>

\* Faulty: the new file is not moved into the place of the old one.
MutArchiveFile(t) ==
    /\ At(t, "archive")
    /\ file' = [file EXCEPT ![worker[t].path] = 0]
    /\ Goto(t, "mark")
    /\ UNCHANGED <<indexVars, storageVars, threadpool, down_chunks, failures>>

\* Archive::archive: the old file leaves its path.  For a DELETED Meta that
\* is all (assemble_deleted).
ArchiveFile(t) ==
    /\ At(t, "archive")
    /\ file' = [file EXCEPT ![worker[t].path] = 0]
    /\ Goto(t, IF IsDeleted(worker[t].path, worker[t].rev) THEN "mark" ELSE "rename")
    /\ UNCHANGED <<indexVars, storageVars, threadpool, down_chunks, failures>>

\* QFile::rename to the final location.
RenameFile(t) ==
    /\ At(t, "rename")
    /\ file[worker[t].path] = 0
    /\ file' = [file EXCEPT ![worker[t].path] = worker[t].rev]
    /\ Goto(t, "mark")
    /\ UNCHANGED <<indexVars, storageVars, threadpool, down_chunks, failures>>

\* It fails if another worker has put a file there since: abort_assembly.
RenameFails(t) ==
    /\ At(t, "rename")
    /\ file[worker[t].path] # 0
    /\ worker' = [worker EXCEPT ![t] = Idle]
    /\ UNCHANGED <<indexVars, storageVars, file, threadpool, down_chunks, failures>>

\* markAssembled, Index::setAssembled: its first UPDATE, of table meta, by
\* path_id.
MarkMeta(t) ==
    /\ At(t, "mark")
    /\ assembled' = [assembled EXCEPT ![worker[t].path] = TRUE]
    /\ Goto(t, "mark_openfs")
    /\ UNCHANGED <<revision, openfs, storageVars, file, threadpool, down_chunks, failures>>

\* Its second UPDATE, of table openfs.
MarkOpenfs(t) ==
    /\ At(t, "mark_openfs")
    /\ openfs' = openfs \cup {worker[t].path}
    /\ Goto(t, "cleanup")
    /\ UNCHANGED <<revision, assembled, storageVars, file, threadpool, down_chunks, failures>>

\* Faulty: chunks leave the encrypted storage before openfs is marked.
MutCleanup(t) ==
    /\ At(t, "mark_openfs")
    /\ enc_storage' = enc_storage \ WorkerChunks(t)
    /\ worker' = [worker EXCEPT ![t] = Idle]
    /\ UNCHANGED <<indexVars, mem_storage, file, threadpool, down_chunks, failures>>

\* ChunkStorage::cleanup: chunks that are in the open storage by now leave the
\* encrypted one.
Cleanup(t) ==
    /\ At(t, "cleanup")
    /\ enc_storage' = enc_storage \ {c \in WorkerChunks(t) : isAssembledChunk(c)}
    /\ worker' = [worker EXCEPT ![t] = Idle]
    /\ UNCHANGED <<indexVars, mem_storage, file, threadpool, down_chunks, failures>>

\* The process stops and starts anew: FolderGroup's constructor goes through
\* the index and tells the Downloader what is missing.
Restart ==
    /\ failures < MaxFailures
    /\ failures' = failures + 1
    /\ threadpool' = {}
    /\ worker' = [t \in Thread |-> Idle]
    /\ mem_storage' = {}
    /\ UNCHANGED <<indexVars, enc_storage, file>>
    /\ down_chunks' = {c \in UNION {Chunks(p) : p \in Path} : ~have_chunk(c)'}

\* One step of a worker that runs on thread t.
WorkerStep(t) ==
    \/ CheckChunks(t)
    \/ \E c \in Chunk : FetchChunk(t, c)
    \/ Commit(t)
    \/ ArchiveFile(t)
    \/ RenameFile(t)
    \/ RenameFails(t)
    \/ MarkMeta(t)
    \/ MarkOpenfs(t)
    \/ Cleanup(t)

Next ==
    \/ \E p \in Path : \E r \in 1 .. Len(Content[p]) : PutMeta(p, r)
    \/ \E c \in Chunk : PutChunk(c) \/ Evict(c)
    \/ PeriodicAssemble
    \/ \E t \in Thread :
        \/ \E w \in threadpool : StartWorker(t, w)
        \/ WorkerStep(t)
        \/ Abort(t)
    \/ Restart

Spec == Init /\ [][Next]_vars
-----------------------------------------------------------------------------
WorkerState ==
    [path : Path, rev : Nat \ {0}, got : SUBSET Chunk,
     pc : {"check", "fetch", "archive", "rename", "mark", "mark_openfs", "cleanup"}]

\* Every variable keeps its type.
TypeOK ==
    /\ revision \in [Path -> Nat]
    /\ assembled \in [Path -> BOOLEAN]
    /\ openfs \subseteq Path
    /\ enc_storage \subseteq Chunk
    /\ mem_storage \subseteq Chunk
    /\ file \in [Path -> Nat]
    /\ threadpool \subseteq Path \X (Nat \ {0})
    /\ worker \in [Thread -> WorkerState \cup {Idle}]
    /\ down_chunks \subseteq Chunk
    /\ failures \in 0 .. MaxFailures

OnDisk(p, r) == file[p] = IF IsDeleted(p, r) THEN 0 ELSE r

\* The Meta of p is received once.  A newer revision takes the rows of the
\* older one away, and with them what the index knows of its chunks.
Once(p) == Len(Content[p]) <= 1

\* The chunk is part of such files only.
OwnedOnce(c) ==
    \A p \in Path : \A r \in 1 .. Len(Content[p]) : c \in ToSet(Content[p][r]) => Once(p)

\* A Meta that the index marks as assembled is what is on the disk.
\* DirectoryPoller relies on it: it indexes the files of assembled Metas
\* again, and takes a missing one as deleted by the user.
AssembledIsOnDisk ==
    \A p \in Path : revision[p] # 0 /\ assembled[p] => OnDisk(p, revision[p])

\* No chunk of an indexed Meta is forgotten: a storage says it has it, or the
\* Downloader is after it, also when assembling is cut short or repeated,
\* whatever leaves the cache and whichever other files are replaced.
ChunksAccounted ==
    \A p \in Path : \A c \in Chunks(p) :
        OwnedOnce(c) => have_chunk(c) \/ c \in down_chunks

\* Two workers may assemble one Meta at a time, or assemble it anew; when they
\* are done, and nothing was cut short by a failure, its file is there all the
\* same.
AssembledStaysOnDisk ==
    failures = 0 => \A p \in Path :
        /\ Once(p) /\ revision[p] # 0 /\ assembled[p]
        /\ \A t \in Thread : At(t, "idle") \/ worker[t].path # p
        => OnDisk(p, revision[p])

\* What have_chunk says is there can be read by get_chunk, although one looks at
\* the marks in the index and the other at the files, unless a worker is about to
\* put the chunk's file in place anew.  Otherwise a worker that trusts have_chunk
\* and a peer to which the chunk was announced would wait in vain.
HadIsObtainable ==
    failures = 0 => \A c \in Chunk :
        /\ OwnedOnce(c) /\ have_chunk(c)
        /\ \A t \in Thread : At(t, "idle") \/ c \notin WorkerChunks(t)
        => Obtainable(c)
-----------------------------------------------------------------------------
\* Worker threads run, the queue is served, the periodic timer fires, and the
\* chunks that the Downloader is after arrive.
Fairness ==
    /\ \A t \in Thread : WF_vars(WorkerStep(t))
    /\ \A p \in Path : \A r \in 1 .. Len(Content[p]) :
            SF_vars(\E t \in Thread : StartWorker(t, <<p, r>>))
    /\ WF_vars(PeriodicAssemble)
    /\ \A c \in Chunk : WF_vars(PutChunk(c))

FairSpec == Spec /\ Fairness

\* A failure left a path without the file that it is marked to have.
FileLost ==
    failures > 0 /\ \E p \in Path : assembled[p] /\ ~OnDisk(p, revision[p])

\* A failure took the only attempt to carry out a deletion, which
\* getIncompleteMeta does not find again.
DeletionLost(p) == failures > 0 /\ revision[p] # 0 /\ IsDeleted(p, revision[p])

\* Every indexed Meta is assembled in the end: a worker that retreats for a
\* missing chunk, fails, is cut short by a restart, or loses a chunk to another
\* file's replacement, is followed by one that succeeds.  Only deletions that a
\* failure cut short, and chunks of a file that a failure took away while it was
\* assembled anew, may stay behind.
AllAssembled ==
    \A p \in Path : revision[p] # 0 ~> assembled[p] \/ FileLost \/ DeletionLost(p)
=============================================================================
