-------------------------- MODULE AssemblerProofs --------------------------
(***************************************************************************)
(* Proofs about Assembler for any paths, chunks, contents and threads.  The *)
(* theorems speak of the files that are received once, among any others.    *)
(***************************************************************************)
EXTENDS Assembler, WellFoundedInduction, TLAPS

\* The Meta of a path is one of its revisions.
Revisions == \A p \in Path : revision[p] \in 0 .. Len(Content[p])

Steps == {"check", "fetch", "archive", "rename", "mark", "mark_openfs", "cleanup"}

\* The chunks of a revision.
LEMMA ContentFacts ==
    ASSUME NEW p \in Path, NEW r \in 1 .. Len(Content[p])
    PROVE  Content[p][r] \in Seq(Chunk) /\ ToSet(Content[p][r]) \subseteq Chunk /\ r \in Nat \ {0}
BY ContentAssumption DEF ToSet

LEMMA ChunksFacts ==
    ASSUME TypeOK, Revisions, NEW p \in Path
    PROVE  Chunks(p) \subseteq Chunk
<1>1. CASE revision[p] = 0
  BY <1>1 DEF Chunks
<1>2. CASE revision[p] # 0
  <2>1. revision[p] \in 1 .. Len(Content[p])
    BY <1>2, ContentAssumption DEF Revisions
  <2> QED BY <1>2, <2>1, ContentFacts DEF Chunks
<1> QED BY <1>1, <1>2

\* A thread that is not idle runs a worker.
LEMMA WorkerFacts ==
    ASSUME TypeOK, NEW t \in Thread, ~At(t, "idle")
    PROVE  worker[t] \in WorkerState
BY DEF TypeOK, At, Idle

LEMMA GotoFacts ==
    ASSUME TypeOK, NEW t \in Thread, NEW pc \in Steps, ~At(t, "idle"), Goto(t, pc)
    PROVE  /\ worker' \in [Thread -> WorkerState \cup {Idle}]
           /\ worker'[t] \in WorkerState
           /\ worker'[t].pc = pc
           /\ worker'[t].path = worker[t].path
           /\ worker'[t].rev = worker[t].rev
           /\ worker'[t].got = worker[t].got
           /\ \A u \in Thread : u # t => worker'[u] = worker[u]
<1>1. worker[t] \in WorkerState
  BY WorkerFacts
<1>2. [worker[t] EXCEPT !.pc = pc] \in WorkerState
  BY <1>1 DEF WorkerState, Steps
<1>3. worker \in [Thread -> WorkerState \cup {Idle}]
  BY DEF TypeOK
<1>4. worker'[t] = [worker[t] EXCEPT !.pc = pc]
  BY <1>3 DEF Goto
<1>5. /\ worker' \in [Thread -> WorkerState \cup {Idle}]
      /\ \A u \in Thread : u # t => worker'[u] = worker[u]
  BY <1>2, <1>3 DEF Goto
<1> QED BY <1>1, <1>2, <1>4, <1>5 DEF WorkerState

LEMMA FreeFacts ==
    ASSUME TypeOK, NEW t \in Thread, worker' = [worker EXCEPT ![t] = Idle]
    PROVE  /\ worker' \in [Thread -> WorkerState \cup {Idle}]
           /\ worker'[t].pc = "idle"
           /\ \A u \in Thread : u # t => worker'[u] = worker[u]
BY DEF TypeOK, Idle
-----------------------------------------------------------------------------
LEMMA TypeInit == Init => TypeOK /\ Revisions
BY ContentAssumption, MaxFailuresAssumption DEF Init, TypeOK, Revisions

LEMMA MainTypes ==
    ASSUME TypeOK, Revisions,
           \/ \E p \in Path : \E r \in 1 .. Len(Content[p]) : PutMeta(p, r)
           \/ \E c \in Chunk : PutChunk(c) \/ Evict(c)
           \/ PeriodicAssemble
           \/ Restart
    PROVE  TypeOK' /\ Revisions'
<1>1. ASSUME NEW p \in Path, NEW r \in 1 .. Len(Content[p]), PutMeta(p, r)
      PROVE  TypeOK' /\ Revisions'
  <2>1. ToSet(Content[p][r]) \subseteq Chunk /\ r \in Nat \ {0}
    BY ContentFacts
  <2>2. revision' \in [Path -> Nat] /\ Revisions'
    BY <1>1, <2>1 DEF PutMeta, TypeOK, Revisions
  <2>3. down_chunks' \subseteq Chunk
    BY <1>1, <2>1 DEF PutMeta, TypeOK
  <2>4. threadpool' \subseteq Path \X (Nat \ {0})
    BY <1>1, <2>1 DEF PutMeta, TypeOK
  <2> QED BY <1>1, <2>2, <2>3, <2>4 DEF PutMeta, TypeOK, storageVars
<1>2. ASSUME NEW c \in Chunk, PutChunk(c) PROVE TypeOK' /\ Revisions'
  <2>1. \A p \in Path : c \in Chunks(p) => revision[p] \in Nat \ {0}
    BY DEF Chunks, TypeOK
  <2>2. threadpool' \subseteq Path \X (Nat \ {0})
    BY <1>2, <2>1 DEF PutChunk, TypeOK
  <2> QED BY <1>2, <2>2 DEF PutChunk, TypeOK, Revisions, indexVars
<1>3. ASSUME NEW c \in Chunk, Evict(c) PROVE TypeOK' /\ Revisions'
  BY <1>3 DEF Evict, TypeOK, Revisions, indexVars
<1>4. CASE PeriodicAssemble
  <2>1. threadpool' \subseteq Path \X (Nat \ {0})
    BY <1>4 DEF PeriodicAssemble, getIncompleteMeta, TypeOK
  <2> QED BY <1>4, <2>1 DEF PeriodicAssemble, TypeOK, Revisions, indexVars, storageVars
<1>5. CASE Restart
  <2>1. down_chunks' \subseteq Chunk
    BY <1>5, ChunksFacts DEF Restart
  <2>2. failures' \in 0 .. MaxFailures
    BY <1>5, MaxFailuresAssumption DEF Restart, TypeOK
  <2>3. worker' \in [Thread -> WorkerState \cup {Idle}]
    BY <1>5 DEF Restart
  <2> QED BY <1>5, <2>1, <2>2, <2>3 DEF Restart, TypeOK, Revisions, indexVars
<1> QED BY <1>1, <1>2, <1>3, <1>4, <1>5

LEMMA StartTypes ==
    ASSUME TypeOK, Revisions, NEW t \in Thread, NEW w \in threadpool, StartWorker(t, w)
    PROVE  /\ TypeOK' /\ Revisions'
           /\ w[1] \in Path /\ w[2] \in Nat \ {0} /\ w = <<w[1], w[2]>>
           /\ worker'[t].pc = IF IsDeleted(w[1], w[2]) THEN "archive" ELSE "check"
           /\ worker'[t].path = w[1] /\ worker'[t].rev = w[2] /\ worker'[t].got = {}
           /\ \A u \in Thread : u # t => worker'[u] = worker[u]
<1>1. w[1] \in Path /\ w[2] \in Nat \ {0} /\ w = <<w[1], w[2]>>
  BY DEF TypeOK
<1> DEFINE ws == [path |-> w[1], rev |-> w[2], got |-> {},
                  pc |-> IF IsDeleted(w[1], w[2]) THEN "archive" ELSE "check"]
<1>2. ws \in WorkerState
  BY <1>1 DEF WorkerState
<1>3. worker' = [worker EXCEPT ![t] = ws]
  BY DEF StartWorker
<1>4. /\ ws.path = w[1] /\ ws.rev = w[2] /\ ws.got = {}
      /\ ws.pc = IF IsDeleted(w[1], w[2]) THEN "archive" ELSE "check"
  OBVIOUS
<1> HIDE DEF ws
<1>5. /\ worker' \in [Thread -> WorkerState \cup {Idle}]
      /\ worker'[t] = ws
      /\ \A u \in Thread : u # t => worker'[u] = worker[u]
  BY <1>2, <1>3 DEF TypeOK
<1>6. TypeOK' /\ Revisions'
  BY <1>5 DEF StartWorker, TypeOK, Revisions, indexVars, storageVars
<1> QED BY <1>1, <1>4, <1>5, <1>6

\* A worker's step changes its own thread only: it is done, goes on, or has
\* got another chunk.
LEMMA WorkerTypes ==
    ASSUME TypeOK, Revisions, NEW t \in Thread, WorkerStep(t) \/ Abort(t)
    PROVE  TypeOK' /\ Revisions'
<1> USE DEF indexVars, storageVars
<1>1. CASE CheckChunks(t)
  <2>1. ~At(t, "idle")
    BY <1>1 DEF CheckChunks, At
  <2>2. worker' \in [Thread -> WorkerState \cup {Idle}]
    BY <1>1, <2>1, GotoFacts, FreeFacts DEF CheckChunks, Steps
  <2> QED BY <1>1, <2>2 DEF CheckChunks, TypeOK, Revisions
<1>2. ASSUME NEW c \in Chunk, FetchChunk(t, c) PROVE TypeOK' /\ Revisions'
  <2>1. worker[t] \in WorkerState
    BY <1>2, WorkerFacts DEF FetchChunk, At
  <2>2. [worker[t] EXCEPT !.got = @ \cup {c}] \in WorkerState
    BY <2>1 DEF WorkerState
  <2>3. worker' \in [Thread -> WorkerState \cup {Idle}]
    BY <1>2, <2>2, FreeFacts DEF FetchChunk, TypeOK
  <2> QED BY <1>2, <2>3 DEF FetchChunk, TypeOK, Revisions
<1>3. CASE Commit(t)
  <2>1. worker' \in [Thread -> WorkerState \cup {Idle}]
    BY <1>3, GotoFacts DEF Commit, Steps, At
  <2> QED BY <1>3, <2>1 DEF Commit, TypeOK, Revisions
<1>4. CASE ArchiveFile(t)
  <2>1. worker' \in [Thread -> WorkerState \cup {Idle}]
    BY <1>4, GotoFacts DEF ArchiveFile, Steps, At
  <2> QED BY <1>4, <2>1 DEF ArchiveFile, TypeOK, Revisions
<1>5. CASE RenameFile(t)
  <2>1. worker' \in [Thread -> WorkerState \cup {Idle}]
    BY <1>5, GotoFacts DEF RenameFile, Steps, At
  <2>2. worker[t] \in WorkerState
    BY <1>5, WorkerFacts DEF RenameFile, At
  <2>3. file' \in [Path -> Nat]
    BY <1>5, <2>2 DEF RenameFile, TypeOK, WorkerState
  <2> QED BY <1>5, <2>1, <2>3 DEF RenameFile, TypeOK, Revisions
<1>6. CASE RenameFails(t)
  BY <1>6, FreeFacts DEF RenameFails, TypeOK, Revisions
<1>7. CASE MarkMeta(t)
  <2>1. worker' \in [Thread -> WorkerState \cup {Idle}]
    BY <1>7, GotoFacts DEF MarkMeta, Steps, At
  <2> QED BY <1>7, <2>1 DEF MarkMeta, TypeOK, Revisions
<1>8. CASE MarkOpenfs(t)
  <2>1. worker' \in [Thread -> WorkerState \cup {Idle}]
    BY <1>8, GotoFacts DEF MarkOpenfs, Steps, At
  <2>2. worker[t] \in WorkerState
    BY <1>8, WorkerFacts DEF MarkOpenfs, At
  <2> QED BY <1>8, <2>1, <2>2 DEF MarkOpenfs, TypeOK, Revisions, WorkerState
<1>9. CASE Cleanup(t)
  BY <1>9, FreeFacts DEF Cleanup, TypeOK, Revisions
<1>10. CASE Abort(t)
  <2>1. failures' \in 0 .. MaxFailures
    BY <1>10, MaxFailuresAssumption DEF Abort, TypeOK
  <2> QED BY <1>10, <2>1, FreeFacts DEF Abort, TypeOK, Revisions
<1> QED BY <1>1, <1>2, <1>3, <1>4, <1>5, <1>6, <1>7, <1>8, <1>9, <1>10 DEF WorkerStep

LEMMA TypeNext == TypeOK /\ Revisions /\ [Next]_vars => TypeOK' /\ Revisions'
<1> SUFFICES ASSUME TypeOK, Revisions, [Next]_vars PROVE TypeOK' /\ Revisions'
  OBVIOUS
<1>1. CASE UNCHANGED vars
  BY <1>1 DEF vars, indexVars, storageVars, TypeOK, Revisions
<1> QED BY <1>1, MainTypes, StartTypes, WorkerTypes DEF Next

\* Every variable keeps its type, for any revisions of the files.
THEOREM AssemblerTypes == Spec => []TypeOK
BY TypeInit, TypeNext, PTL DEF Spec
-----------------------------------------------------------------------------
Working(t) == ~At(t, "idle")

\* The chunk, if replaced files have no part in it, is where neither the cache
\* nor a failure takes it from.
Secured(c) == OwnedOnce(c) => c \in enc_storage \/ isAssembledChunk(c)

\* Of a file that is received once, whatever is marked, assembled or to be
\* assembled is what the index holds.
Current ==
    /\ \A p \in openfs : Once(p) => revision[p] = 1
    /\ \A p \in Path : Once(p) /\ assembled[p] => revision[p] = 1
    /\ \A p \in Path : Once(p) /\ file[p] # 0 => file[p] = 1 /\ revision[p] = 1
    /\ \A w \in threadpool : Once(w[1]) => w[2] = 1 /\ revision[w[1]] = 1
    /\ \A t \in Thread : Working(t) /\ Once(worker[t].path)
            => worker[t].rev = 1 /\ revision[worker[t].path] = 1

\* What is in the cache, in a file or in the hands of a worker is secured.
Copies ==
    /\ \A c \in mem_storage : Secured(c)
    /\ \A p \in Path : file[p] # 0 => \A c \in Chunks(p) : Secured(c)
    /\ \A t \in Thread : Working(t) => \A c \in worker[t].got : Secured(c)
    /\ \A t \in Thread : Working(t) /\ worker[t].pc \notin {"check", "fetch"}
            => WorkerChunks(t) \subseteq worker[t].got

\* A chunk of the index is secured or the Downloader is after it.
Accounted == \A p \in Path : \A c \in Chunks(p) : Secured(c) \/ c \in down_chunks

\* The inductive invariant; of replaced files it says next to nothing.
IInv == TypeOK /\ Revisions /\ Current /\ Copies /\ Accounted

\* A file was put at the path.
Landed(p) ==
    \/ assembled[p]
    \/ \E t \in Thread : /\ worker[t].pc \in {"mark", "mark_openfs", "cleanup"}
                         /\ worker[t].path = p

\* Another worker is about to put a file there.
Renaming(p) == \E t \in Thread : At(t, "rename") /\ worker[t].path = p

\* Only files that are not deleted are fetched and put in place, and one that
\* was put there is, or is about to be put there anew.
InPlace ==
    /\ \A t \in Thread :
            worker[t].pc \in {"check", "fetch", "rename"} /\ Once(worker[t].path)
            => ~IsDeleted(worker[t].path, 1)
    /\ \A p \in Path : Once(p) /\ file[p] # 0 => ~IsDeleted(p, 1)
    /\ failures = 0 => \A p \in Path :
            Once(p) /\ Landed(p) /\ ~IsDeleted(p, 1) => file[p] = 1 \/ Renaming(p)

LEMMA OneFacts ==
    ASSUME Revisions, NEW p \in Path, Once(p)
    PROVE  revision[p] \in {0, 1} /\ (revision[p] = 1 => Len(Content[p]) = 1)
<1> DEFINE l == Len(Content[p])
           r == revision[p]
<1>1. l \in Nat
  BY ContentAssumption
<1>2. l <= 1 /\ r \in 0 .. l
  BY DEF Once, Revisions
<1> HIDE DEF l, r
<1>3. r \in {0, 1} /\ (r = 1 => l = 1)
  BY <1>1, <1>2
<1> QED BY <1>3 DEF l, r

\* Replaced files have no part in a chunk that is owned by others.
LEMMA OwnedFacts ==
    ASSUME TypeOK, Revisions, NEW p \in Path, NEW c \in Chunks(p), OwnedOnce(c)
    PROVE  Once(p) /\ revision[p] = 1
<1>1. revision[p] # 0 /\ c \in ToSet(Content[p][revision[p]])
  BY DEF Chunks
<1>2. revision[p] \in 1 .. Len(Content[p])
  BY <1>1, ContentAssumption DEF Revisions
<1>3. Once(p)
  BY <1>1, <1>2 DEF OwnedOnce
<1> QED BY <1>1, <1>3, OneFacts

LEMMA MetaKeeps ==
    ASSUME IInv, NEW p \in Path, NEW r \in 1 .. Len(Content[p]), PutMeta(p, r)
    PROVE  Current' /\ Copies' /\ Accounted'
<1> USE DEF storageVars
<1>1. Once(p) => r = 1 /\ revision[p] = 0
  BY ContentAssumption DEF Once, PutMeta, IInv, TypeOK
<1>2. /\ revision'[p] = r /\ \A q \in Path : q # p => revision'[q] = revision[q]
      /\ ~assembled'[p] /\ \A q \in Path : q # p => assembled'[q] = assembled[q]
      /\ enc_storage' = enc_storage /\ mem_storage' = mem_storage
      /\ file' = file /\ worker' = worker /\ openfs' = openfs \ {p}
      /\ threadpool' = threadpool \cup {<<p, r>>}
  BY DEF PutMeta, IInv, TypeOK
<1>3. Once(p) => p \notin openfs /\ file[p] = 0
  BY <1>1 DEF IInv, Current
<1>4. \A t \in Thread : Working(t) => worker[t] \in WorkerState /\ (Once(p) => worker[t].path # p)
  BY <1>1, WorkerFacts DEF IInv, Current, Working
<1>5. \A q \in Path : q # p => Chunks(q)' = Chunks(q)
  BY <1>2 DEF Chunks
<1>6. Chunks(p)' = ToSet(Content[p][r])
  BY <1>2 DEF Chunks
<1>7. \A c : Secured(c)' <=> Secured(c)
  <2>1. openfs \subseteq Path
    BY DEF IInv, TypeOK
  <2>2. ASSUME NEW c, OwnedOnce(c), isAssembledChunk(c)' PROVE isAssembledChunk(c)
    BY <1>2, <1>5, <2>1, <2>2 DEF isAssembledChunk
  <2>3. ASSUME NEW c, OwnedOnce(c), isAssembledChunk(c) PROVE isAssembledChunk(c)'
    <3>1. PICK q \in openfs : c \in Chunks(q)
      BY <2>3 DEF isAssembledChunk
    <3>2. Once(q)
      BY <2>1, <2>3, <3>1, OwnedFacts DEF IInv
    <3> QED BY <1>2, <1>3, <1>5, <2>1, <3>1, <3>2 DEF isAssembledChunk
  <2> QED BY <1>2, <2>2, <2>3 DEF Secured, OwnedOnce
<1>8. Current'
  <2>1. \A w \in threadpool : w[1] \in Path /\ (Once(w[1]) => w[1] # p)
    BY <1>1 DEF IInv, Current, TypeOK
  <2>2. \A w \in threadpool' : Once(w[1]) => w[2] = 1 /\ revision'[w[1]] = 1
    BY <1>1, <1>2, <2>1 DEF IInv, Current
  <2>3. \A t \in Thread : Working(t)' /\ Once(worker'[t].path)
            => worker'[t].rev = 1 /\ revision'[worker'[t].path] = 1
    BY <1>2, <1>4 DEF IInv, Current, Working, At, WorkerState
  <2>4. \A q \in openfs' : Once(q) => revision'[q] = 1
    BY <1>2 DEF IInv, Current, TypeOK
  <2>5. \A q \in Path : Once(q) /\ assembled'[q] => revision'[q] = 1
    BY <1>2 DEF IInv, Current
  <2>6. \A q \in Path : Once(q) /\ file'[q] # 0 => file'[q] = 1 /\ revision'[q] = 1
    BY <1>2, <1>3 DEF IInv, Current
  <2> QED BY <2>2, <2>3, <2>4, <2>5, <2>6 DEF Current
<1>9. Copies'
  <2>1. \A t \in Thread : Working(t)' <=> Working(t)
    BY <1>2 DEF Working, At
  <2>2. \A t \in Thread : WorkerChunks(t)' = WorkerChunks(t)
    BY <1>2 DEF WorkerChunks
  <2>3. \A c \in mem_storage' : Secured(c)'
    BY <1>2, <1>7 DEF IInv, Copies
  <2>4. ASSUME NEW q \in Path, file'[q] # 0, NEW c \in Chunks(q)' PROVE Secured(c)'
    <3>1. CASE q # p
      BY <1>2, <1>5, <1>7, <2>4, <3>1 DEF IInv, Copies
    <3>2. CASE q = p
      <4>1. ~OwnedOnce(c)
        BY <1>2, <1>3, <1>6, <2>4, <3>2 DEF OwnedOnce
      <4> QED BY <1>7, <4>1 DEF Secured
    <3> QED BY <3>1, <3>2
  <2>5. \A t \in Thread : Working(t)' => \A c \in worker'[t].got : Secured(c)'
    BY <1>2, <1>7, <2>1 DEF IInv, Copies
  <2> QED BY <1>2, <2>1, <2>2, <2>3, <2>4, <2>5 DEF IInv, Copies
<1>10. \A c : have_chunk(c)' => Secured(c)'
  <2>1. \A c : have_chunk(c)' => c \in mem_storage' \/ Secured(c)'
    BY DEF have_chunk, Secured
  <2> QED BY <1>9, <2>1 DEF Copies
<1>11. Accounted'
  <2> DEFINE have == {c \in ToSet(Content[p][r]) : have_chunk(c)'}
  <2>1. down_chunks' = (down_chunks \ have) \cup (ToSet(Content[p][r]) \ have)
    BY DEF PutMeta
  <2>2. \A c \in have : Secured(c)'
    BY <1>10
  <2> HIDE DEF have
  <2>3. ASSUME NEW c \in Chunks(p)' PROVE Secured(c)' \/ c \in down_chunks'
    BY <1>6, <2>1, <2>2, <2>3
  <2>4. ASSUME NEW q \in Path, q # p, NEW c \in Chunks(q)' PROVE Secured(c)' \/ c \in down_chunks'
    BY <1>5, <1>7, <2>1, <2>2, <2>4 DEF IInv, Accounted
  <2> QED BY <2>3, <2>4 DEF Accounted
<1> QED BY <1>8, <1>9, <1>11

\* A step that keeps the Metas and loses no chunk.
LEMMA Keeps ==
    ASSUME IInv, revision' = revision, mem_storage' \subseteq mem_storage, file' = file,
           \A c : Secured(c) => Secured(c)',
           down_chunks \subseteq down_chunks' \cup enc_storage',
           \A t \in Thread : Working(t)' => Working(t) /\ worker'[t] = worker[t]
    PROVE  Copies' /\ Accounted'
<1>1. \A p \in Path : Chunks(p)' = Chunks(p)
  BY DEF Chunks
<1>2. \A t \in Thread : Working(t)' => WorkerChunks(t)' = WorkerChunks(t)
  BY DEF WorkerChunks
<1>3. Copies'
  <2>1. \A c \in mem_storage' : Secured(c)'
    BY DEF IInv, Copies
  <2>2. \A q \in Path : file'[q] # 0 => \A c \in Chunks(q)' : Secured(c)'
    BY <1>1 DEF IInv, Copies
  <2>3. \A t \in Thread : Working(t)' => \A c \in worker'[t].got : Secured(c)'
    BY DEF IInv, Copies
  <2> QED BY <1>2, <2>1, <2>2, <2>3 DEF IInv, Copies
<1>4. Accounted'
  <2>1. \A c \in enc_storage' : Secured(c)'
    BY DEF Secured
  <2> QED BY <1>1, <2>1 DEF IInv, Accounted
<1> QED BY <1>3, <1>4

\* What is secured stays so while the marks of openfs stay.
LEMMA StaysSecured ==
    ASSUME revision' = revision, openfs \subseteq openfs', NEW c, Secured(c),
           c \in enc_storage => c \in enc_storage' \/ isAssembledChunk(c)
    PROVE  Secured(c)'
<1>1. isAssembledChunk(c) => isAssembledChunk(c)'
  BY DEF isAssembledChunk, Chunks
<1> QED BY <1>1 DEF Secured, OwnedOnce

LEMMA MainKeeps ==
    ASSUME IInv,
           \/ \E c \in Chunk : PutChunk(c) \/ Evict(c)
           \/ PeriodicAssemble
    PROVE  Current' /\ Copies' /\ Accounted'
<1> USE DEF indexVars, storageVars
<1>1. /\ revision' = revision /\ assembled' = assembled /\ openfs' = openfs
      /\ file' = file /\ worker' = worker
      /\ enc_storage \subseteq enc_storage' /\ mem_storage' \subseteq mem_storage
      /\ down_chunks \subseteq down_chunks' \cup enc_storage'
  BY DEF PutChunk, Evict, PeriodicAssemble
<1>2. \A p \in Path : Once(p) => revision[p] \in {0, 1}
  BY OneFacts DEF IInv
<1>3. \A w \in threadpool' : Once(w[1]) => w[2] = 1 /\ revision[w[1]] = 1
  <2>1. ASSUME NEW c \in Chunk, PutChunk(c), NEW w \in threadpool', Once(w[1])
        PROVE  w[2] = 1 /\ revision[w[1]] = 1
    <3>1. \A p \in Path : Once(p) /\ c \in Chunks(p) => revision[p] = 1
      BY <1>2 DEF Chunks
    <3> QED BY <2>1, <3>1 DEF PutChunk, IInv, Current
  <2>2. ASSUME NEW c \in Chunk, Evict(c), NEW w \in threadpool', Once(w[1])
        PROVE  w[2] = 1 /\ revision[w[1]] = 1
    BY <2>2 DEF Evict, IInv, Current
  <2>3. ASSUME PeriodicAssemble, NEW w \in threadpool', Once(w[1])
        PROVE  w[2] = 1 /\ revision[w[1]] = 1
    BY <1>2, <2>3 DEF PeriodicAssemble, getIncompleteMeta, IInv, Current
  <2> QED BY <2>1, <2>2, <2>3
<1>4. Current'
  BY <1>1, <1>3 DEF IInv, Current, Working, At
<1>5. \A c : Secured(c) => Secured(c)'
  BY <1>1, StaysSecured
<1>6. \A t \in Thread : Working(t)' => Working(t) /\ worker'[t] = worker[t]
  BY <1>1 DEF Working, At
<1> QED BY <1>1, <1>4, <1>5, <1>6, Keeps

LEMMA RestartKeeps ==
    ASSUME IInv, Restart
    PROVE  Current' /\ Copies' /\ Accounted'
<1>1. /\ revision' = revision /\ assembled' = assembled /\ openfs' = openfs
      /\ file' = file /\ enc_storage' = enc_storage /\ mem_storage' = {}
      /\ threadpool' = {} /\ \A t \in Thread : ~Working(t)'
  BY DEF Restart, indexVars, Working, At, Idle
<1>2. Current'
  BY <1>1 DEF IInv, Current
<1>3. \A c : Secured(c) => Secured(c)'
  BY <1>1, StaysSecured
<1>4. \A p \in Path : Chunks(p)' = Chunks(p)
  BY <1>1 DEF Chunks
<1>5. Copies'
  BY <1>1, <1>3, <1>4 DEF IInv, Copies
<1>6. \A c : have_chunk(c)' => Secured(c)'
  BY <1>1 DEF have_chunk, Secured
<1>7. Accounted'
  BY <1>4, <1>6 DEF Restart, Accounted
<1> QED BY <1>2, <1>5, <1>7

LEMMA StartKeeps ==
    ASSUME IInv, NEW t \in Thread, NEW w \in threadpool, StartWorker(t, w)
    PROVE  Current' /\ Copies' /\ Accounted'
<1> USE DEF indexVars, storageVars
<1>1. /\ revision' = revision /\ assembled' = assembled /\ openfs' = openfs
      /\ file' = file /\ enc_storage' = enc_storage /\ mem_storage' = mem_storage
      /\ threadpool' \subseteq threadpool /\ down_chunks' = down_chunks
  BY DEF StartWorker
<1>2. /\ worker'[t].pc = IF IsDeleted(w[1], w[2]) THEN "archive" ELSE "check"
      /\ worker'[t].path = w[1] /\ worker'[t].rev = w[2] /\ worker'[t].got = {}
      /\ \A u \in Thread : u # t => worker'[u] = worker[u]
  BY StartTypes DEF IInv
<1>3. Once(w[1]) => w[2] = 1 /\ revision[w[1]] = 1
  BY DEF IInv, Current
<1>4. \A u \in Thread : u # t => (Working(u)' <=> Working(u))
  BY <1>2 DEF Working, At
<1>5. Current'
  BY <1>1, <1>2, <1>3, <1>4 DEF IInv, Current
<1>6. \A c : Secured(c) => Secured(c)'
  BY <1>1, StaysSecured
<1>7. \A p \in Path : Chunks(p)' = Chunks(p)
  BY <1>1 DEF Chunks
<1>8. \A u \in Thread : u # t => WorkerChunks(u)' = WorkerChunks(u)
  BY <1>2 DEF WorkerChunks
<1>9. worker'[t].pc \notin {"check", "fetch"} => WorkerChunks(t)' = {}
  BY <1>2 DEF WorkerChunks, IsDeleted, ToSet
<1>10. Copies'
  <2>1. \A u \in Thread : Working(u)' => \A c \in worker'[u].got : Secured(c)'
    BY <1>2, <1>4, <1>6 DEF IInv, Copies
  <2>2. \A u \in Thread : Working(u)' /\ worker'[u].pc \notin {"check", "fetch"}
            => WorkerChunks(u)' \subseteq worker'[u].got
    BY <1>2, <1>4, <1>8, <1>9 DEF IInv, Copies
  <2>3. \A p \in Path : file'[p] # 0 => \A c \in Chunks(p)' : Secured(c)'
    BY <1>1, <1>6, <1>7 DEF IInv, Copies
  <2>4. \A c \in mem_storage' : Secured(c)'
    BY <1>1, <1>6 DEF IInv, Copies
  <2> QED BY <2>1, <2>2, <2>3, <2>4 DEF Copies
<1>11. Accounted'
  BY <1>1, <1>6, <1>7 DEF IInv, Accounted
<1> QED BY <1>5, <1>10, <1>11

\* A worker retreats, is done or aborts.
LEMMA FreeKeeps ==
    ASSUME IInv, NEW t \in Thread, worker' = [worker EXCEPT ![t] = Idle],
           revision' = revision, assembled' = assembled, openfs' = openfs, file' = file,
           threadpool' = threadpool, mem_storage' = mem_storage, down_chunks' = down_chunks,
           \A c : c \in enc_storage => c \in enc_storage' \/ isAssembledChunk(c)
    PROVE  Current' /\ Copies' /\ Accounted'
<1>1. /\ ~Working(t)'
      /\ \A u \in Thread : u # t => worker'[u] = worker[u]
  BY FreeFacts DEF IInv, Working, At
<1>2. \A u \in Thread : Working(u)' => Working(u) /\ worker'[u] = worker[u]
  BY <1>1 DEF Working, At
<1>3. Current'
  BY <1>2 DEF IInv, Current
<1>4. \A c : Secured(c) => Secured(c)'
  BY StaysSecured
<1> QED BY <1>2, <1>3, <1>4, Keeps

\* A worker goes on: what it marks or puts in place has the chunks it got.
LEMMA GotoKeeps ==
    ASSUME IInv, NEW t \in Thread, NEW pc \in Steps, Working(t), Goto(t, pc),
           pc \in {"check", "fetch"} \/ WorkerChunks(t) \subseteq worker[t].got,
           revision' = revision, threadpool' = threadpool, mem_storage' = mem_storage,
           enc_storage' = enc_storage, down_chunks' = down_chunks,
           openfs \subseteq openfs', openfs' \subseteq openfs \cup {worker[t].path},
           \A p \in Path : assembled'[p] => assembled[p] \/ p = worker[t].path,
           \A p \in Path : file'[p] # 0 =>
               \/ file'[p] = file[p]
               \/ /\ p = worker[t].path /\ file'[p] = worker[t].rev
                  /\ WorkerChunks(t) \subseteq worker[t].got
    PROVE  Current' /\ Copies' /\ Accounted'
<1>1. /\ worker'[t].pc = pc /\ Working(t)'
      /\ worker'[t].path = worker[t].path
      /\ worker'[t].rev = worker[t].rev
      /\ worker'[t].got = worker[t].got
      /\ \A u \in Thread : u # t => worker'[u] = worker[u]
  BY GotoFacts DEF IInv, Working, At, Steps
<1>2. \A u \in Thread :
        /\ Working(u)' => Working(u)
        /\ WorkerChunks(u)' = WorkerChunks(u)
        /\ worker'[u].path = worker[u].path
        /\ worker'[u].rev = worker[u].rev
        /\ worker'[u].got = worker[u].got
  BY <1>1 DEF Working, At, WorkerChunks
<1>3. Once(worker[t].path) => worker[t].rev = 1 /\ revision[worker[t].path] = 1
  BY DEF IInv, Current
<1>4. Current'
  BY <1>2, <1>3 DEF IInv, Current
<1>5. \A c : Secured(c) => Secured(c)'
  BY StaysSecured
<1>6. \A p \in Path : Chunks(p)' = Chunks(p)
  BY DEF Chunks
<1>7. Once(worker[t].path) => WorkerChunks(t) = Chunks(worker[t].path)
  BY <1>3 DEF WorkerChunks, Chunks
<1>8. Copies'
  <2>1. \A u \in Thread : Working(u)' => \A c \in worker'[u].got : Secured(c)'
    BY <1>2, <1>5 DEF IInv, Copies
  <2>2. \A u \in Thread : Working(u)' /\ worker'[u].pc \notin {"check", "fetch"}
            => WorkerChunks(u)' \subseteq worker'[u].got
    BY <1>1, <1>2 DEF IInv, Copies
  <2>3. ASSUME NEW p \in Path, file'[p] # 0, NEW c \in Chunks(p)' PROVE Secured(c)'
    <3>1. CASE file'[p] = file[p]
      BY <1>5, <1>6, <2>3, <3>1 DEF IInv, Copies
    <3>2. CASE p = worker[t].path /\ WorkerChunks(t) \subseteq worker[t].got
      <4>1. CASE Once(p)
        BY <1>5, <1>6, <1>7, <2>3, <3>2, <4>1 DEF IInv, Copies
      <4>2. CASE ~Once(p)
        BY <1>5, <1>6, <2>3, <4>2, OwnedFacts DEF IInv, Secured
      <4> QED BY <4>1, <4>2
    <3> QED BY <2>3, <3>1, <3>2
  <2>4. \A c \in mem_storage' : Secured(c)'
    BY <1>5 DEF IInv, Copies
  <2> QED BY <2>1, <2>2, <2>3, <2>4 DEF Copies
<1>9. Accounted'
  BY <1>5, <1>6 DEF IInv, Accounted
<1> QED BY <1>4, <1>8, <1>9

\* What get_chunk finds is secured: a file on the disk has the chunks of the Meta.
LEMMA ObtainableSecured ==
    ASSUME IInv, NEW c, Obtainable(c)
    PROVE  Secured(c)
BY DEF IInv, Copies, Obtainable, ReadableInFile, Secured

LEMMA FetchKeeps ==
    ASSUME IInv, NEW t \in Thread, NEW c \in Chunk, FetchChunk(t, c)
    PROVE  Current' /\ Copies' /\ Accounted'
<1>1. /\ revision' = revision /\ assembled' = assembled /\ openfs' = openfs
      /\ file' = file /\ enc_storage' = enc_storage
      /\ threadpool' = threadpool /\ down_chunks' = down_chunks
  BY DEF FetchChunk, indexVars
<1>2. CASE ~Obtainable(c)
  BY <1>1, <1>2, FreeKeeps DEF FetchChunk
<1>3. CASE Obtainable(c)
  <2>1. /\ mem_storage' = mem_storage \cup {c}
        /\ worker' = [worker EXCEPT ![t].got = @ \cup {c}]
    BY <1>3 DEF FetchChunk
  <2>2. worker[t] \in WorkerState /\ At(t, "fetch")
    BY WorkerFacts DEF IInv, FetchChunk, At
  <2>3. worker'[t] = [worker[t] EXCEPT !.got = @ \cup {c}]
        /\ \A u \in Thread : u # t => worker'[u] = worker[u]
    BY <2>1 DEF IInv, TypeOK
  <2>4. /\ worker'[t].pc = worker[t].pc
        /\ worker'[t].path = worker[t].path
        /\ worker'[t].rev = worker[t].rev
        /\ worker'[t].got = worker[t].got \cup {c}
    BY <2>2, <2>3 DEF WorkerState
  <2>5. \A u \in Thread :
          /\ Working(u)' <=> Working(u)
          /\ WorkerChunks(u)' = WorkerChunks(u)
          /\ worker'[u].path = worker[u].path
          /\ worker'[u].rev = worker[u].rev
          /\ worker'[u].pc = worker[u].pc
          /\ worker[u].got \subseteq worker'[u].got
          /\ worker'[u].got \subseteq worker[u].got \cup {c}
    BY <2>3, <2>4 DEF Working, At, WorkerChunks
  <2>6. \A d : Secured(d) => Secured(d)'
    BY <1>1, StaysSecured
  <2>7. Secured(c)'
    BY <1>3, <2>6, ObtainableSecured
  <2>8. \A p \in Path : Chunks(p)' = Chunks(p)
    BY <1>1 DEF Chunks
  <2>9. Current'
    BY <1>1, <2>5 DEF IInv, Current
  <2>10. Copies'
    <3>1. \A u \in Thread : Working(u)' => \A d \in worker'[u].got : Secured(d)'
      BY <2>5, <2>6, <2>7 DEF IInv, Copies
    <3>2. \A u \in Thread : Working(u)' /\ worker'[u].pc \notin {"check", "fetch"}
              => WorkerChunks(u)' \subseteq worker'[u].got
      BY <2>5 DEF IInv, Copies
    <3>3. \A p \in Path : file'[p] # 0 => \A d \in Chunks(p)' : Secured(d)'
      BY <1>1, <2>6, <2>8 DEF IInv, Copies
    <3>4. \A d \in mem_storage' : Secured(d)'
      BY <2>1, <2>6, <2>7 DEF IInv, Copies
    <3> QED BY <3>1, <3>2, <3>3, <3>4 DEF Copies
  <2>11. Accounted'
    BY <1>1, <2>6, <2>8 DEF IInv, Accounted
  <2> QED BY <2>9, <2>10, <2>11
<1> QED BY <1>2, <1>3

LEMMA WorkerKeeps ==
    ASSUME IInv, NEW t \in Thread, WorkerStep(t) \/ Abort(t)
    PROVE  Current' /\ Copies' /\ Accounted'
<1> USE DEF indexVars, storageVars
<1>1. CASE CheckChunks(t)
  <2>1. Working(t)
    BY <1>1 DEF CheckChunks, Working, At
  <2>2. CASE Goto(t, "fetch")
    BY <1>1, <2>1, <2>2, GotoKeeps DEF CheckChunks, Steps
  <2>3. CASE worker' = [worker EXCEPT ![t] = Idle]
    BY <1>1, <2>3, FreeKeeps DEF CheckChunks
  <2> QED BY <1>1, <2>2, <2>3 DEF CheckChunks
<1>2. ASSUME NEW c \in Chunk, FetchChunk(t, c) PROVE Current' /\ Copies' /\ Accounted'
  BY <1>2, FetchKeeps
<1>3. CASE Commit(t)
  <2>1. Working(t) /\ Goto(t, "archive") /\ "archive" \in Steps
    BY <1>3 DEF Commit, Working, At, Steps
  <2> QED BY <1>3, <2>1, GotoKeeps DEF Commit
<1>4. ASSUME At(t, "archive") \/ At(t, "rename") \/ At(t, "mark") \/ At(t, "mark_openfs")
      PROVE  Working(t) /\ WorkerChunks(t) \subseteq worker[t].got
  BY <1>4 DEF IInv, Copies, Working, At
<1>5. CASE ArchiveFile(t)
  <2>1. PICK pc \in Steps : Goto(t, pc)
    BY <1>5 DEF ArchiveFile, Steps
  <2>2. \A p \in Path : file'[p] # 0 => file'[p] = file[p]
    BY <1>5 DEF ArchiveFile, IInv, TypeOK
  <2>3. Working(t) /\ WorkerChunks(t) \subseteq worker[t].got
    BY <1>4, <1>5 DEF ArchiveFile
  <2> QED BY <1>5, <2>1, <2>2, <2>3, GotoKeeps DEF ArchiveFile
<1>6. CASE RenameFile(t)
  <2>1. Goto(t, "mark") /\ "mark" \in Steps
    BY <1>6 DEF RenameFile, Steps
  <2>2. \A p \in Path : file'[p] = file[p] \/ (p = worker[t].path /\ file'[p] = worker[t].rev)
    BY <1>6 DEF RenameFile, IInv, TypeOK
  <2>3. Working(t) /\ WorkerChunks(t) \subseteq worker[t].got
    BY <1>4, <1>6 DEF RenameFile
  <2> QED BY <1>6, <2>1, <2>2, <2>3, GotoKeeps DEF RenameFile
<1>7. CASE RenameFails(t)
  BY <1>7, FreeKeeps DEF RenameFails
<1>8. CASE MarkMeta(t)
  <2>1. Goto(t, "mark_openfs") /\ "mark_openfs" \in Steps
    BY <1>8 DEF MarkMeta, Steps
  <2>2. \A p \in Path : assembled'[p] => assembled[p] \/ p = worker[t].path
    BY <1>8 DEF MarkMeta, IInv, TypeOK
  <2>3. Working(t) /\ WorkerChunks(t) \subseteq worker[t].got
    BY <1>4, <1>8 DEF MarkMeta
  <2> QED BY <1>8, <2>1, <2>2, <2>3, GotoKeeps DEF MarkMeta
<1>9. CASE MarkOpenfs(t)
  <2>1. Goto(t, "cleanup") /\ "cleanup" \in Steps
    BY <1>9 DEF MarkOpenfs, Steps
  <2>2. Working(t) /\ WorkerChunks(t) \subseteq worker[t].got
    BY <1>4, <1>9 DEF MarkOpenfs
  <2> QED BY <1>9, <2>1, <2>2, GotoKeeps DEF MarkOpenfs
<1>10. CASE Cleanup(t)
  BY <1>10, FreeKeeps DEF Cleanup
<1>11. CASE Abort(t)
  BY <1>11, FreeKeeps DEF Abort
<1> QED BY <1>1, <1>2, <1>3, <1>5, <1>6, <1>7, <1>8, <1>9, <1>10, <1>11 DEF WorkerStep

LEMMA KeepsNext ==
    ASSUME IInv, [Next]_vars
    PROVE  IInv'
<1>1. TypeOK' /\ Revisions'
  BY TypeNext DEF IInv
<1>2. CASE UNCHANGED vars
  <2>1. \A t \in Thread : Working(t)' => Working(t) /\ worker'[t] = worker[t]
    BY <1>2 DEF vars, Working, At
  <2>2. \A c : Secured(c) => Secured(c)'
    BY <1>2, StaysSecured DEF vars, indexVars, storageVars
  <2>3. Current'
    BY <1>2 DEF vars, indexVars, storageVars, IInv, Current, Working, At
  <2>4. Copies' /\ Accounted'
    BY <1>2, <2>1, <2>2, Keeps DEF vars, indexVars, storageVars
  <2> QED BY <1>1, <2>3, <2>4 DEF IInv
<1>3. CASE Next
  <2>1. Current' /\ Copies' /\ Accounted'
    BY <1>3, MetaKeeps, MainKeeps, RestartKeeps, StartKeeps, WorkerKeeps DEF Next
  <2> QED BY <1>1, <2>1 DEF IInv
<1> QED BY <1>2, <1>3

LEMMA KeepsInit == Init => IInv
<1> SUFFICES ASSUME Init PROVE IInv
  OBVIOUS
<1>1. \A t \in Thread : ~Working(t)
  BY DEF Init, Working, At, Idle
<1>2. \A p \in Path : Chunks(p) = {}
  BY DEF Init, Chunks
<1> QED BY <1>1, <1>2, TypeInit DEF Init, IInv, Current, Copies, Accounted

\* Whatever the cache drops, however workers overlap, wherever the process
\* stops and whichever other files are replaced, no chunk of the files that are
\* received once is forgotten: ChunkStorage::cleanup takes away only what
\* isAssembledChunk finds.
THEOREM NoChunkForgotten == Spec => []ChunksAccounted
<1>1. IInv /\ [Next]_vars => IInv'
  BY KeepsNext
<1>2. IInv => ChunksAccounted
  BY DEF IInv, Accounted, ChunksAccounted, have_chunk, Secured
<1> QED BY KeepsInit, <1>1, <1>2, PTL DEF Spec
-----------------------------------------------------------------------------
FinalSteps == {"mark", "mark_openfs", "cleanup"}

\* A step that leaves the workers and the files alone.
LEMMA PlaceSame ==
    ASSUME InPlace, worker' = worker, file' = file, failures' = failures,
           \A p \in Path : assembled'[p] => assembled[p]
    PROVE  InPlace'
<1>1. \A p \in Path : (Landed(p)' => Landed(p)) /\ (Renaming(p) => Renaming(p)')
  BY DEF Landed, Renaming, At
<1> QED BY <1>1 DEF InPlace

\* A worker ends: if it ends without having put its file in place, a file is
\* there, or this counts as a failure.
LEMMA PlaceFree ==
    ASSUME IInv, InPlace, NEW t \in Thread, worker' = [worker EXCEPT ![t] = Idle],
           file' = file, assembled' = assembled,
           failures' = 0 => failures = 0 /\ (At(t, "rename") => file[worker[t].path] # 0)
    PROVE  InPlace'
<1>1. /\ worker'[t].pc = "idle"
      /\ \A u \in Thread : u # t => worker'[u] = worker[u]
  BY FreeFacts DEF IInv
<1>2. \A p \in Path : Landed(p)' => Landed(p)
  BY <1>1 DEF Landed
<1>3. ASSUME NEW p \in Path, failures' = 0, Renaming(p)
      PROVE  Once(p) => file[p] = 1 \/ Renaming(p)'
  <2>1. PICK u \in Thread : At(u, "rename") /\ worker[u].path = p
    BY <1>3 DEF Renaming
  <2>2. CASE u = t
    BY <1>3, <2>1, <2>2 DEF IInv, Current
  <2>3. CASE u # t
    BY <1>1, <2>1, <2>3 DEF Renaming, At
  <2> QED BY <2>2, <2>3
<1>4. \A u \in Thread : 
          worker'[u].pc \in {"check", "fetch", "rename"} /\ Once(worker'[u].path)
          => ~IsDeleted(worker'[u].path, 1)
  BY <1>1 DEF InPlace
<1>5. failures' = 0 => \A p \in Path :
          Once(p) /\ Landed(p)' /\ ~IsDeleted(p, 1) => file'[p] = 1 \/ Renaming(p)'
  BY <1>2, <1>3 DEF InPlace
<1> QED BY <1>4, <1>5 DEF InPlace

\* A worker goes on: afterwards its file is in place or about to be, or it is
\* as it was and nothing new is said of it.
LEMMA PlaceGoto ==
    ASSUME IInv, InPlace, NEW t \in Thread, NEW pc \in Steps, Working(t), Goto(t, pc),
           failures' = failures,
           pc \in {"check", "fetch", "rename"} /\ Once(worker[t].path)
               => ~IsDeleted(worker[t].path, 1),
           \A p \in Path : p # worker[t].path => file'[p] = file[p] /\ assembled'[p] = assembled[p],
           Once(worker[t].path) /\ file'[worker[t].path] # 0 => ~IsDeleted(worker[t].path, 1),
           Once(worker[t].path) /\ ~IsDeleted(worker[t].path, 1) =>
               \/ file'[worker[t].path] = 1
               \/ pc = "rename"
               \/ /\ file'[worker[t].path] = file[worker[t].path]
                  /\ ~At(t, "rename")
                  /\ \/ worker[t].pc \in FinalSteps
                     \/ pc \notin FinalSteps /\ assembled'[worker[t].path] = assembled[worker[t].path]
    PROVE  InPlace'
<1> DEFINE q == worker[t].path
<1>1. /\ worker'[t].pc = pc
      /\ worker'[t].path = q
      /\ \A u \in Thread : u # t => worker'[u] = worker[u]
  BY GotoFacts DEF IInv, Working
<1>2. q \in Path
  BY WorkerFacts DEF IInv, Working, WorkerState
<1>3. \A u \in Thread : 
          worker'[u].pc \in {"check", "fetch", "rename"} /\ Once(worker'[u].path)
          => ~IsDeleted(worker'[u].path, 1)
  BY <1>1 DEF InPlace
<1>4. \A p \in Path : Once(p) /\ file'[p] # 0 => ~IsDeleted(p, 1)
  BY DEF InPlace
<1>5. ASSUME failures' = 0, NEW p \in Path, Once(p), Landed(p)', ~IsDeleted(p, 1)
      PROVE  file'[p] = 1 \/ Renaming(p)'
  <2>1. CASE p # q
    <3>1. Landed(p)
      BY <1>1, <1>5, <2>1 DEF Landed
    <3>2. Renaming(p) => Renaming(p)'
      BY <1>1, <2>1 DEF Renaming, At
    <3> QED BY <1>5, <2>1, <3>1, <3>2 DEF InPlace
  <2>2. CASE p = q /\ file'[q] = 1
    BY <2>2
  <2>3. CASE p = q /\ pc = "rename"
    BY <1>1, <2>3 DEF Renaming, At
  <2>4. CASE /\ p = q /\ file'[q] = file[q] /\ ~At(t, "rename")
             /\ \/ worker[t].pc \in FinalSteps
                \/ pc \notin FinalSteps /\ assembled'[q] = assembled[q]
    <3>1. Landed(p)
      BY <1>1, <1>5, <2>4 DEF Landed, FinalSteps
    <3>2. Renaming(p) => Renaming(p)'
      BY <1>1, <2>4 DEF Renaming, At
    <3> QED BY <1>5, <2>4, <3>1, <3>2 DEF InPlace
  <2> QED BY <1>5, <2>1, <2>2, <2>3, <2>4
<1> QED BY <1>3, <1>4, <1>5 DEF InPlace

LEMMA PlaceMain ==
    ASSUME IInv, InPlace,
           \/ \E p \in Path : \E r \in 1 .. Len(Content[p]) : PutMeta(p, r)
           \/ \E c \in Chunk : PutChunk(c) \/ Evict(c)
           \/ PeriodicAssemble
           \/ Restart
    PROVE  InPlace'
<1>1. ASSUME NEW p \in Path, NEW r \in 1 .. Len(Content[p]), PutMeta(p, r) PROVE InPlace'
  <2>1. \A q \in Path : assembled'[q] => assembled[q]
    BY <1>1 DEF PutMeta, IInv, TypeOK
  <2> QED BY <1>1, <2>1, PlaceSame DEF PutMeta
<1>2. ASSUME NEW c \in Chunk, PutChunk(c) \/ Evict(c) PROVE InPlace'
  BY <1>2, PlaceSame DEF PutChunk, Evict, indexVars
<1>3. CASE PeriodicAssemble
  BY <1>3, PlaceSame DEF PeriodicAssemble, indexVars
<1>4. CASE Restart
  <2>1. failures' # 0
    BY <1>4 DEF Restart, IInv, TypeOK
  <2>2. \A t \in Thread : worker'[t].pc = "idle"
    BY <1>4 DEF Restart, Idle
  <2> QED BY <1>4, <2>1, <2>2 DEF Restart, InPlace
<1> QED BY <1>1, <1>2, <1>3, <1>4

LEMMA PlaceStart ==
    ASSUME IInv, InPlace, NEW t \in Thread, NEW w \in threadpool, StartWorker(t, w)
    PROVE  InPlace'
<1>1. /\ worker'[t].pc = IF IsDeleted(w[1], w[2]) THEN "archive" ELSE "check"
      /\ worker'[t].path = w[1]
      /\ \A u \in Thread : u # t => worker'[u] = worker[u]
  BY StartTypes DEF IInv
<1>2. At(t, "idle") /\ (Once(w[1]) => w[2] = 1)
  BY DEF IInv, Current, StartWorker
<1>3. file' = file /\ assembled' = assembled /\ failures' = failures
  BY DEF StartWorker, indexVars
<1>4. \A p \in Path : (Landed(p)' => Landed(p)) /\ (Renaming(p) => Renaming(p)')
  BY <1>1, <1>2, <1>3 DEF Landed, Renaming, At
<1>5. \A u \in Thread : 
          worker'[u].pc \in {"check", "fetch", "rename"} /\ Once(worker'[u].path)
          => ~IsDeleted(worker'[u].path, 1)
  BY <1>1, <1>2 DEF InPlace
<1> QED BY <1>3, <1>4, <1>5 DEF InPlace

LEMMA PlaceFetch ==
    ASSUME IInv, InPlace, NEW t \in Thread, NEW c \in Chunk, FetchChunk(t, c)
    PROVE  InPlace'
<1>1. /\ At(t, "fetch") /\ ~At(t, "rename")
      /\ assembled' = assembled /\ file' = file /\ failures' = failures
  BY DEF FetchChunk, At, indexVars
<1>2. CASE worker' = [worker EXCEPT ![t] = Idle]
  BY <1>1, <1>2, PlaceFree
<1>3. CASE worker' = [worker EXCEPT ![t].got = @ \cup {c}]
  <2>1. worker[t] \in WorkerState
    BY <1>1, WorkerFacts DEF IInv, At
  <2>2. worker'[t] = [worker[t] EXCEPT !.got = @ \cup {c}]
        /\ \A u \in Thread : u # t => worker'[u] = worker[u]
    BY <1>3 DEF IInv, TypeOK
  <2>3. \A u \in Thread : worker'[u].pc = worker[u].pc /\ worker'[u].path = worker[u].path
    BY <2>1, <2>2 DEF WorkerState
  <2>4. \A p \in Path : (Landed(p)' => Landed(p)) /\ (Renaming(p) => Renaming(p)')
    BY <1>1, <2>3 DEF Landed, Renaming, At
  <2> QED BY <1>1, <2>3, <2>4 DEF InPlace
<1> QED BY <1>2, <1>3 DEF FetchChunk

LEMMA PlaceWorker ==
    ASSUME IInv, InPlace, NEW t \in Thread, WorkerStep(t) \/ Abort(t)
    PROVE  InPlace'
<1> USE DEF indexVars, storageVars
<1> DEFINE q == worker[t].path
<1>1. Working(t) => q \in Path /\ (Once(q) => worker[t].rev = 1)
  BY WorkerFacts DEF IInv, Current, Working, WorkerState
<1>2. CASE CheckChunks(t)
  <2>1. /\ Working(t) /\ At(t, "check") /\ ~At(t, "rename") /\ (Once(q) => ~IsDeleted(q, 1))
        /\ file' = file /\ assembled' = assembled /\ failures' = failures
    BY <1>2 DEF CheckChunks, Working, At, InPlace
  <2>2. CASE Goto(t, "fetch")
    BY <2>1, <2>2, PlaceGoto DEF Steps, FinalSteps
  <2>3. CASE worker' = [worker EXCEPT ![t] = Idle]
    BY <2>1, <2>3, PlaceFree
  <2> QED BY <1>2, <2>2, <2>3 DEF CheckChunks
<1>3. ASSUME NEW c \in Chunk, FetchChunk(t, c) PROVE InPlace'
  BY <1>3, PlaceFetch
<1>4. CASE Commit(t)
  <2>1. /\ Working(t) /\ ~At(t, "rename") /\ (Once(q) => ~IsDeleted(q, 1))
        /\ Goto(t, "archive")
        /\ file' = file /\ assembled' = assembled /\ failures' = failures
    BY <1>4 DEF Commit, Working, At, InPlace
  <2> QED BY <2>1, PlaceGoto DEF Steps, FinalSteps
<1>5. CASE ArchiveFile(t)
  <2>1. /\ Working(t) /\ assembled' = assembled /\ failures' = failures
        /\ Goto(t, IF IsDeleted(q, worker[t].rev) THEN "mark" ELSE "rename")
    BY <1>5 DEF ArchiveFile, Working, At
  <2>2. file'[q] = 0 /\ \A p \in Path : p # q => file'[p] = file[p]
    BY <1>1, <1>5, <2>1 DEF ArchiveFile, IInv, TypeOK
  <2>3. CASE IsDeleted(q, worker[t].rev)
    BY <1>1, <2>1, <2>2, <2>3, PlaceGoto DEF Steps
  <2>4. CASE ~IsDeleted(q, worker[t].rev)
    BY <1>1, <2>1, <2>2, <2>4, PlaceGoto DEF Steps
  <2> QED BY <2>3, <2>4
<1>6. CASE RenameFile(t)
  <2>1. /\ Working(t) /\ assembled' = assembled /\ failures' = failures
        /\ Goto(t, "mark") /\ (Once(q) => ~IsDeleted(q, 1))
    BY <1>6 DEF RenameFile, Working, At, InPlace
  <2>2. (Once(q) => file'[q] = 1) /\ \A p \in Path : p # q => file'[p] = file[p]
    BY <1>1, <1>6, <2>1 DEF RenameFile, IInv, TypeOK
  <2> QED BY <2>1, <2>2, PlaceGoto DEF Steps
<1>7. CASE RenameFails(t)
  BY <1>7, PlaceFree DEF RenameFails
<1>8. CASE MarkMeta(t)
  <2>1. /\ Working(t) /\ worker[t].pc \in FinalSteps /\ ~At(t, "rename")
        /\ file' = file /\ failures' = failures /\ Goto(t, "mark_openfs")
    BY <1>8 DEF MarkMeta, Working, At, FinalSteps
  <2>2. \A p \in Path : p # q => assembled'[p] = assembled[p]
    BY <1>8 DEF MarkMeta, IInv, TypeOK
  <2>3. Once(q) /\ file[q] # 0 => ~IsDeleted(q, 1)
    BY <1>1, <2>1 DEF InPlace
  <2> QED BY <2>1, <2>2, <2>3, PlaceGoto DEF Steps
<1>9. CASE MarkOpenfs(t)
  <2>1. /\ Working(t) /\ worker[t].pc \in FinalSteps /\ ~At(t, "rename") /\ assembled' = assembled
        /\ file' = file /\ failures' = failures /\ Goto(t, "cleanup")
    BY <1>9 DEF MarkOpenfs, Working, At, FinalSteps
  <2>2. Once(q) /\ file[q] # 0 => ~IsDeleted(q, 1)
    BY <1>1, <2>1 DEF InPlace
  <2> QED BY <2>1, <2>2, PlaceGoto DEF Steps
<1>10. CASE Cleanup(t)
  BY <1>10, PlaceFree DEF Cleanup, At
<1>11. CASE Abort(t)
  <2>1. failures' # 0
    BY <1>11 DEF Abort, IInv, TypeOK
  <2> QED BY <1>11, <2>1, PlaceFree DEF Abort
<1> QED BY <1>2, <1>3, <1>4, <1>5, <1>6, <1>7, <1>8, <1>9, <1>10, <1>11 DEF WorkerStep

LEMMA PlaceNext ==
    ASSUME IInv, InPlace, [Next]_vars
    PROVE  InPlace'
<1>1. CASE UNCHANGED vars
  BY <1>1, PlaceSame DEF vars, indexVars
<1> QED BY <1>1, PlaceMain, PlaceStart, PlaceWorker DEF Next

LEMMA PlaceInit == Init => InPlace
BY DEF Init, InPlace, Landed, Idle

\* As long as nothing fails: when no worker is busy with a file that is received
\* once, and however many were at a time, its Meta, if it is marked as assembled,
\* is what is on the disk, whichever other files are replaced.
THEOREM AssembledFileStays == Spec => []AssembledStaysOnDisk
<1>1. IInv /\ InPlace /\ [Next]_vars => IInv' /\ InPlace'
  BY KeepsNext, PlaceNext
<1>2. IInv /\ InPlace => AssembledStaysOnDisk
  <2> SUFFICES ASSUME IInv, InPlace, failures = 0, NEW p \in Path, Once(p), assembled[p],
                      \A t \in Thread : At(t, "idle") \/ worker[t].path # p
               PROVE  OnDisk(p, revision[p])
    BY DEF AssembledStaysOnDisk
  <2>1. revision[p] = 1
    BY DEF IInv, Current
  <2>2. ~Renaming(p)
    BY DEF Renaming, At
  <2>3. CASE IsDeleted(p, 1)
    BY <2>1, <2>3 DEF OnDisk, InPlace
  <2>4. CASE ~IsDeleted(p, 1)
    BY <2>1, <2>2, <2>4 DEF OnDisk, InPlace, Landed
  <2> QED BY <2>3, <2>4
<1> QED BY KeepsInit, PlaceInit, <1>1, <1>2, PTL DEF Spec
-----------------------------------------------------------------------------
LEMMA MinFacts ==
    ASSUME NEW S \in SUBSET Nat, S # {}
    PROVE  Min(S) \in S
<1> DEFINE Less == {ss \in Nat \X Nat : ss[1] < ss[2]}
<1>1. IsWellFoundedOn(Less, Nat)
  BY NatLessThanWellFounded DEF OpToRel
<1>2. \A i, j \in Nat : <<j, i>> \notin Less => i <= j
  OBVIOUS
<1> HIDE DEF Less
<1>3. \E i \in S : \A j \in S : ~(<<j, i>> \in Less)
  BY <1>1, WFMin
<1>4. \E i \in S : \A j \in S : i <= j
  BY <1>2, <1>3
<1> QED BY <1>4 DEF Min

\* OpenStorage::get_chunk looks for the first place of the chunk in its Meta.
LEMMA SelectFacts ==
    ASSUME NEW s \in Seq(Chunk), NEW i \in 1 .. Len(s)
    PROVE  /\ SelectInSeq(s, LAMBDA d : d = s[i]) \in 1 .. Len(s)
           /\ s[SelectInSeq(s, LAMBDA d : d = s[i])] = s[i]
<1> DEFINE I == {j \in 1 .. Len(s) : s[j] = s[i]}
<1>1. I # {} /\ I \in SUBSET Nat
  OBVIOUS
<1>2. Min(I) \in I
  <2> HIDE DEF I
  <2> QED BY <1>1, MinFacts
<1>3. SelectInSeq(s, LAMBDA d : d = s[i]) = Min(I)
  BY <1>1 DEF SelectInSeq
<1> QED BY <1>2, <1>3

\* A file that is on the disk is read where the Meta has the chunk.
LEMMA CurrentReadable ==
    ASSUME TypeOK, Revisions, NEW p \in Path, NEW c \in Chunks(p), file[p] = revision[p]
    PROVE  ReadableInFile(c)
<1> DEFINE s == Content[p][revision[p]]
<1>1. revision[p] # 0 /\ c \in ToSet(s)
  BY DEF Chunks
<1>2. revision[p] \in 1 .. Len(Content[p])
  BY <1>1, ContentAssumption DEF Revisions
<1>3. s \in Seq(Chunk)
  BY <1>2, ContentFacts
<1>4. PICK i \in 1 .. Len(s) : s[i] = c
  BY <1>1, <1>3 DEF ToSet
<1>5. /\ SelectInSeq(s, LAMBDA d : d = s[i]) \in 1 .. Len(s)
      /\ s[SelectInSeq(s, LAMBDA d : d = s[i])] = s[i]
  BY <1>3, SelectFacts
<1>6. /\ SelectInSeq(s, LAMBDA d : d = c) <= Len(s)
      /\ s[SelectInSeq(s, LAMBDA d : d = c)] = c
  BY <1>3, <1>4, <1>5
<1> QED BY <1>1, <1>6 DEF ReadableInFile

\* setAssembled marks table meta before table openfs, and putMeta takes both
\* marks away at a time.
Marked ==
    /\ \A p \in openfs : Once(p) => assembled[p]
    /\ \A t \in Thread : At(t, "mark_openfs") /\ Once(worker[t].path)
            => assembled[worker[t].path]

LEMMA MarkedNext ==
    ASSUME IInv, Marked, [Next]_vars
    PROVE  Marked'
<1> USE DEF indexVars, storageVars
<1>1. ASSUME NEW p \in Path, NEW r \in 1 .. Len(Content[p]), PutMeta(p, r) PROVE Marked'
  <2>1. Once(p) => revision[p] = 0
    BY <1>1, ContentAssumption DEF Once, PutMeta, IInv, TypeOK
  <2>2. /\ \A q \in Path : q # p => assembled'[q] = assembled[q]
        /\ openfs' = openfs \ {p} /\ openfs \subseteq Path /\ worker' = worker
    BY <1>1 DEF PutMeta, IInv, TypeOK
  <2>3. \A t \in Thread : At(t, "mark_openfs") /\ Once(worker[t].path)
            => worker[t].path # p /\ worker[t].path \in Path
    BY <2>1, WorkerFacts DEF IInv, Current, Working, At, WorkerState
  <2> QED BY <2>2, <2>3 DEF Marked, At
<1>2. ASSUME openfs' \subseteq openfs, \A p \in Path : assembled[p] => assembled'[p],
             \A t \in Thread : At(t, "mark_openfs")' => worker'[t] = worker[t]
      PROVE  Marked'
  <2>1. openfs \subseteq Path
    BY DEF IInv, TypeOK
  <2>2. \A t \in Thread : At(t, "mark_openfs") => worker[t].path \in Path
    BY WorkerFacts DEF IInv, At, WorkerState
  <2> QED BY <1>2, <2>1, <2>2 DEF Marked, At
<1>3. ASSUME \/ \E c \in Chunk : PutChunk(c) \/ Evict(c)
             \/ PeriodicAssemble
             \/ UNCHANGED vars
      PROVE  Marked'
  BY <1>2, <1>3 DEF PutChunk, Evict, PeriodicAssemble, vars
<1>4. CASE Restart
  <2>1. \A t \in Thread : ~At(t, "mark_openfs")'
    BY <1>4 DEF Restart, At, Idle
  <2> QED BY <1>2, <1>4, <2>1 DEF Restart
<1>5. ASSUME NEW t \in Thread, NEW w \in threadpool, StartWorker(t, w) PROVE Marked'
  <2>1. \A u \in Thread : At(u, "mark_openfs")' => worker'[u] = worker[u]
    BY <1>5, StartTypes DEF IInv, At
  <2> QED BY <1>2, <1>5, <2>1 DEF StartWorker
<1>6. ASSUME NEW t \in Thread, worker' = [worker EXCEPT ![t] = Idle],
             openfs' = openfs, assembled' = assembled
      PROVE  Marked'
  <2>1. \A u \in Thread : At(u, "mark_openfs")' => worker'[u] = worker[u]
    BY <1>6, FreeFacts DEF IInv, At
  <2> QED BY <1>2, <1>6, <2>1
<1>7. ASSUME NEW t \in Thread, NEW pc \in Steps \ {"mark_openfs"}, Working(t), Goto(t, pc),
             openfs' = openfs, assembled' = assembled
      PROVE  Marked'
  <2>1. \A u \in Thread : At(u, "mark_openfs")' => worker'[u] = worker[u]
    BY <1>7, GotoFacts DEF IInv, At, Working
  <2> QED BY <1>2, <1>7, <2>1
<1>8. ASSUME NEW t \in Thread, NEW c \in Chunk, FetchChunk(t, c) PROVE Marked'
  <2>1. CASE worker' = [worker EXCEPT ![t] = Idle]
    BY <1>6, <1>8, <2>1 DEF FetchChunk
  <2>2. CASE worker' = [worker EXCEPT ![t].got = @ \cup {c}]
    <3>1. worker[t] \in WorkerState /\ At(t, "fetch")
      BY <1>8, WorkerFacts DEF FetchChunk, IInv, At
    <3>2. worker'[t].pc = "fetch" /\ \A u \in Thread : u # t => worker'[u] = worker[u]
      BY <2>2, <3>1 DEF IInv, TypeOK, At, WorkerState
    <3>3. \A u \in Thread : At(u, "mark_openfs")' => worker'[u] = worker[u]
      BY <3>2 DEF At
    <3> QED BY <1>2, <1>8, <3>3 DEF FetchChunk
  <2> QED BY <1>8, <2>1, <2>2 DEF FetchChunk
<1>9. ASSUME NEW t \in Thread, MarkMeta(t) PROVE Marked'
  <2>1. Working(t) /\ worker[t].path \in Path
    BY <1>9, WorkerFacts DEF MarkMeta, IInv, Working, At, WorkerState
  <2>2. /\ worker'[t].path = worker[t].path
        /\ \A u \in Thread : u # t => worker'[u] = worker[u]
    BY <1>9, <2>1, GotoFacts DEF MarkMeta, IInv, Working, Steps
  <2>3. /\ assembled'[worker[t].path] /\ openfs' = openfs /\ openfs \subseteq Path
        /\ \A p \in Path : assembled[p] => assembled'[p]
    BY <1>9, <2>1 DEF MarkMeta, IInv, TypeOK
  <2>4. \A u \in Thread : At(u, "mark_openfs") => worker[u].path \in Path
    BY WorkerFacts DEF IInv, At, WorkerState
  <2> QED BY <2>2, <2>3, <2>4 DEF Marked, At
<1>10. ASSUME NEW t \in Thread, MarkOpenfs(t) PROVE Marked'
  <2>1. \A u \in Thread : At(u, "mark_openfs")' => worker'[u] = worker[u]
    BY <1>10, GotoFacts DEF MarkOpenfs, IInv, At, Steps
  <2>2. openfs' = openfs \cup {worker[t].path} /\ assembled' = assembled /\ At(t, "mark_openfs")
    BY <1>10 DEF MarkOpenfs
  <2> QED BY <2>1, <2>2 DEF Marked, At
<1>11. ASSUME NEW t \in Thread, WorkerStep(t) \/ Abort(t) PROVE Marked'
  <2>1. CASE CheckChunks(t)
    BY <1>6, <1>7, <2>1 DEF CheckChunks, Steps, Working, At
  <2>2. CASE Commit(t)
    BY <1>7, <2>2 DEF Commit, Steps, Working, At
  <2>3. CASE ArchiveFile(t)
    BY <1>7, <2>3 DEF ArchiveFile, Steps, Working, At
  <2>4. CASE RenameFile(t)
    BY <1>7, <2>4 DEF RenameFile, Steps, Working, At
  <2>5. CASE RenameFails(t) \/ Cleanup(t) \/ Abort(t)
    BY <1>6, <2>5 DEF RenameFails, Cleanup, Abort
  <2> QED BY <1>8, <1>9, <1>10, <1>11, <2>1, <2>2, <2>3, <2>4, <2>5 DEF WorkerStep
<1> QED BY <1>1, <1>3, <1>4, <1>5, <1>11 DEF Next

\* As long as nothing fails, every chunk of the files that are received once that
\* have_chunk finds can be got by get_chunk, unless a worker is busy with a file
\* that has it: the marks of table openfs never promise what is not on the disk.
THEOREM HadChunksReadable == Spec => []HadIsObtainable
<1>1. IInv /\ InPlace /\ Marked /\ [Next]_vars => IInv' /\ InPlace' /\ Marked'
  BY KeepsNext, PlaceNext, MarkedNext
<1>2. Init => Marked
  BY DEF Init, Marked, At, Idle
<1>3. IInv /\ InPlace /\ Marked => HadIsObtainable
  <2> SUFFICES ASSUME IInv, InPlace, Marked, failures = 0, NEW c \in Chunk,
                      OwnedOnce(c), isAssembledChunk(c),
                      \A t \in Thread : At(t, "idle") \/ c \notin WorkerChunks(t)
               PROVE  ReadableInFile(c)
    BY DEF HadIsObtainable, have_chunk, Obtainable
  <2>1. PICK p \in openfs : c \in Chunks(p)
    BY DEF isAssembledChunk
  <2>2. p \in Path
    BY DEF IInv, TypeOK
  <2>3. Once(p) /\ revision[p] = 1 /\ assembled[p]
    BY <2>1, <2>2, OwnedFacts DEF IInv, Marked
  <2>4. ASSUME NEW t \in Thread, ~At(t, "idle") PROVE worker[t].path # p
    BY <2>1, <2>3, <2>4 DEF IInv, Current, Working, WorkerChunks, Chunks
  <2>5. ~Renaming(p)
    BY <2>4 DEF Renaming, At
  <2>6. ~IsDeleted(p, 1)
    BY <2>1, <2>3 DEF IsDeleted, Chunks, ToSet
  <2>7. file[p] = 1
    BY <2>2, <2>3, <2>5, <2>6 DEF InPlace, Landed
  <2> QED BY <2>1, <2>2, <2>3, <2>7, CurrentReadable DEF IInv
<1> QED BY KeepsInit, PlaceInit, <1>1, <1>2, <1>3, PTL DEF Spec
=============================================================================
