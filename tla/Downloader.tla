----------------------------- MODULE Downloader -----------------------------
(***************************************************************************)
(* Downloader (daemon/folder/transfer/Downloader.cpp): the chunks a folder *)
(* is missing, who owns them, and the block requests sent for them.  Every *)
(* handler runs on the Qt main thread, one at a time.                      *)
(*                                                                         *)
(* The fields of a DownloadChunk are functions of its chunk: free is its   *)
(* builder's AvailabilityMap, kept as the set of bytes not yet received    *)
(* (ContainersProofs shows the map is such a set), requests and            *)
(* owned_by are the hashes of the same names.  The queue of chunks holds   *)
(* the same keys as down_chunks_ and is modelled by its order being        *)
(* arbitrary; WeightedChunkQueue is about that order.                      *)
(***************************************************************************)
EXTENDS Integers, FiniteSets

CONSTANTS
    Remote,             \* RemoteFolder objects
    Chunk,              \* ct_hashes
    ChunkSize,          \* padded size of each chunk, in bytes
    Meta,               \* chunk lists of the Metas that may be indexed
    BlockSizes,         \* values p2p_block_size is given
    Slots,              \* p2p_download_slots
    RequestTimeout,     \* p2p_request_timeout, in ticks
    MaxMetaEvents       \* bound: how many Metas are indexed in a behaviour

ASSUME ChunkSizeAssumption == ChunkSize \in [Chunk -> Nat \ {0}]
ASSUME MetaAssumption == Meta \subseteq SUBSET Chunk
ASSUME BlockSizesAssumption == BlockSizes \subseteq Nat \ {0}
ASSUME SlotsAssumption == Slots \in Nat
ASSUME TimeoutAssumption == RequestTimeout \in Nat
ASSUME MaxMetaEventsAssumption == MaxMetaEvents \in Nat

VARIABLES
    remotes,            \* remotes_: the peers between trackRemote and untrackRemote
    peer_choking,       \* RemoteFolder::peer_choking_ of each remote
    am_interested,      \* RemoteFolder::am_interested_ of each remote
    down_chunks,        \* keys of down_chunks_
    free,               \* bytes of each chunk not received yet
    owned_by,           \* remotes each chunk's DownloadChunk holds a guard for
    requests,           \* outstanding BlockRequests of all chunks
    p2p_block_size,     \* the global of that name
    timers,             \* a singleShot(0) call of maintainRequests is queued
    pc,                 \* "idle", or "maintain" inside maintainRequests
    meta_events         \* how many Metas were indexed

vars == <<remotes, peer_choking, am_interested, down_chunks, free, owned_by,
          requests, p2p_block_size, timers, pc, meta_events>>

\* The state of one connection, and of one queued chunk.
peerVars == <<remotes, peer_choking>>
chunkVars == <<down_chunks, free, owned_by>>

AllBytes(c) == 0 .. (ChunkSize[c] - 1)

Bytes(q) == q.offset .. (q.offset + q.size - 1)

\* Faulty: outstanding requests are not taken out.
MutRequestMap(c) == free[c]

\* DownloadChunk::requestMap: the received bytes and the requested ones are
\* taken out of the chunk.
requestMap(c) ==
    free[c] \ UNION {Bytes(q) : q \in {p \in requests : p.chunk = c}}

\* begin() of a requestMap: its first free byte, and the byte its range
\* ends before.
First(S) == CHOOSE i \in S : \A j \in S : i <= j

RunEnd(c, i) == First({j \in (i + 1) .. ChunkSize[c] : j \notin requestMap(c)})

\* Faulty: the last block of a range is one byte short.
MutBlockLength(c, i) ==
    IF RunEnd(c, i) - i < p2p_block_size THEN RunEnd(c, i) - i - 1 ELSE p2p_block_size

\* The block to ask for at byte i: the range, up to p2p_block_size.
BlockLength(c, i) ==
    IF RunEnd(c, i) - i < p2p_block_size THEN RunEnd(c, i) - i ELSE p2p_block_size

-----------------------------------------------------------------------------
\* The remotes that some DownloadChunk holds an InterestGuard for.
Guarded(owners) == {r \in Remote : \E c \in Chunk : r \in owners[c]}

\* Faulty: a guard leaks.
MutReleaseGuards == UNCHANGED am_interested

\* The last reference to a remote's guard goes away: ~InterestGuard calls
\* uninterest().
ReleaseGuards ==
    am_interested' =
        [r \in Remote |->
            am_interested[r] /\ ~(r \in Guarded(owned_by) /\ r \notin Guarded(owned_by'))]

Init == /\ remotes = {}
        /\ peer_choking = [r \in Remote |-> TRUE]
        /\ am_interested = [r \in Remote |-> FALSE]
        /\ down_chunks = {}
        /\ free = [c \in Chunk |-> {}]
        /\ owned_by = [c \in Chunk |-> {}]
        /\ requests = {}
        /\ p2p_block_size \in BlockSizes
        /\ timers = FALSE
        /\ pc = "idle"
        /\ meta_events = 0

\* removeChunk for every chunk of Gone and addChunk for every chunk of New.
\* addChunk puts a fresh DownloadChunk in the place of one already there:
\* its received bytes, its requests and its owners are forgotten.
ReplaceChunks(Gone, New) ==
    /\ down_chunks' = (down_chunks \ Gone) \cup New
    /\ free' = [c \in Chunk |-> IF c \in New THEN AllBytes(c)
                                ELSE IF c \in Gone THEN {} ELSE free[c]]
    /\ owned_by' = [c \in Chunk |-> IF c \in Gone \cup New THEN {} ELSE owned_by[c]]
    /\ requests' = {q \in requests : q.chunk \notin Gone \cup New}
    /\ ReleaseGuards

\* FolderGroup::handle_indexed_meta: a Meta with the chunks m was put into
\* the index.  have is its bitfield, the chunks ChunkStorage has by now: it
\* gains chunks by indexing and assembling files, and loses them when a file
\* is replaced.
NotifyLocalMeta(m, have) ==
    /\ pc = "idle"
    /\ meta_events < MaxMetaEvents
    /\ ReplaceChunks(have, m \ have)
    /\ meta_events' = meta_events + 1
    /\ UNCHANGED <<peerVars, p2p_block_size, timers, pc>>

\* A handshake succeeded: FolderGroup::handle_handshake tracks a new
\* RemoteFolder object.
TrackRemote(r) ==
    /\ pc = "idle"
    /\ r \notin remotes
    /\ remotes' = remotes \cup {r}
    /\ peer_choking' = [peer_choking EXCEPT ![r] = TRUE]
    /\ am_interested' = [am_interested EXCEPT ![r] = FALSE]
    /\ UNCHANGED <<chunkVars, requests, p2p_block_size,
                   timers, pc, meta_events>>

\* Faulty: the owners are not updated.
MutUntrackRemote(r) ==
    /\ pc = "idle"
    /\ r \in remotes
    /\ requests' = {q \in requests : q.remote # r}
    /\ remotes' = remotes \ {r}
    /\ UNCHANGED <<am_interested, peer_choking, chunkVars, p2p_block_size,
                   timers, pc, meta_events>>

\* FolderGroup::detach: the remote is about to be deleted.
UntrackRemote(r) ==
    /\ pc = "idle"
    /\ r \in remotes
    /\ requests' = {q \in requests : q.remote # r}
    /\ owned_by' = [c \in Chunk |-> owned_by[c] \ {r}]
    /\ ReleaseGuards
    /\ remotes' = remotes \ {r}
    /\ UNCHANGED <<peer_choking, down_chunks, free, p2p_block_size,
                   timers, pc, meta_events>>

\* The chunks a remote announces in one message: HAVE_CHUNK names one, and
\* the bitfield of HAVE_META or META_REPLY some of a Meta's.
Announcements == {{c} : c \in Chunk} \cup UNION {SUBSET m : m \in Meta}

\* notifyRemoteMeta and notifyRemoteChunk: the remote owns the chunks of S.
\* get_interest_guard calls interest() unless the remote has a guard.
NotifyRemoteChunks(r, S) ==
    /\ pc = "idle"
    /\ r \in remotes
    /\ S \cap down_chunks # {}
    /\ owned_by' = [c \in Chunk |-> IF c \in S \cap down_chunks
                                    THEN owned_by[c] \cup {r} ELSE owned_by[c]]
    /\ am_interested' = [am_interested EXCEPT ![r] = @ \/ r \notin Guarded(owned_by)]
    /\ timers' = TRUE
    /\ UNCHANGED <<peerVars, down_chunks, free, requests, p2p_block_size,
                   pc, meta_events>>

\* Faulty: the requests at the remote are kept.
MutHandleChoke(r) ==
    /\ pc = "idle"
    /\ r \in remotes
    /\ ~peer_choking[r]
    /\ peer_choking' = [peer_choking EXCEPT ![r] = TRUE]
    /\ timers' = TRUE
    /\ UNCHANGED <<remotes, am_interested, chunkVars, requests, p2p_block_size, pc, meta_events>>

\* P2PFolder::handle_Choke and Downloader::handleChoke.
HandleChoke(r) ==
    /\ pc = "idle"
    /\ r \in remotes
    /\ ~peer_choking[r]
    /\ peer_choking' = [peer_choking EXCEPT ![r] = TRUE]
    /\ requests' = {q \in requests : q.remote # r}
    /\ timers' = TRUE
    /\ UNCHANGED <<remotes, am_interested, chunkVars, p2p_block_size,
                   pc, meta_events>>

\* P2PFolder::handle_Unchoke and Downloader::handleUnchoke.
HandleUnchoke(r) ==
    /\ pc = "idle"
    /\ r \in remotes
    /\ peer_choking[r]
    /\ peer_choking' = [peer_choking EXCEPT ![r] = FALSE]
    /\ timers' = TRUE
    /\ UNCHANGED <<remotes, am_interested, chunkVars, requests, p2p_block_size, pc, meta_events>>

\* The requests a BLOCK_REPLY of n bytes at offset o answers.
Answered(r, c, o, n) ==
    {q \in requests : /\ q.chunk = c
                      /\ q.remote = r
                      /\ q.offset = o
                      /\ q.size = n}

\* putBlock accepts a block that does not complete its chunk.
PutBlockPartial(r, c, o, n) ==
    LET got == Answered(r, c, o, n) IN
    /\ got # {}
    /\ free[c] \ (o .. (o + n - 1)) # {}
    /\ free' = [free EXCEPT ![c] = @ \ (o .. (o + n - 1))]
    /\ requests' = requests \ got
    /\ timers' = TRUE
    /\ UNCHANGED <<peerVars, am_interested, down_chunks, owned_by, p2p_block_size, pc, meta_events>>

\* Faulty: the complete chunk is not removed in the same handler.
MutPutBlockComplete(r, c, o, n) ==
    /\ Answered(r, c, o, n) # {}
    /\ free[c] \ (o .. (o + n - 1)) = {}
    /\ free' = [free EXCEPT ![c] = {}]
    /\ requests' = requests \ Answered(r, c, o, n)
    /\ timers' = TRUE
    /\ UNCHANGED <<peerVars, am_interested, down_chunks, owned_by, p2p_block_size, pc, meta_events>>

\* The block completes its chunk: chunkDownloaded reaches
\* ChunkStorage::put_chunk, whose chunkAdded comes back within the call as
\* notifyLocalChunk, which removes the chunk.
PutBlockComplete(r, c, o, n) ==
    /\ Answered(r, c, o, n) # {}
    /\ free[c] \ (o .. (o + n - 1)) = {}
    /\ ReplaceChunks({c}, {})
    /\ timers' = TRUE
    /\ UNCHANGED <<peerVars, p2p_block_size, pc, meta_events>>

\* putBlock answers no request: late, unsolicited, or of the wrong size.
PutBlockUnmatched(r, c, o, n) ==
    /\ Answered(r, c, o, n) = {}
    /\ timers' = TRUE
    /\ UNCHANGED <<peerVars, am_interested, chunkVars, requests, p2p_block_size, pc, meta_events>>

\* A BLOCK_REPLY arrives; for a chunk that is not wanted putBlock returns at
\* once.
PutBlock(r, c, o, n) ==
    /\ pc = "idle"
    /\ r \in remotes
    /\ c \in down_chunks
    /\ \/ PutBlockPartial(r, c, o, n)
       \/ PutBlockComplete(r, c, o, n)
       \/ PutBlockUnmatched(r, c, o, n)

\* Faulty: requests that timed out are not pruned.
MutMaintainStart ==
    /\ pc = "idle"
    /\ pc' = "maintain"
    /\ timers' = FALSE
    /\ UNCHANGED <<peerVars, am_interested, chunkVars, requests, p2p_block_size, meta_events>>

\* maintainRequests starts, from its periodic timer or a queued singleShot:
\* it prunes the requests older than the timeout.
MaintainStart ==
    /\ pc = "idle"
    /\ pc' = "maintain"
    /\ timers' = FALSE
    /\ requests' = {q \in requests : q.age <= RequestTimeout}
    /\ UNCHANGED <<peerVars, am_interested, chunkVars, p2p_block_size,
                   meta_events>>

\* nodeForRequest: an owner that does not choke us.  Tracked remotes are
\* ready().
NodesForRequest(c) == {r \in owned_by[c] : ~peer_choking[r]}

Requestable == {c \in down_chunks : NodesForRequest(c) # {} /\ requestMap(c) # {}}

countRequests == Cardinality(requests)

\* Faulty: one request more than there are slots.
MutRequestOne(c, r) ==
    /\ pc = "maintain"
    /\ countRequests <= Slots
    /\ c \in Requestable
    /\ r \in NodesForRequest(c)
    /\ LET i == First(requestMap(c)) IN
        requests' = requests \cup
            {[chunk |-> c, remote |-> r, offset |-> i,
              size |-> BlockLength(c, i), age |-> 0]}
    /\ UNCHANGED <<peerVars, am_interested, chunkVars, p2p_block_size,
                   timers, pc, meta_events>>

\* requestOne: the first free bytes of some chunk are asked of one of its
\* owners.
RequestOne(c, r) ==
    /\ pc = "maintain"
    /\ countRequests < Slots
    /\ c \in Requestable
    /\ r \in NodesForRequest(c)
    /\ LET i == First(requestMap(c)) IN
        requests' = requests \cup
            {[chunk |-> c, remote |-> r, offset |-> i,
              size |-> BlockLength(c, i), age |-> 0]}
    /\ UNCHANGED <<peerVars, am_interested, chunkVars, p2p_block_size,
                   timers, pc, meta_events>>

\* The loop ends: every slot is used, or requestOne found nothing to ask.
MaintainEnd ==
    /\ pc = "maintain"
    /\ countRequests >= Slots \/ Requestable = {}
    /\ pc' = "idle"
    /\ UNCHANGED <<peerVars, am_interested, chunkVars, requests, p2p_block_size, timers, meta_events>>

\* A request one tick after: past the timeout its age no longer matters.
Older(q) == [q EXCEPT !.age = IF @ <= RequestTimeout THEN @ + 1 ELSE @]

\* Time passes between two handlers.
Tick ==
    /\ pc = "idle"
    /\ \E q \in requests : q.age <= RequestTimeout
    /\ requests' = {Older(q) : q \in requests}
    /\ UNCHANGED <<peerVars, am_interested, chunkVars, p2p_block_size,
                   timers, pc, meta_events>>

\* The control interface sets the global p2p_block_size.
SetBlockSize(n) ==
    /\ pc = "idle"
    /\ n # p2p_block_size
    /\ p2p_block_size' = n
    /\ UNCHANGED <<peerVars, am_interested, chunkVars, requests, timers,
                   pc, meta_events>>

Next ==
    \/ \E m \in Meta : \E have \in SUBSET m : NotifyLocalMeta(m, have)
    \/ \E r \in Remote : TrackRemote(r) \/ UntrackRemote(r)
    \/ \E r \in Remote, S \in Announcements : NotifyRemoteChunks(r, S)
    \/ \E r \in Remote : HandleChoke(r) \/ HandleUnchoke(r)
    \/ \E r \in Remote, c \in Chunk : \E o \in AllBytes(c) :
            \E n \in 1 .. ChunkSize[c] : PutBlock(r, c, o, n)
    \/ MaintainStart
    \/ \E r \in Remote, c \in Chunk : RequestOne(c, r)
    \/ MaintainEnd
    \/ Tick
    \/ \E n \in BlockSizes : SetBlockSize(n)

Spec == Init /\ [][Next]_vars
-----------------------------------------------------------------------------
Request == [chunk : Chunk, remote : Remote, offset : Nat, size : Nat \ {0},
            age : 0 .. RequestTimeout + 1]

\* Every variable keeps its type.
TypeOK ==
    /\ remotes \subseteq Remote
    /\ peer_choking \in [Remote -> BOOLEAN]
    /\ am_interested \in [Remote -> BOOLEAN]
    /\ down_chunks \subseteq Chunk
    /\ free \in [Chunk -> SUBSET Nat]
    /\ owned_by \in [Chunk -> SUBSET Remote]
    /\ requests \subseteq Request
    /\ p2p_block_size \in BlockSizes
    /\ timers \in BOOLEAN
    /\ pc \in {"idle", "maintain"}
    /\ meta_events \in 0 .. MaxMetaEvents

\* A request asks only for bytes not received yet, inside its chunk, and no
\* byte is asked for twice at a time.  So a reply answers at most one request,
\* ChunkFileBuilder::put_block never refuses it, and a chunk is released once.
RequestsDisjoint ==
    /\ \A q \in requests : q.chunk \in down_chunks /\ Bytes(q) \subseteq free[q.chunk]
    /\ \A q, p \in requests :
        q # p /\ q.chunk = p.chunk => Bytes(q) \cap Bytes(p) = {}

\* A wanted chunk always misses a byte that lies inside it: it leaves
\* down_chunks_ in the very handler that receives its last byte.
QueuedIncomplete ==
    \A c \in down_chunks : free[c] # {} /\ free[c] \subseteq AllBytes(c)

\* No request and no owner entry holds a pointer to a remote that was
\* untracked: FolderGroup::detach precedes the deletion of the object, and
\* nodeForRequest dereferences the keys of owned_by.
NoDanglingRemote ==
    /\ \A c \in Chunk : owned_by[c] \subseteq remotes
    /\ \A q \in requests : q.remote \in remotes

\* Requests are only outstanding at remotes that do not choke us and that
\* still own the chunk.
RequestsAnswerable ==
    \A q \in requests : ~peer_choking[q.remote] /\ q.remote \in owned_by[q.chunk]

\* We are interested in a remote exactly while some wanted chunk is owned by
\* it: the reference counted InterestGuards neither leak nor expire early.
InterestExact ==
    \A r \in Remote : am_interested[r] <=> r \in Guarded(owned_by)

\* p2p_download_slots bounds the outstanding requests.
SlotsRespected == countRequests <= Slots
-----------------------------------------------------------------------------
\* A peer that does not choke us answers a request before it times out.
AnswerRequest(c) ==
    \E q \in requests :
        /\ q.chunk = c
        /\ q.age <= RequestTimeout
        /\ PutBlock(q.remote, c, q.offset, q.size)

\* The periodic timer keeps calling maintainRequests, a handler that started
\* finishes, and the requests for a chunk that keep being outstanding are
\* not all ignored: one of them is answered in time.
Fairness ==
    /\ WF_vars(MaintainStart)
    /\ WF_vars(MaintainEnd \/ \E r \in Remote, c \in Chunk : RequestOne(c, r))
    /\ \A c \in Chunk : SF_vars(AnswerRequest(c))

FairSpec == Spec /\ Fairness

\* A wanted chunk is not starved: it cannot stay queued for ever while a
\* remote that owns it does not choke us, whatever other chunks compete for
\* the slots, other owners choke or leave, requests time out or the block
\* size changes.
NoStarvation ==
    \A c \in Chunk, r \in Remote :
        ~<>[](c \in down_chunks /\ r \in owned_by[c] /\ ~peer_choking[r])
=============================================================================
