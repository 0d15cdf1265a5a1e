------------------------- MODULE WeightedChunkQueue -------------------------
(***************************************************************************)
(* WeightedChunkQueue (daemon/folder/transfer/downloader): the weight of   *)
(* every wanted chunk, which orders the requests, driven by the calls that *)
(* the handlers of Downloader make.                                        *)
(*                                                                         *)
(* A weight's value is a float.  With remotes_count = 0 it is a quotient   *)
(* by zero: NaN if owned_by is 0 too and minus infinity otherwise.  All    *)
(* other values are multiples of 1/remotes_count and compare exactly.      *)
(* markImmediate has no caller, so immediate is always false.              *)
(***************************************************************************)
EXTENDS Integers, FiniteSets

CONSTANTS
    Remote,             \* RemoteFolder objects
    Chunk,              \* ct_hashes
    Meta                \* chunk lists of the Metas that may be indexed

ASSUME MetaAssumption == Meta \subseteq SUBSET Chunk

VARIABLES
    remotes,            \* Downloader::remotes_
    owned_by,           \* DownloadChunk::owned_by of each wanted chunk
    queue,              \* weight_ordered_chunks_: chunk |-> Weight
    index               \* the Metas in the index

queueVars == <<remotes, owned_by, queue, index>>

CLUSTERED_COEFFICIENT == 10
RARITY_COEFFICIENT == 25

\* Weight(): what addChunk inserts.
NewWeight == [clustered |-> FALSE, owned_by |-> 0, remotes_count |-> 0]

IsNaN(w) == w.remotes_count = 0 /\ w.owned_by = 0
IsMinusInfinity(w) == w.remotes_count = 0 /\ w.owned_by # 0

\* Weight::value of a finite weight, times its remotes_count.
Numerator(w) ==
    (IF w.clustered THEN CLUSTERED_COEFFICIENT ELSE 0) * w.remotes_count
        + RARITY_COEFFICIENT * (w.remotes_count - w.owned_by)

\* Weight::operator==, which compares the values.
SameValue(v, w) ==
    /\ ~IsNaN(v) /\ ~IsNaN(w)
    /\ IsMinusInfinity(v) <=> IsMinusInfinity(w)
    /\ Numerator(v) * w.remotes_count = Numerator(w) * v.remotes_count

\* reweightChunk: an entry is replaced unless the weights compare equal.
reweightChunk(v, w) == IF SameValue(v, w) THEN v ELSE w

\* Faulty: the counts of owners are not updated.
MutSetOwnersCount(q, owners) == q

\* setRemotesCount(chunk, count), for every chunk of the queue q.
SetOwnersCount(q, owners) ==
    [c \in DOMAIN q |->
        reweightChunk(q[c], [q[c] EXCEPT !.owned_by = Cardinality(owners[c])])]

\* setRemotesCount(count): the queue is built anew.
SetRemotesCount(q, count) == [c \in DOMAIN q |-> [q[c] EXCEPT !.remotes_count = count]]

\* markClustered, for the queued chunks of S.
MarkClustered(q, S) ==
    [c \in DOMAIN q |->
        IF c \in S THEN reweightChunk(q[c], [q[c] EXCEPT !.clustered = TRUE]) ELSE q[c]]

\* addChunk keeps the weight of a chunk that is queued already.
AddChunks(q, S) == [c \in DOMAIN q \cup S |-> IF c \in DOMAIN q THEN q[c] ELSE NewWeight]

RemoveChunks(q, S) == [c \in DOMAIN q \ S |-> q[c]]

\* getCluster and getMetaCluster: the chunks of the Metas that contain one
\* of S.
Cluster(ix, S) == UNION {m \in ix : m \cap S # {}}
-----------------------------------------------------------------------------
QueueInit ==
    /\ remotes = {}
    /\ owned_by = [c \in Chunk |-> {}]
    /\ queue = [c \in {} |-> NewWeight]
    /\ index = {}

\* Downloader::notifyLocalMeta of a Meta that was put into the index.
NotifyLocalMeta(m, have) ==
    LET missing == m \ have
        q == AddChunks(RemoveChunks(queue, have), missing)
        S == IF have # {} /\ missing # {} THEN Cluster(index \cup {m}, missing) ELSE {}
    IN  /\ index' = index \cup {m}
        /\ owned_by' = [c \in Chunk |-> IF c \in m THEN {} ELSE owned_by[c]]
        /\ queue' = MarkClustered(q, S)
        /\ UNCHANGED remotes

\* Downloader::notifyLocalChunk: ChunkStorage got the chunk.
NotifyLocalChunk(c) ==
    LET q == RemoveChunks(queue, {c})
        S == Cluster(index, {c})
    IN  /\ c \in DOMAIN queue
        /\ owned_by' = [owned_by EXCEPT ![c] = {}]
        /\ queue' = MarkClustered(q, S)
        /\ UNCHANGED <<remotes, index>>

\* Downloader::notifyRemoteMeta and notifyRemoteChunk: the remote owns the
\* chunks of S.
NotifyRemoteChunks(r, S) ==
    /\ r \in remotes
    /\ S \cap DOMAIN queue # {}
    /\ owned_by' = [c \in Chunk |-> IF c \in S \cap DOMAIN queue
                                    THEN owned_by[c] \cup {r} ELSE owned_by[c]]
    /\ queue' = [c \in DOMAIN queue |->
                    IF c \in S
                    THEN reweightChunk(queue[c],
                            [queue[c] EXCEPT !.owned_by = Cardinality(owned_by'[c])])
                    ELSE queue[c]]
    /\ UNCHANGED <<remotes, index>>

TrackRemote(r) ==
    /\ r \notin remotes
    /\ remotes' = remotes \cup {r}
    /\ queue' = SetRemotesCount(queue, Cardinality(remotes'))
    /\ UNCHANGED <<owned_by, index>>

UntrackRemote(r) ==
    /\ r \in remotes
    /\ remotes' = remotes \ {r}
    /\ owned_by' = [c \in Chunk |-> owned_by[c] \ {r}]
    /\ queue' = SetRemotesCount(SetOwnersCount(queue, owned_by'), Cardinality(remotes'))
    /\ UNCHANGED index

QueueNext ==
    \/ \E m \in Meta : \E have \in SUBSET m : NotifyLocalMeta(m, have)
    \/ \E c \in Chunk : NotifyLocalChunk(c)
    \/ \E r \in Remote : \E m \in Meta : \E S \in SUBSET m : NotifyRemoteChunks(r, S)
    \/ \E r \in Remote : TrackRemote(r) \/ UntrackRemote(r)

QueueSpec == QueueInit /\ [][QueueNext]_queueVars
-----------------------------------------------------------------------------
Weight == [clustered : BOOLEAN, owned_by : Nat, remotes_count : Nat]

\* Every variable keeps its type, and only queued chunks have owners.
QueueTypeOK ==
    /\ remotes \subseteq Remote
    /\ queue \in [DOMAIN queue -> Weight]
    /\ owned_by \in [Chunk -> SUBSET Remote]
    /\ \A c \in Chunk : owned_by[c] # {} => c \in DOMAIN queue
    /\ index \subseteq Meta

\* The remotes_count of a queued chunk is the number of tracked remotes, or 0
\* since it was added: finite values are all taken over the same count, so
\* the multiset's order is a strict weak one among them.
RemotesCountUniform ==
    \A c \in DOMAIN queue : queue[c].remotes_count \in {0, Cardinality(remotes)}

\* The rarity of a chunk is a fraction: no more owners are counted than
\* there are remotes, although addChunk leaves the count of a replaced
\* DownloadChunk in place and equal values are not written.
RarityInRange ==
    \A c \in DOMAIN queue :
        queue[c].remotes_count > 0 => queue[c].owned_by \in 0 .. queue[c].remotes_count

\* The counts of all weights can be compared, in spite of updates that are
\* skipped because the values are equal.
CountsConsistent == RemotesCountUniform /\ RarityInRange
=============================================================================
