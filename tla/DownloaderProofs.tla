-------------------------- MODULE DownloaderProofs --------------------------
(***************************************************************************)
(* Proofs about Downloader for any number of remotes and chunks, any chunk *)
(* sizes and any values of the globals: the safety invariants that the     *)
(* runs check on a small instance hold in every reachable state.           *)
(***************************************************************************)
EXTENDS Downloader, FiniteSetTheorems, WellFoundedInduction, TLAPS

\* First picks the least byte of a set of bytes.
LEMMA FirstIsLeast ==
    ASSUME NEW S \in SUBSET Nat, S # {}
    PROVE  First(S) \in S /\ \A j \in S : First(S) <= j
<1> DEFINE Less == {ss \in Nat \X Nat : ss[1] < ss[2]}
<1>1. OpToRel(<, Nat) = Less
  BY Zenon DEF OpToRel
<1>2. \E i \in S : \A j \in S : ~(<<j, i>> \in Less)
  BY <1>1, NatLessThanWellFounded, WFMin
<1>3. \A i, j \in Nat : ~(<<j, i>> \in Less) => i <= j
  OBVIOUS
<1> HIDE DEF Less
<1>4. \E i \in S : \A j \in S : i <= j
  BY <1>2, <1>3
<1> QED BY <1>4 DEF First

\* requestOne asks for a non-empty block of bytes that are neither received
\* nor requested: the range that begin() of the requestMap returns.
LEMMA BlockIsFree ==
    ASSUME TypeOK, QueuedIncomplete, NEW c \in Requestable
    PROVE  LET i == First(requestMap(c)) IN
             /\ i \in Nat
             /\ BlockLength(c, i) \in Nat \ {0}
             /\ (i .. (i + BlockLength(c, i) - 1)) \subseteq requestMap(c)
<1> DEFINE S == requestMap(c)
           i == First(S)
           T == {j \in (i + 1) .. ChunkSize[c] : j \notin S}
<1>1. /\ c \in down_chunks /\ c \in Chunk /\ S # {}
      /\ ChunkSize[c] \in Nat \ {0}
      /\ p2p_block_size \in Nat \ {0}
  BY ChunkSizeAssumption, BlockSizesAssumption DEF Requestable, TypeOK
<1>2. S \subseteq 0 .. (ChunkSize[c] - 1)
  BY <1>1 DEF requestMap, QueuedIncomplete, AllBytes
<1>3. S \in SUBSET Nat
  BY <1>1, <1>2
<1>4. i \in S /\ i \in Nat
  BY <1>1, <1>3, FirstIsLeast
<1>5. T \in SUBSET Nat /\ ChunkSize[c] \in T
  BY <1>1, <1>2, <1>4
<1>6. First(T) \in T /\ \A j \in T : First(T) <= j
  BY <1>5, FirstIsLeast
<1>7. RunEnd(c, i) = First(T)
  BY DEF RunEnd
<1> DEFINE e == RunEnd(c, i)
<1>8. e \in Nat /\ e > i /\ e <= ChunkSize[c]
  BY <1>1, <1>4, <1>6, <1>7
<1>9. \A j \in Nat : i <= j /\ j < e => j \in S
  <2> SUFFICES ASSUME NEW j \in Nat, i <= j, j < e, j \notin S PROVE FALSE
    OBVIOUS
  <2>1. j # i
    BY <1>4
  <2>2. j \in (i + 1) .. ChunkSize[c]
    BY <2>1, <1>1, <1>4, <1>8
  <2>3. j \in T
    BY <2>2
  <2> QED BY <2>3, <1>6, <1>7, <1>8
<1> HIDE DEF S, T, i, e
<1>10. /\ BlockLength(c, i) \in Nat \ {0}
       /\ i + BlockLength(c, i) <= e
  BY <1>1, <1>4, <1>8 DEF BlockLength, e
<1>11. (i .. (i + BlockLength(c, i) - 1)) \subseteq S
  BY <1>4, <1>8, <1>9, <1>10
<1> QED BY <1>4, <1>10, <1>11 DEF S, i

\* The inductive invariant: the invariants need one another, and the count
\* of the requests needs their set to be finite.
IInv == /\ TypeOK
        /\ RequestsDisjoint
        /\ QueuedIncomplete
        /\ NoDanglingRemote
        /\ RequestsAnswerable
        /\ InterestExact
        /\ IsFiniteSet(requests)
        /\ SlotsRespected

\* A freshly constructed Downloader satisfies the invariant.
LEMMA InitIInv == Init => IInv
<1> SUFFICES ASSUME Init PROVE IInv
  OBVIOUS
<1>1. TypeOK
  <2>1. /\ peer_choking \in [Remote -> BOOLEAN]
        /\ am_interested \in [Remote -> BOOLEAN]
        /\ free \in [Chunk -> SUBSET Nat]
        /\ owned_by \in [Chunk -> SUBSET Remote]
    BY DEF Init
  <2>2. meta_events \in 0 .. MaxMetaEvents
    BY MaxMetaEventsAssumption DEF Init
  <2> QED BY <2>1, <2>2 DEF Init, TypeOK
<1>2. IsFiniteSet(requests) /\ SlotsRespected
  BY FS_EmptySet, SlotsAssumption DEF Init, SlotsRespected, countRequests
<1>3. RequestsDisjoint /\ QueuedIncomplete /\ NoDanglingRemote /\ RequestsAnswerable
  BY DEF Init, RequestsDisjoint, QueuedIncomplete, NoDanglingRemote, RequestsAnswerable
<1>4. InterestExact
  BY DEF Init, InterestExact, Guarded
<1> QED BY <1>1, <1>2, <1>3, <1>4 DEF IInv

\* Dropping requests keeps their set finite and within the slots.
LEMMA FewerRequests ==
    ASSUME IsFiniteSet(requests), SlotsRespected, requests' \subseteq requests
    PROVE  IsFiniteSet(requests)' /\ SlotsRespected'
<1>1. IsFiniteSet(requests') /\ Cardinality(requests') <= Cardinality(requests)
  BY FS_Subset
<1>2. Cardinality(requests') \in Nat /\ Cardinality(requests) \in Nat
  BY <1>1, FS_CardinalityType
<1> QED BY <1>1, <1>2, SlotsAssumption DEF SlotsRespected, countRequests

\* removeChunk and addChunk, as any of the handlers calls them.
LEMMA ReplaceIInv ==
    ASSUME IInv, NEW Gone \in SUBSET Chunk, NEW New \in SUBSET Chunk,
           Gone \cap New = {}, ReplaceChunks(Gone, New),
           UNCHANGED <<peerVars, p2p_block_size, pc>>,
           timers' \in BOOLEAN, meta_events' \in 0 .. MaxMetaEvents
    PROVE  IInv'
<1> USE DEF IInv
<1>1. /\ requests' \subseteq requests
      /\ \A q \in requests' : q.chunk \notin Gone \cup New
      /\ down_chunks' = (down_chunks \ Gone) \cup New
      /\ remotes' = remotes /\ peer_choking' = peer_choking
  BY DEF ReplaceChunks, peerVars
<1>2. \A c \in Chunk : free'[c] = IF c \in New THEN AllBytes(c)
                                  ELSE IF c \in Gone THEN {} ELSE free[c]
  BY DEF ReplaceChunks
<1>3. \A c \in Chunk : owned_by'[c] = IF c \in Gone \cup New THEN {} ELSE owned_by[c]
  BY DEF ReplaceChunks
<1>4. TypeOK'
  <2>1. \A c \in Chunk : AllBytes(c) \in SUBSET Nat
    BY ChunkSizeAssumption DEF AllBytes
  <2>2. free' \in [Chunk -> SUBSET Nat]
    BY <2>1 DEF ReplaceChunks, TypeOK
  <2>3. owned_by' \in [Chunk -> SUBSET Remote]
    BY DEF ReplaceChunks, TypeOK
  <2>4. am_interested' \in [Remote -> BOOLEAN]
    BY DEF ReplaceChunks, ReleaseGuards, TypeOK
  <2> QED BY <2>2, <2>3, <2>4, <1>1 DEF TypeOK, peerVars
<1>5. RequestsDisjoint'
  <2>1. \A q \in requests' : q \in requests /\ q.chunk \in Chunk
    BY <1>1 DEF TypeOK, Request
  <2>2. \A q \in requests' : q.chunk \in down_chunks' /\ Bytes(q) \subseteq free'[q.chunk]
    BY <1>1, <1>2, <2>1 DEF RequestsDisjoint
  <2>3. \A q, p \in requests' :
          q # p /\ q.chunk = p.chunk => Bytes(q) \cap Bytes(p) = {}
    BY <2>1 DEF RequestsDisjoint
  <2> QED BY <2>2, <2>3 DEF RequestsDisjoint, Bytes
<1>6. QueuedIncomplete'
  <2>1. \A c \in New : AllBytes(c) # {}
    <3>1. \A c \in New : ChunkSize[c] \in Nat /\ ChunkSize[c] # 0
      BY ChunkSizeAssumption
    <3>2. \A c \in New : 0 \in AllBytes(c)
      BY <3>1 DEF AllBytes
    <3> QED BY <3>2
  <2>2. \A c \in down_chunks' : free'[c] # {} /\ free'[c] \subseteq AllBytes(c)
    BY <1>1, <1>2, <2>1 DEF QueuedIncomplete, TypeOK
  <2> QED BY <2>2 DEF QueuedIncomplete, AllBytes
<1>7. NoDanglingRemote'
  BY <1>1, <1>3 DEF NoDanglingRemote
<1>8. RequestsAnswerable'
  BY <1>1, <1>3 DEF RequestsAnswerable, TypeOK, Request
<1>9. InterestExact'
  <2>1. Guarded(owned_by') \subseteq Guarded(owned_by)
    BY <1>3 DEF Guarded
  <2>2. \A r \in Remote : am_interested'[r] =
            (am_interested[r] /\ ~(r \in Guarded(owned_by) /\ r \notin Guarded(owned_by')))
    BY DEF ReplaceChunks, ReleaseGuards
  <2>3. \A r \in Remote : am_interested'[r] <=> r \in Guarded(owned_by')
    BY <2>1, <2>2 DEF InterestExact
  <2> QED BY <2>3 DEF InterestExact, Guarded
<1> QED BY <1>1, <1>4, <1>5, <1>6, <1>7, <1>8, <1>9, FewerRequests

\* handle_indexed_meta keeps the invariant.
LEMMA NotifyLocalMetaIInv ==
    ASSUME IInv, NEW m \in Meta, NEW have \in SUBSET m, NotifyLocalMeta(m, have)
    PROVE  IInv'
<1>1. m \subseteq Chunk
  BY MetaAssumption
<1>2. meta_events' \in 0 .. MaxMetaEvents
  BY MaxMetaEventsAssumption DEF NotifyLocalMeta, IInv, TypeOK
<1>3. timers' \in BOOLEAN
  BY DEF NotifyLocalMeta, IInv, TypeOK
<1>4. ReplaceChunks(have, m \ have) /\ UNCHANGED <<peerVars, p2p_block_size, pc>>
  BY DEF NotifyLocalMeta, peerVars
<1> QED BY <1>1, <1>2, <1>3, <1>4, ReplaceIInv

\* trackRemote keeps the invariant: a remote that was untracked left no
\* guard and no request behind.
LEMMA TrackRemoteIInv ==
    ASSUME IInv, NEW r \in Remote, TrackRemote(r)
    PROVE  IInv'
<1> USE DEF IInv
<1>1. /\ r \notin remotes /\ remotes' = remotes \cup {r}
      /\ UNCHANGED <<chunkVars, requests>>
      /\ \A t \in Remote : t # r => /\ peer_choking'[t] = peer_choking[t]
                                    /\ am_interested'[t] = am_interested[t]
      /\ am_interested'[r] = FALSE
  BY DEF TrackRemote, TypeOK
<1>2. TypeOK'
  BY DEF TrackRemote, TypeOK, chunkVars
<1>3. RequestsDisjoint' /\ QueuedIncomplete'
  BY <1>1 DEF chunkVars, RequestsDisjoint, QueuedIncomplete, Bytes, AllBytes
<1>4. NoDanglingRemote' /\ RequestsAnswerable'
  <2>1. \A q \in requests : q.remote \in Remote /\ q.remote # r
    BY <1>1 DEF NoDanglingRemote, TypeOK, Request
  <2> QED BY <1>1, <2>1 DEF chunkVars, NoDanglingRemote, RequestsAnswerable
<1>5. InterestExact'
  <2>1. r \notin Guarded(owned_by)
    BY <1>1 DEF Guarded, NoDanglingRemote
  <2>2. Guarded(owned_by') = Guarded(owned_by)
    BY <1>1 DEF chunkVars
  <2>3. \A t \in Remote : am_interested'[t] <=> t \in Guarded(owned_by')
    BY <1>1, <2>1, <2>2 DEF InterestExact
  <2> QED BY <2>3 DEF InterestExact, Guarded
<1>6. IsFiniteSet(requests)' /\ SlotsRespected'
  BY <1>1, FewerRequests
<1> QED BY <1>2, <1>3, <1>4, <1>5, <1>6

\* untrackRemote keeps the invariant.
LEMMA UntrackRemoteIInv ==
    ASSUME IInv, NEW r \in Remote, UntrackRemote(r)
    PROVE  IInv'
<1> USE DEF IInv
<1>1. /\ remotes' = remotes \ {r}
      /\ \A q \in requests' : q \in requests /\ q.remote # r
      /\ UNCHANGED <<down_chunks, free, peer_choking>>
  BY DEF UntrackRemote
<1>2. \A c \in Chunk : owned_by'[c] = owned_by[c] \ {r}
  BY DEF UntrackRemote
<1>3. TypeOK'
  <2>1. am_interested' \in [Remote -> BOOLEAN]
    BY DEF UntrackRemote, ReleaseGuards, TypeOK
  <2>2. owned_by' \in [Chunk -> SUBSET Remote]
    BY DEF UntrackRemote, TypeOK
  <2> QED BY <2>1, <2>2 DEF UntrackRemote, TypeOK
<1>4. RequestsDisjoint' /\ QueuedIncomplete'
  BY <1>1 DEF RequestsDisjoint, QueuedIncomplete, Bytes, AllBytes
<1>5. NoDanglingRemote'
  BY <1>1, <1>2 DEF NoDanglingRemote
<1>6. RequestsAnswerable'
  BY <1>1, <1>2 DEF RequestsAnswerable, TypeOK, Request
<1>7. InterestExact'
  <2>1. Guarded(owned_by') \subseteq Guarded(owned_by)
    BY <1>2 DEF Guarded
  <2>2. \A t \in Remote : am_interested'[t] =
            (am_interested[t] /\ ~(t \in Guarded(owned_by) /\ t \notin Guarded(owned_by')))
    BY DEF UntrackRemote, ReleaseGuards
  <2>3. \A t \in Remote : am_interested'[t] <=> t \in Guarded(owned_by')
    BY <2>1, <2>2 DEF InterestExact
  <2> QED BY <2>3 DEF InterestExact, Guarded
<1>8. IsFiniteSet(requests)' /\ SlotsRespected'
  BY <1>1, FewerRequests
<1> QED BY <1>3, <1>4, <1>5, <1>6, <1>7, <1>8

\* notifyRemoteChunk keeps the invariant.
LEMMA NotifyRemoteChunksIInv ==
    ASSUME IInv, NEW r \in Remote, NEW S, NotifyRemoteChunks(r, S)
    PROVE  IInv'
<1> USE DEF IInv
<1>1. /\ UNCHANGED <<remotes, peer_choking, down_chunks, free, requests>>
      /\ r \in remotes
  BY DEF NotifyRemoteChunks, peerVars
<1>2. /\ \A c \in Chunk : \/ owned_by'[c] = owned_by[c] \cup {r}
                           \/ owned_by'[c] = owned_by[c]
      /\ \E c \in Chunk : owned_by'[c] = owned_by[c] \cup {r}
  BY DEF NotifyRemoteChunks, TypeOK
<1>3. TypeOK'
  BY DEF NotifyRemoteChunks, TypeOK, peerVars
<1>4. RequestsDisjoint' /\ QueuedIncomplete'
  BY <1>1 DEF RequestsDisjoint, QueuedIncomplete, Bytes, AllBytes
<1>5. NoDanglingRemote'
  BY <1>1, <1>2 DEF NoDanglingRemote
<1>6. RequestsAnswerable'
  BY <1>1, <1>2 DEF RequestsAnswerable, TypeOK, Request
<1>7. InterestExact'
  <2>1. Guarded(owned_by') = Guarded(owned_by) \cup {r}
    BY <1>2 DEF Guarded
  <2>2. /\ \A t \in Remote : t # r => am_interested'[t] = am_interested[t]
        /\ am_interested'[r] = (am_interested[r] \/ r \notin Guarded(owned_by))
    BY DEF NotifyRemoteChunks, TypeOK
  <2>3. \A t \in Remote : am_interested'[t] <=> t \in Guarded(owned_by')
    BY <2>1, <2>2 DEF InterestExact
  <2> QED BY <2>3 DEF InterestExact, Guarded
<1>8. IsFiniteSet(requests)' /\ SlotsRespected'
  BY <1>1, FewerRequests
<1> QED BY <1>3, <1>4, <1>5, <1>6, <1>7, <1>8

\* The steps that at most drop requests and change the choking flags.
LEMMA DropRequestsIInv ==
    ASSUME IInv, TypeOK', UNCHANGED <<remotes, am_interested, chunkVars>>,
           requests' \subseteq requests,
           \A q \in requests' : ~peer_choking'[q.remote]
    PROVE  IInv'
<1> USE DEF IInv
<1>1. UNCHANGED <<remotes, am_interested, down_chunks, free, owned_by>>
  BY DEF chunkVars
<1>2. RequestsDisjoint' /\ QueuedIncomplete'
  BY <1>1 DEF RequestsDisjoint, QueuedIncomplete, Bytes, AllBytes
<1>3. NoDanglingRemote' /\ RequestsAnswerable'
  BY <1>1 DEF NoDanglingRemote, RequestsAnswerable
<1>4. InterestExact'
  BY <1>1 DEF InterestExact, Guarded
<1> QED BY <1>2, <1>3, <1>4, FewerRequests

\* CHOKE and UNCHOKE keep the invariant: handleChoke drops every request to
\* the remote that the flag is set for.
LEMMA ChokeIInv ==
    ASSUME IInv, NEW r \in Remote, HandleChoke(r) \/ HandleUnchoke(r)
    PROVE  IInv'
<1> USE DEF IInv
<1>1. /\ UNCHANGED <<remotes, am_interested, chunkVars>>
      /\ requests' \subseteq requests
  BY DEF HandleChoke, HandleUnchoke
<1>2. TypeOK'
  BY DEF HandleChoke, HandleUnchoke, TypeOK, chunkVars
<1>3. \A q \in requests' : ~peer_choking'[q.remote]
  <2>1. \A q \in requests : q.remote \in Remote /\ ~peer_choking[q.remote]
    BY DEF RequestsAnswerable, TypeOK, Request
  <2>2. CASE HandleChoke(r)
    BY <2>1, <2>2 DEF HandleChoke, TypeOK
  <2>3. CASE HandleUnchoke(r)
    BY <2>1, <2>3 DEF HandleUnchoke, TypeOK
  <2> QED BY <2>2, <2>3
<1> QED BY <1>1, <1>2, <1>3, DropRequestsIInv

\* The steps of maintainRequests that make no request, an unmatched reply
\* and a change of p2p_block_size keep the invariant.
LEMMA QuietIInv ==
    ASSUME IInv,
           \/ MaintainStart \/ MaintainEnd
           \/ \E n \in BlockSizes : SetBlockSize(n)
           \/ \E r \in Remote, c \in Chunk : \E o, n : PutBlockUnmatched(r, c, o, n)
           \/ UNCHANGED vars
    PROVE  IInv'
<1> USE DEF IInv
<1>1. /\ UNCHANGED <<remotes, am_interested, chunkVars, peer_choking>>
      /\ requests' \subseteq requests
  BY DEF MaintainStart, MaintainEnd, SetBlockSize, PutBlockUnmatched, vars, peerVars, chunkVars
<1>2. TypeOK'
  BY DEF MaintainStart, MaintainEnd, SetBlockSize, PutBlockUnmatched, vars, peerVars,
         chunkVars, TypeOK
<1>3. \A q \in requests' : ~peer_choking'[q.remote]
  BY <1>1 DEF RequestsAnswerable
<1> QED BY <1>1, <1>2, <1>3, DropRequestsIInv

\* Time passing only changes the age of the requests.
LEMMA TickIInv ==
    ASSUME IInv, Tick
    PROVE  IInv'
<1> USE DEF IInv
<1>1. /\ UNCHANGED <<remotes, peer_choking, am_interested, down_chunks, free, owned_by,
                     p2p_block_size, timers, pc, meta_events>>
      /\ requests' = {Older(q) : q \in requests}
  BY DEF Tick, peerVars, chunkVars
<1>2. \A q \in requests :
        /\ Older(q) \in Request
        /\ Older(q).chunk = q.chunk /\ Older(q).remote = q.remote
        /\ Older(q).offset = q.offset /\ Older(q).size = q.size
  BY TimeoutAssumption DEF Older, TypeOK, Request
<1>3. \A q \in requests : Bytes(Older(q)) = Bytes(q)
  BY <1>2 DEF Bytes
<1> HIDE DEF Older
<1>4. TypeOK'
  BY <1>1, <1>2 DEF TypeOK
<1>5. RequestsDisjoint'
  <2>1. \A q \in requests' : q.chunk \in down_chunks /\ Bytes(q) \subseteq free[q.chunk]
    BY <1>1, <1>2, <1>3 DEF RequestsDisjoint
  <2>2. \A q, p \in requests' :
          q # p /\ q.chunk = p.chunk => Bytes(q) \cap Bytes(p) = {}
    BY <1>1, <1>2, <1>3 DEF RequestsDisjoint
  <2> QED BY <1>1, <2>1, <2>2 DEF RequestsDisjoint, Bytes
<1>6. QueuedIncomplete' /\ InterestExact'
  BY <1>1 DEF QueuedIncomplete, AllBytes, InterestExact, Guarded
<1>7. NoDanglingRemote' /\ RequestsAnswerable'
  BY <1>1, <1>2 DEF NoDanglingRemote, RequestsAnswerable
<1>8. IsFiniteSet(requests)' /\ SlotsRespected'
  <2> DEFINE f == [q \in requests |-> Older(q)]
  <2>1. f \in Surjection(requests, requests')
    BY <1>1 DEF Surjection
  <2>2. IsFiniteSet(requests') /\ Cardinality(requests') <= Cardinality(requests)
    BY <2>1, FS_Surjection
  <2>3. Cardinality(requests') \in Nat /\ Cardinality(requests) \in Nat
    BY <2>2, FS_CardinalityType
  <2> QED BY <2>2, <2>3, SlotsAssumption DEF SlotsRespected, countRequests
<1> QED BY <1>4, <1>5, <1>6, <1>7, <1>8

\* A block that does not complete its chunk keeps the invariant: it answers
\* one request, and the others ask for other bytes.
LEMMA PutBlockPartialIInv ==
    ASSUME IInv, NEW r \in Remote, NEW c \in Chunk, NEW o, NEW n,
           PutBlockPartial(r, c, o, n)
    PROVE  IInv'
<1> USE DEF IInv
<1> DEFINE B == o .. (o + n - 1)
<1>1. PICK p \in requests : p.chunk = c /\ p.remote = r /\ p.offset = o /\ p.size = n
  BY DEF PutBlockPartial, Answered
<1>2. /\ UNCHANGED <<remotes, peer_choking, am_interested, down_chunks, owned_by,
                     p2p_block_size, pc, meta_events>>
      /\ timers' = TRUE
      /\ requests' = requests \ Answered(r, c, o, n)
      /\ free' = [free EXCEPT ![c] = @ \ B]
      /\ free[c] \ B # {}
  BY DEF PutBlockPartial, peerVars
<1>3. \A q \in requests' :
        q \in requests /\ ~(q.chunk = c /\ q.remote = r /\ q.offset = o /\ q.size = n)
  BY <1>2 DEF Answered
<1>4. /\ free'[c] = free[c] \ B
      /\ \A d \in Chunk : d # c => free'[d] = free[d]
  BY <1>2 DEF TypeOK
<1>5. TypeOK'
  BY <1>2, <1>3 DEF TypeOK
<1>6. RequestsDisjoint'
  <2>1. Bytes(p) = B
    BY <1>1 DEF Bytes
  <2>2. \A q \in requests' : q.chunk \in Chunk /\ q.chunk \in down_chunks
                             /\ Bytes(q) \subseteq free[q.chunk]
    BY <1>3 DEF RequestsDisjoint, TypeOK, Request
  <2>3. \A q \in requests' : q.chunk = c => Bytes(q) \cap B = {}
    BY <1>1, <1>3, <2>1 DEF RequestsDisjoint
  <2> HIDE DEF B
  <2>4. \A q \in requests' : Bytes(q) \subseteq free'[q.chunk]
    BY <1>4, <2>2, <2>3
  <2>5. \A q, t \in requests' :
          q # t /\ q.chunk = t.chunk => Bytes(q) \cap Bytes(t) = {}
    BY <1>3 DEF RequestsDisjoint
  <2> QED BY <1>2, <2>2, <2>4, <2>5 DEF RequestsDisjoint, Bytes
<1>7. QueuedIncomplete'
  <2>1. \A d \in down_chunks' : free'[d] # {} /\ free'[d] \subseteq AllBytes(d)
    BY <1>2, <1>4 DEF QueuedIncomplete, TypeOK
  <2> QED BY <2>1 DEF QueuedIncomplete, AllBytes
<1>8. NoDanglingRemote' /\ RequestsAnswerable' /\ InterestExact'
  BY <1>2, <1>3 DEF NoDanglingRemote, RequestsAnswerable, InterestExact, Guarded
<1>9. IsFiniteSet(requests)' /\ SlotsRespected'
  BY <1>3, FewerRequests
<1> QED BY <1>5, <1>6, <1>7, <1>8, <1>9

\* The last block of a chunk keeps the invariant: the chunk leaves the queue
\* with its requests and its guards.
LEMMA PutBlockCompleteIInv ==
    ASSUME IInv, NEW r \in Remote, NEW c \in Chunk, NEW o, NEW n,
           PutBlockComplete(r, c, o, n)
    PROVE  IInv'
<1>1. /\ ReplaceChunks({c}, {})
      /\ UNCHANGED <<peerVars, p2p_block_size, pc>>
      /\ timers' \in BOOLEAN
  BY DEF PutBlockComplete
<1>2. meta_events' \in 0 .. MaxMetaEvents
  BY DEF PutBlockComplete, IInv, TypeOK
<1> QED BY <1>1, <1>2, ReplaceIInv

\* requestOne keeps the invariant: the new request asks for bytes of the
\* requestMap, so of no other request and not received.
LEMMA RequestOneIInv ==
    ASSUME IInv, NEW c \in Chunk, NEW r \in Remote, RequestOne(c, r)
    PROVE  IInv'
<1> USE DEF IInv
<1> DEFINE i == First(requestMap(c))
           n == BlockLength(c, i)
           new == [chunk |-> c, remote |-> r, offset |-> i, size |-> n, age |-> 0]
<1>1. /\ UNCHANGED <<remotes, peer_choking, am_interested, down_chunks, free, owned_by,
                     p2p_block_size, timers, pc, meta_events>>
      /\ requests' = requests \cup {new}
      /\ Cardinality(requests) < Slots
      /\ c \in Requestable
      /\ r \in NodesForRequest(c)
  BY DEF RequestOne, peerVars, chunkVars, countRequests
<1>2. i \in Nat /\ n \in Nat \ {0} /\ (i .. (i + n - 1)) \subseteq requestMap(c)
  BY <1>1, BlockIsFree
<1> HIDE DEF i, n
<1>3. /\ new \in Request /\ new.chunk = c /\ new.remote = r
      /\ Bytes(new) = i .. (i + n - 1)
  BY <1>2, TimeoutAssumption DEF Request, Bytes
<1>4. /\ c \in down_chunks
      /\ r \in owned_by[c] /\ ~peer_choking[r]
  BY <1>1 DEF Requestable, NodesForRequest
<1> HIDE DEF new
<1>5. TypeOK'
  BY <1>1, <1>3 DEF TypeOK
<1>6. RequestsDisjoint'
  <2>1. Bytes(new) \subseteq free[c]
    BY <1>2, <1>3 DEF requestMap
  <2>2. \A q \in requests : q.chunk = c => Bytes(q) \cap Bytes(new) = {}
    BY <1>2, <1>3 DEF requestMap
  <2>3. \A q \in requests' : q.chunk \in down_chunks /\ Bytes(q) \subseteq free[q.chunk]
    BY <1>1, <1>3, <1>4, <2>1 DEF RequestsDisjoint
  <2>4. \A q, p \in requests' :
          q # p /\ q.chunk = p.chunk => Bytes(q) \cap Bytes(p) = {}
    BY <1>1, <1>3, <2>2 DEF RequestsDisjoint
  <2> QED BY <1>1, <2>3, <2>4 DEF RequestsDisjoint, Bytes
<1>7. QueuedIncomplete' /\ InterestExact'
  BY <1>1 DEF QueuedIncomplete, AllBytes, InterestExact, Guarded
<1>8. NoDanglingRemote' /\ RequestsAnswerable'
  <2>1. r \in remotes
    BY <1>4 DEF NoDanglingRemote
  <2> QED BY <1>1, <1>3, <1>4, <2>1 DEF NoDanglingRemote, RequestsAnswerable
<1>9. IsFiniteSet(requests)' /\ SlotsRespected'
  <2>1. /\ IsFiniteSet(requests \cup {new})
        /\ Cardinality(requests \cup {new}) =
             IF new \in requests THEN Cardinality(requests) ELSE Cardinality(requests) + 1
    BY FS_AddElement
  <2>2. Cardinality(requests) \in Nat
    BY FS_CardinalityType
  <2> QED BY <1>1, <2>1, <2>2, SlotsAssumption DEF SlotsRespected, countRequests
<1> QED BY <1>5, <1>6, <1>7, <1>8, <1>9

\* Every step keeps the invariant.
LEMMA NextIInv == IInv /\ [Next]_vars => IInv'
<1> SUFFICES ASSUME IInv, [Next]_vars PROVE IInv'
  OBVIOUS
<1>1. CASE \E m \in Meta : \E have \in SUBSET m : NotifyLocalMeta(m, have)
  BY <1>1, NotifyLocalMetaIInv
<1>2. CASE \E r \in Remote : TrackRemote(r) \/ UntrackRemote(r)
  BY <1>2, TrackRemoteIInv, UntrackRemoteIInv
<1>3. CASE \E r \in Remote, S \in Announcements : NotifyRemoteChunks(r, S)
  BY <1>3, NotifyRemoteChunksIInv
<1>4. CASE \E r \in Remote : HandleChoke(r) \/ HandleUnchoke(r)
  BY <1>4, ChokeIInv
<1>5. CASE \E r \in Remote, c \in Chunk : \E o \in AllBytes(c) :
             \E n \in 1 .. ChunkSize[c] : PutBlock(r, c, o, n)
  <2>0. PICK r \in Remote, c \in Chunk : \E o \in AllBytes(c) :
             \E n \in 1 .. ChunkSize[c] : PutBlock(r, c, o, n)
    BY <1>5
  <2>1. PICK o \in AllBytes(c), n \in 1 .. ChunkSize[c] : PutBlock(r, c, o, n)
    BY <2>0
  <2>2. CASE PutBlockPartial(r, c, o, n)
    BY <2>2, PutBlockPartialIInv
  <2>3. CASE PutBlockComplete(r, c, o, n)
    BY <2>3, PutBlockCompleteIInv
  <2>4. CASE PutBlockUnmatched(r, c, o, n)
    BY <2>4, QuietIInv
  <2> QED BY <2>1, <2>2, <2>3, <2>4 DEF PutBlock
<1>6. CASE \E r \in Remote, c \in Chunk : RequestOne(c, r)
  BY <1>6, RequestOneIInv
<1>7. CASE Tick
  BY <1>7, TickIInv
<1>8. CASE MaintainStart \/ MaintainEnd \/ (\E n \in BlockSizes : SetBlockSize(n))
             \/ UNCHANGED vars
  BY <1>8, QuietIInv
<1> QED BY <1>1, <1>2, <1>3, <1>4, <1>5, <1>6, <1>7, <1>8 DEF Next

\* Every variable of the Downloader keeps its type, for every instance.
THEOREM DownloaderTypes == Spec => []TypeOK
<1>1. IInv => TypeOK
  BY DEF IInv
<1> QED BY <1>1, InitIInv, NextIInv, PTL DEF Spec

\* No byte is requested twice or after it was received, for any number of
\* remotes, chunks and slots, any chunk sizes, and block sizes that change
\* while requests are outstanding.
THEOREM NoByteRequestedTwice == Spec => []RequestsDisjoint
<1>1. IInv => RequestsDisjoint
  BY DEF IInv
<1> QED BY <1>1, InitIInv, NextIInv, PTL DEF Spec

\* A wanted chunk misses a byte, and only bytes that lie inside it, so that
\* requestOne always finds a first range of its map: the last byte takes the chunk
\* off down_chunks_ in the handler that receives it.
THEOREM OnlyIncompleteQueued == Spec => []QueuedIncomplete
<1>1. IInv => QueuedIncomplete
  BY DEF IInv
<1> QED BY <1>1, InitIInv, NextIInv, PTL DEF Spec

\* Requests and owners refer to tracked remotes only: no pointer to an object
\* that untrackRemote was called for is kept.
THEOREM NoPointerDangles == Spec => []NoDanglingRemote
<1>1. IInv => NoDanglingRemote
  BY DEF IInv
<1> QED BY <1>1, InitIInv, NextIInv, PTL DEF Spec

\* A request is outstanding only at a remote that may answer it, whatever
\* chokes and removals came after it was made.
THEOREM OutstandingAnswerable == Spec => []RequestsAnswerable
<1>1. IInv => RequestsAnswerable
  BY DEF IInv
<1> QED BY <1>1, InitIInv, NextIInv, PTL DEF Spec

\* Our interest in a remote is exact: it is shown while the remote owns a chunk
\* that is wanted (InterestGuard).
THEOREM RemotesConsistent == Spec => []InterestExact
<1>1. IInv => InterestExact
  BY DEF IInv
<1> QED BY <1>1, InitIInv, NextIInv, PTL DEF Spec

\* p2p_download_slots is never exceeded.
THEOREM SlotsNeverExceeded == Spec => []SlotsRespected
<1>1. IInv => SlotsRespected
  BY DEF IInv
<1> QED BY <1>1, InitIInv, NextIInv, PTL DEF Spec
=============================================================================
