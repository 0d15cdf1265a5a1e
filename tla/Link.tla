-------------------------------- MODULE Link --------------------------------
(***************************************************************************)
(* Both ends of one connection: the P2PFolder (daemon/p2p) of the node that *)
(* dialled and the one of the node that accepted, with what Uploader,       *)
(* MetaUploader and Downloader do through it (daemon/folder/transfer).      *)
(*                                                                         *)
(* A WebSocket delivers the messages of a direction in order, so those to   *)
(* an end form a queue.  Messages of the two directions cross.  A chunk is   *)
(* one block here, and all Metas are in both indexes; the other peers of a   *)
(* node are seen as chunks that it obtains elsewhere.  What a node has stored *)
(* may be lost again: a file is edited or removed, or its rename failed.      *)
(***************************************************************************)
EXTENDS Naturals, Sequences

CONSTANTS
    Chunk,          \* chunks of the folder
    Elsewhere,      \* the chunks that each end's other peers or its indexer may supply
    Losable,        \* bound: the chunks that each end may lose, once each
    MaxTimeouts     \* bound: how many requests run into p2p_request_timeout

End == {"CLIENT", "SERVER"}     \* role_

ASSUME ElsewhereAssumption == Elsewhere \in [End -> SUBSET Chunk]
ASSUME LosableAssumption == Losable \in [End -> SUBSET Chunk]
ASSUME MaxTimeoutsAssumption == MaxTimeouts \in Nat

Peer(n) == IF n = "CLIENT" THEN "SERVER" ELSE "CLIENT"

VARIABLES
    link,               \* life of each end's P2PFolder
    doomed,             \* ends whose deletion is queued (deleteLater)
    announcing,         \* ends with a queued MetaUploader::handle_handshake
    am_choking,
    am_interested,
    peer_choking,
    peer_interested,
    channel,            \* messages on their way to each end
    have,               \* chunks that each node's ChunkStorage can read
    lost,               \* chunks that it could read once (history)
    owned,              \* wanted chunks that list the peer in owned_by
    requests,           \* chunks asked of the peer
    timeouts            \* how many requests timed out

lifeVars == <<link, doomed, announcing>>
uploadVars == <<am_choking, peer_interested>>
downloadVars == <<am_interested, peer_choking, owned, requests>>
storeVars == <<have, lost>>
vars == <<lifeVars, uploadVars, downloadVars, storeVars, channel, timeouts>>

\* Messages.  Those of HAVE_META and HAVE_CHUNK come to the same: the chunks
\* that the sender has (MetaUploader::broadcast_meta, Uploader::broadcast_chunk).
Message(type, chunks) == [type |-> type, chunks |-> chunks]
Handshake == Message("HANDSHAKE", {})
Choke == Message("CHOKE", {})
Unchoke == Message("UNCHOKE", {})
Interested == Message("INTERESTED", {})
NotInterested == Message("NOT_INTERESTED", {})
Have(chunks) == Message("HAVE", chunks)
BlockRequest(c) == Message("BLOCK_REQUEST", {c})
BlockReply(c) == Message("BLOCK_REPLY", {c})

\* remotes_ of the node contains the P2PFolder.
Attached(n) == link[n] \in {"attached", "ready"}

Init ==
    /\ link = [n \in End |-> "opening"]
    /\ doomed = {}
    /\ announcing = {}
    /\ am_choking = [n \in End |-> TRUE]
    /\ am_interested = [n \in End |-> FALSE]
    /\ peer_choking = [n \in End |-> TRUE]
    /\ peer_interested = [n \in End |-> FALSE]
    /\ channel = [n \in End |-> <<>>]
    /\ have \in [End -> SUBSET Chunk]
    /\ lost = [n \in End |-> {}]
    /\ owned = [n \in End |-> {}]
    /\ requests = [n \in End |-> {}]
    /\ timeouts = 0

\* What was stored, whether or not it was lost since: what down_chunks_ is not after.
Had(n) == have[n] \cup lost[n]
-----------------------------------------------------------------------------
\* What is sent to an end that is gone is lost.
Sent(n, messages) ==
    IF link[Peer(n)] = "gone" THEN channel[Peer(n)]
    ELSE channel[Peer(n)] \o messages

\* send_message, one or several times, in a handler that reads no message.
Send(n, messages) == channel' = [channel EXCEPT ![Peer(n)] = Sent(n, messages)]

\* The same in the handler of the message at the head of the queue.
Reply(n, messages) ==
    channel' = [channel EXCEPT ![n] = Tail(@), ![Peer(n)] = Sent(n, messages)]

\* P2PFolder::handleConnected with FolderGroup::attach: the client speaks first.
Attach(n) ==
    /\ link[n] = "opening"
    /\ link' = [link EXCEPT ![n] = "attached"]
    /\ Send(n, IF n = "CLIENT" THEN <<Handshake>> ELSE <<>>)
    /\ UNCHANGED <<doomed, announcing, uploadVars, downloadVars, storeVars, timeouts>>

\* MetaUploader::handle_handshake, from the timer set by
\* FolderGroup::handle_handshake.  have_chunk goes by the mark that the index
\* keeps of an assembled file, so it may list a chunk that is lost.
Announce(n) ==
    /\ n \in announcing
    /\ announcing' = announcing \ {n}
    /\ \E marked \in SUBSET lost[n] : Send(n, <<Have(have[n] \cup marked)>>)
    /\ UNCHANGED <<link, doomed, uploadVars, downloadVars, storeVars, timeouts>>

\* Faulty: interest is withdrawn with every chunk that is no longer wanted.
MutInterestAfter(rest) == FALSE

\* The last InterestGuard of the peer goes with the last chunk it owns.
InterestAfter(rest) == rest # {}

\* The messages of ~InterestGuard, if it is the last.
Withdrawal(n, rest) ==
    IF am_interested[n] /\ ~InterestAfter(rest) THEN <<NotInterested>> ELSE <<>>

\* ChunkStorage::chunkAdded: Downloader::notifyLocalChunk drops what it knows
\* of the chunk, then Uploader::broadcast_chunk.
Stored(n, c) ==
    /\ have' = [have EXCEPT ![n] = @ \cup {c}]
    /\ owned' = [owned EXCEPT ![n] = @ \ {c}]
    /\ requests' = [requests EXCEPT ![n] = @ \ {c}]
    /\ am_interested' = [am_interested EXCEPT
            ![n] = @ /\ InterestAfter(owned[n] \ {c})]

\* Faulty: the new chunk is not announced.
MutStoredMessages(n, c) == Withdrawal(n, owned[n] \ {c})

\* When putBlock completed the chunk, its own pointer to the DownloadChunk keeps
\* the InterestGuards until it returns.
StoredMessages(n, c) == <<Have({c})>> \o Withdrawal(n, owned[n] \ {c})

\* When it was indexed, notifyLocalMeta comes before broadcast_meta.
IndexedMessages(n, c) == Withdrawal(n, owned[n] \ {c}) \o <<Have({c})>>

\* The node obtains a chunk from another peer, or indexes it.
ObtainElsewhere(n, c) ==
    /\ c \in Elsewhere[n] \ have[n]
    /\ Stored(n, c)
    /\ \/ Attached(n) /\ Send(n, StoredMessages(n, c))
       \/ Attached(n) /\ Send(n, IndexedMessages(n, c))
       \/ ~Attached(n) /\ UNCHANGED channel
    /\ UNCHANGED <<lifeVars, uploadVars, peer_choking, lost, timeouts>>

\* The user edits or removes the file that held the chunk, or put_chunk's rename
\* had failed: get_chunk throws no_such_chunk.  Nobody is told, and the Downloader
\* is not after the chunk.
LoseChunk(n, c) ==
    /\ c \in (Losable[n] \cap have[n]) \ lost[n]
    /\ have' = [have EXCEPT ![n] = @ \ {c}]
    /\ lost' = [lost EXCEPT ![n] = @ \cup {c}]
    /\ UNCHANGED <<lifeVars, uploadVars, downloadVars, channel, timeouts>>

\* Faulty: all chunks the peer owns are put into one request.
MutRequestBlock(n, c) ==
    /\ link[n] = "ready"
    /\ ~peer_choking[n]
    /\ c \in owned[n] \ requests[n]
    /\ requests' = [requests EXCEPT ![n] = owned[n]]
    /\ Send(n, <<Message("BLOCK_REQUEST", owned[n])>>)
    /\ UNCHANGED <<lifeVars, uploadVars, am_interested, peer_choking, owned, storeVars, timeouts>>

\* Downloader::requestOne chooses this peer for the chunk.
RequestBlock(n, c) ==
    /\ link[n] = "ready"
    /\ ~peer_choking[n]
    /\ c \in owned[n] \ requests[n]
    /\ requests' = [requests EXCEPT ![n] = @ \cup {c}]
    /\ Send(n, <<BlockRequest(c)>>)
    /\ UNCHANGED <<lifeVars, uploadVars, am_interested, peer_choking, owned, storeVars, timeouts>>

\* Downloader::maintainRequests prunes a request that is too old.
TimeOutRequest(n, c) ==
    /\ timeouts < MaxTimeouts
    /\ c \in requests[n]
    /\ requests' = [requests EXCEPT ![n] = @ \ {c}]
    /\ timeouts' = timeouts + 1
    /\ UNCHANGED <<lifeVars, uploadVars, am_interested, peer_choking, owned, channel, storeVars>>
-----------------------------------------------------------------------------
\* handle_message: the end reads a message of this type.
Reads(n, type) ==
    /\ Attached(n)
    /\ channel[n] # <<>>
    /\ Head(channel[n]).type = type

Chunks(n) == Head(channel[n]).chunks

\* Faulty: a client answers the server's handshake with another one.
MutHandleHandshake(n) ==
    /\ Reads(n, "HANDSHAKE")
    /\ link[n] = "attached"
    /\ link' = [link EXCEPT ![n] = "ready"]
    /\ announcing' = announcing \cup {n}
    /\ Reply(n, <<Handshake>>)
    /\ UNCHANGED <<doomed, uploadVars, downloadVars, storeVars, timeouts>>

\* Faulty: what the node has is not announced.
MutQuietHandshake(n) ==
    /\ Reads(n, "HANDSHAKE")
    /\ link[n] = "attached"
    /\ link' = [link EXCEPT ![n] = "ready"]
    /\ Reply(n, IF n = "SERVER" THEN <<Handshake>> ELSE <<>>)
    /\ UNCHANGED <<announcing, doomed, uploadVars, downloadVars, storeVars, timeouts>>

\* handle_Handshake of a handshake: the server answers it; handshakeSuccess
\* makes FolderGroup track the remote and queue the announcement.
HandleHandshake(n) ==
    /\ Reads(n, "HANDSHAKE")
    /\ link[n] = "attached"
    /\ link' = [link EXCEPT ![n] = "ready"]
    /\ announcing' = announcing \cup {n}
    /\ Reply(n, IF n = "SERVER" THEN <<Handshake>> ELSE <<>>)
    /\ UNCHANGED <<doomed, uploadVars, downloadVars, storeVars, timeouts>>

\* handle_Handshake of any other message (handshakeFailed), or a handshake when
\* ready, which handle_message has no case for: the end will be deleted, and
\* reads on until it is.
Refuse(n) ==
    /\ Attached(n)
    /\ channel[n] # <<>>
    /\ Head(channel[n]).type = "HANDSHAKE" <=> link[n] = "ready"
    /\ doomed' = doomed \cup {n}
    /\ Reply(n, <<>>)
    /\ UNCHANGED <<link, announcing, uploadVars, downloadVars, storeVars, timeouts>>

\* handle_Choke, Downloader::handleChoke.
HandleChoke(n) ==
    /\ link[n] = "ready"
    /\ Reads(n, "CHOKE")
    /\ peer_choking' = [peer_choking EXCEPT ![n] = TRUE]
    /\ requests' = IF peer_choking[n] THEN requests ELSE [requests EXCEPT ![n] = {}]
    /\ Reply(n, <<>>)
    /\ UNCHANGED <<lifeVars, uploadVars, am_interested, owned, storeVars, timeouts>>

\* handle_Unchoke; Downloader::handleUnchoke only has the requests made soon.
HandleUnchoke(n) ==
    /\ link[n] = "ready"
    /\ Reads(n, "UNCHOKE")
    /\ peer_choking' = [peer_choking EXCEPT ![n] = FALSE]
    /\ Reply(n, <<>>)
    /\ UNCHANGED <<lifeVars, uploadVars, am_interested, owned, requests, storeVars, timeouts>>

\* Faulty: the peer is told that it is unchoked, the flag stays.
MutHandleInterested(n) ==
    /\ link[n] = "ready"
    /\ Reads(n, "INTERESTED")
    /\ peer_interested' = [peer_interested EXCEPT ![n] = TRUE]
    /\ Reply(n, <<Unchoke>>)
    /\ UNCHANGED <<lifeVars, am_choking, downloadVars, storeVars, timeouts>>

\* handle_Interested, Uploader::handle_interested, unchoke.
HandleInterested(n) ==
    /\ link[n] = "ready"
    /\ Reads(n, "INTERESTED")
    /\ peer_interested' = [peer_interested EXCEPT ![n] = TRUE]
    /\ IF ~peer_interested[n] /\ am_choking[n]
       THEN /\ am_choking' = [am_choking EXCEPT ![n] = FALSE]
            /\ Reply(n, <<Unchoke>>)
       ELSE UNCHANGED am_choking /\ Reply(n, <<>>)
    /\ UNCHANGED <<lifeVars, downloadVars, storeVars, timeouts>>

\* handle_NotInterested, Uploader::handle_not_interested, choke.
HandleNotInterested(n) ==
    /\ link[n] = "ready"
    /\ Reads(n, "NOT_INTERESTED")
    /\ peer_interested' = [peer_interested EXCEPT ![n] = FALSE]
    /\ IF peer_interested[n] /\ ~am_choking[n]
       THEN /\ am_choking' = [am_choking EXCEPT ![n] = TRUE]
            /\ Reply(n, <<Choke>>)
       ELSE UNCHANGED am_choking /\ Reply(n, <<>>)
    /\ UNCHANGED <<lifeVars, downloadVars, storeVars, timeouts>>

\* handle_HaveMeta and handle_HaveChunk: Downloader::notifyRemoteChunk of the
\* chunks it is after, which takes an InterestGuard.
HandleHave(n) ==
    /\ link[n] = "ready"
    /\ Reads(n, "HAVE")
    /\ LET wanted == Chunks(n) \ Had(n) IN
        /\ owned' = [owned EXCEPT ![n] = @ \cup wanted]
        /\ am_interested' = [am_interested EXCEPT ![n] = @ \/ wanted # {}]
        /\ Reply(n, IF wanted # {} /\ ~am_interested[n] THEN <<Interested>> ELSE <<>>)
    /\ UNCHANGED <<lifeVars, uploadVars, peer_choking, requests, storeVars, timeouts>>

\* Uploader::handle_block_request gives the block, unless get_block throws.
Serves(n, chunks) == ~am_choking[n] /\ peer_interested[n] /\ chunks \subseteq have[n]

\* Faulty: it looks at whether the peer chokes us.
MutHandleBlockRequest(n) ==
    /\ link[n] = "ready"
    /\ Reads(n, "BLOCK_REQUEST")
    /\ Reply(n, IF ~peer_choking[n] /\ peer_interested[n]
                THEN <<Message("BLOCK_REPLY", Chunks(n))>> ELSE <<>>)
    /\ UNCHANGED <<lifeVars, uploadVars, downloadVars, storeVars, timeouts>>

\* handle_BlockRequest; a request that is not served is dropped in silence.
HandleBlockRequest(n) ==
    /\ link[n] = "ready"
    /\ Reads(n, "BLOCK_REQUEST")
    /\ Reply(n, IF Serves(n, Chunks(n)) THEN <<Message("BLOCK_REPLY", Chunks(n))>> ELSE <<>>)
    /\ UNCHANGED <<lifeVars, uploadVars, downloadVars, storeVars, timeouts>>

\* handle_BlockReply, Downloader::putBlock: the chunk is stored if it is still
\* asked for, and the reply ignored if not.
HandleBlockReply(n) ==
    /\ link[n] = "ready"
    /\ Reads(n, "BLOCK_REPLY")
    /\ \/ \E c \in Chunks(n) \cap requests[n] :
            /\ Stored(n, c)
            /\ Reply(n, StoredMessages(n, c))
       \/ /\ Chunks(n) \cap requests[n] = {}
          /\ Reply(n, <<>>)
          /\ UNCHANGED <<have, owned, requests, am_interested>>
    /\ UNCHANGED <<lifeVars, uploadVars, peer_choking, lost, timeouts>>

Read(n) ==
    \/ HandleHandshake(n)
    \/ Refuse(n)
    \/ HandleChoke(n)
    \/ HandleUnchoke(n)
    \/ HandleInterested(n)
    \/ HandleNotInterested(n)
    \/ HandleHave(n)
    \/ HandleBlockRequest(n)
    \/ HandleBlockReply(n)
-----------------------------------------------------------------------------
\* ~P2PFolder, FolderGroup::detach, Downloader::untrackRemote, which releases the
\* InterestGuards: their message may still get through.
Gone(n) ==
    /\ link' = [link EXCEPT ![n] = "gone"]
    /\ doomed' = doomed \ {n}
    /\ announcing' = announcing \ {n}
    /\ am_choking' = [am_choking EXCEPT ![n] = TRUE]
    /\ am_interested' = [am_interested EXCEPT ![n] = FALSE]
    /\ peer_choking' = [peer_choking EXCEPT ![n] = TRUE]
    /\ peer_interested' = [peer_interested EXCEPT ![n] = FALSE]
    /\ \E last \in {<<>>, Withdrawal(n, {})} :
            channel' = [channel EXCEPT ![n] = <<>>, ![Peer(n)] = Sent(n, last)]
    /\ owned' = [owned EXCEPT ![n] = {}]
    /\ requests' = [requests EXCEPT ![n] = {}]
    /\ UNCHANGED <<storeVars, timeouts>>

\* The queued deletion happens.
Destroy(n) == n \in doomed /\ Gone(n)

\* The socket breaks, times out or is refused by attach: QWebSocket::disconnected.
Disconnect(n) == link[n] # "gone" /\ Gone(n)

\* The nodes connect again, with new objects.
Reconnect ==
    /\ \A n \in End : link[n] = "gone"
    /\ link' = [n \in End |-> "opening"]
    /\ channel' = [n \in End |-> <<>>]
    /\ UNCHANGED <<doomed, announcing, uploadVars, downloadVars, storeVars, timeouts>>

Next ==
    \/ \E n \in End :
        \/ Attach(n)
        \/ Announce(n)
        \/ Read(n)
        \/ \E c \in Chunk :
            ObtainElsewhere(n, c) \/ LoseChunk(n, c) \/ RequestBlock(n, c) \/ TimeOutRequest(n, c)
        \/ Destroy(n)
        \/ Disconnect(n)
    \/ Reconnect

Spec == Init /\ [][Next]_vars
-----------------------------------------------------------------------------
Types == {"HANDSHAKE", "CHOKE", "UNCHOKE", "INTERESTED", "NOT_INTERESTED",
          "HAVE", "BLOCK_REQUEST", "BLOCK_REPLY"}

\* Every variable keeps its type; requests and replies are for one block, and
\* only what the peer owns is asked of it.
TypeOK ==
    /\ link \in [End -> {"opening", "attached", "ready", "gone"}]
    /\ doomed \subseteq End
    /\ announcing \subseteq End
    /\ am_choking \in [End -> BOOLEAN]
    /\ am_interested \in [End -> BOOLEAN]
    /\ peer_choking \in [End -> BOOLEAN]
    /\ peer_interested \in [End -> BOOLEAN]
    /\ channel \in [End -> Seq([type : Types, chunks : SUBSET Chunk])]
    /\ \A n \in End : \A i \in 1 .. Len(channel[n]) :
            channel[n][i].type \in {"BLOCK_REQUEST", "BLOCK_REPLY"}
                => \E c \in Chunk : channel[n][i].chunks = {c}
    /\ have \in [End -> SUBSET Chunk]
    /\ lost \in [End -> SUBSET Chunk]
    /\ owned \in [End -> SUBSET Chunk]
    /\ requests \in [End -> SUBSET Chunk]
    /\ \A n \in End : requests[n] \subseteq owned[n]
    /\ timeouts \in 0 .. MaxTimeouts

Up == \A n \in End : link[n] # "gone"

\* The last message of one of the types in a queue, if any, is of type t iff
\* flag; without such a message, the value that the reader has is flag.
LastTells(queue, types, t, flag, known) ==
    LET At == {i \in 1 .. Len(queue) : queue[i].type \in types}
    IN  /\ At = {} => known = flag
        /\ \A i \in At : (\A j \in At : j <= i) => ((queue[i].type = t) = flag)

\* The two ends never disagree about choking and interest but for what is
\* on its way: if a queue holds no such message the receiver's flag is the
\* sender's, and if it does the last one carries the sender's flag.
FlagsAgree ==
    Up => \A n \in End :
        /\ LastTells(channel[n], {"CHOKE", "UNCHOKE"}, "CHOKE",
                     am_choking[Peer(n)], peer_choking[n])
        /\ LastTells(channel[n], {"INTERESTED", "NOT_INTERESTED"}, "INTERESTED",
                     am_interested[Peer(n)], peer_interested[n])

\* A request is dropped in silence for one reason only: whatever crossed it on
\* the way, when a BLOCK_REQUEST is read the peer is not choked and is known to
\* be interested, and a chunk that is not there was there and has been lost.
RequestServed ==
    \A n \in End :
        link[n] = "ready" /\ Reads(n, "BLOCK_REQUEST") =>
            /\ ~am_choking[n] /\ peer_interested[n]
            /\ Chunks(n) \subseteq have[n] \cup lost[n]

\* A request that holds a slot of the Downloader has its BLOCK_REQUEST or its
\* BLOCK_REPLY on the way, also when it was made anew after a choke or a timeout.
\* One for a chunk that the peer has lost may be forgotten until it times out.
NoRequestForgotten ==
    Up => \A n \in End : \A c \in requests[n] :
        \/ \E i \in 1 .. Len(channel[Peer(n)]) : channel[Peer(n)][i] = BlockRequest(c)
        \/ \E i \in 1 .. Len(channel[n]) : channel[n][i] = BlockReply(c)
        \/ c \in lost[Peer(n)]

\* A handshake is read once by each end, and a message is taken for a bad
\* handshake in one case only: a server told of its chunks before its handshake.
RefusedOnlyEarlyHave ==
    \A n \in End :
        Attached(n) /\ channel[n] # <<>> /\ (link[n] = "ready" <=> Reads(n, "HANDSHAKE"))
            => n = "CLIENT" /\ Reads(n, "HAVE")

\* The link never comes to rest before everything is exchanged: when nothing
\* is on its way and nothing queued, the handshakes are over and requestOne may
\* ask for any chunk that the peer has and the node is after.  No announcement
\* left a gap, no interest or unchoking was lost, and no old request is in the
\* way but one for a chunk that the peer had lost in between.
NeverStuck ==
    /\ \A n \in End : Attached(n) /\ channel[n] = <<>>
    /\ announcing = {}
    => \A n \in End :
        /\ link[n] = "ready"
        /\ \A c \in have[Peer(n)] \ (have[n] \cup lost[n]) :
            /\ c \in owned[n] /\ ~peer_choking[n]
            /\ c \in requests[n] => c \in lost[Peer(n)]
-----------------------------------------------------------------------------
\* The event loops run what is queued, and messages are delivered while both
\* ends exist.
Fairness ==
    \A n \in End :
        /\ WF_vars(Attach(n))
        /\ WF_vars(Announce(n))
        /\ WF_vars(Read(n))
        /\ WF_vars(Destroy(n))
        /\ WF_vars(\E c \in Chunk : RequestBlock(n, c))

FairSpec == Spec /\ Fairness

\* What one node has the other gets, if the link lasts and neither loses it:
\* through the handshake, the announcement, interest, unchoking, the request and
\* the reply.  A lost chunk is in the way of no other.
ChunksArrive ==
    \A n \in End : \A c \in Chunk :
        Up /\ c \in have[Peer(n)] ~>
            c \in have[n] \/ ~Up \/ c \in lost[n] \cup lost[Peer(n)]
=============================================================================
