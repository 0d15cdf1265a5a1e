---------------------------- MODULE FolderGroup ----------------------------
(***************************************************************************)
(* The connections of one folder: FolderGroup's sets of remotes and the    *)
(* life of the P2PFolder objects in them (daemon/folder/FolderGroup.cpp,   *)
(* daemon/p2p/P2PFolder.cpp and P2PProvider.cpp).                          *)
(*                                                                         *)
(* Every object has a WebSocket of its own.  The socket is external: it is *)
(* closed with a close frame from either side, in which case it emits      *)
(* aboutToClose before it goes down, or it is lost without one; once down  *)
(* it emits disconnected and forgets the peer's address, while the         *)
(* certificate it saw remains.  deleteLater() queues the destructor, which *)
(* the event loop runs later: other events come in between.                *)
(***************************************************************************)
EXTENDS FiniteSets

CONSTANTS
    Conn,           \* P2PFolder objects, each created at most once
    Client,         \* the ones that P2PProvider::handleDiscovered creates
    Digest,         \* certificate digests of nodes
    OwnDigest,      \* the digest of this node's certificate
    Endpoint,       \* address and port pairs
    NullEndpoint,   \* the endpoint of a socket that is not connected
    PeerDigest,     \* digest of the node at the other end of each connection
    PeerEndpoint    \* its endpoint, while the socket is connected

ASSUME RoleAssumption == Client \subseteq Conn
ASSUME PeerAssumption == /\ PeerDigest \in [Conn -> Digest]
                         /\ PeerEndpoint \in [Conn -> Endpoint]
                         /\ NullEndpoint \notin Endpoint

VARIABLES
    socket,         \* state of each connection's object and of its socket
    delete_later,   \* objects whose destructor is queued
    handshake_sent,         \* objects with handshake_sent_
    handshake_received,     \* objects with handshake_received_
    remotes,        \* FolderGroup::remotes_
    remotes_ready,  \* remotes_ready_, and Downloader::remotes_ along with it
    digests,        \* p2p_folders_digests_
    endpoints       \* p2p_folders_endpoints_

handshakeVars == <<handshake_sent, handshake_received>>
memberVars == <<remotes, remotes_ready, digests, endpoints>>
vars == <<socket, delete_later, handshakeVars, memberVars>>

\* An object is created, its socket connects, closes and is down, and the
\* object is destroyed.
SocketState == {"none", "connecting", "connected", "closing", "down", "deleted"}

Live == {c \in Conn : socket[c] \in {"connecting", "connected", "closing", "down"}}

ready(c) == c \in handshake_sent /\ c \in handshake_received

\* What the socket says of its peer, in the handlers that ask: they run while
\* it is connected, or else in the destructor once it is down.
endpoint(c) == IF socket[c] = "down" THEN NullEndpoint ELSE PeerEndpoint[c]

isLoopback(c) == PeerDigest[c] = OwnDigest

Init == /\ socket = [c \in Conn |-> "none"]
        /\ delete_later = {}
        /\ handshake_sent = {}
        /\ handshake_received = {}
        /\ remotes = {}
        /\ remotes_ready = {}
        /\ digests = {}
        /\ endpoints = {}
-----------------------------------------------------------------------------
\* Faulty: no test whether the object is a member.
MutDetach(c) ==
    /\ digests' = digests \ {PeerDigest[c]}
    /\ endpoints' = endpoints \ {endpoint(c)}
    /\ remotes' = remotes \ {c}
    /\ remotes_ready' = remotes_ready \ {c}

\* FolderGroup::detach, which returns at once for an object that is not a
\* member.
Detach(c) ==
    /\ digests' = IF c \in remotes THEN digests \ {PeerDigest[c]} ELSE digests
    /\ endpoints' = IF c \in remotes THEN endpoints \ {endpoint(c)} ELSE endpoints
    /\ remotes' = remotes \ {c}
    /\ remotes_ready' = IF c \in remotes THEN remotes_ready \ {c} ELSE remotes_ready

\* Faulty: the digest is not looked up.
MutAttachable(c) ==
    /\ ~isLoopback(c)
    /\ c \notin remotes
    /\ endpoint(c) \notin endpoints

\* handleConnected's test: isLoopback, and the tests of FolderGroup::attach.
Attachable(c) ==
    /\ ~isLoopback(c)
    /\ c \notin remotes
    /\ PeerDigest[c] \notin digests
    /\ endpoint(c) \notin endpoints

\* Faulty: a client is attached before its socket has an endpoint.
MutAttach(c) ==
    /\ socket' = [socket EXCEPT ![c] = "connected"]
    /\ remotes' = remotes \cup {c}
    /\ digests' = digests \cup {PeerDigest[c]}
    /\ endpoints' = endpoints \cup
                    {IF c \in Client THEN NullEndpoint ELSE PeerEndpoint[c]}
    /\ handshake_sent' = IF c \in Client THEN handshake_sent \cup {c} ELSE handshake_sent
    /\ UNCHANGED <<delete_later, handshake_received, remotes_ready>>

\* handleConnected accepts: attach, and a client sends its handshake.
Attach(c) ==
    /\ socket' = [socket EXCEPT ![c] = "connected"]
    /\ remotes' = remotes \cup {c}
    /\ digests' = digests \cup {PeerDigest[c]}
    /\ endpoints' = endpoints \cup {endpoint(c)}
    /\ handshake_sent' = IF c \in Client THEN handshake_sent \cup {c} ELSE handshake_sent
    /\ UNCHANGED <<delete_later, handshake_received, remotes_ready>>

\* handleConnected refuses: the socket is closed, whose aboutToClose calls
\* detach.
Refuse(c) ==
    /\ socket' = [socket EXCEPT ![c] = "closing"]
    /\ Detach(c)
    /\ UNCHANGED <<delete_later, handshakeVars>>

handleConnected(c) ==
    \/ Attachable(c) /\ Attach(c)
    \/ ~Attachable(c) /\ Refuse(c)

\* P2PProvider::handleDiscovered: a client object starts to connect.
HandleDiscovered(c) ==
    /\ c \in Client
    /\ socket[c] = "none"
    /\ socket' = [socket EXCEPT ![c] = "connecting"]
    /\ UNCHANGED <<delete_later, handshakeVars, memberVars>>

\* The client's socket is connected, unless the object is gone by then.
ClientConnected(c) ==
    /\ socket[c] = "connecting"
    /\ handleConnected(c)

\* P2PProvider::handleConnection: the server object's constructor calls
\* handleConnected.
HandleConnection(c) ==
    /\ c \notin Client
    /\ socket[c] = "none"
    /\ handleConnected(c)

\* handle_Handshake of a HANDSHAKE with the right token.  A server answers;
\* handshakeSuccess makes FolderGroup::handle_handshake track the remote.
HandleHandshake(c) ==
    /\ socket[c] = "connected"
    /\ ~ready(c)
    /\ handshake_sent' = IF c \in Client THEN handshake_sent ELSE handshake_sent \cup {c}
    /\ handshake_received' = handshake_received \cup {c}
    /\ remotes_ready' = IF c \in remotes THEN remotes_ready \cup {c} ELSE remotes_ready
    /\ UNCHANGED <<socket, delete_later, remotes, digests, endpoints>>

\* handle_Handshake of anything else: handshakeFailed.
HandshakeFailed(c) ==
    /\ socket[c] = "connected"
    /\ ~ready(c)
    /\ delete_later' = delete_later \cup {c}
    /\ UNCHANGED <<socket, handshakeVars, memberVars>>

\* The socket closes with a close frame: the peer sent one, or handle_message
\* met a message type it does not know.  aboutToClose calls detach.
SocketCloses(c) ==
    /\ socket[c] = "connected"
    /\ Detach(c)
    /\ socket' = [socket EXCEPT ![c] = "closing"]
    /\ UNCHANGED <<delete_later, handshakeVars>>

\* Faulty: disconnected is not connected to deleteLater.
MutSocketDown(c) ==
    /\ socket[c] \in {"connecting", "connected", "closing"}
    /\ socket' = [socket EXCEPT ![c] = "down"]
    /\ UNCHANGED <<delete_later, handshakeVars, memberVars>>

\* disconnected: the closed socket is down, or a socket failed to connect or
\* lost its connection with no close frame.
SocketDown(c) ==
    /\ socket[c] \in {"connecting", "connected", "closing"}
    /\ socket' = [socket EXCEPT ![c] = "down"]
    /\ delete_later' = delete_later \cup {c}
    /\ UNCHANGED <<handshakeVars, memberVars>>

\* timeout_timer_: nothing arrived for 120 s.
Timeout(c) ==
    /\ c \in Live
    /\ delete_later' = delete_later \cup {c}
    /\ UNCHANGED <<socket, handshakeVars, memberVars>>

\* Faulty: the destructor does not detach.
MutDestroy(c) ==
    /\ c \in delete_later
    /\ socket' = [socket EXCEPT ![c] = "deleted"]
    /\ delete_later' = delete_later \ {c}
    /\ UNCHANGED <<handshakeVars, memberVars>>

\* ~P2PFolder, in a later turn of the event loop; the object's fields go too.
Destroy(c) ==
    /\ c \in delete_later
    /\ Detach(c)
    /\ socket' = [socket EXCEPT ![c] = "deleted"]
    /\ delete_later' = delete_later \ {c}
    /\ handshake_sent' = handshake_sent \ {c}
    /\ handshake_received' = handshake_received \ {c}

Next == \E c \in Conn :
            \/ HandleDiscovered(c)
            \/ ClientConnected(c)
            \/ HandleConnection(c)
            \/ HandleHandshake(c)
            \/ HandshakeFailed(c)
            \/ SocketCloses(c)
            \/ SocketDown(c)
            \/ Timeout(c)
            \/ Destroy(c)

\* The event loop runs queued destructors, and a closing socket goes down.
Fairness == \A c \in Conn : /\ WF_vars(Destroy(c))
                            /\ WF_vars(socket[c] = "closing" /\ SocketDown(c))

Spec == Init /\ [][Next]_vars /\ Fairness
-----------------------------------------------------------------------------
\* Every variable keeps its type; the null endpoint never gets into
\* p2p_folders_endpoints_, where it would refuse other connections.
TypeOK ==
    /\ socket \in [Conn -> SocketState]
    /\ delete_later \subseteq Conn
    /\ handshake_sent \subseteq Conn
    /\ handshake_received \subseteq Conn
    /\ remotes \subseteq Conn
    /\ remotes_ready \subseteq Conn
    /\ digests \subseteq Digest
    /\ endpoints \subseteq Endpoint

\* A folder never has two links to one node, nor to one endpoint, nor one to
\* itself, although both sides connect to each other at will and the objects
\* that attach refused detach as well.
OneLinkPerPeer ==
    /\ \A c, d \in remotes :
        c # d => PeerDigest[c] # PeerDigest[d] /\ PeerEndpoint[c] # PeerEndpoint[d]
    /\ \A c \in remotes : ~isLoopback(c)

\* The members are objects that exist: broadcasts, push_state and
\* maintainRequests dereference them.
MembersAlive == remotes \subseteq {c \in Live : socket[c] \in {"connected", "down"}}

\* The remotes the downloader knows are members that are ready().
ReadyAreMembers == \A c \in remotes_ready : c \in remotes /\ ready(c)

\* So no handler finds a destroyed object among the members or in the
\* downloader, in whatever order detach, deleteLater and the destructor come.
MembersSound == MembersAlive /\ ReadyAreMembers

\* p2p_folders_digests_ holds the digests of the members: a node whose link
\* is gone is not refused for its digest.
DigestsExact == digests = {PeerDigest[c] : c \in remotes}

\* The endpoints of the members are looked up rightly: a second connection
\* to one of them is refused.  (The set may hold more: see LookupSetsExact.)
EndpointsCovered == \A c \in remotes : PeerEndpoint[c] \in endpoints

\* The lookup sets never let a second link to a member pass, and the set of
\* digests refuses no one else, however members were attached and detached.
LookupCoversMembers == DigestsExact /\ EndpointsCovered

\* "Member lookup optimization": both lookup sets say of the members what a
\* search of remotes_ would.
LookupSetsExact ==
    /\ digests = {PeerDigest[c] : c \in remotes}
    /\ endpoints = {PeerEndpoint[c] : c \in remotes}

\* A connection that goes down is cleaned away: its object leaves remotes_
\* and is destroyed, however it went down.
GoneIsReaped ==
    \A c \in Conn : socket[c] \in {"closing", "down"} ~> c \notin remotes /\ socket[c] = "deleted"
=============================================================================
