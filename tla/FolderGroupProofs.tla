------------------------- MODULE FolderGroupProofs -------------------------
(***************************************************************************)
(* For any number of connections, nodes and endpoints: a folder never has  *)
(* two links to one node, its members exist, and the downloader's remotes  *)
(* are among them.                                                         *)
(***************************************************************************)
EXTENDS FolderGroup, TLAPS

\* A client sends its handshake in handleConnected, before it can get one.
ClientHasSent == \A c \in Client : socket[c] = "connected" => c \in handshake_sent

\* The inductive invariant.  That links are unique needs the two lookup sets
\* to cover the members, and that detach keeps them so needs uniqueness.
IInv ==
    /\ TypeOK
    /\ OneLinkPerPeer
    /\ MembersAlive
    /\ ReadyAreMembers
    /\ DigestsExact
    /\ EndpointsCovered
    /\ ClientHasSent

-----------------------------------------------------------------------------
\* Init establishes the invariant: there are no members and no entries.
LEMMA InitIInv == Init => IInv
  BY RoleAssumption
     DEF Init, IInv, TypeOK, SocketState, OneLinkPerPeer, MembersAlive,
         ReadyAreMembers, DigestsExact, EndpointsCovered, ClientHasSent

\* What FolderGroup::detach leaves: every other member keeps its entries in
\* the lookup sets, because no two members share one.
LEMMA DetachMembers ==
    ASSUME IInv, NEW c \in Conn, Detach(c)
    PROVE  /\ remotes' = remotes \ {c}
           /\ remotes_ready' = remotes_ready \ {c}
           /\ OneLinkPerPeer'
           /\ DigestsExact'
           /\ EndpointsCovered'
           /\ digests' \subseteq Digest
           /\ endpoints' \subseteq Endpoint
<1> USE DEF IInv
<1>1. /\ remotes' = remotes \ {c}
      /\ remotes_ready' = remotes_ready \ {c}
  BY DEF Detach, ReadyAreMembers
<1>2. OneLinkPerPeer'
  BY <1>1 DEF OneLinkPerPeer, isLoopback
<1>3. DigestsExact'
  <2>1. CASE c \in remotes
    <3>1. digests' = digests \ {PeerDigest[c]}
      BY <2>1 DEF Detach
    <3>2. \A d \in remotes : d # c => PeerDigest[d] # PeerDigest[c]
      BY <2>1 DEF OneLinkPerPeer
    <3> QED BY <1>1, <3>1, <3>2 DEF DigestsExact
  <2>2. CASE c \notin remotes
    <3>1. digests' = digests /\ remotes' = remotes
      BY <1>1, <2>2 DEF Detach
    <3> QED BY <3>1 DEF DigestsExact
  <2> QED BY <2>1, <2>2
<1>4. EndpointsCovered'
  <2>1. \A d \in remotes : d # c => PeerEndpoint[d] \in endpoints'
    <3> SUFFICES ASSUME NEW d \in remotes, d # c
                 PROVE  PeerEndpoint[d] \in endpoints'
      OBVIOUS
    <3>1. PeerEndpoint[d] \in endpoints /\ PeerEndpoint[d] \in Endpoint
      BY PeerAssumption DEF EndpointsCovered, TypeOK
    <3>2. CASE c \notin remotes
      BY <3>1, <3>2 DEF Detach
    <3>3. CASE c \in remotes
      <4>1. PeerEndpoint[d] # endpoint(c)
        BY <3>1, <3>3, PeerAssumption DEF OneLinkPerPeer, endpoint
      <4> QED BY <3>1, <3>3, <4>1 DEF Detach
    <3> QED BY <3>2, <3>3
  <2> QED BY <1>1, <2>1 DEF EndpointsCovered
<1>5. digests' \subseteq Digest /\ endpoints' \subseteq Endpoint
  BY DEF Detach, TypeOK
<1> QED BY <1>1, <1>2, <1>3, <1>4, <1>5

\* handleConnected keeps the invariant: attach lets in only a connection that
\* shares no digest and no endpoint with a member.
LEMMA HandleConnectedIInv ==
    ASSUME IInv, NEW c \in Conn, handleConnected(c),
           socket[c] \in {"none", "connecting"}
    PROVE  IInv'
<1> USE DEF IInv
<1>0. c \notin remotes
  BY DEF MembersAlive, Live
<1>1. CASE Attachable(c) /\ Attach(c)
  <2>1. /\ remotes' = remotes \cup {c}
        /\ remotes_ready' = remotes_ready
        /\ digests' = digests \cup {PeerDigest[c]}
        /\ endpoints' = endpoints \cup {PeerEndpoint[c]}
        /\ handshake_sent \subseteq handshake_sent'
        /\ handshake_received' = handshake_received
    BY <1>1 DEF Attach, endpoint
  <2>2. /\ socket'[c] = "connected"
        /\ \A d \in Conn : d # c => socket'[d] = socket[d]
    BY <1>1 DEF Attach, TypeOK
  <2>3. TypeOK'
    BY <1>1, PeerAssumption DEF Attach, TypeOK, SocketState, endpoint
  <2>4. OneLinkPerPeer'
    <3>1. \A d \in remotes : /\ PeerDigest[d] # PeerDigest[c]
                             /\ PeerEndpoint[d] # PeerEndpoint[c]
      BY <1>1 DEF Attachable, DigestsExact, EndpointsCovered, endpoint
    <3>2. ~isLoopback(c)
      BY <1>1 DEF Attachable
    <3> QED BY <2>1, <3>1, <3>2 DEF OneLinkPerPeer, isLoopback
  <2>5. MembersAlive'
    BY <2>1, <2>2 DEF MembersAlive, Live
  <2>6. ReadyAreMembers'
    BY <2>1 DEF ReadyAreMembers, ready
  <2>7. DigestsExact' /\ EndpointsCovered'
    BY <2>1 DEF DigestsExact, EndpointsCovered
  <2>8. ClientHasSent'
    BY <1>1, <2>1, <2>2, RoleAssumption DEF ClientHasSent, Attach
  <2> QED BY <2>3, <2>4, <2>5, <2>6, <2>7, <2>8
<1>2. CASE ~Attachable(c) /\ Refuse(c)
  <2>1. Detach(c)
    BY <1>2 DEF Refuse
  <2>2. /\ remotes' = remotes
        /\ remotes_ready' = remotes_ready
        /\ UNCHANGED handshakeVars
    BY <1>0, <1>2, <2>1, DetachMembers DEF Refuse, ReadyAreMembers
  <2>3. /\ socket'[c] = "closing"
        /\ \A d \in Conn : d # c => socket'[d] = socket[d]
    BY <1>2 DEF Refuse, TypeOK
  <2>4. TypeOK'
    BY <1>2, <2>1, <2>2, DetachMembers DEF Refuse, TypeOK, SocketState, handshakeVars
  <2>5. MembersAlive'
    BY <1>0, <2>2, <2>3 DEF MembersAlive, Live
  <2>6. ReadyAreMembers'
    BY <2>2 DEF ReadyAreMembers, ready, handshakeVars
  <2>7. ClientHasSent'
    BY <2>2, <2>3, RoleAssumption DEF ClientHasSent, handshakeVars
  <2> QED BY <2>1, <2>4, <2>5, <2>6, <2>7, DetachMembers
<1> QED BY <1>1, <1>2 DEF handleConnected

\* A step that detaches an object and closes or destroys it keeps the
\* invariant.
LEMMA DetachIInv ==
    ASSUME IInv, NEW c \in Conn, SocketCloses(c) \/ Destroy(c)
    PROVE  IInv'
<1> USE DEF IInv
<1>1. Detach(c)
  BY DEF SocketCloses, Destroy
<1>2. /\ \A d \in Conn : d # c => socket'[d] = socket[d]
      /\ \A d \in handshake_sent : d # c => d \in handshake_sent'
      /\ \A d \in handshake_received : d # c => d \in handshake_received'
  BY DEF SocketCloses, Destroy, TypeOK, handshakeVars
<1>3. TypeOK'
  <2>1. /\ socket' \in [Conn -> SocketState]
        /\ delete_later' \subseteq Conn
        /\ handshake_sent' \subseteq Conn
        /\ handshake_received' \subseteq Conn
    BY DEF SocketCloses, Destroy, TypeOK, SocketState, handshakeVars
  <2> QED BY <1>1, <2>1, DetachMembers DEF TypeOK
<1>4. MembersAlive'
  BY <1>1, <1>2, DetachMembers DEF MembersAlive, Live
<1>5. ReadyAreMembers'
  BY <1>1, <1>2, DetachMembers DEF ReadyAreMembers, ready
<1>6. ClientHasSent'
  <2>1. socket'[c] # "connected"
    BY DEF SocketCloses, Destroy, TypeOK
  <2> QED BY <1>2, <2>1, RoleAssumption DEF ClientHasSent
<1> QED BY <1>1, <1>3, <1>4, <1>5, <1>6, DetachMembers

\* The steps of a socket or a timer that touch no set of members.
LEMMA SocketIInv ==
    ASSUME IInv, NEW c \in Conn,
           HandleDiscovered(c) \/ HandshakeFailed(c) \/ SocketDown(c) \/ Timeout(c)
    PROVE  IInv'
<1> USE DEF IInv
<1>1. UNCHANGED <<handshakeVars, memberVars>>
  BY DEF HandleDiscovered, HandshakeFailed, SocketDown, Timeout
<1>2. TypeOK'
  BY <1>1 DEF HandleDiscovered, HandshakeFailed, SocketDown, Timeout, TypeOK,
              SocketState, Live, handshakeVars, memberVars
<1>3. MembersAlive'
  <2>1. \A d \in remotes : socket'[d] \in {"connected", "down"}
    BY DEF HandleDiscovered, HandshakeFailed, SocketDown, Timeout, TypeOK,
           MembersAlive, Live
  <2> QED BY <1>1, <2>1 DEF MembersAlive, Live, memberVars, TypeOK
<1>4. ClientHasSent'
  <2>1. \A d \in Conn : socket'[d] = "connected" => socket[d] = "connected"
    BY DEF HandleDiscovered, HandshakeFailed, SocketDown, Timeout, TypeOK
  <2> QED BY <1>1, <2>1, RoleAssumption DEF ClientHasSent, handshakeVars
<1> QED BY <1>1, <1>2, <1>3, <1>4 DEF OneLinkPerPeer, ReadyAreMembers, DigestsExact,
            EndpointsCovered, isLoopback, ready, handshakeVars, memberVars

\* A handshake makes a member ready and leaves the members as they are.
LEMMA HandleHandshakeIInv ==
    ASSUME IInv, NEW c \in Conn, HandleHandshake(c)
    PROVE  IInv'
<1> USE DEF IInv
<1>1. /\ UNCHANGED <<socket, remotes, digests, endpoints>>
      /\ handshake_sent \subseteq handshake_sent'
      /\ handshake_received' = handshake_received \cup {c}
  BY DEF HandleHandshake
<1>2. TypeOK'
  BY <1>1 DEF HandleHandshake, TypeOK
<1>3. ReadyAreMembers'
  <2>1. c \in handshake_sent'
    BY DEF HandleHandshake, ClientHasSent
  <2>2. remotes_ready' \subseteq remotes_ready \cup ({c} \cap remotes)
    BY DEF HandleHandshake
  <2> QED BY <1>1, <2>1, <2>2 DEF ReadyAreMembers, ready
<1>4. OneLinkPerPeer' /\ MembersAlive' /\ DigestsExact' /\ EndpointsCovered'
  BY <1>1 DEF OneLinkPerPeer, isLoopback, MembersAlive, Live, DigestsExact,
              EndpointsCovered
<1>5. ClientHasSent'
  BY <1>1 DEF ClientHasSent
<1> QED BY <1>2, <1>3, <1>4, <1>5

\* Every step keeps the invariant: one case per action.
LEMMA NextIInv == IInv /\ [Next]_vars => IInv'
<1> SUFFICES ASSUME IInv, [Next]_vars PROVE IInv'
  OBVIOUS
<1>1. CASE Next
  <2>1. PICK c \in Conn :
            \/ HandleDiscovered(c) \/ ClientConnected(c) \/ HandleConnection(c)
            \/ HandleHandshake(c) \/ HandshakeFailed(c) \/ SocketCloses(c)
            \/ SocketDown(c) \/ Timeout(c) \/ Destroy(c)
    BY <1>1 DEF Next
  <2>2. CASE ClientConnected(c) \/ HandleConnection(c)
    BY <2>2, HandleConnectedIInv DEF ClientConnected, HandleConnection
  <2>3. CASE HandleHandshake(c)
    BY <2>3, HandleHandshakeIInv
  <2>4. CASE SocketCloses(c) \/ Destroy(c)
    BY <2>4, DetachIInv
  <2>5. CASE HandleDiscovered(c) \/ HandshakeFailed(c) \/ SocketDown(c) \/ Timeout(c)
    BY <2>5, SocketIInv
  <2> QED BY <2>1, <2>2, <2>3, <2>4, <2>5
<1>2. CASE UNCHANGED vars
  BY <1>2 DEF vars, handshakeVars, memberVars, IInv, TypeOK, OneLinkPerPeer,
              MembersAlive, Live, ReadyAreMembers, DigestsExact, EndpointsCovered,
              ClientHasSent, isLoopback, ready
<1> QED BY <1>1, <1>2

\* However connections are made, refused, lost and timed out, a folder has at
\* most one link to a node and to an endpoint, and none to itself: attach and
\* detach keep the lookup sets good enough to refuse every second one.
THEOREM LinksUnique == Spec => []OneLinkPerPeer
<1>1. IInv => OneLinkPerPeer
  BY DEF IInv
<1> QED BY <1>1, InitIInv, NextIInv, PTL DEF Spec

\* Every member's digest and endpoint are in the lookup sets that attach asks,
\* and no digest is there without a member, whatever order handshakes,
\* disconnects and destructors come in.
THEOREM LookupComplete == Spec => []LookupCoversMembers
<1>1. IInv => LookupCoversMembers
  BY DEF IInv, LookupCoversMembers
<1> QED BY <1>1, InitIInv, NextIInv, PTL DEF Spec

\* Every variable of the folder's connections keeps its type.
THEOREM FolderGroupTypes == Spec => []TypeOK
<1>1. IInv => TypeOK
  BY DEF IInv
<1> QED BY <1>1, InitIInv, NextIInv, PTL DEF Spec

\* The members of a folder are objects that were not destroyed, and the remotes
\* that the downloader was told of are ready members, whatever events come between
\* deleteLater and the destructor.
THEOREM MembersExist == Spec => []MembersSound
<1>1. IInv => MembersSound
  BY DEF IInv, MembersSound
<1> QED BY <1>1, InitIInv, NextIInv, PTL DEF Spec
=============================================================================
