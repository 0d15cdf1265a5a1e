SPECIFICATION Spec
CONSTANTS
    c1 = c1
    c2 = c2
    c3 = c3
    c4 = c4
    own = own
    peer = peer
    other = other
    e1 = e1
    e2 = e2
    e3 = e3
    Conn = {c1, c2, c3, c4}
    Client = {c1, c4}
    Digest = {own, peer, other}
    OwnDigest = own
    Endpoint = {e1, e2, e3}
    NullEndpoint = NullEndpoint
    PeerDigest <- MCPeerDigest
    PeerEndpoint <- MCPeerEndpoint
INVARIANT
    LookupSetsExact
CHECK_DEADLOCK FALSE
