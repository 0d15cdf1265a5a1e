------------------------------ MODULE MetaSync ------------------------------
(***************************************************************************)
(* Nodes exchange Metas: MetaUploader and MetaDownloader (daemon/folder/   *)
(* transfer) over Index (daemon/folder/meta), with FolderGroup's broadcast  *)
(* of every Meta that is stored and IndexerQueue's results.                 *)
(*                                                                         *)
(* Link shows what a connection does before it is ready; here a link exists  *)
(* from the handshakes on, and is a queue in each direction.  Revisions are   *)
(* times of clocks that nobody synchronises, and an indexer works while      *)
(* other Metas arrive, so its result may have any revision.                  *)
(***************************************************************************)
EXTENDS Naturals, Sequences, FiniteSets

CONSTANTS
    Node,
    Path,           \* path_ids
    NoMeta,         \* in the place of a Meta that is not there
    Writer,         \* nodes whose secret is ReadWrite or better: the others index nothing
    LinkOf,         \* the pairs of nodes that may connect
    Revision,       \* bound: the values of std::time(nullptr)
    MaxEdits,       \* bound: how many results the indexers have
    MaxDrops        \* bound: how often a link breaks

ASSUME RevisionAssumption == Revision \subseteq Nat
ASSUME LinkAssumption ==
    \A l \in LinkOf : \E n \in Node, k \in Node : n # k /\ l = {n, k}
ASSUME WriterAssumption == Writer \subseteq Node
ASSUME BoundsAssumption == MaxEdits \in Nat /\ MaxDrops \in Nat

VARIABLES
    meta,           \* table meta of each node's Index
    links,          \* links that are ready
    announcing,     \* <<n, k>>: n has a queued MetaUploader::handle_handshake to k
    channel,        \* channel[n][k]: messages from n to k
    authored,       \* history: the Metas made by the indexers
    lagging,        \* history: <<link, path>> where an end of the link went back
                    \* to an older revision
    drops           \* how many links broke

netVars == <<links, announcing, drops>>
vars == <<meta, netVars, channel, authored, lagging>>

Remotes(n) == {k \in Node \ {n} : {n, k} \in links}

\* Index::haveMeta and Index::getMeta of a path and revision.
haveMeta(n, p, r) == meta[n][p] # NoMeta /\ meta[n][p].revision = r

\* Index::putAllowed.
putAllowed(n, p, r) == meta[n][p] # NoMeta => meta[n][p].revision < r

Message(type, m) == [type |-> type, meta |-> m]

\* HAVE_META and META_REQUEST carry path and revision only, and HAVE_META a
\* bitfield of the chunks of m.
HaveMeta(m) == Message("HAVE_META", m)
MetaRequest(m) == Message("META_REQUEST", m)
MetaReply(m) == Message("META_REPLY", m)

Init ==
    /\ meta = [n \in Node |-> [p \in Path |-> NoMeta]]
    /\ links = {}
    /\ announcing = {}
    /\ channel = [n \in Node |-> [k \in Node |-> <<>>]]
    /\ authored = {}
    /\ lagging = {}
    /\ drops = 0
-----------------------------------------------------------------------------
\* MetaUploader::broadcast_meta to FolderGroup::remotes().
Broadcast(n, m, ch) ==
    [ch EXCEPT ![n] = [k \in Node |->
        IF k \in Remotes(n) THEN Append(@[k], HaveMeta(m)) ELSE @[k]]]

\* IndexerQueue::metaCreated: the result is stored whatever is there.
\* Index::metaAdded, FolderGroup::handle_indexed_meta announce it.
MetaCreated(n, m) ==
    /\ meta' = [meta EXCEPT ![n][m.path] = m]
    /\ channel' = Broadcast(n, m, channel)
    /\ authored' = authored \cup {m}
    /\ lagging' = IF putAllowed(n, m.path, m.revision) \/ haveMeta(n, m.path, m.revision)
                  THEN lagging
                  ELSE lagging \cup {<<l, m.path>> : l \in {l \in links : n \in l}}
    /\ UNCHANGED netVars

\* IndexerWorker::make_Meta has finished; the clock said r.
Edit(n, p, r) ==
    /\ Cardinality(authored) < MaxEdits
    /\ MetaCreated(n, [path |-> p, revision |-> r, id |-> Cardinality(authored) + 1])

\* Two nodes have shaken hands: each will go through its index.
Connect(n, k) ==
    /\ {n, k} \in LinkOf \ links
    /\ links' = links \cup {{n, k}}
    /\ announcing' = announcing \cup {<<n, k>>, <<k, n>>}
    /\ UNCHANGED <<meta, channel, authored, lagging, drops>>

\* The link breaks; what is on its way is lost.
Drop(n, k) ==
    /\ {n, k} \in links
    /\ drops < MaxDrops
    /\ drops' = drops + 1
    /\ links' = links \ {{n, k}}
    /\ announcing' = announcing \ {<<n, k>>, <<k, n>>}
    /\ channel' = [channel EXCEPT ![n][k] = <<>>, ![k][n] = <<>>]
    /\ lagging' = {x \in lagging : x[1] # {n, k}}
    /\ UNCHANGED <<meta, authored>>

\* Faulty: paths are announced that the node has no Meta of.
MutRows(n) == {meta[n][p] : p \in Path}

\* Index::getMeta(), the whole table.
Rows(n) == {meta[n][p] : p \in Path} \ {NoMeta}

Orderings(S) ==
    {s \in [1 .. Cardinality(S) -> S] : \A x \in S : \E i \in DOMAIN s : s[i] = x}

\* MetaUploader::handle_handshake, from the timer set by
\* FolderGroup::handle_handshake.
Announce(n, k) ==
    /\ <<n, k>> \in announcing
    /\ announcing' = announcing \ {<<n, k>>}
    /\ \E rows \in Orderings(Rows(n)) :
            channel' = [channel EXCEPT ![n][k] =
                @ \o [i \in DOMAIN rows |-> HaveMeta(rows[i])]]
    /\ UNCHANGED <<meta, links, drops, authored, lagging>>
-----------------------------------------------------------------------------
\* Node n reads a message of this type from k, and sends messages back.
Reads(n, k, type) == channel[k][n] # <<>> /\ Head(channel[k][n]).type = type

Received(n, k) == Head(channel[k][n]).meta

Answered(n, k, messages) ==
    [channel EXCEPT ![k][n] = Tail(@), ![n][k] = @ \o messages]

\* MetaDownloader::handle_have_meta: a newer Meta is asked for; of one that is
\* there already the Downloader notes the chunks, an older one is ignored.
HandleHaveMeta(n, k) ==
    /\ Reads(n, k, "HAVE_META")
    /\ LET m == Received(n, k)
           wanted == ~haveMeta(n, m.path, m.revision) /\ putAllowed(n, m.path, m.revision)
       IN  channel' = Answered(n, k, IF wanted THEN <<MetaRequest(m)>> ELSE <<>>)
    /\ UNCHANGED <<meta, netVars, authored, lagging>>

\* MetaUploader::handle_meta_request: a revision that has been replaced
\* meanwhile is not sent.
HandleMetaRequest(n, k) ==
    /\ Reads(n, k, "META_REQUEST")
    /\ LET m == Received(n, k)
       IN  channel' = Answered(n, k,
                IF haveMeta(n, m.path, m.revision) THEN <<MetaReply(meta[n][m.path])>> ELSE <<>>)
    /\ UNCHANGED <<meta, netVars, authored, lagging>>

\* Index::putMeta.
Put(n, m) == [meta EXCEPT ![n][m.path] = m]

\* Faulty: the reply is stored though a newer Meta came first.
MutHandleMetaReply(n, k) ==
    /\ Reads(n, k, "META_REPLY")
    /\ meta' = Put(n, Received(n, k))
    /\ channel' = Broadcast(n, Received(n, k), Answered(n, k, <<>>))
    /\ UNCHANGED <<netVars, authored, lagging>>

\* Faulty: other peers are not told.
MutTakeMetaReply(n, k) ==
    /\ Reads(n, k, "META_REPLY")
    /\ LET m == Received(n, k)
       IN  meta' = IF putAllowed(n, m.path, m.revision) THEN Put(n, m) ELSE meta
    /\ channel' = Answered(n, k, <<>>)
    /\ UNCHANGED <<netVars, authored, lagging>>

\* MetaDownloader::handle_meta_reply; the Meta is stored if it is still newer,
\* and then announced like any other.
HandleMetaReply(n, k) ==
    /\ Reads(n, k, "META_REPLY")
    /\ LET m == Received(n, k) IN
        \/ /\ putAllowed(n, m.path, m.revision)
           /\ meta' = Put(n, m)
           /\ channel' = Broadcast(n, m, Answered(n, k, <<>>))
        \/ /\ ~putAllowed(n, m.path, m.revision)
           /\ channel' = Answered(n, k, <<>>)
           /\ UNCHANGED meta
    /\ UNCHANGED <<netVars, authored, lagging>>

Read(n, k) == HandleHaveMeta(n, k) \/ HandleMetaRequest(n, k) \/ HandleMetaReply(n, k)

Next ==
    \/ \E n \in Writer : \E p \in Path : \E r \in Revision : Edit(n, p, r)
    \/ \E n \in Node : \E k \in Node :
        \/ Connect(n, k)
        \/ Drop(n, k)
        \/ Announce(n, k)
        \/ Read(n, k)

Spec == Init /\ [][Next]_vars
-----------------------------------------------------------------------------
Metas == [path : Path, revision : Revision, id : Nat]

ASSUME NoMetaAssumption == NoMeta \notin Metas

\* Every variable keeps its type, and only what some node made is about.
TypeOK ==
    /\ authored \subseteq Metas
    /\ meta \in [Node -> [Path -> authored \cup {NoMeta}]]
    /\ links \subseteq LinkOf
    /\ announcing \subseteq Node \X Node
    /\ channel \in [Node -> [Node -> Seq([type : {"HAVE_META", "META_REQUEST", "META_REPLY"},
                                           meta : authored])]]
    /\ lagging \subseteq LinkOf \X Path
    /\ drops \in 0 .. MaxDrops

\* A message of this type about a revision of the path is on its way from n to k.
OnItsWay(n, k, type, p, r) ==
    \E i \in 1 .. Len(channel[n][k]) :
        /\ channel[n][k][i].type = type
        /\ channel[n][k][i].meta.path = p
        /\ channel[n][k][i].meta.revision = r

\* Node n is being told of the revision that k has, has asked for it, or is being
\* sent it.
UnderWay(n, k, p) ==
    LET r == meta[k][p].revision
    IN  \/ OnItsWay(k, n, "HAVE_META", p, r)
        \/ OnItsWay(n, k, "META_REQUEST", p, r)
        \/ OnItsWay(k, n, "META_REPLY", p, r)

\* No Meta is missed: if a neighbour k has one that n would take, it is under way
\* to n or going to be announced, whatever was edited, adopted,
\* dropped and connected meanwhile.  So a link that is at rest has equal
\* revisions at its ends, unless one of them went back.
NothingMissed ==
    \A n \in Node, k \in Node : \A p \in Path :
        /\ {n, k} \in links /\ <<{n, k}, p>> \notin lagging
        /\ meta[k][p] # NoMeta /\ putAllowed(n, p, meta[k][p].revision)
        => <<k, n>> \in announcing \/ UnderWay(n, k, p)

\* A META_REQUEST that comes too late and is dropped in silence
\* (handle_meta_request finds no such row) costs nothing: what k has instead is
\* newer than what was asked for, and n has got it or it is under way to n.  So n
\* need not ask again, nor wait for another handshake, unless an end went back.
RequestNotInVain ==
    \A n \in Node, k \in Node : \A p \in Path : \A r \in Revision :
        OnItsWay(n, k, "META_REQUEST", p, r) /\ <<{n, k}, p>> \notin lagging =>
            /\ meta[k][p] # NoMeta
            /\ r <= meta[k][p].revision
            /\ putAllowed(n, p, meta[k][p].revision) => UnderWay(n, k, p)

History == INSTANCE MetaHistory

\* Messages, their delays and losses add nothing to what MetaHistory promises:
\* a node's Meta is replaced by its own indexer or by a newer one only.
ImplementsHistory == History!Spec
-----------------------------------------------------------------------------
\* The event loops run, messages of a link that lasts arrive.
Fairness ==
    \A n \in Node, k \in Node : WF_vars(Announce(n, k)) /\ WF_vars(Read(n, k))

FairSpec == Spec /\ Fairness

RevisionOf(n, p) == IF meta[n][p] = NoMeta THEN 0 ELSE meta[n][p].revision

\* When no one edits any more, nodes that stay connected have the same
\* revisions, over any number of hops.  The only exception are links that were
\* up when an indexer put a node back to an older revision: they catch up when they
\* connect again, or with the next edit.
Converges ==
    <>[](\A n \in Node, k \in Node : \A p \in Path :
            {n, k} \in links /\ <<{n, k}, p>> \notin lagging
                => RevisionOf(n, p) = RevisionOf(k, p))
=============================================================================
