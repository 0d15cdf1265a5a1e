--------------------------- MODULE MetaSyncProofs ---------------------------
(***************************************************************************)
(* Proofs about MetaSync for any nodes, links, paths and revisions: only   *)
(* Metas that some node made are about, the exchange of messages           *)
(* implements MetaHistory, no Meta is missed while a link is up, and no     *)
(* request for one is in vain.                                             *)
(***************************************************************************)
EXTENDS MetaSync, FiniteSetTheorems, SequenceTheorems, TLAPS

\* Messages about the Metas of a set, and channels of them.
Messages(A) == [type : {"HAVE_META", "META_REQUEST", "META_REPLY"}, meta : A]
Channels(A) == [Node -> [Node -> Seq(Messages(A))]]

\* The inductive invariant: what IndexerQueue's results are numbered with is
\* new, and a Meta is stored under its own path.
IInv == /\ TypeOK
        /\ IsFiniteSet(authored)
        /\ \A m \in authored : m.id <= Cardinality(authored)
        /\ \A n \in Node : \A p \in Path : meta[n][p] # NoMeta => meta[n][p].path = p

\* What is a channel of Metas is one of more Metas.
LEMMA ChannelsGrow ==
    ASSUME NEW A, NEW B, A \subseteq B
    PROVE  Channels(A) \subseteq Channels(B)
<1>1. Messages(A) \subseteq Messages(B)
  BY DEF Messages
<1>2. Seq(Messages(A)) \subseteq Seq(Messages(B))
  BY <1>1, SeqDef
<1> QED BY <1>2 DEF Channels

\* Announcing a Meta to the remotes keeps the channels well formed.
LEMMA BroadcastType ==
    ASSUME NEW A, NEW ch \in Channels(A), NEW n \in Node, NEW m \in A
    PROVE  Broadcast(n, m, ch) \in Channels(A)
<1>1. HaveMeta(m) \in Messages(A)
  BY DEF HaveMeta, Message, Messages
<1> DEFINE row == [k \in Node |-> IF k \in Remotes(n)
                                  THEN Append(ch[n][k], HaveMeta(m)) ELSE ch[n][k]]
<1>2. row \in [Node -> Seq(Messages(A))]
  BY <1>1 DEF Channels
<1>3. Broadcast(n, m, ch) = [ch EXCEPT ![n] = row]
  BY DEF Broadcast, Channels
<1> QED BY <1>2, <1>3 DEF Channels

\* Reading a message and answering keeps them well formed.
LEMMA AnsweredType ==
    ASSUME NEW A, channel \in Channels(A), NEW n \in Node, NEW k \in Node,
           channel[k][n] # <<>>, NEW messages \in Seq(Messages(A))
    PROVE  Answered(n, k, messages) \in Channels(A)
<1> DEFINE ch == [channel EXCEPT ![k][n] = Tail(@)]
<1>1. Tail(channel[k][n]) \in Seq(Messages(A))
  BY DEF Channels
<1>2. ch \in Channels(A)
  BY <1>1 DEF Channels
<1>3. channel[n][k] \o messages \in Seq(Messages(A)) /\ ch[n][k] \o messages \in Seq(Messages(A))
  BY <1>2 DEF Channels
<1> QED BY <1>1, <1>3 DEF Answered, Channels

\* The type of the channels, in terms of Channels.
LEMMA TypeOfChannels == TypeOK <=> /\ authored \subseteq Metas
                                   /\ meta \in [Node -> [Path -> authored \cup {NoMeta}]]
                                   /\ links \subseteq LinkOf
                                   /\ announcing \subseteq Node \X Node
                                   /\ channel \in Channels(authored)
                                   /\ lagging \subseteq LinkOf \X Path
                                   /\ drops \in 0 .. MaxDrops
BY DEF TypeOK, Channels, Messages

\* What is received is a Meta that some node made.
LEMMA ReceivedAuthored ==
    ASSUME IInv, NEW n \in Node, NEW k \in Node, channel[k][n] # <<>>
    PROVE  /\ Received(n, k) \in authored
           /\ Received(n, k) \in Metas
           /\ Received(n, k).path \in Path
           /\ Received(n, k).revision \in Nat
<1>1. Head(channel[k][n]) \in Messages(authored)
  BY TypeOfChannels DEF IInv, Channels
<1> QED BY <1>1, RevisionAssumption DEF IInv, TypeOK, Messages, Received, Metas

\* Nothing is connected and nothing known at first.
LEMMA InitIInv == Init => IInv
<1> SUFFICES ASSUME Init PROVE IInv
  OBVIOUS
<1>1. channel \in Channels(authored)
  BY DEF Init, Channels
<1>2. TypeOK
  BY <1>1, BoundsAssumption, TypeOfChannels DEF Init
<1> QED BY <1>2, FS_EmptySet DEF Init, IInv

\* A result of an indexer is a new Meta.
LEMMA EditIsNew ==
    ASSUME IInv, NEW m, m.id = Cardinality(authored) + 1
    PROVE  m \notin authored
BY FS_CardinalityType DEF IInv

\* Results of indexers keep the invariant.
LEMMA EditIInv ==
    ASSUME IInv, NEW n \in Writer, NEW p \in Path, NEW r \in Revision, Edit(n, p, r)
    PROVE  IInv'
<1> DEFINE m == [path |-> p, revision |-> r, id |-> Cardinality(authored) + 1]
<1>1. Cardinality(authored) \in Nat
  BY FS_CardinalityType DEF IInv
<1>2. m \in Metas /\ m \notin authored
  BY <1>1, EditIsNew DEF Metas
<1>3. /\ authored' = authored \cup {m}
      /\ meta' = [meta EXCEPT ![n][p] = m]
      /\ channel' = Broadcast(n, m, channel)
      /\ lagging' \subseteq lagging \cup {<<l, p>> : l \in {l \in links : n \in l}}
      /\ UNCHANGED netVars
  BY DEF Edit, MetaCreated
<1>4. n \in Node
  BY WriterAssumption
<1> HIDE DEF m
<1>5. channel' \in Channels(authored')
  BY <1>3, <1>4, ChannelsGrow, BroadcastType, TypeOfChannels DEF IInv
<1>6. meta' \in [Node -> [Path -> authored' \cup {NoMeta}]]
  BY <1>3, <1>4 DEF IInv, TypeOK
<1>7. TypeOK'
  <2>1. lagging' \subseteq LinkOf \X Path
    BY <1>3 DEF IInv, TypeOK
  <2>2. authored' \subseteq Metas
    BY <1>2, <1>3 DEF IInv, TypeOK
  <2>3. /\ links' \subseteq LinkOf
        /\ announcing' \subseteq Node \X Node
        /\ drops' \in 0 .. MaxDrops
    BY <1>3 DEF IInv, TypeOK, netVars
  <2> QED BY <1>5, <1>6, <2>1, <2>2, <2>3 DEF TypeOK, Channels, Messages
<1>8. IsFiniteSet(authored') /\ Cardinality(authored') = Cardinality(authored) + 1
  BY <1>2, <1>3, FS_AddElement DEF IInv
<1>9. \A x \in authored' : x.id <= Cardinality(authored')
  <2> SUFFICES ASSUME NEW x \in authored' PROVE x.id <= Cardinality(authored) + 1
    BY <1>8
  <2>1. CASE x = m
    BY <2>1, <1>1 DEF m
  <2>2. CASE x \in authored
    BY <2>2, <1>1 DEF IInv, TypeOK, Metas
  <2> QED BY <2>1, <2>2, <1>3
<1>10. \A k \in Node : \A q \in Path : meta'[k][q] # NoMeta => meta'[k][q].path = q
  BY <1>3, <1>4 DEF IInv, TypeOK, m
<1> QED BY <1>7, <1>8, <1>9, <1>10 DEF IInv

\* What changes only links and messages keeps the invariant if the messages
\* are well formed.
LEMMA NetIInv ==
    ASSUME IInv, UNCHANGED <<meta, authored>>, links' \subseteq LinkOf,
           announcing' \subseteq Node \X Node, channel' \in Channels(authored),
           lagging' \subseteq lagging, drops' \in 0 .. MaxDrops
    PROVE  IInv'
<1>1. TypeOK'
  BY TypeOfChannels DEF IInv, TypeOK, Channels, Messages
<1> QED BY <1>1 DEF IInv

\* So do connecting, breaking and announcing.
LEMMA LinkIInv ==
    ASSUME IInv, NEW n \in Node, NEW k \in Node, Connect(n, k) \/ Drop(n, k) \/ Announce(n, k)
    PROVE  IInv'
<1>1. CASE Connect(n, k)
  <2>1. links' \subseteq LinkOf /\ announcing' \subseteq Node \X Node
    <3>1. links \subseteq LinkOf /\ announcing \subseteq Node \X Node
      BY DEF IInv, TypeOK
    <3>2. links' = links \cup {{n, k}} /\ {n, k} \in LinkOf
      BY <1>1 DEF Connect
    <3>3. announcing' = announcing \cup {<<n, k>>, <<k, n>>}
      BY <1>1 DEF Connect
    <3>4. <<n, k>> \in Node \X Node /\ <<k, n>> \in Node \X Node
      OBVIOUS
    <3> QED BY <3>1, <3>2, <3>3, <3>4, Zenon
  <2>2. channel' \in Channels(authored)
    BY <1>1, TypeOfChannels DEF IInv, Connect
  <2>3. lagging' \subseteq lagging /\ drops' \in 0 .. MaxDrops
    BY <1>1 DEF IInv, TypeOK, Connect
  <2> QED BY <1>1, <2>1, <2>2, <2>3, NetIInv DEF Connect
<1>2. CASE Drop(n, k)
  <2>1. channel' \in Channels(authored)
    <3>1. channel \in Channels(authored) /\ <<>> \in Seq(Messages(authored))
      BY TypeOfChannels DEF IInv
    <3> QED BY <1>2, <3>1 DEF Drop, Channels
  <2>2. drops' \in 0 .. MaxDrops
    BY <1>2, BoundsAssumption DEF IInv, TypeOK, Drop
  <2> QED BY <1>2, <2>1, <2>2, NetIInv, TypeOfChannels DEF IInv, Drop
<1>3. CASE Announce(n, k)
  <2>1. PICK rows \in Orderings(Rows(n)) :
            channel' = [channel EXCEPT ![n][k] =
                @ \o [i \in DOMAIN rows |-> HaveMeta(rows[i])]]
    BY <1>3 DEF Announce
  <2>2. Rows(n) \subseteq authored
    BY DEF IInv, TypeOK, Rows
  <2>3. Cardinality(Rows(n)) \in Nat
    BY <2>2, FS_Subset, FS_CardinalityType DEF IInv
  <2>4. rows \in [1 .. Cardinality(Rows(n)) -> authored]
    BY <2>2 DEF Orderings
  <2>5. [i \in DOMAIN rows |-> HaveMeta(rows[i])]
            \in [1 .. Cardinality(Rows(n)) -> Messages(authored)]
    BY <2>4 DEF HaveMeta, Message, Messages
  <2>6. [i \in DOMAIN rows |-> HaveMeta(rows[i])] \in Seq(Messages(authored))
    BY <2>3, <2>5, SeqDef
  <2>7. channel[n][k] \o [i \in DOMAIN rows |-> HaveMeta(rows[i])] \in Seq(Messages(authored))
    BY <2>6, TypeOfChannels DEF IInv, Channels
  <2>8. channel' \in Channels(authored)
    BY <2>1, <2>7, TypeOfChannels DEF IInv, Channels
  <2> QED BY <1>3, <2>8, NetIInv, TypeOfChannels DEF IInv, Announce
<1> QED BY <1>1, <1>2, <1>3

\* And so does reading a message.
LEMMA ReadIInv ==
    ASSUME IInv, NEW n \in Node, NEW k \in Node, Read(n, k)
    PROVE  IInv'
<1> USE DEF Reads
<1> DEFINE m == Received(n, k)
<1>1. channel[k][n] # <<>> /\ channel \in Channels(authored)
  BY TypeOfChannels DEF Read, HandleHaveMeta, HandleMetaRequest, HandleMetaReply, IInv
<1>2. m \in authored /\ m.path \in Path
  BY <1>1, ReceivedAuthored
<1>3. \A ms \in Seq(Messages(authored)) : Answered(n, k, ms) \in Channels(authored)
  BY <1>1, AnsweredType
<1>4. <<>> \in Seq(Messages(authored))
  OBVIOUS
<1> HIDE DEF m
<1>5. CASE HandleHaveMeta(n, k)
  <2>1. <<MetaRequest(m)>> \in Seq(Messages(authored))
    BY <1>2 DEF MetaRequest, Message, Messages
  <2>2. channel' \in Channels(authored)
    BY <1>3, <1>4, <1>5, <2>1 DEF HandleHaveMeta, m
  <2> QED BY <1>5, <2>2, NetIInv DEF HandleHaveMeta, IInv, TypeOK, netVars
<1>6. CASE HandleMetaRequest(n, k)
  <2>1. haveMeta(n, m.path, m.revision) =>
            <<MetaReply(meta[n][m.path])>> \in Seq(Messages(authored))
    BY <1>2 DEF MetaReply, Message, Messages, haveMeta, IInv, TypeOK
  <2>2. channel' \in Channels(authored)
    BY <1>3, <1>4, <1>6, <2>1 DEF HandleMetaRequest, m
  <2> QED BY <1>6, <2>2, NetIInv DEF HandleMetaRequest, IInv, TypeOK, netVars
<1>7. CASE HandleMetaReply(n, k)
  <2>1. CASE /\ meta' = Put(n, m)
             /\ channel' = Broadcast(n, m, Answered(n, k, <<>>))
    <3>1. channel' \in Channels(authored)
      BY <1>2, <1>3, <1>4, <2>1, BroadcastType
    <3>2. meta' \in [Node -> [Path -> authored \cup {NoMeta}]]
      BY <1>2, <2>1 DEF Put, IInv, TypeOK
    <3>3. TypeOK'
      BY <1>7, <3>1, <3>2 DEF HandleMetaReply, IInv, TypeOK, netVars, Channels, Messages
    <3>4. \A x \in Node : \A q \in Path : meta'[x][q] # NoMeta => meta'[x][q].path = q
      BY <1>2, <2>1 DEF Put, IInv, TypeOK
    <3> QED BY <1>7, <3>3, <3>4 DEF HandleMetaReply, IInv
  <2>2. CASE channel' = Answered(n, k, <<>>) /\ UNCHANGED meta
    <3>1. channel' \in Channels(authored)
      BY <1>3, <1>4, <2>2
    <3> QED BY <1>7, <2>2, <3>1, NetIInv DEF HandleMetaReply, IInv, TypeOK, netVars
  <2> QED BY <1>7, <2>1, <2>2 DEF HandleMetaReply, m
<1> QED BY <1>5, <1>6, <1>7 DEF Read

\* The invariant is inductive.
LEMMA NextIInv == IInv /\ [Next]_vars => IInv'
<1> SUFFICES ASSUME IInv, [Next]_vars PROVE IInv'
  OBVIOUS
<1>1. CASE \E n \in Writer : \E p \in Path : \E r \in Revision : Edit(n, p, r)
  BY <1>1, EditIInv
<1>2. CASE \E n \in Node : \E k \in Node : Connect(n, k) \/ Drop(n, k) \/ Announce(n, k)
  BY <1>2, LinkIInv
<1>3. CASE \E n \in Node : \E k \in Node : Read(n, k)
  BY <1>3, ReadIInv
<1>4. CASE UNCHANGED vars
  <2>1. channel' \in Channels(authored)
    BY <1>4, TypeOfChannels DEF IInv, vars, netVars
  <2> QED BY <1>4, <2>1, NetIInv DEF IInv, TypeOK, vars, netVars
<1> QED BY <1>1, <1>2, <1>3, <1>4 DEF Next

LEMMA IInvHolds == Spec => []IInv
BY InitIInv, NextIInv, PTL DEF Spec

\* In tables and messages of any number of nodes there are only Metas that some
\* node made (IndexerQueue::metaCreated).
THEOREM MetaSyncTypes == Spec => []TypeOK
<1>1. IInv => TypeOK
  BY DEF IInv
<1> QED BY <1>1, IInvHolds, PTL

\* A step of the nodes is one of MetaHistory, or changes nothing that it sees.
LEMMA StepRefines == IInv /\ [Next]_vars => [History!Next]_<<authored, meta>>
<1> SUFFICES ASSUME IInv, [Next]_vars
             PROVE  History!Next \/ UNCHANGED <<authored, meta>>
  BY Zenon
<1>1. ASSUME NEW n \in Writer, NEW p \in Path, NEW r \in Revision, Edit(n, p, r)
      PROVE  History!Next
  <2> DEFINE m == [path |-> p, revision |-> r, id |-> Cardinality(authored) + 1]
  <2>1. m \notin authored
    BY EditIsNew
  <2>2. /\ authored' = authored \cup {m}
        /\ meta' = [meta EXCEPT ![n][m.path] = m]
    BY <1>1 DEF Edit, MetaCreated
  <2>3. n \in Node /\ m \in authored'
    BY <2>2, WriterAssumption
  <2> HIDE DEF m
  <2> QED BY <2>1, <2>2, <2>3 DEF History!Next, History!Author
<1>2. ASSUME NEW n \in Node, NEW k \in Node, HandleMetaReply(n, k)
      PROVE  History!Next \/ UNCHANGED <<authored, meta>>
  <2> DEFINE m == Received(n, k)
  <2>1. m \in authored
    BY <1>2, ReceivedAuthored DEF HandleMetaReply, Reads
  <2>2. CASE putAllowed(n, m.path, m.revision) /\ meta' = Put(n, m)
    <3>1. History!Adopt(n, m)
      BY <1>2, <2>2 DEF History!Adopt, putAllowed, Put, HandleMetaReply
    <3> QED BY <2>1, <3>1 DEF History!Next
  <2>3. CASE UNCHANGED meta
    BY <1>2, <2>3 DEF HandleMetaReply
  <2> QED BY <1>2, <2>2, <2>3 DEF HandleMetaReply
<1>3. ASSUME NEW n \in Node, NEW k \in Node,
             \/ Connect(n, k) \/ Drop(n, k) \/ Announce(n, k)
             \/ HandleHaveMeta(n, k) \/ HandleMetaRequest(n, k)
      PROVE  UNCHANGED <<authored, meta>>
  BY <1>3 DEF Connect, Drop, Announce, HandleHaveMeta, HandleMetaRequest
<1>4. UNCHANGED vars => UNCHANGED <<authored, meta>>
  BY DEF vars
<1> QED BY <1>1, <1>2, <1>3, <1>4 DEF Next, Read

\* For any number of nodes, links, edits and losses, a node's Meta is replaced by
\* its own indexer's or by one that some node made and that is newer
\* (Index::putAllowed), and by nothing else.
THEOREM SyncImplementsHistory == Spec => ImplementsHistory
<1>1. Init => History!Init
  BY DEF Init, History!Init
<1> QED BY <1>1, IInvHolds, StepRefines, PTL DEF Spec, ImplementsHistory, History!Spec
-----------------------------------------------------------------------------
(***************************************************************************)
(* No Meta is missed.  The invariant NothingMissed needs only the types    *)
(* beside itself; what has to be followed are the messages.                *)
(***************************************************************************)

\* A message of this type about a revision of a path.
About(x, type, p, r) == x.type = type /\ x.meta.path = p /\ x.meta.revision = r

\* A queue has one.
Has(queue, type, p, r) == \E i \in 1 .. Len(queue) : About(queue[i], type, p, r)

LEMMA HasIsOnItsWay ==
    ASSUME NEW n, NEW k, NEW type, NEW p, NEW r
    PROVE  OnItsWay(n, k, type, p, r) <=> Has(channel[n][k], type, p, r)
BY DEF OnItsWay, Has, About

\* Sending leaves what is on its way, and adds to it.
LEMMA HasAppended ==
    ASSUME NEW M, NEW queue \in Seq(M), NEW ms \in Seq(M), NEW type, NEW p, NEW r,
           Has(queue, type, p, r) \/ Has(ms, type, p, r)
    PROVE  Has(queue \o ms, type, p, r)
<1>1. CASE Has(queue, type, p, r)
  <2>1. PICK i \in 1 .. Len(queue) : About(queue[i], type, p, r)
    BY <1>1 DEF Has
  <2>2. i \in 1 .. Len(queue \o ms) /\ (queue \o ms)[i] = queue[i]
    OBVIOUS
  <2> QED BY <2>1, <2>2 DEF Has
<1>2. CASE Has(ms, type, p, r)
  <2>1. PICK i \in 1 .. Len(ms) : About(ms[i], type, p, r)
    BY <1>2 DEF Has
  <2>2. Len(queue) + i \in 1 .. Len(queue \o ms) /\ (queue \o ms)[Len(queue) + i] = ms[i]
    OBVIOUS
  <2> QED BY <2>1, <2>2 DEF Has
<1> QED BY <1>1, <1>2

\* Reading leaves all but the first.
LEMMA HasTail ==
    ASSUME NEW M, NEW queue \in Seq(M), queue # <<>>, NEW type, NEW p, NEW r,
           Has(queue, type, p, r), ~About(Head(queue), type, p, r)
    PROVE  Has(Tail(queue), type, p, r)
<1>1. PICK i \in 1 .. Len(queue) : About(queue[i], type, p, r)
  BY DEF Has
<1>2. i # 1
  BY <1>1
<1>3. i - 1 \in 1 .. Len(Tail(queue)) /\ Tail(queue)[i - 1] = queue[i]
  BY <1>2
<1> QED BY <1>1, <1>3 DEF Has

\* Announcing a Meta to the remotes, in channels ch.
LEMMA BroadcastHas ==
    ASSUME NEW A, NEW ch \in Channels(A), NEW n \in Node, NEW m \in A
    PROVE  /\ \A x \in Node, y \in Node : \A type, p, r :
                Has(ch[x][y], type, p, r) => Has(Broadcast(n, m, ch)[x][y], type, p, r)
           /\ \A y \in Remotes(n) :
                Has(Broadcast(n, m, ch)[n][y], "HAVE_META", m.path, m.revision)
<1> DEFINE bc == Broadcast(n, m, ch)
<1>1. HaveMeta(m) \in Messages(A) /\ About(HaveMeta(m), "HAVE_META", m.path, m.revision)
  BY DEF HaveMeta, Message, Messages, About
<1>2. \A x \in Node, y \in Node : ch[x][y] \in Seq(Messages(A))
  BY DEF Channels
<1>3. <<HaveMeta(m)>> \in Seq(Messages(A)) /\ Has(<<HaveMeta(m)>>, "HAVE_META", m.path, m.revision)
  BY <1>1 DEF Has
<1>4. \A x \in Node, y \in Node :
        \/ bc[x][y] = ch[x][y] /\ ~(x = n /\ y \in Remotes(n))
        \/ bc[x][y] = ch[x][y] \o <<HaveMeta(m)>> /\ x = n /\ y \in Remotes(n)
  <2> SUFFICES ASSUME NEW x \in Node, NEW y \in Node
               PROVE  \/ bc[x][y] = ch[x][y] /\ ~(x = n /\ y \in Remotes(n))
                      \/ bc[x][y] = ch[x][y] \o <<HaveMeta(m)>> /\ x = n /\ y \in Remotes(n)
    OBVIOUS
  <2>1. CASE x # n
    BY <2>1 DEF Broadcast, Channels
  <2>2. CASE x = n
    <3>1. bc[x][y] = IF y \in Remotes(n) THEN Append(ch[n][y], HaveMeta(m)) ELSE ch[n][y]
      BY <2>2 DEF Broadcast, Channels
    <3>2. Append(ch[n][y], HaveMeta(m)) = ch[n][y] \o <<HaveMeta(m)>>
      BY <1>1, <1>2, AppendIsConcat
    <3> QED BY <2>2, <3>1, <3>2
  <2> QED BY <2>1, <2>2
<1> HIDE DEF bc
<1>5. ASSUME NEW x \in Node, NEW y \in Node, NEW type, NEW p, NEW r, Has(ch[x][y], type, p, r)
      PROVE  Has(bc[x][y], type, p, r)
  <2>1. CASE bc[x][y] = ch[x][y]
    BY <1>5, <2>1
  <2>2. CASE bc[x][y] = ch[x][y] \o <<HaveMeta(m)>>
    <3>1. ch[x][y] \in Seq(Messages(A))
      BY <1>2
    <3> QED BY <1>3, <1>5, <2>2, <3>1, HasAppended
  <2> QED BY <1>4, <2>1, <2>2
<1>6. ASSUME NEW y \in Remotes(n)
      PROVE  Has(bc[n][y], "HAVE_META", m.path, m.revision)
  <2>1. y \in Node
    BY DEF Remotes
  <2>2. bc[n][y] = ch[n][y] \o <<HaveMeta(m)>>
    BY <1>4, <2>1
  <2> QED BY <1>2, <1>3, <2>1, <2>2, HasAppended
<1> QED BY <1>5, <1>6 DEF bc

\* Node n reads a message of k and answers: all but the message that was
\* read stays on its way, and the answers join it.
LEMMA AnsweredHas ==
    ASSUME NEW A, channel \in Channels(A), NEW n \in Node, NEW k \in Node,
           channel[k][n] # <<>>, NEW messages \in Seq(Messages(A))
    PROVE  /\ \A x \in Node, y \in Node : \A type, p, r :
                /\ x # y /\ Has(channel[x][y], type, p, r)
                /\ ~(x = k /\ y = n /\ About(Head(channel[k][n]), type, p, r))
                => Has(Answered(n, k, messages)[x][y], type, p, r)
           /\ n # k => \A type, p, r :
                Has(messages, type, p, r) => Has(Answered(n, k, messages)[n][k], type, p, r)
<1> DEFINE an == Answered(n, k, messages)
<1>1. \A x \in Node, y \in Node : channel[x][y] \in Seq(Messages(A))
  BY DEF Channels
<1>2. \A x \in Node, y \in Node : ~(x = k /\ y = n) /\ ~(x = n /\ y = k) => an[x][y] = channel[x][y]
  BY DEF Answered, Channels
<1>3. n # k => an[k][n] = Tail(channel[k][n]) /\ an[n][k] = channel[n][k] \o messages
  BY DEF Answered, Channels
<1> HIDE DEF an
<1>4. ASSUME NEW x \in Node, NEW y \in Node, NEW type, NEW p, NEW r,
             x # y, Has(channel[x][y], type, p, r),
             ~(x = k /\ y = n /\ About(Head(channel[k][n]), type, p, r))
      PROVE  Has(an[x][y], type, p, r)
  <2>1. CASE x = k /\ y = n
    BY <1>1, <1>3, <1>4, <2>1, HasTail
  <2>2. CASE x = n /\ y = k
    BY <1>1, <1>3, <1>4, <2>2, HasAppended
  <2> QED BY <1>2, <1>4, <2>1, <2>2
<1>5. ASSUME n # k, NEW type, NEW p, NEW r, Has(messages, type, p, r)
      PROVE  Has(an[n][k], type, p, r)
  BY <1>1, <1>3, <1>5, HasAppended
<1> QED BY <1>4, <1>5 DEF an

\* Node k has a Meta that n would take, and should be told of.
Behind(n, k, p) ==
    /\ {n, k} \in links /\ <<{n, k}, p>> \notin lagging
    /\ meta[k][p] # NoMeta /\ putAllowed(n, p, meta[k][p].revision)

\* UnderWay, in terms of Has.
Coming(n, k, p) ==
    \/ Has(channel[k][n], "HAVE_META", p, meta[k][p].revision)
    \/ Has(channel[n][k], "META_REQUEST", p, meta[k][p].revision)
    \/ Has(channel[k][n], "META_REPLY", p, meta[k][p].revision)

LEMMA ComingIsUnderWay ==
    ASSUME NEW n, NEW k, NEW p
    PROVE  UnderWay(n, k, p) <=> Coming(n, k, p)
BY DEF UnderWay, OnItsWay, Coming, Has, About

\* Node k has a Meta that n would take, and nothing is under way.
Missed(n, k, p) == Behind(n, k, p) /\ ~Coming(n, k, p)

LEMMA MissedFacts ==
    NothingMissed <=> \A n \in Node, k \in Node : \A p \in Path :
                        Missed(n, k, p) => <<k, n>> \in announcing
BY ComingIsUnderWay DEF NothingMissed, Behind, Missed

LEMMA MissedNext ==
    ASSUME \A n \in Node, k \in Node : \A p \in Path : Missed(n, k, p)' => <<k, n>> \in announcing'
    PROVE  NothingMissed'
<1> SUFFICES ASSUME NEW n \in Node, NEW k \in Node, NEW p \in Path,
                    {n, k} \in links', <<{n, k}, p>> \notin lagging',
                    meta'[k][p] # NoMeta, putAllowed(n, p, meta[k][p].revision)'
             PROVE  <<k, n>> \in announcing' \/ UnderWay(n, k, p)'
  BY DEF NothingMissed
<1>1. Behind(n, k, p)'
  BY DEF Behind
<1>2. Coming(n, k, p)' \/ <<k, n>> \in announcing'
  BY <1>1 DEF Missed
<1> QED BY <1>2 DEF Coming, UnderWay, OnItsWay, Has, About

\* The Meta in a row.
LEMMA RowFacts ==
    ASSUME IInv, NEW n \in Node, NEW p \in Path, meta[n][p] # NoMeta
    PROVE  /\ meta[n][p] \in authored
           /\ meta[n][p].path = p
           /\ meta[n][p].revision \in Nat
<1>1. meta[n][p] \in authored /\ authored \subseteq Metas /\ meta[n][p].path = p
  BY DEF IInv, TypeOK
<1>2. meta[n][p].revision \in Revision
  BY <1>1 DEF Metas
<1> QED BY <1>1, <1>2, RevisionAssumption

\* A link has two different ends.
LEMMA EndsDiffer ==
    ASSUME IInv, NEW n \in Node, NEW k \in Node, {n, k} \in links
    PROVE  n # k /\ n \in Remotes(k) /\ k \in Remotes(n)
<1>1. {n, k} \in LinkOf
  BY DEF IInv, TypeOK
<1>2. n # k
  BY <1>1, LinkAssumption
<1>3. {k, n} = {n, k}
  OBVIOUS
<1> QED BY <1>2, <1>3 DEF Remotes

\* What is coming keeps coming if the message that shows it is not read.
LEMMA StillComing ==
    ASSUME NEW n \in Node, NEW k \in Node, NEW p \in Path, Coming(n, k, p),
           meta'[k][p] = meta[k][p],
           \A type \in {"HAVE_META", "META_REPLY"} :
                Has(channel[k][n], type, p, meta[k][p].revision)
                    => Has(channel'[k][n], type, p, meta[k][p].revision),
           Has(channel[n][k], "META_REQUEST", p, meta[k][p].revision)
                => Has(channel'[n][k], "META_REQUEST", p, meta[k][p].revision)
    PROVE  Coming(n, k, p)'
BY DEF Coming

\* The result of an indexer is announced; it is not to older revisions of a link's
\* other end, which makes the link one that lags.
LEMMA EditMisses ==
    ASSUME IInv, NEW x \in Writer, NEW q \in Path, NEW r \in Revision, Edit(x, q, r),
           NEW n \in Node, NEW k \in Node, NEW p \in Path,
           ~Missed(n, k, p), Behind(n, k, p)'
    PROVE  Coming(n, k, p)'
<1> DEFINE m == [path |-> q, revision |-> r, id |-> Cardinality(authored) + 1]
<1>1. /\ authored' = authored \cup {m}
      /\ meta' = [meta EXCEPT ![x][q] = m]
      /\ channel' = Broadcast(x, m, channel)
      /\ links' = links /\ announcing' = announcing
      /\ lagging' = IF putAllowed(x, q, r) \/ haveMeta(x, q, r) THEN lagging
                    ELSE lagging \cup {<<l, q>> : l \in {l \in links : x \in l}}
  BY DEF Edit, MetaCreated, netVars
<1>2. x \in Node /\ m \in authored' /\ m.path = q /\ m.revision = r /\ r \in Nat
  BY <1>1, WriterAssumption, RevisionAssumption
<1> HIDE DEF m
<1>3. channel \in Channels(authored')
  BY <1>1, ChannelsGrow, TypeOfChannels DEF IInv
<1>4. /\ \A a \in Node, b \in Node : \A type, u, v :
            Has(channel[a][b], type, u, v) => Has(channel'[a][b], type, u, v)
      /\ \A b \in Remotes(x) : Has(channel'[x][b], "HAVE_META", q, r)
  BY <1>1, <1>2, <1>3, BroadcastHas
<1>5. {n, k} \in links /\ <<{n, k}, p>> \notin lagging'
  BY <1>1 DEF Behind
<1>6. n # k /\ n \in Remotes(k)
  BY <1>5, EndsDiffer
<1>7. CASE k = x /\ p = q
  <2>1. meta'[k][p].revision = r
    BY <1>1, <1>2, <1>7 DEF IInv, TypeOK
  <2> QED BY <1>4, <1>6, <1>7, <2>1 DEF Coming
<1>8. CASE ~(k = x /\ p = q)
  <2>1. meta'[k][p] = meta[k][p]
    BY <1>1, <1>2, <1>8 DEF IInv, TypeOK
  <2>2. putAllowed(n, p, meta[k][p].revision)
    <3>1. putAllowed(n, p, meta[k][p].revision)'
      BY <2>1 DEF Behind, putAllowed
    <3>2. CASE n = x /\ p = q
      <4>1. meta'[n][p] = m
        BY <1>1, <1>2, <3>2 DEF IInv, TypeOK
      <4>2. m # NoMeta => r < meta[k][p].revision
        BY <1>2, <2>1, <3>1, <4>1 DEF putAllowed
      <4>3. putAllowed(x, q, r) \/ haveMeta(x, q, r)
        <5>1. <<{n, k}, p>> \in {<<l, q>> : l \in {l \in links : x \in l}}
          BY <1>5, <3>2
        <5> QED BY <1>1, <1>5, <5>1
      <4>4. meta[k][p].revision \in Nat
        BY <2>1, RowFacts DEF Behind
      <4>5. meta[n][p] # NoMeta => meta[n][p].revision \in Nat
        BY RowFacts
      <4>6. m # NoMeta
        BY <1>1, EditIInv, NoMetaAssumption DEF IInv, TypeOK
      <4> QED BY <1>2, <3>2, <4>2, <4>3, <4>4, <4>5, <4>6 DEF putAllowed, haveMeta
    <3>3. CASE ~(n = x /\ p = q)
      <4>1. meta'[n][p] = meta[n][p]
        BY <1>1, <1>2, <3>3 DEF IInv, TypeOK
      <4> QED BY <2>1, <3>1, <4>1 DEF putAllowed
    <3> QED BY <3>2, <3>3
  <2>3. Behind(n, k, p)
    BY <1>1, <1>5, <2>1, <2>2 DEF Behind
  <2>4. Coming(n, k, p)
    BY <2>3 DEF Missed
  <2> QED BY <1>1, <1>4, <2>1, <2>4, StillComing
<1> QED BY <1>7, <1>8

\* Links that come, go or announce.
LEMMA LinkMisses ==
    ASSUME IInv, NEW x \in Node, NEW y \in Node, Connect(x, y) \/ Drop(x, y) \/ Announce(x, y),
           NEW n \in Node, NEW k \in Node, NEW p \in Path,
           {n, k} \in links, ~Missed(n, k, p) \/ (Announce(x, y) /\ x = k /\ y = n), Behind(n, k, p)'
    PROVE  Coming(n, k, p)'
<1>1. meta' = meta
  BY DEF Connect, Drop, Announce
<1>2. CASE Connect(x, y)
  <2>1. Behind(n, k, p)
    BY <1>1, <1>2 DEF Connect, Behind, putAllowed
  <2>2. Coming(n, k, p)
    BY <1>2, <2>1 DEF Missed, Connect, Announce
  <2> QED BY <1>1, <1>2, <2>2, StillComing DEF Connect
<1>3. CASE Drop(x, y)
  <2>1. {n, k} # {x, y} /\ {n, k} \in links
    BY <1>3 DEF Drop, Behind
  <2>2. <<{n, k}, p>> \notin lagging
    BY <1>3, <2>1 DEF Drop, Behind
  <2>3. Coming(n, k, p)
    BY <1>1, <1>3, <2>1, <2>2 DEF Behind, putAllowed, Missed, Drop, Announce
  <2>4. channel'[n][k] = channel[n][k] /\ channel'[k][n] = channel[k][n]
    BY <1>3, <2>1 DEF Drop, IInv, TypeOK
  <2> QED BY <1>1, <2>3, <2>4, StillComing
<1>4. CASE Announce(x, y)
  <2>1. PICK rows \in Orderings(Rows(x)) :
            channel' = [channel EXCEPT ![x][y] =
                @ \o [i \in DOMAIN rows |-> HaveMeta(rows[i])]]
    BY <1>4 DEF Announce
  <2> DEFINE ms == [i \in DOMAIN rows |-> HaveMeta(rows[i])]
  <2>2. Rows(x) \subseteq authored
    BY DEF IInv, TypeOK, Rows
  <2>3. Cardinality(Rows(x)) \in Nat
    BY <2>2, FS_Subset, FS_CardinalityType DEF IInv
  <2>4. rows \in [1 .. Cardinality(Rows(x)) -> authored]
    BY <2>2 DEF Orderings
  <2>5. ms \in [1 .. Cardinality(Rows(x)) -> Messages(authored)]
    BY <2>4 DEF HaveMeta, Message, Messages
  <2>6. ms \in Seq(Messages(authored)) /\ Len(ms) = Cardinality(Rows(x))
    BY <2>3, <2>5, SeqDef
  <2>7. \A a \in Node, b \in Node : channel[a][b] \in Seq(Messages(authored))
    BY TypeOfChannels DEF IInv, Channels
  <2>8. Behind(n, k, p)
    BY <1>1, <1>4 DEF Announce, Behind, putAllowed
  <2>9. (k = x /\ n = y) \/ Coming(n, k, p)
    BY <2>8 DEF Missed
  <2>10. CASE k = x /\ n = y
    <3>1. meta[k][p] \in Rows(x)
      BY <2>8, <2>10 DEF Behind, Rows
    <3>2. PICK i \in DOMAIN rows : rows[i] = meta[k][p]
      BY <3>1 DEF Orderings
    <3>3. i \in 1 .. Len(ms) /\ ms[i] = HaveMeta(meta[k][p])
      BY <2>4, <2>6, <3>2
    <3>4. meta[k][p].path = p
      BY <2>8, RowFacts DEF Behind
    <3>5. Has(ms, "HAVE_META", p, meta[k][p].revision)
      BY <3>3, <3>4 DEF Has, About, HaveMeta, Message
    <3>6. channel'[k][n] = channel[k][n] \o ms
      BY <2>1, <2>10 DEF IInv, TypeOK
    <3>7. Has(channel'[k][n], "HAVE_META", p, meta[k][p].revision)
      BY <2>6, <2>7, <3>5, <3>6, HasAppended
    <3> QED BY <1>1, <3>7 DEF Coming
  <2>11. CASE ~(k = x /\ n = y)
    <3>1. channel'[k][n] = channel[k][n]
      BY <2>1, <2>11 DEF IInv, TypeOK
    <3>2. channel'[n][k] = channel[n][k] \/ channel'[n][k] = channel[n][k] \o ms
      BY <2>1 DEF IInv, TypeOK
    <3>3. Has(channel[n][k], "META_REQUEST", p, meta[k][p].revision)
            => Has(channel'[n][k], "META_REQUEST", p, meta[k][p].revision)
      BY <2>6, <2>7, <3>2, HasAppended
    <3> QED BY <1>1, <2>9, <2>11, <3>1, <3>3, StillComing
  <2> QED BY <2>10, <2>11
<1> QED BY <1>2, <1>3, <1>4

\* The message that is read is answered, or has done its work.
LEMMA ReadMisses ==
    ASSUME IInv, NEW x \in Node, NEW y \in Node, Read(x, y),
           NEW n \in Node, NEW k \in Node, NEW p \in Path,
           ~Missed(n, k, p), Behind(n, k, p)'
    PROVE  Coming(n, k, p)'
<1> USE DEF Reads
<1> DEFINE m == Received(x, y)
<1>1. /\ channel[y][x] # <<>> /\ channel \in Channels(authored)
      /\ links' = links /\ announcing' = announcing /\ lagging' = lagging
  BY TypeOfChannels DEF Read, HandleHaveMeta, HandleMetaRequest, HandleMetaReply, IInv, netVars
<1>2. m \in authored /\ m.path \in Path /\ m.revision \in Nat /\ Head(channel[y][x]).meta = m
  BY <1>1, ReceivedAuthored DEF Received
<1>3. \A ms \in Seq(Messages(authored)) :
        /\ \A a \in Node, b \in Node : \A type, u, r :
                /\ a # b /\ Has(channel[a][b], type, u, r)
                /\ ~(a = y /\ b = x /\ About(Head(channel[y][x]), type, u, r))
                => Has(Answered(x, y, ms)[a][b], type, u, r)
        /\ x # y => \A type, u, r :
                Has(ms, type, u, r) => Has(Answered(x, y, ms)[x][y], type, u, r)
  BY <1>1, AnsweredHas
<1>4. <<>> \in Seq(Messages(authored))
  OBVIOUS
<1> HIDE DEF m
<1> DEFINE r == meta[k][p].revision
<1>5. {n, k} \in links /\ n # k /\ n \in Remotes(k)
  BY <1>1, EndsDiffer DEF Behind
<1>6. ASSUME UNCHANGED meta
      PROVE  Behind(n, k, p) /\ Coming(n, k, p)
  <2>1. Behind(n, k, p)
    BY <1>1, <1>6 DEF Behind, putAllowed
  <2> QED BY <2>1 DEF Missed
<1>7. CASE HandleHaveMeta(x, y)
  <2>1. UNCHANGED meta /\ Head(channel[y][x]).type = "HAVE_META"
    BY <1>7 DEF HandleHaveMeta
  <2> DEFINE wanted == ~haveMeta(x, m.path, m.revision) /\ putAllowed(x, m.path, m.revision)
             ms == IF wanted THEN <<MetaRequest(m)>> ELSE <<>>
  <2>2. ms \in Seq(Messages(authored)) /\ channel' = Answered(x, y, ms)
    <3>1. <<MetaRequest(m)>> \in Seq(Messages(authored))
      BY <1>2 DEF MetaRequest, Message, Messages
    <3> QED BY <1>4, <1>7, <3>1 DEF HandleHaveMeta, m
  <2>3. CASE k = y /\ n = x /\ m.path = p /\ m.revision = r
    <3>1. wanted
      BY <1>2, <1>6, <2>1, <2>3 DEF Behind, putAllowed, haveMeta
    <3>2. Has(ms, "META_REQUEST", p, r)
      BY <2>3, <3>1 DEF Has, About, MetaRequest, Message
    <3>3. Has(channel'[n][k], "META_REQUEST", p, r)
      BY <1>3, <1>5, <2>2, <2>3, <3>2
    <3> QED BY <2>1, <3>3 DEF Coming
  <2>4. CASE ~(k = y /\ n = x /\ m.path = p /\ m.revision = r)
    <3>1. \A type : Has(channel[k][n], type, p, r) => Has(channel'[k][n], type, p, r)
      BY <1>2, <1>3, <1>5, <2>2, <2>4 DEF About
    <3>2. Has(channel[n][k], "META_REQUEST", p, r) => Has(channel'[n][k], "META_REQUEST", p, r)
      BY <1>3, <1>5, <2>1, <2>2 DEF About
    <3> QED BY <1>1, <1>6, <2>1, <3>1, <3>2, StillComing
  <2> QED BY <2>3, <2>4
<1>8. CASE HandleMetaRequest(x, y)
  <2>1. UNCHANGED meta /\ Head(channel[y][x]).type = "META_REQUEST"
    BY <1>8 DEF HandleMetaRequest
  <2> DEFINE ms == IF haveMeta(x, m.path, m.revision) THEN <<MetaReply(meta[x][m.path])>> ELSE <<>>
  <2>2. ms \in Seq(Messages(authored)) /\ channel' = Answered(x, y, ms)
    <3>1. haveMeta(x, m.path, m.revision) =>
            <<MetaReply(meta[x][m.path])>> \in Seq(Messages(authored))
      BY <1>2, RowFacts DEF MetaReply, Message, Messages, haveMeta
    <3> QED BY <1>4, <1>8, <3>1 DEF HandleMetaRequest, m
  <2>3. CASE n = y /\ k = x /\ m.path = p /\ m.revision = r
    <3>1. haveMeta(x, m.path, m.revision) /\ meta[x][m.path].path = p
      BY <1>2, <1>6, <2>1, <2>3, RowFacts DEF Behind, haveMeta
    <3>2. Has(ms, "META_REPLY", p, r)
      BY <2>3, <3>1 DEF Has, About, MetaReply, Message
    <3>3. Has(channel'[k][n], "META_REPLY", p, r)
      BY <1>3, <1>5, <2>2, <2>3, <3>2
    <3> QED BY <2>1, <3>3 DEF Coming
  <2>4. CASE ~(n = y /\ k = x /\ m.path = p /\ m.revision = r)
    <3>1. \A type \in {"HAVE_META", "META_REPLY"} :
            Has(channel[k][n], type, p, r) => Has(channel'[k][n], type, p, r)
      BY <1>3, <1>5, <2>1, <2>2 DEF About
    <3>2. Has(channel[n][k], "META_REQUEST", p, r) => Has(channel'[n][k], "META_REQUEST", p, r)
      BY <1>2, <1>3, <1>5, <2>2, <2>4 DEF About
    <3> QED BY <1>1, <1>6, <2>1, <3>1, <3>2, StillComing
  <2> QED BY <2>3, <2>4
<1>9. CASE HandleMetaReply(x, y)
  <2>1. Head(channel[y][x]).type = "META_REPLY"
    BY <1>9 DEF HandleMetaReply
  <2>2. CASE /\ ~putAllowed(x, m.path, m.revision)
             /\ channel' = Answered(x, y, <<>>) /\ UNCHANGED meta
    <3>1. ~(k = y /\ n = x /\ m.path = p /\ m.revision = r)
      BY <1>6, <2>2 DEF Behind
    <3>2. \A type : Has(channel[k][n], type, p, r) => Has(channel'[k][n], type, p, r)
      BY <1>2, <1>3, <1>4, <1>5, <2>2, <3>1 DEF About
    <3>3. Has(channel[n][k], "META_REQUEST", p, r) => Has(channel'[n][k], "META_REQUEST", p, r)
      BY <1>3, <1>4, <1>5, <2>1, <2>2 DEF About
    <3> QED BY <1>1, <1>6, <2>2, <3>2, <3>3, StillComing
  <2>3. CASE /\ putAllowed(x, m.path, m.revision)
             /\ meta' = Put(x, m)
             /\ channel' = Broadcast(x, m, Answered(x, y, <<>>))
    <3>1. Answered(x, y, <<>>) \in Channels(authored)
      BY <1>1, <1>4, AnsweredType
    <3>2. /\ \A a \in Node, b \in Node : \A type, q, v :
                Has(Answered(x, y, <<>>)[a][b], type, q, v) => Has(channel'[a][b], type, q, v)
          /\ \A b \in Remotes(x) : Has(channel'[x][b], "HAVE_META", m.path, m.revision)
      BY <1>2, <2>3, <3>1, BroadcastHas
    <3>3. meta' = [meta EXCEPT ![x][m.path] = m] /\ m # NoMeta
      BY <1>2, <2>3, NoMetaAssumption DEF Put, IInv, TypeOK
    <3>4. CASE k = x /\ m.path = p
      <4>1. meta'[k][p] = m
        BY <1>2, <3>3, <3>4 DEF IInv, TypeOK
      <4> QED BY <1>5, <3>2, <3>4, <4>1 DEF Coming
    <3>5. CASE ~(k = x /\ m.path = p)
      <4>1. meta'[k][p] = meta[k][p]
        BY <1>2, <3>3, <3>5 DEF IInv, TypeOK
      <4>2. putAllowed(n, p, r)' /\ r \in Nat
        BY <4>1, RowFacts DEF Behind, putAllowed
      <4>3. putAllowed(n, p, r) /\ (n = x /\ m.path = p => m.revision # r)
        <5>1. CASE n = x /\ m.path = p
          <6>1. meta'[n][p] = m
            BY <1>2, <3>3, <5>1 DEF IInv, TypeOK
          <6>2. m.revision < r
            BY <3>3, <4>1, <4>2, <6>1 DEF putAllowed
          <6> QED BY <1>2, <2>3, <4>2, <5>1, <6>2, RowFacts DEF putAllowed
        <5>2. CASE ~(n = x /\ m.path = p)
          <6>1. meta'[n][p] = meta[n][p]
            BY <1>2, <3>3, <5>2 DEF IInv, TypeOK
          <6> QED BY <4>1, <4>2, <5>2, <6>1 DEF putAllowed
        <5> QED BY <5>1, <5>2
      <4>4. Coming(n, k, p)
        BY <1>1, <4>1, <4>3 DEF Behind, Missed
      <4>5. \A type : Has(channel[k][n], type, p, r) => Has(channel'[k][n], type, p, r)
        BY <1>2, <1>3, <1>4, <1>5, <3>2, <4>3 DEF About
      <4>6. Has(channel[n][k], "META_REQUEST", p, r) => Has(channel'[n][k], "META_REQUEST", p, r)
        BY <1>3, <1>4, <1>5, <2>1, <3>2 DEF About
      <4> QED BY <1>1, <4>1, <4>4, <4>5, <4>6, StillComing
    <3> QED BY <3>4, <3>5
  <2> QED BY <1>9, <2>2, <2>3 DEF HandleMetaReply, m
<1> QED BY <1>7, <1>8, <1>9 DEF Read

\* Nothing is missed that was not before, over a link that was up before the step.
LEMMA StepMisses ==
    ASSUME IInv, [Next]_vars, NEW n \in Node, NEW k \in Node, NEW p \in Path,
           {n, k} \in links, ~Missed(n, k, p) \/ Announce(k, n), Behind(n, k, p)'
    PROVE  Coming(n, k, p)'
<1>1. CASE Announce(k, n)
  BY <1>1, LinkMisses
<1>2. CASE ~Missed(n, k, p)
  <2>1. CASE \E x \in Writer : \E q \in Path : \E r \in Revision : Edit(x, q, r)
    BY <1>2, <2>1, EditMisses
  <2>2. CASE \E x \in Node : \E y \in Node : Connect(x, y) \/ Drop(x, y) \/ Announce(x, y)
    BY <1>2, <2>2, LinkMisses
  <2>3. CASE \E x \in Node : \E y \in Node : Read(x, y)
    BY <1>2, <2>3, ReadMisses
  <2>4. CASE UNCHANGED vars
    <3>1. UNCHANGED <<meta, links, lagging, channel>>
      BY <2>4 DEF vars, netVars
    <3>2. Coming(n, k, p)
      BY <1>2, <3>1 DEF Behind, putAllowed, Missed
    <3> QED BY <3>1, <3>2, StillComing
  <2> QED BY <2>1, <2>2, <2>3, <2>4 DEF Next
<1> QED BY <1>1, <1>2

\* Only the announcement itself, or the end of the link, takes it off the timer.
LEMMA StillAnnouncing ==
    ASSUME IInv, [Next]_vars, NEW n \in Node, NEW k \in Node,
           <<k, n>> \in announcing, {n, k} \in links', ~Announce(k, n)
    PROVE  <<k, n>> \in announcing'
<1>1. CASE \E x \in Writer : \E q \in Path : \E r \in Revision : Edit(x, q, r)
  BY <1>1 DEF Edit, MetaCreated, netVars
<1>2. CASE \E x \in Node : \E y \in Node : Connect(x, y) \/ Read(x, y)
  BY <1>2 DEF Connect, Read, HandleHaveMeta, HandleMetaRequest, HandleMetaReply, netVars
<1>3. ASSUME NEW x \in Node, NEW y \in Node, Drop(x, y)
      PROVE  <<k, n>> \in announcing'
  <2>1. {n, k} # {x, y}
    BY <1>3 DEF Drop
  <2> QED BY <1>3, <2>1 DEF Drop
<1>4. ASSUME NEW x \in Node, NEW y \in Node, Announce(x, y)
      PROVE  <<k, n>> \in announcing'
  <2>1. <<x, y>> # <<k, n>>
    BY <1>4
  <2> QED BY <1>4, <2>1 DEF Announce
<1>5. CASE UNCHANGED vars
  BY <1>5 DEF vars, netVars
<1> QED BY <1>1, <1>2, <1>3, <1>4, <1>5 DEF Next

\* A link that comes up is announced on from both ends.
LEMMA NewLinkAnnounces ==
    ASSUME IInv, [Next]_vars, NEW n \in Node, NEW k \in Node, {n, k} \in links' \ links
    PROVE  \E x \in Node, y \in Node : Connect(x, y) /\ {n, k} = {x, y}
<1>1. \A x \in Node, y \in Node : Drop(x, y) \/ Announce(x, y) \/ Read(x, y) => links' \subseteq links
  BY DEF Drop, Announce, Read, HandleHaveMeta, HandleMetaRequest, HandleMetaReply, netVars
<1>2. (\E x \in Writer : \E q \in Path : \E r \in Revision : Edit(x, q, r)) => links' = links
  BY DEF Edit, MetaCreated, netVars
<1>3. UNCHANGED vars => links' = links
  BY DEF vars, netVars
<1>4. PICK x \in Node, y \in Node : Connect(x, y)
  BY <1>1, <1>2, <1>3 DEF Next
<1> QED BY <1>4 DEF Connect

\* For any nodes, links, paths, edits and losses: what a neighbour has and the
\* node would take is announced to it, asked for or sent
\* (MetaUploader::handle_handshake, broadcast_meta and the handlers of both sides leave no
\* gap), unless an indexer put the node back.
THEOREM NoMetaMissed == Spec => []NothingMissed
<1>1. Init => NothingMissed
  BY DEF Init, NothingMissed
<1>2. IInv /\ NothingMissed /\ [Next]_vars => NothingMissed'
  <2> SUFFICES ASSUME IInv, NothingMissed, [Next]_vars,
                      NEW n \in Node, NEW k \in Node, NEW p \in Path, Missed(n, k, p)'
               PROVE  <<k, n>> \in announcing'
    BY MissedNext
  <2>1. CASE {n, k} \in links
    <3>1. Missed(n, k, p) /\ ~Announce(k, n)
      BY <2>1, StepMisses DEF Missed
    <3>2. <<k, n>> \in announcing
      BY <3>1, MissedFacts
    <3> QED BY <3>1, <3>2, StillAnnouncing DEF Missed, Behind
  <2>2. CASE {n, k} \notin links
    <3>1. {n, k} \in links' \ links
      BY <2>2 DEF Missed, Behind
    <3>2. PICK x \in Node, y \in Node : Connect(x, y) /\ {n, k} = {x, y}
      BY <3>1, NewLinkAnnounces
    <3> QED BY <3>2 DEF Connect
  <2> QED BY <2>1, <2>2
<1> QED BY <1>1, <1>2, IInvHolds, PTL DEF Spec

-----------------------------------------------------------------------------
(***************************************************************************)
(* No request is in vain.  What n was told of by k, or asks of it, k has or *)
(* has replaced; from the first such message on, n is told of what          *)
(* replaces it without another announcement.                                *)
(***************************************************************************)

\* Where the messages of a queue come from.
LEMMA HasFrom ==
    ASSUME NEW M, NEW queue \in Seq(M), NEW ms \in Seq(M), NEW type, NEW p, NEW r
    PROVE  /\ Has(queue \o ms, type, p, r) => Has(queue, type, p, r) \/ Has(ms, type, p, r)
           /\ queue # <<>> /\ Has(Tail(queue), type, p, r) => Has(queue, type, p, r)
<1>1. ASSUME Has(queue \o ms, type, p, r), ~Has(queue, type, p, r)
      PROVE  Has(ms, type, p, r)
  <2>1. PICK i \in 1 .. Len(queue \o ms) : About((queue \o ms)[i], type, p, r)
    BY <1>1 DEF Has
  <2>2. i \notin 1 .. Len(queue)
    <3>1. i \in 1 .. Len(queue) => (queue \o ms)[i] = queue[i]
      OBVIOUS
    <3> QED BY <1>1, <2>1, <3>1 DEF Has
  <2>3. i - Len(queue) \in 1 .. Len(ms) /\ ms[i - Len(queue)] = (queue \o ms)[i]
    BY <2>2
  <2> QED BY <2>1, <2>3 DEF Has
<1>2. ASSUME queue # <<>>, Has(Tail(queue), type, p, r)
      PROVE  Has(queue, type, p, r)
  <2>1. PICK i \in 1 .. Len(Tail(queue)) : About(Tail(queue)[i], type, p, r)
    BY <1>2 DEF Has
  <2>2. i + 1 \in 1 .. Len(queue) /\ queue[i + 1] = Tail(queue)[i]
    BY <1>2
  <2> QED BY <2>1, <2>2 DEF Has
<1> QED BY <1>1, <1>2

\* A broadcast adds announcements of the node's only.
LEMMA BroadcastFrom ==
    ASSUME NEW A, NEW ch \in Channels(A), NEW n \in Node, NEW m \in A,
           NEW x \in Node, NEW y \in Node, NEW type, NEW p, NEW r,
           Has(Broadcast(n, m, ch)[x][y], type, p, r), ~Has(ch[x][y], type, p, r)
    PROVE  x = n /\ type = "HAVE_META" /\ p = m.path /\ r = m.revision
<1>1. HaveMeta(m) \in Messages(A) /\ ch[x][y] \in Seq(Messages(A))
  BY DEF HaveMeta, Message, Messages, Channels
<1>2. \/ Broadcast(n, m, ch)[x][y] = ch[x][y]
      \/ x = n /\ Broadcast(n, m, ch)[x][y] = Append(ch[x][y], HaveMeta(m))
  BY DEF Broadcast, Channels
<1>3. Append(ch[x][y], HaveMeta(m)) = ch[x][y] \o <<HaveMeta(m)>>
  BY <1>1, AppendIsConcat
<1>4. x = n /\ Has(<<HaveMeta(m)>>, type, p, r)
  <2>1. <<HaveMeta(m)>> \in Seq(Messages(A))
    BY <1>1
  <2>2. Has(ch[x][y] \o <<HaveMeta(m)>>, type, p, r)
            => Has(ch[x][y], type, p, r) \/ Has(<<HaveMeta(m)>>, type, p, r)
    BY <1>1, <2>1, HasFrom
  <2>3. x = n /\ Broadcast(n, m, ch)[x][y] = ch[x][y] \o <<HaveMeta(m)>>
    BY <1>2, <1>3
  <2> QED BY <2>2, <2>3
<1> QED BY <1>4 DEF Has, About, HaveMeta, Message

\* Reading and answering adds the answers only.
LEMMA AnsweredFrom ==
    ASSUME NEW A, channel \in Channels(A), NEW n \in Node, NEW k \in Node,
           channel[k][n] # <<>>, NEW messages \in Seq(Messages(A))
    PROVE  \A x \in Node, y \in Node : \A type, p, r :
                x # y /\ Has(Answered(n, k, messages)[x][y], type, p, r)
                    => Has(channel[x][y], type, p, r) \/ (x = n /\ y = k /\ Has(messages, type, p, r))
<1> SUFFICES ASSUME NEW x \in Node, NEW y \in Node, x # y, NEW type, NEW p, NEW r,
                    Has(Answered(n, k, messages)[x][y], type, p, r), ~Has(channel[x][y], type, p, r)
             PROVE  x = n /\ y = k /\ Has(messages, type, p, r)
  OBVIOUS
<1>1. channel[x][y] \in Seq(Messages(A))
  BY DEF Channels
<1>2. CASE x = k /\ y = n
  <2>1. Answered(n, k, messages)[x][y] = Tail(channel[x][y])
    BY <1>2 DEF Answered, Channels
  <2> QED BY <1>1, <1>2, <2>1, HasFrom
<1>3. CASE x = n /\ y = k
  <2>1. Answered(n, k, messages)[x][y] = channel[x][y] \o messages
    BY <1>3 DEF Answered, Channels
  <2> QED BY <1>1, <1>3, <2>1, HasFrom
<1>4. CASE ~(x = k /\ y = n) /\ ~(x = n /\ y = k)
  <2>1. Answered(n, k, messages)[x][y] = channel[x][y]
    BY <1>4 DEF Answered, Channels
  <2> QED BY <2>1
<1> QED BY <1>2, <1>3, <1>4

\* Node n was told by k of a revision, or asks k for it.
Known(n, k, p, r) ==
    \/ Has(channel[k][n], "HAVE_META", p, r)
    \/ Has(channel[n][k], "META_REQUEST", p, r)

\* Where nothing is connected nothing is announced or on its way; and what is known
\* of k is what k has, or has replaced without n missing it.
KInv ==
    /\ \A n \in Node, k \in Node : <<n, k>> \in announcing => {n, k} \in links
    /\ \A n \in Node, k \in Node : {n, k} \notin links => channel[n][k] = <<>>
    /\ \A n \in Node, k \in Node : \A p \in Path : \A r \in Revision :
        {n, k} \in links /\ <<{n, k}, p>> \notin lagging /\ Known(n, k, p, r) =>
            /\ meta[k][p] # NoMeta
            /\ r <= meta[k][p].revision
            /\ ~Missed(n, k, p)

\* What comes to be known is what k has.
LEMMA KnownFrom ==
    ASSUME IInv, [Next]_vars, NEW n \in Node, NEW k \in Node, NEW p \in Path, NEW r \in Revision,
           n # k, Known(n, k, p, r)', ~Known(n, k, p, r)
    PROVE  /\ meta'[k][p] # NoMeta
           /\ meta'[k][p].revision = r
           /\ Has(channel'[k][n], "HAVE_META", p, r)
<1>1. channel \in Channels(authored) /\ IInv'
  BY TypeOfChannels, NextIInv DEF IInv
<1>2. \A a \in Node, b \in Node : channel[a][b] \in Seq(Messages(authored))
  BY <1>1 DEF Channels
<1>3. ASSUME NEW x \in Writer, NEW q \in Path, NEW v \in Revision, Edit(x, q, v)
      PROVE  /\ meta'[k][p] # NoMeta /\ meta'[k][p].revision = r
             /\ Has(channel'[k][n], "HAVE_META", p, r)
  <2> DEFINE m == [path |-> q, revision |-> v, id |-> Cardinality(authored) + 1]
  <2>1. /\ authored' = authored \cup {m}
        /\ meta' = [meta EXCEPT ![x][q] = m]
        /\ channel' = Broadcast(x, m, channel)
    BY <1>3 DEF Edit, MetaCreated
  <2>2. x \in Node /\ m \in authored' /\ m.path = q /\ m.revision = v /\ m # NoMeta
    BY <1>1, <2>1, WriterAssumption, NoMetaAssumption DEF IInv, TypeOK
  <2> HIDE DEF m
  <2>3. channel \in Channels(authored')
    BY <1>1, <2>1, ChannelsGrow
  <2>4. k = x /\ p = q /\ r = v /\ Has(channel'[k][n], "HAVE_META", p, r)
    <3>1. CASE Has(channel'[k][n], "HAVE_META", p, r)
      BY <2>1, <2>2, <2>3, <3>1, BroadcastFrom DEF Known
    <3>2. CASE Has(channel'[n][k], "META_REQUEST", p, r)
      BY <2>1, <2>2, <2>3, <3>2, BroadcastFrom DEF Known
    <3> QED BY <3>1, <3>2 DEF Known
  <2> QED BY <2>1, <2>2, <2>4 DEF IInv, TypeOK
<1>4. ASSUME NEW x \in Node, NEW y \in Node, Connect(x, y) \/ Drop(x, y)
      PROVE  FALSE
  <2>1. \A a \in Node, b \in Node : channel'[a][b] = channel[a][b] \/ channel'[a][b] = <<>>
    <3>1. Connect(x, y) => channel' = channel
      BY DEF Connect
    <3>2. Drop(x, y) => channel' = [channel EXCEPT ![x][y] = <<>>, ![y][x] = <<>>]
      BY DEF Drop
    <3>3. CASE Connect(x, y)
      BY <3>1, <3>3
    <3>4. CASE Drop(x, y)
      <4> SUFFICES ASSUME NEW a \in Node, NEW b \in Node
                   PROVE  channel'[a][b] = channel[a][b] \/ channel'[a][b] = <<>>
        OBVIOUS
      <4> DEFINE ch == [channel EXCEPT ![x][y] = <<>>]
      <4>1. ch \in [Node -> [Node -> Seq(Messages(authored))]]
        <5>1. <<>> \in Seq(Messages(authored))
          OBVIOUS
        <5> QED BY <1>1, <5>1 DEF Channels
      <4>2. ch[a][b] = channel[a][b] \/ ch[a][b] = <<>>
        <5>1. CASE a # x
          BY <1>1, <5>1 DEF Channels
        <5>2. CASE a = x /\ b = y
          BY <1>1, <5>2 DEF Channels
        <5>3. CASE a = x /\ b # y
          BY <1>1, <5>3 DEF Channels
        <5> QED BY <5>1, <5>2, <5>3
      <4>3. channel' = [ch EXCEPT ![y][x] = <<>>]
        BY <3>2, <3>4
      <4> HIDE DEF ch
      <4>4. channel'[a][b] = ch[a][b] \/ channel'[a][b] = <<>>
        BY <4>1, <4>3
      <4> QED BY <4>2, <4>4
    <3> QED BY <1>4, <3>3, <3>4
  <2>2. \A type : ~Has(<<>>, type, p, r)
    BY DEF Has
  <2> QED BY <2>1, <2>2 DEF Known
<1>5. ASSUME NEW x \in Node, NEW y \in Node, Announce(x, y)
      PROVE  /\ meta'[k][p] # NoMeta /\ meta'[k][p].revision = r
             /\ Has(channel'[k][n], "HAVE_META", p, r)
  <2>1. PICK rows \in Orderings(Rows(x)) :
            channel' = [channel EXCEPT ![x][y] =
                @ \o [i \in DOMAIN rows |-> HaveMeta(rows[i])]]
    BY <1>5 DEF Announce
  <2> DEFINE ms == [i \in DOMAIN rows |-> HaveMeta(rows[i])]
  <2>2. Rows(x) \subseteq authored
    BY DEF IInv, TypeOK, Rows
  <2>3. Cardinality(Rows(x)) \in Nat
    BY <2>2, FS_Subset, FS_CardinalityType DEF IInv
  <2>4. rows \in [1 .. Cardinality(Rows(x)) -> Rows(x)]
    BY DEF Orderings
  <2>5. ms \in [1 .. Cardinality(Rows(x)) -> Messages(authored)]
    BY <2>2, <2>4 DEF HaveMeta, Message, Messages
  <2>6. ms \in Seq(Messages(authored)) /\ Len(ms) = Cardinality(Rows(x))
    BY <2>3, <2>5, SeqDef
  <2>7. \A a \in Node, b \in Node :
            channel'[a][b] = channel[a][b] \/ (a = x /\ channel'[a][b] = channel[a][b] \o ms)
    BY <1>1, <2>1 DEF Channels
  <2>8. \A type : Has(ms, type, p, r) =>
            type = "HAVE_META" /\ meta[x][p] # NoMeta /\ meta[x][p].revision = r
    <3> SUFFICES ASSUME NEW type, NEW i \in 1 .. Len(ms), About(ms[i], type, p, r)
                 PROVE  type = "HAVE_META" /\ meta[x][p] # NoMeta /\ meta[x][p].revision = r
      BY DEF Has
    <3>1. rows[i] \in Rows(x) /\ ms[i] = HaveMeta(rows[i])
      BY <2>4, <2>6
    <3>2. PICK q \in Path : rows[i] = meta[x][q] /\ meta[x][q] # NoMeta
      BY <3>1 DEF Rows
    <3>3. q = p
      BY <3>1, <3>2, RowFacts DEF About, HaveMeta, Message
    <3> QED BY <3>1, <3>2, <3>3 DEF About, HaveMeta, Message
  <2> HIDE DEF ms
  <2>9. \A a \in Node, b \in Node : \A type :
            Has(channel'[a][b], type, p, r) =>
                Has(channel[a][b], type, p, r) \/ (a = x /\ Has(ms, type, p, r))
    <3> SUFFICES ASSUME NEW a \in Node, NEW b \in Node, NEW type, Has(channel'[a][b], type, p, r),
                        ~Has(channel[a][b], type, p, r)
                 PROVE  a = x /\ Has(ms, type, p, r)
      OBVIOUS
    <3>1. a = x /\ channel'[a][b] = channel[a][b] \o ms
      BY <2>7
    <3>2. channel[a][b] \in Seq(Messages(authored))
      BY <1>2
    <3> QED BY <2>6, <3>1, <3>2, HasFrom
  <2>10. k = x /\ Has(ms, "HAVE_META", p, r) /\ Has(channel'[k][n], "HAVE_META", p, r)
    BY <2>8, <2>9 DEF Known
  <2>11. meta' = meta
    BY <1>5 DEF Announce
  <2> QED BY <2>8, <2>10, <2>11
<1>6. ASSUME NEW x \in Node, NEW y \in Node, Read(x, y)
      PROVE  /\ meta'[k][p] # NoMeta /\ meta'[k][p].revision = r
             /\ Has(channel'[k][n], "HAVE_META", p, r)
  <2> DEFINE m == Received(x, y)
  <2>1. channel[y][x] # <<>>
    BY <1>6 DEF Read, HandleHaveMeta, HandleMetaRequest, HandleMetaReply, Reads
  <2>2. m \in authored /\ m.path \in Path /\ Head(channel[y][x]).meta = m /\ m # NoMeta
    BY <2>1, ReceivedAuthored, NoMetaAssumption DEF Received
  <2>3. <<>> \in Seq(Messages(authored)) /\ \A type : ~Has(<<>>, type, p, r)
    BY DEF Has
  <2> HIDE DEF m
  <2>4. ASSUME HandleHaveMeta(x, y) PROVE FALSE
    <3> DEFINE ms == IF ~haveMeta(x, m.path, m.revision) /\ putAllowed(x, m.path, m.revision)
                     THEN <<MetaRequest(m)>> ELSE <<>>
    <3>1. ms \in Seq(Messages(authored)) /\ channel' = Answered(x, y, ms)
      <4>1. <<MetaRequest(m)>> \in Seq(Messages(authored))
        BY <2>2 DEF MetaRequest, Message, Messages
      <4> QED BY <2>3, <2>4, <4>1 DEF HandleHaveMeta, m
    <3>2. \A type : Has(ms, type, p, r) => type = "META_REQUEST" /\ m.path = p /\ m.revision = r
      BY DEF Has, About, MetaRequest, Message
    <3> HIDE DEF ms
    <3>3. n = x /\ k = y /\ Has(ms, "META_REQUEST", p, r)
      <4>0. \A a \in Node, b \in Node : \A type :
              a # b /\ Has(channel'[a][b], type, p, r)
                  => Has(channel[a][b], type, p, r) \/ (a = x /\ b = y /\ Has(ms, type, p, r))
        BY <1>1, <2>1, <3>1, AnsweredFrom
      <4>1. CASE Has(channel'[k][n], "HAVE_META", p, r)
        BY <3>2, <4>0, <4>1 DEF Known
      <4>2. CASE Has(channel'[n][k], "META_REQUEST", p, r)
        BY <4>0, <4>2 DEF Known
      <4> QED BY <4>1, <4>2 DEF Known
    <3>4. Head(channel[k][n]).type = "HAVE_META"
      BY <2>4, <3>3 DEF HandleHaveMeta, Reads
    <3>5. About(Head(channel[k][n]), "HAVE_META", p, r)
      BY <2>2, <3>2, <3>3, <3>4 DEF About
    <3>6. 1 \in 1 .. Len(channel[k][n]) /\ Head(channel[k][n]) = channel[k][n][1]
      BY <1>2, <2>1, <3>3
    <3> QED BY <3>5, <3>6 DEF Known, Has
  <2>5. ASSUME HandleMetaRequest(x, y) PROVE FALSE
    <3> DEFINE ms == IF haveMeta(x, m.path, m.revision) THEN <<MetaReply(meta[x][m.path])>> ELSE <<>>
    <3>1. ms \in Seq(Messages(authored)) /\ channel' = Answered(x, y, ms)
      <4>1. haveMeta(x, m.path, m.revision) =>
              <<MetaReply(meta[x][m.path])>> \in Seq(Messages(authored))
        BY <2>2, RowFacts DEF MetaReply, Message, Messages, haveMeta
      <4> QED BY <2>3, <2>5, <4>1 DEF HandleMetaRequest, m
    <3>2. \A type : Has(ms, type, p, r) => type = "META_REPLY"
      BY DEF Has, About, MetaReply, Message
    <3> HIDE DEF ms
    <3>3. \A a \in Node, b \in Node : \A type :
            a # b /\ Has(channel'[a][b], type, p, r)
                => Has(channel[a][b], type, p, r) \/ (a = x /\ b = y /\ Has(ms, type, p, r))
      BY <1>1, <2>1, <3>1, AnsweredFrom
    <3> QED BY <3>2, <3>3 DEF Known
  <2>6. CASE HandleMetaReply(x, y)
    <3>1. Answered(x, y, <<>>) \in Channels(authored)
      BY <1>1, <2>1, <2>3, AnsweredType
    <3>2. \A a \in Node, b \in Node : \A type :
            a # b /\ Has(Answered(x, y, <<>>)[a][b], type, p, r) => Has(channel[a][b], type, p, r)
      <4> DEFINE none == <<>>
      <4>1. none \in Seq(Messages(authored)) /\ \A type : ~Has(none, type, p, r)
        BY <2>3
      <4> HIDE DEF none
      <4>2. \A a \in Node, b \in Node : \A type :
              a # b /\ Has(Answered(x, y, none)[a][b], type, p, r)
                => Has(channel[a][b], type, p, r) \/ (a = x /\ b = y /\ Has(none, type, p, r))
        BY <1>1, <2>1, <4>1, AnsweredFrom
      <4> QED BY <4>1, <4>2 DEF none
    <3>3. /\ meta' = Put(x, m)
          /\ channel' = Broadcast(x, m, Answered(x, y, <<>>))
      BY <2>6, <3>2 DEF HandleMetaReply, Known, m
    <3>4. k = x /\ p = m.path /\ r = m.revision /\ Has(channel'[k][n], "HAVE_META", p, r)
      <4>1. CASE Has(channel'[k][n], "HAVE_META", p, r)
        <5>1. ~Has(Answered(x, y, <<>>)[k][n], "HAVE_META", p, r)
          BY <3>2 DEF Known
        <5> QED BY <2>2, <3>1, <3>3, <4>1, <5>1, BroadcastFrom
      <4>2. CASE Has(channel'[n][k], "META_REQUEST", p, r)
        <5>1. ~Has(Answered(x, y, <<>>)[n][k], "META_REQUEST", p, r)
          BY <3>2 DEF Known
        <5> QED BY <2>2, <3>1, <3>3, <4>2, <5>1, BroadcastFrom
      <4> QED BY <4>1, <4>2 DEF Known
    <3> QED BY <2>2, <3>3, <3>4 DEF Put, IInv, TypeOK
  <2> QED BY <1>6, <2>4, <2>5, <2>6 DEF Read
<1>7. UNCHANGED vars => FALSE
  BY DEF Known, vars
<1> QED BY <1>3, <1>4, <1>5, <1>6, <1>7 DEF Next

\* A row is not put back while a link to it is up, or the link lags.
LEMMA RowsGrow ==
    ASSUME IInv, [Next]_vars, NEW n \in Node, NEW k \in Node, NEW p \in Path,
           {n, k} \in links, {n, k} \in links', <<{n, k}, p>> \notin lagging', meta[k][p] # NoMeta
    PROVE  /\ meta'[k][p] # NoMeta
           /\ meta[k][p].revision <= meta'[k][p].revision
<1>1. meta[k][p].revision \in Nat
  BY RowFacts
<1>2. ASSUME NEW x \in Writer, NEW q \in Path, NEW r \in Revision, Edit(x, q, r)
      PROVE  /\ meta'[k][p] # NoMeta
             /\ meta[k][p].revision <= meta'[k][p].revision
  <2> DEFINE m == [path |-> q, revision |-> r, id |-> Cardinality(authored) + 1]
  <2>1. /\ authored' = authored \cup {m}
        /\ meta' = [meta EXCEPT ![x][q] = m]
        /\ lagging' = IF putAllowed(x, q, r) \/ haveMeta(x, q, r) THEN lagging
                      ELSE lagging \cup {<<l, q>> : l \in {l \in links : x \in l}}
    BY <1>2 DEF Edit, MetaCreated
  <2>2. m \in Metas /\ m # NoMeta /\ m.revision = r /\ r \in Nat /\ x \in Node
    BY <1>2, <2>1, EditIInv, NoMetaAssumption, RevisionAssumption, WriterAssumption DEF IInv, TypeOK
  <2> HIDE DEF m
  <2>4. CASE x = k /\ q = p
    <3>1. meta'[k][p] = m
      BY <2>1, <2>2, <2>4 DEF IInv, TypeOK
    <3>2. putAllowed(x, q, r) \/ haveMeta(x, q, r)
      <4>1. <<{n, k}, p>> \in {<<l, q>> : l \in {l \in links : x \in l}}
        BY <2>4
      <4> QED BY <2>1, <4>1
    <3> QED BY <1>1, <2>2, <2>4, <3>1, <3>2 DEF putAllowed, haveMeta
  <2>5. CASE ~(x = k /\ q = p)
    <3>1. meta'[k][p] = meta[k][p]
      BY <2>1, <2>2, <2>5 DEF IInv, TypeOK
    <3> QED BY <1>1, <3>1
  <2> QED BY <2>4, <2>5
<1>3. ASSUME NEW x \in Node, NEW y \in Node,
             \/ Connect(x, y) \/ Drop(x, y) \/ Announce(x, y)
             \/ HandleHaveMeta(x, y) \/ HandleMetaRequest(x, y)
      PROVE  meta' = meta
  BY <1>3 DEF Connect, Drop, Announce, HandleHaveMeta, HandleMetaRequest
<1>4. ASSUME NEW x \in Node, NEW y \in Node, HandleMetaReply(x, y)
      PROVE  /\ meta'[k][p] # NoMeta
             /\ meta[k][p].revision <= meta'[k][p].revision
  <2> DEFINE m == Received(x, y)
  <2>1. m \in Metas /\ m.path \in Path /\ m.revision \in Nat /\ m # NoMeta
    BY <1>4, ReceivedAuthored, NoMetaAssumption DEF HandleMetaReply, Reads
  <2>2. \/ putAllowed(x, m.path, m.revision) /\ meta' = [meta EXCEPT ![x][m.path] = m]
        \/ meta' = meta
    BY <1>4 DEF HandleMetaReply, Put
  <2> HIDE DEF m
  <2>3. meta'[k][p] = meta[k][p] \/ (meta'[k][p] = m /\ meta[k][p].revision < m.revision)
    <3>1. CASE k = x /\ p = m.path /\ putAllowed(x, m.path, m.revision)
                /\ meta' = [meta EXCEPT ![x][m.path] = m]
      BY <3>1 DEF IInv, TypeOK, putAllowed
    <3>2. CASE ~(k = x /\ p = m.path)
      <4>1. meta \in [Node -> [Path -> authored \cup {NoMeta}]]
        BY DEF IInv, TypeOK
      <4>2. meta' = [meta EXCEPT ![x][m.path] = m] => meta'[k][p] = meta[k][p]
        BY <3>2, <4>1
      <4> QED BY <2>2, <4>2
    <3> QED BY <2>2, <3>1, <3>2
  <2> QED BY <1>1, <2>1, <2>3
<1>5. UNCHANGED vars => meta' = meta
  BY DEF vars
<1> QED BY <1>1, <1>2, <1>3, <1>4, <1>5 DEF Next, Read

\* A link that lags does so until it breaks.
LEMMA LagStays ==
    ASSUME IInv, [Next]_vars, NEW n \in Node, NEW k \in Node, NEW p \in Path,
           {n, k} \in links', <<{n, k}, p>> \notin lagging'
    PROVE  <<{n, k}, p>> \notin lagging
<1>1. (\E x \in Writer : \E q \in Path : \E r \in Revision : Edit(x, q, r)) => lagging \subseteq lagging'
  BY DEF Edit, MetaCreated
<1>2. ASSUME NEW x \in Node, NEW y \in Node, Drop(x, y)
      PROVE  <<{n, k}, p>> \notin lagging
  <2>1. {n, k} # {x, y}
    BY <1>2 DEF Drop
  <2> QED BY <1>2, <2>1 DEF Drop
<1>3. ASSUME NEW x \in Node, NEW y \in Node, Connect(x, y) \/ Announce(x, y) \/ Read(x, y)
      PROVE  lagging' = lagging
  BY <1>3 DEF Connect, Announce, Read, HandleHaveMeta, HandleMetaRequest, HandleMetaReply
<1>4. UNCHANGED vars => lagging' = lagging
  BY DEF vars
<1> QED BY <1>1, <1>2, <1>3, <1>4 DEF Next

\* Messages go over links that are up.
LEMMA QuietNext ==
    ASSUME IInv, KInv, [Next]_vars, NEW n \in Node, NEW k \in Node, {n, k} \notin links'
    PROVE  channel'[n][k] = <<>>
<1>1. channel \in Channels(authored) /\ ({n, k} \notin links => channel[n][k] = <<>>)
  BY TypeOfChannels DEF IInv, KInv
<1>2. {k, n} = {n, k}
  OBVIOUS
<1>3. ASSUME NEW x \in Writer, NEW q \in Path, NEW r \in Revision, Edit(x, q, r)
      PROVE  channel'[n][k] = <<>>
  <2> DEFINE m == [path |-> q, revision |-> r, id |-> Cardinality(authored) + 1]
  <2>1. links' = links /\ channel' = Broadcast(x, m, channel)
    BY <1>3 DEF Edit, MetaCreated, netVars
  <2> HIDE DEF m
  <2>2. ~(n = x /\ k \in Remotes(x))
    BY <2>1 DEF Remotes
  <2> QED BY <1>1, <2>1, <2>2 DEF Broadcast, Channels
<1>4. ASSUME NEW x \in Node, NEW y \in Node, Connect(x, y)
      PROVE  channel'[n][k] = <<>>
  BY <1>1, <1>4 DEF Connect
<1>5. ASSUME NEW x \in Node, NEW y \in Node, Drop(x, y)
      PROVE  channel'[n][k] = <<>>
  <2>1. channel' = [channel EXCEPT ![x][y] = <<>>, ![y][x] = <<>>] /\ links' = links \ {{x, y}}
    BY <1>5 DEF Drop
  <2>2. CASE {n, k} = {x, y}
    <3>1. (n = x /\ k = y) \/ (n = y /\ k = x)
      BY <2>2
    <3> QED BY <1>1, <2>1, <3>1 DEF Channels
  <2>3. CASE {n, k} # {x, y}
    <3>1. channel[n][k] = <<>>
      BY <1>1, <2>1, <2>3
    <3> QED BY <1>1, <2>1, <3>1 DEF Channels
  <2> QED BY <2>2, <2>3
<1>6. ASSUME NEW x \in Node, NEW y \in Node, Announce(x, y)
      PROVE  channel'[n][k] = <<>>
  <2>1. links' = links /\ {x, y} \in links
    BY <1>6 DEF Announce, KInv
  <2>2. ~(n = x /\ k = y)
    BY <2>1
  <2> QED BY <1>1, <1>6, <2>1, <2>2 DEF Announce, Channels
<1>7. ASSUME NEW x \in Node, NEW y \in Node, Read(x, y)
      PROVE  channel'[n][k] = <<>>
  <2>1. links' = links /\ channel[y][x] # <<>>
    BY <1>7 DEF Read, HandleHaveMeta, HandleMetaRequest, HandleMetaReply, Reads, netVars
  <2>2. {x, y} \in links
    <3>1. {y, x} \in links
      BY <2>1 DEF KInv
    <3>2. {x, y} = {y, x}
      OBVIOUS
    <3> QED BY <3>1, <3>2
  <2>3. ~(n = x /\ k = y) /\ ~(n = y /\ k = x)
    BY <1>2, <2>1, <2>2
  <2>4. \A ms : Answered(x, y, ms)[n][k] = channel[n][k]
    BY <1>1, <2>3 DEF Answered, Channels
  <2>5. n = x => k \notin Remotes(x)
    BY <2>1 DEF Remotes
  <2>6. \A m, ms : Broadcast(x, m, Answered(x, y, ms))[n][k] = channel[n][k]
    BY <1>1, <2>3, <2>5 DEF Broadcast, Answered, Channels
  <2>7. channel'[n][k] = channel[n][k]
    BY <1>7, <2>4, <2>6 DEF Read, HandleHaveMeta, HandleMetaRequest, HandleMetaReply
  <2> QED BY <1>1, <2>1, <2>7
<1>8. UNCHANGED vars => channel'[n][k] = <<>>
  BY <1>1 DEF vars, netVars
<1> QED BY <1>3, <1>4, <1>5, <1>6, <1>7, <1>8 DEF Next

\* Announcements are due over links that are up.
LEMMA AnnouncingNext ==
    ASSUME IInv, KInv, [Next]_vars, NEW n \in Node, NEW k \in Node, <<n, k>> \in announcing'
    PROVE  {n, k} \in links'
<1>1. <<n, k>> \in announcing => {n, k} \in links
  BY DEF KInv
<1>2. (\E x \in Writer : \E q \in Path : \E r \in Revision : Edit(x, q, r)) => {n, k} \in links'
  BY <1>1 DEF Edit, MetaCreated, netVars
<1>3. ASSUME NEW x \in Node, NEW y \in Node, Connect(x, y)
      PROVE  {n, k} \in links'
  <2>1. <<n, k>> \in announcing \/ {n, k} = {x, y}
    BY <1>3 DEF Connect
  <2> QED BY <1>1, <1>3, <2>1 DEF Connect
<1>4. ASSUME NEW x \in Node, NEW y \in Node, Drop(x, y)
      PROVE  {n, k} \in links'
  <2>1. {n, k} # {x, y}
    BY <1>4 DEF Drop
  <2> QED BY <1>1, <1>4, <2>1 DEF Drop
<1>5. ASSUME NEW x \in Node, NEW y \in Node, Announce(x, y) \/ Read(x, y)
      PROVE  {n, k} \in links'
  BY <1>1, <1>5 DEF Announce, Read, HandleHaveMeta, HandleMetaRequest, HandleMetaReply, netVars
<1>6. UNCHANGED vars => {n, k} \in links'
  BY <1>1 DEF vars, netVars
<1> QED BY <1>2, <1>3, <1>4, <1>5, <1>6 DEF Next

\* For any nodes, links, paths and edits: a META_REQUEST that
\* MetaUploader::handle_meta_request drops asked for what is replaced by a newer
\* revision, which the asking node has or is told of, unless an end went back.
THEOREM NoRequestInVain == Spec => []RequestNotInVain
<1>1. Init => KInv
  BY DEF Init, KInv, Known, Has
<1>2. IInv /\ KInv /\ [Next]_vars => KInv'
  <2> SUFFICES ASSUME IInv, KInv, [Next]_vars PROVE KInv'
    OBVIOUS
  <2>1. ASSUME NEW n \in Node, NEW k \in Node, NEW p \in Path, NEW r \in Revision,
               {n, k} \in links', <<{n, k}, p>> \notin lagging', Known(n, k, p, r)'
        PROVE  /\ meta'[k][p] # NoMeta
               /\ r <= meta'[k][p].revision
               /\ ~Missed(n, k, p)'
    <3>1. IInv' /\ n # k /\ r \in Nat
      <4>1. IInv'
        BY NextIInv
      <4>2. {n, k} \in LinkOf
        BY <2>1, <4>1 DEF IInv, TypeOK
      <4>3. n # k
        BY <4>2, LinkAssumption
      <4> QED BY <4>1, <4>3, RevisionAssumption
    <3>2. CASE Known(n, k, p, r)
      <4>1. {n, k} \in links
        <5>1. channel[n][k] # <<>> \/ channel[k][n] # <<>>
          BY <3>2 DEF Known, Has
        <5>2. {k, n} = {n, k}
          OBVIOUS
        <5> QED BY <5>1, <5>2 DEF KInv
      <4>2. <<{n, k}, p>> \notin lagging
        BY <2>1, <4>1, LagStays
      <4>3. meta[k][p] # NoMeta /\ r <= meta[k][p].revision /\ ~Missed(n, k, p)
        BY <3>2, <4>1, <4>2 DEF KInv
      <4>4. meta'[k][p] # NoMeta /\ meta[k][p].revision <= meta'[k][p].revision
        BY <2>1, <4>1, <4>3, RowsGrow
      <4>5. meta[k][p].revision \in Nat /\ meta'[k][p].revision \in Nat
        <5>1. meta'[k][p] \in Metas
          BY <3>1, <4>4 DEF IInv, TypeOK
        <5> QED BY <4>3, <5>1, RowFacts, RevisionAssumption DEF Metas
      <4>6. ~Missed(n, k, p)'
        BY <4>1, <4>3, StepMisses DEF Missed
      <4> QED BY <3>1, <4>3, <4>4, <4>5, <4>6
    <3>3. CASE ~Known(n, k, p, r)
      <4>1. /\ meta'[k][p] # NoMeta
            /\ meta'[k][p].revision = r
            /\ Has(channel'[k][n], "HAVE_META", p, r)
        BY <2>1, <3>1, <3>3, KnownFrom
      <4> QED BY <3>1, <4>1 DEF Missed, Coming
    <3> QED BY <3>2, <3>3
  <2> QED BY <2>1, QuietNext, AnnouncingNext DEF KInv
<1>3. IInv /\ KInv => RequestNotInVain
  <2> SUFFICES ASSUME IInv, KInv, NEW n \in Node, NEW k \in Node, NEW p \in Path, NEW r \in Revision,
                      OnItsWay(n, k, "META_REQUEST", p, r), <<{n, k}, p>> \notin lagging
               PROVE  /\ meta[k][p] # NoMeta
                      /\ r <= meta[k][p].revision
                      /\ putAllowed(n, p, meta[k][p].revision) => UnderWay(n, k, p)
    BY DEF RequestNotInVain
  <2>1. Known(n, k, p, r)
    BY HasIsOnItsWay DEF Known
  <2>2. {n, k} \in links
    <3>1. channel[n][k] # <<>>
      BY DEF OnItsWay
    <3> QED BY <3>1 DEF KInv
  <2>3. meta[k][p] # NoMeta /\ r <= meta[k][p].revision /\ ~Missed(n, k, p)
    BY <2>1, <2>2 DEF KInv
  <2> QED BY <2>2, <2>3, ComingIsUnderWay DEF Missed, Behind
<1> QED BY <1>1, <1>2, <1>3, IInvHolds, PTL DEF Spec
-----------------------------------------------------------------------------
\* Nothing is to be said on a link any more.
AtRest(n, k) ==
    /\ {n, k} \in links
    /\ announcing \cap {<<n, k>>, <<k, n>>} = {}
    /\ channel[n][k] = <<>> /\ channel[k][n] = <<>>

\* So the two ends of a link on which everything has been said have the
\* same revision of every path, or neither has any, unless one of them was put back
\* while the link was up.
THEOREM RestMeansAgreed ==
    Spec => [](\A n \in Node, k \in Node : \A p \in Path :
                  AtRest(n, k) /\ <<{n, k}, p>> \notin lagging
                      => RevisionOf(n, p) = RevisionOf(k, p))
<1> DEFINE Agreed == \A n \in Node, k \in Node : \A p \in Path :
                        AtRest(n, k) /\ <<{n, k}, p>> \notin lagging
                            => RevisionOf(n, p) = RevisionOf(k, p)
<1>1. IInv /\ NothingMissed => Agreed
  <2> SUFFICES ASSUME IInv, NothingMissed, NEW n \in Node, NEW k \in Node, NEW p \in Path,
                      AtRest(n, k), <<{n, k}, p>> \notin lagging
               PROVE  RevisionOf(n, p) = RevisionOf(k, p)
    OBVIOUS
  <2>1. {k, n} = {n, k}
    OBVIOUS
  <2>2. ~Coming(n, k, p) /\ ~Coming(k, n, p)
    BY DEF AtRest, Coming, Has
  <2>3. ~Behind(n, k, p) /\ ~Behind(k, n, p)
    BY <2>2, MissedFacts DEF Missed, AtRest
  <2>4. /\ meta[k][p] # NoMeta => ~putAllowed(n, p, meta[k][p].revision)
        /\ meta[n][p] # NoMeta => ~putAllowed(k, p, meta[n][p].revision)
    BY <2>1, <2>3 DEF Behind, AtRest
  <2>5. /\ meta[k][p] # NoMeta => meta[k][p].revision \in Nat
        /\ meta[n][p] # NoMeta => meta[n][p].revision \in Nat
    BY RowFacts
  <2> QED BY <2>4, <2>5 DEF putAllowed, RevisionOf
<1> QED BY <1>1, IInvHolds, NoMetaMissed, PTL
=============================================================================
