----------------------------- MODULE LinkProofs -----------------------------
(***************************************************************************)
(* Proofs about Link for any chunks, any sources of them, any that may be    *)
(* lost and any number of timeouts: the ends of a connection agree on        *)
(* choking and interest, only an early HAVE is refused, requests are served  *)
(* and never forgotten but for a lost chunk, and the link does not come to   *)
(* rest while a chunk is missing.                                            *)
(***************************************************************************)
EXTENDS Link, SequenceTheorems, TLAPS

USE DEF storeVars, Had

Msg == [type : Types, chunks : SUBSET Chunk]

ChokeTypes == {"CHOKE", "UNCHOKE"}
InterestTypes == {"INTERESTED", "NOT_INTERESTED"}

\* LastTells of the first l messages of a queue.
Told(queue, l, types, t, flag, known) ==
    /\ (\A i \in 1 .. l : queue[i].type \notin types) => (known <=> flag)
    /\ \A i \in 1 .. l :
        /\ queue[i].type \in types
        /\ \A j \in 1 .. l : queue[j].type \in types => j <= i
        => (queue[i].type = t <=> flag)

HasType(queue, t) == \E i \in 1 .. Len(queue) : queue[i].type = t

OnlyHave(queue) == \A i \in 1 .. Len(queue) : queue[i].type = "HAVE"

\* There is at most one handshake, and what comes before it is a HAVE.
InOrder(queue) ==
    \A i \in 1 .. Len(queue) :
        /\ queue[i].type = "HANDSHAKE" =>
            \A j \in 1 .. Len(queue) : queue[j].type = "HANDSHAKE" => j = i
        /\ queue[i].type \notin {"HAVE", "HANDSHAKE"} =>
            \E j \in 1 .. (i - 1) : queue[j].type = "HANDSHAKE"

\* The end is there, and has not got the handshake of the other.
Waiting(n) == link[n] \in {"opening", "attached"}

\* The end has sent its handshake, and is there.
Spoke(n) == link[n] = "ready" \/ (n = "CLIENT" /\ link[n] = "attached")

-----------------------------------------------------------------------------
\* An end that is not ready has the flags of a new RemoteFolder and is
\* tracked by no one.
Quiet(n) ==
    link[n] # "ready" =>
        /\ am_choking[n] /\ ~am_interested[n]
        /\ peer_choking[n] /\ ~peer_interested[n]
        /\ owned[n] = {}
        /\ n \notin announcing

\* The Uploader unchokes whoever is interested, the Downloader is interested
\* in the owners of wanted chunks, and these do have them or did.
Local(n) ==
    /\ am_choking[n] <=> ~peer_interested[n]
    /\ am_interested[n] <=> owned[n] # {}
    /\ owned[n] \subseteq Had(Peer(n))

\* Where the handshake is in the queue to n.
Order(n) ==
    /\ link[n] = "gone" => channel[n] = <<>>
    /\ link[n] = "ready" =>
        /\ ~HasType(channel[n], "HANDSHAKE")
        /\ link[Peer(n)] # "gone" => Spoke(Peer(n))
    /\ Waiting(n) =>
        /\ InOrder(channel[n])
        /\ Spoke(Peer(n)) => HasType(channel[n], "HANDSHAKE")
    /\ Waiting(Peer(n)) /\ ~Spoke(Peer(n)) => OnlyHave(channel[n])
    /\ n = "SERVER" =>
        /\ link[Peer(n)] = "opening" => channel[n] = <<>>
        /\ Waiting(n) /\ channel[n] # <<>> => channel[n][1].type = "HANDSHAKE"

\* The messages about flags end with the sender's flags.
Flags(n) ==
    Up =>
        /\ Told(channel[n], Len(channel[n]), ChokeTypes, "CHOKE",
                am_choking[Peer(n)], peer_choking[n])
        /\ Told(channel[n], Len(channel[n]), InterestTypes, "INTERESTED",
                am_interested[Peer(n)], peer_interested[n])

\* When a request is read its sender is known to be interested and the chunk is
\* or was there; what is announced is or was there.
Promises(n) ==
    \A i \in 1 .. Len(channel[n]) :
        /\ channel[n][i].type = "BLOCK_REQUEST" =>
            /\ Told(channel[n], i - 1, InterestTypes, "INTERESTED", TRUE, peer_interested[n])
            /\ channel[n][i].chunks \subseteq Had(n)
        /\ channel[n][i].type = "HAVE" => channel[n][i].chunks \subseteq Had(Peer(n))

\* NoRequestForgotten of one end.
Pending(n) ==
    Up => \A c \in requests[n] :
        \/ \E i \in 1 .. Len(channel[Peer(n)]) : channel[Peer(n)][i] = BlockRequest(c)
        \/ \E i \in 1 .. Len(channel[n]) : channel[n][i] = BlockReply(c)
        \/ c \in lost[Peer(n)]

\* The inductive invariant.
IInv ==
    /\ TypeOK
    /\ \A n \in End :
        /\ Quiet(n)
        /\ Local(n)
        /\ Order(n)
        /\ Flags(n)
        /\ Promises(n)
        /\ Pending(n)
-----------------------------------------------------------------------------
\* The two ends.
LEMMA Ends ==
    \A n \in End : /\ Peer(n) \in End
                   /\ Peer(n) # n
                   /\ Peer(Peer(n)) = n
                   /\ End = {n, Peer(n)}
BY DEF End, Peer

\* What the messages of a prefix tell does not depend on what follows them.
LEMMA ToldPrefix ==
    ASSUME NEW q \in Seq(Msg), NEW s \in Seq(Msg), NEW l \in 0 .. Len(q),
           NEW types, NEW t, NEW flag, NEW known,
           Told(q, l, types, t, flag, known)
    PROVE  Told(q \o s, l, types, t, flag, known)
<1>1. \A i \in 1 .. l : (q \o s)[i] = q[i]
  BY ConcatProperties
<1> QED BY <1>1 DEF Told

\* Messages that tell a new flag are appended to ones that tell the old one.
LEMMA ToldConcat ==
    ASSUME NEW q \in Seq(Msg), NEW s \in Seq(Msg), NEW types, NEW t,
           NEW old, NEW flag, NEW known,
           Told(q, Len(q), types, t, old, known),
           Told(s, Len(s), types, t, flag, old)
    PROVE  Told(q \o s, Len(q \o s), types, t, flag, known)
<1> DEFINE r == q \o s
<1>1. /\ Len(r) = Len(q) + Len(s)
      /\ Len(q) \in Nat /\ Len(s) \in Nat
      /\ \A i \in 1 .. Len(q) : r[i] = q[i]
      /\ \A i \in 1 .. Len(s) : r[Len(q) + i] = s[i]
  BY ConcatProperties, LenProperties
<1> HIDE DEF r
<1>2. CASE \A i \in 1 .. Len(s) : s[i].type \notin types
  <2>1. old <=> flag
    BY <1>2 DEF Told
  <2>2. \A i \in 1 .. Len(r) : r[i].type \in types => i \in 1 .. Len(q)
    <3> SUFFICES ASSUME NEW i \in 1 .. Len(r), i \notin 1 .. Len(q)
                 PROVE  r[i].type \notin types
      OBVIOUS
    <3>1. i - Len(q) \in 1 .. Len(s) /\ i = Len(q) + (i - Len(q))
      BY <1>1
    <3> QED BY <3>1, <1>1, <1>2
  <2> QED BY <1>1, <2>1, <2>2 DEF Told, r
<1>3. CASE \E i \in 1 .. Len(s) : s[i].type \in types
  <2>1. PICK k \in 1 .. Len(s) : s[k].type \in types
    BY <1>3
  <2>2. Len(q) + k \in 1 .. Len(r) /\ r[Len(q) + k].type \in types
    BY <1>1, <2>1
  <2>3. SUFFICES ASSUME NEW i \in 1 .. Len(r), r[i].type \in types,
                        \A j \in 1 .. Len(r) : r[j].type \in types => j <= i
                 PROVE  r[i].type = t <=> flag
    BY <2>2 DEF Told, r
  <2> DEFINE h == i - Len(q)
  <2>4. h \in 1 .. Len(s) /\ i = Len(q) + h
    BY <1>1, <2>2, <2>3
  <2>5. \A j \in 1 .. Len(s) : s[j].type \in types => j <= h
    <3> SUFFICES ASSUME NEW j \in 1 .. Len(s), s[j].type \in types PROVE j <= h
      OBVIOUS
    <3>1. Len(q) + j \in 1 .. Len(r) /\ r[Len(q) + j].type \in types
      BY <1>1
    <3> QED BY <3>1, <2>3, <1>1
  <2> QED BY <1>1, <2>3, <2>4, <2>5 DEF Told
<1> QED BY <1>2, <1>3

\* The first message is read and the reader's flag set as it says.
LEMMA ToldTail ==
    ASSUME NEW q \in Seq(Msg), q # <<>>, NEW l \in 1 .. Len(q),
           NEW types, NEW t, NEW flag, NEW known, NEW new,
           Told(q, l, types, t, flag, known),
           IF Head(q).type \in types THEN new <=> Head(q).type = t ELSE new <=> known
    PROVE  Told(Tail(q), l - 1, types, t, flag, new)
<1> DEFINE r == Tail(q)
<1>1. /\ Len(q) \in Nat /\ Head(q) = q[1]
      /\ \A i \in 1 .. (l - 1) : r[i] = q[i + 1]
  BY HeadTailProperties, LenProperties
<1> HIDE DEF r
<1>2. ASSUME \A i \in 1 .. (l - 1) : r[i].type \notin types
      PROVE  new <=> flag
  <2>1. \A i \in 1 .. l : q[i].type \in types => i = 1
    <3> SUFFICES ASSUME NEW i \in 1 .. l, i # 1 PROVE q[i].type \notin types
      OBVIOUS
    <3>1. i - 1 \in 1 .. (l - 1) /\ i = (i - 1) + 1
      BY <1>1
    <3> QED BY <3>1, <1>1, <1>2
  <2> QED BY <1>1, <2>1 DEF Told
<1>3. ASSUME NEW i \in 1 .. (l - 1), r[i].type \in types,
             \A j \in 1 .. (l - 1) : r[j].type \in types => j <= i
      PROVE  r[i].type = t <=> flag
  <2>1. i + 1 \in 1 .. l /\ q[i + 1] = r[i]
    BY <1>1
  <2>2. \A j \in 1 .. l : q[j].type \in types => j <= i + 1
    <3> SUFFICES ASSUME NEW j \in 1 .. l, j > i + 1, q[j].type \in types PROVE FALSE
      BY <1>1
    <3>1. j - 1 \in 1 .. (l - 1) /\ j = (j - 1) + 1 /\ ~(j - 1 <= i)
      BY <1>1
    <3>2. r[j - 1] = q[j]
      BY <3>1, <1>1
    <3> QED BY <3>1, <3>2, <1>3
  <2> QED BY <2>1, <2>2, <1>3 DEF Told
<1> QED BY <1>2, <1>3 DEF Told, r
-----------------------------------------------------------------------------
\* The other end keeps its state in a step of end n that sends it s.
Sends(n, s) ==
    /\ s \in Seq(Msg)
    /\ s # <<>> => link[n] # "gone"
    /\ Had(n) \subseteq Had(n)'
    /\ lost[n] \subseteq lost'[n]
    /\ LET k == Peer(n) IN
        /\ channel'[k] = Sent(n, s)
        /\ link'[k] = link[k]
        /\ k \in announcing' <=> k \in announcing
        /\ am_choking'[k] = am_choking[k]
        /\ am_interested'[k] = am_interested[k]
        /\ peer_choking'[k] = peer_choking[k]
        /\ peer_interested'[k] = peer_interested[k]
        /\ have'[k] = have[k]
        /\ lost'[k] = lost[k]
        /\ owned'[k] = owned[k]
        /\ requests'[k] = requests[k]

\* A step of end n that reads r messages, one or none, from its queue and
\* sends s.
Step(n, r, s) ==
    /\ Sends(n, s)
    /\ r = 1 => Attached(n) /\ channel[n] # <<>>
    /\ s # <<>> => link'[n] # "opening"
    /\ channel' \in [End -> Seq(Msg)]
    /\ channel'[n] = IF r = 1 THEN Tail(channel[n]) ELSE channel[n]
    /\ link[n] = "gone" => link'[n] = "gone"

\* Flags of the peer are set by what is read.
SetsFlags(n, r) ==
    LET m == Head(channel[n]) IN
    /\ IF r = 1 /\ m.type \in ChokeTypes
       THEN peer_choking'[n] <=> m.type = "CHOKE"
       ELSE peer_choking'[n] <=> peer_choking[n]
    /\ IF r = 1 /\ m.type \in InterestTypes
       THEN peer_interested'[n] <=> m.type = "INTERESTED"
       ELSE peer_interested'[n] <=> peer_interested[n]

\* The node's own flags are told to the peer.
TellsFlags(n, s) ==
    /\ Told(s, Len(s), ChokeTypes, "CHOKE", am_choking'[n], am_choking[n])
    /\ Told(s, Len(s), InterestTypes, "INTERESTED", am_interested'[n], am_interested[n])

\* Only what the peer has is asked for, and only what is there is announced.
KeepsPromises(n, s) ==
    \A i \in 1 .. Len(s) :
        /\ s[i].type = "BLOCK_REQUEST" =>
            i = 1 /\ am_interested[n] /\ s[i].chunks \subseteq Had(Peer(n))
        /\ s[i].type = "HAVE" => s[i].chunks \subseteq Had(n)'

\* A request that is made is sent, one that is read is answered unless the chunk was
\* lost, and what is answered is asked for no more.
KeepsRequests(n, r, s) ==
    /\ \A c \in requests'[n] :
        c \in requests[n] \/ \E i \in 1 .. Len(s) : s[i] = BlockRequest(c)
    /\ r = 1 => \A c \in Chunk :
        /\ Head(channel[n]) = BlockReply(c) => c \notin requests'[n]
        /\ Head(channel[n]) = BlockRequest(c) =>
            c \in lost[n] \/ \E i \in 1 .. Len(s) : s[i] = BlockReply(c)

\* The queues after a step.
LEMMA Queues ==
    ASSUME IInv, NEW n \in End, NEW r \in {0, 1}, NEW s, Step(n, r, s)
    PROVE  /\ channel[n] \in Seq(Msg)
           /\ channel[Peer(n)] \in Seq(Msg)
           /\ channel'[n] = IF r = 1 THEN Tail(channel[n]) ELSE channel[n]
           /\ channel'[Peer(n)] = Sent(n, s)
           /\ channel' \in [End -> Seq(Msg)]
BY Ends DEF IInv, TypeOK, Msg, Step, Sends

\* A step brings no end back.
LEMMA StepUp ==
    ASSUME NEW n \in End, NEW r \in {0, 1}, NEW s, Step(n, r, s), Up'
    PROVE  Up /\ link[n] # "gone" /\ link[Peer(n)] # "gone"
<1> HIDE DEF storeVars, Had
<1>1. link[n] # "gone" /\ link[Peer(n)] # "gone"
  BY Ends DEF Step, Sends, Up
<1> QED BY <1>1, Ends DEF Up

\* The reader's flags follow the sender's.
LEMMA ReaderFlags ==
    ASSUME IInv, NEW n \in End, NEW r \in {0, 1}, NEW s, Step(n, r, s),
           SetsFlags(n, r)
    PROVE  Flags(n)'
<1> SUFFICES ASSUME Up' PROVE Flags(n)'
  BY DEF Flags
<1> DEFINE q == channel[n]
           k == Peer(n)
<1>1. /\ Told(q, Len(q), ChokeTypes, "CHOKE", am_choking[k], peer_choking[n])
      /\ Told(q, Len(q), InterestTypes, "INTERESTED", am_interested[k], peer_interested[n])
  BY StepUp DEF IInv, Flags
<1>2. am_choking'[k] = am_choking[k] /\ am_interested'[k] = am_interested[k]
  BY DEF Step, Sends
<1>3. q \in Seq(Msg)
  BY Queues
<1>4. CASE r = 1
  <2>0. q # <<>>
    BY <1>4 DEF Step, Sends
  <2>1. channel'[n] = Tail(q) /\ q # <<>> /\ Len(Tail(q)) = Len(q) - 1 /\ Len(q) \in 1 .. Len(q)
    BY <1>3, <1>4, <2>0, Queues, HeadTailProperties, EmptySeq
  <2>2. Told(Tail(q), Len(q) - 1, ChokeTypes, "CHOKE", am_choking[k], peer_choking'[n])
    BY <1>1, <1>3, <1>4, <2>1, ToldTail DEF SetsFlags
  <2>3. Told(Tail(q), Len(q) - 1, InterestTypes, "INTERESTED", am_interested[k], peer_interested'[n])
    BY <1>1, <1>3, <1>4, <2>1, ToldTail DEF SetsFlags
  <2> QED BY <1>2, <2>1, <2>2, <2>3 DEF Flags
<1>5. CASE r = 0
  <2>1. channel'[n] = q
    BY <1>5, Queues
  <2>2. /\ peer_choking'[n] <=> peer_choking[n]
        /\ peer_interested'[n] <=> peer_interested[n]
    BY <1>5 DEF SetsFlags
  <2> QED BY <1>1, <1>2, <2>1, <2>2 DEF Flags, Told
<1> QED BY <1>4, <1>5

\* What the sender tells is in the queue.
LEMMA SenderFlags ==
    ASSUME IInv, NEW n \in End, NEW r \in {0, 1}, NEW s, Step(n, r, s),
           TellsFlags(n, s)
    PROVE  Flags(Peer(n))'
<1> SUFFICES ASSUME Up' PROVE Flags(Peer(n))'
  BY DEF Flags
<1> DEFINE k == Peer(n)
           q == channel[k]
<1>1. /\ Told(q, Len(q), ChokeTypes, "CHOKE", am_choking[n], peer_choking[k])
      /\ Told(q, Len(q), InterestTypes, "INTERESTED", am_interested[n], peer_interested[k])
  BY StepUp, Ends DEF IInv, Flags
<1>2. channel'[k] = q \o s /\ q \in Seq(Msg) /\ s \in Seq(Msg)
  <2>1. s \in Seq(Msg) /\ link[k] # "gone"
    BY StepUp DEF Step, Sends
  <2> QED BY <2>1, Queues DEF Sent
<1>3. /\ Told(q \o s, Len(q \o s), ChokeTypes, "CHOKE", am_choking'[n], peer_choking[k])
      /\ Told(q \o s, Len(q \o s), InterestTypes, "INTERESTED", am_interested'[n], peer_interested[k])
  BY <1>1, <1>2, ToldConcat DEF TellsFlags
<1>4. peer_choking'[k] = peer_choking[k] /\ peer_interested'[k] = peer_interested[k]
  BY DEF Step, Sends
<1> QED BY <1>2, <1>3, <1>4, Ends DEF Flags

\* What is asked of the reader is asked as before.
LEMMA ReaderPromises ==
    ASSUME IInv, NEW n \in End, NEW r \in {0, 1}, NEW s, Step(n, r, s), SetsFlags(n, r)
    PROVE  Promises(n)'
<1> DEFINE q == channel[n]
           k == Peer(n)
<1>1. q \in Seq(Msg) /\ Promises(n)
  BY Queues DEF IInv
<1>2. Had(n) \subseteq Had(n)' /\ Had(k)' = Had(k)
  BY DEF Step, Sends
<1>3. CASE r = 1
  <2>1. q # <<>>
    BY <1>3 DEF Step, Sends
  <2>2. /\ channel'[n] = Tail(q) /\ Len(Tail(q)) = Len(q) - 1 /\ Len(q) \in Nat
        /\ \A i \in 1 .. (Len(q) - 1) : Tail(q)[i] = q[i + 1]
    BY <1>1, <1>3, <2>1, Queues, HeadTailProperties, LenProperties
  <2> SUFFICES ASSUME NEW i \in 1 .. (Len(q) - 1)
               PROVE  /\ Tail(q)[i].type = "BLOCK_REQUEST" =>
                          /\ Told(Tail(q), i - 1, InterestTypes, "INTERESTED", TRUE, peer_interested'[n])
                          /\ Tail(q)[i].chunks \subseteq Had(n)'
                      /\ Tail(q)[i].type = "HAVE" => Tail(q)[i].chunks \subseteq Had(k)'
    BY <2>2 DEF Promises
  <2>3. i + 1 \in 1 .. Len(q) /\ i \in 1 .. Len(q) /\ Tail(q)[i] = q[i + 1] /\ (i + 1) - 1 = i
    BY <2>2
  <2>4. /\ q[i + 1].type = "BLOCK_REQUEST" =>
            /\ Told(q, i, InterestTypes, "INTERESTED", TRUE, peer_interested[n])
            /\ q[i + 1].chunks \subseteq Had(n)
        /\ q[i + 1].type = "HAVE" => q[i + 1].chunks \subseteq Had(k)
    BY <1>1, <2>3 DEF Promises
  <2>5. ASSUME q[i + 1].type = "BLOCK_REQUEST"
        PROVE  Told(Tail(q), i - 1, InterestTypes, "INTERESTED", TRUE, peer_interested'[n])
    BY <1>1, <1>3, <2>1, <2>3, <2>4, <2>5, ToldTail DEF SetsFlags
  <2> QED BY <1>2, <2>3, <2>4, <2>5
<1>4. CASE r = 0
  <2>1. channel'[n] = q
    BY <1>4, Queues
  <2>2. peer_interested'[n] <=> peer_interested[n]
    BY <1>4 DEF SetsFlags
  <2> QED BY <1>1, <1>2, <2>1, <2>2 DEF Promises, Told
<1> QED BY <1>3, <1>4

\* What is asked and announced is added to the end of the queue.
LEMMA SenderPromises ==
    ASSUME IInv, NEW n \in End, NEW s, Sends(n, s), KeepsPromises(n, s)
    PROVE  Promises(Peer(n))'
<1> DEFINE k == Peer(n)
           q == channel[k]
<1>1. q \in Seq(Msg) /\ Promises(k) /\ Peer(k) = n
  BY Ends DEF IInv, TypeOK, Msg
<1>2. /\ Had(n) \subseteq Had(n)' /\ Had(k)' = Had(k)
      /\ peer_interested'[k] = peer_interested[k]
      /\ s \in Seq(Msg)
  BY DEF Sends
<1>3. CASE link[k] = "gone" \/ s = <<>>
  <2>1. channel'[k] = q
    <3>1. s = <<>> => q \o s = q
      BY <1>1, ConcatEmptySeq
    <3> QED BY <1>3, <3>1 DEF Sends, Sent
  <2> QED BY <1>1, <1>2, <2>1 DEF Promises
<1>4. CASE link[k] # "gone" /\ s # <<>>
  <2> DEFINE qs == q \o s
  <2>1. /\ channel'[k] = qs
        /\ Len(qs) = Len(q) + Len(s)
        /\ Len(q) \in Nat /\ Len(s) \in Nat
        /\ \A i \in 1 .. Len(q) : qs[i] = q[i]
        /\ \A i \in 1 .. Len(s) : qs[Len(q) + i] = s[i]
    <3>1. channel'[k] = qs
      BY <1>4 DEF Sends, Sent
    <3> QED BY <1>1, <1>2, <3>1, ConcatProperties, LenProperties
  <2>2. link[n] # "gone"
    BY <1>4 DEF Sends
  <2>3. Told(q, Len(q), InterestTypes, "INTERESTED", am_interested[n], peer_interested[k])
    BY <1>1, <1>4, <2>2, Ends DEF IInv, Flags, Up
  <2> SUFFICES ASSUME NEW i \in 1 .. Len(qs)
               PROVE  /\ qs[i].type = "BLOCK_REQUEST" =>
                          /\ Told(qs, i - 1, InterestTypes, "INTERESTED", TRUE, peer_interested[k])
                          /\ qs[i].chunks \subseteq Had(k)
                      /\ qs[i].type = "HAVE" => qs[i].chunks \subseteq Had(n)'
    BY <1>1, <1>2, <2>1, Ends DEF Promises
  <2> HIDE DEF qs
  <2>4. CASE i \in 1 .. Len(q)
    <3>1. /\ qs[i] = q[i] /\ i - 1 \in 0 .. Len(q)
          /\ q[i].type = "BLOCK_REQUEST" =>
              /\ Told(q, i - 1, InterestTypes, "INTERESTED", TRUE, peer_interested[k])
              /\ q[i].chunks \subseteq Had(k)
          /\ q[i].type = "HAVE" => q[i].chunks \subseteq Had(n)
      <4>1. qs[i] = q[i] /\ i - 1 \in 0 .. Len(q)
        BY <2>1, <2>4
      <4> QED BY <1>1, <2>4, <4>1 DEF Promises
    <3>2. ASSUME q[i].type = "BLOCK_REQUEST"
          PROVE  Told(qs, i - 1, InterestTypes, "INTERESTED", TRUE, peer_interested[k])
      BY <1>1, <1>2, <3>1, <3>2, ToldPrefix DEF qs
    <3> QED BY <1>2, <3>1, <3>2
  <2>5. CASE i \notin 1 .. Len(q)
    <3> DEFINE j == i - Len(q)
    <3>1. j \in 1 .. Len(s) /\ qs[i] = s[j] /\ Len(q) \in 0 .. Len(q) /\ i - 1 = Len(q) + (j - 1)
      <4>1. j \in 1 .. Len(s) /\ i = Len(q) + j
        BY <2>1, <2>5
      <4>2. qs[Len(q) + j] = s[j]
        BY <2>1, <4>1
      <4>3. Len(q) \in 0 .. Len(q) /\ i - 1 = Len(q) + (j - 1)
        BY <2>1, <4>1
      <4> QED BY <4>1, <4>2, <4>3
    <3>2. /\ s[j].type = "BLOCK_REQUEST" =>
              j = 1 /\ am_interested[n] /\ s[j].chunks \subseteq Had(k)
          /\ s[j].type = "HAVE" => s[j].chunks \subseteq Had(n)'
      BY <3>1 DEF KeepsPromises
    <3>3. Told(qs, Len(q), InterestTypes, "INTERESTED", am_interested[n], peer_interested[k])
      BY <1>1, <1>2, <2>3, <3>1, ToldPrefix DEF qs
    <3>4. ASSUME s[j].type = "BLOCK_REQUEST"
          PROVE  Told(qs, i - 1, InterestTypes, "INTERESTED", TRUE, peer_interested[k])
      <4>1. i - 1 = Len(q) /\ am_interested[n]
        BY <3>1, <3>2, <3>4, <2>1
      <4>2. Told(qs, i - 1, InterestTypes, "INTERESTED", am_interested[n], peer_interested[k])
        BY <3>3, <4>1
      <4> QED BY <4>1, <4>2 DEF Told
    <3> QED BY <3>1, <3>2, <3>4
  <2> QED BY <2>4, <2>5
<1> QED BY <1>3, <1>4
-----------------------------------------------------------------------------
Holds(queue, m) == \E i \in 1 .. Len(queue) : queue[i] = m

\* What is in the concatenation of two queues, and in the rest of a queue.
LEMMA HoldsConcat ==
    ASSUME NEW q \in Seq(Msg), NEW s \in Seq(Msg), NEW m
    PROVE  Holds(q \o s, m) <=> Holds(q, m) \/ Holds(s, m)
<1> DEFINE qs == q \o s
<1>1. /\ Len(qs) = Len(q) + Len(s)
      /\ Len(q) \in Nat /\ Len(s) \in Nat
      /\ \A i \in 1 .. Len(q) : qs[i] = q[i]
      /\ \A i \in 1 .. Len(s) : qs[Len(q) + i] = s[i]
  BY ConcatProperties, LenProperties
<1> HIDE DEF qs
<1>2. ASSUME NEW i \in 1 .. Len(qs) PROVE Holds(q, qs[i]) \/ Holds(s, qs[i])
  <2>1. CASE i <= Len(q)
    BY <1>1, <2>1 DEF Holds
  <2>2. CASE i > Len(q)
    <3>1. i - Len(q) \in 1 .. Len(s) /\ i = Len(q) + (i - Len(q))
      BY <1>1, <2>2
    <3> QED BY <1>1, <3>1 DEF Holds
  <2> QED BY <2>1, <2>2, <1>1
<1>3. ASSUME NEW i \in 1 .. Len(q) PROVE Holds(qs, q[i])
  BY <1>1 DEF Holds
<1>4. ASSUME NEW i \in 1 .. Len(s) PROVE Holds(qs, s[i])
  <2>1. Len(q) + i \in 1 .. Len(qs)
    BY <1>1
  <2> QED BY <1>1, <2>1 DEF Holds
<1>5. ASSUME Holds(qs, m) PROVE Holds(q, m) \/ Holds(s, m)
  <2>1. PICK i \in 1 .. Len(qs) : qs[i] = m
    BY <1>5 DEF Holds
  <2> QED BY <1>2, <2>1
<1>6. ASSUME Holds(q, m) PROVE Holds(qs, m)
  <2>1. PICK i \in 1 .. Len(q) : q[i] = m
    BY <1>6 DEF Holds
  <2> QED BY <1>3, <2>1
<1>7. ASSUME Holds(s, m) PROVE Holds(qs, m)
  <2>1. PICK i \in 1 .. Len(s) : s[i] = m
    BY <1>7 DEF Holds
  <2> QED BY <1>4, <2>1
<1> QED BY <1>5, <1>6, <1>7 DEF qs

LEMMA HoldsTail ==
    ASSUME NEW q \in Seq(Msg), q # <<>>, NEW m
    PROVE  Holds(q, m) <=> m = Head(q) \/ Holds(Tail(q), m)
<1>1. /\ Len(q) \in Nat \ {0} /\ Head(q) = q[1] /\ Len(Tail(q)) = Len(q) - 1
      /\ \A i \in 1 .. (Len(q) - 1) : Tail(q)[i] = q[i + 1]
  BY HeadTailProperties, LenProperties, EmptySeq
<1> DEFINE t == Tail(q)
<1> HIDE DEF t
<1>2. ASSUME NEW i \in 1 .. Len(q) PROVE q[i] = q[1] \/ Holds(t, q[i])
  <2>1. CASE i # 1
    <3>1. i - 1 \in 1 .. (Len(q) - 1) /\ (i - 1) + 1 = i
      BY <1>1, <2>1
    <3> QED BY <1>1, <3>1 DEF Holds, t
  <2> QED BY <2>1
<1>3. ASSUME NEW i \in 1 .. Len(t) PROVE Holds(q, t[i])
  <2>1. i + 1 \in 1 .. Len(q)
    BY <1>1 DEF t
  <2> QED BY <1>1, <2>1 DEF Holds, t
<1>4. Holds(q, q[1])
  BY <1>1 DEF Holds
<1>5. ASSUME Holds(q, m) PROVE m = q[1] \/ Holds(t, m)
  <2>1. PICK i \in 1 .. Len(q) : q[i] = m
    BY <1>5 DEF Holds
  <2> QED BY <1>2, <2>1
<1>6. ASSUME Holds(t, m) PROVE Holds(q, m)
  <2>1. PICK i \in 1 .. Len(t) : t[i] = m
    BY <1>6 DEF Holds
  <2> QED BY <1>3, <2>1
<1> QED BY <1>1, <1>4, <1>5, <1>6 DEF t

\* A queue that is only read, and one that is only written, after a step.
LEMMA Remains ==
    ASSUME IInv, NEW n \in End, NEW r \in {0, 1}, NEW s, Step(n, r, s), NEW m
    PROVE  /\ Holds(channel'[n], m) => Holds(channel[n], m)
           /\ Holds(channel[n], m) =>
                Holds(channel'[n], m) \/ (r = 1 /\ m = Head(channel[n]))
           /\ Holds(channel'[Peer(n)], m) => Holds(channel[Peer(n)], m) \/ Holds(s, m)
           /\ Holds(channel[Peer(n)], m) => Holds(channel'[Peer(n)], m)
           /\ link[Peer(n)] # "gone" /\ Holds(s, m) => Holds(channel'[Peer(n)], m)
<1>1. r = 1 => channel[n] # <<>>
  BY DEF Step, Sends
<1>2. s \in Seq(Msg)
  BY DEF Step, Sends
<1>3. /\ Holds(channel'[n], m) => Holds(channel[n], m)
      /\ Holds(channel[n], m) => Holds(channel'[n], m) \/ (r = 1 /\ m = Head(channel[n]))
  BY <1>1, Queues, HoldsTail
<1>4. Holds(channel[Peer(n)] \o s, m) <=> Holds(channel[Peer(n)], m) \/ Holds(s, m)
  BY <1>2, Queues, HoldsConcat
<1> QED BY <1>3, <1>4, Queues DEF Sent

LEMMA RequesterPending ==
    ASSUME IInv, NEW n \in End, NEW r \in {0, 1}, NEW s, Step(n, r, s),
           KeepsRequests(n, r, s)
    PROVE  Pending(n)'
<1> SUFFICES ASSUME Up', NEW c \in requests'[n]
             PROVE  \/ Holds(channel'[Peer(n)], BlockRequest(c)) \/ Holds(channel'[n], BlockReply(c))
                    \/ c \in lost'[Peer(n)]
  BY DEF Pending, Holds, BlockRequest, BlockReply, Message
<1>1. Up /\ link[Peer(n)] # "gone"
  BY StepUp
<1>2. CASE c \in requests[n]
  <2>1. c \in Chunk
    BY <1>2 DEF IInv, TypeOK
  <2>2. \/ Holds(channel[Peer(n)], BlockRequest(c)) \/ Holds(channel[n], BlockReply(c))
        \/ c \in lost'[Peer(n)]
    BY <1>1, <1>2 DEF IInv, Pending, Holds, Step, Sends
  <2>3. ~(r = 1 /\ BlockReply(c) = Head(channel[n]))
    BY <2>1 DEF KeepsRequests
  <2> QED BY <2>2, <2>3, Remains
<1>3. CASE c \notin requests[n]
  <2>1. Holds(s, BlockRequest(c))
    BY <1>3 DEF KeepsRequests, Holds
  <2> QED BY <1>1, <2>1, Remains
<1> QED BY <1>2, <1>3

LEMMA ServerPending ==
    ASSUME IInv, NEW n \in End, NEW r \in {0, 1}, NEW s, Step(n, r, s),
           KeepsRequests(n, r, s)
    PROVE  Pending(Peer(n))'
<1> DEFINE k == Peer(n)
<1> SUFFICES ASSUME Up', NEW c \in requests'[k]
             PROVE  \/ Holds(channel'[n], BlockRequest(c)) \/ Holds(channel'[k], BlockReply(c))
                    \/ c \in lost'[n]
  BY Ends DEF Pending, Holds, BlockRequest, BlockReply, Message
<1>1. Up /\ link[k] # "gone" /\ requests'[k] = requests[k] /\ lost[n] \subseteq lost'[n]
  BY StepUp DEF Step, Sends
<1>2. c \in Chunk
  BY <1>1, Ends DEF IInv, TypeOK
<1>3. \/ Holds(channel[n], BlockRequest(c)) \/ Holds(channel[k], BlockReply(c))
      \/ c \in lost[n]
  BY <1>1, Ends DEF IInv, Pending, Holds
<1>4. r = 1 /\ BlockRequest(c) = Head(channel[n]) => Holds(s, BlockReply(c)) \/ c \in lost[n]
  BY <1>2 DEF KeepsRequests, Holds
<1> QED BY <1>1, <1>3, <1>4, Remains

\* Reading a queue in order leaves one in order, and sending what follows the
\* handshake appends to one.
LEMMA TailOrder ==
    ASSUME NEW q \in Seq(Msg), q # <<>>, InOrder(q)
    PROVE  /\ Head(q).type \in {"HAVE", "HANDSHAKE"}
           /\ Head(q).type # "HANDSHAKE" => InOrder(Tail(q))
           /\ Head(q).type = "HANDSHAKE" => ~HasType(Tail(q), "HANDSHAKE")
<1> DEFINE t == Tail(q)
<1>1. /\ Len(q) \in Nat \ {0} /\ Head(q) = q[1] /\ Len(t) = Len(q) - 1
      /\ \A i \in 1 .. Len(t) : i + 1 \in 1 .. Len(q) /\ t[i] = q[i + 1]
  BY HeadTailProperties, LenProperties, EmptySeq
<1> HIDE DEF t
<1>2. q[1].type \in {"HAVE", "HANDSHAKE"}
  BY <1>1 DEF InOrder
<1>3. ASSUME q[1].type = "HANDSHAKE", NEW i \in 1 .. Len(t) PROVE t[i].type # "HANDSHAKE"
  <2>1. 1 \in 1 .. Len(q) /\ i + 1 \in 1 .. Len(q) /\ i + 1 # 1
    BY <1>1
  <2> QED BY <1>1, <1>3, <2>1 DEF InOrder
<1>4. ASSUME q[1].type # "HANDSHAKE", NEW i \in 1 .. Len(t),
             t[i].type = "HANDSHAKE", NEW j \in 1 .. Len(t), t[j].type = "HANDSHAKE"
      PROVE  j = i
  <2>1. i + 1 \in 1 .. Len(q) /\ j + 1 \in 1 .. Len(q)
    BY <1>1
  <2>2. j + 1 = i + 1
    BY <1>1, <1>4, <2>1 DEF InOrder
  <2> QED BY <2>2
<1>5. ASSUME q[1].type # "HANDSHAKE", NEW i \in 1 .. Len(t),
             t[i].type \notin {"HAVE", "HANDSHAKE"}
      PROVE  \E j \in 1 .. (i - 1) : t[j].type = "HANDSHAKE"
  <2>1. i + 1 \in 1 .. Len(q) /\ (i + 1) - 1 = i
    BY <1>1
  <2>2. PICK h \in 1 .. i : q[h].type = "HANDSHAKE"
    BY <1>1, <1>5, <2>1 DEF InOrder
  <2>3. h - 1 \in 1 .. (i - 1) /\ h - 1 \in 1 .. Len(t) /\ (h - 1) + 1 = h
    BY <1>1, <1>5, <2>2
  <2>4. t[h - 1] = q[h]
    BY <1>1, <2>3
  <2> QED BY <2>2, <2>3, <2>4
<1> QED BY <1>1, <1>2, <1>3, <1>4, <1>5 DEF InOrder, HasType, t

LEMMA ConcatOrder ==
    ASSUME NEW q \in Seq(Msg), NEW s \in Seq(Msg), InOrder(q),
           ~HasType(s, "HANDSHAKE"), HasType(q, "HANDSHAKE") \/ OnlyHave(s)
    PROVE  InOrder(q \o s)
<1> DEFINE qs == q \o s
<1>1. /\ Len(qs) = Len(q) + Len(s)
      /\ Len(q) \in Nat /\ Len(s) \in Nat
      /\ \A i \in 1 .. Len(q) : qs[i] = q[i]
      /\ \A i \in 1 .. Len(s) : qs[Len(q) + i] = s[i]
  BY ConcatProperties, LenProperties
<1> HIDE DEF qs
<1>2. ASSUME NEW i \in 1 .. Len(qs), i \notin 1 .. Len(q)
      PROVE  i - Len(q) \in 1 .. Len(s) /\ qs[i] = s[i - Len(q)]
  <2>1. i - Len(q) \in 1 .. Len(s) /\ i = Len(q) + (i - Len(q))
    BY <1>1, <1>2
  <2> QED BY <1>1, <2>1
<1>3. ASSUME NEW i \in 1 .. Len(qs), qs[i].type = "HANDSHAKE" PROVE i \in 1 .. Len(q)
  BY <1>2, <1>3 DEF HasType
<1>4. ASSUME NEW i \in 1 .. Len(qs), qs[i].type = "HANDSHAKE",
             NEW j \in 1 .. Len(qs), qs[j].type = "HANDSHAKE"
      PROVE  j = i
  BY <1>1, <1>3, <1>4 DEF InOrder
<1>5. ASSUME NEW i \in 1 .. Len(qs), qs[i].type \notin {"HAVE", "HANDSHAKE"}
      PROVE  \E j \in 1 .. (i - 1) : qs[j].type = "HANDSHAKE"
  <2>1. CASE i \in 1 .. Len(q)
    <3>1. PICK j \in 1 .. (i - 1) : q[j].type = "HANDSHAKE"
      BY <1>1, <1>5, <2>1 DEF InOrder
    <3>2. j \in 1 .. Len(q)
      BY <1>1, <2>1
    <3> QED BY <1>1, <3>1, <3>2
  <2>2. CASE i \notin 1 .. Len(q)
    <3>1. HasType(q, "HANDSHAKE")
      BY <1>2, <1>5, <2>2 DEF OnlyHave
    <3>2. PICK j \in 1 .. Len(q) : q[j].type = "HANDSHAKE"
      BY <3>1 DEF HasType
    <3>3. j \in 1 .. (i - 1)
      BY <1>1, <2>2, <3>2
    <3> QED BY <1>1, <3>2, <3>3
  <2> QED BY <2>1, <2>2
<1> QED BY <1>4, <1>5 DEF InOrder, qs

\* The handshake is the first message that is not a HAVE.
LEMMA HandshakeOrder ==
    ASSUME NEW q \in Seq(Msg), OnlyHave(q)
    PROVE  /\ InOrder(q \o <<Handshake>>)
           /\ HasType(q \o <<Handshake>>, "HANDSHAKE")
<1> DEFINE qs == q \o <<Handshake>>
<1>1. <<Handshake>> \in Seq(Msg) /\ Len(<<Handshake>>) = 1 /\ <<Handshake>>[1] = Handshake
  BY DEF Handshake, Message, Msg, Types
<1>2. /\ Len(qs) = Len(q) + 1 /\ Len(q) \in Nat
      /\ \A i \in 1 .. Len(q) : qs[i] = q[i]
      /\ qs[Len(q) + 1] = Handshake
  <2>1. Len(q) \in Nat /\ Len(qs) = Len(q) + Len(<<Handshake>>)
        /\ \A i \in 1 .. (Len(q) + Len(<<Handshake>>)) : qs[i] =
                IF i <= Len(q) THEN q[i] ELSE <<Handshake>>[i - Len(q)]
    BY <1>1, ConcatProperties, LenProperties
  <2>2. Len(q) + 1 \in 1 .. (Len(q) + 1) /\ (Len(q) + 1) - Len(q) = 1
    BY <2>1
  <2> QED BY <1>1, <2>1, <2>2
<1> HIDE DEF qs
<1>3. Handshake.type = "HANDSHAKE"
  BY DEF Handshake, Message
<1>4. ASSUME NEW i \in 1 .. Len(qs), i # Len(q) + 1 PROVE qs[i].type = "HAVE"
  BY <1>2, <1>4 DEF OnlyHave
<1>5. InOrder(qs)
  BY <1>2, <1>3, <1>4 DEF InOrder
<1>6. Len(q) + 1 \in 1 .. Len(qs)
  BY <1>2
<1> QED BY <1>2, <1>3, <1>5, <1>6 DEF HasType, qs

\* The types of the messages in the queues after a step.
LEMMA TypesRemain ==
    ASSUME IInv, NEW n \in End, NEW r \in {0, 1}, NEW s, Step(n, r, s), NEW t
    PROVE  /\ HasType(channel'[n], t) => HasType(channel[n], t)
           /\ HasType(channel[n], t) =>
                HasType(channel'[n], t) \/ (r = 1 /\ Head(channel[n]).type = t)
           /\ HasType(channel'[Peer(n)], t) => HasType(channel[Peer(n)], t) \/ HasType(s, t)
           /\ HasType(channel[Peer(n)], t) => HasType(channel'[Peer(n)], t)
           /\ OnlyHave(channel[n]) => OnlyHave(channel'[n])
           /\ OnlyHave(channel[Peer(n)]) /\ OnlyHave(s) => OnlyHave(channel'[Peer(n)])
<1>1. \A q : HasType(q, t) <=> \E m : Holds(q, m) /\ m.type = t
  BY DEF HasType, Holds
<1>2. \A q : OnlyHave(q) <=> \A m : Holds(q, m) => m.type = "HAVE"
  BY DEF OnlyHave, Holds
<1>3. /\ HasType(channel'[n], t) => HasType(channel[n], t)
      /\ HasType(channel[n], t) =>
           HasType(channel'[n], t) \/ (r = 1 /\ Head(channel[n]).type = t)
  BY <1>1, Remains
<1>4. /\ HasType(channel'[Peer(n)], t) => HasType(channel[Peer(n)], t) \/ HasType(s, t)
      /\ HasType(channel[Peer(n)], t) => HasType(channel'[Peer(n)], t)
  BY <1>1, Remains
<1>5. /\ OnlyHave(channel[n]) => OnlyHave(channel'[n])
      /\ OnlyHave(channel[Peer(n)]) /\ OnlyHave(s) => OnlyHave(channel'[Peer(n)])
  <2>1. ASSUME OnlyHave(channel[n]), NEW m, Holds(channel'[n], m) PROVE m.type = "HAVE"
    BY <1>2, <2>1, Remains
  <2>2. ASSUME OnlyHave(channel[Peer(n)]), OnlyHave(s), NEW m, Holds(channel'[Peer(n)], m)
        PROVE  m.type = "HAVE"
    BY <1>2, <2>2, Remains
  <2> QED BY <1>2, <2>1, <2>2
<1> QED BY <1>3, <1>4, <1>5

\* A step after the handshake, or a HAVE before it, keeps the handshake in
\* its place.
KeepsOrder(n, r, s) ==
    /\ link' = link
    /\ ~HasType(s, "HANDSHAKE")
    /\ Spoke(n) \/ OnlyHave(s)
    /\ r = 1 => link[n] = "ready" \/ Head(channel[n]).type # "HANDSHAKE"

LEMMA ReaderOrder ==
    ASSUME IInv, NEW n \in End, NEW r \in {0, 1}, NEW s, Step(n, r, s),
           KeepsOrder(n, r, s)
    PROVE  Order(n)'
<1> DEFINE q == channel[n]
           k == Peer(n)
<1>1. /\ Order(n) /\ link' = link /\ link \in [End -> {"opening", "attached", "ready", "gone"}]
      /\ Waiting(n)' <=> Waiting(n)
      /\ Waiting(k)' <=> Waiting(k)
      /\ Spoke(n)' <=> Spoke(n)
      /\ Spoke(k)' <=> Spoke(k)
  BY DEF IInv, TypeOK, KeepsOrder, Waiting, Spoke
<1>2. CASE r = 0
  <2>1. channel'[n] = q
    BY <1>2, Queues
  <2> QED BY <1>1, <2>1 DEF Order, Waiting, Spoke
<1>3. CASE r = 1
  <2>1. q \in Seq(Msg) /\ q # <<>> /\ Attached(n) /\ channel'[n] = Tail(q)
    BY <1>3, Queues DEF Step, Sends
  <2>2. link[n] # "ready" => Waiting(n) /\ n = "CLIENT" /\ InOrder(q) /\ Head(q).type # "HANDSHAKE"
    <3>1. Head(q) = q[1]
      BY <2>1
    <3>2. link[n] # "ready" => Waiting(n) /\ Head(q).type # "HANDSHAKE"
      BY <1>3, <2>1 DEF Attached, Waiting, KeepsOrder
    <3> QED BY <1>1, <2>1, <3>1, <3>2 DEF Order, End
  <2>3. link[n] # "ready" => InOrder(channel'[n])
    BY <2>1, <2>2, TailOrder
  <2>4. HasType(channel'[n], "HANDSHAKE") => HasType(q, "HANDSHAKE")
    BY TypesRemain
  <2>5. HasType(q, "HANDSHAKE") /\ link[n] # "ready" => HasType(channel'[n], "HANDSHAKE")
    BY <2>2, TypesRemain
  <2>6. OnlyHave(q) => OnlyHave(channel'[n])
    BY TypesRemain
  <2>7. link[n] # "gone" /\ (Waiting(n) => link[n] # "ready")
    BY <2>1 DEF Attached, Waiting
  <2>8. n = "SERVER" => link[k] # "opening" /\ link[n] = "ready"
    BY <1>1, <2>1, <2>2 DEF Order
  <2> QED BY <1>1, <2>1, <2>2, <2>3, <2>4, <2>5, <2>6, <2>7, <2>8 DEF Order
<1> QED BY <1>2, <1>3

\* The handshake in a queue to which s is sent.
LEMMA OrderSent ==
    ASSUME IInv, NEW n \in End, NEW s \in Seq(Msg),
           s # <<>> => Attached(n),
           ~HasType(s, "HANDSHAKE"), Spoke(n) \/ OnlyHave(s)
    PROVE  LET k == Peer(n)  c == Sent(n, s) IN
           /\ link[k] = "gone" => c = <<>>
           /\ HasType(c, "HANDSHAKE") <=> HasType(channel[k], "HANDSHAKE")
           /\ Waiting(k) => InOrder(c)
           /\ Waiting(n) /\ ~Spoke(n) => OnlyHave(c)
           /\ k = "SERVER" =>
                /\ link[n] = "opening" => c = <<>>
                /\ Waiting(k) /\ c # <<>> => c[1].type = "HANDSHAKE"
<1> DEFINE k == Peer(n)
           q == channel[k]
<1>1. /\ Order(k) /\ Peer(k) = n /\ k \in End
      /\ q \in Seq(Msg)
  BY Ends DEF IInv, TypeOK, Msg
<1>2. CASE s = <<>> \/ link[k] = "gone"
  <2>1. s = <<>> => q \o s = q
    BY <1>1, ConcatEmptySeq
  <2>2. Sent(n, s) = q
    BY <1>2, <2>1 DEF Sent
  <2> QED BY <1>1, <2>2 DEF Order
<1>3. CASE s # <<>> /\ link[k] # "gone"
  <2>1. Sent(n, s) = q \o s /\ Attached(n)
    BY <1>3 DEF Sent
  <2>2. \A m : Holds(q \o s, m) <=> Holds(q, m) \/ Holds(s, m)
    BY <1>1, HoldsConcat
  <2>3. HasType(q \o s, "HANDSHAKE") <=> HasType(q, "HANDSHAKE")
    <3>1. \A p : HasType(p, "HANDSHAKE") <=> \E m : Holds(p, m) /\ m.type = "HANDSHAKE"
      BY DEF HasType, Holds
    <3> QED BY <2>2, <3>1
  <2>4. OnlyHave(q) /\ OnlyHave(s) => OnlyHave(q \o s)
    <3>1. \A p : OnlyHave(p) <=> \A m : Holds(p, m) => m.type = "HAVE"
      BY DEF OnlyHave, Holds
    <3> QED BY <2>2, <3>1
  <2>5. Waiting(k) => InOrder(q \o s)
    BY <1>1, ConcatOrder DEF Order
  <2>6. ASSUME k = "SERVER", Waiting(k)
        PROVE  (q \o s)[1].type = "HANDSHAKE"
    <3>1. Spoke(n)
      BY <1>1, <2>1, <2>6 DEF Spoke, Attached, End, Peer
    <3>2. Len(q) \in Nat /\ HasType(q, "HANDSHAKE")
      BY <1>1, <2>6, <3>1, LenProperties DEF Order
    <3>3. q # <<>> /\ 1 \in 1 .. Len(q)
      BY <1>1, <3>2, EmptySeq DEF HasType
    <3>4. q[1].type = "HANDSHAKE"
      BY <1>1, <2>6, <3>3 DEF Order
    <3>5. (q \o s)[1] = q[1]
      BY <1>1, <3>3, ConcatProperties, LenProperties
    <3> QED BY <3>4, <3>5
  <2>7. Waiting(n) /\ ~Spoke(n) => OnlyHave(q \o s)
    BY <1>1, <2>4 DEF Order
  <2>8. link[n] # "opening"
    BY <2>1 DEF Attached
  <2> QED BY <1>3, <2>1, <2>3, <2>5, <2>6, <2>7, <2>8
<1> QED BY <1>2, <1>3

LEMMA SenderOrder ==
    ASSUME IInv, NEW n \in End, NEW r \in {0, 1}, NEW s, Step(n, r, s),
           KeepsOrder(n, r, s)
    PROVE  Order(Peer(n))'
<1> DEFINE k == Peer(n)
           c == channel'[k]
<1>1. /\ Order(k) /\ link' = link /\ Peer(k) = n /\ k \in End
      /\ Waiting(n)' <=> Waiting(n)
      /\ Waiting(k)' <=> Waiting(k)
      /\ Spoke(n)' <=> Spoke(n)
      /\ Spoke(k)' <=> Spoke(k)
  BY Ends DEF IInv, TypeOK, KeepsOrder, Waiting, Spoke
<1>2. c = Sent(n, s) /\ s \in Seq(Msg) /\ (s # <<>> => Attached(n))
  <2>1. link[n] \in {"opening", "attached", "ready", "gone"}
    BY DEF IInv, TypeOK
  <2> QED BY <1>1, <2>1 DEF Step, Sends, Attached
<1>3. /\ link[k] = "gone" => c = <<>>
      /\ HasType(c, "HANDSHAKE") <=> HasType(channel[k], "HANDSHAKE")
      /\ Waiting(k) => InOrder(c)
      /\ Waiting(n) /\ ~Spoke(n) => OnlyHave(c)
      /\ k = "SERVER" =>
           /\ link[n] = "opening" => c = <<>>
           /\ Waiting(k) /\ c # <<>> => c[1].type = "HANDSHAKE"
  BY <1>2, OrderSent DEF KeepsOrder
<1>4. link[k] = "ready" =>
        ~HasType(c, "HANDSHAKE") /\ (link[n] # "gone" => Spoke(n))
  BY <1>1, <1>3 DEF Order
<1>5. Waiting(k) /\ Spoke(n) => HasType(c, "HANDSHAKE")
  BY <1>1, <1>3 DEF Order
<1> HIDE DEF c
<1> QED BY <1>1, <1>3, <1>4, <1>5 DEF Order, c
-----------------------------------------------------------------------------
\* Requests and replies are for one block.
Singles(queue) ==
    \A i \in 1 .. Len(queue) :
        queue[i].type \in {"BLOCK_REQUEST", "BLOCK_REPLY"}
            => \E c \in Chunk : queue[i].chunks = {c}

\* What TypeOK says of the variables other than the queues.
StateTypes ==
    /\ link \in [End -> {"opening", "attached", "ready", "gone"}]
    /\ doomed \subseteq End
    /\ announcing \subseteq End
    /\ am_choking \in [End -> BOOLEAN]
    /\ am_interested \in [End -> BOOLEAN]
    /\ peer_choking \in [End -> BOOLEAN]
    /\ peer_interested \in [End -> BOOLEAN]
    /\ have \in [End -> SUBSET Chunk]
    /\ lost \in [End -> SUBSET Chunk]
    /\ owned \in [End -> SUBSET Chunk]
    /\ requests \in [End -> SUBSET Chunk]
    /\ \A n \in End : requests[n] \subseteq owned[n]
    /\ timeouts \in 0 .. MaxTimeouts

LEMMA TypeParts ==
    TypeOK <=> /\ StateTypes
               /\ channel \in [End -> Seq(Msg)]
               /\ \A n \in End : Singles(channel[n])
BY DEF TypeOK, StateTypes, Msg, Singles

LEMMA TypesKept ==
    ASSUME IInv, NEW n \in End, NEW r \in {0, 1}, NEW s, Step(n, r, s),
           Singles(s), StateTypes'
    PROVE  TypeOK'
<1>1. \A m \in End : Singles(channel[m])
  BY TypeParts DEF IInv
<1>2. \A q : Singles(q) <=> \A m : Holds(q, m) =>
        (m.type \in {"BLOCK_REQUEST", "BLOCK_REPLY"} => \E c \in Chunk : m.chunks = {c})
  BY DEF Singles, Holds
<1>3. Singles(channel'[n])
  BY <1>1, <1>2, Remains
<1>4. Singles(channel'[Peer(n)])
  <2>1. Singles(channel[Peer(n)])
    BY <1>1, Ends
  <2> QED BY <1>2, <2>1, Remains
<1>5. channel' \in [End -> Seq(Msg)] /\ \A m \in End : Singles(channel'[m])
  BY <1>3, <1>4, Queues, Ends
<1> QED BY <1>5, TypeParts DEF TypeOK, StateTypes, Msg, Singles

\* A step that does all this keeps the invariant.
LEMMA StepInv ==
    ASSUME IInv, NEW n \in End, NEW r \in {0, 1}, NEW s, Step(n, r, s),
           StateTypes', Singles(s),
           SetsFlags(n, r), TellsFlags(n, s), KeepsPromises(n, s), KeepsRequests(n, r, s),
           Quiet(n)', Local(n)', Order(n)', Order(Peer(n))'
    PROVE  IInv'
<1> DEFINE k == Peer(n)
<1>1. TypeOK'
  BY TypesKept
<1>2. Flags(n)' /\ Flags(k)'
  BY ReaderFlags, SenderFlags
<1>3. Promises(n)' /\ Promises(k)'
  BY ReaderPromises, SenderPromises DEF Step
<1>4. Pending(n)' /\ Pending(k)'
  BY RequesterPending, ServerPending
<1>5. Quiet(k)'
  BY Ends DEF IInv, Quiet, Step, Sends
<1>6. Local(k)'
  BY Ends DEF IInv, Local, Step, Sends
<1>7. \A m \in End : m = n \/ m = k
  BY Ends
<1> HIDE DEF k
<1>8. ASSUME NEW m \in End
      PROVE  Quiet(m)' /\ Local(m)' /\ Order(m)' /\ Flags(m)' /\ Promises(m)' /\ Pending(m)'
  <2>1. CASE m = n
    BY <2>1, <1>2, <1>3, <1>4
  <2>2. CASE m = k
    BY <2>2, <1>2, <1>3, <1>4, <1>5, <1>6 DEF k
  <2> QED BY <1>7, <2>1, <2>2
<1> QED BY <1>1, <1>8 DEF IInv

\* The messages.
LEMMA Messages ==
    /\ Handshake \in Msg /\ Handshake.type = "HANDSHAKE"
    /\ Choke \in Msg /\ Choke.type = "CHOKE"
    /\ Unchoke \in Msg /\ Unchoke.type = "UNCHOKE"
    /\ Interested \in Msg /\ Interested.type = "INTERESTED"
    /\ NotInterested \in Msg /\ NotInterested.type = "NOT_INTERESTED"
    /\ \A cs \in SUBSET Chunk :
        Have(cs) \in Msg /\ Have(cs).type = "HAVE" /\ Have(cs).chunks = cs
    /\ \A c \in Chunk :
        /\ BlockRequest(c) \in Msg /\ BlockRequest(c).type = "BLOCK_REQUEST"
        /\ BlockRequest(c).chunks = {c}
        /\ BlockReply(c) \in Msg /\ BlockReply(c).type = "BLOCK_REPLY"
        /\ BlockReply(c).chunks = {c}
BY DEF Handshake, Choke, Unchoke, Interested, NotInterested, Have, BlockRequest,
       BlockReply, Message, Msg, Types

\* What is sent is nothing, one message, or a HAVE and a withdrawal.
LEMMA NoMessage ==
    /\ <<>> \in Seq(Msg) /\ Len(<<>>) = 0
    /\ \A i \in 1 .. Len(<<>>) : FALSE
    /\ ~HasType(<<>>, "HANDSHAKE") /\ OnlyHave(<<>>) /\ Singles(<<>>)
<1>1. <<>> \in Seq(Msg) /\ Len(<<>>) = 0
  BY EmptySeq
<1>2. \A i \in 1 .. Len(<<>>) : FALSE
  BY <1>1
<1> QED BY <1>1, <1>2 DEF HasType, OnlyHave, Singles

LEMMA OneMessage ==
    ASSUME NEW m \in Msg
    PROVE  /\ <<m>> \in Seq(Msg) /\ Len(<<m>>) = 1 /\ <<m>>[1] = m /\ <<m>> # <<>>
           /\ \A i \in 1 .. Len(<<m>>) : i = 1
           /\ \A t : HasType(<<m>>, t) <=> m.type = t
           /\ OnlyHave(<<m>>) <=> m.type = "HAVE"
           /\ m.type \notin {"BLOCK_REQUEST", "BLOCK_REPLY"} => Singles(<<m>>)
<1>1. <<m>> \in Seq(Msg) /\ Len(<<m>>) = 1 /\ <<m>>[1] = m /\ <<m>> # <<>>
  OBVIOUS
<1>2. \A i : i \in 1 .. Len(<<m>>) <=> i = 1
  BY <1>1
<1> HIDE DEF Msg
<1> QED BY <1>1, <1>2 DEF HasType, OnlyHave, Singles

LEMMA ToldNothing ==
    ASSUME NEW s, NEW types, NEW t, NEW flag, NEW known,
           \A i \in 1 .. Len(s) : s[i].type \notin types, known <=> flag
    PROVE  Told(s, Len(s), types, t, flag, known)
BY DEF Told

LEMMA ToldAt ==
    ASSUME NEW s \in Seq(Msg), NEW types, NEW t, NEW flag, NEW known,
           NEW p \in 1 .. Len(s), s[p].type \in types, s[p].type = t <=> flag,
           \A i \in 1 .. Len(s) : s[i].type \in types => i = p
    PROVE  Told(s, Len(s), types, t, flag, known)
BY DEF Told

LEMMA ToldOnce ==
    ASSUME NEW s \in Seq(Msg), s # <<>>, NEW types, NEW t, NEW flag, NEW known,
           s[1].type \in types, s[1].type = t <=> flag,
           \A i \in 1 .. Len(s) : s[i].type \in types => i = 1
    PROVE  Told(s, Len(s), types, t, flag, known)
<1>1. 1 \in 1 .. Len(s)
  BY EmptySeq
<1> QED BY <1>1, ToldAt

\* The queues after a message is read, and after none is.
LEMMA Replied ==
    ASSUME IInv, NEW n \in End, NEW s \in Seq(Msg), channel[n] # <<>>, Reply(n, s)
    PROVE  /\ channel'[n] = Tail(channel[n])
           /\ channel'[Peer(n)] = Sent(n, s)
           /\ channel' \in [End -> Seq(Msg)]
<1>1. channel \in [End -> Seq(Msg)]
  BY TypeParts DEF IInv
<1>2. Tail(channel[n]) \in Seq(Msg)
  BY <1>1, HeadTailProperties
<1>3. Sent(n, s) \in Seq(Msg)
  <2>1. channel[Peer(n)] \o s \in Seq(Msg)
    BY <1>1, Ends, ConcatProperties
  <2> QED BY <1>1, <2>1, Ends DEF Sent
<1> QED BY <1>1, <1>2, <1>3, Ends DEF Reply

LEMMA Posted ==
    ASSUME IInv, NEW n \in End, NEW s \in Seq(Msg),
           Send(n, s) \/ (s = <<>> /\ UNCHANGED channel)
    PROVE  /\ channel'[n] = channel[n]
           /\ channel'[Peer(n)] = Sent(n, s)
           /\ channel' \in [End -> Seq(Msg)]
<1>1. channel \in [End -> Seq(Msg)]
  BY TypeParts DEF IInv
<1>2. Sent(n, s) \in Seq(Msg)
  <2>1. channel[Peer(n)] \o s \in Seq(Msg)
    BY <1>1, Ends, ConcatProperties
  <2> QED BY <1>1, <2>1, Ends DEF Sent
<1>3. CASE Send(n, s)
  BY <1>1, <1>2, <1>3, Ends DEF Send
<1>4. CASE s = <<>> /\ UNCHANGED channel
  <2>1. channel[Peer(n)] \o s = channel[Peer(n)]
    BY <1>1, <1>4, Ends, ConcatEmptySeq
  <2> QED BY <1>1, <1>4, <2>1 DEF Sent
<1> QED BY <1>3, <1>4

\* Nothing is told, promised or asked by sending nothing.
LEMMA SilentStep ==
    ASSUME NEW n \in End,
           am_choking'[n] <=> am_choking[n], am_interested'[n] <=> am_interested[n]
    PROVE  /\ TellsFlags(n, <<>>) /\ KeepsPromises(n, <<>>)
BY NoMessage, ToldNothing DEF TellsFlags, KeepsPromises

\* The first message of a ready end.
LEMMA HeadFacts ==
    ASSUME IInv, NEW n \in End, channel[n] # <<>>
    PROVE  /\ Head(channel[n]) \in Msg
           /\ Head(channel[n]) = channel[n][1]
           /\ 1 \in 1 .. Len(channel[n])
<1>1. channel[n] \in Seq(Msg)
  BY TypeParts DEF IInv
<1> QED BY <1>1, HeadTailProperties, EmptySeq

\* A step that keeps the handshake in its place.
LEMMA PlainStep ==
    ASSUME IInv, NEW n \in End, NEW r \in {0, 1}, NEW s, Step(n, r, s),
           StateTypes', Singles(s),
           SetsFlags(n, r), TellsFlags(n, s), KeepsPromises(n, s), KeepsRequests(n, r, s),
           Quiet(n)', Local(n)', KeepsOrder(n, r, s)
    PROVE  IInv'
BY StepInv, ReaderOrder, SenderOrder
-----------------------------------------------------------------------------
LEMMA ChokeInv ==
    ASSUME IInv, NEW n \in End, HandleChoke(n)
    PROVE  IInv'
<1>1. StateTypes /\ Quiet(n) /\ Local(n)
  BY TypeParts DEF IInv
<1>2. channel[n] # <<>> /\ Head(channel[n]).type = "CHOKE" /\ Attached(n) /\ link[n] = "ready"
  BY DEF HandleChoke, Reads
<1>3. Step(n, 1, <<>>)
  <2>1. /\ channel'[n] = Tail(channel[n])
        /\ channel'[Peer(n)] = Sent(n, <<>>)
        /\ channel' \in [End -> Seq(Msg)]
    BY <1>2, Replied, NoMessage DEF HandleChoke
  <2> QED BY <1>1, <1>2, <2>1, NoMessage, Ends
          DEF HandleChoke, lifeVars, uploadVars, StateTypes, Step, Sends
<1>4. StateTypes'
  BY <1>1 DEF HandleChoke, lifeVars, uploadVars, StateTypes
<1>5. SetsFlags(n, 1)
  BY <1>1, <1>2 DEF HandleChoke, uploadVars, StateTypes, SetsFlags, ChokeTypes, InterestTypes
<1>6. TellsFlags(n, <<>>) /\ KeepsPromises(n, <<>>)
  BY SilentStep DEF HandleChoke, uploadVars
<1>7. KeepsRequests(n, 1, <<>>)
  BY <1>1, <1>2, Messages DEF HandleChoke, StateTypes, KeepsRequests
<1>8. Quiet(n)' /\ Local(n)'
  BY <1>1, <1>2, Ends DEF HandleChoke, lifeVars, uploadVars, Quiet, Local
<1>9. KeepsOrder(n, 1, <<>>)
  BY <1>2, NoMessage DEF HandleChoke, lifeVars, KeepsOrder
<1> QED BY <1>3, <1>4, <1>5, <1>6, <1>7, <1>8, <1>9, NoMessage, PlainStep

LEMMA UnchokeInv ==
    ASSUME IInv, NEW n \in End, HandleUnchoke(n)
    PROVE  IInv'
<1>1. StateTypes /\ Quiet(n) /\ Local(n)
  BY TypeParts DEF IInv
<1>2. channel[n] # <<>> /\ Head(channel[n]).type = "UNCHOKE" /\ Attached(n) /\ link[n] = "ready"
  BY DEF HandleUnchoke, Reads
<1>3. Step(n, 1, <<>>)
  <2>1. /\ channel'[n] = Tail(channel[n])
        /\ channel'[Peer(n)] = Sent(n, <<>>)
        /\ channel' \in [End -> Seq(Msg)]
    BY <1>2, Replied, NoMessage DEF HandleUnchoke
  <2> QED BY <1>1, <1>2, <2>1, NoMessage, Ends
          DEF HandleUnchoke, lifeVars, uploadVars, StateTypes, Step, Sends
<1>4. StateTypes'
  BY <1>1 DEF HandleUnchoke, lifeVars, uploadVars, StateTypes
<1>5. SetsFlags(n, 1)
  BY <1>1, <1>2 DEF HandleUnchoke, uploadVars, StateTypes, SetsFlags, ChokeTypes, InterestTypes
<1>6. TellsFlags(n, <<>>) /\ KeepsPromises(n, <<>>)
  BY SilentStep DEF HandleUnchoke, uploadVars
<1>7. KeepsRequests(n, 1, <<>>)
  BY <1>1, <1>2, Messages DEF HandleUnchoke, StateTypes, KeepsRequests
<1>8. Quiet(n)' /\ Local(n)'
  BY <1>1, <1>2, Ends DEF HandleUnchoke, lifeVars, uploadVars, Quiet, Local
<1>9. KeepsOrder(n, 1, <<>>)
  BY <1>2, NoMessage DEF HandleUnchoke, lifeVars, KeepsOrder
<1> QED BY <1>3, <1>4, <1>5, <1>6, <1>7, <1>8, <1>9, NoMessage, PlainStep

LEMMA InterestedInv ==
    ASSUME IInv, NEW n \in End, HandleInterested(n)
    PROVE  IInv'
<1>1. StateTypes /\ Quiet(n) /\ Local(n)
  BY TypeParts DEF IInv
<1>2. /\ channel[n] # <<>> /\ Head(channel[n]).type = "INTERESTED"
      /\ Attached(n) /\ link[n] = "ready"
  BY DEF HandleInterested, Reads
<1> DEFINE s == IF peer_interested[n] THEN <<>> ELSE <<Unchoke>>
<1>3. s \in Seq(Msg) /\ Singles(s) /\ ~HasType(s, "HANDSHAKE")
  BY NoMessage, OneMessage, Messages
<1>4. /\ Reply(n, s)
      /\ peer_interested'[n] = TRUE
      /\ am_choking'[n] = FALSE
  BY <1>1 DEF HandleInterested, StateTypes, Local
<1>5. StateTypes'
  BY <1>1 DEF HandleInterested, lifeVars, downloadVars, StateTypes
<1>6. Step(n, 1, s)
  <2>1. /\ channel'[n] = Tail(channel[n])
        /\ channel'[Peer(n)] = Sent(n, s)
        /\ channel' \in [End -> Seq(Msg)]
    BY <1>2, <1>3, <1>4, Replied
  <2>2. /\ am_choking'[Peer(n)] = am_choking[Peer(n)]
        /\ peer_interested'[Peer(n)] = peer_interested[Peer(n)]
    BY <1>1, Ends DEF HandleInterested, StateTypes
  <2> HIDE DEF s
  <2> QED BY <1>2, <1>3, <2>1, <2>2
          DEF HandleInterested, lifeVars, downloadVars, Step, Sends
<1>7. SetsFlags(n, 1)
  BY <1>2, <1>4 DEF HandleInterested, downloadVars, SetsFlags, ChokeTypes, InterestTypes
<1>8. TellsFlags(n, s)
  <2>1. am_interested'[n] = am_interested[n]
    BY DEF HandleInterested, downloadVars
  <2>2. CASE s = <<>>
    <3>1. am_choking'[n] <=> am_choking[n]
      BY <1>1, <1>4, <2>2, OneMessage, Messages DEF Local, StateTypes
    <3> QED BY <2>1, <2>2, <3>1, SilentStep
  <2>3. CASE s = <<Unchoke>>
    <3>1. /\ s \in Seq(Msg) /\ s # <<>> /\ Len(s) = 1 /\ s[1] = Unchoke
          /\ \A i \in 1 .. Len(s) : i = 1
      BY <2>3, OneMessage, Messages
    <3>2. am_choking'[n] = FALSE
      BY <1>4, <2>3, NoMessage, OneMessage, Messages
    <3> HIDE DEF s
    <3>3. Told(s, Len(s), ChokeTypes, "CHOKE", am_choking'[n], am_choking[n])
      <4>1. s[1].type \in ChokeTypes
        BY <3>1, Messages DEF ChokeTypes
      <4>2. s[1].type = "CHOKE" <=> am_choking'[n]
        BY <3>1, <3>2, Messages
      <4>3. \A i \in 1 .. Len(s) : s[i].type \in ChokeTypes => i = 1
        BY <3>1
      <4> QED BY <3>1, <4>1, <4>2, <4>3, ToldOnce
    <3>4. Told(s, Len(s), InterestTypes, "INTERESTED", am_interested'[n], am_interested[n])
      BY <2>1, <3>1, ToldNothing, Messages DEF InterestTypes
    <3> QED BY <3>3, <3>4 DEF TellsFlags
  <2> QED BY <2>2, <2>3
<1>9. KeepsPromises(n, s)
  BY NoMessage, OneMessage, Messages DEF KeepsPromises
<1>10. KeepsRequests(n, 1, s)
  BY <1>2, Messages DEF HandleInterested, downloadVars, KeepsRequests
<1>11. Quiet(n)' /\ Local(n)'
  BY <1>1, <1>2, <1>4 DEF HandleInterested, lifeVars, downloadVars, Quiet, Local
<1>12. KeepsOrder(n, 1, s)
  BY <1>2, <1>3 DEF HandleInterested, lifeVars, KeepsOrder, Spoke
<1> HIDE DEF s, storeVars, Had
<1> QED BY <1>3, <1>5, <1>6, <1>7, <1>8, <1>9, <1>10, <1>11, <1>12, PlainStep

LEMMA NotInterestedInv ==
    ASSUME IInv, NEW n \in End, HandleNotInterested(n)
    PROVE  IInv'
<1>1. StateTypes /\ Quiet(n) /\ Local(n)
  BY TypeParts DEF IInv
<1>2. /\ channel[n] # <<>> /\ Head(channel[n]).type = "NOT_INTERESTED"
      /\ Attached(n) /\ link[n] = "ready"
  BY DEF HandleNotInterested, Reads
<1> DEFINE s == IF peer_interested[n] THEN <<Choke>> ELSE <<>>
<1>3. s \in Seq(Msg) /\ Singles(s) /\ ~HasType(s, "HANDSHAKE")
  BY NoMessage, OneMessage, Messages
<1>4. /\ Reply(n, s)
      /\ peer_interested'[n] = FALSE
      /\ am_choking'[n] = TRUE
  BY <1>1 DEF HandleNotInterested, StateTypes, Local
<1>5. StateTypes'
  BY <1>1 DEF HandleNotInterested, lifeVars, downloadVars, StateTypes
<1>6. Step(n, 1, s)
  <2>1. /\ channel'[n] = Tail(channel[n])
        /\ channel'[Peer(n)] = Sent(n, s)
        /\ channel' \in [End -> Seq(Msg)]
    BY <1>2, <1>3, <1>4, Replied
  <2>2. /\ am_choking'[Peer(n)] = am_choking[Peer(n)]
        /\ peer_interested'[Peer(n)] = peer_interested[Peer(n)]
    BY <1>1, Ends DEF HandleNotInterested, StateTypes
  <2> HIDE DEF s
  <2> QED BY <1>2, <1>3, <2>1, <2>2
          DEF HandleNotInterested, lifeVars, downloadVars, Step, Sends
<1>7. SetsFlags(n, 1)
  BY <1>2, <1>4 DEF HandleNotInterested, downloadVars, SetsFlags, ChokeTypes, InterestTypes
<1>8. TellsFlags(n, s)
  <2>1. am_interested'[n] = am_interested[n]
    BY DEF HandleNotInterested, downloadVars
  <2>2. CASE s = <<>>
    <3>1. am_choking'[n] <=> am_choking[n]
      BY <1>1, <1>4, <2>2, OneMessage, Messages DEF Local, StateTypes
    <3> QED BY <2>1, <2>2, <3>1, SilentStep
  <2>3. CASE s = <<Choke>>
    <3>1. /\ s \in Seq(Msg) /\ s # <<>> /\ Len(s) = 1 /\ s[1] = Choke
          /\ \A i \in 1 .. Len(s) : i = 1
      BY <2>3, OneMessage, Messages
    <3>2. am_choking'[n] = TRUE
      BY <1>4, <2>3, NoMessage, OneMessage, Messages
    <3> HIDE DEF s
    <3>3. Told(s, Len(s), ChokeTypes, "CHOKE", am_choking'[n], am_choking[n])
      <4>1. s[1].type \in ChokeTypes
        BY <3>1, Messages DEF ChokeTypes
      <4>2. s[1].type = "CHOKE" <=> am_choking'[n]
        BY <3>1, <3>2, Messages
      <4>3. \A i \in 1 .. Len(s) : s[i].type \in ChokeTypes => i = 1
        BY <3>1
      <4> QED BY <3>1, <4>1, <4>2, <4>3, ToldOnce
    <3>4. Told(s, Len(s), InterestTypes, "INTERESTED", am_interested'[n], am_interested[n])
      BY <2>1, <3>1, ToldNothing, Messages DEF InterestTypes
    <3> QED BY <3>3, <3>4 DEF TellsFlags
  <2> QED BY <2>2, <2>3
<1>9. KeepsPromises(n, s)
  BY NoMessage, OneMessage, Messages DEF KeepsPromises
<1>10. KeepsRequests(n, 1, s)
  BY <1>2, Messages DEF HandleNotInterested, downloadVars, KeepsRequests
<1>11. Quiet(n)' /\ Local(n)'
  BY <1>1, <1>2, <1>4 DEF HandleNotInterested, lifeVars, downloadVars, Quiet, Local
<1>12. KeepsOrder(n, 1, s)
  BY <1>2, <1>3 DEF HandleNotInterested, lifeVars, KeepsOrder, Spoke
<1> HIDE DEF s, storeVars, Had
<1> QED BY <1>3, <1>5, <1>6, <1>7, <1>8, <1>9, <1>10, <1>11, <1>12, PlainStep

LEMMA HaveInv ==
    ASSUME IInv, NEW n \in End, HandleHave(n)
    PROVE  IInv'
<1>1. StateTypes /\ Quiet(n) /\ Local(n)
  BY TypeParts DEF IInv
<1>2. /\ channel[n] # <<>> /\ Head(channel[n]).type = "HAVE"
      /\ Attached(n) /\ link[n] = "ready"
  BY DEF HandleHave, Reads
<1> DEFINE wanted == Chunks(n) \ Had(n)
           s == IF wanted # {} /\ ~am_interested[n] THEN <<Interested>> ELSE <<>>
<1>3. s \in Seq(Msg) /\ Singles(s) /\ ~HasType(s, "HANDSHAKE")
  BY NoMessage, OneMessage, Messages
<1>4. /\ Reply(n, s)
      /\ owned'[n] = owned[n] \cup wanted
      /\ am_interested'[n] <=> am_interested[n] \/ wanted # {}
  BY <1>1 DEF HandleHave, StateTypes
<1>5. wanted \subseteq Chunk /\ wanted \subseteq Had(Peer(n))
  <2>1. Promises(n) /\ Head(channel[n]) \in Msg /\ Head(channel[n]) = channel[n][1]
        /\ 1 \in 1 .. Len(channel[n])
    BY <1>2, HeadFacts DEF IInv
  <2> QED BY <1>2, <2>1 DEF Promises, Chunks, Msg
<1>6. StateTypes'
  BY <1>1, <1>5 DEF HandleHave, lifeVars, uploadVars, StateTypes
<1>7. Step(n, 1, s)
  <2>1. /\ channel'[n] = Tail(channel[n])
        /\ channel'[Peer(n)] = Sent(n, s)
        /\ channel' \in [End -> Seq(Msg)]
    BY <1>2, <1>3, <1>4, Replied
  <2>2. /\ owned'[Peer(n)] = owned[Peer(n)]
        /\ am_interested'[Peer(n)] = am_interested[Peer(n)]
    BY <1>1, Ends DEF HandleHave, StateTypes
  <2> HIDE DEF s, wanted
  <2> QED BY <1>2, <1>3, <2>1, <2>2
          DEF HandleHave, lifeVars, uploadVars, Step, Sends
<1>8. SetsFlags(n, 1)
  BY <1>2 DEF HandleHave, uploadVars, SetsFlags, ChokeTypes, InterestTypes
<1>9. TellsFlags(n, s)
  <2>1. am_choking'[n] = am_choking[n]
    BY DEF HandleHave, uploadVars
  <2>2. CASE s = <<>>
    <3>1. am_interested'[n] <=> am_interested[n]
      BY <1>4, <2>2, OneMessage, Messages
    <3> QED BY <2>1, <2>2, <3>1, SilentStep
  <2>3. CASE s = <<Interested>>
    <3>1. /\ s \in Seq(Msg) /\ s # <<>> /\ Len(s) = 1 /\ s[1] = Interested
          /\ \A i \in 1 .. Len(s) : i = 1
      BY <2>3, OneMessage, Messages
    <3>2. am_interested'[n]
      BY <1>4, <2>3, NoMessage, OneMessage, Messages
    <3> HIDE DEF s
    <3>3. Told(s, Len(s), InterestTypes, "INTERESTED", am_interested'[n], am_interested[n])
      <4>1. s[1].type \in InterestTypes
        BY <3>1, Messages DEF InterestTypes
      <4>2. s[1].type = "INTERESTED" <=> am_interested'[n]
        BY <3>1, <3>2, Messages
      <4>3. \A i \in 1 .. Len(s) : s[i].type \in InterestTypes => i = 1
        BY <3>1
      <4> QED BY <3>1, <4>1, <4>2, <4>3, ToldOnce
    <3>4. Told(s, Len(s), ChokeTypes, "CHOKE", am_choking'[n], am_choking[n])
      BY <2>1, <3>1, ToldNothing, Messages DEF ChokeTypes
    <3> QED BY <3>3, <3>4 DEF TellsFlags
  <2> QED BY <2>2, <2>3
<1>10. KeepsPromises(n, s)
  BY NoMessage, OneMessage, Messages DEF KeepsPromises
<1>11. KeepsRequests(n, 1, s)
  BY <1>2, Messages DEF HandleHave, KeepsRequests
<1>12. Quiet(n)' /\ Local(n)'
  <2>1. link'[n] = "ready" /\ have' = have /\ lost' = lost
    BY <1>2 DEF HandleHave, lifeVars
  <2>2. am_interested'[n] <=> owned'[n] # {}
    BY <1>1, <1>4 DEF Local
  <2>3. owned'[n] \subseteq Had(Peer(n))'
    BY <1>1, <1>4, <1>5, <2>1 DEF Local
  <2> QED BY <1>1, <2>1, <2>2, <2>3 DEF HandleHave, uploadVars, Quiet, Local
<1>13. KeepsOrder(n, 1, s)
  BY <1>2, <1>3 DEF HandleHave, lifeVars, KeepsOrder, Spoke
<1> HIDE DEF s, storeVars, Had
<1> QED BY <1>3, <1>6, <1>7, <1>8, <1>9, <1>10, <1>11, <1>12, <1>13, PlainStep

\* RequestServed of one end.
LEMMA Served ==
    ASSUME IInv, NEW n \in End, Reads(n, "BLOCK_REQUEST")
    PROVE  ~am_choking[n] /\ peer_interested[n] /\ Chunks(n) \subseteq Had(n)
<1>1. Promises(n) /\ Local(n) /\ channel[n] # <<>> /\ Head(channel[n]).type = "BLOCK_REQUEST"
  BY DEF IInv, Reads
<1>2. Head(channel[n]) = channel[n][1] /\ 1 \in 1 .. Len(channel[n])
  BY <1>1, HeadFacts
<1>3. /\ Told(channel[n], 1 - 1, InterestTypes, "INTERESTED", TRUE, peer_interested[n])
      /\ Chunks(n) \subseteq Had(n)
  BY <1>1, <1>2 DEF Promises, Chunks
<1>4. peer_interested[n]
  BY <1>3 DEF Told
<1> QED BY <1>1, <1>3, <1>4 DEF Local

LEMMA BlockRequestInv ==
    ASSUME IInv, NEW n \in End, HandleBlockRequest(n)
    PROVE  IInv'
<1>1. StateTypes /\ Quiet(n) /\ Local(n) /\ Singles(channel[n])
  BY TypeParts DEF IInv
<1>2. /\ channel[n] # <<>> /\ Head(channel[n]).type = "BLOCK_REQUEST"
      /\ Attached(n) /\ link[n] = "ready"
  BY DEF HandleBlockRequest, Reads
<1>3. PICK c \in Chunk : Chunks(n) = {c}
  <2>1. Head(channel[n]) = channel[n][1] /\ 1 \in 1 .. Len(channel[n])
    BY <1>2, HeadFacts
  <2> QED BY <1>1, <1>2, <2>1 DEF Singles, Chunks
<1> DEFINE s == IF c \in have[n] THEN <<BlockReply(c)>> ELSE <<>>
<1>4. /\ s \in Seq(Msg) /\ ~HasType(s, "HANDSHAKE")
      /\ c \in have[n] => s[1] = BlockReply(c) /\ 1 \in 1 .. Len(s)
      /\ c \notin have[n] => c \in lost[n]
      /\ \A i \in 1 .. Len(s) : s[i] = BlockReply(c)
  <2>1. c \in have[n] \/ c \in lost[n]
    BY <1>2, <1>3, Served DEF Reads
  <2>2. CASE c \in have[n]
    <3>1. s = <<BlockReply(c)>>
      BY <2>2
    <3>2. /\ s \in Seq(Msg) /\ ~HasType(s, "HANDSHAKE")
          /\ s[1] = BlockReply(c) /\ 1 \in 1 .. Len(s) /\ \A i \in 1 .. Len(s) : i = 1
      BY <3>1, OneMessage, Messages
    <3> HIDE DEF s
    <3> QED BY <2>2, <3>2
  <2>3. CASE c \notin have[n]
    BY <2>1, <2>3, NoMessage
  <2> QED BY <2>2, <2>3
<1>5. Reply(n, s)
  BY <1>2, <1>3, Served DEF HandleBlockRequest, BlockReply, Serves, Reads
<1> HIDE DEF s
<1>6. StateTypes'
  BY <1>1 DEF HandleBlockRequest, lifeVars, uploadVars, downloadVars, StateTypes
<1>7. Step(n, 1, s)
  <2>1. /\ channel'[n] = Tail(channel[n])
        /\ channel'[Peer(n)] = Sent(n, s)
        /\ channel' \in [End -> Seq(Msg)]
    BY <1>2, <1>4, <1>5, Replied
  <2> QED BY <1>2, <1>4, <2>1
          DEF HandleBlockRequest, lifeVars, uploadVars, downloadVars, Step, Sends
<1>8. SetsFlags(n, 1)
  BY <1>2 DEF HandleBlockRequest, uploadVars, downloadVars, SetsFlags, ChokeTypes, InterestTypes
<1>9. TellsFlags(n, s)
  <2>1. am_choking'[n] = am_choking[n] /\ am_interested'[n] = am_interested[n]
    BY DEF HandleBlockRequest, uploadVars, downloadVars
  <2>2. \A i \in 1 .. Len(s) : s[i].type \notin ChokeTypes /\ s[i].type \notin InterestTypes
    BY <1>4, Messages DEF ChokeTypes, InterestTypes
  <2> QED BY <2>1, <2>2, ToldNothing DEF TellsFlags
<1>10. KeepsPromises(n, s) /\ Singles(s)
  BY <1>4, Messages DEF KeepsPromises, Singles
<1>11. KeepsRequests(n, 1, s)
  <2>1. ASSUME NEW d \in Chunk, Head(channel[n]) = BlockRequest(d)
        PROVE  d \in lost[n] \/ \E i \in 1 .. Len(s) : s[i] = BlockReply(d)
    <3>1. c = d
      BY <1>3, <2>1, Messages DEF Chunks
    <3> QED BY <1>4, <3>1
  <2> QED BY <1>2, <1>4, <2>1, Messages DEF HandleBlockRequest, downloadVars, KeepsRequests
<1>12. Quiet(n)' /\ Local(n)'
  BY <1>1, <1>2 DEF HandleBlockRequest, lifeVars, uploadVars, downloadVars, Quiet, Local
<1>13. KeepsOrder(n, 1, s)
  BY <1>2, <1>4 DEF HandleBlockRequest, lifeVars, KeepsOrder, Spoke
<1> HIDE DEF storeVars, Had
<1> QED BY <1>6, <1>7, <1>8, <1>9, <1>10, <1>11, <1>12, <1>13, PlainStep

LEMMA RequestBlockInv ==
    ASSUME IInv, NEW n \in End, NEW c \in Chunk, RequestBlock(n, c)
    PROVE  IInv'
<1>1. StateTypes /\ Quiet(n) /\ Local(n)
  BY TypeParts DEF IInv
<1>2. link[n] = "ready" /\ c \in owned[n]
  BY DEF RequestBlock
<1> DEFINE s == <<BlockRequest(c)>>
<1>3. /\ s \in Seq(Msg) /\ ~HasType(s, "HANDSHAKE")
      /\ s[1] = BlockRequest(c) /\ 1 \in 1 .. Len(s) /\ \A i \in 1 .. Len(s) : i = 1
  BY OneMessage, Messages
<1>4. Send(n, s)
  BY DEF RequestBlock
<1> HIDE DEF s
<1>5. StateTypes'
  BY <1>1, <1>2 DEF RequestBlock, lifeVars, uploadVars, StateTypes
<1>6. Step(n, 0, s)
  <2>1. /\ channel'[n] = channel[n]
        /\ channel'[Peer(n)] = Sent(n, s)
        /\ channel' \in [End -> Seq(Msg)]
    BY <1>3, <1>4, Posted
  <2>2. requests'[Peer(n)] = requests[Peer(n)]
    BY <1>1, Ends DEF RequestBlock, StateTypes
  <2> QED BY <1>2, <1>3, <2>1, <2>2
          DEF RequestBlock, lifeVars, uploadVars, Step, Sends
<1>7. SetsFlags(n, 0)
  BY DEF RequestBlock, uploadVars, SetsFlags
<1>8. TellsFlags(n, s)
  <2>1. am_choking'[n] = am_choking[n] /\ am_interested'[n] = am_interested[n]
    BY DEF RequestBlock, uploadVars
  <2>2. \A i \in 1 .. Len(s) : s[i].type \notin ChokeTypes /\ s[i].type \notin InterestTypes
    BY <1>3, Messages DEF ChokeTypes, InterestTypes
  <2> QED BY <2>1, <2>2, ToldNothing DEF TellsFlags
<1>9. KeepsPromises(n, s) /\ Singles(s)
  BY <1>1, <1>2, <1>3, Messages DEF Local, KeepsPromises, Singles
<1>10. KeepsRequests(n, 0, s)
  BY <1>1, <1>3 DEF RequestBlock, StateTypes, KeepsRequests
<1>11. Quiet(n)' /\ Local(n)'
  BY <1>1, <1>2 DEF RequestBlock, lifeVars, uploadVars, Quiet, Local
<1>12. KeepsOrder(n, 0, s)
  BY <1>2, <1>3 DEF RequestBlock, lifeVars, KeepsOrder, Spoke
<1> QED BY <1>3, <1>5, <1>6, <1>7, <1>8, <1>9, <1>10, <1>11, <1>12, PlainStep

LEMMA TimeOutInv ==
    ASSUME IInv, NEW n \in End, NEW c \in Chunk, TimeOutRequest(n, c)
    PROVE  IInv'
<1>1. StateTypes /\ Quiet(n) /\ Local(n)
  BY TypeParts DEF IInv
<1>2. StateTypes'
  BY <1>1, MaxTimeoutsAssumption DEF TimeOutRequest, lifeVars, uploadVars, StateTypes
<1>3. Step(n, 0, <<>>)
  <2>1. /\ channel'[n] = channel[n]
        /\ channel'[Peer(n)] = Sent(n, <<>>)
        /\ channel' \in [End -> Seq(Msg)]
    BY Posted, NoMessage DEF TimeOutRequest
  <2>2. requests'[Peer(n)] = requests[Peer(n)]
    BY <1>1, Ends DEF TimeOutRequest, StateTypes
  <2> QED BY <2>1, <2>2, NoMessage DEF TimeOutRequest, lifeVars, uploadVars, Step, Sends
<1>4. SetsFlags(n, 0)
  BY DEF TimeOutRequest, uploadVars, SetsFlags
<1>5. TellsFlags(n, <<>>) /\ KeepsPromises(n, <<>>)
  BY SilentStep DEF TimeOutRequest, uploadVars
<1>6. KeepsRequests(n, 0, <<>>)
  BY <1>1 DEF TimeOutRequest, StateTypes, KeepsRequests
<1>7. Quiet(n)' /\ Local(n)'
  BY <1>1 DEF TimeOutRequest, lifeVars, uploadVars, Quiet, Local
<1>8. KeepsOrder(n, 0, <<>>)
  BY NoMessage DEF TimeOutRequest, lifeVars, KeepsOrder
<1> QED BY <1>2, <1>3, <1>4, <1>5, <1>6, <1>7, <1>8, NoMessage, PlainStep

LEMMA AnnounceInv ==
    ASSUME IInv, NEW n \in End, Announce(n)
    PROVE  IInv'
<1>1. StateTypes /\ Quiet(n) /\ Local(n)
  BY TypeParts DEF IInv
<1>2. link[n] = "ready"
  BY <1>1 DEF Announce, Quiet
<1>0. PICK marked \in SUBSET lost[n] : Send(n, <<Have(have[n] \cup marked)>>)
  BY DEF Announce
<1> DEFINE told == have[n] \cup marked
           s == <<Have(told)>>
<1>3. told \in SUBSET Chunk /\ told \subseteq Had(n)
  BY <1>0, <1>1 DEF StateTypes
<1>4. /\ s \in Seq(Msg) /\ ~HasType(s, "HANDSHAKE")
      /\ s[1] = Have(told) /\ \A i \in 1 .. Len(s) : i = 1
  BY <1>3, OneMessage, Messages
<1>5. Send(n, s)
  BY <1>0
<1> HIDE DEF told
<1> HIDE DEF s
<1>6. StateTypes'
  BY <1>1 DEF Announce, uploadVars, downloadVars, StateTypes
<1>7. Step(n, 0, s)
  <2>1. /\ channel'[n] = channel[n]
        /\ channel'[Peer(n)] = Sent(n, s)
        /\ channel' \in [End -> Seq(Msg)]
    BY <1>4, <1>5, Posted
  <2> QED BY <1>2, <1>4, <2>1, Ends
          DEF Announce, uploadVars, downloadVars, Step, Sends
<1>8. SetsFlags(n, 0)
  BY DEF Announce, uploadVars, downloadVars, SetsFlags
<1>9. TellsFlags(n, s)
  <2>1. am_choking'[n] = am_choking[n] /\ am_interested'[n] = am_interested[n]
    BY DEF Announce, uploadVars, downloadVars
  <2>2. \A i \in 1 .. Len(s) : s[i].type \notin ChokeTypes /\ s[i].type \notin InterestTypes
    BY <1>3, <1>4, Messages DEF ChokeTypes, InterestTypes
  <2> QED BY <2>1, <2>2, ToldNothing DEF TellsFlags
<1>10. KeepsPromises(n, s) /\ Singles(s)
  BY <1>3, <1>4, Messages DEF Announce, KeepsPromises, Singles
<1>11. KeepsRequests(n, 0, s)
  BY DEF Announce, downloadVars, KeepsRequests
<1>12. Quiet(n)' /\ Local(n)'
  BY <1>1, <1>2 DEF Announce, uploadVars, downloadVars, Quiet, Local
<1>13. KeepsOrder(n, 0, s)
  BY <1>2, <1>4 DEF Announce, KeepsOrder, Spoke
<1> HIDE DEF storeVars, Had
<1> QED BY <1>6, <1>7, <1>8, <1>9, <1>10, <1>11, <1>12, <1>13, PlainStep

\* A chunk is lost, and nobody is told.
LEMMA LoseInv ==
    ASSUME IInv, NEW n \in End, NEW c \in Chunk, LoseChunk(n, c)
    PROVE  IInv'
<1>1. StateTypes /\ Quiet(n) /\ Local(n)
  BY TypeParts DEF IInv
<1>2. StateTypes'
  BY <1>1 DEF LoseChunk, lifeVars, uploadVars, downloadVars, StateTypes
<1>3. /\ Had(n)' = Had(n) /\ lost[n] \subseteq lost'[n]
      /\ have'[Peer(n)] = have[Peer(n)] /\ lost'[Peer(n)] = lost[Peer(n)]
  BY <1>1, Ends DEF LoseChunk, StateTypes
<1>4. Step(n, 0, <<>>)
  <2>1. /\ channel'[n] = channel[n]
        /\ channel'[Peer(n)] = Sent(n, <<>>)
        /\ channel' \in [End -> Seq(Msg)]
    BY Posted, NoMessage DEF LoseChunk
  <2> QED BY <1>3, <2>1, NoMessage DEF LoseChunk, lifeVars, uploadVars, downloadVars, Step, Sends
<1>5. SetsFlags(n, 0)
  BY DEF LoseChunk, uploadVars, downloadVars, SetsFlags
<1>6. TellsFlags(n, <<>>) /\ KeepsPromises(n, <<>>)
  BY SilentStep DEF LoseChunk, uploadVars, downloadVars
<1>7. KeepsRequests(n, 0, <<>>)
  BY <1>1 DEF LoseChunk, downloadVars, KeepsRequests
<1>8. Quiet(n)' /\ Local(n)'
  BY <1>1, <1>3 DEF LoseChunk, lifeVars, uploadVars, downloadVars, Quiet, Local
<1>9. KeepsOrder(n, 0, <<>>)
  BY NoMessage DEF LoseChunk, lifeVars, KeepsOrder
<1> QED BY <1>2, <1>4, <1>5, <1>6, <1>7, <1>8, <1>9, NoMessage, PlainStep

\* A message that is refused is an early HAVE.
LEMMA Refused ==
    ASSUME IInv, NEW n \in End, Attached(n), channel[n] # <<>>,
           Head(channel[n]).type = "HANDSHAKE" <=> link[n] = "ready"
    PROVE  n = "CLIENT" /\ link[n] = "attached" /\ Head(channel[n]).type = "HAVE"
<1>1. Head(channel[n]) = channel[n][1] /\ 1 \in 1 .. Len(channel[n]) /\ channel[n] \in Seq(Msg)
  BY HeadFacts, TypeParts DEF IInv
<1>2. link[n] # "ready"
  BY <1>1 DEF IInv, Order, HasType
<1>3. link[n] = "attached" /\ Waiting(n)
  BY <1>2 DEF Attached, Waiting
<1>4. Head(channel[n]).type = "HAVE"
  BY <1>1, <1>2, <1>3, TailOrder DEF IInv, Order
<1>5. n # "SERVER"
  BY <1>1, <1>3, <1>4 DEF IInv, Order
<1> QED BY <1>3, <1>4, <1>5 DEF End

LEMMA RefuseInv ==
    ASSUME IInv, NEW n \in End, Refuse(n)
    PROVE  IInv'
<1>1. StateTypes /\ Quiet(n) /\ Local(n)
  BY TypeParts DEF IInv
<1>2. /\ channel[n] # <<>> /\ Attached(n)
      /\ link[n] = "attached" /\ Head(channel[n]).type = "HAVE"
  BY Refused DEF Refuse
<1>3. StateTypes'
  BY <1>1 DEF Refuse, uploadVars, downloadVars, StateTypes
<1>4. Step(n, 1, <<>>)
  <2>1. /\ channel'[n] = Tail(channel[n])
        /\ channel'[Peer(n)] = Sent(n, <<>>)
        /\ channel' \in [End -> Seq(Msg)]
    BY <1>2, Replied, NoMessage DEF Refuse
  <2> QED BY <1>2, <2>1, NoMessage DEF Refuse, uploadVars, downloadVars, Step, Sends
<1>5. SetsFlags(n, 1)
  BY <1>2 DEF Refuse, uploadVars, downloadVars, SetsFlags, ChokeTypes, InterestTypes
<1>6. TellsFlags(n, <<>>) /\ KeepsPromises(n, <<>>)
  BY SilentStep DEF Refuse, uploadVars, downloadVars
<1>7. KeepsRequests(n, 1, <<>>)
  BY <1>2, Messages DEF Refuse, downloadVars, KeepsRequests
<1>8. Quiet(n)' /\ Local(n)'
  BY <1>1, <1>2 DEF Refuse, uploadVars, downloadVars, Quiet, Local
<1>9. KeepsOrder(n, 1, <<>>)
  BY <1>2, NoMessage DEF Refuse, KeepsOrder
<1> QED BY <1>3, <1>4, <1>5, <1>6, <1>7, <1>8, <1>9, NoMessage, PlainStep

\* The messages of putBlock and of handle_indexed_meta: a HAVE, and with the last
\* chunk that the peer owns the withdrawal of interest, after or before it.
Tells(n, c, s) ==
    \/ s = StoredMessages(n, c)
    \/ s = IndexedMessages(n, c)

LEMMA StoredSends ==
    ASSUME NEW n \in End, NEW c \in Chunk, NEW s, Tells(n, c, s)
    PROVE  /\ s \in Seq(Msg) /\ s # <<>>
           /\ IF am_interested[n] /\ owned[n] \ {c} = {}
              THEN /\ Len(s) = 2
                   /\ \/ s[1] = NotInterested /\ s[2] = Have({c})
                      \/ s[1] = Have({c}) /\ s[2] = NotInterested
              ELSE Len(s) = 1 /\ s[1] = Have({c})
<1> DEFINE a == <<NotInterested>>
           b == <<Have({c})>>
<1>1. a \in Seq(Msg) /\ b \in Seq(Msg) /\ b # <<>>
  BY OneMessage, Messages
<1>2. Len(a) = 1 /\ Len(b) = 1 /\ a[1] = NotInterested /\ b[1] = Have({c})
  OBVIOUS
<1>3. CASE am_interested[n] /\ owned[n] \ {c} = {}
  <2>1. s = a \o b \/ s = b \o a
    BY <1>3 DEF Tells, StoredMessages, IndexedMessages, Withdrawal, InterestAfter
  <2> HIDE DEF a, b
  <2>2. /\ a \o b \in Seq(Msg) /\ Len(a \o b) = 2
        /\ (a \o b)[1] = a[1] /\ (a \o b)[2] = b[1]
    BY <1>1, <1>2, ConcatProperties
  <2>3. /\ b \o a \in Seq(Msg) /\ Len(b \o a) = 2
        /\ (b \o a)[1] = b[1] /\ (b \o a)[2] = a[1]
    BY <1>1, <1>2, ConcatProperties
  <2>4. s # <<>>
    BY <2>1, <2>2, <2>3, NoMessage
  <2> QED BY <1>2, <1>3, <2>1, <2>2, <2>3, <2>4
<1>4. CASE ~(am_interested[n] /\ owned[n] \ {c} = {})
  <2>1. s = <<>> \o b \/ s = b \o <<>>
    BY <1>4 DEF Tells, StoredMessages, IndexedMessages, Withdrawal, InterestAfter
  <2> HIDE DEF a, b
  <2>2. s = b
    BY <1>1, <2>1, ConcatEmptySeq
  <2> QED BY <1>1, <1>2, <1>4, <2>2
<1> QED BY <1>3, <1>4

\* A chunk is stored: interest is withdrawn with the last one that the peer owns.
LEMMA StoredInv ==
    ASSUME IInv, NEW n \in End, NEW c \in Chunk, NEW r \in {0, 1}, NEW s, Stored(n, c),
           (Tells(n, c, s) /\ Attached(n)) \/ (s = <<>> /\ ~Attached(n)),
           r = 1 => /\ link[n] = "ready" /\ channel[n] # <<>>
                    /\ Head(channel[n]).type = "BLOCK_REPLY"
                    /\ \A d \in Chunk : Head(channel[n]) = BlockReply(d) => d = c,
           channel' \in [End -> Seq(Msg)],
           channel'[n] = IF r = 1 THEN Tail(channel[n]) ELSE channel[n],
           channel'[Peer(n)] = Sent(n, s),
           UNCHANGED <<lifeVars, uploadVars, peer_choking, lost, timeouts>>
    PROVE  IInv'
<1> DEFINE last == am_interested[n] /\ owned[n] \ {c} = {}
<1>1. StateTypes /\ Quiet(n) /\ Local(n)
  BY TypeParts DEF IInv
<1>2. /\ have'[n] = have[n] \cup {c}
      /\ owned'[n] = owned[n] \ {c}
      /\ requests'[n] = requests[n] \ {c}
      /\ am_interested'[n] <=> am_interested[n] /\ owned[n] \ {c} # {}
  BY <1>1 DEF Stored, StateTypes, InterestAfter
<1>3. /\ have'[Peer(n)] = have[Peer(n)]
      /\ owned'[Peer(n)] = owned[Peer(n)]
      /\ requests'[Peer(n)] = requests[Peer(n)]
      /\ am_interested'[Peer(n)] = am_interested[Peer(n)]
  BY <1>1, Ends DEF Stored, StateTypes
<1>4. s \in Seq(Msg) /\ (s # <<>> => Attached(n))
  BY StoredSends, NoMessage
<1>5. PICK p \in {1, 2} :
        /\ \A i \in 1 .. Len(s) :
            \/ i = p /\ last /\ s[i] = NotInterested
            \/ s[i] = Have({c})
        /\ last => s # <<>> /\ p \in 1 .. Len(s) /\ s[p] = NotInterested
  <2>1. CASE s = <<>>
    <3>1. ~last
      BY <1>1, <2>1, StoredSends DEF Quiet, Attached
    <3> QED BY <2>1, <3>1, NoMessage
  <2>2. CASE Tells(n, c, s)
    <3>1. IF last THEN /\ Len(s) = 2
                       /\ \/ s[1] = NotInterested /\ s[2] = Have({c})
                          \/ s[1] = Have({c}) /\ s[2] = NotInterested
                  ELSE Len(s) = 1 /\ s[1] = Have({c})
      BY <2>2, StoredSends
    <3>2. s # <<>>
      BY <2>2, StoredSends
    <3> HIDE DEF last
    <3>3. CASE last
      <4>1. Len(s) = 2
        BY <3>1, <3>3
      <4>2. \A i : i \in 1 .. Len(s) <=> i = 1 \/ i = 2
        BY <4>1
      <4>3. CASE s[1] = NotInterested /\ s[2] = Have({c})
        <5> WITNESS 1 \in {1, 2}
        <5> QED BY <3>2, <3>3, <4>2, <4>3
      <4>4. CASE s[1] = Have({c}) /\ s[2] = NotInterested
        <5> WITNESS 2 \in {1, 2}
        <5> QED BY <3>2, <3>3, <4>2, <4>4
      <4> QED BY <3>1, <3>3, <4>3, <4>4
    <3>4. CASE ~last
      <4>1. Len(s) = 1
        BY <3>1, <3>4
      <4>2. \A i \in 1 .. Len(s) : i = 1
        BY <4>1
      <4> QED BY <3>1, <3>4, <4>2
    <3> QED BY <3>3, <3>4
  <2> QED BY <2>1, <2>2
<1>6. /\ Have({c}).type = "HAVE" /\ Have({c}).chunks = {c}
      /\ NotInterested.type = "NOT_INTERESTED"
  BY Messages
<1>7. last => link[n] = "ready"
  BY <1>1 DEF Quiet
<1>8. StateTypes'
  BY <1>1 DEF Stored, lifeVars, uploadVars, StateTypes
<1>9. Step(n, r, s)
  <2>1. r = 1 => Attached(n)
    BY DEF Attached
  <2> QED BY <1>2, <1>3, <1>4, <2>1 DEF lifeVars, uploadVars, Step, Sends, Attached
<1>10. SetsFlags(n, r)
  BY DEF uploadVars, SetsFlags, ChokeTypes, InterestTypes
<1>11. TellsFlags(n, s)
  <2>1. Told(s, Len(s), ChokeTypes, "CHOKE", am_choking'[n], am_choking[n])
    <3>1. \A i \in 1 .. Len(s) : s[i].type \notin ChokeTypes
      BY <1>5, <1>6 DEF ChokeTypes
    <3> QED BY <3>1, ToldNothing DEF uploadVars
  <2>2. Told(s, Len(s), InterestTypes, "INTERESTED", am_interested'[n], am_interested[n])
    <3>1. CASE last
      <4>1. p \in 1 .. Len(s) /\ s[p].type \in InterestTypes
        BY <1>5, <1>6, <3>1 DEF InterestTypes
      <4>2. s[p].type = "INTERESTED" <=> am_interested'[n]
        BY <1>2, <1>5, <1>6, <3>1
      <4>3. \A i \in 1 .. Len(s) : s[i].type \in InterestTypes => i = p
        BY <1>5, <1>6 DEF InterestTypes
      <4> QED BY <1>4, <4>1, <4>2, <4>3, ToldAt
    <3>2. CASE ~last
      <4>1. \A i \in 1 .. Len(s) : s[i].type \notin InterestTypes
        BY <1>5, <1>6, <3>2 DEF InterestTypes
      <4>2. am_interested[n] <=> am_interested'[n]
        BY <1>2, <3>2
      <4> QED BY <4>1, <4>2, ToldNothing
    <3> QED BY <3>1, <3>2
  <2> QED BY <2>1, <2>2 DEF TellsFlags
<1>12. KeepsPromises(n, s) /\ Singles(s) /\ ~HasType(s, "HANDSHAKE") /\ (~last => OnlyHave(s))
  BY <1>2, <1>5, <1>6 DEF KeepsPromises, Singles, HasType, OnlyHave
<1>13. KeepsRequests(n, r, s)
  BY <1>2, Messages DEF KeepsRequests
<1>14. Quiet(n)' /\ Local(n)'
  BY <1>1, <1>2, <1>3, Ends DEF lifeVars, uploadVars, Quiet, Local
<1>15. KeepsOrder(n, r, s)
  BY <1>7, <1>12 DEF lifeVars, KeepsOrder, Spoke
<1> HIDE DEF last
<1> QED BY <1>8, <1>9, <1>10, <1>11, <1>12, <1>13, <1>14, <1>15, PlainStep

LEMMA ObtainInv ==
    ASSUME IInv, NEW n \in End, NEW c \in Chunk, ObtainElsewhere(n, c)
    PROVE  IInv'
<1>1. Stored(n, c) /\ UNCHANGED <<lifeVars, uploadVars, peer_choking, lost, timeouts>>
  BY DEF ObtainElsewhere
<1>2. CASE Attached(n)
  <2>1. PICK s \in {StoredMessages(n, c), IndexedMessages(n, c)} : Send(n, s)
    BY <1>2 DEF ObtainElsewhere
  <2>2. Tells(n, c, s) /\ s \in Seq(Msg)
    BY <2>1, StoredSends DEF Tells
  <2>3. /\ channel'[n] = IF 0 = 1 THEN Tail(channel[n]) ELSE channel[n]
        /\ channel'[Peer(n)] = Sent(n, s)
        /\ channel' \in [End -> Seq(Msg)]
    BY <2>1, <2>2, Posted
  <2> QED BY <1>1, <1>2, <2>2, <2>3, StoredInv
<1>3. CASE ~Attached(n)
  <2>1. /\ channel'[n] = channel[n]
        /\ channel'[Peer(n)] = Sent(n, <<>>)
        /\ channel' \in [End -> Seq(Msg)]
    BY <1>3, Posted, NoMessage DEF ObtainElsewhere
  <2>2. channel'[n] = IF 0 = 1 THEN Tail(channel[n]) ELSE channel[n]
    BY <2>1
  <2> QED BY <1>1, <1>3, <2>1, <2>2, StoredInv
<1> QED BY <1>2, <1>3

LEMMA BlockReplyInv ==
    ASSUME IInv, NEW n \in End, HandleBlockReply(n)
    PROVE  IInv'
<1>1. StateTypes /\ Quiet(n) /\ Local(n) /\ Singles(channel[n])
  BY TypeParts DEF IInv
<1>2. /\ channel[n] # <<>> /\ Head(channel[n]).type = "BLOCK_REPLY"
      /\ Attached(n) /\ link[n] = "ready"
  BY DEF HandleBlockReply, Reads
<1>3. ASSUME NEW c \in Chunks(n) \cap requests[n], Stored(n, c), Reply(n, StoredMessages(n, c))
      PROVE  IInv'
  <2>1. c \in Chunk
    BY <1>1, <1>3 DEF StateTypes
  <2>2. StoredMessages(n, c) \in Seq(Msg) /\ Tells(n, c, StoredMessages(n, c))
    BY <2>1, StoredSends DEF Tells
  <2>3. /\ channel'[n] = Tail(channel[n])
        /\ channel'[Peer(n)] = Sent(n, StoredMessages(n, c))
        /\ channel' \in [End -> Seq(Msg)]
    BY <1>2, <1>3, <2>2, Replied
  <2>4. channel'[n] = IF 1 = 1 THEN Tail(channel[n]) ELSE channel[n]
    BY <2>3
  <2>5. \A d \in Chunk : Head(channel[n]) = BlockReply(d) => d = c
    BY <1>3, Messages DEF Chunks
  <2>6. UNCHANGED <<lifeVars, uploadVars, peer_choking, lost, timeouts>>
    BY DEF HandleBlockReply
  <2> QED BY <1>2, <1>3, <2>1, <2>2, <2>3, <2>4, <2>5, <2>6, StoredInv
<1>4. ASSUME Chunks(n) \cap requests[n] = {}, Reply(n, <<>>),
             UNCHANGED <<have, owned, requests, am_interested>>
      PROVE  IInv'
  <2>1. UNCHANGED <<lifeVars, uploadVars, peer_choking, lost, timeouts>>
    BY DEF HandleBlockReply
  <2>2. StateTypes'
    BY <1>1, <1>4, <2>1 DEF lifeVars, uploadVars, StateTypes
  <2>3. Step(n, 1, <<>>)
    <3>1. /\ channel'[n] = Tail(channel[n])
          /\ channel'[Peer(n)] = Sent(n, <<>>)
          /\ channel' \in [End -> Seq(Msg)]
      BY <1>2, <1>4, Replied, NoMessage
    <3> QED BY <1>2, <1>4, <2>1, <3>1, NoMessage DEF lifeVars, uploadVars, Step, Sends
  <2>4. SetsFlags(n, 1)
    BY <1>2, <2>1 DEF uploadVars, SetsFlags, ChokeTypes, InterestTypes
  <2>5. TellsFlags(n, <<>>) /\ KeepsPromises(n, <<>>)
    BY <1>4, <2>1, SilentStep DEF uploadVars
  <2>6. KeepsRequests(n, 1, <<>>)
    BY <1>2, <1>4, Messages DEF KeepsRequests, Chunks
  <2>7. Quiet(n)' /\ Local(n)'
    BY <1>1, <1>4, <2>1 DEF lifeVars, uploadVars, Quiet, Local
  <2>8. KeepsOrder(n, 1, <<>>)
    BY <1>2, <2>1, NoMessage DEF lifeVars, KeepsOrder
  <2> QED BY <2>2, <2>3, <2>4, <2>5, <2>6, <2>7, <2>8, NoMessage, PlainStep
<1> QED BY <1>3, <1>4 DEF HandleBlockReply
-----------------------------------------------------------------------------
\* The client's handshake is the first message to the server, which is not
\* ready before.
LEMMA AttachInv ==
    ASSUME IInv, NEW n \in End, Attach(n)
    PROVE  IInv'
<1> DEFINE k == Peer(n)
           s == IF n = "CLIENT" THEN <<Handshake>> ELSE <<>>
<1>1. StateTypes /\ Quiet(n) /\ Local(n) /\ Order(n) /\ Order(k) /\ k \in End /\ Peer(k) = n /\ k # n
  BY TypeParts, Ends DEF IInv
<1>2. link[n] = "opening" /\ link'[n] = "attached" /\ link'[k] = link[k] /\ k # n
  BY <1>1, Ends DEF Attach, StateTypes
<1>3. s \in Seq(Msg) /\ Singles(s)
  BY NoMessage, OneMessage, Messages
<1>4. /\ channel'[n] = channel[n]
      /\ channel'[k] = Sent(n, s)
      /\ channel' \in [End -> Seq(Msg)]
  BY <1>3, Posted DEF Attach
<1>5. Step(n, 0, s)
  BY <1>2, <1>3, <1>4 DEF Attach, uploadVars, downloadVars, Step, Sends
<1>6. StateTypes'
  BY <1>1 DEF Attach, uploadVars, downloadVars, StateTypes
<1>7. SetsFlags(n, 0)
  BY DEF Attach, uploadVars, downloadVars, SetsFlags
<1>8. \A i \in 1 .. Len(s) : s[i].type = "HANDSHAKE"
  BY NoMessage, OneMessage, Messages
<1>9. TellsFlags(n, s)
  <2>1. am_choking'[n] = am_choking[n] /\ am_interested'[n] = am_interested[n]
    BY DEF Attach, uploadVars, downloadVars
  <2>2. \A i \in 1 .. Len(s) : s[i].type \notin ChokeTypes /\ s[i].type \notin InterestTypes
    BY <1>8 DEF ChokeTypes, InterestTypes
  <2> HIDE DEF s
  <2> QED BY <2>1, <2>2, ToldNothing DEF TellsFlags
<1>10. KeepsPromises(n, s) /\ KeepsRequests(n, 0, s)
  BY <1>8 DEF Attach, downloadVars, KeepsPromises, KeepsRequests
<1>11. Quiet(n)' /\ Local(n)'
  BY <1>1, <1>2 DEF Attach, uploadVars, downloadVars, Quiet, Local
<1>12. /\ Waiting(n) /\ Waiting(n)' /\ ~Spoke(n)
       /\ Spoke(n)' <=> n = "CLIENT"
       /\ Waiting(k)' <=> Waiting(k)
       /\ Spoke(k)' <=> Spoke(k)
  BY <1>2 DEF Waiting, Spoke
<1>13. Order(n)'
  BY <1>1, <1>2, <1>4, <1>12 DEF Order
<1>14. Order(k)'
  <2>1. link[k] # "ready"
    BY <1>1, <1>2, <1>12 DEF Order
  <2>2. OnlyHave(channel[k]) /\ channel[k] \in Seq(Msg)
    BY <1>1, <1>12, TypeParts DEF Order, IInv
  <2>3. CASE n = "CLIENT"
    <3>1. k = "SERVER" /\ channel[k] = <<>>
      BY <1>1, <1>2, <2>3 DEF Order, Peer
    <3>2. channel'[k] = IF link[k] = "gone" THEN <<>> ELSE <<>> \o <<Handshake>>
      BY <1>4, <2>3, <3>1 DEF Sent
    <3>3. <<>> \o <<Handshake>> = <<Handshake>>
      BY OneMessage, Messages, ConcatEmptySeq
    <3>4. InOrder(<<Handshake>>) /\ HasType(<<Handshake>>, "HANDSHAKE")
      BY <2>2, <3>1, <3>3, HandshakeOrder
    <3>5. <<Handshake>>[1].type = "HANDSHAKE"
      BY OneMessage, Messages
    <3>6. Waiting(k) => link[k] # "gone"
      BY DEF Waiting
    <3> QED BY <1>1, <1>2, <1>12, <2>1, <2>3, <3>1, <3>2, <3>3, <3>4, <3>5, <3>6 DEF Order
  <2>4. CASE n # "CLIENT"
    <3>1. channel'[k] = channel[k] /\ k # "SERVER"
      BY <1>1, <1>4, <2>2, <2>4, ConcatEmptySeq DEF Sent, End
    <3> QED BY <1>1, <1>2, <1>12, <2>1, <2>2, <2>4, <3>1 DEF Order
  <2> QED BY <2>3, <2>4
<1> HIDE DEF s
<1> QED BY <1>3, <1>5, <1>6, <1>7, <1>9, <1>10, <1>11, <1>13, <1>14, StepInv

\* There is no second handshake behind the one that is read, its sender has
\* spoken, and the server's answer follows only HAVE messages.
LEMMA HandshakeInv ==
    ASSUME IInv, NEW n \in End, HandleHandshake(n)
    PROVE  IInv'
<1> DEFINE k == Peer(n)
           q == channel[n]
           s == IF n = "SERVER" THEN <<Handshake>> ELSE <<>>
<1>1. StateTypes /\ Quiet(n) /\ Local(n) /\ Order(n) /\ Order(k) /\ k \in End /\ Peer(k) = n /\ k # n
  BY TypeParts, Ends DEF IInv
<1>2. /\ link[n] = "attached" /\ link'[n] = "ready" /\ link'[k] = link[k]
      /\ q # <<>> /\ Head(q).type = "HANDSHAKE" /\ Attached(n)
  BY <1>1 DEF HandleHandshake, Reads, StateTypes
<1>3. s \in Seq(Msg) /\ Singles(s)
  BY NoMessage, OneMessage, Messages
<1>4. /\ channel'[n] = Tail(q)
      /\ channel'[k] = Sent(n, s)
      /\ channel' \in [End -> Seq(Msg)]
  BY <1>2, <1>3, Replied DEF HandleHandshake
<1>5. Step(n, 1, s)
  BY <1>1, <1>2, <1>3, <1>4 DEF HandleHandshake, uploadVars, downloadVars, Step, Sends
<1>6. StateTypes'
  BY <1>1 DEF HandleHandshake, uploadVars, downloadVars, StateTypes
<1>7. SetsFlags(n, 1)
  BY <1>2 DEF HandleHandshake, uploadVars, downloadVars, SetsFlags, ChokeTypes, InterestTypes
<1>8. \A i \in 1 .. Len(s) : s[i].type = "HANDSHAKE"
  BY NoMessage, OneMessage, Messages
<1>9. TellsFlags(n, s)
  <2>1. am_choking'[n] = am_choking[n] /\ am_interested'[n] = am_interested[n]
    BY DEF HandleHandshake, uploadVars, downloadVars
  <2>2. \A i \in 1 .. Len(s) : s[i].type \notin ChokeTypes /\ s[i].type \notin InterestTypes
    BY <1>8 DEF ChokeTypes, InterestTypes
  <2> HIDE DEF s
  <2> QED BY <2>1, <2>2, ToldNothing DEF TellsFlags
<1>10. KeepsPromises(n, s) /\ KeepsRequests(n, 1, s)
  BY <1>2, <1>8, Messages DEF HandleHandshake, downloadVars, KeepsPromises, KeepsRequests
<1>11. Quiet(n)' /\ Local(n)'
  BY <1>1, <1>2 DEF HandleHandshake, uploadVars, downloadVars, Quiet, Local
<1>12. /\ Waiting(n) /\ ~Waiting(n)' /\ Spoke(n)'
       /\ Spoke(n) <=> n = "CLIENT"
       /\ Waiting(k)' <=> Waiting(k)
       /\ Spoke(k)' <=> Spoke(k)
       /\ link[k] # "gone" => Waiting(k) \/ link[k] = "ready"
  BY <1>1, <1>2 DEF Waiting, Spoke, StateTypes
<1>13. Order(n)'
  <2>1. q \in Seq(Msg) /\ q[1] = Head(q) /\ 1 \in 1 .. Len(q)
    BY <1>2, HeadFacts, TypeParts DEF IInv
  <2>2. ~HasType(channel'[n], "HANDSHAKE")
    BY <1>1, <1>2, <1>4, <1>12, <2>1, TailOrder DEF Order
  <2>3. ~OnlyHave(q)
    BY <1>2, <2>1 DEF OnlyHave
  <2>4. link[k] # "gone" => Spoke(k)
    BY <1>1, <1>12, <2>3 DEF Order, Spoke
  <2>5. n = "SERVER" => link[k] # "opening"
    BY <1>1, <1>2 DEF Order
  <2>6. ~(Waiting(k) /\ ~Spoke(k))
    BY <1>1, <2>3 DEF Order
  <2> QED BY <1>1, <1>2, <1>12, <2>2, <2>4, <2>5, <2>6 DEF Order
<1>14. Order(k)'
  <2>1. channel[k] \in Seq(Msg)
    BY <1>1, TypeParts DEF IInv
  <2>2. CASE n = "SERVER"
    <3>1. link[k] # "ready" /\ OnlyHave(channel[k]) /\ k # "SERVER"
      BY <1>1, <1>2, <1>12, <2>2 DEF Order
    <3>2. InOrder(channel[k] \o <<Handshake>>) /\ HasType(channel[k] \o <<Handshake>>, "HANDSHAKE")
      BY <2>1, <3>1, HandshakeOrder
    <3>3. channel'[k] = IF link[k] = "gone" THEN channel[k] ELSE channel[k] \o <<Handshake>>
      BY <1>4, <2>2 DEF Sent
    <3>4. Waiting(k) => link[k] # "gone"
      BY DEF Waiting
    <3> QED BY <1>1, <1>2, <1>12, <3>1, <3>2, <3>3, <3>4 DEF Order
  <2>3. CASE n # "SERVER"
    <3>1. channel'[k] = channel[k] /\ n = "CLIENT"
      BY <1>4, <2>1, <2>3, ConcatEmptySeq DEF Sent, End
    <3> QED BY <1>1, <1>2, <1>12, <3>1 DEF Order
  <2> QED BY <2>2, <2>3
<1> HIDE DEF s
<1> QED BY <1>3, <1>5, <1>6, <1>7, <1>9, <1>10, <1>11, <1>13, <1>14, StepInv

\* An end that goes takes its queue with it and leaves at most the withdrawal
\* of its interest.
LEMMA GoneInv ==
    ASSUME IInv, NEW n \in End, Gone(n)
    PROVE  IInv'
<1> DEFINE k == Peer(n)
<1>1. /\ StateTypes /\ Quiet(n) /\ Local(n) /\ Order(n) /\ Order(k) /\ Quiet(k) /\ Local(k)
      /\ k \in End /\ Peer(k) = n /\ k # n
      /\ channel \in [End -> Seq(Msg)]
      /\ Singles(channel[k])
  BY TypeParts, Ends DEF IInv
<1>2. PICK s \in {<<>>, Withdrawal(n, {})} :
        channel' = [channel EXCEPT ![n] = <<>>, ![Peer(n)] = Sent(n, s)]
  BY DEF Gone
<1>3. \/ s = <<>>
      \/ s = <<NotInterested>> /\ link[n] = "ready"
  BY <1>1, <1>2 DEF Withdrawal, InterestAfter, Quiet
<1>4. /\ s \in Seq(Msg) /\ Singles(s) /\ ~HasType(s, "HANDSHAKE")
      /\ s # <<>> => Attached(n)
      /\ Spoke(n) \/ OnlyHave(s)
      /\ KeepsPromises(n, s)
  <2>1. CASE s = <<>>
    BY <2>1, NoMessage DEF KeepsPromises
  <2>2. CASE s = <<NotInterested>> /\ link[n] = "ready"
    <3>1. /\ s \in Seq(Msg) /\ Singles(s) /\ ~HasType(s, "HANDSHAKE")
          /\ s[1] = NotInterested /\ \A i \in 1 .. Len(s) : i = 1
      BY <2>2, OneMessage, Messages
    <3> QED BY <2>2, <3>1, Messages DEF Attached, Spoke, KeepsPromises
  <2> QED BY <1>3, <2>1, <2>2
<1>5. Sent(n, s) \in Seq(Msg)
  <2>1. channel[k] \o s \in Seq(Msg)
    BY <1>1, <1>4, ConcatProperties
  <2> QED BY <1>1, <2>1 DEF Sent
<1>6. channel'[n] = <<>> /\ channel'[k] = Sent(n, s) /\ channel' \in [End -> Seq(Msg)]
  BY <1>1, <1>2, <1>5, NoMessage
<1>7. Sends(n, s)
  <2>1. s # <<>> => link[n] # "gone"
    BY <1>4 DEF Attached
  <2> QED BY <1>1, <1>4, <1>6, <2>1 DEF Gone, Sends, StateTypes
<1>8. TypeOK'
  <2>1. StateTypes'
    BY <1>1 DEF Gone, StateTypes
  <2>2. Singles(Sent(n, s))
    <3>1. \A q : Singles(q) <=> \A m : Holds(q, m) =>
            (m.type \in {"BLOCK_REQUEST", "BLOCK_REPLY"} => \E c \in Chunk : m.chunks = {c})
      BY DEF Singles, Holds
    <3>2. \A m : Holds(channel[k] \o s, m) <=> Holds(channel[k], m) \/ Holds(s, m)
      BY <1>1, <1>4, HoldsConcat
    <3>3. Singles(channel[k] \o s)
      BY <1>1, <1>4, <3>1, <3>2
    <3> QED BY <1>1, <3>3 DEF Sent
  <2>3. \A m \in End : Singles(channel'[m])
    BY <1>6, <2>2, NoMessage, Ends
  <2> QED BY <1>6, <2>1, <2>3 DEF TypeOK, StateTypes, Msg, Singles
<1>9. link'[n] = "gone" /\ link'[k] = link[k]
  BY <1>1 DEF Gone, StateTypes
<1>10. ~Up'
  BY <1>9 DEF Up
<1>11. Promises(k)'
  BY <1>4, <1>7, SenderPromises
<1>12. Promises(n)'
  BY <1>6, NoMessage DEF Promises
<1>13. Quiet(n)' /\ Local(n)'
  BY <1>1, <1>9 DEF Gone, Quiet, Local, StateTypes
<1>14. Quiet(k)' /\ Local(k)'
  BY <1>1, <1>7 DEF Quiet, Local, Sends
<1>15. /\ ~Waiting(n)' /\ ~Spoke(n)'
       /\ Waiting(k)' <=> Waiting(k)
       /\ Spoke(k)' <=> Spoke(k)
  BY <1>9 DEF Waiting, Spoke
<1>16. Order(n)'
  BY <1>6, <1>9, <1>15, NoMessage DEF Order
<1>17. Order(k)'
  <2> DEFINE c == channel'[k]
  <2>1. /\ link[k] = "gone" => c = <<>>
        /\ HasType(c, "HANDSHAKE") <=> HasType(channel[k], "HANDSHAKE")
        /\ Waiting(k) => InOrder(c)
        /\ k = "SERVER" /\ Waiting(k) /\ c # <<>> => c[1].type = "HANDSHAKE"
    BY <1>4, <1>6, OrderSent
  <2>2. link[k] = "ready" => ~HasType(c, "HANDSHAKE")
    BY <1>1, <2>1 DEF Order
  <2> HIDE DEF c
  <2> QED BY <1>1, <1>9, <1>15, <2>1, <2>2 DEF Order, c
<1>18. ASSUME NEW m \in End
       PROVE  Quiet(m)' /\ Local(m)' /\ Order(m)' /\ Flags(m)' /\ Promises(m)' /\ Pending(m)'
  <2>1. Flags(m)' /\ Pending(m)'
    BY <1>10 DEF Flags, Pending
  <2> HIDE DEF k
  <2>2. m = n \/ m = k
    BY Ends DEF k
  <2>3. CASE m = n
    BY <1>12, <1>13, <1>16, <2>1, <2>3
  <2>4. CASE m = k
    BY <1>11, <1>14, <1>17, <2>1, <2>4 DEF k
  <2> QED BY <2>2, <2>3, <2>4
<1> QED BY <1>8, <1>18 DEF IInv

\* The state in which a connection starts.
Fresh ==
    /\ StateTypes
    /\ link = [n \in End |-> "opening"]
    /\ channel = [n \in End |-> <<>>]
    /\ \A n \in End : /\ am_choking[n] /\ ~am_interested[n]
                      /\ peer_choking[n] /\ ~peer_interested[n]
                      /\ owned[n] = {} /\ n \notin announcing

LEMMA FreshInv == Fresh => IInv
<1> SUFFICES ASSUME Fresh PROVE IInv
  OBVIOUS
<1> USE DEF Fresh
<1>1. \A n \in End : link[n] = "opening" /\ channel[n] = <<>>
  OBVIOUS
<1>2. TypeOK
  BY <1>1, NoMessage, TypeParts
<1>3. ASSUME NEW n \in End
      PROVE  Quiet(n) /\ Local(n) /\ Order(n) /\ Flags(n) /\ Promises(n) /\ Pending(n)
  <2>1. /\ Peer(n) \in End
        /\ channel[n] = <<>> /\ channel[Peer(n)] = <<>>
        /\ link[n] = "opening" /\ link[Peer(n)] = "opening"
    BY <1>1, Ends
  <2>2. Quiet(n) /\ Local(n)
    BY DEF Quiet, Local
  <2>3. Order(n)
    BY <2>1, NoMessage DEF Order, Waiting, Spoke, InOrder
  <2>4. Flags(n)
    <3>1. /\ Told(channel[n], Len(channel[n]), ChokeTypes, "CHOKE",
                  am_choking[Peer(n)], peer_choking[n])
          /\ Told(channel[n], Len(channel[n]), InterestTypes, "INTERESTED",
                  am_interested[Peer(n)], peer_interested[n])
      BY <2>1, NoMessage, ToldNothing
    <3> QED BY <3>1 DEF Flags
  <2>5. Promises(n)
    BY <2>1, NoMessage DEF Promises
  <2>6. Pending(n)
    BY DEF StateTypes, Pending
  <2> QED BY <2>2, <2>3, <2>4, <2>5, <2>6
<1> QED BY <1>2, <1>3 DEF IInv

LEMMA InitInv == Init => IInv
<1> SUFFICES ASSUME Init PROVE IInv
  OBVIOUS
<1>1. StateTypes
  BY MaxTimeoutsAssumption DEF Init, StateTypes
<1> QED BY <1>1, FreshInv DEF Init, Fresh

LEMMA ReconnectInv ==
    ASSUME IInv, Reconnect
    PROVE  IInv'
<1>1. StateTypes /\ \A n \in End : Quiet(n)
  BY TypeParts DEF IInv
<1>2. StateTypes'
  BY <1>1 DEF Reconnect, uploadVars, downloadVars, StateTypes
<1>3. /\ link' = [n \in End |-> "opening"]
      /\ channel' = [n \in End |-> <<>>]
      /\ \A n \in End : /\ am_choking'[n] /\ ~am_interested'[n]
                        /\ peer_choking'[n] /\ ~peer_interested'[n]
                        /\ owned'[n] = {} /\ n \notin announcing'
  BY <1>1 DEF Reconnect, uploadVars, downloadVars, Quiet
<1>4. Fresh'
  BY <1>2, <1>3 DEF Fresh
<1> QED BY <1>4, FreshInv, PTL

\* A step that changes nothing.
LEMMA StutterInv ==
    ASSUME IInv, UNCHANGED vars
    PROVE  IInv'
<1>1. /\ link' = link /\ announcing' = announcing /\ am_choking' = am_choking
      /\ am_interested' = am_interested /\ peer_choking' = peer_choking
      /\ peer_interested' = peer_interested /\ channel' = channel /\ have' = have
      /\ lost' = lost /\ owned' = owned /\ requests' = requests /\ doomed' = doomed /\ timeouts' = timeouts
  BY DEF vars, lifeVars, uploadVars, downloadVars
<1>2. TypeOK'
  BY <1>1 DEF IInv, TypeOK
<1>3. ASSUME NEW n \in End PROVE Quiet(n)' /\ Local(n)' /\ Promises(n)'
  BY <1>1 DEF IInv, Quiet, Local, Promises
<1>4. ASSUME NEW n \in End PROVE Order(n)'
  BY <1>1 DEF IInv, Order, Waiting, Spoke
<1>5. ASSUME NEW n \in End PROVE Flags(n)' /\ Pending(n)'
  <2>1. Flags(n) /\ Pending(n)
    BY DEF IInv
  <2> QED BY <1>1, <2>1 DEF Flags, Pending, Up
<1> QED BY <1>2, <1>3, <1>4, <1>5 DEF IInv

LEMMA NextInv == IInv /\ [Next]_vars => IInv'
<1> SUFFICES ASSUME IInv, [Next]_vars PROVE IInv'
  OBVIOUS
<1>1. ASSUME NEW n \in End, Read(n) PROVE IInv'
  BY <1>1, HandshakeInv, RefuseInv, ChokeInv, UnchokeInv, InterestedInv, NotInterestedInv,
     HaveInv, BlockRequestInv, BlockReplyInv DEF Read
<1>2. ASSUME NEW n \in End,
             \E c \in Chunk : \/ ObtainElsewhere(n, c) \/ LoseChunk(n, c)
                              \/ RequestBlock(n, c) \/ TimeOutRequest(n, c)
      PROVE  IInv'
  BY <1>2, ObtainInv, LoseInv, RequestBlockInv, TimeOutInv
<1>3. ASSUME NEW n \in End, Destroy(n) \/ Disconnect(n) PROVE IInv'
  BY <1>3, GoneInv DEF Destroy, Disconnect
<1>4. ASSUME NEW n \in End, Attach(n) \/ Announce(n) PROVE IInv'
  BY <1>4, AttachInv, AnnounceInv
<1>5. CASE UNCHANGED vars
  BY <1>5, StutterInv
<1> QED BY <1>1, <1>2, <1>3, <1>4, <1>5, ReconnectInv DEF Next

LEMMA Invariance == Spec => []IInv
BY InitInv, NextInv, PTL DEF Spec
-----------------------------------------------------------------------------
\* Every variable keeps its type, a request or reply is for one block, and only
\* chunks that the peer is known to own are asked of it.
THEOREM LinkTypes == Spec => []TypeOK
<1>1. IInv => TypeOK
  BY DEF IInv
<1> QED BY <1>1, Invariance, PTL

\* handle_Choke, handle_Interested and their opposites keep the ends in
\* agreement but for what is on its way, whatever crosses it.
THEOREM EndsAgree == Spec => []FlagsAgree
<1>1. ASSUME IInv PROVE FlagsAgree
  <2> SUFFICES ASSUME Up, NEW n \in End
               PROVE  /\ LastTells(channel[n], ChokeTypes, "CHOKE",
                                   am_choking[Peer(n)], peer_choking[n])
                      /\ LastTells(channel[n], InterestTypes, "INTERESTED",
                                   am_interested[Peer(n)], peer_interested[n])
    BY DEF FlagsAgree, ChokeTypes, InterestTypes
  <2>1. /\ Told(channel[n], Len(channel[n]), ChokeTypes, "CHOKE",
                am_choking[Peer(n)], peer_choking[n])
        /\ Told(channel[n], Len(channel[n]), InterestTypes, "INTERESTED",
                am_interested[Peer(n)], peer_interested[n])
    BY <1>1 DEF IInv, Flags
  <2>2. /\ am_choking[Peer(n)] \in BOOLEAN /\ peer_choking[n] \in BOOLEAN
        /\ am_interested[Peer(n)] \in BOOLEAN /\ peer_interested[n] \in BOOLEAN
    BY <1>1, Ends DEF IInv, TypeOK
  <2>3. ASSUME NEW types, NEW t, NEW flag \in BOOLEAN, NEW known \in BOOLEAN,
               Told(channel[n], Len(channel[n]), types, t, flag, known)
        PROVE  LastTells(channel[n], types, t, flag, known)
    BY <2>3 DEF Told, LastTells
  <2> QED BY <2>1, <2>2, <2>3
<1> QED BY <1>1, Invariance, PTL

\* Uploader::handle_block_request drops a request in silence only if get_block
\* throws for a chunk that was lost: the peer is not choked and is known to be
\* interested, and every chunk that is asked for was there.
THEOREM RequestsServed == Spec => []RequestServed
<1>1. IInv => RequestServed
  BY Served DEF RequestServed
<1> QED BY <1>1, Invariance, PTL

\* While both ends are there, a request of the Downloader has its BLOCK_REQUEST
\* or its BLOCK_REPLY on the way, unless the peer lost the chunk.
THEOREM RequestsUnderWay == Spec => []NoRequestForgotten
<1>1. IInv => NoRequestForgotten
  BY DEF IInv, Pending, NoRequestForgotten
<1> QED BY <1>1, Invariance, PTL

\* handle_Handshake refuses nothing but the HAVE that a server sends before its
\* handshake, and handle_message never meets a second handshake.
THEOREM OnlyEarlyHaveRefused == Spec => []RefusedOnlyEarlyHave
<1>1. ASSUME IInv, NEW n \in End, Attached(n), channel[n] # <<>>,
             link[n] = "ready" <=> Reads(n, "HANDSHAKE")
      PROVE  n = "CLIENT" /\ Reads(n, "HAVE")
  BY <1>1, Refused DEF Reads
<1>2. IInv => RefusedOnlyEarlyHave
  BY <1>1 DEF RefusedOnlyEarlyHave
<1> QED BY <1>2, Invariance, PTL
-----------------------------------------------------------------------------
\* A HAVE with the chunk is in the queue, and it will not be refused: no handshake
\* comes after it.
Announced(queue, c) ==
    \E i \in 1 .. Len(queue) :
        /\ queue[i].type = "HAVE" /\ c \in queue[i].chunks
        /\ \A j \in 1 .. Len(queue) : j > i => queue[j].type # "HANDSHAKE"

\* What a peer that is ready has and the end is after is known to the end, about to be
\* announced, or announced.
Known(n) ==
    link[n] # "gone" /\ link[Peer(n)] = "ready" =>
        \A c \in have[Peer(n)] \ Had(n) :
            \/ c \in owned[n]
            \/ Peer(n) \in announcing
            \/ Announced(channel[n], c)

AllKnown == \A n \in End : Known(n)

\* An announcement stays one when other messages follow, and until it is read.
LEMMA AnnouncedConcat ==
    ASSUME NEW q \in Seq(Msg), NEW s \in Seq(Msg), NEW c
    PROVE  /\ Announced(q, c) /\ ~HasType(s, "HANDSHAKE") => Announced(q \o s, c)
           /\ Announced(s, c) => Announced(q \o s, c)
<1> DEFINE r == q \o s
<1>1. /\ Len(r) = Len(q) + Len(s)
      /\ Len(q) \in Nat /\ Len(s) \in Nat
      /\ \A i \in 1 .. Len(q) : r[i] = q[i]
      /\ \A i \in 1 .. Len(s) : r[Len(q) + i] = s[i]
  BY ConcatProperties, LenProperties
<1> HIDE DEF r
<1>2. \A j \in 1 .. Len(r) : j > Len(q) =>
        j - Len(q) \in 1 .. Len(s) /\ j = Len(q) + (j - Len(q)) /\ r[j] = s[j - Len(q)]
  <2> TAKE j \in 1 .. Len(r)
  <2> HAVE j > Len(q)
  <2>1. j - Len(q) \in 1 .. Len(s) /\ j = Len(q) + (j - Len(q))
    BY <1>1
  <2> QED BY <1>1, <2>1
<1>3. ASSUME Announced(q, c), ~HasType(s, "HANDSHAKE") PROVE Announced(r, c)
  <2>1. PICK i \in 1 .. Len(q) :
            /\ q[i].type = "HAVE" /\ c \in q[i].chunks
            /\ \A j \in 1 .. Len(q) : j > i => q[j].type # "HANDSHAKE"
    BY <1>3 DEF Announced
  <2>2. i \in 1 .. Len(r) /\ r[i] = q[i]
    BY <1>1
  <2>3. ASSUME NEW j \in 1 .. Len(r), j > i PROVE r[j].type # "HANDSHAKE"
    <3>1. CASE j \in 1 .. Len(q)
      BY <1>1, <2>1, <2>3, <3>1
    <3>2. CASE j > Len(q)
      BY <1>2, <1>3, <3>2 DEF HasType
    <3> QED BY <1>1, <3>1, <3>2
  <2> QED BY <2>1, <2>2, <2>3 DEF Announced
<1>4. ASSUME Announced(s, c) PROVE Announced(r, c)
  <2>1. PICK i \in 1 .. Len(s) :
            /\ s[i].type = "HAVE" /\ c \in s[i].chunks
            /\ \A j \in 1 .. Len(s) : j > i => s[j].type # "HANDSHAKE"
    BY <1>4 DEF Announced
  <2>2. Len(q) + i \in 1 .. Len(r) /\ r[Len(q) + i] = s[i]
    BY <1>1
  <2>3. ASSUME NEW j \in 1 .. Len(r), j > Len(q) + i PROVE r[j].type # "HANDSHAKE"
    <3>1. j > Len(q) /\ j - Len(q) > i
      BY <1>1, <2>3
    <3> QED BY <1>2, <2>1, <3>1
  <2> QED BY <2>1, <2>2, <2>3 DEF Announced
<1> QED BY <1>3, <1>4 DEF r

LEMMA AnnouncedTail ==
    ASSUME NEW q \in Seq(Msg), q # <<>>, NEW c, Announced(q, c)
    PROVE  \/ Announced(Tail(q), c)
           \/ /\ Head(q).type = "HAVE" /\ c \in Head(q).chunks
              /\ ~HasType(q, "HANDSHAKE")
<1> DEFINE r == Tail(q)
<1>1. /\ Len(q) \in Nat /\ Head(q) = q[1] /\ Len(r) = Len(q) - 1 /\ Len(q) > 0
      /\ \A i \in 1 .. (Len(q) - 1) : r[i] = q[i + 1]
  BY HeadTailProperties, LenProperties, EmptySeq
<1> HIDE DEF r
<1>2. PICK i \in 1 .. Len(q) :
            /\ q[i].type = "HAVE" /\ c \in q[i].chunks
            /\ \A j \in 1 .. Len(q) : j > i => q[j].type # "HANDSHAKE"
  BY DEF Announced
<1>3. CASE i = 1
  <2>1. \A j \in 1 .. Len(q) : q[j].type # "HANDSHAKE"
    BY <1>1, <1>2, <1>3
  <2> QED BY <1>1, <1>2, <1>3, <2>1 DEF HasType
<1>4. CASE i # 1
  <2>1. i - 1 \in 1 .. Len(r) /\ r[i - 1] = q[i]
    <3>1. i - 1 \in 1 .. (Len(q) - 1) /\ (i - 1) + 1 = i
      BY <1>1, <1>4
    <3> QED BY <1>1, <3>1
  <2>2. ASSUME NEW j \in 1 .. Len(r), j > i - 1 PROVE r[j].type # "HANDSHAKE"
    <3>1. j + 1 \in 1 .. Len(q) /\ j + 1 > i /\ r[j] = q[j + 1]
      BY <1>1, <2>2
    <3> QED BY <1>2, <3>1
  <2>3. Announced(r, c)
    BY <1>2, <2>1, <2>2 DEF Announced
  <2> QED BY <2>3 DEF r
<1> QED BY <1>3, <1>4

\* The end that reads knows or has what the message announced; an announcement
\* behind which there is no handshake is not read by an end that waits for one.
LEMMA ReaderKnows ==
    ASSUME IInv, NEW n \in End, Known(n),
           link'[n] # "gone" => link[n] # "gone",
           link'[Peer(n)] = link[Peer(n)],
           Peer(n) \in announcing => Peer(n) \in announcing',
           have'[Peer(n)] \subseteq have[Peer(n)],
           Had(n) \cup owned[n] \subseteq Had(n)' \cup owned'[n],
           \/ channel'[n] = channel[n]
           \/ /\ Attached(n) /\ channel[n] # <<>> /\ channel'[n] = Tail(channel[n])
              /\ link[n] = "ready" /\ Head(channel[n]).type = "HAVE" =>
                    Head(channel[n]).chunks \subseteq Had(n)' \cup owned'[n]
    PROVE  Known(n)'
<1> DEFINE k == Peer(n)
<1>1. k \in End /\ channel[n] \in Seq(Msg) /\ Order(n) /\ k = Peer(n)
  BY Ends, TypeParts DEF IInv
<1> HIDE DEF k
<1> SUFFICES ASSUME link'[n] # "gone", link'[k] = "ready",
                    NEW c \in have'[k] \ Had(n)', c \notin owned'[n], k \notin announcing'
             PROVE  Announced(channel'[n], c)
  BY <1>1 DEF Known
<1>2. link[n] # "gone" /\ link[k] = "ready" /\ c \in have[k] \ Had(n) /\ c \notin owned[n]
      /\ k \notin announcing
  BY <1>1
<1>3. Announced(channel[n], c)
  BY <1>1, <1>2 DEF Known
<1>4. CASE channel'[n] = channel[n]
  BY <1>3, <1>4
<1>5. CASE channel'[n] # channel[n]
  <2>1. ASSUME Head(channel[n]).type = "HAVE", c \in Head(channel[n]).chunks,
               ~HasType(channel[n], "HANDSHAKE")
        PROVE  FALSE
    <3>1. link[n] = "ready"
      BY <1>1, <1>2, <1>5, <2>1 DEF Order, Waiting, Spoke, Attached
    <3> QED BY <1>5, <2>1, <3>1
  <2> QED BY <1>1, <1>3, <1>5, <2>1, AnnouncedTail
<1> QED BY <1>4, <1>5

\* What the other end obtains it announces.
LEMMA SenderKnown ==
    ASSUME IInv, NEW n \in End, Known(n), NEW s \in Seq(Msg),
           link'[n] = link[n],
           link'[Peer(n)] = link[Peer(n)],
           Had(n)' = Had(n), owned'[n] = owned[n],
           Peer(n) \in announcing => Peer(n) \in announcing',
           channel'[n] = Sent(Peer(n), s),
           ~HasType(s, "HANDSHAKE"),
           \A c \in have'[Peer(n)] \ have[Peer(n)] : Announced(s, c)
    PROVE  Known(n)'
<1> DEFINE k == Peer(n)
<1>1. k \in End /\ channel[n] \in Seq(Msg) /\ k = Peer(n) /\ Peer(k) = n
  BY Ends, TypeParts DEF IInv
<1> HIDE DEF k
<1> SUFFICES ASSUME link'[n] # "gone", link'[k] = "ready",
                    NEW c \in have'[k] \ Had(n)', c \notin owned'[n], k \notin announcing'
             PROVE  Announced(channel'[n], c)
  BY <1>1 DEF Known
<1>2. channel'[n] = channel[n] \o s
  BY <1>1 DEF Sent
<1>3. CASE c \in have[k]
  <2>1. Announced(channel[n], c)
    BY <1>1, <1>3 DEF Known
  <2> QED BY <1>1, <1>2, <2>1, AnnouncedConcat
<1>4. CASE c \notin have[k]
  BY <1>1, <1>2, <1>4, AnnouncedConcat
<1> QED BY <1>3, <1>4

\* A handler of end n that stores no chunk, learns of none and sends s.
LEMMA OtherKnown ==
    ASSUME IInv, \A m \in End : Known(m), NEW n \in End, NEW s \in Seq(Msg),
           UNCHANGED <<link, announcing, storeVars, owned>>,
           ~HasType(s, "HANDSHAKE"),
           \/ Send(n, s)
           \/ s = <<>> /\ UNCHANGED channel
           \/ /\ Attached(n) /\ channel[n] # <<>> /\ Reply(n, s)
              /\ link[n] # "ready" \/ Head(channel[n]).type # "HAVE"
    PROVE  \A m \in End : Known(m)'
<1> DEFINE k == Peer(n)
<1>1. k \in End /\ Peer(k) = n /\ End = {n, k}
  BY Ends
<1>2. /\ \/ channel'[n] = channel[n]
         \/ /\ Attached(n) /\ channel[n] # <<>> /\ channel'[n] = Tail(channel[n])
            /\ link[n] # "ready" \/ Head(channel[n]).type # "HAVE"
      /\ channel'[k] = Sent(n, s)
  BY Posted, Replied
<1>3. link' = link /\ announcing' = announcing /\ have' = have /\ lost' = lost /\ owned' = owned
  OBVIOUS
<1>4. Known(n)'
  BY <1>2, <1>3, ReaderKnows
<1>5. Known(k)'
  <2>1. \A c \in have'[n] \ have[n] : Announced(s, c)
    BY <1>3
  <2> HIDE DEF k
  <2> QED BY <1>1, <1>2, <1>3, <2>1, SenderKnown
<1> QED BY <1>1, <1>4, <1>5

\* A chunk that is stored is known to be there, and announced if the end is
\* attached.
LEMMA StoredKnown ==
    ASSUME IInv, \A m \in End : Known(m), NEW n \in End, NEW c \in Chunk, Stored(n, c),
           NEW s, Tells(n, c, s), UNCHANGED <<link, announcing, lost>>,
           \/ Attached(n) /\ Send(n, s)
           \/ ~Attached(n) /\ UNCHANGED channel
           \/ /\ Attached(n) /\ channel[n] # <<>> /\ Head(channel[n]).type # "HAVE"
              /\ Reply(n, s)
    PROVE  \A m \in End : Known(m)'
<1> DEFINE k == Peer(n)
<1>1. k \in End /\ Peer(k) = n /\ End = {n, k} /\ k # n /\ StateTypes
  BY Ends, TypeParts DEF IInv
<1>2. /\ have'[n] = have[n] \cup {c} /\ owned'[n] = owned[n] \ {c}
      /\ have'[k] = have[k] /\ owned'[k] = owned[k]
      /\ link' = link /\ announcing' = announcing /\ lost' = lost
  BY <1>1 DEF Stored, StateTypes
<1>3. s \in Seq(Msg) /\ ~HasType(s, "HANDSHAKE") /\ Announced(s, c)
  <2>1. /\ s \in Seq(Msg)
        /\ IF am_interested[n] /\ owned[n] \ {c} = {}
           THEN /\ Len(s) = 2
                /\ \/ s[1] = NotInterested /\ s[2] = Have({c})
                   \/ s[1] = Have({c}) /\ s[2] = NotInterested
           ELSE Len(s) = 1 /\ s[1] = Have({c})
    BY StoredSends
  <2>2. /\ Have({c}).type = "HAVE" /\ Have({c}).chunks = {c}
        /\ NotInterested.type = "NOT_INTERESTED"
    BY Messages
  <2>3. CASE /\ Len(s) = 2
             /\ \/ s[1] = NotInterested /\ s[2] = Have({c})
                \/ s[1] = Have({c}) /\ s[2] = NotInterested
    <3>1. \A i : i \in 1 .. Len(s) <=> i = 1 \/ i = 2
      BY <2>3
    <3>2. \A i \in 1 .. Len(s) : s[i].type # "HANDSHAKE"
      BY <2>2, <2>3, <3>1
    <3>3. \E i \in 1 .. Len(s) : s[i] = Have({c})
      BY <2>3, <3>1
    <3> QED BY <2>1, <2>2, <3>2, <3>3 DEF HasType, Announced
  <2>4. CASE Len(s) = 1 /\ s[1] = Have({c})
    <3>1. \A i : i \in 1 .. Len(s) <=> i = 1
      BY <2>4
    <3>2. ~HasType(s, "HANDSHAKE")
      BY <2>2, <2>4, <3>1 DEF HasType
    <3>3. 1 \in 1 .. Len(s) /\ \A j \in 1 .. Len(s) : ~(j > 1)
      BY <2>4
    <3>4. Announced(s, c)
      BY <2>2, <2>4, <3>3 DEF Announced
    <3> QED BY <2>1, <3>2, <3>4
  <2> QED BY <2>1, <2>3, <2>4
<1> HIDE DEF k
<1>4. /\ \/ channel'[n] = channel[n]
         \/ /\ Attached(n) /\ channel[n] # <<>> /\ channel'[n] = Tail(channel[n])
            /\ Head(channel[n]).type # "HAVE"
      /\ channel'[k] = Sent(n, s) \/ ~Attached(n)
  BY <1>3, Posted, Replied DEF k
<1>5. Known(n)'
  BY <1>2, <1>4, ReaderKnows DEF k
<1>6. Known(k)'
  <2>1. CASE channel'[k] = Sent(n, s)
    <3>1. \A d \in have'[n] \ have[n] : Announced(s, d)
      BY <1>2, <1>3
    <3> QED BY <1>1, <1>2, <1>3, <2>1, <3>1, SenderKnown
  <2>2. CASE ~Attached(n)
    BY <1>1, <1>2, <2>2 DEF Known, Attached
  <2> QED BY <1>4, <2>1, <2>2
<1> QED BY <1>1, <1>5, <1>6

\* Every handler but those of HAVE and BLOCK_REPLY neither stores a chunk nor learns
\* of one.
LEMMA ReadKnown ==
    ASSUME IInv, \A m \in End : Known(m), NEW n \in End, Read(n)
    PROVE  \A m \in End : Known(m)'
<1> DEFINE k == Peer(n)
<1>1. k \in End /\ Peer(k) = n /\ End = {n, k} /\ k # n /\ StateTypes
  BY Ends, TypeParts DEF IInv
<1>2. Attached(n) /\ channel[n] # <<>>
  BY DEF Read, HandleHandshake, Refuse, HandleChoke, HandleUnchoke, HandleInterested,
         HandleNotInterested, HandleHave, HandleBlockRequest, HandleBlockReply, Reads
<1>3. /\ <<>> \in Seq(Msg) /\ ~HasType(<<>>, "HANDSHAKE")
      /\ \A m \in {Choke, Unchoke} :
            <<m>> \in Seq(Msg) /\ ~HasType(<<m>>, "HANDSHAKE")
  BY NoMessage, OneMessage, Messages
<1>4. CASE HandleHandshake(n)
  <2> DEFINE s == IF n = "SERVER" THEN <<Handshake>> ELSE <<>>
  <2>1. s \in Seq(Msg)
    BY NoMessage, OneMessage, Messages
  <2>2. /\ link[n] = "attached" /\ link'[n] = "ready" /\ link'[k] = link[k]
        /\ announcing' = announcing \cup {n}
        /\ have' = have /\ lost' = lost /\ owned' = owned
        /\ Reply(n, s)
    BY <1>1, <1>4 DEF HandleHandshake, downloadVars, StateTypes
  <2> HIDE DEF s
  <2>3. channel'[n] = Tail(channel[n])
    BY <1>2, <2>1, <2>2, Replied
  <2>4. Known(n)'
    BY <1>2, <2>2, <2>3, ReaderKnows
  <2>5. Known(k)'
    BY <1>1, <2>2 DEF Known
  <2> QED BY <1>1, <2>4, <2>5
<1>5. CASE Refuse(n)
  <2>1. /\ UNCHANGED <<link, announcing, storeVars, owned>> /\ Reply(n, <<>>)
        /\ link[n] # "ready" \/ Head(channel[n]).type # "HAVE"
    BY <1>5 DEF Refuse, downloadVars
  <2> QED BY <1>2, <1>3, <2>1, OtherKnown
<1>6. CASE HandleChoke(n) \/ HandleUnchoke(n)
  <2>1. /\ UNCHANGED <<link, announcing, storeVars, owned>> /\ Reply(n, <<>>)
        /\ Head(channel[n]).type # "HAVE"
    BY <1>6 DEF HandleChoke, HandleUnchoke, Reads, lifeVars
  <2> QED BY <1>2, <1>3, <2>1, OtherKnown
<1>7. CASE HandleInterested(n) \/ HandleNotInterested(n)
  <2>1. /\ UNCHANGED <<link, announcing, storeVars, owned>>
        /\ Reply(n, <<>>) \/ Reply(n, <<Choke>>) \/ Reply(n, <<Unchoke>>)
        /\ Head(channel[n]).type # "HAVE"
    BY <1>7 DEF HandleInterested, HandleNotInterested, Reads, lifeVars, downloadVars
  <2>2. PICK s \in {<<>>, <<Choke>>, <<Unchoke>>} : Reply(n, s)
    BY <2>1
  <2>3. s \in Seq(Msg) /\ ~HasType(s, "HANDSHAKE")
    BY <1>3, <2>2
  <2> QED BY <1>2, <2>1, <2>2, <2>3, OtherKnown
<1>8. CASE HandleHave(n)
  <2> DEFINE wanted == Chunks(n) \ Had(n)
             s == IF wanted # {} /\ ~am_interested[n] THEN <<Interested>> ELSE <<>>
  <2>1. s \in Seq(Msg) /\ ~HasType(s, "HANDSHAKE")
    BY NoMessage, OneMessage, Messages
  <2>2. /\ UNCHANGED <<link, announcing, storeVars>> /\ Reply(n, s)
        /\ owned'[n] = owned[n] \cup wanted /\ owned'[k] = owned[k]
    BY <1>1, <1>8 DEF HandleHave, lifeVars, StateTypes
  <2> HIDE DEF s
  <2>3. channel'[n] = Tail(channel[n]) /\ channel'[k] = Sent(n, s)
    BY <1>2, <2>1, <2>2, Replied
  <2>4. link' = link /\ announcing' = announcing /\ have' = have /\ lost' = lost
    BY <2>2
  <2>5. Head(channel[n]).chunks \subseteq Had(n)' \cup owned'[n]
    BY <2>2, <2>4 DEF Chunks
  <2>6. Known(n)'
    BY <1>2, <2>2, <2>3, <2>4, <2>5, ReaderKnows
  <2> HIDE DEF k
  <2>7. Known(k)'
    BY <1>1, <2>1, <2>2, <2>3, <2>4, SenderKnown
  <2> QED BY <1>1, <2>6, <2>7
<1>9. CASE HandleBlockRequest(n)
  <2>1. /\ UNCHANGED <<link, announcing, storeVars, owned>>
        /\ Head(channel[n]).type # "HAVE"
    BY <1>9 DEF HandleBlockRequest, Reads, lifeVars, downloadVars
  <2>2. PICK s \in {<<>>, <<Message("BLOCK_REPLY", Chunks(n))>>} : Reply(n, s)
    BY <1>9 DEF HandleBlockRequest
  <2>3. Message("BLOCK_REPLY", Chunks(n)) \in Msg
    <3>1. channel[n] \in Seq(Msg)
      BY TypeParts DEF IInv
    <3>2. Head(channel[n]) \in Msg
      BY <1>2, <3>1, HeadTailProperties
    <3> QED BY <3>2 DEF Msg, Chunks, Message, Types
  <2>4. s \in Seq(Msg) /\ ~HasType(s, "HANDSHAKE")
    <3> DEFINE m == Message("BLOCK_REPLY", Chunks(n))
    <3>1. m.type # "HANDSHAKE"
      BY DEF Message
    <3> HIDE DEF m
    <3>2. <<m>> \in Seq(Msg) /\ ~HasType(<<m>>, "HANDSHAKE")
      BY <2>3, <3>1, OneMessage DEF m
    <3> QED BY <1>3, <2>2, <3>2 DEF m
  <2> QED BY <1>2, <2>1, <2>2, <2>4, OtherKnown
<1>10. CASE HandleBlockReply(n)
  <2>1. /\ UNCHANGED <<link, announcing, lost>> /\ Head(channel[n]).type # "HAVE"
    BY <1>10 DEF HandleBlockReply, Reads, lifeVars
  <2>2. ASSUME NEW c \in Chunks(n) \cap requests[n], Stored(n, c), Reply(n, StoredMessages(n, c))
        PROVE  \A m \in End : Known(m)'
    <3>1. c \in Chunk
      BY <1>1, <2>2 DEF StateTypes
    <3>2. Tells(n, c, StoredMessages(n, c))
      BY DEF Tells
    <3> QED BY <1>2, <2>1, <2>2, <3>1, <3>2, StoredKnown
  <2>3. ASSUME Reply(n, <<>>), UNCHANGED <<have, owned>>
        PROVE  \A m \in End : Known(m)'
    BY <1>2, <1>3, <2>1, <2>3, OtherKnown
  <2> QED BY <1>10, <2>2, <2>3 DEF HandleBlockReply
<1> QED BY <1>4, <1>5, <1>6, <1>7, <1>8, <1>9, <1>10 DEF Read

\* Who becomes ready announces what it has, whole, and who goes is not ready.
LEMMA KnownNext == IInv /\ AllKnown /\ [Next]_vars => AllKnown'
<1> SUFFICES ASSUME IInv, \A m \in End : Known(m), [Next]_vars
             PROVE  \A m \in End : Known(m)'
  BY DEF AllKnown
<1>0. StateTypes
  BY TypeParts DEF IInv
<1>1. ASSUME NEW n \in End, Attach(n) PROVE \A m \in End : Known(m)'
  <2> DEFINE k == Peer(n)
             s == IF n = "CLIENT" THEN <<Handshake>> ELSE <<>>
  <2>1. k \in End /\ Peer(k) = n /\ End = {n, k} /\ k # n
    BY Ends
  <2>2. /\ link'[n] = "attached" /\ link[n] = "opening" /\ link'[k] = link[k]
        /\ announcing' = announcing /\ have' = have /\ lost' = lost /\ owned' = owned /\ Send(n, s)
    BY <1>0, <1>1, <2>1 DEF Attach, downloadVars, StateTypes
  <2>3. s \in Seq(Msg)
    BY NoMessage, OneMessage, Messages
  <2> HIDE DEF s
  <2>4. channel'[n] = channel[n]
    BY <2>2, <2>3, Posted
  <2>5. Known(n)'
    BY <2>2, <2>4, ReaderKnows
  <2>6. Known(k)'
    BY <2>1, <2>2 DEF Known
  <2> QED BY <2>1, <2>5, <2>6
<1>2. ASSUME NEW n \in End, Announce(n) PROVE \A m \in End : Known(m)'
  <2> DEFINE k == Peer(n)
  <2>0. PICK marked \in SUBSET lost[n] : Send(n, <<Have(have[n] \cup marked)>>)
    BY <1>2 DEF Announce
  <2> DEFINE told == have[n] \cup marked
             s == <<Have(told)>>
  <2>1. k \in End /\ Peer(k) = n /\ End = {n, k} /\ k # n /\ channel[k] \in Seq(Msg)
    BY Ends, TypeParts DEF IInv
  <2>2. /\ link' = link /\ announcing' = announcing \ {n}
        /\ have' = have /\ lost' = lost /\ owned' = owned /\ Send(n, s)
    BY <1>2, <2>0 DEF Announce, downloadVars
  <2>3. s \in Seq(Msg) /\ \A c \in have[n] : Announced(s, c)
    <3>1. told \in SUBSET Chunk /\ have[n] \subseteq told
      BY <1>0, <2>0 DEF StateTypes
    <3> HIDE DEF told
    <3>2. /\ s \in Seq(Msg) /\ Len(s) = 1 /\ s[1].type = "HAVE" /\ s[1].chunks = told
      BY <3>1, OneMessage, Messages
    <3> HIDE DEF s
    <3>3. 1 \in 1 .. Len(s) /\ \A j \in 1 .. Len(s) : ~(j > 1)
      BY <3>2
    <3> QED BY <3>1, <3>2, <3>3 DEF Announced
  <2> HIDE DEF s
  <2>4. channel'[n] = channel[n] /\ channel'[k] = Sent(n, s)
    BY <2>2, <2>3, Posted
  <2> HIDE DEF k
  <2>5. Known(n)'
    BY <2>1, <2>2, <2>4, ReaderKnows DEF k
  <2>6. Known(k)'
    <3> SUFFICES ASSUME link[k] # "gone", NEW c \in have[n] PROVE Announced(channel'[k], c)
      BY <2>1, <2>2 DEF Known
    <3>1. channel'[k] = channel[k] \o s
      BY <2>1, <2>4 DEF Sent, k
    <3> QED BY <2>1, <2>3, <3>1, AnnouncedConcat
  <2> QED BY <2>1, <2>5, <2>6
<1>3. ASSUME NEW n \in End, NEW c \in Chunk, ObtainElsewhere(n, c)
      PROVE  \A m \in End : Known(m)'
  <2>1. Stored(n, c) /\ UNCHANGED <<link, announcing, lost>>
    BY <1>3 DEF ObtainElsewhere, lifeVars
  <2>2. PICK s \in {StoredMessages(n, c), IndexedMessages(n, c)} :
            (Attached(n) /\ Send(n, s)) \/ (~Attached(n) /\ UNCHANGED channel)
    BY <1>3 DEF ObtainElsewhere
  <2>3. Tells(n, c, s)
    BY <2>2 DEF Tells
  <2> QED BY <2>1, <2>2, <2>3, StoredKnown
<1>4. ASSUME NEW n \in End, NEW c \in Chunk, RequestBlock(n, c)
      PROVE  \A m \in End : Known(m)'
  <2>1. UNCHANGED <<link, announcing, storeVars, owned>> /\ Send(n, <<BlockRequest(c)>>)
    BY <1>4 DEF RequestBlock, lifeVars
  <2>2. <<BlockRequest(c)>> \in Seq(Msg) /\ ~HasType(<<BlockRequest(c)>>, "HANDSHAKE")
    BY OneMessage, Messages
  <2> QED BY <2>1, <2>2, OtherKnown
<1>5. ASSUME NEW n \in End, NEW c \in Chunk, TimeOutRequest(n, c)
      PROVE  \A m \in End : Known(m)'
  <2>1. UNCHANGED <<link, announcing, storeVars, owned>> /\ UNCHANGED channel
    BY <1>5 DEF TimeOutRequest, lifeVars
  <2> QED BY <2>1, NoMessage, OtherKnown
<1>6. ASSUME NEW n \in End, Gone(n) PROVE \A m \in End : Known(m)'
  <2>1. link'[n] = "gone"
    BY <1>0, <1>6 DEF Gone, StateTypes
  <2>2. Peer(n) \in End /\ Peer(Peer(n)) = n /\ End = {n, Peer(n)}
    BY Ends
  <2> QED BY <2>1, <2>2 DEF Known
<1>7. CASE Reconnect
  <2>1. \A m \in End : link'[m] # "ready"
    BY <1>7 DEF Reconnect
  <2> QED BY <2>1, Ends DEF Known
<1>8. CASE UNCHANGED vars
  <2>1. /\ link' = link /\ announcing' = announcing /\ channel' = channel
        /\ have' = have /\ lost' = lost /\ owned' = owned
    BY <1>8 DEF vars, lifeVars, downloadVars
  <2> QED BY <2>1 DEF Known
<1>9. ASSUME NEW n \in End, NEW c \in Chunk, LoseChunk(n, c)
      PROVE  \A m \in End : Known(m)'
  <2>1. /\ link' = link /\ announcing' = announcing /\ channel' = channel /\ owned' = owned
        /\ \A m \in End : have'[m] \subseteq have[m] /\ Had(m)' = Had(m)
    BY <1>0, <1>9 DEF LoseChunk, lifeVars, downloadVars, StateTypes
  <2> QED BY <2>1, Ends DEF Known
<1> QED BY <1>1, <1>2, <1>3, <1>4, <1>5, <1>6, <1>7, <1>8, <1>9, ReadKnown
        DEF Next, Destroy, Disconnect

\* With nothing on its way, the flags are those of the peer, no request is open
\* but for lost chunks,
\* and both handshakes were read: the client speaks first, the server answers.
LEMMA RestFacts ==
    ASSUME IInv, \A n \in End : Attached(n) /\ channel[n] = <<>>
    PROVE  \A n \in End : /\ link[n] = "ready"
                          /\ requests[n] \subseteq lost[Peer(n)]
                          /\ owned[n] # {} => ~peer_choking[n]
<1>1. \A n \in End : ~HasType(channel[n], "HANDSHAKE")
  BY NoMessage
<1>2. \A n \in End : ~(Waiting(n) /\ Spoke(Peer(n)))
  BY <1>1 DEF IInv, Order
<1>3. \A n \in End : link[n] = "ready" \/ (Waiting(n) /\ link[n] = "attached")
  BY DEF Attached, Waiting
<1>4. "CLIENT" \in End /\ "SERVER" \in End /\ Peer("CLIENT") = "SERVER" /\ Peer("SERVER") = "CLIENT"
  BY DEF End, Peer
<1>5. link["SERVER"] = "ready"
  BY <1>2, <1>3, <1>4 DEF Spoke
<1>6. link["CLIENT"] = "ready"
  BY <1>2, <1>3, <1>4, <1>5 DEF Spoke
<1>7. Up
  BY DEF Up, Attached
<1> SUFFICES ASSUME NEW n \in End
             PROVE  /\ link[n] = "ready"
                    /\ requests[n] \subseteq lost[Peer(n)]
                    /\ owned[n] # {} => ~peer_choking[n]
  OBVIOUS
<1>8. Peer(n) \in End /\ channel[n] = <<>> /\ channel[Peer(n)] = <<>> /\ Peer(Peer(n)) = n
  BY Ends
<1>9. requests[n] \subseteq lost[Peer(n)]
  BY <1>7, <1>8, NoMessage DEF IInv, Pending
<1>10. /\ peer_choking[n] <=> am_choking[Peer(n)]
       /\ peer_interested[Peer(n)] <=> am_interested[n]
  BY <1>7, <1>8, NoMessage DEF IInv, Flags, Told
<1>11. owned[n] # {} => ~peer_choking[n]
  BY <1>8, <1>10 DEF IInv, Local
<1> QED BY <1>5, <1>6, <1>9, <1>11 DEF End

\* For any chunks, sources, losses and timeouts, a link is never at rest with a chunk that one
\* end has and the other could not ask for: the safety part of ChunksArrive.
THEOREM LinkNeverStuck == Spec => []NeverStuck
<1>1. Init => AllKnown
  BY Ends DEF Init, Known, AllKnown
<1>2. Spec => []AllKnown
  BY <1>1, KnownNext, Invariance, PTL DEF Spec
<1>3. IInv /\ AllKnown => NeverStuck
  <2> SUFFICES ASSUME IInv, \A n \in End : Known(n),
                      \A n \in End : Attached(n) /\ channel[n] = <<>>, announcing = {},
                      NEW n \in End
               PROVE  /\ link[n] = "ready"
                      /\ \A c \in have[Peer(n)] \ Had(n) :
                            /\ c \in owned[n] /\ ~peer_choking[n]
                            /\ c \in requests[n] => c \in lost[Peer(n)]
    BY DEF NeverStuck, AllKnown
  <2>1. Peer(n) \in End /\ link[n] = "ready" /\ link[Peer(n)] = "ready"
        /\ requests[n] \subseteq lost[Peer(n)]
    BY RestFacts, Ends
  <2>2. ASSUME NEW c \in have[Peer(n)] \ Had(n) PROVE c \in owned[n]
    <3>1. ~Announced(channel[n], c)
      BY NoMessage DEF Announced
    <3> QED BY <2>1, <2>2, <3>1 DEF Known
  <2>3. owned[n] # {} => ~peer_choking[n]
    BY RestFacts
  <2> QED BY <2>1, <2>2, <2>3
<1> QED BY <1>2, <1>3, Invariance, PTL
=============================================================================
