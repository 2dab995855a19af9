-------------------- MODULE ClientSessionTransportProofs --------------------
(***************************************************************************)
(* Theorems about ClientSessionTransport for every queue limit, replay     *)
(* window, number of generations, faults and page reloads.  The part after *)
(* them is about what numbered, queued and resent operations amount to as  *)
(* long as the page is not reloaded: the events of each direction go       *)
(* through a GenerationChannel, also on a transport that loses and repeats *)
(* frames.  The last part is about a transport without faults and reloads: *)
(* nothing is refused, and values converge.                                *)
(***************************************************************************)
EXTENDS ClientSessionTransport, Integers, SequenceTheorems, TLAPS

----------------------------------------------------------------------------
(* What the operations of an outbound queue keep, for every limit: a queue *)
(* that holds exactly the unacknowledged operations of its link still does *)
(* afterwards.                                                             *)

(* The numbers of a link are natural numbers.                              *)
LEMMA LinkNumbers ==
  ASSUME NEW l \in Link
  PROVE  /\ l.generation \in Nat /\ l.applied \in Nat
         /\ l.peer_acknowledged \in Nat
         /\ l.next_send \in Nat /\ l.next_send >= 1
         /\ LastSend(l) \in Nat /\ LastSend(l) = l.next_send - 1
BY DEF Link, LastSend

(* A queue that was just emptied, of a link that was just rebased.         *)
LEMMA EmptyHolds ==
  ASSUME NEW l \in Link, l.next_send = l.peer_acknowledged + 1
  PROVE  HoldsUnacknowledged({}, l)
<1>1. l.peer_acknowledged + 1 .. LastSend(l) = {}
  BY LinkNumbers
<1> QED BY <1>1 DEF HoldsUnacknowledged

(* push, whether it replaces an unsent value or numbers an operation.      *)
LEMMA PushHolds ==
  ASSUME NEW q \in SUBSET Entry, NEW l \in Link, NEW m \in Message,
         l.peer_acknowledged <= LastSend(l), HoldsUnacknowledged(q, l)
  PROVE  HoldsUnacknowledged(PushQueue(q, l, m), PushLink(q, l, m))
<1> DEFINE R == Replaced(q, m)
           New == NewEntry(l.next_send, m)
<1>1. CASE m = NoMessage
  BY <1>1 DEF PushQueue, PushLink
<1>2. CASE m # NoMessage /\ R # {}
  <2> DEFINE Q == (q \ R) \cup {[e EXCEPT !.msg = m] : e \in R}
  <2>1. PushQueue(q, l, m) = Q /\ PushLink(q, l, m) = l
    BY <1>2 DEF PushQueue, PushLink
  <2>2. R \subseteq q
    BY DEF Replaced
  <2>3. \A e \in R : [e EXCEPT !.msg = m].seq = e.seq
    BY <2>2 DEF Entry
  <2>4. {e.seq : e \in Q} = {e.seq : e \in q}
    <3>1. \A e \in Q : \E x \in q : e.seq = x.seq
      BY <2>2, <2>3
    <3>2. \A x \in q : \E e \in Q : e.seq = x.seq
      <4> SUFFICES ASSUME NEW x \in q PROVE \E e \in Q : e.seq = x.seq
        OBVIOUS
      <4>1. CASE x \in R
        <5>1. [x EXCEPT !.msg = m] \in Q
          BY <4>1
        <5> QED BY <2>3, <4>1, <5>1
      <4>2. CASE x \notin R
        BY <4>2
      <4> QED BY <4>1, <4>2
    <3> HIDE DEF Q
    <3> QED BY <3>1, <3>2
  <2>5. ASSUME NEW e \in Q, NEW x \in Q, e.seq = x.seq
        PROVE  e = x
    <3>1. \A a, b \in q : a.seq = b.seq => a = b
      BY DEF HoldsUnacknowledged
    <3>2. PICK a \in q : /\ a.seq = e.seq
                         /\ e = IF a \in R THEN [a EXCEPT !.msg = m] ELSE a
      BY <2>2, <2>3
    <3>3. PICK b \in q : /\ b.seq = x.seq
                         /\ x = IF b \in R THEN [b EXCEPT !.msg = m] ELSE b
      BY <2>2, <2>3
    <3>4. a = b
      BY <2>5, <3>1, <3>2, <3>3
    <3> QED BY <3>2, <3>3, <3>4
  <2> HIDE DEF Q
  <2> QED BY <2>1, <2>4, <2>5 DEF HoldsUnacknowledged
<1>3. CASE m # NoMessage /\ R = {}
  <2> DEFINE k == AllocateOperationSequence(l)
  <2>1. PushQueue(q, l, m) = q \cup {New} /\ PushLink(q, l, m) = k
    BY <1>3 DEF PushQueue, PushLink
  <2>2. /\ k.peer_acknowledged = l.peer_acknowledged
        /\ LastSend(k) = LastSend(l) + 1
    BY DEF AllocateOperationSequence, LastSend, Link
  <2>3. New.seq = LastSend(l) + 1
    BY LinkNumbers DEF NewEntry
  <2>4. {e.seq : e \in q \cup {New}} = {e.seq : e \in q} \cup {LastSend(l) + 1}
    BY <2>3
  <2>5. l.peer_acknowledged + 1 .. LastSend(l) + 1
          = (l.peer_acknowledged + 1 .. LastSend(l)) \cup {LastSend(l) + 1}
    BY LinkNumbers
  <2>6. \A e \in q : e.seq # New.seq
    <3> SUFFICES ASSUME NEW e \in q PROVE e.seq # New.seq
      OBVIOUS
    <3>1. e.seq \in l.peer_acknowledged + 1 .. LastSend(l)
      BY DEF HoldsUnacknowledged
    <3> QED BY <2>3, <3>1, LinkNumbers
  <2>7. \A e, x \in q \cup {New} : e.seq = x.seq => e = x
    BY <2>6 DEF HoldsUnacknowledged
  <2> HIDE DEF New, k
  <2> QED BY <2>1, <2>2, <2>4, <2>5, <2>7 DEF HoldsUnacknowledged
<1> QED BY <1>1, <1>2, <1>3

(* acknowledge_through the number the link has just recorded.              *)
LEMMA AcknowledgeHolds ==
  ASSUME NEW q \in SUBSET Entry, NEW l \in Link, NEW k \in Link,
         HoldsUnacknowledged(q, l),
         k.next_send = l.next_send, k.peer_acknowledged >= l.peer_acknowledged
  PROVE  HoldsUnacknowledged(AcknowledgeThrough(q, k.peer_acknowledged), k)
<1> DEFINE Q == AcknowledgeThrough(q, k.peer_acknowledged)
           Old == l.peer_acknowledged + 1 .. LastSend(l)
           Kept == k.peer_acknowledged + 1 .. LastSend(k)
<1>1. Q \subseteq q /\ \A e, x \in Q : e.seq = x.seq => e = x
  BY DEF AcknowledgeThrough, HoldsUnacknowledged
<1>2. Kept = {n \in Old : n > k.peer_acknowledged}
  <2>1. LastSend(k) = LastSend(l) /\ LastSend(l) \in Nat
        /\ k.peer_acknowledged \in Nat /\ l.peer_acknowledged \in Nat
    BY LinkNumbers
  <2>2. \A n \in Int : n \in Kept <=> n \in Old /\ n > k.peer_acknowledged
    BY <2>1
  <2>3. Kept \subseteq Int /\ Old \subseteq Int
    BY <2>1
  <2> HIDE DEF Kept, Old
  <2> QED BY <2>2, <2>3
<1>3. {e.seq : e \in Q} = {n \in Old : n > k.peer_acknowledged}
  BY DEF HoldsUnacknowledged, AcknowledgeThrough
<1> HIDE DEF Kept, Old
<1>4. {e.seq : e \in Q} = Kept
  BY <1>2, <1>3
<1> QED BY <1>1, <1>4 DEF HoldsUnacknowledged, Kept

(* mark_sent and resend_from change only what was sent when.               *)
LEMMA MarkHolds ==
  ASSUME NEW q \in SUBSET Entry, NEW l \in Link, NEW s \in Nat, NEW g \in Nat,
         HoldsUnacknowledged(q, l)
  PROVE  /\ HoldsUnacknowledged(MarkSent(q, s, g), l)
         /\ HoldsUnacknowledged(ResendFrom(q, s), l)
<1>1. \A e \in q : /\ [e EXCEPT !.sent = g].seq = e.seq
                   /\ [e EXCEPT !.sent = 0].seq = e.seq
  BY DEF Entry
<1>2. \A a, b \in q : a.seq = b.seq => a = b
  BY DEF HoldsUnacknowledged
<1>3. HoldsUnacknowledged(MarkSent(q, s, g), l)
  <2> DEFINE Mark(e) == IF e.seq = s THEN [e EXCEPT !.sent = g] ELSE e
             Q == {Mark(e) : e \in q}
  <2>1. MarkSent(q, s, g) = Q
    BY DEF MarkSent
  <2>2. \A e \in q : Mark(e).seq = e.seq
    BY <1>1
  <2> HIDE DEF Mark
  <2>3. {e.seq : e \in Q} = {e.seq : e \in q}
    BY <2>2
  <2>4. \A e, x \in Q : e.seq = x.seq => e = x
    BY <1>2, <2>2
  <2> HIDE DEF Q
  <2> QED BY <2>1, <2>3, <2>4 DEF HoldsUnacknowledged
<1>4. HoldsUnacknowledged(ResendFrom(q, s), l)
  <2> DEFINE Unmark(e) == IF e.seq >= s THEN [e EXCEPT !.sent = 0] ELSE e
             Q == {Unmark(e) : e \in q}
  <2>1. ResendFrom(q, s) = Q
    BY DEF ResendFrom
  <2>2. \A e \in q : Unmark(e).seq = e.seq
    BY <1>1
  <2> HIDE DEF Unmark
  <2>3. {e.seq : e \in Q} = {e.seq : e \in q}
    BY <2>2
  <2>4. \A e, x \in Q : e.seq = x.seq => e = x
    BY <1>2, <2>2
  <2> HIDE DEF Q
  <2> QED BY <2>1, <2>3, <2>4 DEF HoldsUnacknowledged
<1> QED BY <1>3, <1>4

----------------------------------------------------------------------------
(* Types of the operators on links, queues and frames.                     *)

(* NoMessage, NoFrame and NoLink are a message, a frame and a link.        *)
LEMMA ConstantTypes ==
  /\ NoMessage \in Message
  /\ NoFrame \in Frame
  /\ NoLink \in Link
  /\ \A g \in Nat : NewLink(g) \in Link
  /\ \A g, a \in Nat : ReadyFrame(g, a) \in Frame
BY DEF NoMessage, Message, NoFrame, Frame, NoLink, NewLink, Link, ReadyFrame,
       Fingerprint

(* The link operators return links (link.rs).                              *)
LEMMA LinkTypes ==
  ASSUME NEW l \in Link, NEW g \in Nat, NEW n \in Nat, NEW m \in Message
  PROVE  /\ RebaseSendAfterHandshake(l, n) \in Link
         /\ Rebind(l, g, n) \in Link
         /\ AllocateOperationSequence(l) \in Link
         /\ AcceptNext(l, n, m) \in Link
         /\ AcceptDuplicate(l) \in Link
         /\ RequestResync(l) \in Link
         /\ AcceptPeerAck(l, n) \in Link
         /\ AcknowledgeSentAck(l, n) \in Link
         /\ AcknowledgeSentResync(l, n) \in Link
<1>1. RebaseSendAfterHandshake(l, n) \in Link
  <2>1. n + 1 \in Nat \ {0}
    OBVIOUS
  <2> QED BY <2>1 DEF RebaseSendAfterHandshake, Link
<1>2. Rebind(l, g, n) \in Link
  BY <1>1 DEF Rebind, Link
<1>3. AllocateOperationSequence(l) \in Link
  BY DEF AllocateOperationSequence, Link
<1>4. AcceptNext(l, n, m) \in Link
  <2>1. [seq |-> n, msg |-> m] \in Fingerprint
    BY DEF Fingerprint
  <2>2. {x \in l.fingerprints : x.seq + ReplayWindow > n}
          \cup {[seq |-> n, msg |-> m]} \in SUBSET Fingerprint
    BY <2>1 DEF Link
  <2> QED BY <2>2 DEF AcceptNext, Link
<1>5. AcceptDuplicate(l) \in Link /\ RequestResync(l) \in Link
  <2>1. AcceptDuplicate(l) \in Link
    BY DEF AcceptDuplicate, Link
  <2>2. l.applied + 1 \in Nat
    BY DEF Link
  <2>3. RequestResync(l) \in Link
    BY <2>2 DEF RequestResync, Link
  <2> QED BY <2>1, <2>3
<1>6. AcceptPeerAck(l, n) \in Link
  BY DEF AcceptPeerAck, Link
<1>7. AcknowledgeSentAck(l, n) \in Link /\ AcknowledgeSentResync(l, n) \in Link
  BY DEF AcknowledgeSentAck, AcknowledgeSentResync, Link
<1> QED BY <1>1, <1>2, <1>3, <1>4, <1>5, <1>6, <1>7

(* What a link encodes is a frame.                                         *)
LEMMA FrameTypes ==
  ASSUME NEW l \in Link, NEW s \in Nat, NEW m \in Message
  PROVE  /\ EncodeData(l, s, m) \in Frame
         /\ EncodeAck(l) \in Frame
         /\ EncodeResync(l) \in Frame
BY ConstantTypes DEF EncodeData, EncodeAck, EncodeResync, Frame, Link

(* The queue operators return queues (client_session.rs).                  *)
LEMMA QueueTypes ==
  ASSUME NEW q \in SUBSET Entry, NEW l \in Link, NEW m \in Message,
         NEW n \in Nat, NEW g \in Nat
  PROVE  /\ PushQueue(q, l, m) \in SUBSET Entry
         /\ PushLink(q, l, m) \in Link
         /\ MarkSent(q, n, g) \in SUBSET Entry
         /\ AcknowledgeThrough(q, n) \in SUBSET Entry
         /\ ResendFrom(q, n) \in SUBSET Entry
<1>1. \A e \in Entry : /\ [e EXCEPT !.msg = m] \in Entry
                       /\ [e EXCEPT !.sent = g] \in Entry
                       /\ [e EXCEPT !.sent = 0] \in Entry
  BY DEF Entry
<1>2. NewEntry(l.next_send, m) \in Entry
  BY DEF NewEntry, Entry, Link
<1>3. Replaced(q, m) \subseteq q
  BY DEF Replaced
<1>4. PushQueue(q, l, m) \in SUBSET Entry
  BY <1>1, <1>2, <1>3 DEF PushQueue
<1>5. PushLink(q, l, m) \in Link
  BY LinkTypes DEF PushLink
<1>6. MarkSent(q, n, g) \in SUBSET Entry
  BY <1>1 DEF MarkSent
<1>7. AcknowledgeThrough(q, n) \in SUBSET Entry
  BY DEF AcknowledgeThrough
<1>8. ResendFrom(q, n) \in SUBSET Entry
  BY <1>1 DEF ResendFrom
<1> QED BY <1>4, <1>5, <1>6, <1>7, <1>8

(* The head and the tail of a wire.                                        *)
LEMMA WireTypes ==
  ASSUME TypeOK, NEW p \in Peer
  PROVE  /\ wire[p] # <<>> => Head(wire[p]) \in Frame /\ Tail(wire[p]) \in Seq(Frame)
         /\ \A f \in Frame : Append(wire[p], f) \in Seq(Frame)
         /\ Other(p) \in Peer
BY HeadTailProperties, AppendProperties DEF TypeOK, Other, Peer, Client, Session

----------------------------------------------------------------------------
(* Type correctness.                                                       *)

(* prepare_context_rebind on a rebound link keeps the types it touches.    *)
LEMMA RebindEndpointTypes ==
  ASSUME TypeOK, NEW p \in Peer, NEW l \in Link, RebindEndpoint(p, l)
  PROVE  /\ link' \in [Peer -> Link]
         /\ outbound' \in [Peer -> SUBSET Entry]
         /\ lease' \in [Peer -> Frame]
         /\ sent' \in [Peer -> [Kind -> Nat]]
         /\ pending' \in [Peer -> SUBSET Nat]
         /\ base' \in [Peer -> Nat]
<1>1. CurrentMessage(p) \in Message
  BY DEF CurrentMessage, Message, Kind, TypeOK
<1>2. /\ PushLink({}, l, CurrentMessage(p)) \in Link
      /\ PushQueue({}, l, CurrentMessage(p)) \in SUBSET Entry
  BY <1>1, QueueTypes
<1>3. link' \in [Peer -> Link] /\ outbound' \in [Peer -> SUBSET Entry]
  BY <1>2 DEF RebindEndpoint, TypeOK
<1>4. lease' \in [Peer -> Frame]
  BY ConstantTypes DEF RebindEndpoint, TypeOK
<1>5. sent' \in [Peer -> [Kind -> Nat]] /\ base' \in [Peer -> Nat]
  <2>1. "current" \in Kind /\ "event" \in Kind
    BY DEF Kind
  <2>2. base' \in [Peer -> Nat]
    BY <2>1 DEF RebindEndpoint, TypeOK
  <2>3. [sent EXCEPT ![p]["current"] = @ + 1] \in [Peer -> [Kind -> Nat]]
    BY <2>1 DEF TypeOK
  <2> QED BY <2>2, <2>3 DEF RebindEndpoint, TypeOK
<1>6. pending' \in [Peer -> SUBSET Nat]
  BY DEF RebindEndpoint, TypeOK
<1> QED BY <1>3, <1>4, <1>5, <1>6

(* What a turn of a program publishes is a message, and recording it keeps *)
(* the types of the endpoint's protocol state.                             *)
LEMMA PublicationTypes ==
  ASSUME TypeOK, NEW p \in Peer, NEW m \in Publications(p)
  PROVE  /\ m \in Message
         /\ RecordSent(p, m) \in [Peer -> [Kind -> Nat]]
         /\ Awaiting(m) \in SUBSET Nat
<1>1. m = NoMessage \/ \E k \in Sequenced : m = [kind |-> k, n |-> sent[p][k] + 1]
  BY DEF Publications, Publication
<1>2. CASE m = NoMessage
  BY <1>2, ConstantTypes DEF RecordSent, Awaiting, TypeOK, NoMessage
<1>3. ASSUME NEW k \in Sequenced, m = [kind |-> k, n |-> sent[p][k] + 1]
      PROVE  /\ m \in Message
             /\ RecordSent(p, m) \in [Peer -> [Kind -> Nat]]
             /\ Awaiting(m) \in SUBSET Nat
  <2>1. k \in Kind /\ sent \in [Peer -> [Kind -> Nat]]
    BY DEF Sequenced, Kind, TypeOK
  <2>2. sent[p][k] + 1 \in Nat
    BY <2>1
  <2>3. m \in Message /\ m.n \in Nat /\ m.kind = k
    BY <1>3, <2>1, <2>2 DEF Message
  <2>4. RecordSent(p, m) \in [Peer -> [Kind -> Nat]]
    BY <2>1, <2>3 DEF RecordSent
  <2> QED BY <2>3, <2>4 DEF Awaiting
<1> QED BY <1>1, <1>2, <1>3

(* Taking the expected frame and queuing the reply keeps the types.        *)
LEMMA ReplyTypes ==
  ASSUME TypeOK, NEW p \in Peer, NEW f \in Frame
  PROVE  /\ AcceptedLink(p, f) \in Link
         /\ AcceptedQueue(p, f) \in SUBSET Entry
         /\ RepliedLink(p, f) \in Link
         /\ RepliedQueue(p, f) \in SUBSET Entry
<1>1. f.seq \in Nat /\ f.ack \in Nat /\ f.msg \in Message /\ f.msg.n \in Nat
  BY DEF Frame, Message
<1>2. AcceptPeerAck(link[p], f.ack) \in Link
  BY <1>1, LinkTypes DEF TypeOK
<1>3. AcceptedLink(p, f) \in Link
  BY <1>1, <1>2, LinkTypes DEF AcceptedLink
<1>4. AcceptedQueue(p, f) \in SUBSET Entry
  BY DEF AcceptedQueue, AcknowledgeThrough, TypeOK
<1>5. Reply(f.msg) \in Message
  BY <1>1, ConstantTypes DEF Reply, Message, Kind
<1> QED BY <1>1, <1>3, <1>4, <1>5, QueueTypes DEF RepliedLink, RepliedQueue

(* Every step of the transport keeps the types.                            *)
LEMMA TypeStep == TypeOK /\ [Next]_vars => TypeOK'
<1> SUFFICES ASSUME TypeOK, [Next]_vars PROVE TypeOK'
  OBVIOUS
<1>1. ASSUME NEW p \in Peer, NEW k \in Sequenced, Publish(p, k)
      PROVE  TypeOK'
  <2>1. PICK m \in Publication(p, k) : Publish(p, k)!(m)
    BY <1>1 DEF Publish
  <2>2. m \in Publications(p)
    BY DEF Publications
  <2>3. /\ m \in Message
        /\ RecordSent(p, m) \in [Peer -> [Kind -> Nat]]
        /\ Awaiting(m) \in SUBSET Nat
    BY <2>2, PublicationTypes
  <2>4. /\ PushLink(outbound[p], link[p], m) \in Link
        /\ PushQueue(outbound[p], link[p], m) \in SUBSET Entry
    BY <2>3, QueueTypes, ConstantTypes DEF TypeOK
  <2>5. link' \in [Peer -> Link] /\ outbound' \in [Peer -> SUBSET Entry]
    BY <2>1, <2>4 DEF TypeOK
  <2>6. sent' \in [Peer -> [Kind -> Nat]] /\ pending' \in [Peer -> SUBSET Nat]
    BY <2>1, <2>3 DEF TypeOK
  <2> QED BY <2>1, <2>5, <2>6 DEF TypeOK
<1>2. ASSUME NEW p \in Peer, LeaseFrame(p)
      PROVE  TypeOK'
  <2>1. \A e \in NextToSend(outbound[p], link[p].generation) :
          e.seq \in Nat /\ e.msg \in Message
    BY DEF NextToSend, Entry, TypeOK
  <2>2. link[p] \in Link
    BY DEF TypeOK
  <2>3. PICK f \in Frame : lease' = [lease EXCEPT ![p] = f]
    <3>1. CASE lease' = [lease EXCEPT ![p] = EncodeResync(link[p])]
      BY <2>2, <3>1, FrameTypes, ConstantTypes
    <3>2. CASE lease' = [lease EXCEPT ![p] = EncodeAck(link[p])]
      BY <2>2, <3>2, FrameTypes, ConstantTypes
    <3>3. ASSUME NEW e \in NextToSend(outbound[p], link[p].generation),
                 lease' = [lease EXCEPT ![p] = EncodeData(link[p], e.seq, e.msg)]
          PROVE  \E f \in Frame : lease' = [lease EXCEPT ![p] = f]
      BY <2>1, <2>2, <3>3, FrameTypes
    <3> QED BY <1>2, <3>1, <3>2, <3>3 DEF LeaseFrame
  <2>4. lease' \in [Peer -> Frame]
    BY <2>3 DEF TypeOK
  <2> QED BY <1>2, <2>4 DEF LeaseFrame, TypeOK
<1>3. ASSUME NEW p \in Peer, TransmitLeased(p)
      PROVE  TypeOK'
  <2> DEFINE f == lease[p]
  <2>1. f.seq \in Nat /\ f.generation \in Nat /\ f.ack \in Nat /\ f \in Frame
    BY DEF TypeOK, Frame
  <2>2. wire' \in [Peer -> Seq(Frame)]
    BY <1>3, <2>1, WireTypes DEF TransmitLeased, Carry, TypeOK
  <2>3. /\ MarkSent(outbound[p], f.seq, f.generation) \in SUBSET Entry
        /\ AcknowledgeSentResync(link[p], f.seq) \in Link
        /\ AcknowledgeSentAck(link[p], f.ack) \in Link
    <3>1. MarkSent(outbound[p], f.seq, f.generation) \in SUBSET Entry
      BY <2>1, QueueTypes, ConstantTypes DEF TypeOK
    <3> QED BY <2>1, <3>1, LinkTypes, ConstantTypes DEF TypeOK
  <2>4. /\ link' \in [Peer -> Link]
        /\ outbound' \in [Peer -> SUBSET Entry]
        /\ lease' \in [Peer -> Frame]
    <3>1. CASE f.type = "data" /\ ~ IsQueued(outbound[p], f.seq)
      BY <1>3, <3>1 DEF TransmitLeased, AcknowledgeLease, TypeOK
    <3>2. CASE ~ (f.type = "data" /\ ~ IsQueued(outbound[p], f.seq))
      <4>1. lease' \in [Peer -> Frame]
        BY <1>3, <3>2, ConstantTypes DEF TransmitLeased, AcknowledgeLease, TypeOK
      <4>2. outbound' \in [Peer -> SUBSET Entry]
        BY <1>3, <2>3, <3>2 DEF TransmitLeased, AcknowledgeLease, TypeOK
      <4>3. PICK x \in Link : link' = [link EXCEPT ![p] = x]
        BY <1>3, <2>3, <3>2 DEF TransmitLeased, AcknowledgeLease
      <4> QED BY <4>1, <4>2, <4>3 DEF TypeOK
    <3> QED BY <3>1, <3>2
  <2> QED BY <1>3, <2>2, <2>4 DEF TransmitLeased, TypeOK
<1>4. ASSUME NEW p \in Peer, ReceiveNext(p)
      PROVE  TypeOK'
  <2> DEFINE f == Head(wire[p])
  <2>1. f \in Frame /\ Tail(wire[p]) \in Seq(Frame)
    BY <1>4, WireTypes DEF ReceiveNext, Arrives
  <2>2. f.msg \in Message /\ f.msg.n \in Nat
    BY <2>1 DEF Frame, Message
  <2>3. PICK m \in Publications(p) : ReceiveNext(p)!1!3!(m)
    BY <1>4 DEF ReceiveNext
  <2>4. /\ m \in Message
        /\ RecordSent(p, m) \in [Peer -> [Kind -> Nat]]
        /\ Awaiting(m) \in SUBSET Nat
    BY PublicationTypes
  <2>5. /\ PushLink(RepliedQueue(p, f), RepliedLink(p, f), m) \in Link
        /\ PushQueue(RepliedQueue(p, f), RepliedLink(p, f), m) \in SUBSET Entry
    BY <2>1, <2>4, ReplyTypes, QueueTypes, ConstantTypes
  <2>8. link' \in [Peer -> Link] /\ outbound' \in [Peer -> SUBSET Entry]
    BY <2>3, <2>5 DEF TypeOK
  <2>9. accepted' \in [Peer -> [Kind -> Nat]]
    <3>1. f.msg.kind \in Kind
      BY <1>4 DEF ReceiveNext, ExpectsNext, EndpointAccepts, AcceptsCurrent,
                  AcceptsEvent, AcceptsRequest, AcceptsResult, Kind
    <3>2. accepted[p] \in [Kind -> Nat] /\ accepted[p][f.msg.kind] \in Nat
      BY <3>1 DEF TypeOK
    <3>3. PICK x \in Nat : accepted' = [accepted EXCEPT ![p][f.msg.kind] = x]
      BY <1>4, <2>2, <3>2 DEF ReceiveNext, Greater
    <3> QED BY <3>1, <3>3 DEF TypeOK
  <2>10. sent' \in [Peer -> [Kind -> Nat]] /\ pending' \in [Peer -> SUBSET Nat]
    <3>1. sent' \in [Peer -> [Kind -> Nat]]
      BY <2>3, <2>4
    <3>2. pending[p] \in SUBSET Nat /\ pending \in [Peer -> SUBSET Nat]
      BY DEF TypeOK
    <3>3. pending' \in [Peer -> SUBSET Nat]
      BY <2>3, <2>4, <3>2
    <3> QED BY <3>1, <3>3
  <2>11. wire' \in [Peer -> Seq(Frame)]
    BY <1>4, <2>1 DEF ReceiveNext, TypeOK
  <2> QED BY <1>4, <2>8, <2>9, <2>10, <2>11 DEF ReceiveNext, TypeOK
<1>5. ASSUME NEW p \in Peer, ReceiveOutOfOrder(p)
      PROVE  TypeOK'
  <2> DEFINE f == Head(wire[p])
             l == AcceptPeerAck(link[p], f.ack)
  <2>1. f \in Frame /\ Tail(wire[p]) \in Seq(Frame)
    BY <1>5, WireTypes DEF ReceiveOutOfOrder, Arrives
  <2>2. l \in Link
    BY <2>1, LinkTypes DEF TypeOK, Frame
  <2>3. AcceptDuplicate(l) \in Link /\ RequestResync(l) \in Link
    <3> HIDE DEF l
    <3> QED BY <2>2, LinkTypes, ConstantTypes
  <2>4. AcknowledgeThrough(outbound[p], l.peer_acknowledged) \in SUBSET Entry
    BY DEF AcknowledgeThrough, TypeOK
  <2> QED BY <1>5, <2>1, <2>3, <2>4 DEF ReceiveOutOfOrder, TypeOK
<1>6. ASSUME NEW p \in Peer, ReceiveControl(p)
      PROVE  TypeOK'
  <2> DEFINE f == Head(wire[p])
             l == AcceptPeerAck(link[p], f.ack)
  <2>1. f \in Frame /\ Tail(wire[p]) \in Seq(Frame)
    BY <1>6, WireTypes DEF ReceiveControl, Arrives
  <2>2. l \in Link
    BY <2>1, LinkTypes DEF TypeOK, Frame
  <2>3. /\ AcknowledgeThrough(outbound[p], l.peer_acknowledged) \in SUBSET Entry
        /\ ResendFrom(outbound[p], f.seq) \in SUBSET Entry
    <3>1. f.seq \in Nat
      BY <2>1 DEF Frame
    <3>2. ResendFrom(outbound[p], f.seq) \in SUBSET Entry
      BY <3>1, ConstantTypes, QueueTypes DEF TypeOK
    <3> QED BY <3>2 DEF AcknowledgeThrough, TypeOK
  <2>4. PICK x \in Link, y \in SUBSET Entry :
          link' = [link EXCEPT ![p] = x] /\ outbound' = [outbound EXCEPT ![p] = y]
    <3>1. CASE f.type = "ack"
      BY <1>6, <2>2, <2>3, <3>1 DEF ReceiveControl
    <3>2. CASE f.type = "resync"
      <4>1. link[p] \in Link /\ link' = [link EXCEPT ![p] = link[p]]
        BY <1>6, <3>2 DEF ReceiveControl, TypeOK
      <4> QED BY <1>6, <2>3, <3>2, <4>1 DEF ReceiveControl
    <3> QED BY <1>6, <3>1, <3>2 DEF ReceiveControl
  <2> QED BY <1>6, <2>1, <2>4 DEF ReceiveControl, TypeOK
<1>7. ASSUME NEW p \in Peer, NEW outcome \in Phase, Terminate(p, outcome)
      PROVE  TypeOK'
  <2>1. NoOffer \in [generation : Nat, applied_server : Nat]
    BY DEF NoOffer
  <2> QED BY <1>7, <2>1, ConstantTypes DEF Terminate, TypeOK
<1>8. CASE \E p \in Peer : ReceiveRefused(p)
  BY <1>8, <1>7 DEF ReceiveRefused, Phase
<1>9. CASE ClientOverflow
  BY <1>9, <1>7 DEF ClientOverflow, Phase, Peer
<1>10. CASE ClientBind
  <2> DEFINE f == Head(wire[Client])
             l == IF link[Client].generation = 0
                  THEN RebaseSendAfterHandshake(NewLink(f.generation), f.ack)
                  ELSE Rebind(link[Client], f.generation, f.ack)
  <2>1. Client \in Peer
    BY DEF Peer
  <2>2. f \in Frame /\ Tail(wire[Client]) \in Seq(Frame)
    BY <1>10, <2>1, WireTypes DEF ClientBind
  <2>3. l \in Link
    <3>1. f.generation \in Nat /\ f.ack \in Nat /\ link[Client] \in Link
      BY <2>1, <2>2 DEF TypeOK, Frame
    <3>2. NewLink(f.generation) \in Link
      BY <3>1, ConstantTypes
    <3>3. RebaseSendAfterHandshake(NewLink(f.generation), f.ack) \in Link
      BY <3>1, <3>2, LinkTypes, ConstantTypes
    <3>4. Rebind(link[Client], f.generation, f.ack) \in Link
      BY <3>1, LinkTypes, ConstantTypes
    <3> QED BY <3>3, <3>4
  <2>4. RebindEndpoint(Client, l)
    BY <1>10 DEF ClientBind
  <2> HIDE DEF l
  <2> QED BY <1>10, <2>1, <2>2, <2>3, <2>4, RebindEndpointTypes
          DEF ClientBind, TypeOK, Phase
<1>11. CASE ClientDisconnect
  <2>1. phase' \in [Peer -> Phase] /\ wire' \in [Peer -> Seq(Frame)]
    <3>1. phase' \in [Peer -> Phase]
      BY <1>11 DEF ClientDisconnect, TypeOK, Phase
    <3>2. wire' \in [Peer -> Seq(Frame)]
      BY <1>11, EmptySeq DEF ClientDisconnect, TypeOK
    <3> QED BY <3>1, <3>2
  <2>2. lease' \in [Peer -> Frame] /\ outbound' \in [Peer -> SUBSET Entry]
    BY <1>11, ConstantTypes DEF ClientDisconnect, TypeOK
  <2> QED BY <1>11, <2>1, <2>2 DEF ClientDisconnect, TypeOK
<1>12. CASE SessionDisconnect
  <2>1. phase' \in [Peer -> Phase] /\ wire' \in [Peer -> Seq(Frame)]
    <3>1. phase' \in [Peer -> Phase]
      BY <1>12 DEF SessionDisconnect, TypeOK, Phase
    <3>2. wire' \in [Peer -> Seq(Frame)]
      BY <1>12, EmptySeq DEF SessionDisconnect, TypeOK
    <3> QED BY <3>1, <3>2
  <2>2. lease' \in [Peer -> Frame]
    BY <1>12, ConstantTypes DEF SessionDisconnect, TypeOK
  <2> QED BY <1>12, <2>1, <2>2 DEF SessionDisconnect, TypeOK
<1>13. CASE BeginResume
  <2>1. offer' \in [generation : Nat, applied_server : Nat]
    <3>1. link[Client].applied \in Nat /\ link[Session].generation + 1 \in Nat
      BY SMTT(60) DEF TypeOK, Link, Peer
    <3> QED BY <1>13, <3>1 DEF BeginResume
  <2> QED BY <1>13, <2>1 DEF BeginResume, TypeOK, Phase
<1>14. CASE CommitResume
  <2> DEFINE l == Rebind(link[Session], offer.generation, offer.applied_server)
  <2>1. Session \in Peer /\ link[Session] \in Link
    BY DEF Peer, TypeOK
  <2>2. l \in Link
    <3>1. offer.generation \in Nat /\ offer.applied_server \in Nat
      BY DEF TypeOK
    <3> QED BY <2>1, <3>1, LinkTypes, ConstantTypes
  <2>3. RebindEndpoint(Session, l)
    BY <1>14 DEF CommitResume
  <2>4. <<ReadyFrame(offer.generation, link[Session].applied)>> \in Seq(Frame)
    <3>1. offer.generation \in Nat /\ link[Session].applied \in Nat
      BY <2>1 DEF TypeOK, Link
    <3> QED BY <3>1, ConstantTypes
  <2>5. wire' \in [Peer -> Seq(Frame)]
    BY <1>14, <2>4 DEF CommitResume, TypeOK
  <2>6. offer' \in [generation : Nat, applied_server : Nat]
    BY <1>14 DEF CommitResume, NoOffer
  <2> HIDE DEF l
  <2> QED BY <1>14, <2>1, <2>2, <2>3, <2>5, <2>6, RebindEndpointTypes
          DEF CommitResume, TypeOK, Phase
<1>15. CASE DropOffer
  BY <1>15 DEF DropOffer, TypeOK, NoOffer
<1>16. CASE Reload
  <2>1. reloads' \in 0 .. MaxReloads
    BY <1>16, BoundAssumption DEF Reload, TypeOK
  <2>2. [k \in Kind |-> 0] \in [Kind -> Nat]
    OBVIOUS
  <2>3. phase' \in [Peer -> Phase] /\ wire' \in [Peer -> Seq(Frame)]
    <3>1. phase' \in [Peer -> Phase]
      BY <1>16 DEF Reload, TypeOK, Phase
    <3>2. wire' \in [Peer -> Seq(Frame)]
      BY <1>16, EmptySeq DEF Reload, TypeOK
    <3> QED BY <3>1, <3>2
  <2>4. /\ lease' \in [Peer -> Frame]
        /\ outbound' \in [Peer -> SUBSET Entry]
        /\ link' \in [Peer -> Link]
    BY <1>16, ConstantTypes DEF Reload, TypeOK
  <2>5. /\ sent' \in [Peer -> [Kind -> Nat]]
        /\ accepted' \in [Peer -> [Kind -> Nat]]
    BY <1>16, <2>2 DEF Reload, TypeOK
  <2>6. pending' \in [Peer -> SUBSET Nat] /\ base' \in [Peer -> Nat]
    BY <1>16 DEF Reload, TypeOK
  <2> QED BY <1>16, <2>1, <2>3, <2>4, <2>5, <2>6 DEF Reload, TypeOK
<1>17. ASSUME NEW p \in Peer, LoseFrame(p)
       PROVE  TypeOK'
  BY <1>17, WireTypes, BoundAssumption DEF LoseFrame, Arrives, TypeOK
<1>18. ASSUME NEW p \in Peer, RepeatFrame(p)
       PROVE  TypeOK'
  BY SMTT(60), <1>18, WireTypes, BoundAssumption DEF RepeatFrame, Arrives, TypeOK
<1>19. CASE UNCHANGED vars
  BY <1>19 DEF vars, TypeOK
<1> QED
  BY <1>1, <1>2, <1>3, <1>4, <1>5, <1>6, <1>8, <1>9, <1>10, <1>11, <1>12,
     <1>13, <1>14, <1>15, <1>16, <1>17, <1>18, <1>19 DEF Next, Receive

(* The Session instantiated and its Ready under way.                       *)
LEMMA TypeInit == Init => TypeOK
<1> SUFFICES ASSUME Init PROVE TypeOK
  OBVIOUS
<1> DEFINE m == [kind |-> "current", n |-> 1]
<1>1. m \in Message /\ NewLink(1) \in Link
  BY ConstantTypes DEF Message, Kind
<1>2. /\ PushLink({}, NewLink(1), m) \in Link
      /\ PushQueue({}, NewLink(1), m) \in SUBSET Entry
  BY <1>1, QueueTypes
<1>3. link \in [Peer -> Link] /\ outbound \in [Peer -> SUBSET Entry]
  BY <1>1, <1>2, ConstantTypes DEF Init
<1>4. wire \in [Peer -> Seq(Frame)]
  BY ConstantTypes DEF Init
<1>5. sent \in [Peer -> [Kind -> Nat]] /\ accepted \in [Peer -> [Kind -> Nat]]
  BY DEF Init
<1> QED BY <1>3, <1>4, <1>5, ConstantTypes, BoundAssumption
        DEF Init, TypeOK, Phase, NoOffer

(* The types hold in every state the two runtimes can reach, whatever the  *)
(* limits, the faults and the reloads.                                     *)
THEOREM TypeCorrect == Spec => []TypeOK
BY TypeInit, TypeStep, PTL DEF Spec

----------------------------------------------------------------------------
(* The handover of numbers from one generation to the next: the watermarks *)
(* of the two ends agree, that is, HandoverInvariant is inductive.         *)

(* Link k is l after more was numbered or applied in the same generation.  *)
Grows(l, k) ==
  /\ k.generation = l.generation
  /\ k.next_send >= l.next_send
  /\ k.applied >= l.applied

(* Link k is l as far as the handover of numbers is concerned.             *)
SameNumbers(l, k) ==
  /\ k.generation = l.generation
  /\ k.next_send = l.next_send
  /\ k.applied = l.applied
  /\ k.peer_acknowledged = l.peer_acknowledged

(* Link k is l after an operation was numbered, or not.                    *)
Numbers(l, k) ==
  /\ k.generation = l.generation
  /\ k.next_send >= l.next_send
  /\ k.applied = l.applied
  /\ k.peer_acknowledged = l.peer_acknowledged

(* What a reception by p does to the numbers (accept_session_frame and     *)
(* poll_client_frame): frame f may raise the two receive-side numbers.     *)
Takes(p) ==
  LET f == Head(wire[p])
      l == link[p]
      k == link'[p]
  IN
  /\ Arrives(p)
  /\ f.generation = l.generation
  /\ k.generation = l.generation
  /\ k.next_send >= l.next_send
  /\ \/ k.peer_acknowledged = l.peer_acknowledged
     \/ /\ k.peer_acknowledged = f.ack
        /\ f.type \in {"data", "ack"}
        /\ f.ack <= LastSend(l)
  /\ \/ k.applied = l.applied
     \/ k.applied = f.seq /\ f.seq = l.applied + 1 /\ f.type = "data"
  /\ link'[Other(p)] = link[Other(p)]
  /\ wire' = [wire EXCEPT ![p] = Tail(@)]
  /\ UNCHANGED <<lease, phase, offer>>

----------------------------------------------------------------------------

(* The other of the two peers.                                             *)
LEMMA OtherPeer ==
  /\ Client \in Peer /\ Session \in Peer /\ Client # Session
  /\ Other(Client) = Session /\ Other(Session) = Client
  /\ \A p \in Peer : /\ Other(p) \in Peer
                     /\ Other(p) # p
                     /\ Other(Other(p)) = p
                     /\ p = Client \/ p = Session
                     /\ \A r \in Peer : r = p \/ r = Other(p)
BY DEF Peer, Client, Session, Other

(* A frame that agrees with a link still does when the link has grown.     *)
LEMMA AgreesWithGrown ==
  ASSUME NEW f \in Frame, NEW l \in Link, NEW k \in Link, Grows(l, k),
         FrameAgrees(f, l)
  PROVE  FrameAgrees(f, k)
BY LinkNumbers DEF FrameAgrees, Grows, Frame

(* Pushing a message numbers at most one operation.                        *)
LEMMA PushNumbers ==
  ASSUME NEW l \in Link, NEW q, NEW m
  PROVE  Numbers(l, PushLink(q, l, m))
BY LinkNumbers DEF PushLink, AllocateOperationSequence, Numbers, Link

(* What is on a wire after its head is taken or a frame is appended.       *)
LEMMA WireContents ==
  ASSUME NEW s \in Seq(Frame), NEW f \in Frame
  PROVE  /\ s # <<>> => /\ Tail(s) \in Seq(Frame)
                        /\ 1 \in DOMAIN s /\ Head(s) = s[1] /\ Head(s) \in Frame
                        /\ \A i \in DOMAIN Tail(s) :
                             \E j \in DOMAIN s : Tail(s)[i] = s[j]
         /\ Append(s, f) \in Seq(Frame) /\ Append(s, f) # <<>>
         /\ \A i \in DOMAIN Append(s, f) :
              Append(s, f)[i] = f \/ \E j \in DOMAIN s : Append(s, f)[i] = s[j]
         /\ s # <<>> => Head(Append(s, f)) = Head(s)
         /\ s = <<>> => Head(Append(s, f)) = f
<1>1. ASSUME s # <<>>
      PROVE  /\ Tail(s) \in Seq(Frame)
             /\ 1 \in DOMAIN s /\ Head(s) = s[1] /\ Head(s) \in Frame
             /\ \A i \in DOMAIN Tail(s) : \E j \in DOMAIN s : Tail(s)[i] = s[j]
  <2>1. Len(s) \in Nat \ {0} /\ DOMAIN s = 1 .. Len(s)
    BY <1>1, EmptySeq, LenProperties
  <2>2. /\ Tail(s) \in Seq(Frame) /\ Head(s) \in Frame /\ Head(s) = s[1]
        /\ Len(Tail(s)) = Len(s) - 1
        /\ \A i \in 1 .. Len(Tail(s)) : Tail(s)[i] = s[i + 1]
    BY <1>1, HeadTailProperties
  <2>3. DOMAIN Tail(s) = 1 .. Len(Tail(s))
    BY <2>2, LenProperties
  <2>4. ASSUME NEW i \in DOMAIN Tail(s)
        PROVE  i + 1 \in DOMAIN s /\ Tail(s)[i] = s[i + 1]
    BY <2>1, <2>2, <2>3
  <2> QED BY <2>1, <2>2, <2>4
<1>2. /\ Append(s, f) \in Seq(Frame) /\ Append(s, f) # <<>>
      /\ Len(Append(s, f)) = Len(s) + 1
      /\ \A i \in 1 .. Len(s) : Append(s, f)[i] = s[i]
      /\ Append(s, f)[Len(s) + 1] = f
  BY AppendProperties
<1>3. Len(s) \in Nat /\ DOMAIN s = 1 .. Len(s)
      /\ DOMAIN Append(s, f) = 1 .. Len(s) + 1
  BY <1>2, LenProperties
<1>4. \A i \in DOMAIN Append(s, f) :
        Append(s, f)[i] = f \/ \E j \in DOMAIN s : Append(s, f)[i] = s[j]
  BY <1>2, <1>3
<1>5. Head(Append(s, f)) = Append(s, f)[1]
  BY <1>2, HeadTailProperties
<1>6. s # <<>> => Head(Append(s, f)) = Head(s)
  BY <1>1, <1>2, <1>3, <1>5
<1>7. s = <<>> => Head(Append(s, f)) = f
  BY <1>2, <1>3, <1>5, EmptySeq
<1> QED BY <1>1, <1>2, <1>4, <1>6, <1>7

----------------------------------------------------------------------------
(* The parts of the invariant that a step which rebinds nothing keeps.     *)

(* Frames agree with their sender's link when links only grew, wires took  *)
(* nothing but leased frames, and no new frame was leased.                 *)
LEMMA FramesAgreeStep ==
  ASSUME TypeOK, TypeOK', FramesAgree,
         \A p \in Peer : Grows(link[p], link'[p]),
         \A p \in Peer : \A i \in DOMAIN wire'[p] :
           \/ \E j \in DOMAIN wire[p] : wire'[p][i] = wire[p][j]
           \/ wire'[p][i] = lease[Other(p)],
         \A p \in Peer : lease'[p] = lease[p] \/ lease'[p] = NoFrame
  PROVE  FramesAgree'
<1> SUFFICES ASSUME NEW p \in Peer
             PROVE  /\ \A i \in DOMAIN wire'[p] :
                         FrameAgrees(wire'[p][i], link'[Other(p)])
                    /\ FrameAgrees(lease'[p], link'[p])
                    /\ lease'[p].type # "ready"
  BY DEF FramesAgree
<1> DEFINE o == Other(p)
<1>1. /\ o \in Peer /\ Other(o) = p
      /\ link[p] \in Link /\ link'[p] \in Link
      /\ link[o] \in Link /\ link'[o] \in Link
      /\ lease[p] \in Frame /\ lease[o] \in Frame
  BY OtherPeer DEF TypeOK
<1>2. ASSUME NEW i \in DOMAIN wire'[p]
      PROVE  FrameAgrees(wire'[p][i], link'[o])
  <2>1. wire'[p][i] \in Frame
    <3>1. wire'[p] \in Seq(Frame)
      BY DEF TypeOK
    <3> QED BY <3>1, LenProperties, ElementOfSeq
  <2>2. FrameAgrees(wire'[p][i], link[o])
    <3>1. CASE \E j \in DOMAIN wire[p] : wire'[p][i] = wire[p][j]
      BY <3>1 DEF FramesAgree
    <3>2. CASE wire'[p][i] = lease[o]
      BY <1>1, <3>2 DEF FramesAgree
    <3> QED BY <3>1, <3>2
  <2> QED BY <1>1, <2>1, <2>2, AgreesWithGrown
<1>3. FrameAgrees(lease'[p], link'[p]) /\ lease'[p].type # "ready"
  <2>1. CASE lease'[p] = lease[p]
    BY <1>1, <2>1, AgreesWithGrown DEF FramesAgree
  <2>2. CASE lease'[p] = NoFrame
    BY <2>2 DEF NoFrame, FrameAgrees
  <2> QED BY <2>1, <2>2
<1> QED BY <1>2, <1>3

(* A step in which no end connects, disconnects, receives or acknowledges, *)
(* and the socket carries, loses or repeats frames.                        *)
LEMMA QuietStep ==
  ASSUME TypeOK, TypeOK', HandoverInvariant, FramesAgree',
         \A p \in Peer : Numbers(link[p], link'[p]),
         UNCHANGED <<phase, offer>>,
         \A p \in Peer :
           \/ wire'[p] = wire[p]
           \/ /\ phase[p] \in {"connecting", "current"}
              /\ phase[Other(p)] = "current"
              /\ wire'[p] = Append(wire[p], lease[Other(p)])
           \/ phase[p] = "current" /\ wire[p] # <<>>
  PROVE  HandoverInvariant'
<1>1. /\ link[Client] \in Link /\ link'[Client] \in Link
      /\ link[Session] \in Link /\ link'[Session] \in Link
      /\ wire[Client] \in Seq(Frame) /\ lease[Session] \in Frame
  BY OtherPeer DEF TypeOK
<1>2. GenerationsAgree' /\ WatermarksAgree'
  <2>1. \A p \in Peer : /\ link'[p].generation = link[p].generation
                        /\ link'[p].applied = link[p].applied
                        /\ link'[p].peer_acknowledged = link[p].peer_acknowledged
                        /\ LastSend(link[p]) \in Nat /\ LastSend(link'[p]) \in Nat
                        /\ link[p].applied \in Nat
                        /\ link[p].peer_acknowledged \in Nat
                        /\ LastSend(link'[p]) >= LastSend(link[p])
    <3> SUFFICES ASSUME NEW p \in Peer
                 PROVE  /\ link'[p].generation = link[p].generation
                        /\ link'[p].applied = link[p].applied
                        /\ link'[p].peer_acknowledged = link[p].peer_acknowledged
                        /\ LastSend(link[p]) \in Nat /\ LastSend(link'[p]) \in Nat
                        /\ link[p].applied \in Nat
                        /\ link[p].peer_acknowledged \in Nat
                        /\ LastSend(link'[p]) >= LastSend(link[p])
      OBVIOUS
    <3>1. link[p] \in Link /\ link'[p] \in Link /\ Numbers(link[p], link'[p])
      BY DEF TypeOK
    <3> QED BY <3>1, LinkNumbers DEF Numbers
  <2>2. GenerationsAgree'
    BY <2>1, OtherPeer DEF GenerationsAgree, HandoverInvariant
  <2>3. WatermarksAgree'
    BY <2>1, OtherPeer DEF WatermarksAgree, SameGeneration, HandoverInvariant
  <2> QED BY <2>2, <2>3
<1>3. ClosedWiresAreEmpty'
  BY OtherPeer DEF ClosedWiresAreEmpty, HandoverInvariant
<1>4. OfferIsFresh'
  <2> SUFFICES ASSUME offer # NoOffer PROVE OfferIsFresh'
    BY DEF OfferIsFresh
  <2>1. wire'[Client] = wire[Client]
    BY OtherPeer DEF OfferIsFresh, HandoverInvariant
  <2> QED BY <1>1, <2>1, OtherPeer DEF OfferIsFresh, HandoverInvariant, Numbers
<1>5. ReadyIsFresh'
  <2> SUFFICES ASSUME phase[Client] = "connecting", wire'[Client] # <<>>,
                      Head(wire'[Client]).type = "ready"
               PROVE  ReadyIsFresh'
    BY DEF ReadyIsFresh
  <2>1. wire[Client] # <<>> /\ Head(wire'[Client]) = Head(wire[Client])
    <3>1. CASE wire'[Client] = wire[Client]
      BY <3>1
    <3>2. CASE wire'[Client] = Append(wire[Client], lease[Session])
      <4>1. lease[Session].type # "ready"
        BY OtherPeer DEF HandoverInvariant, FramesAgree
      <4> QED BY <1>1, <3>2, <4>1, WireContents
    <3> QED BY <3>1, <3>2, OtherPeer
  <2> QED BY <1>1, <2>1, OtherPeer DEF ReadyIsFresh, HandoverInvariant, Numbers
<1> QED BY <1>2, <1>3, <1>4, <1>5 DEF HandoverInvariant

(* A reception keeps the invariant.                                        *)
LEMMA TakesStep ==
  ASSUME TypeOK, TypeOK', HandoverInvariant, NEW p \in Peer, Takes(p)
  PROVE  HandoverInvariant'
<1> DEFINE o == Other(p)
           f == Head(wire[p])
<1>1. /\ o \in Peer /\ Other(o) = p /\ o # p
      /\ p = Client \/ p = Session
      /\ \A r \in Peer : r = p \/ r = o
      /\ link[p] \in Link /\ link'[p] \in Link
      /\ link[o] \in Link /\ link'[o] = link[o]
  BY OtherPeer DEF TypeOK, Takes
<1>2. /\ wire[p] # <<>> /\ wire[p] \in Seq(Frame) /\ f \in Frame
      /\ Tail(wire[p]) \in Seq(Frame)
      /\ f = wire[p][1] /\ 1 \in DOMAIN wire[p]
      /\ \A i \in DOMAIN Tail(wire[p]) :
           \E j \in DOMAIN wire[p] : Tail(wire[p])[i] = wire[p][j]
  BY WireContents DEF Takes, Arrives, TypeOK
<1>3. /\ wire'[p] = Tail(wire[p]) /\ wire'[o] = wire[o]
      /\ UNCHANGED <<lease, phase, offer>>
  BY <1>1 DEF Takes, TypeOK
<1>4. /\ f.seq \in Nat /\ f.ack \in Nat
      /\ link[p].applied \in Nat /\ link[o].applied \in Nat
      /\ link'[p].applied \in Nat
      /\ link[p].peer_acknowledged \in Nat /\ link[o].peer_acknowledged \in Nat
      /\ link'[p].peer_acknowledged \in Nat
      /\ LastSend(link[p]) \in Nat /\ LastSend(link[o]) \in Nat
      /\ LastSend(link'[p]) \in Nat /\ LastSend(link'[p]) >= LastSend(link[p])
      /\ link'[p].generation = link[p].generation
  <2>1. f.seq \in Nat /\ f.ack \in Nat
    BY <1>2 DEF Frame
  <2>2. link'[p].next_send >= link[p].next_send /\ link'[p].generation = link[p].generation
    BY DEF Takes
  <2> QED BY <1>1, <2>1, <2>2, LinkNumbers
<1>5. FramesAgree'
  <2>1. \A r \in Peer : Grows(link[r], link'[r])
    <3>1. Grows(link[p], link'[p])
      BY <1>4 DEF Takes, Grows
    <3>2. Grows(link[o], link'[o])
      BY <1>1, LinkNumbers DEF Grows
    <3> QED BY <1>1, <3>1, <3>2
  <2>2. \A r \in Peer : \A i \in DOMAIN wire'[r] :
           \/ \E j \in DOMAIN wire[r] : wire'[r][i] = wire[r][j]
           \/ wire'[r][i] = lease[Other(r)]
    <3>1. \A i \in DOMAIN wire'[p] : \E j \in DOMAIN wire[p] : wire'[p][i] = wire[p][j]
      BY <1>2, <1>3
    <3>2. \A i \in DOMAIN wire'[o] : \E j \in DOMAIN wire[o] : wire'[o][i] = wire[o][j]
      BY <1>3
    <3> HIDE DEF o
    <3> QED BY <1>1, <3>1, <3>2
  <2> QED BY <1>3, <2>1, <2>2, FramesAgreeStep DEF HandoverInvariant
<1>6. phase[p] = "current"
  BY DEF Takes, Arrives
<1>7. phase[Client] # "connecting" /\ offer = NoOffer
  BY <1>1, <1>2, <1>6, OtherPeer
     DEF HandoverInvariant, ClosedWiresAreEmpty, OfferIsFresh
<1>8. ClosedWiresAreEmpty' /\ OfferIsFresh' /\ ReadyIsFresh'
  <2>1. ClosedWiresAreEmpty'
    BY <1>1, <1>3, <1>6, <1>7, OtherPeer DEF HandoverInvariant, ClosedWiresAreEmpty
  <2> QED BY <1>3, <1>7, <2>1 DEF OfferIsFresh, ReadyIsFresh
<1>9. link'[p].peer_acknowledged <= LastSend(link'[p])
  BY <1>4 DEF Takes, HandoverInvariant, GenerationsAgree
<1>10. GenerationsAgree'
  <2>1. link'[Client].generation = 0 =>
          link'[Client].applied = 0 /\ phase'[Client] # "current"
    <3>1. CASE p = Client
      BY <1>4, <1>6, <3>1 DEF HandoverInvariant, GenerationsAgree
    <3>2. CASE p = Session
      BY <1>1, <1>3, <3>2, OtherPeer DEF HandoverInvariant, GenerationsAgree
    <3> QED BY <1>1, <3>1, <3>2
  <2> QED BY <1>1, <1>4, <1>9, <2>1, OtherPeer DEF HandoverInvariant, GenerationsAgree
<1>11. WatermarksAgree'
  <2> SUFFICES ASSUME SameGeneration' PROVE WatermarksAgree'
    BY DEF WatermarksAgree
  <2>1. SameGeneration /\ link[o].generation = link[p].generation
    BY <1>1, <1>4, OtherPeer DEF SameGeneration
  <2>2. f.generation = link[o].generation /\ link[o].generation # 0
    BY <2>1, <1>1, OtherPeer DEF Takes, HandoverInvariant, GenerationsAgree, SameGeneration
  <2>3. FrameAgrees(f, link[o])
    BY <1>2 DEF HandoverInvariant, FramesAgree
  <2>4. /\ f.type \in {"data", "ack"} => f.ack <= link[o].applied
        /\ f.type = "data" => f.seq <= LastSend(link[o])
    BY <2>2, <2>3 DEF FrameAgrees
  <2>5. /\ link[p].peer_acknowledged <= link[o].applied
        /\ link[o].applied <= LastSend(link[p])
        /\ link[o].peer_acknowledged <= link[p].applied
        /\ link[p].applied <= LastSend(link[o])
    BY <1>1, <2>1 DEF HandoverInvariant, WatermarksAgree
  <2>6. /\ link'[p].peer_acknowledged <= link[o].applied
        /\ link[o].applied <= LastSend(link'[p])
        /\ link[o].peer_acknowledged <= link'[p].applied
        /\ link'[p].applied <= LastSend(link[o])
    BY <1>4, <2>4, <2>5 DEF Takes
  <2> QED BY <1>1, <2>6, OtherPeer DEF WatermarksAgree
<1> QED BY <1>5, <1>8, <1>10, <1>11 DEF HandoverInvariant

----------------------------------------------------------------------------
(* The three receptions are such steps.                                    *)

(* Acknowledgements raise the acknowledged number to the frame's at most.  *)
LEMMA AckNumbers ==
  ASSUME NEW l \in Link, NEW a \in Nat
  PROVE  LET k == AcceptPeerAck(l, a) IN
         /\ k \in Link
         /\ k.generation = l.generation /\ k.next_send = l.next_send
         /\ k.applied = l.applied
         /\ k.peer_acknowledged = l.peer_acknowledged \/ k.peer_acknowledged = a
BY LinkTypes DEF AcceptPeerAck, Link

(* A reception takes one frame from p's wire and touches p's link only.    *)
LEMMA ReceptionsTake ==
  ASSUME TypeOK, NEW p \in Peer,
         ReceiveNext(p) \/ ReceiveOutOfOrder(p) \/ ReceiveControl(p)
  PROVE  Takes(p)
<1> DEFINE f == Head(wire[p])
           l == AcceptPeerAck(link[p], f.ack)
<1>1. /\ link[p] \in Link /\ Other(p) \in Peer /\ Other(p) # p
      /\ link \in [Peer -> Link]
  BY OtherPeer DEF TypeOK
<1>2. f \in Frame /\ Arrives(p)
  BY WireTypes DEF Arrives, ReceiveNext, ReceiveOutOfOrder, ReceiveControl
<1>3. f.ack \in Nat /\ f.seq \in Nat /\ f.msg \in Message
  BY <1>2 DEF Frame
<1>4. /\ l \in Link
      /\ l.generation = link[p].generation /\ l.next_send = link[p].next_send
      /\ l.applied = link[p].applied
      /\ l.peer_acknowledged = link[p].peer_acknowledged \/ l.peer_acknowledged = f.ack
  BY <1>1, <1>3, AckNumbers
<1>5. link[p].next_send \in Nat
  BY <1>1, LinkNumbers
<1> HIDE DEF l
<1>6. CASE ReceiveNext(p)
  <2>1. /\ f.type = "data" /\ f.generation = link[p].generation
        /\ f.ack <= LastSend(link[p]) /\ f.seq = link[p].applied + 1
    BY <1>6 DEF ReceiveNext, ExpectsNext, IdentityValid, PeerAckValid, IsNext
  <2>2. PICK m \in Publications(p) : ReceiveNext(p)!1!3!(m)
    BY <1>6 DEF ReceiveNext
  <2> DEFINE a == AcceptedLink(p, f)
             r == RepliedLink(p, f)
             k == PushLink(RepliedQueue(p, f), r, m)
  <2>3. /\ a \in Link /\ a.generation = l.generation /\ a.next_send = l.next_send
        /\ a.peer_acknowledged = l.peer_acknowledged /\ a.applied = f.seq
    <3>1. a \in Link
      BY <1>2, ReplyTypes
    <3>2. a = AcceptNext(l, f.seq, f.msg)
      BY DEF AcceptedLink, l
    <3>3. \A h \in Link :
            LET x == AcceptNext(h, f.seq, f.msg) IN
            /\ x.generation = h.generation /\ x.next_send = h.next_send
            /\ x.peer_acknowledged = h.peer_acknowledged /\ x.applied = f.seq
      BY DEF AcceptNext, Link
    <3> QED BY <1>4, <3>1, <3>2, <3>3
  <2>4. r \in Link /\ Numbers(a, r)
    BY <1>2, <2>3, ReplyTypes, PushNumbers DEF RepliedLink
  <2>5. Numbers(r, k)
    BY <2>4, PushNumbers
  <2>6. link' = [link EXCEPT ![p] = k]
    BY <2>2
  <2> HIDE DEF a, r, k
  <2>7. /\ k.generation = link[p].generation /\ k.next_send >= link[p].next_send
        /\ k.peer_acknowledged = l.peer_acknowledged /\ k.applied = f.seq
    <3>1. r.next_send \in Nat /\ a.next_send \in Nat
      BY <2>3, <2>4, LinkNumbers
    <3>2. k.next_send \in Nat \/ k.next_send >= r.next_send
      BY <2>5 DEF Numbers
    <3>3. k.next_send >= link[p].next_send
      <4>1. PushLink(RepliedQueue(p, f), r, m) \in Link
        <5>1. m \in Message /\ RepliedQueue(p, f) \in SUBSET Entry
          BY <1>2, PublicationTypes, ReplyTypes
        <5> QED BY <2>4, <5>1, QueueTypes, ConstantTypes
      <4>2. k.next_send \in Nat
        BY <4>1, LinkNumbers DEF k
      <4> QED BY <1>4, <1>5, <2>3, <2>4, <2>5, <3>1, <4>2 DEF Numbers
    <3> QED BY <1>4, <2>3, <2>4, <2>5, <3>3 DEF Numbers
  <2>8. link'[p] = k /\ link'[Other(p)] = link[Other(p)]
    BY <1>1, <2>6
  <2>9. wire' = [wire EXCEPT ![p] = Tail(@)] /\ UNCHANGED <<lease, phase, offer>>
    BY <1>6 DEF ReceiveNext
  <2> QED BY <1>2, <1>4, <2>1, <2>7, <2>8, <2>9 DEF Takes
<1>7. CASE ReceiveOutOfOrder(p)
  <2>1. /\ f.type = "data" /\ f.generation = link[p].generation
        /\ f.ack <= LastSend(link[p])
    BY <1>7 DEF ReceiveOutOfOrder, IdentityValid, PeerAckValid
  <2>2. wire' = [wire EXCEPT ![p] = Tail(@)] /\ UNCHANGED <<lease, phase, offer>>
    BY <1>7 DEF ReceiveOutOfOrder
  <2>3. \/ link' = [link EXCEPT ![p] = AcceptDuplicate(l)]
        \/ link' = [link EXCEPT ![p] = RequestResync(l)]
    BY <1>7 DEF ReceiveOutOfOrder, l
  <2>4. /\ SameNumbers(l, AcceptDuplicate(l))
        /\ SameNumbers(l, RequestResync(l))
    BY <1>4 DEF SameNumbers, AcceptDuplicate, RequestResync, Link
  <2>5. SameNumbers(l, link'[p]) /\ link'[Other(p)] = link[Other(p)]
    BY <1>1, <2>3, <2>4
  <2> QED BY <1>2, <1>4, <1>5, <2>1, <2>2, <2>5 DEF Takes, SameNumbers
<1>8. CASE ReceiveControl(p)
  <2>1. f.generation = link[p].generation
    BY <1>8 DEF ReceiveControl, IdentityValid
  <2>2. wire' = [wire EXCEPT ![p] = Tail(@)] /\ UNCHANGED <<lease, phase, offer>>
    BY <1>8 DEF ReceiveControl
  <2>3. CASE f.type = "ack"
    <3>1. link' = [link EXCEPT ![p] = l] /\ f.ack <= LastSend(link[p])
      BY <1>8, <2>3 DEF ReceiveControl, PeerAckValid, l
    <3>2. link'[p] = l /\ link'[Other(p)] = link[Other(p)]
      BY <1>1, <3>1
    <3> QED BY <1>2, <1>4, <1>5, <2>1, <2>2, <2>3, <3>1, <3>2 DEF Takes
  <2>4. CASE f.type = "resync"
    <3>1. UNCHANGED link
      BY <1>8, <2>4 DEF ReceiveControl
    <3> QED BY <1>2, <1>5, <2>1, <2>2, <3>1 DEF Takes
  <2> QED BY <1>8, <2>3, <2>4 DEF ReceiveControl
<1> QED BY <1>6, <1>7, <1>8

----------------------------------------------------------------------------
(* Steps of one end that the other end does not see.                       *)

(* A publication numbers an operation and sends nothing.                   *)
LEMMA PublishHandover ==
  ASSUME TypeOK, TypeOK', HandoverInvariant, NEW p \in Peer,
         NEW k \in Sequenced, Publish(p, k)
  PROVE  HandoverInvariant'
<1>1. PICK m \in Publication(p, k) : Publish(p, k)!(m)
  BY DEF Publish
<1>2. \A r \in Peer : link[r] \in Link /\ link'[r] \in Link
  BY DEF TypeOK
<1>3. ASSUME NEW r \in Peer
      PROVE  Numbers(link[r], link'[r])
  <2>1. CASE r = p
    <3>1. link'[r] = PushLink(outbound[p], link[p], m)
      BY <1>1, <2>1 DEF TypeOK
    <3> QED BY <1>2, <2>1, <3>1, PushNumbers
  <2>2. CASE r # p
    <3>1. link'[r] = link[r]
      BY <1>1, <2>2 DEF TypeOK
    <3> QED BY <1>2, <3>1, LinkNumbers DEF Numbers
  <2> QED BY <2>1, <2>2
<1>4. UNCHANGED <<lease, phase, wire, offer>>
  BY <1>1
<1>5. FramesAgree'
  <2>1. \A r \in Peer : Grows(link[r], link'[r])
    BY <1>2, <1>3, LinkNumbers DEF Grows, Numbers
  <2> QED BY <1>4, <2>1, FramesAgreeStep DEF HandoverInvariant
<1> QED BY <1>3, <1>4, <1>5, QuietStep

(* A newly leased frame agrees with the link that encoded it.              *)
LEMMA LeaseHandover ==
  ASSUME TypeOK, TypeOK', HandoverInvariant, NEW p \in Peer, LeaseFrame(p),
         \A e \in outbound[p] : e.seq <= LastSend(link[p])
  PROVE  HandoverInvariant'
<1>1. /\ UNCHANGED <<link, phase, wire, offer>>
      /\ \A r \in Peer : link[r] \in Link /\ lease[r] \in Frame
      /\ \A r \in Peer : r # p => lease'[r] = lease[r]
  BY DEF LeaseFrame, TypeOK
<1>2. FrameAgrees(lease'[p], link[p]) /\ lease'[p].type # "ready"
  <2> DEFINE l == link[p]
  <2>1. l.applied \in Nat /\ l.resync \in Nat
    BY <1>1 DEF Link
  <2>2. CASE lease' = [lease EXCEPT ![p] = EncodeResync(l)]
    <3>1. lease'[p] = EncodeResync(l)
      BY <2>2 DEF TypeOK
    <3> QED BY <3>1 DEF EncodeResync, FrameAgrees
  <2>3. CASE lease' = [lease EXCEPT ![p] = EncodeAck(l)]
    <3>1. lease'[p] = EncodeAck(l)
      BY <2>3 DEF TypeOK
    <3> QED BY <2>1, <3>1 DEF EncodeAck, FrameAgrees
  <2>4. ASSUME NEW e \in NextToSend(outbound[p], l.generation),
               lease' = [lease EXCEPT ![p] = EncodeData(l, e.seq, e.msg)]
        PROVE  FrameAgrees(lease'[p], link[p]) /\ lease'[p].type # "ready"
    <3>1. lease'[p] = EncodeData(l, e.seq, e.msg)
      BY <2>4 DEF TypeOK
    <3>2. e.seq <= LastSend(l)
      BY DEF NextToSend
    <3> QED BY <2>1, <3>1, <3>2 DEF EncodeData, FrameAgrees
  <2> QED BY <2>2, <2>3, <2>4 DEF LeaseFrame
<1>3. FramesAgree'
  BY <1>1, <1>2 DEF HandoverInvariant, FramesAgree
<1>4. \A r \in Peer : Numbers(link[r], link'[r])
  BY <1>1, LinkNumbers DEF Numbers
<1> QED BY <1>1, <1>3, <1>4, QuietStep

(* Acknowledging a lease moves no number.                                  *)
LEMMA TransmitHandover ==
  ASSUME TypeOK, TypeOK', HandoverInvariant, NEW p \in Peer, TransmitLeased(p)
  PROVE  HandoverInvariant'
<1> DEFINE o == Other(p)
           f == lease[p]
<1>1. /\ o \in Peer /\ o # p /\ Other(o) = p
      /\ \A r \in Peer : r = p \/ r = o
      /\ \A r \in Peer : link[r] \in Link /\ lease[r] \in Frame
                         /\ wire[r] \in Seq(Frame) /\ link'[r] \in Link
  BY OtherPeer DEF TypeOK
<1>2. phase[p] = "current" /\ UNCHANGED <<phase, offer>>
  BY DEF TransmitLeased
<1>3. \A r \in Peer : lease'[r] = lease[r] \/ lease'[r] = NoFrame
  BY DEF TransmitLeased, AcknowledgeLease, TypeOK
<1>4. \A r \in Peer : Numbers(link[r], link'[r])
  <2>1. \A l \in Link : \A n \in Nat :
          /\ Numbers(l, l)
          /\ Numbers(l, AcknowledgeSentAck(l, n))
          /\ Numbers(l, AcknowledgeSentResync(l, n))
    <3> SUFFICES ASSUME NEW l \in Link, NEW n \in Nat
                 PROVE  /\ Numbers(l, l)
                        /\ Numbers(l, AcknowledgeSentAck(l, n))
                        /\ Numbers(l, AcknowledgeSentResync(l, n))
      OBVIOUS
    <3>1. l.next_send \in Nat
      BY LinkNumbers
    <3> QED BY <3>1 DEF Numbers, AcknowledgeSentAck, AcknowledgeSentResync, Link
  <2>2. f.seq \in Nat /\ f.ack \in Nat
    BY <1>1 DEF Frame
  <2>3. \/ link' = link
        \/ link' = [link EXCEPT ![p] = AcknowledgeSentAck(@, f.ack)]
        \/ link' = [link EXCEPT ![p] = AcknowledgeSentResync(@, f.seq)]
    BY DEF TransmitLeased, AcknowledgeLease
  <2>4. link \in [Peer -> Link]
    BY DEF TypeOK
  <2>5. \/ link'[p] = link[p]
        \/ link'[p] = AcknowledgeSentAck(link[p], f.ack)
        \/ link'[p] = AcknowledgeSentResync(link[p], f.seq)
    BY <2>3, <2>4
  <2>6. link'[o] = link[o]
    BY <1>1, <2>3, <2>4
  <2> QED BY <1>1, <2>1, <2>2, <2>5, <2>6
<1>5. \/ wire' = wire
      \/ /\ phase[o] \in {"connecting", "current"}
         /\ wire' = [wire EXCEPT ![o] = Append(@, f)]
  BY DEF TransmitLeased, Carry
<1>6. /\ wire'[p] = wire[p]
      /\ \/ wire'[o] = wire[o]
         \/ /\ phase[o] \in {"connecting", "current"}
            /\ wire'[o] = Append(wire[o], lease[Other(o)])
  BY <1>1, <1>5 DEF TypeOK
<1>7. FramesAgree'
  <2>1. \A r \in Peer : Grows(link[r], link'[r])
    BY <1>1, <1>4, LinkNumbers DEF Grows, Numbers
  <2>2. \A i \in DOMAIN wire'[o] :
          \/ \E j \in DOMAIN wire[o] : wire'[o][i] = wire[o][j]
          \/ wire'[o][i] = lease[Other(o)]
    <3>1. wire[o] \in Seq(Frame) /\ lease[Other(o)] \in Frame
      BY <1>1
    <3>2. CASE wire'[o] = wire[o]
      BY <3>2
    <3>3. CASE wire'[o] = Append(wire[o], lease[Other(o)])
      <4> HIDE DEF o
      <4> QED BY <3>1, <3>3, WireContents
    <3> QED BY <1>6, <3>2, <3>3
  <2>3. \A r \in Peer : \A i \in DOMAIN wire'[r] :
          \/ \E j \in DOMAIN wire[r] : wire'[r][i] = wire[r][j]
          \/ wire'[r][i] = lease[Other(r)]
    <3>1. \A i \in DOMAIN wire'[p] : \E j \in DOMAIN wire[p] : wire'[p][i] = wire[p][j]
      BY <1>6
    <3> HIDE DEF o
    <3> QED BY <1>1, <2>2, <3>1
  <2> QED BY <1>3, <2>1, <2>3, FramesAgreeStep DEF HandoverInvariant
<1>8. \A r \in Peer :
        \/ wire'[r] = wire[r]
        \/ /\ phase[r] \in {"connecting", "current"}
           /\ phase[Other(r)] = "current"
           /\ wire'[r] = Append(wire[r], lease[Other(r)])
        \/ phase[r] = "current" /\ wire[r] # <<>>
  BY <1>1, <1>2, <1>6
<1> QED BY <1>2, <1>4, <1>7, <1>8, QuietStep

(* A frame lost or repeated.                                               *)
LEMMA FaultHandover ==
  ASSUME TypeOK, TypeOK', HandoverInvariant, NEW p \in Peer,
         LoseFrame(p) \/ RepeatFrame(p)
  PROVE  HandoverInvariant'
<1>1. /\ UNCHANGED <<link, lease, phase, offer>> /\ Arrives(p)
      /\ \A r \in Peer : r # p => wire'[r] = wire[r]
      /\ wire'[p] = Tail(wire[p]) \/ wire'[p] = Append(wire[p], Head(wire[p]))
  BY DEF LoseFrame, RepeatFrame, TypeOK
<1>2. wire[p] # <<>> /\ phase[p] = "current" /\ wire[p] \in Seq(Frame)
  BY <1>1 DEF Arrives, TypeOK
<1>3. \A r \in Peer : link[r] \in Link
  BY DEF TypeOK
<1>4. \A r \in Peer : Numbers(link[r], link'[r]) /\ Grows(link[r], link'[r])
  BY <1>1, <1>3, LinkNumbers DEF Numbers, Grows
<1>5. \A i \in DOMAIN wire'[p] : \E j \in DOMAIN wire[p] : wire'[p][i] = wire[p][j]
  <2>1. Head(wire[p]) \in Frame /\ Head(wire[p]) = wire[p][1] /\ 1 \in DOMAIN wire[p]
    BY <1>2, ConstantTypes, WireContents
  <2>2. CASE wire'[p] = Tail(wire[p])
    BY <1>2, <2>1, <2>2, WireContents
  <2>3. CASE wire'[p] = Append(wire[p], Head(wire[p]))
    BY <1>2, <2>1, <2>3, WireContents
  <2> QED BY <1>1, <2>2, <2>3
<1>6. \A r \in Peer : \A i \in DOMAIN wire'[r] :
        \/ \E j \in DOMAIN wire[r] : wire'[r][i] = wire[r][j]
        \/ wire'[r][i] = lease[Other(r)]
  BY <1>1, <1>5
<1>7. FramesAgree'
  BY <1>1, <1>4, <1>6, FramesAgreeStep DEF HandoverInvariant
<1> QED BY <1>1, <1>2, <1>4, <1>7, QuietStep

----------------------------------------------------------------------------
(* Sockets come and go.                                                    *)

(* An end loses its socket, or fails for good.                             *)
LEMMA CloseHandover ==
  ASSUME TypeOK, TypeOK', HandoverInvariant, NEW p \in Peer,
         NEW x \in {"stale", "failed", "overflow"},
         phase' = [phase EXCEPT ![p] = x],
         wire' = [wire EXCEPT ![p] = <<>>],
         lease' = [lease EXCEPT ![p] = NoFrame],
         UNCHANGED link,
         offer' = offer \/ offer' = NoOffer,
         p = Session => offer' = NoOffer
  PROVE  HandoverInvariant'
<1> DEFINE o == Other(p)
<1>1. /\ o \in Peer /\ o # p /\ Other(o) = p
      /\ \A r \in Peer : r = p \/ r = o
      /\ p = Client \/ p = Session
      /\ \A r \in Peer : link[r] \in Link
  BY OtherPeer DEF TypeOK
<1>2. /\ phase'[p] = x /\ phase'[o] = phase[o]
      /\ wire'[p] = <<>> /\ wire'[o] = wire[o]
      /\ lease'[p] = NoFrame /\ lease'[o] = lease[o]
  BY <1>1 DEF TypeOK
<1>3. FramesAgree'
  <2>1. \A r \in Peer : Grows(link[r], link'[r])
    BY <1>1, LinkNumbers DEF Grows
  <2>2. \A i \in DOMAIN wire'[p] : FALSE
    BY <1>2
  <2>3. \A r \in Peer : \A i \in DOMAIN wire'[r] :
          \E j \in DOMAIN wire[r] : wire'[r][i] = wire[r][j]
    BY <1>1, <1>2, <2>2
  <2>4. \A r \in Peer : lease'[r] = lease[r] \/ lease'[r] = NoFrame
    BY <1>1, <1>2
  <2> QED BY <2>1, <2>3, <2>4, FramesAgreeStep DEF HandoverInvariant
<1>4. ClosedWiresAreEmpty'
  BY <1>1, <1>2, OtherPeer DEF HandoverInvariant, ClosedWiresAreEmpty
<1>5. OfferIsFresh'
  BY <1>1, <1>2, OtherPeer DEF HandoverInvariant, OfferIsFresh
<1>6. ReadyIsFresh'
  BY <1>1, <1>2, OtherPeer DEF HandoverInvariant, ReadyIsFresh
<1>7. GenerationsAgree' /\ WatermarksAgree'
  BY <1>1, <1>2, OtherPeer
     DEF HandoverInvariant, GenerationsAgree, WatermarksAgree, SameGeneration
<1> QED BY <1>3, <1>4, <1>5, <1>6, <1>7 DEF HandoverInvariant

(* The page is loaded again.                                               *)
LEMMA ReloadHandover ==
  ASSUME TypeOK, TypeOK', HandoverInvariant, Reload
  PROVE  HandoverInvariant'
<1>1. /\ link'[Client] = NoLink /\ link'[Session] = link[Session]
      /\ phase'[Client] = "stale" /\ phase'[Session] = phase[Session]
      /\ wire'[Client] = <<>> /\ wire'[Session] = wire[Session]
      /\ lease'[Client] = NoFrame /\ lease'[Session] = lease[Session]
      /\ offer' = offer
  BY OtherPeer DEF Reload, TypeOK
<1>2. /\ link'[Client].generation = 0 /\ link'[Client].applied = 0
      /\ link'[Client].peer_acknowledged = 0 /\ LastSend(link'[Client]) = 0
  BY <1>1 DEF NoLink, NewLink, LastSend
<1>3. link[Session] \in Link /\ link[Session].generation \in Nat
  BY OtherPeer, LinkNumbers DEF TypeOK
<1>4. GenerationsAgree' /\ WatermarksAgree'
  <2>1. link[Session].generation # 0
    BY DEF HandoverInvariant, GenerationsAgree
  <2>2. WatermarksAgree'
    BY <1>1, <1>2, <2>1 DEF WatermarksAgree, SameGeneration
  <2>3. \A p \in Peer : (link[p].peer_acknowledged <= LastSend(link[p]))'
    BY <1>1, <1>2, OtherPeer DEF HandoverInvariant, GenerationsAgree
  <2> QED BY <1>1, <1>2, <1>3, <2>1, <2>2, <2>3 DEF GenerationsAgree
<1>5. FramesAgree'
  <2>1. \A f : FrameAgrees(f, link'[Client])
    BY <1>2 DEF FrameAgrees
  <2>2. lease'[Client].type # "ready"
    BY <1>1 DEF NoFrame
  <2>3. \A i \in DOMAIN wire'[Client] : FALSE
    BY <1>1
  <2>4. FrameAgrees(lease'[Session], link'[Session]) /\ lease'[Session].type # "ready"
    BY <1>1, OtherPeer DEF HandoverInvariant, FramesAgree
  <2>5. \A i \in DOMAIN wire'[Session] : FrameAgrees(wire'[Session][i], link'[Client])
    BY <2>1
  <2> QED BY <2>1, <2>2, <2>3, <2>4, <2>5, OtherPeer DEF FramesAgree
<1>6. ClosedWiresAreEmpty' /\ OfferIsFresh' /\ ReadyIsFresh'
  BY <1>1, OtherPeer
     DEF HandoverInvariant, ClosedWiresAreEmpty, OfferIsFresh, ReadyIsFresh
<1> QED BY <1>4, <1>5, <1>6 DEF HandoverInvariant

(* The offer takes what the tab has applied.                               *)
LEMMA BeginResumeHandover ==
  ASSUME TypeOK, TypeOK', HandoverInvariant, BeginResume
  PROVE  HandoverInvariant'
<1>1. /\ phase[Client] = "stale" /\ phase[Session] = "stale"
      /\ phase'[Client] = "connecting" /\ phase'[Session] = "stale"
      /\ offer' = [generation |-> link[Session].generation + 1,
                   applied_server |-> link[Client].applied]
      /\ UNCHANGED <<link, lease, wire>>
  BY OtherPeer DEF BeginResume, TypeOK
<1>2. wire[Client] = <<>> /\ wire[Session] = <<>>
  BY <1>1 DEF HandoverInvariant, ClosedWiresAreEmpty
<1>3. link[Session].generation \in Nat
  BY OtherPeer, LinkNumbers DEF TypeOK
<1>4. OfferIsFresh'
  BY <1>1, <1>2, <1>3 DEF OfferIsFresh
<1>5. ClosedWiresAreEmpty' /\ ReadyIsFresh'
  BY <1>1, <1>2 DEF ClosedWiresAreEmpty, ReadyIsFresh
<1>6. FramesAgree' /\ GenerationsAgree' /\ WatermarksAgree'
  <2>1. FramesAgree'
    BY <1>1 DEF HandoverInvariant, FramesAgree
  <2> QED BY <1>1, <2>1
          DEF HandoverInvariant, GenerationsAgree, WatermarksAgree, SameGeneration
<1> QED BY <1>4, <1>5, <1>6 DEF HandoverInvariant

(* The numbers of a link that was rebound and on which a value may have    *)
(* been published again.                                                   *)
LEMMA RebindNumbers ==
  ASSUME TypeOK, NEW p \in Peer, NEW l \in Link, RebindEndpoint(p, l)
  PROVE  /\ Numbers(l, link'[p])
         /\ \A r \in Peer : r # p => link'[r] = link[r] /\ lease'[r] = lease[r]
         /\ lease'[p] = NoFrame
<1>1. \/ link'[p] = l
      \/ link'[p] = PushLink({}, l, CurrentMessage(p))
  BY DEF RebindEndpoint, TypeOK
<1>2. Numbers(l, l)
  BY LinkNumbers DEF Numbers
<1>3. Numbers(l, link'[p])
  BY <1>1, <1>2, PushNumbers
<1> QED BY <1>3 DEF RebindEndpoint, TypeOK

(* Ready takes what the Session has applied; the Session starts from what  *)
(* the tab had applied when it asked.                                      *)
LEMMA CommitResumeHandover ==
  ASSUME TypeOK, TypeOK', HandoverInvariant, CommitResume
  PROVE  HandoverInvariant'
<1> DEFINE b == Rebind(link[Session], offer.generation, offer.applied_server)
           k == link'[Session]
<1>1. /\ Client \in Peer /\ Session \in Peer /\ Client # Session
      /\ link[Session] \in Link /\ link[Client] \in Link /\ k \in Link
      /\ offer.generation \in Nat /\ offer.applied_server \in Nat
  BY OtherPeer DEF TypeOK
<1>2. b \in Link
  BY <1>1, LinkTypes, ConstantTypes
<1>3. /\ Numbers(b, k) /\ link'[Client] = link[Client]
      /\ lease'[Client] = lease[Client] /\ lease'[Session] = NoFrame
  <2>1. RebindEndpoint(Session, b)
    BY DEF CommitResume
  <2> HIDE DEF b
  <2> QED BY <1>1, <1>2, <2>1, RebindNumbers
<1>4. /\ b.generation = offer.generation /\ b.applied = link[Session].applied
      /\ b.peer_acknowledged = offer.applied_server
      /\ b.next_send = offer.applied_server + 1
  <2>1. \A l \in Link :
          LET x == Rebind(l, offer.generation, offer.applied_server) IN
          /\ x.generation = offer.generation /\ x.applied = l.applied
          /\ x.peer_acknowledged = offer.applied_server
          /\ x.next_send = offer.applied_server + 1
    BY DEF Rebind, RebaseSendAfterHandshake, Link
  <2> QED BY <1>1, <2>1
<1>5. /\ k.generation = offer.generation /\ k.applied = link[Session].applied
      /\ k.peer_acknowledged = offer.applied_server
      /\ offer.applied_server <= LastSend(k)
      /\ link[Session].generation \in Nat /\ link[Client].generation \in Nat
  <2>1. LastSend(k) = k.next_send - 1 /\ k.next_send \in Nat
    BY <1>1, LinkNumbers
  <2> HIDE DEF b, k
  <2> QED BY <1>1, <1>3, <1>4, <2>1, LinkNumbers DEF Numbers
<1>6. /\ offer # NoOffer /\ phase[Session] = "stale" /\ phase[Client] # "current"
      /\ wire[Client] = <<>> /\ wire[Session] = <<>>
      /\ offer.generation > link[Session].generation
      /\ phase[Client] = "connecting" => offer.applied_server = link[Client].applied
  BY DEF CommitResume, HandoverInvariant, OfferIsFresh, ClosedWiresAreEmpty
<1>7. /\ offer' = NoOffer /\ wire'[Session] = <<>>
      /\ phase'[Client] = phase[Client] /\ phase'[Session] = "current"
      /\ phase[Client] = "connecting" =>
           wire'[Client] = <<ReadyFrame(offer.generation, link[Session].applied)>>
      /\ phase[Client] # "connecting" => wire'[Client] = <<>>
  BY <1>1, <1>6 DEF CommitResume, TypeOK
<1>8. GenerationsAgree' /\ WatermarksAgree'
  <2>1. link'[Client].generation < k.generation
    BY <1>1, <1>3, <1>5, <1>6 DEF HandoverInvariant, GenerationsAgree
  <2>2. ~ SameGeneration'
    BY <1>1, <1>3, <1>5, <2>1 DEF SameGeneration
  <2>3. \A p \in Peer : (link[p].peer_acknowledged <= LastSend(link[p]))'
    BY <1>3, <1>5, OtherPeer DEF HandoverInvariant, GenerationsAgree
  <2>4. link'[Session].generation # 0
    BY <1>1, <1>5, <1>6
  <2>5. link'[Client].generation = 0 =>
          link'[Client].applied = 0 /\ phase'[Client] # "current"
    BY <1>3, <1>7 DEF HandoverInvariant, GenerationsAgree
  <2>6. GenerationsAgree'
    BY <1>1, <1>3, <1>5, <2>1, <2>3, <2>4, <2>5 DEF GenerationsAgree
  <2> QED BY <2>2, <2>6 DEF WatermarksAgree
<1>9. FramesAgree'
  <2>1. FrameAgrees(lease'[Session], k) /\ lease'[Session].type # "ready"
    BY <1>3 DEF NoFrame, FrameAgrees
  <2>2. FrameAgrees(lease'[Client], link'[Client]) /\ lease'[Client].type # "ready"
    BY <1>1, <1>3 DEF HandoverInvariant, FramesAgree
  <2>3. \A i \in DOMAIN wire'[Session] : FALSE
    BY <1>7
  <2>4. \A i \in DOMAIN wire'[Client] : FrameAgrees(wire'[Client][i], k)
    BY <1>7 DEF FrameAgrees, ReadyFrame
  <2> QED BY <2>1, <2>2, <2>3, <2>4, OtherPeer DEF FramesAgree
<1>10. ClosedWiresAreEmpty' /\ OfferIsFresh'
  BY <1>7 DEF ClosedWiresAreEmpty, OfferIsFresh
<1>11. ReadyIsFresh'
  BY <1>3, <1>5, <1>6, <1>7 DEF ReadyIsFresh, ReadyFrame
<1> QED BY <1>8, <1>9, <1>10, <1>11 DEF HandoverInvariant

(* The tab binds to the Session's generation with the numbers Ready holds. *)
LEMMA BindHandover ==
  ASSUME TypeOK, TypeOK', HandoverInvariant, ClientBind
  PROVE  HandoverInvariant'
<1> DEFINE f == Head(wire[Client])
           l == link[Client]
           b == IF l.generation = 0
                THEN RebaseSendAfterHandshake(NewLink(f.generation), f.ack)
                ELSE Rebind(l, f.generation, f.ack)
           k == link'[Client]
<1>1. /\ Client \in Peer /\ Session \in Peer /\ Client # Session
      /\ link[Session] \in Link /\ l \in Link /\ k \in Link
      /\ wire[Client] \in Seq(Frame)
  BY OtherPeer DEF TypeOK
<1>2. /\ phase[Client] = "connecting" /\ wire[Client] # <<>> /\ f.type = "ready"
      /\ RebindEndpoint(Client, b)
      /\ phase'[Client] = "current" /\ phase'[Session] = phase[Session]
      /\ wire'[Client] = Tail(wire[Client]) /\ wire'[Session] = wire[Session]
      /\ offer' = offer
  BY <1>1 DEF ClientBind, TypeOK
<1>3. f \in Frame /\ f.generation \in Nat /\ f.ack \in Nat
  BY <1>1, <1>2, WireContents, ConstantTypes DEF Frame
<1>4. /\ f.generation = link[Session].generation
      /\ f.ack = link[Session].applied
      /\ link[Session].peer_acknowledged = l.applied
      /\ wire[Session] = <<>> /\ offer = NoOffer
  BY <1>2 DEF HandoverInvariant, ReadyIsFresh, ClosedWiresAreEmpty, OfferIsFresh
<1>5. /\ b \in Link /\ b.generation = f.generation /\ b.applied = l.applied
      /\ b.peer_acknowledged = f.ack /\ b.next_send = f.ack + 1
  <2>1. CASE l.generation = 0
    <3>1. l.applied = 0
      BY <2>1 DEF HandoverInvariant, GenerationsAgree
    <3>2. NewLink(f.generation) \in Link
      BY <1>3, ConstantTypes
    <3>3. RebaseSendAfterHandshake(NewLink(f.generation), f.ack) \in Link
      BY <1>3, <3>2, LinkTypes, ConstantTypes
    <3> QED BY <2>1, <3>1, <3>3 DEF RebaseSendAfterHandshake, NewLink
  <2>2. CASE l.generation # 0
    <3>1. \A y \in Link :
            LET x == Rebind(y, f.generation, f.ack) IN
            /\ x.generation = f.generation /\ x.applied = y.applied
            /\ x.peer_acknowledged = f.ack /\ x.next_send = f.ack + 1
      BY DEF Rebind, RebaseSendAfterHandshake, Link
    <3>2. Rebind(l, f.generation, f.ack) \in Link
      BY <1>1, <1>3, LinkTypes, ConstantTypes
    <3> QED BY <1>1, <2>2, <3>1, <3>2
  <2> QED BY <2>1, <2>2
<1>6. /\ Numbers(b, k) /\ link'[Session] = link[Session]
      /\ lease'[Session] = lease[Session] /\ lease'[Client] = NoFrame
  <2> HIDE DEF b
  <2> QED BY <1>1, <1>2, <1>5, RebindNumbers
<1>7. /\ k.generation = link[Session].generation /\ k.applied = l.applied
      /\ k.peer_acknowledged = link[Session].applied
      /\ link[Session].applied <= LastSend(k)
  <2>1. LastSend(k) = k.next_send - 1 /\ k.next_send \in Nat
    BY <1>1, LinkNumbers
  <2> HIDE DEF b, k
  <2> QED BY <1>3, <1>4, <1>5, <1>6, <2>1 DEF Numbers
<1>8. /\ link[Session].applied \in Nat /\ l.applied \in Nat
      /\ link[Session].peer_acknowledged <= LastSend(link[Session])
      /\ link[Session].generation # 0 /\ link[Session].generation \in Nat
  BY <1>1, LinkNumbers DEF HandoverInvariant, GenerationsAgree
<1>9. GenerationsAgree' /\ WatermarksAgree'
  <2> HIDE DEF k, b, f, l
  <2>1. \A p \in Peer : (link[p].peer_acknowledged <= LastSend(link[p]))'
    BY <1>6, <1>7, <1>8, OtherPeer DEF k
  <2>2. GenerationsAgree'
    BY <1>6, <1>7, <1>8, <2>1 DEF GenerationsAgree, k
  <2>3. /\ link'[Client].peer_acknowledged <= link'[Session].applied
        /\ link'[Session].applied <= LastSend(link'[Client])
        /\ link'[Session].peer_acknowledged <= link'[Client].applied
        /\ link'[Client].applied <= LastSend(link'[Session])
    BY <1>4, <1>6, <1>7, <1>8 DEF k
  <2> QED BY <2>2, <2>3, OtherPeer DEF WatermarksAgree
<1>10. FramesAgree'
  <2>1. FrameAgrees(lease'[Client], link'[Client]) /\ lease'[Client].type # "ready"
    BY <1>6 DEF NoFrame, FrameAgrees
  <2>2. FrameAgrees(lease'[Session], link'[Session]) /\ lease'[Session].type # "ready"
    BY <1>1, <1>6 DEF HandoverInvariant, FramesAgree
  <2>3. \A i \in DOMAIN wire'[Session] : FALSE
    BY <1>2, <1>4
  <2>4. \A i \in DOMAIN wire'[Client] :
          \E j \in DOMAIN wire[Client] : wire'[Client][i] = wire[Client][j]
    BY <1>1, <1>2, <1>3, WireContents
  <2>5. \A j \in DOMAIN wire[Client] : FrameAgrees(wire[Client][j], link[Session])
    BY OtherPeer DEF HandoverInvariant, FramesAgree
  <2>6. \A i \in DOMAIN wire'[Client] : FrameAgrees(wire'[Client][i], link'[Session])
    BY <1>6, <2>4, <2>5
  <2> QED BY <2>1, <2>2, <2>3, <2>6, OtherPeer DEF FramesAgree
<1>11. ClosedWiresAreEmpty' /\ OfferIsFresh' /\ ReadyIsFresh'
  BY <1>2, <1>4 DEF ClosedWiresAreEmpty, OfferIsFresh, ReadyIsFresh
<1> QED BY <1>9, <1>10, <1>11 DEF HandoverInvariant

----------------------------------------------------------------------------
(* The queue of a connected end.                                           *)

(* Only the numbers of the link matter to what its queue must hold.        *)
LEMMA SameNumbersHold ==
  ASSUME NEW q, NEW l, NEW k, SameNumbers(l, k), HoldsUnacknowledged(q, l)
  PROVE  HoldsUnacknowledged(q, k)
BY DEF SameNumbers, HoldsUnacknowledged, LastSend

(* A step of p, after which p's queue holds what it must if p is           *)
(* connected, and which leaves the other end's queue alone.                *)
LEMMA QueueOfOne ==
  ASSUME UnacknowledgedIsQueued, NEW p \in Peer,
         phase'[p] = "current" => HoldsUnacknowledged(outbound'[p], link'[p]),
         \A r \in Peer : r # p => /\ phase'[r] = "current" => phase[r] = "current"
                                  /\ outbound'[r] = outbound[r]
                                  /\ link'[r] = link[r]
  PROVE  UnacknowledgedIsQueued'
BY DEF UnacknowledgedIsQueued

(* A rebound end starts with an empty queue and may publish one value.     *)
LEMMA RebindHolds ==
  ASSUME TypeOK, NEW p \in Peer, NEW l \in Link, RebindEndpoint(p, l),
         l.next_send = l.peer_acknowledged + 1
  PROVE  /\ HoldsUnacknowledged(outbound'[p], link'[p])
         /\ \A r \in Peer : r # p => outbound'[r] = outbound[r] /\ link'[r] = link[r]
<1>1. HoldsUnacknowledged({}, l) /\ l.peer_acknowledged <= LastSend(l)
  BY EmptyHolds, LinkNumbers
<1>2. CurrentMessage(p) \in Message
  BY DEF CurrentMessage, Message, Kind, TypeOK
<1>3. HoldsUnacknowledged(PushQueue({}, l, CurrentMessage(p)),
                          PushLink({}, l, CurrentMessage(p)))
  BY <1>1, <1>2, PushHolds
<1>4. \/ outbound'[p] = {} /\ link'[p] = l
      \/ /\ outbound'[p] = PushQueue({}, l, CurrentMessage(p))
         /\ link'[p] = PushLink({}, l, CurrentMessage(p))
  BY DEF RebindEndpoint, TypeOK
<1>5. \A r \in Peer : r # p => outbound'[r] = outbound[r] /\ link'[r] = link[r]
  BY DEF RebindEndpoint, TypeOK
<1> QED BY <1>1, <1>3, <1>4, <1>5

(* Receptions.                                                             *)
LEMMA ReceiveNextHolds ==
  ASSUME TypeOK, GenerationsAgree, UnacknowledgedIsQueued, NEW p \in Peer,
         ReceiveNext(p)
  PROVE  HoldsUnacknowledged(outbound'[p], link'[p])
<1> DEFINE f == Head(wire[p])
           l == AcceptPeerAck(link[p], f.ack)
           a == AcceptedLink(p, f)
           q == AcceptedQueue(p, f)
           rl == RepliedLink(p, f)
           rq == RepliedQueue(p, f)
<1>1. /\ link[p] \in Link /\ outbound[p] \in SUBSET Entry /\ phase[p] = "current"
      /\ link[p].peer_acknowledged <= LastSend(link[p])
      /\ HoldsUnacknowledged(outbound[p], link[p])
  BY DEF TypeOK, ReceiveNext, Arrives, UnacknowledgedIsQueued, GenerationsAgree
<1>2. f \in Frame
  BY WireTypes DEF Arrives, ReceiveNext
<1>3. /\ f.ack \in Nat /\ f.seq \in Nat /\ f.msg \in Message
      /\ f.ack <= LastSend(link[p])
  BY <1>2 DEF Frame, ReceiveNext, ExpectsNext, PeerAckValid
<1>4. /\ l \in Link /\ l.next_send = link[p].next_send
      /\ l.peer_acknowledged = link[p].peer_acknowledged \/ l.peer_acknowledged = f.ack
      /\ l.peer_acknowledged >= link[p].peer_acknowledged
  <2>1. l \in Link
    BY <1>1, <1>3, LinkTypes
  <2> QED BY <1>1, <1>3, <2>1, LinkNumbers DEF AcceptPeerAck, Link
<1>5. HoldsUnacknowledged(q, l)
  <2> HIDE DEF l
  <2>1. q = AcknowledgeThrough(outbound[p], l.peer_acknowledged)
    BY DEF AcceptedQueue, l
  <2> QED BY <1>1, <1>4, <2>1, AcknowledgeHolds
<1>6. /\ a \in Link /\ q \in SUBSET Entry /\ rl \in Link /\ rq \in SUBSET Entry
  BY <1>2, ReplyTypes
<1>7. a.next_send = l.next_send /\ a.peer_acknowledged = l.peer_acknowledged
  <2>1. \A y \in Link : LET x == AcceptNext(y, f.seq, f.msg) IN
          x.next_send = y.next_send /\ x.peer_acknowledged = y.peer_acknowledged
    BY DEF AcceptNext, Link
  <2>2. a = AcceptNext(l, f.seq, f.msg)
    BY DEF AcceptedLink
  <2> HIDE DEF l, a
  <2> QED BY <1>4, <2>1, <2>2
<1>8. HoldsUnacknowledged(q, a) /\ a.peer_acknowledged <= LastSend(a)
  <2> HIDE DEF l, a, q
  <2>1. LastSend(l) = LastSend(link[p])
    BY <1>4 DEF LastSend
  <2>2. LastSend(a) = LastSend(l)
    BY <1>7 DEF LastSend
  <2>3. HoldsUnacknowledged(q, a)
    BY <1>5, <1>7, <2>2 DEF HoldsUnacknowledged
  <2> QED BY <1>1, <1>3, <1>4, <1>7, <2>1, <2>2, <2>3
<1>9. Reply(f.msg) \in Message
  BY <1>3, ConstantTypes DEF Reply, Message, Kind
<1>10. HoldsUnacknowledged(rq, rl) /\ rl.peer_acknowledged <= LastSend(rl)
  <2>1. rq = PushQueue(q, a, Reply(f.msg)) /\ rl = PushLink(q, a, Reply(f.msg))
    BY DEF RepliedQueue, RepliedLink
  <2>2. Numbers(a, rl)
    BY <1>6, <2>1, PushNumbers
  <2> HIDE DEF a, q, rq, rl
  <2>3. HoldsUnacknowledged(rq, rl)
    BY <1>6, <1>8, <1>9, <2>1, PushHolds
  <2> QED BY <1>6, <1>8, <2>2, <2>3, LinkNumbers DEF Numbers
<1>11. PICK m \in Publications(p) : ReceiveNext(p)!1!3!(m)
  BY DEF ReceiveNext
<1>12. m \in Message
  BY PublicationTypes
<1>13. HoldsUnacknowledged(PushQueue(rq, rl, m), PushLink(rq, rl, m))
  <2> HIDE DEF rq, rl
  <2> QED BY <1>6, <1>10, <1>12, PushHolds
<1>14. outbound'[p] = PushQueue(rq, rl, m) /\ link'[p] = PushLink(rq, rl, m)
  BY <1>11 DEF TypeOK
<1> QED BY <1>13, <1>14

(* A frame that is not the expected one, or carries no operation.          *)
LEMMA OtherReceptionsHold ==
  ASSUME TypeOK, GenerationsAgree, UnacknowledgedIsQueued, NEW p \in Peer,
         ReceiveOutOfOrder(p) \/ ReceiveControl(p)
  PROVE  HoldsUnacknowledged(outbound'[p], link'[p])
<1> DEFINE f == Head(wire[p])
           l == AcceptPeerAck(link[p], f.ack)
<1>1. /\ link[p] \in Link /\ outbound[p] \in SUBSET Entry
      /\ HoldsUnacknowledged(outbound[p], link[p])
  BY DEF TypeOK, ReceiveOutOfOrder, ReceiveControl, Arrives, UnacknowledgedIsQueued
<1>2. f \in Frame
  BY WireTypes DEF Arrives, ReceiveOutOfOrder, ReceiveControl
<1>3. f.ack \in Nat /\ f.seq \in Nat
  BY <1>2 DEF Frame
<1>4. /\ l \in Link /\ l.next_send = link[p].next_send
      /\ l.peer_acknowledged >= link[p].peer_acknowledged
  <2>1. l \in Link
    BY <1>1, <1>3, LinkTypes, ConstantTypes
  <2> QED BY <1>1, <1>3, <2>1, LinkNumbers DEF AcceptPeerAck, Link
<1> HIDE DEF l
<1>5. HoldsUnacknowledged(AcknowledgeThrough(outbound[p], l.peer_acknowledged), l)
  BY <1>1, <1>4, AcknowledgeHolds
<1>6. CASE ReceiveOutOfOrder(p)
  <2>1. /\ outbound'[p] = AcknowledgeThrough(outbound[p], l.peer_acknowledged)
        /\ link'[p] = AcceptDuplicate(l) \/ link'[p] = RequestResync(l)
    BY <1>6 DEF ReceiveOutOfOrder, TypeOK, l
  <2>2. SameNumbers(l, AcceptDuplicate(l)) /\ SameNumbers(l, RequestResync(l))
    BY <1>4 DEF SameNumbers, AcceptDuplicate, RequestResync, Link
  <2> QED BY <1>5, <2>1, <2>2, SameNumbersHold
<1>7. CASE ReceiveControl(p) /\ f.type = "ack"
  <2>1. /\ outbound'[p] = AcknowledgeThrough(outbound[p], l.peer_acknowledged)
        /\ link'[p] = l
    BY <1>7 DEF ReceiveControl, TypeOK, l
  <2> QED BY <1>5, <2>1
<1>8. CASE ReceiveControl(p) /\ f.type = "resync"
  <2>1. outbound'[p] = ResendFrom(outbound[p], f.seq) /\ link'[p] = link[p]
    BY <1>8 DEF ReceiveControl, TypeOK
  <2> QED BY <1>1, <1>3, <2>1, MarkHolds, ConstantTypes
<1> QED BY <1>6, <1>7, <1>8 DEF ReceiveControl

(* Every step keeps the queue of a connected end complete.                 *)
LEMMA QueueStep ==
  ASSUME TypeOK, GenerationsAgree, UnacknowledgedIsQueued, [Next]_vars
  PROVE  UnacknowledgedIsQueued'
<1>1. ASSUME NEW p \in Peer, NEW k \in Sequenced, Publish(p, k)
      PROVE  UnacknowledgedIsQueued'
  <2>1. PICK m \in Publication(p, k) : Publish(p, k)!(m)
    BY <1>1 DEF Publish
  <2>2. m \in Message
    BY PublicationTypes DEF Publications
  <2>3. HoldsUnacknowledged(PushQueue(outbound[p], link[p], m),
                            PushLink(outbound[p], link[p], m))
    <3>1. /\ link[p] \in Link /\ outbound[p] \in SUBSET Entry
          /\ link[p].peer_acknowledged <= LastSend(link[p])
          /\ HoldsUnacknowledged(outbound[p], link[p])
      BY <2>1 DEF TypeOK, UnacknowledgedIsQueued, GenerationsAgree
    <3> QED BY <2>2, <3>1, PushHolds
  <2>4. HoldsUnacknowledged(outbound'[p], link'[p])
    BY <2>1, <2>3 DEF TypeOK
  <2> QED BY <2>1, <2>4, QueueOfOne DEF TypeOK
<1>2. ASSUME NEW p \in Peer, TransmitLeased(p)
      PROVE  UnacknowledgedIsQueued'
  <2> DEFINE f == lease[p]
  <2>1. /\ link[p] \in Link /\ outbound[p] \in SUBSET Entry
        /\ HoldsUnacknowledged(outbound[p], link[p])
        /\ f.seq \in Nat /\ f.ack \in Nat /\ f.generation \in Nat
    BY <1>2 DEF TransmitLeased, TypeOK, UnacknowledgedIsQueued, Frame
  <2>2. HoldsUnacknowledged(outbound'[p], link[p])
    <3>1. HoldsUnacknowledged(MarkSent(outbound[p], f.seq, f.generation), link[p])
      BY <2>1, MarkHolds
    <3>2. \/ outbound'[p] = outbound[p]
          \/ outbound'[p] = MarkSent(outbound[p], f.seq, f.generation)
      BY <1>2 DEF TransmitLeased, AcknowledgeLease, TypeOK
    <3> QED BY <2>1, <3>1, <3>2
  <2>3. SameNumbers(link[p], link'[p])
    <3>1. \/ link'[p] = link[p]
          \/ link'[p] = AcknowledgeSentAck(link[p], f.ack)
          \/ link'[p] = AcknowledgeSentResync(link[p], f.seq)
      BY <1>2 DEF TransmitLeased, AcknowledgeLease, TypeOK
    <3> QED BY <2>1, <3>1
            DEF SameNumbers, AcknowledgeSentAck, AcknowledgeSentResync, Link
  <2>4. HoldsUnacknowledged(outbound'[p], link'[p])
    BY <2>2, <2>3, SameNumbersHold
  <2>5. \A r \in Peer : r # p => outbound'[r] = outbound[r] /\ link'[r] = link[r]
    BY <1>2 DEF TransmitLeased, AcknowledgeLease, TypeOK
  <2> QED BY <1>2, <2>4, <2>5, QueueOfOne DEF TransmitLeased
<1>3. ASSUME NEW p \in Peer,
             ReceiveNext(p) \/ ReceiveOutOfOrder(p) \/ ReceiveControl(p)
      PROVE  UnacknowledgedIsQueued'
  <2>1. HoldsUnacknowledged(outbound'[p], link'[p])
    BY <1>3, ReceiveNextHolds, OtherReceptionsHold
  <2>2. \A r \in Peer : r # p => outbound'[r] = outbound[r] /\ link'[r] = link[r]
    BY <1>3 DEF ReceiveNext, ReceiveOutOfOrder, ReceiveControl, TypeOK
  <2>3. UNCHANGED phase
    BY <1>3 DEF ReceiveNext, ReceiveOutOfOrder, ReceiveControl
  <2> QED BY <2>1, <2>2, <2>3, QueueOfOne
<1>4. ASSUME NEW p \in Peer, phase'[p] # "current", UNCHANGED link,
             \A r \in Peer : r # p => phase'[r] = phase[r] /\ outbound'[r] = outbound[r]
      PROVE  UnacknowledgedIsQueued'
  BY <1>4, QueueOfOne
<1>5. ASSUME NEW p \in Peer, ReceiveRefused(p)
      PROVE  UnacknowledgedIsQueued'
  BY <1>4, <1>5 DEF ReceiveRefused, Terminate, TypeOK
<1>6. CASE ClientOverflow
  BY <1>4, <1>6, OtherPeer DEF ClientOverflow, Terminate, TypeOK
<1>7. CASE ClientBind
  <2> DEFINE f == Head(wire[Client])
             l == IF link[Client].generation = 0
                  THEN RebaseSendAfterHandshake(NewLink(f.generation), f.ack)
                  ELSE Rebind(link[Client], f.generation, f.ack)
  <2>1. f.generation \in Nat /\ f.ack \in Nat /\ link[Client] \in Link
    BY <1>7, OtherPeer, WireTypes DEF ClientBind, TypeOK, Frame
  <2>2. l \in Link /\ l.next_send = l.peer_acknowledged + 1
    <3>1. \A x \in Link :
            LET y == RebaseSendAfterHandshake(x, f.ack)
                z == Rebind(x, f.generation, f.ack)
            IN  /\ y \in Link /\ y.next_send = y.peer_acknowledged + 1
                /\ z \in Link /\ z.next_send = z.peer_acknowledged + 1
      <4> SUFFICES ASSUME NEW x \in Link
                   PROVE  LET y == RebaseSendAfterHandshake(x, f.ack)
                              z == Rebind(x, f.generation, f.ack)
                          IN  /\ y \in Link /\ y.next_send = y.peer_acknowledged + 1
                              /\ z \in Link /\ z.next_send = z.peer_acknowledged + 1
        OBVIOUS
      <4>1. /\ RebaseSendAfterHandshake(x, f.ack) \in Link
            /\ Rebind(x, f.generation, f.ack) \in Link
        BY <2>1, LinkTypes, ConstantTypes
      <4> QED BY <4>1 DEF Rebind, RebaseSendAfterHandshake, Link
    <3>2. NewLink(f.generation) \in Link
      BY <2>1, ConstantTypes
    <3> QED BY <2>1, <3>1, <3>2
  <2>3. RebindEndpoint(Client, l)
    BY <1>7 DEF ClientBind
  <2>4. /\ HoldsUnacknowledged(outbound'[Client], link'[Client])
        /\ \A r \in Peer :
             r # Client => outbound'[r] = outbound[r] /\ link'[r] = link[r]
    <3> HIDE DEF l
    <3> QED BY <2>2, <2>3, RebindHolds, OtherPeer
  <2> QED BY <1>7, <2>4, QueueOfOne, OtherPeer DEF ClientBind, TypeOK
<1>8. CASE CommitResume
  <2> DEFINE l == Rebind(link[Session], offer.generation, offer.applied_server)
  <2>1. /\ offer.generation \in Nat /\ offer.applied_server \in Nat
        /\ link[Session] \in Link
    BY OtherPeer DEF TypeOK
  <2>2. l \in Link /\ l.next_send = l.peer_acknowledged + 1
    <3>1. l \in Link
      BY <2>1, LinkTypes, ConstantTypes
    <3> QED BY <2>1, <3>1 DEF Rebind, RebaseSendAfterHandshake, Link
  <2>3. RebindEndpoint(Session, l)
    BY <1>8 DEF CommitResume
  <2>4. /\ HoldsUnacknowledged(outbound'[Session], link'[Session])
        /\ \A r \in Peer :
             r # Session => outbound'[r] = outbound[r] /\ link'[r] = link[r]
    <3> HIDE DEF l
    <3> QED BY <2>2, <2>3, RebindHolds, OtherPeer
  <2> QED BY <1>8, <2>4, QueueOfOne, OtherPeer DEF CommitResume, TypeOK
<1>9. CASE ClientDisconnect
  BY <1>4, <1>9, OtherPeer DEF ClientDisconnect, TypeOK
<1>10. CASE SessionDisconnect
  BY <1>4, <1>10, OtherPeer DEF SessionDisconnect, TypeOK
<1>11. CASE BeginResume
  BY <1>4, <1>11, OtherPeer DEF BeginResume, TypeOK
<1>12. CASE Reload
  <2>1. /\ phase'[Client] # "current" /\ phase'[Session] = phase[Session]
        /\ outbound'[Session] = outbound[Session] /\ link'[Session] = link[Session]
    BY <1>12, OtherPeer DEF Reload, TypeOK
  <2> QED BY <2>1, QueueOfOne, OtherPeer
<1>13. CASE UNCHANGED <<link, outbound, phase>>
  BY <1>13 DEF UnacknowledgedIsQueued
<1>14. ASSUME NEW p \in Peer, LeaseFrame(p) \/ LoseFrame(p) \/ RepeatFrame(p)
       PROVE  UNCHANGED <<link, outbound, phase>>
  BY <1>14 DEF LeaseFrame, LoseFrame, RepeatFrame
<1>15. DropOffer \/ UNCHANGED vars => UNCHANGED <<link, outbound, phase>>
  BY DEF DropOffer, vars
<1> QED
  BY <1>1, <1>2, <1>3, <1>5, <1>6, <1>7, <1>8, <1>9, <1>10, <1>11, <1>12,
     <1>13, <1>14, <1>15 DEF Next, Receive

----------------------------------------------------------------------------

(* The inductive invariant of the transport.                               *)
TransportInvariant == TypeOK /\ HandoverInvariant /\ UnacknowledgedIsQueued

(* It holds when the Session was instantiated and its Ready is under way.  *)
LEMMA TransportInit == Init => TransportInvariant
<1> SUFFICES ASSUME Init PROVE TransportInvariant
  OBVIOUS
<1> DEFINE n == NewLink(1)
           m == [kind |-> "current", n |-> 1]
           s == link[Session]
<1>1. TypeOK
  BY TypeInit
<1>2. /\ link[Client] = NoLink /\ wire[Client] = <<ReadyFrame(1, 0)>>
      /\ wire[Session] = <<>> /\ offer = NoOffer
      /\ phase[Client] = "connecting" /\ phase[Session] = "current"
      /\ lease[Client] = NoFrame /\ lease[Session] = NoFrame
  BY OtherPeer DEF Init
<1>3. n \in Link /\ s \in Link /\ n.next_send = n.peer_acknowledged + 1
  BY <1>1, OtherPeer, ConstantTypes DEF TypeOK, NewLink
<1>4. \/ s = n /\ outbound[Session] = {}
      \/ s = PushLink({}, n, m) /\ outbound[Session] = PushQueue({}, n, m)
  BY OtherPeer DEF Init
<1>5. HoldsUnacknowledged(outbound[Session], s)
  <2>1. HoldsUnacknowledged({}, n) /\ n.peer_acknowledged <= LastSend(n)
    BY <1>3, EmptyHolds, LinkNumbers
  <2>2. m \in Message
    BY DEF Message, Kind
  <2>3. HoldsUnacknowledged(PushQueue({}, n, m), PushLink({}, n, m))
    BY <1>3, <2>1, <2>2, PushHolds
  <2> QED BY <1>4, <2>1, <2>3
<1>6. /\ s.generation = 1 /\ s.applied = 0 /\ s.peer_acknowledged = 0
      /\ LastSend(s) \in Nat
  <2>1. Numbers(n, n)
    BY <1>3, LinkNumbers DEF Numbers
  <2>2. Numbers(n, s)
    BY <1>3, <1>4, <2>1, PushNumbers
  <2>3. n.generation = 1 /\ n.applied = 0 /\ n.peer_acknowledged = 0
    BY DEF NewLink
  <2> QED BY <1>3, <2>2, <2>3, LinkNumbers DEF Numbers
<1>7. /\ link[Client].generation = 0 /\ link[Client].applied = 0
      /\ link[Client].peer_acknowledged = 0 /\ LastSend(link[Client]) = 0
  BY <1>2 DEF NoLink, NewLink, LastSend
<1>8. GenerationsAgree /\ WatermarksAgree
  BY <1>2, <1>6, <1>7, OtherPeer DEF GenerationsAgree, WatermarksAgree, SameGeneration
<1>9. FramesAgree
  <2>1. \A i \in DOMAIN wire[Client] : FrameAgrees(wire[Client][i], link[Session])
    BY <1>2 DEF FrameAgrees, ReadyFrame
  <2>2. \A i \in DOMAIN wire[Session] : FALSE
    BY <1>2
  <2>3. \A p \in Peer : FrameAgrees(lease[p], link[p]) /\ lease[p].type # "ready"
    BY <1>2, OtherPeer DEF FrameAgrees, NoFrame
  <2> QED BY <2>1, <2>2, <2>3, OtherPeer DEF FramesAgree
<1>10. ClosedWiresAreEmpty /\ OfferIsFresh /\ ReadyIsFresh
  BY <1>2, <1>6, <1>7 DEF ClosedWiresAreEmpty, OfferIsFresh, ReadyIsFresh, ReadyFrame
<1>11. UnacknowledgedIsQueued
  BY <1>2, <1>5, OtherPeer DEF UnacknowledgedIsQueued
<1> QED BY <1>1, <1>8, <1>9, <1>10, <1>11 DEF TransportInvariant, HandoverInvariant

(* Every step keeps it.                                                    *)
LEMMA TransportStep == TransportInvariant /\ [Next]_vars => TransportInvariant'
<1> SUFFICES ASSUME TransportInvariant, [Next]_vars PROVE TransportInvariant'
  OBVIOUS
<1> USE DEF TransportInvariant
<1>1. TypeOK'
  BY TypeStep
<1>2. UnacknowledgedIsQueued'
  BY QueueStep DEF HandoverInvariant
<1>3. HandoverInvariant'
  <2>1. ASSUME NEW p \in Peer, NEW k \in Sequenced, Publish(p, k)
        PROVE  HandoverInvariant'
    BY <1>1, <2>1, PublishHandover
  <2>2. ASSUME NEW p \in Peer, LeaseFrame(p)
        PROVE  HandoverInvariant'
    <3>1. HoldsUnacknowledged(outbound[p], link[p]) /\ link[p] \in Link
      BY <2>2 DEF LeaseFrame, UnacknowledgedIsQueued, TypeOK
    <3>2. ASSUME NEW e \in outbound[p] PROVE e.seq <= LastSend(link[p])
      <4>1. e.seq \in link[p].peer_acknowledged + 1 .. LastSend(link[p])
        BY <3>1 DEF HoldsUnacknowledged
      <4> QED BY <3>1, <4>1, LinkNumbers
    <3> QED BY <1>1, <2>2, <3>2, LeaseHandover
  <2>3. ASSUME NEW p \in Peer, TransmitLeased(p)
        PROVE  HandoverInvariant'
    BY <1>1, <2>3, TransmitHandover
  <2>4. ASSUME NEW p \in Peer,
               ReceiveNext(p) \/ ReceiveOutOfOrder(p) \/ ReceiveControl(p)
        PROVE  HandoverInvariant'
    BY <1>1, <2>4, ReceptionsTake, TakesStep
  <2>5. ASSUME NEW p \in Peer, NEW x \in {"failed", "overflow"}, Terminate(p, x)
        PROVE  HandoverInvariant'
    BY <1>1, <2>5, CloseHandover DEF Terminate
  <2>6. ASSUME NEW p \in Peer, LoseFrame(p) \/ RepeatFrame(p)
        PROVE  HandoverInvariant'
    BY <1>1, <2>6, FaultHandover
  <2>7. (\E p \in Peer : ReceiveRefused(p)) \/ ClientOverflow => HandoverInvariant'
    BY <2>5, OtherPeer DEF ReceiveRefused, ClientOverflow
  <2>8. CASE ClientDisconnect
    BY <1>1, <2>8, CloseHandover, OtherPeer DEF ClientDisconnect
  <2>9. CASE SessionDisconnect
    <3>1. offer = NoOffer
      BY <2>9 DEF SessionDisconnect, HandoverInvariant, OfferIsFresh
    <3> QED BY <1>1, <2>9, <3>1, CloseHandover, OtherPeer DEF SessionDisconnect
  <2>10. CASE DropOffer
    BY <2>10 DEF DropOffer, HandoverInvariant, GenerationsAgree, FramesAgree,
                 ClosedWiresAreEmpty, OfferIsFresh, ReadyIsFresh, WatermarksAgree,
                 SameGeneration
  <2>11. CASE UNCHANGED vars
    BY <2>11 DEF vars, HandoverInvariant, GenerationsAgree, FramesAgree,
                 ClosedWiresAreEmpty, OfferIsFresh, ReadyIsFresh, WatermarksAgree,
                 SameGeneration
  <2>12. ClientBind \/ BeginResume \/ CommitResume \/ Reload => HandoverInvariant'
    BY <1>1, BindHandover, BeginResumeHandover, CommitResumeHandover, ReloadHandover
  <2> QED BY <2>1, <2>2, <2>3, <2>4, <2>6, <2>7, <2>8, <2>9, <2>10, <2>11, <2>12
          DEF Next, Receive
<1> QED BY <1>1, <1>2, <1>3

(* No end ever believes more of its operations applied than the other has  *)
(* applied, nor applies an operation that was not numbered, in any         *)
(* generation both ends are in: for every queue limit, with frames lost or *)
(* repeated, and with any number of resumes and page reloads.              *)
THEOREM WatermarksAlwaysAgree == Spec => []WatermarksAgree
<1>1. TransportInvariant => WatermarksAgree
  BY DEF TransportInvariant, HandoverInvariant
<1> QED BY <1>1, TransportInit, TransportStep, PTL DEF Spec

(* A connected end always holds exactly the operations it numbered and the *)
(* other end did not acknowledge, so that it can resend any of them.       *)
THEOREM UnacknowledgedAlwaysQueued == Spec => []UnacknowledgedIsQueued
<1>1. TransportInvariant => UnacknowledgedIsQueued
  BY DEF TransportInvariant
<1> QED BY <1>1, TransportInit, TransportStep, PTL DEF Spec

(* The two ends keep to one generation through every handover: the         *)
(* generations each holds, the frames on the wires, the offer and the      *)
(* watermarks agree, for every queue limit and every order of resumes,     *)
(* reloads and lost or repeated frames.                                    *)
THEOREM HandoverAlwaysHolds == Spec => []HandoverInvariant
<1>1. TransportInvariant => HandoverInvariant
  BY DEF TransportInvariant
<1> QED BY <1>1, TransportInit, TransportStep, PTL DEF Spec

----------------------------------------------------------------------------
(* Events.  Within one generation the sender's operations are numbered     *)
(* without a gap and an operation never changes between event and no       *)
(* event, so there is a count c of the events at or below each number: c   *)
(* exists although no end remembers it.                                    *)

(* Number s stands for message m: c counts it when it is an event.         *)
Tells(c, s, m, last) ==
  /\ s \in 1 .. last
  /\ c[s] = IF m.kind = "event" THEN c[s - 1] + 1 ELSE c[s - 1]
  /\ m.kind = "event" => m.n = c[s]

(* c counts up to n events on link l, in agreement with queue q.           *)
Counts(c, q, l, n) ==
  /\ c \in [Nat -> Nat]
  /\ c[LastSend(l)] = n
  /\ \A k \in 0 .. LastSend(l) : c[k] <= n
  /\ \A e \in q : Tells(c, e.seq, e.msg, LastSend(l))

(* Message m of p is leased, or on the socket in p's generation, under s.  *)
Flies(p, s, m) ==
  \/ lease[p].type = "data" /\ lease[p].seq = s /\ lease[p].msg = m
  \/ \E i \in DOMAIN wire[Other(p)] :
       LET f == wire[Other(p)][i] IN
       /\ f.type = "data" /\ f.generation = link[p].generation
       /\ f.seq = s /\ f.msg = m

Taken(p) == accepted[Other(p)]["event"]

(* The last event of p that was delivered, or the last before its          *)
(* generation began.                                                       *)
Reached(p) == IF Taken(p) > base[p] THEN Taken(p) ELSE base[p]

(* The number of p's last operation that the other end has applied.        *)
Begins(p) ==
  IF SameGeneration THEN link[Other(p)].applied ELSE link[p].peer_acknowledged

Tallies(p, c) ==
  /\ Counts(c, outbound[p], link[p], sent[p]["event"])
  /\ \A s \in Nat, m \in Message : Flies(p, s, m) => Tells(c, s, m, LastSend(link[p]))
  /\ c[Begins(p)] = Reached(p)

(* A Client that was not bound to the Session's generation yet will start  *)
(* to count when it is.                                                    *)
Counted(p) == SameGeneration \/ p = Session => \E c : Tallies(p, c)

(* Nothing on a wire or leased is of a later generation than its sender.   *)
FramesAreOld ==
  /\ phase[Client] = "current" => SameGeneration
  /\ \A p \in Peer : \A i \in DOMAIN wire[p] :
       wire[p][i].generation <= link[Other(p)].generation
  /\ \A p \in Peer : lease[p].generation <= link[p].generation

EventsBounded ==
  /\ \A p \in Peer : base[p] <= sent[p]["event"] /\ Taken(p) <= sent[p]["event"]
  /\ ~ SameGeneration => Taken(Session) <= base[Session]

EventsInvariant == FramesAreOld /\ EventsBounded /\ \A p \in Peer : Counted(p)

----------------------------------------------------------------------------

(* The queue after a push: one entry more, or one value replaced.          *)
LEMMA PushEntries ==
  ASSUME NEW q \in SUBSET Entry, NEW l \in Link, NEW m \in Message,
         NEW e \in PushQueue(q, l, m)
  PROVE  \/ e \in q
         \/ /\ m # NoMessage /\ Replaced(q, m) # {}
            /\ \E x \in Replaced(q, m) : e.seq = x.seq /\ e.msg = m
         \/ /\ m # NoMessage /\ Replaced(q, m) = {}
            /\ e = NewEntry(l.next_send, m)
<1>1. Replaced(q, m) \subseteq q
  BY DEF Replaced
<1>2. \A x \in q : [x EXCEPT !.msg = m].seq = x.seq /\ [x EXCEPT !.msg = m].msg = m
  BY DEF Entry
<1> QED BY <1>1, <1>2 DEF PushQueue

(* A value is replaced by a value.                                         *)
LEMMA ReplacedValues ==
  ASSUME NEW q \in SUBSET Entry, NEW m \in Message, NEW x \in Replaced(q, m)
  PROVE  x \in q /\ x.msg.kind = "current" /\ m.kind = "current" /\ x.sent = 0
BY DEF Replaced, ReplacesPending

(* The numbers of a link after a push.                                     *)
LEMMA PushLast ==
  ASSUME NEW q, NEW l \in Link, NEW m
  PROVE  /\ LastSend(PushLink(q, l, m)) =
              IF m = NoMessage \/ Replaced(q, m) # {} THEN LastSend(l)
              ELSE LastSend(l) + 1
         /\ PushLink(q, l, m) \in Link
         /\ PushLink(q, l, m).generation = l.generation
         /\ PushLink(q, l, m).applied = l.applied
         /\ PushLink(q, l, m).peer_acknowledged = l.peer_acknowledged
         /\ PushLink(q, l, m).resync = l.resync
<1>1. LET k == AllocateOperationSequence(l) IN
      /\ k.next_send = l.next_send + 1 /\ k.generation = l.generation
      /\ k.applied = l.applied /\ k.peer_acknowledged = l.peer_acknowledged
      /\ k.resync = l.resync
  BY DEF AllocateOperationSequence, Link
<1>2. AllocateOperationSequence(l) \in Link
  BY DEF AllocateOperationSequence, Link
<1> QED BY <1>1, <1>2, LinkNumbers DEF PushLink, LastSend

(* The same, for a queue and a message.                                    *)
LEMMA PushGrows ==
  ASSUME NEW q \in SUBSET Entry, NEW l \in Link, NEW m \in Message,
         NEW k, k = PushLink(q, l, m)
  PROVE  /\ k \in Link /\ LastSend(l) <= LastSend(k)
         /\ k.generation = l.generation /\ k.applied = l.applied
         /\ k.peer_acknowledged = l.peer_acknowledged /\ k.resync = l.resync
<1>1. LastSend(l) \in Nat
  BY LinkNumbers
<1>2. LastSend(k) = LastSend(l) \/ LastSend(k) = LastSend(l) + 1
  BY PushLast
<1>3. LastSend(l) <= LastSend(k)
  BY <1>1, <1>2
<1>4. k \in Link
  BY QueueTypes
<1>5. k.generation = l.generation /\ k.applied = l.applied
      /\ k.peer_acknowledged = l.peer_acknowledged /\ k.resync = l.resync
  BY DEF PushLink, AllocateOperationSequence, Link
<1> QED BY <1>3, <1>4, <1>5

(* What c says of a number only depends on c up to that number.            *)
LEMMA TellsLonger ==
  ASSUME NEW c \in [Nat -> Nat], NEW d \in [Nat -> Nat], NEW s, NEW m,
         NEW last \in Nat, NEW longer \in Nat, last <= longer,
         \A k \in 0 .. last : d[k] = c[k], Tells(c, s, m, last)
  PROVE  Tells(d, s, m, longer)
<1>1. s \in 1 .. last /\ s \in 0 .. last /\ s - 1 \in 0 .. last /\ s \in 1 .. longer
  BY DEF Tells
<1>2. d[s] = c[s] /\ d[s - 1] = c[s - 1]
  BY <1>1
<1> QED BY <1>1, <1>2 DEF Tells

(* A push extends the count.                                               *)
LEMMA PushCounts ==
  \A q \in SUBSET Entry, l \in Link, m \in Message, n \in Nat : \A c :
    (Counts(c, q, l, n) /\ (m.kind = "event" => m.n = n + 1)) =>
      \E d : /\ Counts(d, PushQueue(q, l, m), PushLink(q, l, m),
                       IF m.kind = "event" THEN n + 1 ELSE n)
             /\ \A k \in 0 .. LastSend(l) : d[k] = c[k]
<1> TAKE q \in SUBSET Entry, l \in Link, m \in Message, n \in Nat
<1> TAKE c
<1> HAVE Counts(c, q, l, n) /\ (m.kind = "event" => m.n = n + 1)
<1> DEFINE last == LastSend(l)
           total == IF m.kind = "event" THEN n + 1 ELSE n
<1>1. last \in Nat /\ last = l.next_send - 1 /\ c \in [Nat -> Nat] /\ total \in Nat
  BY LinkNumbers DEF Counts
<1>2. c[last] = n /\ \A k \in 0 .. last : c[k] <= n
  BY DEF Counts
<1>3. \A e \in q : Tells(c, e.seq, e.msg, last)
  BY DEF Counts
<1> HIDE DEF last
<1>4. CASE m = NoMessage \/ Replaced(q, m) # {}
  <2>1. LastSend(PushLink(q, l, m)) = last
    BY <1>4, PushLast DEF last
  <2>2. m.kind # "event"
    BY <1>4, ReplacedValues DEF NoMessage
  <2>3. ASSUME NEW e \in PushQueue(q, l, m)
        PROVE  Tells(c, e.seq, e.msg, last)
    <3>1. CASE e \in q
      BY <1>3, <3>1
    <3>2. ASSUME NEW x \in Replaced(q, m), e.seq = x.seq, e.msg = m
          PROVE  Tells(c, e.seq, e.msg, last)
      <4>1. x \in q /\ x.msg.kind = "current" /\ m.kind = "current"
        BY ReplacedValues
      <4> QED BY <1>3, <3>2, <4>1 DEF Tells
    <3> QED BY <1>4, <3>1, <3>2, PushEntries
  <2>4. Counts(c, PushQueue(q, l, m), PushLink(q, l, m), total)
    BY <1>1, <1>2, <2>1, <2>2, <2>3 DEF Counts
  <2> QED BY <2>4 DEF last
<1>5. CASE m # NoMessage /\ Replaced(q, m) = {}
  <2> DEFINE d == [k \in Nat |-> IF k <= last THEN c[k] ELSE total]
  <2>1. LastSend(PushLink(q, l, m)) = last + 1
    BY <1>5, PushLast DEF last
  <2>2. d \in [Nat -> Nat] /\ \A k \in 0 .. last : d[k] = c[k]
    BY <1>1
  <2>3. d[last + 1] = total /\ d[last] = n
    BY <1>1, <1>2
  <2> HIDE DEF d
  <2>4. \A k \in 0 .. last + 1 : d[k] <= total
    <3>1. \A k \in 0 .. last + 1 : k \in 0 .. last \/ k = last + 1
      BY <1>1
    <3>2. \A k \in 0 .. last : d[k] <= total
      <4>1. \A k \in 0 .. last : c[k] \in Nat
        BY <1>1
      <4> QED BY <1>1, <1>2, <2>2, <4>1
    <3> QED BY <1>1, <2>3, <3>1, <3>2
  <2>5. ASSUME NEW e \in PushQueue(q, l, m)
        PROVE  Tells(d, e.seq, e.msg, last + 1)
    <3>1. CASE e \in q
      <4>1. last + 1 \in Nat /\ last <= last + 1
        BY <1>1
      <4> QED BY <1>1, <1>3, <2>2, <3>1, <4>1, TellsLonger
    <3>2. CASE e = NewEntry(l.next_send, m)
      <4>1. e.seq = last + 1 /\ e.msg = m
        <5>1. l.next_send = last + 1
          BY <1>1, LinkNumbers
        <5> QED BY <3>2, <5>1 DEF NewEntry
      <4>2. last + 1 \in 1 .. last + 1 /\ (last + 1) - 1 = last
        BY <1>1
      <4> QED BY <2>3, <4>1, <4>2 DEF Tells
    <3> QED BY <1>5, <3>1, <3>2, PushEntries
  <2>6. Counts(d, PushQueue(q, l, m), PushLink(q, l, m), total)
    BY <2>1, <2>2, <2>3, <2>4, <2>5 DEF Counts
  <2> QED BY <2>2, <2>6 DEF last
<1> QED BY <1>4, <1>5

----------------------------------------------------------------------------
(* Steps that publish nothing, deliver nothing and rebind nothing.         *)

(* What such a step does to the direction from p.                          *)
Keeps(p) ==
  LET r == Other(p) IN
  /\ link'[p].generation = link[p].generation
  /\ link'[p].next_send = link[p].next_send
  /\ link'[r].applied = link[r].applied
  /\ SameGeneration \/ link'[p].peer_acknowledged = link[p].peer_acknowledged
  /\ \A e \in outbound'[p] : \E x \in outbound[p] : x.seq = e.seq /\ x.msg = e.msg
  /\ \A i \in DOMAIN wire'[r] :
       wire'[r][i] = lease[p] \/ \E j \in DOMAIN wire[r] : wire'[r][i] = wire[r][j]
  /\ \/ lease'[p] = lease[p] \/ lease'[p] = NoFrame
     \/ /\ lease'[p].generation = link[p].generation
        /\ lease'[p].type = "data" =>
             \E x \in outbound[p] : x.seq = lease'[p].seq /\ x.msg = lease'[p].msg
  /\ sent'[p]["event"] = sent[p]["event"]
  /\ accepted'[r]["event"] = accepted[r]["event"]
  /\ base'[p] = base[p]

(* Nothing new flies but what was queued.                                  *)
LEMMA FliesKept ==
  ASSUME TypeOK, TypeOK', NEW p \in Peer,
         link'[p].generation = link[p].generation,
         \A i \in DOMAIN wire'[Other(p)] :
           \/ wire'[Other(p)][i] = lease[p]
           \/ \E j \in DOMAIN wire[Other(p)] : wire'[Other(p)][i] = wire[Other(p)][j],
         \/ lease'[p] = lease[p] \/ lease'[p] = NoFrame
         \/ lease'[p].type = "data" =>
              \E x \in outbound[p] : x.seq = lease'[p].seq /\ x.msg = lease'[p].msg,
         NEW s \in Nat, NEW m \in Message, Flies(p, s, m)'
  PROVE  Flies(p, s, m) \/ \E e \in outbound[p] : e.seq = s /\ e.msg = m
<1>1. CASE lease'[p].type = "data" /\ lease'[p].seq = s /\ lease'[p].msg = m
  <2>1. lease'[p] # NoFrame
    BY <1>1 DEF NoFrame
  <2> QED BY <1>1, <2>1 DEF Flies
<1>2. ASSUME NEW i \in DOMAIN wire'[Other(p)],
             wire'[Other(p)][i].type = "data",
             wire'[Other(p)][i].generation = link[p].generation,
             wire'[Other(p)][i].seq = s, wire'[Other(p)][i].msg = m
      PROVE  Flies(p, s, m)
  <2>1. CASE wire'[Other(p)][i] = lease[p]
    BY <1>2, <2>1 DEF Flies
  <2>2. ASSUME NEW j \in DOMAIN wire[Other(p)], wire'[Other(p)][i] = wire[Other(p)][j]
        PROVE  Flies(p, s, m)
    BY <1>2, <2>2 DEF Flies
  <2> QED BY <2>1, <2>2
<1> QED BY <1>1, <1>2 DEF Flies

(* Such a step keeps the count of p's events.                              *)
LEMMA CountedKept ==
  ASSUME TypeOK, TypeOK', NEW p \in Peer, Counted(p), Keeps(p), Keeps(Other(p))
  PROVE  Counted(p)' /\ SameGeneration' = SameGeneration
<1>1. SameGeneration' = SameGeneration
  BY OtherPeer DEF Keeps, SameGeneration
<1>2. LastSend(link'[p]) = LastSend(link[p])
  BY DEF Keeps, LastSend
<1>3. ASSUME NEW c, SameGeneration \/ p = Session, Tallies(p, c)
      PROVE  Tallies(p, c)'
  <2>1. Counts(c, outbound'[p], link'[p], sent'[p]["event"])
    BY <1>2, <1>3 DEF Tallies, Counts, Keeps
  <2>2. ASSUME NEW s \in Nat, NEW m \in Message, Flies(p, s, m)'
        PROVE  Tells(c, s, m, LastSend(link'[p]))
    <3>1. Flies(p, s, m) \/ \E e \in outbound[p] : e.seq = s /\ e.msg = m
      BY <2>2, FliesKept DEF Keeps
    <3> QED BY <1>2, <1>3, <3>1 DEF Tallies, Counts
  <2>3. Begins(p)' = Begins(p) /\ Reached(p)' = Reached(p)
    BY <1>1 DEF Keeps, Begins, Reached, Taken
  <2> QED BY <1>3, <2>1, <2>2, <2>3 DEF Tallies
<1> QED BY <1>1, <1>3 DEF Counted

(* Such a step keeps everything.                                           *)
LEMMA FramesAreOldKept ==
  ASSUME TypeOK, TypeOK', FramesAreOld,
         \A p \in Peer :
           /\ link'[p].generation = link[p].generation
           /\ \A i \in DOMAIN wire'[p] :
                \/ wire'[p][i] = lease[Other(p)]
                \/ \E j \in DOMAIN wire[p] : wire'[p][i] = wire[p][j]
           /\ \/ lease'[p] = lease[p] \/ lease'[p] = NoFrame
              \/ lease'[p].generation = link[p].generation,
         phase'[Client] = "current" => phase[Client] = "current"
  PROVE  FramesAreOld' /\ SameGeneration' = SameGeneration
<1>1. SameGeneration' = SameGeneration
  BY OtherPeer DEF SameGeneration
<1>2. \A p \in Peer : link[p].generation \in Nat
  BY LinkNumbers DEF TypeOK
<1>3. ASSUME NEW p \in Peer
      PROVE  lease'[p].generation <= link'[p].generation
  <2>1. CASE lease'[p] = lease[p]
    BY <2>1 DEF FramesAreOld
  <2>2. CASE lease'[p] = NoFrame
    BY <1>2, <2>2 DEF NoFrame
  <2>3. CASE lease'[p].generation = link[p].generation
    BY <1>2, <2>3
  <2> QED BY <2>1, <2>2, <2>3
<1>4. ASSUME NEW p \in Peer, NEW i \in DOMAIN wire'[p]
      PROVE  wire'[p][i].generation <= link'[Other(p)].generation
  <2>1. Other(p) \in Peer
    BY OtherPeer
  <2> QED BY <2>1 DEF FramesAreOld
<1> QED BY <1>1, <1>3, <1>4 DEF FramesAreOld

(* Such a step keeps the whole invariant.                                  *)
LEMMA EventsKept ==
  ASSUME TypeOK, TypeOK', EventsInvariant, \A p \in Peer : Keeps(p),
         phase'[Client] = "current" => phase[Client] = "current"
  PROVE  EventsInvariant'
<1>1. FramesAreOld' /\ SameGeneration' = SameGeneration
  BY FramesAreOldKept, OtherPeer DEF Keeps, EventsInvariant
<1>2. EventsBounded'
  BY <1>1, OtherPeer DEF EventsInvariant, EventsBounded, Keeps, Taken
<1>3. \A p \in Peer : Counted(p)'
  BY CountedKept, OtherPeer DEF EventsInvariant
<1> QED BY <1>1, <1>2, <1>3 DEF EventsInvariant

(* A frame that an end takes was sent in the generation of both.           *)
LEMMA TakenInGeneration ==
  ASSUME TypeOK, FramesAreOld, GenerationsAgree, NEW p \in Peer, Arrives(p),
         IdentityValid(link[p], Head(wire[p]))
  PROVE  SameGeneration
<1>1. /\ link[Client].generation \in Nat /\ link[Session].generation \in Nat
      /\ link[Client].generation <= link[Session].generation
  BY LinkNumbers, OtherPeer DEF TypeOK, GenerationsAgree
<1>2. CASE p = Client
  BY <1>2 DEF Arrives, FramesAreOld
<1>3. CASE p = Session
  <2>1. wire[p] \in Seq(Frame) /\ wire[p] # <<>>
    BY DEF TypeOK, Arrives
  <2>2. 1 \in DOMAIN wire[p] /\ Head(wire[p]) = wire[p][1]
    BY <2>1, WireContents, ConstantTypes
  <2>3. wire[p][1].generation <= link[Client].generation
    BY <1>3, <2>2, OtherPeer DEF FramesAreOld
  <2> QED BY <1>1, <1>3, <2>2, <2>3 DEF IdentityValid, SameGeneration
<1> QED BY <1>2, <1>3, OtherPeer

(* Leasing takes a frame from the queue.                                   *)
LEMMA LeaseKeeps ==
  ASSUME TypeOK, NEW p \in Peer, LeaseFrame(p), NEW d \in Peer
  PROVE  Keeps(d)
<1>1. /\ link' = link /\ outbound' = outbound /\ wire' = wire /\ sent' = sent
      /\ accepted' = accepted /\ base' = base /\ lease \in [Peer -> Frame]
  BY DEF LeaseFrame, TypeOK
<1>2. CASE d # p
  <2>1. lease'[d] = lease[d]
    BY <1>1, <1>2 DEF LeaseFrame
  <2> QED BY <1>1, <2>1 DEF Keeps
<1>3. CASE d = p
  <2> DEFINE l == link[p]
  <2>1. CASE lease' = [lease EXCEPT ![p] = EncodeResync(l)]
    <3>1. lease'[p].generation = l.generation /\ lease'[p].type = "resync"
      BY <1>1, <2>1 DEF EncodeResync
    <3> QED BY <1>1, <1>3, <3>1 DEF Keeps
  <2>2. CASE lease' = [lease EXCEPT ![p] = EncodeAck(l)]
    <3>1. lease'[p].generation = l.generation /\ lease'[p].type = "ack"
      BY <1>1, <2>2 DEF EncodeAck
    <3> QED BY <1>1, <1>3, <3>1 DEF Keeps
  <2>3. ASSUME NEW e \in NextToSend(outbound[p], l.generation),
               lease' = [lease EXCEPT ![p] = EncodeData(l, e.seq, e.msg)]
        PROVE  Keeps(d)
    <3>1. /\ lease'[p].generation = l.generation
          /\ lease'[p].seq = e.seq /\ lease'[p].msg = e.msg
      BY <1>1, <2>3 DEF EncodeData
    <3>2. e \in outbound[p]
      BY DEF NextToSend
    <3> QED BY <1>1, <1>3, <3>1, <3>2 DEF Keeps
  <2> QED BY <2>1, <2>2, <2>3 DEF LeaseFrame
<1> QED BY <1>2, <1>3

(* mark_sent and resend_from change no number and no message.              *)
LEMMA MarkEntries ==
  ASSUME NEW q \in SUBSET Entry, NEW s \in Nat, NEW g \in Nat
  PROVE  /\ \A e \in MarkSent(q, s, g) : \E x \in q :
              /\ x.seq = e.seq /\ x.msg = e.msg
              /\ e.sent = IF x.seq = s THEN g ELSE x.sent
         /\ \A e \in ResendFrom(q, s) : \E x \in q : x.seq = e.seq /\ x.msg = e.msg
<1>1. \A e \in Entry : \A h \in Nat :
        LET y == [e EXCEPT !.sent = h] IN y.seq = e.seq /\ y.msg = e.msg /\ y.sent = h
  BY DEF Entry
<1>2. ASSUME NEW e \in MarkSent(q, s, g)
      PROVE  \E x \in q : /\ x.seq = e.seq /\ x.msg = e.msg
                          /\ e.sent = IF x.seq = s THEN g ELSE x.sent
  <2>1. PICK x \in q : e = IF x.seq = s THEN [x EXCEPT !.sent = g] ELSE x
    BY DEF MarkSent
  <2> QED BY <1>1, <2>1
<1>3. ASSUME NEW e \in ResendFrom(q, s)
      PROVE  \E x \in q : x.seq = e.seq /\ x.msg = e.msg
  <2>1. PICK x \in q : e = IF x.seq >= s THEN [x EXCEPT !.sent = 0] ELSE x
    BY DEF ResendFrom
  <2> QED BY <1>1, <2>1
<1> QED BY <1>2, <1>3

(* Acknowledging a lease moves no number of the link.                      *)
LEMMA SentNumbers ==
  ASSUME NEW l \in Link, NEW n \in Nat
  PROVE  /\ SameNumbers(l, AcknowledgeSentAck(l, n))
         /\ SameNumbers(l, AcknowledgeSentResync(l, n))
BY DEF AcknowledgeSentAck, AcknowledgeSentResync, SameNumbers, Link

(* Sending a leased frame.                                                 *)
LEMMA TransmitKeeps ==
  ASSUME TypeOK, NEW p \in Peer, TransmitLeased(p), NEW d \in Peer
  PROVE  Keeps(d)
<1> DEFINE f == lease[p]
           o == Other(p)
<1>1. /\ o \in Peer /\ o # p /\ Other(o) = p /\ (d = p \/ d = o)
      /\ link \in [Peer -> Link] /\ outbound \in [Peer -> SUBSET Entry]
      /\ lease \in [Peer -> Frame] /\ wire \in [Peer -> Seq(Frame)]
  BY OtherPeer DEF TypeOK
<1>2. sent' = sent /\ accepted' = accepted /\ base' = base
  BY DEF TransmitLeased
<1>3. f \in Frame /\ f.seq \in Nat /\ f.ack \in Nat /\ f.generation \in Nat
  BY <1>1 DEF Frame
<1>4. ASSUME NEW r \in Peer
      PROVE  SameNumbers(link[r], link'[r])
  <2>1. CASE link' = link
    BY <2>1 DEF SameNumbers
  <2>2. CASE link' # link
    <3>1. link' = [link EXCEPT ![p] =
                     IF f.type = "resync" THEN AcknowledgeSentResync(@, f.seq)
                                          ELSE AcknowledgeSentAck(@, f.ack)]
      BY <2>2 DEF TransmitLeased, AcknowledgeLease
    <3>2. CASE r = p
      BY <1>1, <1>3, <3>1, <3>2, SentNumbers
    <3>3. CASE r # p
      BY <1>1, <3>1, <3>3 DEF SameNumbers
    <3> QED BY <3>2, <3>3
  <2> QED BY <2>1, <2>2
<1>5. \A e \in outbound'[d] : \E x \in outbound[d] : x.seq = e.seq /\ x.msg = e.msg
  <2>1. CASE outbound' = outbound
    BY <2>1
  <2>2. CASE outbound' # outbound
    <3>1. outbound' = [outbound EXCEPT ![p] = MarkSent(@, f.seq, f.generation)]
      BY <2>2 DEF TransmitLeased, AcknowledgeLease
    <3>2. CASE d = p
      <4>1. outbound'[p] = MarkSent(outbound[p], f.seq, f.generation)
        BY <1>1, <3>1
      <4>2. \A e \in MarkSent(outbound[p], f.seq, f.generation) :
              \E x \in outbound[p] : x.seq = e.seq /\ x.msg = e.msg
        <5> HIDE DEF f
        <5>1. outbound[p] \in SUBSET Entry
          BY <1>1
        <5>2. \A e \in MarkSent(outbound[p], f.seq, f.generation) : \E x \in outbound[p] :
                /\ x.seq = e.seq /\ x.msg = e.msg
                /\ e.sent = IF x.seq = f.seq THEN f.generation ELSE x.sent
          BY <1>3, <5>1, MarkEntries
        <5> QED BY <5>2
      <4> QED BY <3>2, <4>1, <4>2
    <3>3. CASE d # p
      BY <1>1, <3>1, <3>3
    <3> QED BY <3>2, <3>3
  <2> QED BY <2>1, <2>2
<1>6. ASSUME NEW i \in DOMAIN wire'[Other(d)]
      PROVE  \/ wire'[Other(d)][i] = lease[d]
             \/ \E j \in DOMAIN wire[Other(d)] : wire'[Other(d)][i] = wire[Other(d)][j]
  <2>1. CASE wire' = wire
    BY <2>1
  <2>2. CASE wire' # wire
    <3>1. wire' = [wire EXCEPT ![o] = Append(@, f)]
      BY <2>2 DEF TransmitLeased, Carry
    <3>2. CASE d = p
      <4>1. wire'[Other(d)] = Append(wire[o], f)
        BY <1>1, <3>1, <3>2
      <4> QED BY <1>1, <1>3, <1>6, <3>2, <4>1, WireContents
    <3>3. CASE d = o
      <4>1. wire'[Other(d)] = wire[Other(d)]
        BY <1>1, <3>1, <3>3
      <4> QED BY <4>1
    <3> QED BY <1>1, <3>2, <3>3
  <2> QED BY <2>1, <2>2
<1>7. lease'[d] = lease[d] \/ lease'[d] = NoFrame
  BY <1>1 DEF TransmitLeased, AcknowledgeLease
<1>8. Other(d) \in Peer
  BY OtherPeer
<1> QED BY <1>2, <1>4, <1>5, <1>6, <1>7, <1>8 DEF Keeps, SameNumbers

(* Receptions that deliver nothing.                                        *)
LEMMA ReceptionKeeps ==
  ASSUME TypeOK, FramesAreOld, GenerationsAgree, NEW p \in Peer,
         ReceiveOutOfOrder(p) \/ ReceiveControl(p), NEW d \in Peer
  PROVE  Keeps(d)
<1> DEFINE f == Head(wire[p])
           l == AcceptPeerAck(link[p], f.ack)
<1>1. /\ link \in [Peer -> Link] /\ outbound \in [Peer -> SUBSET Entry]
      /\ wire \in [Peer -> Seq(Frame)] /\ Other(d) \in Peer
  BY OtherPeer DEF TypeOK
<1>2. /\ sent' = sent /\ accepted' = accepted /\ base' = base /\ lease' = lease
      /\ wire' = [wire EXCEPT ![p] = Tail(@)] /\ Arrives(p)
      /\ IdentityValid(link[p], f)
  BY DEF ReceiveOutOfOrder, ReceiveControl
<1>3. SameGeneration
  BY <1>2, TakenInGeneration
<1>4. f \in Frame /\ f.ack \in Nat /\ f.seq \in Nat
  BY <1>2, WireTypes DEF Arrives, Frame
<1>5. /\ l \in Link /\ l.generation = link[p].generation
      /\ l.next_send = link[p].next_send /\ l.applied = link[p].applied
  BY <1>1, <1>4, AckNumbers
<1> HIDE DEF l
<1>6. ASSUME NEW r \in Peer
      PROVE  /\ link'[r].generation = link[r].generation
             /\ link'[r].next_send = link[r].next_send
             /\ link'[r].applied = link[r].applied
  <2>1. CASE r # p
    BY <1>1, <2>1 DEF ReceiveOutOfOrder, ReceiveControl
  <2>2. CASE r = p
    <3>1. \/ link' = link
          \/ link' = [link EXCEPT ![p] = l]
          \/ link' = [link EXCEPT ![p] = AcceptDuplicate(l)]
          \/ link' = [link EXCEPT ![p] = RequestResync(l)]
      BY DEF ReceiveOutOfOrder, ReceiveControl, l
    <3>2. /\ SameNumbers(l, AcceptDuplicate(l))
          /\ SameNumbers(l, RequestResync(l))
      BY <1>5 DEF SameNumbers, AcceptDuplicate, RequestResync, Link
    <3> QED BY <1>1, <1>5, <2>2, <3>1, <3>2 DEF SameNumbers
  <2> QED BY <2>1, <2>2
<1>7. \A e \in outbound'[d] : \E x \in outbound[d] : x.seq = e.seq /\ x.msg = e.msg
  <2>1. CASE d # p
    BY <1>1, <2>1 DEF ReceiveOutOfOrder, ReceiveControl
  <2>2. CASE d = p
    <3>1. \/ outbound'[p] = AcknowledgeThrough(outbound[p], l.peer_acknowledged)
          \/ outbound'[p] = ResendFrom(outbound[p], f.seq)
      BY <1>1 DEF ReceiveOutOfOrder, ReceiveControl, l
    <3>2. CASE outbound'[p] = AcknowledgeThrough(outbound[p], l.peer_acknowledged)
      BY <2>2, <3>2 DEF AcknowledgeThrough
    <3>3. CASE outbound'[p] = ResendFrom(outbound[p], f.seq)
      <4>1. \A e \in ResendFrom(outbound[p], f.seq) :
              \E x \in outbound[p] : x.seq = e.seq /\ x.msg = e.msg
        BY <1>1, <1>4, MarkEntries
      <4> QED BY <2>2, <3>3, <4>1
    <3> QED BY <3>1, <3>2, <3>3
  <2> QED BY <2>1, <2>2
<1>8. ASSUME NEW i \in DOMAIN wire'[Other(d)]
      PROVE  \E j \in DOMAIN wire[Other(d)] : wire'[Other(d)][i] = wire[Other(d)][j]
  <2>1. CASE Other(d) # p
    BY <1>1, <1>2, <2>1
  <2>2. CASE Other(d) = p
    <3>1. wire'[p] = Tail(wire[p]) /\ wire[p] # <<>> /\ wire[p] \in Seq(Frame)
      BY <1>1, <1>2 DEF Arrives
    <3> QED BY <1>4, <1>8, <2>2, <3>1, WireContents
  <2> QED BY <2>1, <2>2
<1> QED BY <1>1, <1>2, <1>3, <1>6, <1>7, <1>8 DEF Keeps

(* Lost and repeated frames, closed sockets, ended hosts, offers.          *)
LEMMA LossKeeps ==
  ASSUME TypeOK, NEW d \in Peer,
         \/ \E p \in Peer : ReceiveRefused(p) \/ LoseFrame(p) \/ RepeatFrame(p)
         \/ ClientOverflow \/ ClientDisconnect \/ SessionDisconnect
         \/ BeginResume \/ DropOffer
  PROVE  Keeps(d)
<1>1. /\ link' = link /\ sent' = sent /\ accepted' = accepted /\ base' = base
  BY DEF ReceiveRefused, LoseFrame, RepeatFrame, ClientOverflow, ClientDisconnect,
         SessionDisconnect, BeginResume, DropOffer, Terminate
<1>2. /\ outbound \in [Peer -> SUBSET Entry] /\ lease \in [Peer -> Frame]
      /\ wire \in [Peer -> Seq(Frame)] /\ Other(d) \in Peer
      /\ Client \in Peer /\ Session \in Peer
  BY OtherPeer DEF TypeOK
<1>3. outbound'[d] \subseteq outbound[d]
  BY <1>2 DEF ReceiveRefused, LoseFrame, RepeatFrame, ClientOverflow, ClientDisconnect,
         SessionDisconnect, BeginResume, DropOffer, Terminate
<1>4. lease'[d] = lease[d] \/ lease'[d] = NoFrame
  BY <1>2 DEF ReceiveRefused, LoseFrame, RepeatFrame, ClientOverflow, ClientDisconnect,
         SessionDisconnect, BeginResume, DropOffer, Terminate
<1>5. ASSUME NEW r \in Peer, NEW i \in DOMAIN wire'[r]
      PROVE  \E j \in DOMAIN wire[r] : wire'[r][i] = wire[r][j]
  <2>1. CASE wire'[r] = wire[r]
    BY <1>5, <2>1
  <2>2. CASE wire'[r] = <<>>
    <3>1. DOMAIN wire'[r] = {}
      BY <2>2
    <3> QED BY <1>5, <3>1
  <2>3. CASE \E p \in Peer : LoseFrame(p) \/ RepeatFrame(p)
    <3>1. PICK p \in Peer : LoseFrame(p) \/ RepeatFrame(p)
      BY <2>3
    <3>2. wire[p] \in Seq(Frame) /\ wire[p] # <<>>
      BY <1>2, <3>1 DEF LoseFrame, RepeatFrame, Arrives
    <3>3. /\ 1 \in DOMAIN wire[p] /\ Head(wire[p]) = wire[p][1]
          /\ Head(wire[p]) \in Frame
          /\ \A k \in DOMAIN Tail(wire[p]) :
               \E j \in DOMAIN wire[p] : Tail(wire[p])[k] = wire[p][j]
      BY <3>2, WireContents, ConstantTypes
    <3>4. \A k \in DOMAIN Append(wire[p], Head(wire[p])) :
            \E j \in DOMAIN wire[p] : Append(wire[p], Head(wire[p]))[k] = wire[p][j]
      BY <3>2, <3>3, WireContents
    <3>5. CASE r = p
      <4>1. wire'[p] = Tail(wire[p]) \/ wire'[p] = Append(wire[p], Head(wire[p]))
        BY <1>2, <3>1 DEF LoseFrame, RepeatFrame
      <4> QED BY <1>5, <3>3, <3>4, <3>5, <4>1
    <3>6. CASE r # p
      <4>1. wire'[r] = wire[r]
        BY <1>2, <3>1, <3>6 DEF LoseFrame, RepeatFrame
      <4> QED BY <1>5, <4>1
    <3> QED BY <3>5, <3>6
  <2>4. \/ wire'[r] = wire[r] \/ wire'[r] = <<>>
        \/ \E p \in Peer : LoseFrame(p) \/ RepeatFrame(p)
    BY <1>2 DEF ReceiveRefused, ClientOverflow, ClientDisconnect,
         SessionDisconnect, BeginResume, DropOffer, Terminate
  <2> QED BY <2>1, <2>2, <2>3, <2>4
<1> QED BY <1>1, <1>2, <1>3, <1>4, <1>5 DEF Keeps

----------------------------------------------------------------------------
(* Publications and deliveries.                                            *)

(* What a turn publishes is the next of its kind, and is recorded so.      *)
LEMMA PublicationSays ==
  ASSUME TypeOK, NEW p \in Peer, NEW m \in Publications(p)
  PROVE  /\ m \in Message
         /\ m # NoMessage => m.kind \in Sequenced
         /\ m.kind \in Kind => m.n = sent[p][m.kind] + 1
         /\ \A k \in Kind : RecordSent(p, m)[p][k] = IF m.kind = k THEN m.n ELSE sent[p][k]
         /\ \A d \in Peer : d # p => RecordSent(p, m)[d] = sent[d]
<1>1. m = NoMessage \/ \E k \in Sequenced : m = [kind |-> k, n |-> sent[p][k] + 1]
  BY DEF Publications, Publication
<1>2. m \in Message
  BY PublicationTypes
<1>3. sent \in [Peer -> [Kind -> Nat]]
  BY DEF TypeOK
<1>4. CASE m = NoMessage
  BY <1>2, <1>3, <1>4 DEF NoMessage, Kind, RecordSent
<1>5. ASSUME NEW h \in Sequenced, m = [kind |-> h, n |-> sent[p][h] + 1]
      PROVE  /\ m.kind \in Sequenced
             /\ m.n = sent[p][m.kind] + 1
             /\ \A k \in Kind :
                  RecordSent(p, m)[p][k] = IF m.kind = k THEN m.n ELSE sent[p][k]
             /\ \A d \in Peer : d # p => RecordSent(p, m)[d] = sent[d]
  <2>1. m.kind = h /\ m.n = sent[p][h] + 1 /\ h \in Kind /\ m # NoMessage
    BY <1>5 DEF Sequenced, Kind, NoMessage
  <2>2. RecordSent(p, m) = [sent EXCEPT ![p][m.kind] = m.n]
    BY <2>1 DEF RecordSent
  <2> QED BY <1>3, <2>1, <2>2
<1>6. m # NoMessage => \E h \in Sequenced : m = [kind |-> h, n |-> sent[p][h] + 1]
  BY <1>1
<1>7. CASE m # NoMessage
  BY <1>2, <1>5, <1>6, <1>7
<1> QED BY <1>4, <1>2, <1>3, <1>7 DEF NoMessage, Kind, RecordSent

(* The last applied operation was numbered.                                *)
LEMMA BeginsInRange ==
  ASSUME TypeOK, HandoverInvariant, NEW p \in Peer
  PROVE  Begins(p) \in 0 .. LastSend(link[p])
<1>1. Other(p) \in Peer /\ link[p] \in Link /\ link[Other(p)] \in Link
  BY OtherPeer DEF TypeOK
<1>2. /\ link[p].peer_acknowledged <= LastSend(link[p])
      /\ SameGeneration => link[Other(p)].applied <= LastSend(link[p])
  BY DEF HandoverInvariant, GenerationsAgree, WatermarksAgree
<1> QED BY <1>1, <1>2, LinkNumbers DEF Begins

(* A longer count still tells what the shorter one told.                   *)
LEMMA TalliesPushed ==
  ASSUME TypeOK, TypeOK', NEW p \in Peer, NEW c, NEW d, Tallies(p, c),
         Counts(d, outbound'[p], link'[p], sent'[p]["event"]),
         \A k \in 0 .. LastSend(link[p]) : d[k] = c[k],
         LastSend(link[p]) <= LastSend(link'[p]),
         link'[p].generation = link[p].generation,
         wire'[Other(p)] = wire[Other(p)], lease'[p] = lease[p],
         Begins(p)' = Begins(p), Begins(p) \in 0 .. LastSend(link[p]),
         Reached(p)' = Reached(p)
  PROVE  Tallies(p, d)'
<1>1. LastSend(link[p]) \in Nat /\ LastSend(link'[p]) \in Nat
  BY LinkNumbers DEF TypeOK
<1>2. c \in [Nat -> Nat] /\ d \in [Nat -> Nat]
  BY DEF Tallies, Counts
<1>3. ASSUME NEW s \in Nat, NEW m \in Message, Flies(p, s, m)'
      PROVE  Tells(d, s, m, LastSend(link'[p]))
  <2>1. Flies(p, s, m)
    BY <1>3 DEF Flies
  <2>2. Tells(c, s, m, LastSend(link[p]))
    BY <2>1 DEF Tallies
  <2> QED BY <1>1, <1>2, <2>2, TellsLonger
<1>4. d[Begins(p)] = Reached(p)
  BY DEF Tallies
<1> QED BY <1>3, <1>4 DEF Tallies

(* A publication is counted.                                               *)
LEMMA PublishEvents ==
  ASSUME TypeOK, TypeOK', HandoverInvariant, EventsInvariant, NEW p \in Peer,
         NEW k \in Sequenced, Publish(p, k)
  PROVE  EventsInvariant'
<1> DEFINE o == Other(p)
<1>1. PICK m \in Publication(p, k) : Publish(p, k)!(m)
  BY DEF Publish
<1>2. m \in Publications(p)
  BY DEF Publications
<1>3. /\ link' = [link EXCEPT ![p] = PushLink(outbound[p], link[p], m)]
      /\ outbound' = [outbound EXCEPT ![p] = PushQueue(outbound[p], link[p], m)]
      /\ sent' = RecordSent(p, m) /\ wire' = wire /\ lease' = lease
      /\ accepted' = accepted /\ base' = base /\ phase' = phase
  BY <1>1
<1>4. /\ o \in Peer /\ o # p /\ Other(o) = p /\ \A d \in Peer : d = p \/ d = o
      /\ link \in [Peer -> Link] /\ outbound \in [Peer -> SUBSET Entry]
      /\ sent \in [Peer -> [Kind -> Nat]] /\ base \in [Peer -> Nat]
      /\ accepted \in [Peer -> [Kind -> Nat]] /\ "event" \in Kind
  BY OtherPeer DEF TypeOK, Kind
<1>5. /\ m \in Message /\ (m.kind = "event" => m.n = sent[p]["event"] + 1)
      /\ sent'[p]["event"] = IF m.kind = "event" THEN sent[p]["event"] + 1
                             ELSE sent[p]["event"]
      /\ sent'[o] = sent[o]
  BY <1>2, <1>3, <1>4, PublicationSays
<1>6. /\ link'[p] = PushLink(outbound[p], link[p], m) /\ link'[o] = link[o]
      /\ outbound'[p] = PushQueue(outbound[p], link[p], m) /\ outbound'[o] = outbound[o]
  BY <1>3, <1>4
<1>7. /\ link[p] \in Link /\ LastSend(link[p]) \in Nat
      /\ link'[p].generation = link[p].generation
      /\ link'[p].applied = link[p].applied
      /\ link'[p].peer_acknowledged = link[p].peer_acknowledged
      /\ LastSend(link[p]) <= LastSend(link'[p])
  <2>1. link[p] \in Link /\ LastSend(link[p]) \in Nat
    BY <1>4, LinkNumbers
  <2> QED BY <1>6, <2>1, PushLast
<1>8. FramesAreOld' /\ SameGeneration' = SameGeneration
  BY <1>3, <1>4, <1>6, <1>7, FramesAreOldKept DEF EventsInvariant
<1>9. Counted(o)'
  <2>1. ASSUME NEW c, Tallies(o, c) PROVE Tallies(o, c)'
    <3>1. Begins(o)' = Begins(o) /\ Reached(o)' = Reached(o)
      BY <1>3, <1>4, <1>6, <1>7, <1>8 DEF Begins, Reached, Taken
    <3>2. ASSUME NEW s \in Nat, NEW x \in Message, Flies(o, s, x)'
          PROVE  Flies(o, s, x)
      BY <1>3, <1>6, <3>2 DEF Flies
    <3>3. Counts(c, outbound'[o], link'[o], sent'[o]["event"])
      BY <1>5, <1>6, <2>1 DEF Tallies
    <3> QED BY <1>6, <2>1, <3>1, <3>2, <3>3 DEF Tallies
  <2> QED BY <1>4, <1>8, <2>1 DEF EventsInvariant, Counted
<1>10. Counted(p)'
  <2>1. ASSUME NEW c, Tallies(p, c) PROVE \E d : Tallies(p, d)'
    <3>1. Counts(c, outbound[p], link[p], sent[p]["event"])
      BY <2>1 DEF Tallies
    <3>2. PICK d : /\ Counts(d, outbound'[p], link'[p], sent'[p]["event"])
                   /\ \A j \in 0 .. LastSend(link[p]) : d[j] = c[j]
      <4>1. outbound[p] \in SUBSET Entry /\ sent[p]["event"] \in Nat
        BY <1>4
      <4>2. m \in Message /\ (m.kind = "event" => m.n = sent[p]["event"] + 1) /\ link[p] \in Link
        BY <1>5, <1>7
      <4>3. \E d : /\ Counts(d, PushQueue(outbound[p], link[p], m),
                             PushLink(outbound[p], link[p], m),
                             IF m.kind = "event" THEN sent[p]["event"] + 1
                             ELSE sent[p]["event"])
                   /\ \A j \in 0 .. LastSend(link[p]) : d[j] = c[j]
        BY <3>1, <4>1, <4>2, PushCounts
      <4> QED BY <1>5, <1>6, <4>3
    <3>3. Begins(p)' = Begins(p) /\ Reached(p)' = Reached(p)
      BY <1>3, <1>6, <1>7, <1>8 DEF Begins, Reached, Taken
    <3>4. Begins(p) \in 0 .. LastSend(link[p])
      BY BeginsInRange
    <3>5. wire'[Other(p)] = wire[Other(p)] /\ lease'[p] = lease[p]
      BY <1>3
    <3> QED BY <1>7, <2>1, <3>2, <3>3, <3>4, <3>5, TalliesPushed
  <2> QED BY <1>8, <2>1 DEF EventsInvariant, Counted
<1>11. EventsBounded'
  <2>1. \A d \in Peer : sent'[d]["event"] >= sent[d]["event"]
    BY <1>4, <1>5
  <2>2. \A d \in Peer : /\ sent'[d]["event"] \in Nat /\ sent[d]["event"] \in Nat
                        /\ base[d] \in Nat /\ Taken(d) \in Nat
    <3>1. sent' \in [Peer -> [Kind -> Nat]]
      BY DEF TypeOK
    <3>2. \A d \in Peer : Other(d) \in Peer
      BY OtherPeer
    <3>3. \A d \in Peer : Taken(d) \in Nat
      BY <1>4, <3>2 DEF Taken
    <3> QED BY <1>4, <3>1, <3>3
  <2>3. \A d \in Peer : Taken(d)' = Taken(d) /\ base'[d] = base[d]
    BY <1>3 DEF Taken
  <2>4. ASSUME NEW d \in Peer
        PROVE  base'[d] <= sent'[d]["event"] /\ Taken(d)' <= sent'[d]["event"]
    <3>1. base[d] <= sent[d]["event"] /\ Taken(d) <= sent[d]["event"]
      BY DEF EventsInvariant, EventsBounded
    <3> QED BY <2>1, <2>2, <2>3, <3>1
  <2>5. ~ SameGeneration' => Taken(Session)' <= base'[Session]
    BY <1>8, <2>3, OtherPeer DEF EventsInvariant, EventsBounded
  <2> QED BY <2>4, <2>5 DEF EventsBounded
<1> QED BY <1>4, <1>8, <1>9, <1>10, <1>11 DEF EventsInvariant

(* The queue and the link of an end that takes the expected frame.         *)
LEMMA AcceptedSays ==
  ASSUME TypeOK, NEW p \in Peer, NEW f \in Frame
  PROVE  /\ AcceptedQueue(p, f) \subseteq outbound[p]
         /\ AcceptedLink(p, f) \in Link
         /\ LastSend(AcceptedLink(p, f)) = LastSend(link[p])
         /\ AcceptedLink(p, f).generation = link[p].generation
         /\ AcceptedLink(p, f).applied = f.seq
         /\ AcceptedLink(p, f).resync = 0
         /\ AcceptedLink(p, f).peer_acknowledged =
              AcceptPeerAck(link[p], f.ack).peer_acknowledged
<1>1. link[p] \in Link /\ f.ack \in Nat /\ f.seq \in Nat /\ f.msg \in Message
  BY DEF TypeOK, Frame
<1>2. PICK l \in Link : l = AcceptPeerAck(link[p], f.ack)
  BY <1>1, LinkTypes
<1>3. l.generation = link[p].generation /\ l.next_send = link[p].next_send
  BY <1>1, <1>2, AckNumbers
<1>4. LET x == AcceptNext(l, f.seq, f.msg) IN
      /\ x.generation = l.generation /\ x.next_send = l.next_send
      /\ x.peer_acknowledged = l.peer_acknowledged /\ x.applied = f.seq /\ x.resync = 0
  BY DEF AcceptNext, Link
<1>5. AcceptedLink(p, f) = AcceptNext(l, f.seq, f.msg)
  BY <1>2 DEF AcceptedLink
<1>6. AcceptedLink(p, f) \in Link
  BY ReplyTypes
<1>7. AcceptedQueue(p, f) \subseteq outbound[p]
  BY DEF AcceptedQueue, AcknowledgeThrough
<1> QED BY <1>2, <1>3, <1>4, <1>5, <1>6, <1>7 DEF LastSend

(* A push of anything but an event keeps the count.                        *)
LEMMA PushKeepsCount ==
  \A q \in SUBSET Entry, l \in Link, m \in Message, n \in Nat : \A c :
    (Counts(c, q, l, n) /\ m.kind # "event") =>
      \E d : /\ Counts(d, PushQueue(q, l, m), PushLink(q, l, m), n)
             /\ \A k \in 0 .. LastSend(l) : d[k] = c[k]
<1> TAKE q \in SUBSET Entry, l \in Link, m \in Message, n \in Nat
<1> TAKE c
<1> HAVE Counts(c, q, l, n) /\ m.kind # "event"
<1>1. \E d : /\ Counts(d, PushQueue(q, l, m), PushLink(q, l, m),
                       IF m.kind = "event" THEN n + 1 ELSE n)
             /\ \A k \in 0 .. LastSend(l) : d[k] = c[k]
  BY PushCounts
<1> QED BY <1>1

(* A turn that takes the expected frame pushes the reply and what the      *)
(* program publishes: the count of p's events goes on.                     *)
LEMMA TurnCounts ==
  ASSUME TypeOK, NEW p \in Peer, NEW f \in Frame, NEW m \in Publications(p), NEW c,
         Counts(c, outbound[p], link[p], sent[p]["event"])
  PROVE  \E d :
           /\ Counts(d, PushQueue(RepliedQueue(p, f), RepliedLink(p, f), m),
                     PushLink(RepliedQueue(p, f), RepliedLink(p, f), m),
                     RecordSent(p, m)[p]["event"])
           /\ \A j \in 0 .. LastSend(link[p]) : d[j] = c[j]
<1>1. PICK n \in Nat : n = sent[p]["event"]
  BY DEF TypeOK, Kind
<1>2. /\ AcceptedQueue(p, f) \in SUBSET Entry /\ AcceptedLink(p, f) \in Link
      /\ RepliedQueue(p, f) \in SUBSET Entry /\ RepliedLink(p, f) \in Link
  BY ReplyTypes
<1>3. Reply(f.msg) \in Message /\ Reply(f.msg).kind # "event"
  <2>1. f.msg.n \in Nat
    BY DEF Frame, Message
  <2> QED BY <2>1, ConstantTypes DEF Reply, Message, Kind, NoMessage
<1>4. Counts(c, AcceptedQueue(p, f), AcceptedLink(p, f), n)
  BY <1>1, AcceptedSays DEF Counts
<1>5. PICK b : /\ Counts(b, RepliedQueue(p, f), RepliedLink(p, f), n)
               /\ \A j \in 0 .. LastSend(AcceptedLink(p, f)) : b[j] = c[j]
  BY <1>2, <1>3, <1>4, PushKeepsCount DEF RepliedQueue, RepliedLink
<1>6. /\ m \in Message /\ (m.kind = "event" => m.n = n + 1)
      /\ RecordSent(p, m)[p]["event"] = IF m.kind = "event" THEN n + 1 ELSE n
  <2>1. "event" \in Kind
    BY DEF Kind
  <2> QED BY <1>1, <2>1, PublicationSays
<1>7. PICK d : /\ Counts(d, PushQueue(RepliedQueue(p, f), RepliedLink(p, f), m),
                         PushLink(RepliedQueue(p, f), RepliedLink(p, f), m),
                         IF m.kind = "event" THEN n + 1 ELSE n)
               /\ \A j \in 0 .. LastSend(RepliedLink(p, f)) : d[j] = b[j]
  BY <1>2, <1>5, <1>6, PushCounts
<1>8. LastSend(link[p]) <= LastSend(RepliedLink(p, f))
  <2>1. /\ LastSend(AcceptedLink(p, f)) = LastSend(link[p])
        /\ LastSend(link[p]) \in Nat
    BY AcceptedSays, LinkNumbers DEF TypeOK
  <2>2. LastSend(AcceptedLink(p, f)) <= LastSend(RepliedLink(p, f))
    BY <1>2, <1>3, PushGrows DEF RepliedLink
  <2> QED BY <2>1, <2>2
<1>9. /\ LastSend(AcceptedLink(p, f)) = LastSend(link[p])
      /\ LastSend(link[p]) \in Nat /\ LastSend(RepliedLink(p, f)) \in Nat
  BY <1>2, AcceptedSays, LinkNumbers DEF TypeOK
<1>10. \A j \in 0 .. LastSend(link[p]) : d[j] = c[j]
  BY <1>5, <1>7, <1>8, <1>9
<1> QED BY <1>6, <1>7, <1>10

(* The numbers of p's link after such a turn.                              *)
LEMMA TurnLink ==
  ASSUME TypeOK, NEW p \in Peer, NEW f \in Frame, NEW m \in Message
  PROVE  LET k == PushLink(RepliedQueue(p, f), RepliedLink(p, f), m) IN
         /\ k \in Link /\ k.generation = link[p].generation /\ k.applied = f.seq
         /\ LastSend(link[p]) <= LastSend(k)
         /\ k.peer_acknowledged = AcceptPeerAck(link[p], f.ack).peer_acknowledged
         /\ k.resync = 0
<1>1. PICK a \in Link : a = AcceptedLink(p, f)
  BY AcceptedSays
<1>2. PICK q \in SUBSET Entry : q = AcceptedQueue(p, f)
  BY ReplyTypes
<1>3. PICK y \in Message : y = Reply(f.msg)
  <2>1. f.msg.n \in Nat
    BY DEF Frame, Message
  <2> QED BY <2>1, ConstantTypes DEF Reply, Message, Kind
<1>4. PICK r \in Link : r = RepliedLink(p, f)
  BY ReplyTypes
<1>5. r = PushLink(q, a, y)
  BY <1>1, <1>2, <1>3, <1>4 DEF RepliedLink
<1>6. PICK s \in SUBSET Entry : s = RepliedQueue(p, f)
  BY ReplyTypes
<1>7. PICK k : k = PushLink(s, r, m)
  OBVIOUS
<1>8. /\ LastSend(a) = LastSend(link[p]) /\ LastSend(link[p]) \in Nat
      /\ a.generation = link[p].generation /\ a.applied = f.seq /\ a.resync = 0
      /\ a.peer_acknowledged = AcceptPeerAck(link[p], f.ack).peer_acknowledged
  BY <1>1, AcceptedSays, LinkNumbers DEF TypeOK
<1>9. /\ LastSend(a) <= LastSend(r) /\ r.generation = a.generation
      /\ r.applied = a.applied /\ r.peer_acknowledged = a.peer_acknowledged
      /\ r.resync = a.resync
  BY <1>5, PushGrows
<1>10. LastSend(r) \in Nat
  BY LinkNumbers
<1>11. /\ k \in Link /\ LastSend(r) <= LastSend(k) /\ k.generation = r.generation
       /\ k.applied = r.applied /\ k.peer_acknowledged = r.peer_acknowledged
       /\ k.resync = r.resync
  BY <1>7, PushGrows
<1>12. LastSend(k) \in Nat
  BY <1>11, LinkNumbers
<1>13. k = PushLink(RepliedQueue(p, f), RepliedLink(p, f), m)
  BY <1>4, <1>6, <1>7
<1> QED BY <1>8, <1>9, <1>10, <1>11, <1>12, <1>13

(* Revisions and bases are numbers.                                        *)
LEMMA RevisionTypes ==
  ASSUME TypeOK, NEW p \in Peer
  PROVE  /\ base[p] \in Nat /\ sent[p] \in [Kind -> Nat] /\ accepted[p] \in [Kind -> Nat]
         /\ sent[p]["event"] \in Nat /\ accepted[p]["event"] \in Nat
         /\ sent \in [Peer -> [Kind -> Nat]] /\ accepted \in [Peer -> [Kind -> Nat]]
BY DEF TypeOK, Kind

(* What the expected frame of a wire says: it is the next of the count.    *)
LEMMA NextIsCounted ==
  ASSUME TypeOK, HandoverInvariant, FramesAreOld, NEW p \in Peer, ReceiveNext(p),
         NEW c, Tallies(Other(p), c)
  PROVE  LET f == Head(wire[p])
             r == Other(p)
         IN
         /\ SameGeneration /\ f \in Frame /\ f.msg.kind \in Kind
         /\ f.seq = link[p].applied + 1 /\ Begins(r) = link[p].applied
         /\ f.msg.kind = "event" =>
              /\ f.msg.n = Reached(r) + 1 /\ f.msg.n <= sent[r]["event"]
              /\ c[f.seq] = Reached(r) + 1 /\ accepted'[p]["event"] = Reached(r) + 1
         /\ f.msg.kind # "event" =>
              /\ c[f.seq] = Reached(r)
              /\ accepted'[p]["event"] = accepted[p]["event"]
<1> DEFINE f == Head(wire[p])
           r == Other(p)
<1>1. /\ r \in Peer /\ r # p /\ Other(r) = p /\ link[p] \in Link /\ link[r] \in Link
      /\ wire[p] \in Seq(Frame) /\ accepted \in [Peer -> [Kind -> Nat]]
      /\ base[r] \in Nat /\ sent[r]["event"] \in Nat /\ accepted[p]["event"] \in Nat
  <2>1. r \in Peer /\ r # p /\ Other(r) = p
    BY OtherPeer
  <2>2. link[p] \in Link /\ link[r] \in Link /\ wire[p] \in Seq(Frame)
    BY <2>1 DEF TypeOK
  <2> QED BY <2>1, <2>2, RevisionTypes
<1>2. /\ Arrives(p) /\ wire[p] # <<>> /\ f.type = "data"
      /\ IdentityValid(link[p], f) /\ f.seq = link[p].applied + 1
      /\ EndpointAccepts(p, f.msg)
      /\ accepted' = [accepted EXCEPT ![p][f.msg.kind] = Greater(f.msg, @)]
  BY DEF ReceiveNext, ExpectsNext, IsNext, Arrives
<1>3. f \in Frame /\ 1 \in DOMAIN wire[p] /\ f = wire[p][1]
  BY <1>1, <1>2, WireContents, ConstantTypes
<1>4. f.seq \in Nat /\ f.msg \in Message /\ f.msg.n \in Nat
  BY <1>3 DEF Frame, Message
<1>5. f.msg.kind \in Kind
  BY <1>2 DEF EndpointAccepts, AcceptsCurrent, AcceptsEvent, AcceptsRequest,
              AcceptsResult, Kind
<1>6. SameGeneration
  BY <1>2, TakenInGeneration DEF HandoverInvariant
<1>7. link[p].generation = link[r].generation
  BY <1>6, OtherPeer DEF SameGeneration
<1>8. Flies(r, f.seq, f.msg)
  BY <1>1, <1>2, <1>3, <1>7 DEF Flies, IdentityValid
<1>9. Tells(c, f.seq, f.msg, LastSend(link[r]))
  BY <1>4, <1>8 DEF Tallies
<1>10. Begins(r) = link[p].applied /\ link[p].applied \in Nat /\ f.seq - 1 = link[p].applied
  <2>1. Begins(r) = link[p].applied
    BY <1>1, <1>6 DEF Begins
  <2>2. link[p].applied \in Nat
    BY <1>1, LinkNumbers
  <2> HIDE DEF f, r
  <2> QED BY <1>2, <2>1, <2>2
<1>11. /\ c \in [Nat -> Nat] /\ c[link[p].applied] = Reached(r)
       /\ \A j \in 0 .. LastSend(link[r]) : c[j] <= sent[r]["event"]
  BY <1>10 DEF Tallies, Counts
<1>12. f.seq \in 0 .. LastSend(link[r])
  BY <1>1, <1>9, LinkNumbers DEF Tells
<1>13. accepted'[p][f.msg.kind] = Greater(f.msg, accepted[p][f.msg.kind])
       /\ \A k \in Kind : k # f.msg.kind => accepted'[p][k] = accepted[p][k]
  BY <1>1, <1>2, <1>5
<1>14. CASE f.msg.kind = "event"
  <2>1. f.msg.n > accepted[p]["event"]
    BY <1>2, <1>14 DEF EndpointAccepts, AcceptsCurrent, AcceptsEvent, AcceptsRequest,
                       AcceptsResult
  <2>2. accepted'[p]["event"] = f.msg.n
    BY <1>13, <1>14, <2>1 DEF Greater
  <2>3. f.msg.n = c[f.seq] /\ c[f.seq] = Reached(r) + 1
    BY <1>9, <1>10, <1>11, <1>14 DEF Tells
  <2>4. c[f.seq] <= sent[r]["event"]
    BY <1>11, <1>12
  <2> QED BY <1>2, <1>3, <1>5, <1>6, <1>10, <1>14, <2>2, <2>3, <2>4
<1>15. CASE f.msg.kind # "event"
  <2>1. c[f.seq] = Reached(r)
    BY <1>9, <1>10, <1>11, <1>15 DEF Tells
  <2>2. accepted'[p]["event"] = accepted[p]["event"]
    BY <1>13, <1>15 DEF Kind
  <2> QED BY <1>2, <1>3, <1>5, <1>6, <1>10, <1>15, <2>1, <2>2
<1> QED BY <1>14, <1>15

(* A delivery and the turn it causes.                                      *)
LEMMA ReceiveNextEvents ==
  ASSUME TypeOK, TypeOK', HandoverInvariant, EventsInvariant, NEW p \in Peer,
         ReceiveNext(p)
  PROVE  EventsInvariant'
<1> DEFINE f == Head(wire[p])
           r == Other(p)
<1>1. /\ r \in Peer /\ r # p /\ Other(r) = p /\ \A d \in Peer : d = p \/ d = r
      /\ link \in [Peer -> Link] /\ outbound \in [Peer -> SUBSET Entry]
      /\ wire \in [Peer -> Seq(Frame)] /\ sent \in [Peer -> [Kind -> Nat]]
      /\ accepted \in [Peer -> [Kind -> Nat]] /\ base \in [Peer -> Nat]
      /\ "event" \in Kind
  BY OtherPeer DEF TypeOK, Kind
<1>2. PICK m \in Publications(p) :
        /\ link' = [link EXCEPT ![p] = PushLink(RepliedQueue(p, f), RepliedLink(p, f), m)]
        /\ outbound' = [outbound EXCEPT ![p] =
             PushQueue(RepliedQueue(p, f), RepliedLink(p, f), m)]
        /\ sent' = RecordSent(p, m)
  BY DEF ReceiveNext
<1>3. /\ accepted' = [accepted EXCEPT ![p][f.msg.kind] = Greater(f.msg, @)]
      /\ wire' = [wire EXCEPT ![p] = Tail(@)] /\ lease' = lease /\ base' = base
      /\ phase' = phase /\ Arrives(p) /\ IdentityValid(link[p], f)
  BY DEF ReceiveNext, ExpectsNext
<1>4. SameGeneration
  BY <1>3, TakenInGeneration DEF HandoverInvariant, EventsInvariant
<1>5. \E c : Tallies(p, c) /\ \E c1 : Tallies(r, c1)
  BY <1>1, <1>4 DEF EventsInvariant, Counted
<1>6. PICK c : Tallies(r, c)
  BY <1>5
<1>7. PICK b : Tallies(p, b)
  BY <1>5
<1>8. /\ f \in Frame /\ f.msg.kind \in Kind
      /\ f.seq = link[p].applied + 1 /\ Begins(r) = link[p].applied
      /\ f.msg.kind = "event" =>
           /\ f.msg.n = Reached(r) + 1 /\ f.msg.n <= sent[r]["event"]
           /\ c[f.seq] = Reached(r) + 1 /\ accepted'[p]["event"] = Reached(r) + 1
      /\ f.msg.kind # "event" =>
           /\ c[f.seq] = Reached(r)
           /\ accepted'[p]["event"] = accepted[p]["event"]
  BY <1>6, NextIsCounted DEF EventsInvariant
<1>9. /\ m \in Message /\ sent'[r] = sent[r]
      /\ sent'[p]["event"] = IF m.kind = "event" THEN sent[p]["event"] + 1
                             ELSE sent[p]["event"]
  <2>1. /\ m \in Message /\ RecordSent(p, m)[r] = sent[r]
        /\ RecordSent(p, m)[p]["event"] = IF m.kind = "event" THEN m.n ELSE sent[p]["event"]
        /\ m.kind = "event" => m.n = sent[p]["event"] + 1
    BY <1>1, PublicationSays
  <2> QED BY <1>2, <2>1
<1>10. /\ link'[p] = PushLink(RepliedQueue(p, f), RepliedLink(p, f), m)
       /\ link'[r] = link[r] /\ outbound'[r] = outbound[r]
       /\ outbound'[p] = PushQueue(RepliedQueue(p, f), RepliedLink(p, f), m)
       /\ wire'[r] = wire[r] /\ wire'[p] = Tail(wire[p])
       /\ accepted'[r] = accepted[r]
  BY <1>1, <1>2, <1>3
<1>11. /\ link'[p].generation = link[p].generation /\ link'[p].applied = f.seq
       /\ LastSend(link[p]) <= LastSend(link'[p])
  BY <1>8, <1>9, <1>10, TurnLink
<1> HIDE DEF f, r
<1>12. ASSUME NEW i \in DOMAIN wire'[p]
       PROVE  \E j \in DOMAIN wire[p] : wire'[p][i] = wire[p][j]
  <2>1. wire[p] \in Seq(Frame) /\ wire[p] # <<>>
    BY <1>1, <1>3 DEF Arrives
  <2> QED BY <1>10, <1>12, <2>1, WireContents, ConstantTypes
<1>13. FramesAreOld' /\ SameGeneration' = SameGeneration
  <2>1. ASSUME NEW d \in Peer
        PROVE  /\ link'[d].generation = link[d].generation
               /\ \A i \in DOMAIN wire'[d] : \E j \in DOMAIN wire[d] : wire'[d][i] = wire[d][j]
               /\ lease'[d] = lease[d]
    BY <1>1, <1>3, <1>10, <1>11, <1>12
  <2> QED BY <1>3, <2>1, FramesAreOldKept DEF EventsInvariant
<1>14. Counted(p)'
  <2>1. PICK d : /\ Counts(d, outbound'[p], link'[p], sent'[p]["event"])
                 /\ \A j \in 0 .. LastSend(link[p]) : d[j] = b[j]
    <3>1. Counts(b, outbound[p], link[p], sent[p]["event"])
      BY <1>7 DEF Tallies
    <3> QED BY <1>2, <1>8, <1>10, <3>1, TurnCounts
  <2>2. Begins(p)' = Begins(p) /\ Reached(p)' = Reached(p)
    BY <1>3, <1>4, <1>10, <1>13 DEF Begins, Reached, Taken, r
  <2>3. Begins(p) \in 0 .. LastSend(link[p])
    BY BeginsInRange
  <2>4. wire'[Other(p)] = wire[Other(p)] /\ lease'[p] = lease[p]
    BY <1>3, <1>10 DEF r
  <2>5. Tallies(p, d)'
    BY <1>7, <1>11, <2>1, <2>2, <2>3, <2>4, TalliesPushed
  <2> QED BY <2>5 DEF Counted
<1>15. Reached(r) \in Nat /\ base[r] \in Nat /\ Reached(r) >= base[r]
       /\ Taken(r) = accepted[p]["event"] /\ accepted[p]["event"] \in Nat
  BY <1>1 DEF Reached, Taken
<1>16. Taken(r)' = accepted'[p]["event"] /\ base'[r] = base[r]
  BY <1>1, <1>3 DEF Taken
<1>17. Counted(r)'
  <2>1. Begins(r)' = f.seq
    BY <1>1, <1>4, <1>11, <1>13 DEF Begins
  <2>2. Reached(r)' = c[f.seq]
    <3>1. CASE f.msg.kind = "event"
      BY <1>8, <1>15, <1>16, <3>1 DEF Reached
    <3>2. CASE f.msg.kind # "event"
      BY <1>8, <1>15, <1>16, <3>2 DEF Reached
    <3> QED BY <3>1, <3>2
  <2>3. Counts(c, outbound'[r], link'[r], sent'[r]["event"])
    BY <1>6, <1>9, <1>10 DEF Tallies
  <2>4. ASSUME NEW s \in Nat, NEW x \in Message, Flies(r, s, x)'
        PROVE  Tells(c, s, x, LastSend(link'[r]))
    <3>1. Flies(r, s, x)
      BY <1>1, <1>3, <1>10, <1>12, <2>4 DEF Flies
    <3> QED BY <1>6, <1>10, <3>1 DEF Tallies
  <2>5. Tallies(r, c)'
    BY <2>1, <2>2, <2>3, <2>4 DEF Tallies
  <2> QED BY <2>5 DEF Counted
<1>18. EventsBounded'
  <2>1. base[r] <= sent[r]["event"] /\ accepted[p]["event"] <= sent[r]["event"]
    BY <1>1, <1>15 DEF EventsInvariant, EventsBounded
  <2>2. base'[r] <= sent'[r]["event"] /\ Taken(r)' <= sent'[r]["event"]
    BY <1>8, <1>9, <1>16, <2>1
  <2>3. base[p] <= sent[p]["event"] /\ Taken(p) <= sent[p]["event"]
    BY DEF EventsInvariant, EventsBounded
  <2>4. Taken(p)' = Taken(p) /\ base'[p] = base[p]
    BY <1>3, <1>10 DEF Taken, r
  <2>5. sent[p]["event"] \in Nat /\ base[p] \in Nat /\ Taken(p) \in Nat
    BY <1>1 DEF Taken, r
  <2>6. base'[p] <= sent'[p]["event"] /\ Taken(p)' <= sent'[p]["event"]
    BY <1>9, <2>3, <2>4, <2>5
  <2> QED BY <1>1, <1>4, <1>13, <2>2, <2>6 DEF EventsBounded
<1> QED BY <1>1, <1>13, <1>14, <1>17, <1>18 DEF EventsInvariant

----------------------------------------------------------------------------
(* A new generation.                                                       *)

(* What prepare_context_rebind leaves behind on the rebound link l.        *)
LEMMA RebindSays ==
  ASSUME TypeOK, NEW p \in Peer, NEW l \in Link, RebindEndpoint(p, l)
  PROVE  /\ lease'[p] = NoFrame /\ pending'[p] = {} /\ base'[p] = sent[p]["event"]
         /\ \A d \in Peer : d # p =>
              /\ link'[d] = link[d] /\ outbound'[d] = outbound[d] /\ lease'[d] = lease[d]
              /\ sent'[d] = sent[d] /\ pending'[d] = pending[d] /\ base'[d] = base[d]
         /\ \A k \in Kind : sent'[p][k] =
              IF k = "current" /\ ForcesCurrent(p) THEN sent[p][k] + 1 ELSE sent[p][k]
         /\ outbound'[p] = IF ForcesCurrent(p)
                           THEN {NewEntry(l.next_send, CurrentMessage(p))} ELSE {}
         /\ LastSend(link'[p]) = IF ForcesCurrent(p) THEN LastSend(l) + 1 ELSE LastSend(l)
         /\ link'[p].generation = l.generation /\ link'[p].applied = l.applied
         /\ link'[p].peer_acknowledged = l.peer_acknowledged
         /\ link'[p].resync = l.resync
<1>1. /\ link \in [Peer -> Link] /\ outbound \in [Peer -> SUBSET Entry]
      /\ lease \in [Peer -> Frame] /\ sent \in [Peer -> [Kind -> Nat]]
      /\ pending \in [Peer -> SUBSET Nat] /\ base \in [Peer -> Nat]
  BY DEF TypeOK
<1>2. lease'[p] = NoFrame /\ pending'[p] = {} /\ base'[p] = sent[p]["event"]
  BY <1>1 DEF RebindEndpoint
<1>3. ASSUME NEW d \in Peer, d # p
      PROVE  /\ link'[d] = link[d] /\ outbound'[d] = outbound[d] /\ lease'[d] = lease[d]
             /\ sent'[d] = sent[d] /\ pending'[d] = pending[d] /\ base'[d] = base[d]
  BY <1>1, <1>3 DEF RebindEndpoint
<1>4. "current" \in Kind /\ CurrentMessage(p) \in Message /\ CurrentMessage(p) # NoMessage
  <2>1. sent[p]["current"] + 1 \in Nat
    BY <1>1 DEF Kind
  <2> QED BY <2>1 DEF CurrentMessage, Message, Kind, NoMessage
<1>5. \A k \in Kind : sent'[p][k] =
        IF k = "current" /\ ForcesCurrent(p) THEN sent[p][k] + 1 ELSE sent[p][k]
  <2>1. CASE ForcesCurrent(p)
    <3>1. sent' = [sent EXCEPT ![p]["current"] = @ + 1]
      BY <2>1 DEF RebindEndpoint
    <3> QED BY <1>1, <1>4, <2>1, <3>1
  <2>2. CASE ~ ForcesCurrent(p)
    BY <2>2 DEF RebindEndpoint
  <2> QED BY <2>1, <2>2
<1>6. Replaced({}, CurrentMessage(p)) = {}
  BY DEF Replaced
<1>7. outbound'[p] = IF ForcesCurrent(p)
                     THEN {NewEntry(l.next_send, CurrentMessage(p))} ELSE {}
  <2>1. CASE ForcesCurrent(p)
    <3>1. outbound'[p] = PushQueue({}, l, CurrentMessage(p))
      BY <1>1, <2>1 DEF RebindEndpoint
    <3> QED BY <1>4, <1>6, <2>1, <3>1 DEF PushQueue
  <2>2. CASE ~ ForcesCurrent(p)
    BY <1>1, <2>2 DEF RebindEndpoint
  <2> QED BY <2>1, <2>2
<1>8. CASE ForcesCurrent(p)
  <2>1. link'[p] = PushLink({}, l, CurrentMessage(p))
    BY <1>1, <1>8 DEF RebindEndpoint
  <2>2. {} \in SUBSET Entry
    OBVIOUS
  <2>3. /\ link'[p].generation = l.generation /\ link'[p].applied = l.applied
        /\ link'[p].peer_acknowledged = l.peer_acknowledged
        /\ link'[p].resync = l.resync
    BY <1>4, <2>1, <2>2, PushGrows
  <2>4. LastSend(link'[p]) = LastSend(l) + 1
    BY <1>4, <1>6, <2>1, PushLast
  <2> QED BY <1>2, <1>3, <1>5, <1>7, <1>8, <2>3, <2>4
<1>9. CASE ~ ForcesCurrent(p)
  <2>1. link'[p] = l
    BY <1>1, <1>9 DEF RebindEndpoint
  <2> QED BY <1>2, <1>3, <1>5, <1>7, <1>9, <2>1
<1> QED BY <1>8, <1>9

(* commit_resume: what the Session and its socket are afterwards.          *)
LEMMA CommitSays ==
  ASSUME TypeOK, HandoverInvariant, CommitResume
  PROVE  \E l \in Link :
         /\ RebindEndpoint(Session, l)
         /\ l.generation = offer.generation /\ l.applied = link[Session].applied
         /\ l.peer_acknowledged = offer.applied_server
         /\ l.next_send = offer.applied_server + 1 /\ l.resync = 0
         /\ offer.generation > link[Session].generation
         /\ offer.generation > link[Client].generation /\ offer.generation \in Nat
         /\ wire[Client] = <<>> /\ wire[Session] = <<>> /\ wire'[Session] = <<>>
         /\ phase'[Client] = phase[Client] /\ phase'[Session] = "current"
         /\ phase[Client] # "current"
         /\ phase[Client] = "connecting" =>
              /\ offer.applied_server = link[Client].applied
              /\ wire'[Client] = <<ReadyFrame(offer.generation, link[Session].applied)>>
         /\ phase[Client] # "connecting" => wire'[Client] = <<>>
         /\ accepted' = accepted
<1>1. /\ Client \in Peer /\ Session \in Peer /\ Client # Session
      /\ link[Session] \in Link /\ link[Client] \in Link
      /\ offer.generation \in Nat /\ offer.applied_server \in Nat
  BY OtherPeer DEF TypeOK
<1>2. \A l \in Link :
        LET x == Rebind(l, offer.generation, offer.applied_server) IN
        /\ x.generation = offer.generation /\ x.applied = l.applied
        /\ x.peer_acknowledged = offer.applied_server
        /\ x.next_send = offer.applied_server + 1 /\ x.resync = 0
  BY DEF Rebind, RebaseSendAfterHandshake, Link
<1>3. PICK l \in Link : l = Rebind(link[Session], offer.generation, offer.applied_server)
  BY <1>1, LinkTypes, ConstantTypes
<1>4. RebindEndpoint(Session, l)
  BY <1>3 DEF CommitResume
<1>5. /\ phase[Session] = "stale" /\ phase[Client] # "current"
      /\ wire[Client] = <<>> /\ wire[Session] = <<>>
      /\ offer.generation > link[Session].generation
      /\ link[Client].generation <= link[Session].generation
      /\ phase[Client] = "connecting" => offer.applied_server = link[Client].applied
  BY DEF CommitResume, HandoverInvariant, OfferIsFresh, ClosedWiresAreEmpty,
         GenerationsAgree
<1>6. offer.generation > link[Client].generation
  BY <1>1, <1>5, LinkNumbers
<1>7. /\ wire'[Session] = <<>>
      /\ phase'[Client] = phase[Client] /\ phase'[Session] = "current"
      /\ phase[Client] = "connecting" =>
           wire'[Client] = <<ReadyFrame(offer.generation, link[Session].applied)>>
      /\ phase[Client] # "connecting" => wire'[Client] = <<>>
      /\ accepted' = accepted
  BY <1>1, <1>5 DEF CommitResume, TypeOK
<1> QED BY <1>1, <1>2, <1>3, <1>4, <1>5, <1>6, <1>7

(* bind: what the Client and its socket are afterwards.                    *)
LEMMA BindSays ==
  ASSUME TypeOK, HandoverInvariant, ClientBind
  PROVE  \E l \in Link :
         /\ RebindEndpoint(Client, l)
         /\ l.generation = link[Session].generation /\ l.applied = link[Client].applied
         /\ l.peer_acknowledged = link[Session].applied
         /\ l.next_send = link[Session].applied + 1 /\ l.resync = 0
         /\ link[Client].applied = link[Session].peer_acknowledged
         /\ link[Client].generation < link[Session].generation
         /\ phase[Client] = "connecting" /\ phase'[Client] = "current"
         /\ phase'[Session] = phase[Session]
         /\ wire[Client] # <<>> /\ Head(wire[Client]).type = "ready"
         /\ wire'[Client] = Tail(wire[Client])
         /\ wire[Session] = <<>> /\ wire'[Session] = <<>>
         /\ accepted' = accepted
<1> DEFINE f == Head(wire[Client])
           b == IF link[Client].generation = 0
                THEN RebaseSendAfterHandshake(NewLink(f.generation), f.ack)
                ELSE Rebind(link[Client], f.generation, f.ack)
<1>1. /\ Client \in Peer /\ Session \in Peer /\ Client # Session
      /\ link[Session] \in Link /\ link[Client] \in Link
      /\ wire[Client] \in Seq(Frame)
  BY OtherPeer DEF TypeOK
<1>2. /\ phase[Client] = "connecting" /\ wire[Client] # <<>> /\ f.type = "ready"
      /\ RebindEndpoint(Client, b) /\ f.generation > link[Client].generation
      /\ phase'[Client] = "current" /\ phase'[Session] = phase[Session]
      /\ wire'[Client] = Tail(wire[Client]) /\ wire'[Session] = wire[Session]
      /\ accepted' = accepted
  BY <1>1 DEF ClientBind, TypeOK, CanRebind
<1>3. f \in Frame /\ f.generation \in Nat /\ f.ack \in Nat
  BY <1>1, <1>2, WireContents, ConstantTypes DEF Frame
<1>4. /\ f.generation = link[Session].generation
      /\ f.ack = link[Session].applied
      /\ link[Session].peer_acknowledged = link[Client].applied
      /\ wire[Session] = <<>>
  BY <1>2 DEF HandoverInvariant, ReadyIsFresh, ClosedWiresAreEmpty
<1>5. link[Client].generation < link[Session].generation
  BY <1>1, <1>2, <1>4, LinkNumbers
<1>6. /\ b \in Link /\ b.generation = f.generation /\ b.applied = link[Client].applied
      /\ b.peer_acknowledged = f.ack /\ b.next_send = f.ack + 1 /\ b.resync = 0
  <2>1. CASE link[Client].generation = 0
    <3>1. link[Client].applied = 0
      BY <2>1 DEF HandoverInvariant, GenerationsAgree
    <3>2. NewLink(f.generation) \in Link
      BY <1>3, ConstantTypes
    <3>3. RebaseSendAfterHandshake(NewLink(f.generation), f.ack) \in Link
      BY <1>3, <3>2, LinkTypes, ConstantTypes
    <3> QED BY <2>1, <3>1, <3>3 DEF RebaseSendAfterHandshake, NewLink
  <2>2. CASE link[Client].generation # 0
    <3>1. \A y \in Link :
            LET x == Rebind(y, f.generation, f.ack) IN
            /\ x.generation = f.generation /\ x.applied = y.applied
            /\ x.peer_acknowledged = f.ack /\ x.next_send = f.ack + 1 /\ x.resync = 0
      BY DEF Rebind, RebaseSendAfterHandshake, Link
    <3>2. Rebind(link[Client], f.generation, f.ack) \in Link
      BY <1>1, <1>3, LinkTypes, ConstantTypes
    <3> QED BY <1>1, <2>2, <3>1, <3>2
  <2> QED BY <2>1, <2>2
<1> HIDE DEF b
<1> QED BY <1>2, <1>4, <1>5, <1>6

(* A rebound end starts to count at its last event.                        *)
LEMMA RebindTallies ==
  ASSUME TypeOK, TypeOK', NEW p \in Peer, NEW l \in Link, RebindEndpoint(p, l),
         \A i \in DOMAIN wire'[Other(p)] :
           ~ (/\ wire'[Other(p)][i].type = "data"
              /\ wire'[Other(p)][i].generation = link'[p].generation),
         accepted' = accepted, Taken(p) <= sent[p]["event"]
  PROVE  /\ \E c : Tallies(p, c)'
         /\ base'[p] = sent[p]["event"] /\ sent'[p]["event"] = sent[p]["event"]
<1>1. PICK n \in Nat : n = sent[p]["event"]
  BY RevisionTypes
<1> DEFINE c == [k \in Nat |-> n]
           last == LastSend(link'[p])
<1>2. c \in [Nat -> Nat] /\ \A k \in Nat : c[k] = n
  OBVIOUS
<1> HIDE DEF c
<1>3. last \in Nat /\ LastSend(l) \in Nat /\ l.next_send = LastSend(l) + 1
  <2>1. link'[p] \in Link
    BY DEF TypeOK
  <2>2. LastSend(l) \in Nat /\ LastSend(l) = l.next_send - 1 /\ l.next_send \in Nat
    BY LinkNumbers
  <2> QED BY <2>1, <2>2, LinkNumbers
<1>4. sent'[p]["event"] = n /\ base'[p] = n /\ lease'[p] = NoFrame
  <2>1. "event" \in Kind
    BY DEF Kind
  <2> QED BY <1>1, <2>1, RebindSays
<1>5. ASSUME NEW e \in outbound'[p]
      PROVE  Tells(c, e.seq, e.msg, last)
  <2>1. /\ ForcesCurrent(p) /\ e = NewEntry(l.next_send, CurrentMessage(p))
        /\ last = LastSend(l) + 1
    <3>1. /\ outbound'[p] = IF ForcesCurrent(p)
                            THEN {NewEntry(l.next_send, CurrentMessage(p))} ELSE {}
          /\ last = IF ForcesCurrent(p) THEN LastSend(l) + 1 ELSE LastSend(l)
      BY RebindSays
    <3> QED BY <1>5, <3>1
  <2>2. e.seq = last /\ e.msg.kind = "current"
    BY <1>3, <2>1 DEF NewEntry, CurrentMessage
  <2>3. last \in 1 .. last /\ last - 1 \in Nat
    BY <1>3, <2>1
  <2> QED BY <1>2, <1>3, <2>2, <2>3 DEF Tells
<1>6. Counts(c, outbound'[p], link'[p], sent'[p]["event"])
  BY <1>1, <1>2, <1>3, <1>4, <1>5 DEF Counts
<1>7. ASSUME NEW s \in Nat, NEW m \in Message, Flies(p, s, m)'
      PROVE  FALSE
  BY <1>4, <1>7 DEF Flies, NoFrame
<1>8. Reached(p)' = n
  <2>1. Taken(p)' = Taken(p) /\ Taken(p) \in Nat
    BY RevisionTypes, OtherPeer DEF Taken
  <2> QED BY <1>1, <1>4, <2>1 DEF Reached
<1>9. Begins(p)' \in Nat
  BY LinkNumbers, OtherPeer DEF Begins, TypeOK
<1>10. Tallies(p, c)'
  BY <1>2, <1>6, <1>7, <1>8, <1>9 DEF Tallies
<1> QED BY <1>1, <1>4, <1>10

(* The Session is rebound; the Client is not yet.                          *)
LEMMA CommitEvents ==
  ASSUME TypeOK, TypeOK', HandoverInvariant, EventsInvariant, CommitResume
  PROVE  EventsInvariant'
<1>1. PICK l \in Link :
         /\ RebindEndpoint(Session, l)
         /\ l.generation = offer.generation
         /\ offer.generation > link[Session].generation
         /\ offer.generation > link[Client].generation /\ offer.generation \in Nat
         /\ wire[Client] = <<>> /\ wire[Session] = <<>> /\ wire'[Session] = <<>>
         /\ phase'[Client] = phase[Client] /\ phase[Client] # "current"
         /\ phase[Client] = "connecting" =>
              wire'[Client] = <<ReadyFrame(offer.generation, link[Session].applied)>>
         /\ phase[Client] # "connecting" => wire'[Client] = <<>>
         /\ accepted' = accepted
  BY CommitSays
<1>2. /\ link'[Session].generation = offer.generation /\ link'[Client] = link[Client]
      /\ lease'[Session] = NoFrame /\ lease'[Client] = lease[Client]
      /\ base'[Client] = base[Client] /\ sent'[Client] = sent[Client]
  BY ZenonT(60), <1>1, RebindSays, OtherPeer
<1>3. link[Client].generation \in Nat /\ link[Session].generation \in Nat
  BY LinkNumbers, OtherPeer DEF TypeOK
<1>4. ~ SameGeneration'
  BY <1>1, <1>2, <1>3 DEF SameGeneration
<1>5. ASSUME NEW i \in DOMAIN wire'[Client]
      PROVE  wire'[Client][i].type = "ready" /\ wire'[Client][i].generation = offer.generation
  <2>1. CASE phase[Client] = "connecting"
    BY <1>1, <1>5, <2>1 DEF ReadyFrame
  <2>2. CASE phase[Client] # "connecting"
    BY <1>1, <1>5, <2>2
  <2> QED BY <2>1, <2>2
<1>6. FramesAreOld'
  <2>1. \A i \in DOMAIN wire'[Session] : FALSE
    BY <1>1
  <2>2. lease'[Session].generation <= link'[Session].generation
    BY <1>1, <1>2 DEF NoFrame
  <2>3. lease'[Client].generation <= link'[Client].generation
    BY <1>2, OtherPeer DEF EventsInvariant, FramesAreOld
  <2>4. \A i \in DOMAIN wire'[Client] : wire'[Client][i].generation <= link'[Session].generation
    BY <1>1, <1>2, <1>5
  <2> QED BY <1>1, <2>1, <2>2, <2>3, <2>4, OtherPeer DEF FramesAreOld
<1>7. Taken(Session) <= sent[Session]["event"]
  BY OtherPeer DEF EventsInvariant, EventsBounded
<1>8. /\ \E c : Tallies(Session, c)'
      /\ base'[Session] = sent[Session]["event"]
      /\ sent'[Session]["event"] = sent[Session]["event"]
  BY <1>1, <1>5, <1>7, RebindTallies, OtherPeer
<1>9. EventsBounded'
  <2>1. Taken(Session)' = Taken(Session) /\ Taken(Client)' = Taken(Client)
    BY <1>1 DEF Taken
  <2>2. base[Client] <= sent[Client]["event"] /\ Taken(Client) <= sent[Client]["event"]
    BY OtherPeer DEF EventsInvariant, EventsBounded
  <2>3. sent[Session]["event"] \in Nat
    BY RevisionTypes, OtherPeer
  <2>4. ASSUME NEW d \in Peer
        PROVE  base'[d] <= sent'[d]["event"] /\ Taken(d)' <= sent'[d]["event"]
    <3>1. CASE d = Session
      BY <1>7, <1>8, <2>1, <2>3, <3>1
    <3>2. CASE d = Client
      BY <1>2, <2>1, <2>2, <3>2
    <3> QED BY <3>1, <3>2, OtherPeer
  <2>5. Taken(Session)' <= base'[Session]
    BY <1>7, <1>8, <2>1
  <2> QED BY <2>4, <2>5 DEF EventsBounded
<1>10. \A p \in Peer : Counted(p)'
  BY <1>4, <1>8, OtherPeer DEF Counted
<1> QED BY <1>6, <1>9, <1>10 DEF EventsInvariant

(* The Client is rebound to the Session's generation.                      *)
LEMMA BindEvents ==
  ASSUME TypeOK, TypeOK', HandoverInvariant, EventsInvariant, ClientBind
  PROVE  EventsInvariant'
<1>1. PICK l \in Link :
         /\ RebindEndpoint(Client, l)
         /\ l.generation = link[Session].generation /\ l.applied = link[Client].applied
         /\ link[Client].applied = link[Session].peer_acknowledged
         /\ link[Client].generation < link[Session].generation
         /\ wire[Client] # <<>> /\ wire'[Client] = Tail(wire[Client])
         /\ wire[Session] = <<>> /\ wire'[Session] = <<>>
         /\ accepted' = accepted
  BY BindSays
<1>2. /\ link'[Client].generation = link[Session].generation
      /\ link'[Client].applied = link[Client].applied
      /\ link'[Session] = link[Session] /\ outbound'[Session] = outbound[Session]
      /\ lease'[Client] = NoFrame /\ lease'[Session] = lease[Session]
      /\ base'[Session] = base[Session] /\ sent'[Session] = sent[Session]
  BY ZenonT(60), <1>1, RebindSays, OtherPeer
<1>3. link[Client].generation \in Nat /\ link[Session].generation \in Nat
  BY LinkNumbers, OtherPeer DEF TypeOK
<1>4. SameGeneration' /\ ~ SameGeneration
  BY <1>1, <1>2, <1>3 DEF SameGeneration
<1>5. \A i \in DOMAIN wire'[Client] :
        \E j \in DOMAIN wire[Client] : wire'[Client][i] = wire[Client][j]
  BY SMTT(60), <1>1, WireContents, ConstantTypes, OtherPeer DEF TypeOK
<1>6. FramesAreOld'
  <2>1. \A i \in DOMAIN wire'[Session] : FALSE
    BY <1>1
  <2>2. lease'[Client].generation <= link'[Client].generation
    BY <1>2, <1>3 DEF NoFrame
  <2>3. lease'[Session].generation <= link'[Session].generation
    BY <1>2, OtherPeer DEF EventsInvariant, FramesAreOld
  <2>4. \A i \in DOMAIN wire'[Client] : wire'[Client][i].generation <= link'[Session].generation
    BY <1>2, <1>5, OtherPeer DEF EventsInvariant, FramesAreOld
  <2> QED BY <1>4, <2>1, <2>2, <2>3, <2>4, OtherPeer DEF FramesAreOld
<1>7. Taken(Client) <= sent[Client]["event"]
  BY OtherPeer DEF EventsInvariant, EventsBounded
<1>8. /\ \E c : Tallies(Client, c)'
      /\ base'[Client] = sent[Client]["event"]
      /\ sent'[Client]["event"] = sent[Client]["event"]
  <2>1. \A i \in DOMAIN wire'[Other(Client)] : FALSE
    BY <1>1, OtherPeer
  <2> QED BY <1>1, <1>7, <2>1, RebindTallies, OtherPeer
<1>9. Taken(Session)' = Taken(Session) /\ Taken(Client)' = Taken(Client)
  BY <1>1 DEF Taken
<1>10. \E c : Tallies(Session, c)'
  <2>1. PICK c : Tallies(Session, c)
    BY OtherPeer DEF EventsInvariant, Counted
  <2>2. Begins(Session)' = Begins(Session) /\ Reached(Session)' = Reached(Session)
    BY <1>1, <1>2, <1>4, <1>9, OtherPeer DEF Begins, Reached
  <2>3. Counts(c, outbound'[Session], link'[Session], sent'[Session]["event"])
    BY <1>2, <2>1 DEF Tallies
  <2>4. ASSUME NEW s \in Nat, NEW m \in Message, Flies(Session, s, m)'
        PROVE  Flies(Session, s, m)
    BY <1>2, <1>5, <2>4, OtherPeer DEF Flies
  <2>5. Tallies(Session, c)'
    BY <1>2, <2>1, <2>2, <2>3, <2>4 DEF Tallies
  <2> QED BY <2>5
<1>11. EventsBounded'
  <2>1. base[Session] <= sent[Session]["event"] /\ Taken(Session) <= sent[Session]["event"]
    BY OtherPeer DEF EventsInvariant, EventsBounded
  <2>2. sent[Client]["event"] \in Nat
    BY RevisionTypes, OtherPeer
  <2>3. ASSUME NEW d \in Peer
        PROVE  base'[d] <= sent'[d]["event"] /\ Taken(d)' <= sent'[d]["event"]
    <3>1. CASE d = Client
      BY <1>7, <1>8, <1>9, <2>2, <3>1
    <3>2. CASE d = Session
      BY <1>2, <1>9, <2>1, <3>2
    <3> QED BY <3>1, <3>2, OtherPeer
  <2> QED BY <1>4, <2>3 DEF EventsBounded
<1>12. \A p \in Peer : Counted(p)'
  BY <1>8, <1>10, OtherPeer DEF Counted
<1> QED BY <1>6, <1>11, <1>12 DEF EventsInvariant

----------------------------------------------------------------------------

(* Nothing is sent or counted in the beginning.                            *)
LEMMA EventsInit == Init => EventsInvariant
<1> SUFFICES ASSUME Init PROVE EventsInvariant
  OBVIOUS
<1>1. TypeOK
  BY TypeInit
<1>2. /\ link[Client].generation = 0 /\ link[Session].generation = 1
      /\ lease[Client] = NoFrame /\ lease[Session] = NoFrame
      /\ wire[Client] = <<ReadyFrame(1, 0)>> /\ wire[Session] = <<>>
      /\ phase[Client] = "connecting"
      /\ sent[Client]["event"] = 0 /\ sent[Session]["event"] = 0
      /\ accepted[Client]["event"] = 0 /\ accepted[Session]["event"] = 0
      /\ base[Client] = 0 /\ base[Session] = 0
  <2>1. NewLink(1) \in Link /\ NoLink \in Link /\ NoLink.generation = 0
        /\ NewLink(1).generation = 1
    BY ConstantTypes DEF NewLink, NoLink
  <2> DEFINE m == [kind |-> "current", n |-> 1]
  <2>2. PushLink({}, NewLink(1), m).generation = 1
    BY <2>1, ConstantTypes DEF PushLink, AllocateOperationSequence, NewLink
  <2>3. /\ link[Client] = NoLink
        /\ link[Session] = PushLink({}, NewLink(1), m) \/ link[Session] = NewLink(1)
    BY OtherPeer DEF Init
  <2>4. link[Client].generation = 0 /\ link[Session].generation = 1
    BY <2>1, <2>2, <2>3
  <2> HIDE DEF m
  <2> QED BY <2>4, OtherPeer DEF Init, Kind
<1>3. ~ SameGeneration
  BY <1>2 DEF SameGeneration
<1>4. \A i \in DOMAIN wire[Client] :
        wire[Client][i].type = "ready" /\ wire[Client][i].generation = 1
  BY <1>2 DEF ReadyFrame
<1>5. FramesAreOld
  <2>1. \A i \in DOMAIN wire[Session] : FALSE
    BY <1>2
  <2>2. NoFrame.generation = 0
    BY DEF NoFrame
  <2>3. 0 <= 0 /\ 0 <= 1 /\ 1 <= 1
    OBVIOUS
  <2> QED BY <1>2, <1>4, <2>1, <2>2, <2>3, OtherPeer DEF FramesAreOld
<1>6. EventsBounded
  <2>1. ASSUME NEW p \in Peer
        PROVE  base[p] <= sent[p]["event"] /\ Taken(p) <= sent[p]["event"]
    BY <1>2, OtherPeer DEF Taken
  <2>2. Taken(Session) <= base[Session]
    BY <1>2, OtherPeer DEF Taken
  <2> QED BY <2>1, <2>2 DEF EventsBounded
<1>7. Counted(Session)
  <2> DEFINE c == [k \in Nat |-> 0]
  <2>1. c \in [Nat -> Nat] /\ \A k \in Nat : c[k] = 0
    OBVIOUS
  <2> HIDE DEF c
  <2>2. LastSend(link[Session]) \in Nat /\ link[Session].peer_acknowledged \in Nat
    BY <1>1, LinkNumbers, OtherPeer DEF TypeOK
  <2>3. ASSUME NEW e \in outbound[Session]
        PROVE  Tells(c, e.seq, e.msg, LastSend(link[Session]))
    <3> DEFINE l == NewLink(1)
               m == [kind |-> "current", n |-> 1]
    <3>1. /\ "current" \in Publishes[Session]
          /\ e \in PushQueue({}, l, m) /\ link[Session] = PushLink({}, l, m)
      BY <2>3, OtherPeer DEF Init
    <3>2. l \in Link /\ l.next_send = 1 /\ LastSend(l) = 0
      BY ConstantTypes DEF NewLink, LastSend
    <3>3. m # NoMessage /\ m.kind = "current" /\ Replaced({}, m) = {}
      BY DEF NoMessage, Replaced
    <3>4. e = NewEntry(1, m)
      BY <3>1, <3>2, <3>3 DEF PushQueue
    <3>5. LastSend(link[Session]) = 1
      BY <3>1, <3>2, <3>3, PushLast
    <3>6. e.seq = 1 /\ e.msg.kind = "current"
      BY <3>4 DEF NewEntry
    <3>7. 1 \in 1 .. 1 /\ 1 - 1 = 0 /\ 0 \in Nat /\ 1 \in Nat
      OBVIOUS
    <3> QED BY <2>1, <3>5, <3>6, <3>7 DEF Tells
  <2>4. Counts(c, outbound[Session], link[Session], sent[Session]["event"])
    BY <1>2, <2>1, <2>2, <2>3 DEF Counts
  <2>5. ASSUME NEW s \in Nat, NEW m \in Message, Flies(Session, s, m)
        PROVE  FALSE
    BY <1>2, <1>4, <2>5, OtherPeer DEF Flies, NoFrame
  <2>6. c[Begins(Session)] = Reached(Session)
    BY <1>2, <1>3, <2>1, <2>2, OtherPeer DEF Begins, Reached, Taken
  <2>7. Tallies(Session, c)
    BY <2>4, <2>5, <2>6 DEF Tallies
  <2> QED BY <2>7 DEF Counted
<1>8. Counted(Client)
  BY <1>3, OtherPeer DEF Counted
<1> QED BY <1>5, <1>6, <1>7, <1>8, OtherPeer DEF EventsInvariant

(* Every step but a reload keeps it.                                       *)
LEMMA EventsStep ==
  ASSUME TransportInvariant, EventsInvariant, [Next]_vars, ~ Reload
  PROVE  EventsInvariant'
<1>1. TypeOK /\ TypeOK' /\ HandoverInvariant
  BY TypeStep DEF TransportInvariant
<1>2. FramesAreOld /\ GenerationsAgree
  BY <1>1 DEF EventsInvariant, HandoverInvariant
<1>3. ASSUME NEW p \in Peer, NEW k \in Sequenced, Publish(p, k)
      PROVE  EventsInvariant'
  BY <1>1, <1>3, PublishEvents
<1>4. ASSUME NEW p \in Peer, LeaseFrame(p) PROVE EventsInvariant'
  <2>1. \A d \in Peer : Keeps(d)
    BY <1>1, <1>4, LeaseKeeps
  <2> QED BY <1>1, <1>4, <2>1, EventsKept DEF LeaseFrame
<1>5. ASSUME NEW p \in Peer, TransmitLeased(p) PROVE EventsInvariant'
  <2>1. \A d \in Peer : Keeps(d)
    BY <1>1, <1>5, TransmitKeeps
  <2> QED BY <1>1, <1>5, <2>1, EventsKept DEF TransmitLeased
<1>6. ASSUME NEW p \in Peer, ReceiveNext(p) PROVE EventsInvariant'
  BY <1>1, <1>6, ReceiveNextEvents
<1>7. ASSUME NEW p \in Peer, ReceiveOutOfOrder(p) \/ ReceiveControl(p)
      PROVE  EventsInvariant'
  <2>1. \A d \in Peer : Keeps(d)
    BY <1>1, <1>2, <1>7, ReceptionKeeps
  <2> QED BY <1>1, <1>7, <2>1, EventsKept DEF ReceiveOutOfOrder, ReceiveControl
<1>8. CASE \/ \E p \in Peer : ReceiveRefused(p) \/ LoseFrame(p) \/ RepeatFrame(p)
           \/ ClientOverflow \/ ClientDisconnect \/ SessionDisconnect
           \/ BeginResume \/ DropOffer
  <2>1. \A d \in Peer : Keeps(d)
    BY <1>1, <1>8, LossKeeps
  <2>2. phase'[Client] = "current" => phase[Client] = "current"
    <3>1. phase \in [Peer -> Phase]
      BY <1>1 DEF TypeOK
    <3>2. ASSUME NEW q \in Peer, NEW v, v # "current", phase' = [phase EXCEPT ![q] = v]
          PROVE  phase'[Client] = "current" => phase[Client] = "current"
      BY <3>1, <3>2, OtherPeer
    <3>3. ASSUME NEW p \in Peer, ReceiveRefused(p) \/ LoseFrame(p) \/ RepeatFrame(p)
          PROVE  phase'[Client] = "current" => phase[Client] = "current"
      BY <3>2, <3>3 DEF ReceiveRefused, LoseFrame, RepeatFrame, Terminate
    <3>4. CASE ClientOverflow \/ ClientDisconnect \/ SessionDisconnect
               \/ BeginResume \/ DropOffer
      BY ZenonT(60), <3>2, <3>4, OtherPeer
         DEF ClientOverflow, ClientDisconnect, SessionDisconnect, BeginResume,
             DropOffer, Terminate
    <3> QED BY <1>8, <3>3, <3>4
  <2> QED BY <1>1, <2>1, <2>2, EventsKept
<1>9. ClientBind \/ CommitResume => EventsInvariant'
  BY <1>1, BindEvents, CommitEvents
<1>10. CASE UNCHANGED vars
  <2>1. \A d \in Peer : Keeps(d)
    BY <1>10 DEF vars, Keeps
  <2> QED BY <1>1, <1>10, <2>1, EventsKept DEF vars
<1> QED BY <1>3, <1>4, <1>5, <1>6, <1>7, <1>8, <1>9, <1>10 DEF Next, Receive

(* What a step does to the events of p: one is produced, the next one is   *)
(* delivered, a generation begins, or nothing.                             *)
ChannelSteps(p) ==
  \/ /\ sent'[p]["event"] = sent[p]["event"] + 1
     /\ base'[p] = base[p] /\ Taken(p)' = Taken(p)
  \/ /\ Taken(p)' = Reached(p) + 1 /\ Reached(p) + 1 <= sent[p]["event"]
     /\ base'[p] = base[p] /\ sent'[p]["event"] = sent[p]["event"]
  \/ /\ base'[p] = sent[p]["event"]
     /\ sent'[p]["event"] = sent[p]["event"] /\ Taken(p)' = Taken(p)
  \/ /\ base'[p] = base[p]
     /\ sent'[p]["event"] = sent[p]["event"] /\ Taken(p)' = Taken(p)

(* Every step but a reload is one of these, for both directions.           *)
LEMMA ChannelStep ==
  ASSUME TransportInvariant, EventsInvariant, [Next]_vars, ~ Reload, NEW d \in Peer
  PROVE  ChannelSteps(d)
<1>1. TypeOK /\ TypeOK' /\ HandoverInvariant
  BY TypeStep DEF TransportInvariant
<1>2. FramesAreOld /\ GenerationsAgree
  BY <1>1 DEF EventsInvariant, HandoverInvariant
<1>3. Keeps(d) => ChannelSteps(d)
  BY DEF Keeps, ChannelSteps, Taken
<1>4. "event" \in Kind /\ sent \in [Peer -> [Kind -> Nat]]
      /\ accepted \in [Peer -> [Kind -> Nat]]
  BY <1>1 DEF Kind, TypeOK
<1>5. ASSUME NEW p \in Peer, NEW m \in Publications(p), sent' = RecordSent(p, m)
      PROVE  \/ sent'[d]["event"] = sent[d]["event"]
             \/ (d = p /\ sent'[d]["event"] = sent[d]["event"] + 1)
  <2>1. CASE d = p
    BY <1>1, <1>4, <1>5, <2>1, PublicationSays
  <2>2. CASE d # p
    BY <1>1, <1>5, <2>2, PublicationSays
  <2> QED BY <2>1, <2>2
<1>6. ASSUME NEW p \in Peer, NEW k \in Sequenced, Publish(p, k) PROVE ChannelSteps(d)
  <2>1. PICK m \in Publication(p, k) : Publish(p, k)!(m)
    BY <1>6 DEF Publish
  <2>2. m \in Publications(p)
    BY DEF Publications
  <2>3. sent' = RecordSent(p, m) /\ base' = base /\ accepted' = accepted
    BY <2>1
  <2>4. \/ sent'[d]["event"] = sent[d]["event"]
        \/ sent'[d]["event"] = sent[d]["event"] + 1
    BY <1>5, <2>2, <2>3
  <2> QED BY <2>3, <2>4 DEF ChannelSteps, Taken
<1>7. ASSUME NEW p \in Peer, ReceiveNext(p) PROVE ChannelSteps(d)
  <2> DEFINE f == Head(wire[p])
  <2>1. PICK m \in Publications(p) : sent' = RecordSent(p, m)
    BY <1>7 DEF ReceiveNext
  <2>2. /\ base' = base /\ Arrives(p) /\ IdentityValid(link[p], f)
        /\ accepted' = [accepted EXCEPT ![p][f.msg.kind] = Greater(f.msg, @)]
    BY <1>7 DEF ReceiveNext, ExpectsNext
  <2>3. CASE d = p
    <3>1. accepted'[Other(d)] = accepted[Other(d)]
      BY <1>4, <2>2, <2>3, OtherPeer
    <3>2. \/ sent'[d]["event"] = sent[d]["event"]
          \/ sent'[d]["event"] = sent[d]["event"] + 1
      BY <1>5, <2>1
    <3> QED BY <2>2, <3>1, <3>2 DEF ChannelSteps, Taken
  <2>4. CASE d = Other(p)
    <3>1. SameGeneration
      BY <1>1, <1>2, <2>2, TakenInGeneration
    <3>2. PICK c : Tallies(Other(p), c)
      BY <3>1, OtherPeer DEF EventsInvariant, Counted
    <3>3. \/ /\ accepted'[p]["event"] = Reached(d) + 1
             /\ Reached(d) + 1 <= sent[d]["event"]
          \/ accepted'[p]["event"] = accepted[p]["event"]
      <4>1. /\ f.msg.kind = "event" =>
                 /\ f.msg.n = Reached(Other(p)) + 1
                 /\ f.msg.n <= sent[Other(p)]["event"]
                 /\ accepted'[p]["event"] = Reached(Other(p)) + 1
            /\ f.msg.kind # "event" => accepted'[p]["event"] = accepted[p]["event"]
        BY <1>1, <1>2, <1>7, <3>2, NextIsCounted
      <4> QED BY <2>4, <4>1
    <3>4. sent'[d]["event"] = sent[d]["event"]
      BY <1>5, <2>1, <2>4, OtherPeer
    <3>5. Taken(d) = accepted[p]["event"] /\ Taken(d)' = accepted'[p]["event"]
      BY <2>4, OtherPeer DEF Taken
    <3> QED BY <2>2, <3>3, <3>4, <3>5 DEF ChannelSteps
  <2> QED BY <2>3, <2>4, OtherPeer
<1>8. ASSUME NEW p \in Peer, NEW l \in Link, RebindEndpoint(p, l), accepted' = accepted
      PROVE  ChannelSteps(d)
  <2>1. Taken(d)' = Taken(d)
    BY <1>8 DEF Taken
  <2>2. CASE d = p
    <3>1. base'[d] = sent[d]["event"] /\ sent'[d]["event"] = sent[d]["event"]
      BY <1>1, <1>4, <1>8, <2>2, RebindSays
    <3> QED BY <2>1, <3>1 DEF ChannelSteps
  <2>3. CASE d # p
    <3>1. base'[d] = base[d] /\ sent'[d] = sent[d]
      BY <1>1, <1>8, <2>3, RebindSays
    <3> QED BY <2>1, <3>1 DEF ChannelSteps
  <2> QED BY <2>2, <2>3
<1>9. CASE ClientBind \/ CommitResume
  BY <1>1, <1>8, <1>9, BindSays, CommitSays, OtherPeer
<1>10. ASSUME NEW p \in Peer, LeaseFrame(p) \/ TransmitLeased(p) PROVE ChannelSteps(d)
  BY <1>1, <1>3, <1>10, LeaseKeeps, TransmitKeeps
<1>11. ASSUME NEW p \in Peer, ReceiveOutOfOrder(p) \/ ReceiveControl(p)
       PROVE  ChannelSteps(d)
  BY <1>1, <1>2, <1>3, <1>11, ReceptionKeeps
<1>12. CASE \/ \E p \in Peer : ReceiveRefused(p) \/ LoseFrame(p) \/ RepeatFrame(p)
            \/ ClientOverflow \/ ClientDisconnect \/ SessionDisconnect
            \/ BeginResume \/ DropOffer
  BY <1>1, <1>3, <1>12, LossKeeps
<1>13. CASE UNCHANGED vars
  BY <1>3, <1>13 DEF vars, Keeps
<1> QED BY <1>6, <1>7, <1>9, <1>10, <1>11, <1>12, <1>13 DEF Next, Receive

(* Without a reload of the page the events of each direction go through a  *)
(* GenerationChannel: in order, without a gap, at most once and never into *)
(* a later generation, for every queue limit, replay window and number of  *)
(* generations, on a transport that may lose and repeat frames.  With a    *)
(* reload the revisions of the page start again (endpoint.rs), so the      *)
(* channel of the old page ends with it.                                   *)
THEOREM EventsStayInGeneration ==
  ASSUME MaxReloads = 0
  PROVE  Spec => EventsKeepToTheirGeneration
<1> DEFINE Inv == TransportInvariant /\ EventsInvariant
<1>1. Init => Inv
  BY TransportInit, EventsInit
<1>2. Inv => ~ Reload
  <2>1. TypeOK => reloads \in 0 .. MaxReloads
    BY DEF TypeOK
  <2> QED BY <2>1 DEF TransportInvariant, Reload
<1>3. Inv /\ [Next]_vars => Inv'
  BY <1>2, TransportStep, EventsStep
<1>4. Init => ClientEvents!Init /\ SessionEvents!Init
  BY OtherPeer DEF Init, ClientEvents!Init, SessionEvents!Init, Kind
<1>5. Inv /\ [Next]_vars => \A d \in Peer : ChannelSteps(d)
  BY <1>2, ChannelStep
<1>6. Inv /\ [Next]_vars => [ClientEvents!Next]_(ClientEvents!vars)
  <2>1. ChannelSteps(Client) => [ClientEvents!Next]_(ClientEvents!vars)
    BY OtherPeer DEF ChannelSteps, Taken, Reached, ClientEvents!Next, ClientEvents!vars,
       ClientEvents!Produce, ClientEvents!Deliver, ClientEvents!NewGeneration
  <2> QED BY <1>5, <2>1, OtherPeer
<1>7. Inv /\ [Next]_vars => [SessionEvents!Next]_(SessionEvents!vars)
  <2>1. ChannelSteps(Session) => [SessionEvents!Next]_(SessionEvents!vars)
    BY OtherPeer DEF ChannelSteps, Taken, Reached, SessionEvents!Next, SessionEvents!vars,
       SessionEvents!Produce, SessionEvents!Deliver, SessionEvents!NewGeneration
  <2> QED BY <1>5, <2>1, OtherPeer
<1> QED BY <1>1, <1>3, <1>4, <1>6, <1>7, PTL
        DEF Spec, EventsKeepToTheirGeneration, ClientEvents!Spec, SessionEvents!Spec

-----------------------------------------------------------------------------
(* A transport that neither loses nor repeats frames, and whose page is not *)
(* reloaded: whatever the two ends publish, whenever each of them notices   *)
(* the end of a socket and however often the tab resumes, no frame is       *)
(* refused, no lease outlives its operation, and the tab ends up with the   *)
(* last value of the Session.                                               *)

(* What p sends in its generation can still arrive at the other end.       *)
Target(p) ==
  SameGeneration \/ (p = Session /\ phase[Client] = "connecting" /\ wire[Client] # <<>>)
Reads(p) == Target(p) /\ phase[Other(p)] \in {"connecting", "current"}

(* Frames are of the generation of the end that sent them; a Client that   *)
(* waits for Ready of a connected Session has it on the socket; nobody     *)
(* asks for a resynchronisation.                                           *)
Sockets ==
  /\ phase[Client] = "current" => SameGeneration
  /\ wire[Session] # <<>> => SameGeneration
  /\ (phase[Client] = "connecting" /\ phase[Session] = "current") => wire[Client] # <<>>
  /\ \A p \in Peer : link[p].resync = 0
  /\ \A p \in Peer : \A i \in DOMAIN wire[p] :
       wire[p][i].generation = link[Other(p)].generation /\ wire[p][i].type # "resync"
  /\ \A p \in Peer : lease[p] # NoFrame =>
       /\ phase[p] = "current" /\ lease[p].generation = link[p].generation
       /\ lease[p].type \in {"data", "ack"}

(* The operations of queue q that were sent are the ones up to t.          *)
Marked(q, l, t) ==
  /\ l.peer_acknowledged <= t /\ t <= LastSend(l)
  /\ \A e \in q : e.sent = IF e.seq <= t THEN l.generation ELSE 0

(* Wire w carries the operations after a up to t, in order, each once.     *)
InLine(w, a, t) ==
  /\ \A i \in DOMAIN w : w[i].type = "data" => w[i].seq \in a + 1 .. t
  /\ \A i, j \in DOMAIN w :
       (i < j /\ w[i].type = "data" /\ w[j].type = "data") => w[i].seq < w[j].seq
  /\ \A s \in a + 1 .. t : \E i \in DOMAIN w : w[i].type = "data" /\ w[i].seq = s

(* t is the last operation that p has sent in its generation.              *)
Carried(p, t) ==
  /\ t \in Nat
  /\ phase[p] = "current" => Marked(outbound[p], link[p], t)
  /\ lease[p].type = "data" => lease[p].seq = t + 1 /\ t < LastSend(link[p])
  /\ \A i \in DOMAIN wire[Other(p)] :
       wire[Other(p)][i].type = "data" => wire[Other(p)][i].seq <= t
  /\ Target(p) => link[Other(p)].applied <= t
  /\ Reads(p) => InLine(wire[Other(p)], link[Other(p)].applied, t)

(* The operations of p that are queued, leased or sent, and not applied.   *)
Fresh(p) ==
  {x \in Fingerprint :
     /\ x.seq > link[Other(p)].applied
     /\ \/ \E e \in outbound[p] : e.seq = x.seq /\ e.msg = x.msg
        \/ Flies(p, x.seq, x.msg)}

(* Revisions of one kind grow with the numbers of the operations.          *)
Increasing(S) ==
  \A x, y \in S :
    (x.seq < y.seq /\ x.msg.kind = y.msg.kind) => x.msg.n < y.msg.n

(* The endpoint of the other end will accept message m of p.               *)
Welcome(p, m) ==
  /\ m.kind \in Kind
  /\ m.n > accepted[Other(p)][m.kind]
  /\ m.kind \in Sequenced => m.n <= sent[p][m.kind]
  /\ m.kind = "request" => m.n \in pending[p]
  /\ m.kind = "result" =>
       SameGeneration /\ m.n \in pending[Other(p)] /\ m.n <= accepted[p]["request"]

Orderly(p) ==
  Target(p) => Increasing(Fresh(p)) /\ \A x \in Fresh(p) : Welcome(p, x.msg)

(* No end has accepted what the other did not say.                         *)
Bounded ==
  \A p \in Peer :
    /\ \A k \in Sequenced : accepted[Other(p)][k] <= sent[p][k]
    /\ accepted[Other(p)]["result"] <= accepted[p]["request"]

Moving(p) == Orderly(p) /\ \E t : Carried(p, t)

ReliableInvariant == Sockets /\ Bounded /\ \A p \in Peer : Moving(p)

----------------------------------------------------------------------------
(* What the invariant says of a frame that arrives.                        *)

(* The head of a wire and what is behind it.                               *)
LEMMA HeadOf ==
  ASSUME TypeOK, NEW p \in Peer, wire[p] # <<>>
  PROVE  /\ wire[p] \in Seq(Frame) /\ Head(wire[p]) \in Frame
         /\ 1 \in DOMAIN wire[p] /\ Head(wire[p]) = wire[p][1]
         /\ \A i \in DOMAIN wire[p] : i \in Nat /\ 1 <= i /\ wire[p][i] \in Frame
         /\ \A i \in DOMAIN Tail(wire[p]) :
              i + 1 \in DOMAIN wire[p] /\ Tail(wire[p])[i] = wire[p][i + 1]
         /\ \A i \in DOMAIN wire[p] : i # 1 =>
              i - 1 \in DOMAIN Tail(wire[p]) /\ Tail(wire[p])[i - 1] = wire[p][i]
<1> PICK w \in Seq(Frame) : w = wire[p]
  BY DEF TypeOK
<1>1. Len(w) \in Nat \ {0} /\ DOMAIN w = 1 .. Len(w)
  BY EmptySeq, LenProperties
<1>2. /\ Tail(w) \in Seq(Frame) /\ Head(w) \in Frame /\ Head(w) = w[1]
      /\ Len(Tail(w)) = Len(w) - 1
      /\ \A i \in 1 .. Len(Tail(w)) : Tail(w)[i] = w[i + 1]
  BY HeadTailProperties
<1>3. DOMAIN Tail(w) = 1 .. Len(Tail(w))
  BY <1>2, LenProperties
<1>4. \A i \in DOMAIN w : w[i] \in Frame
  BY <1>1, ElementOfSeq
<1>5. \A i \in DOMAIN Tail(w) : i + 1 \in DOMAIN w /\ Tail(w)[i] = w[i + 1]
  BY <1>1, <1>2, <1>3
<1>6. \A i \in DOMAIN w : i # 1 =>
        i - 1 \in DOMAIN Tail(w) /\ Tail(w)[i - 1] = w[i]
  <2> SUFFICES ASSUME NEW i \in DOMAIN w, i # 1
               PROVE  i - 1 \in DOMAIN Tail(w) /\ Tail(w)[i - 1] = w[i]
    OBVIOUS
  <2>1. i - 1 \in 1 .. Len(Tail(w)) /\ (i - 1) + 1 = i
    BY <1>1, <1>2
  <2> QED BY <1>2, <1>3, <2>1
<1> QED BY <1>1, <1>2, <1>4, <1>5, <1>6

(* A frame that arrives is of the generation of both ends.                 *)
LEMMA ArrivesInGeneration ==
  ASSUME TypeOK, Sockets, NEW p \in Peer, Arrives(p)
  PROVE  /\ SameGeneration /\ Target(Other(p)) /\ Reads(Other(p)) /\ Target(p)
         /\ Head(wire[p]) \in Frame /\ Head(wire[p]) = wire[p][1]
         /\ 1 \in DOMAIN wire[p]
         /\ Head(wire[p]).generation = link[Other(p)].generation
         /\ Head(wire[p]).generation = link[p].generation
         /\ Head(wire[p]).type # "resync"
<1>1. SameGeneration
  BY OtherPeer DEF Arrives, Sockets
<1>2. link[p].generation = link[Other(p)].generation
  BY <1>1, OtherPeer DEF SameGeneration
<1>3. Target(Other(p)) /\ Reads(Other(p)) /\ Target(p)
  BY <1>1, OtherPeer DEF Target, Reads, Arrives
<1>4. wire[p] # <<>>
  BY DEF Arrives
<1> QED BY <1>1, <1>2, <1>3, <1>4, HeadOf DEF Sockets

(* An operation that arrives is the one expected next.                     *)
LEMMA HeadIsNext ==
  ASSUME TypeOK, Sockets, NEW p \in Peer, Arrives(p), NEW t, Carried(Other(p), t),
         Head(wire[p]).type = "data"
  PROVE  /\ Head(wire[p]).seq = link[p].applied + 1 /\ Head(wire[p]).seq <= t
         /\ [seq |-> Head(wire[p]).seq, msg |-> Head(wire[p]).msg] \in Fresh(Other(p))
<1> DEFINE f == Head(wire[p])
           a == link[p].applied
<1>1. /\ f \in Frame /\ f = wire[p][1] /\ 1 \in DOMAIN wire[p] /\ Reads(Other(p))
      /\ f.generation = link[Other(p)].generation
  BY ArrivesInGeneration
<1>2. InLine(wire[p], a, t) /\ t \in Nat
  BY <1>1, OtherPeer DEF Carried
<1>3. a \in Nat /\ f.seq \in Nat /\ f.msg \in Message
  <2>1. link[p] \in Link
    BY DEF TypeOK
  <2>2. a \in Nat
    BY <2>1, LinkNumbers
  <2> QED BY <1>1, <2>2 DEF Frame
<1>4. f.seq \in a + 1 .. t
  BY <1>1, <1>2 DEF InLine
<1>5. ASSUME f.seq # a + 1 PROVE FALSE
  <2>1. a + 1 \in a + 1 .. t
    BY <1>2, <1>3, <1>4
  <2>2. PICK j \in DOMAIN wire[p] : wire[p][j].type = "data" /\ wire[p][j].seq = a + 1
    BY <1>2, <2>1 DEF InLine
  <2>3. j # 1 /\ j \in Nat /\ 1 <= j
    BY <1>1, <1>5, <2>2, HeadOf DEF Arrives
  <2>4. 1 < j
    BY <2>3
  <2>5. f.seq < wire[p][j].seq
    BY <1>1, <1>2, <2>2, <2>4 DEF InLine
  <2> QED BY <1>3, <1>4, <2>2, <2>5
<1>6. [seq |-> f.seq, msg |-> f.msg] \in Fresh(Other(p))
  <2> DEFINE x == [seq |-> f.seq, msg |-> f.msg]
  <2>1. x \in Fingerprint /\ x.seq = f.seq /\ x.msg = f.msg
    BY <1>3 DEF Fingerprint
  <2>2. Flies(Other(p), x.seq, x.msg)
    BY <1>1, <2>1, OtherPeer DEF Flies
  <2>3. x.seq > a
    BY <1>3, <1>4, <2>1
  <2> HIDE DEF x
  <2>4. Other(Other(p)) = p
    BY OtherPeer
  <2>5. x \in Fresh(Other(p))
    BY <2>1, <2>2, <2>3, <2>4 DEF Fresh
  <2> QED BY <2>5 DEF x
<1> QED BY <1>3, <1>4, <1>5, <1>6

(* No frame is refused, repeated or missing.                               *)
LEMMA NothingRefused ==
  ASSUME TypeOK, HandoverInvariant, ReliableInvariant, NEW p \in Peer, Arrives(p)
  PROVE  ~ Refuses(p, Head(wire[p])) /\ ~ ReceiveOutOfOrder(p)
<1> DEFINE f == Head(wire[p])
           r == Other(p)
<1>1. /\ SameGeneration /\ Target(r) /\ f \in Frame /\ f = wire[p][1]
      /\ 1 \in DOMAIN wire[p] /\ f.generation = link[p].generation
      /\ f.generation = link[r].generation /\ f.type # "resync"
  BY ArrivesInGeneration DEF ReliableInvariant
<1>2. r \in Peer /\ Other(r) = p
  BY OtherPeer
<1>3. PICK t : Carried(r, t)
  BY <1>2 DEF ReliableInvariant, Moving
<1>4. /\ link[p] \in Link /\ link[r] \in Link /\ link[p].applied \in Nat
      /\ LastSend(link[p]) \in Nat /\ link[r].applied \in Nat
  <2>1. link[p] \in Link /\ link[r] \in Link
    BY <1>2 DEF TypeOK
  <2> QED BY <2>1, LinkNumbers
<1>5. f.seq \in Nat /\ f.ack \in Nat /\ f.msg \in Message
  BY <1>1 DEF Frame
<1>6. f.type = "data" => f.seq = link[p].applied + 1
  BY <1>3, HeadIsNext DEF ReliableInvariant
<1>7. f.type \in {"data", "ack"} => f.ack <= LastSend(link[p])
  <2>1. FrameAgrees(f, link[r])
    BY <1>1, <1>2 DEF HandoverInvariant, FramesAgree
  <2>2. link[r].generation # 0
    BY <1>1, <1>2, OtherPeer DEF HandoverInvariant, GenerationsAgree, SameGeneration
  <2>3. link[r].applied <= LastSend(link[p])
    BY <1>1, <1>2 DEF HandoverInvariant, WatermarksAgree
  <2>4. f.type \in {"data", "ack"} => f.ack <= link[r].applied
    BY <1>1, <2>1, <2>2 DEF FrameAgrees
  <2> QED BY <1>4, <1>5, <2>3, <2>4
<1>8. ASSUME f.type = "data" PROVE ~ EndpointRefuses(p, f.msg)
  <2>1. Welcome(r, f.msg)
    <3> DEFINE x == [seq |-> f.seq, msg |-> f.msg]
    <3>1. x \in Fresh(r) /\ x.msg = f.msg
      BY <1>3, <1>8, HeadIsNext DEF ReliableInvariant
    <3>2. Orderly(r)
      BY <1>2 DEF ReliableInvariant, Moving
    <3> HIDE DEF x, f, r
    <3> QED BY <1>1, <3>1, <3>2 DEF Orderly
  <2>2. accepted \in [Peer -> [Kind -> Nat]] /\ sent \in [Peer -> [Kind -> Nat]]
    BY DEF TypeOK
  <2>3. f.msg.n \in Nat /\ f.msg.kind \in Kind /\ f.msg.n > accepted[p][f.msg.kind]
    BY <1>2, <1>5, <2>1 DEF Welcome, Message
  <2>4. accepted[p][f.msg.kind] \in Nat
    BY <2>2, <2>3
  <2>5. f.msg.n > 0 /\ ~ (f.msg.n <= accepted[p][f.msg.kind])
    BY <2>3, <2>4
  <2>6. f.msg.kind = "result" => f.msg.n <= sent[p]["request"] /\ f.msg.n \in pending[p]
    <3>1. accepted[r]["request"] <= sent[p]["request"]
      BY <1>2 DEF ReliableInvariant, Bounded, Sequenced
    <3>2. accepted[r]["request"] \in Nat /\ sent[p]["request"] \in Nat
      BY <1>2, <2>2 DEF Kind
    <3>3. f.msg.kind = "result" => f.msg.n <= accepted[r]["request"] /\ f.msg.n \in pending[p]
      BY <1>2, <2>1 DEF Welcome
    <3> QED BY <2>3, <3>1, <3>2, <3>3
  <2>7. f.msg.kind \in {"current", "event", "request", "result"}
    BY <2>3 DEF Kind
  <2>8. EndpointAccepts(p, f.msg)
    BY <2>3, <2>5, <2>6, <2>7
       DEF EndpointAccepts, AcceptsCurrent, AcceptsEvent, AcceptsRequest, AcceptsResult
  <2> QED BY <2>5, <2>8 DEF EndpointRefuses
<1>9. f.type = "data" => ~ (f.seq <= link[p].applied) /\ ~ (f.seq > link[p].applied + 1)
  BY <1>4, <1>6
<1>10. ~ Refuses(p, f)
  BY <1>1, <1>7, <1>8, <1>9 DEF Refuses, IdentityValid, PeerAckValid, IsConflict
<1>11. ~ ReceiveOutOfOrder(p)
  BY <1>9 DEF ReceiveOutOfOrder, IsDuplicate, IsGap
<1> QED BY <1>10, <1>11

----------------------------------------------------------------------------
(* Steps that publish, deliver and rebind nothing: see Keeps.              *)

(* Such a step has nothing new under way.                                  *)
LEMMA FreshKept ==
  ASSUME TypeOK, TypeOK', NEW p \in Peer, Keeps(p)
  PROVE  Fresh(p)' \subseteq Fresh(p)
<1> SUFFICES ASSUME NEW x \in Fresh(p)' PROVE x \in Fresh(p)
  OBVIOUS
<1>1. /\ x \in Fingerprint /\ x.seq > link'[Other(p)].applied
      /\ (\E e \in outbound'[p] : e.seq = x.seq /\ e.msg = x.msg) \/ Flies(p, x.seq, x.msg)'
  BY DEF Fresh
<1>2. x.seq > link[Other(p)].applied
  BY <1>1 DEF Keeps
<1>3. x.seq \in Nat /\ x.msg \in Message
  BY <1>1 DEF Fingerprint
<1>4. CASE \E e \in outbound'[p] : e.seq = x.seq /\ e.msg = x.msg
  <2>1. PICK e \in outbound'[p] : e.seq = x.seq /\ e.msg = x.msg
    BY <1>4
  <2>2. PICK y \in outbound[p] : y.seq = e.seq /\ y.msg = e.msg
    BY DEF Keeps
  <2> QED BY <1>1, <1>2, <2>1, <2>2 DEF Fresh
<1>5. CASE Flies(p, x.seq, x.msg)'
  <2>1. Flies(p, x.seq, x.msg) \/ \E e \in outbound[p] : e.seq = x.seq /\ e.msg = x.msg
    BY <1>3, <1>5, FliesKept DEF Keeps
  <2> QED BY <1>1, <1>2, <2>1 DEF Fresh
<1> QED BY <1>1, <1>4, <1>5

(* What is under way stays in order.                                       *)
LEMMA OrderlyKept ==
  ASSUME NEW p \in Peer, Orderly(p), Fresh(p)' \subseteq Fresh(p),
         Target(p)' => Target(p), SameGeneration => SameGeneration',
         sent' = sent, accepted' = accepted, pending' = pending
  PROVE  Orderly(p)'
<1> SUFFICES ASSUME Target(p)'
             PROVE  Increasing(Fresh(p)') /\ \A x \in Fresh(p)' : Welcome(p, x.msg)'
  BY DEF Orderly
<1>1. Increasing(Fresh(p)) /\ \A x \in Fresh(p) : Welcome(p, x.msg)
  BY DEF Orderly
<1>2. Increasing(Fresh(p)')
  BY <1>1 DEF Increasing
<1>3. ASSUME NEW x \in Fresh(p)' PROVE Welcome(p, x.msg)'
  <2>1. Welcome(p, x.msg)
    BY <1>1
  <2> QED BY <2>1 DEF Welcome
<1> QED BY <1>2, <1>3

(* The same for both directions of such a step.                            *)
LEMMA QuietOrder ==
  ASSUME TypeOK, TypeOK', \A p \in Peer : Orderly(p) /\ Keeps(p),
         \A p \in Peer : Target(p)' => Target(p),
         sent' = sent, accepted' = accepted, pending' = pending
  PROVE  \A p \in Peer : Orderly(p)'
<1>1. SameGeneration' = SameGeneration
  BY OtherPeer DEF SameGeneration, Keeps
<1> SUFFICES ASSUME NEW p \in Peer PROVE Orderly(p)'
  OBVIOUS
<1>2. Fresh(p)' \subseteq Fresh(p)
  BY FreshKept
<1> QED BY <1>1, <1>2, OrderlyKept

(* A direction in which nothing moves.                                     *)
LEMMA CarriedKept ==
  ASSUME NEW p \in Peer, NEW t, Carried(p, t),
         phase'[p] = "current" =>
           phase[p] = "current" /\ Marked(outbound'[p], link'[p], t),
         lease'[p].type = "data" =>
           lease'[p].seq = t + 1 /\ t < LastSend(link'[p]),
         link'[Other(p)].applied = link[Other(p)].applied,
         wire'[Other(p)] = wire[Other(p)], Target(p)' => Target(p),
         Reads(p)' => Reads(p)
  PROVE  Carried(p, t)'
BY DEF Carried

(* The next frame of p is leased: it has number t + 1.                     *)
LEMMA LeaseIsNext ==
  ASSUME TypeOK, NEW p \in Peer, phase[p] = "current", NEW t \in Nat,
         Marked(outbound[p], link[p], t), HoldsUnacknowledged(outbound[p], link[p]),
         link[p].generation # 0,
         NEW e \in NextToSend(outbound[p], link[p].generation)
  PROVE  e.seq = t + 1 /\ t < LastSend(link[p])
<1> PICK l \in Link : l = link[p]
  BY DEF TypeOK
<1> PICK q \in SUBSET Entry : q = outbound[p]
  BY DEF TypeOK
<1>1. l.peer_acknowledged \in Nat /\ LastSend(l) \in Nat
  BY LinkNumbers
<1>2. e \in q /\ e.sent # l.generation /\ e.seq \in Nat
      /\ \A x \in q : x.sent # l.generation => e.seq <= x.seq
  BY DEF NextToSend, Entry
<1>3. ~ (e.seq <= t)
  BY <1>2 DEF Marked
<1>4. e.seq \in l.peer_acknowledged + 1 .. LastSend(l)
  BY <1>2 DEF HoldsUnacknowledged
<1>5. t + 1 \in l.peer_acknowledged + 1 .. LastSend(l)
  BY <1>1, <1>2, <1>3, <1>4 DEF Marked
<1>6. PICK x \in q : x.seq = t + 1
  BY <1>5 DEF HoldsUnacknowledged
<1>7. x.sent # l.generation
  <2>1. ~ (x.seq <= t)
    BY <1>6
  <2> QED BY <2>1 DEF Marked
<1>8. e.seq <= t + 1
  BY <1>2, <1>6, <1>7
<1> QED BY <1>1, <1>2, <1>3, <1>4, <1>8

(* next_*_frame.                                                           *)
LEMMA LeaseReliable ==
  ASSUME TypeOK, TypeOK', HandoverInvariant, UnacknowledgedIsQueued,
         ReliableInvariant, NEW p \in Peer, LeaseFrame(p)
  PROVE  ReliableInvariant'
<1> DEFINE l == link[p]
<1>1. /\ UNCHANGED <<link, outbound, phase, wire, sent, accepted, pending>>
      /\ phase[p] = "current" /\ l \in Link /\ l.resync = 0
      /\ lease' = [lease EXCEPT ![p] = lease'[p]]
  BY DEF LeaseFrame, TypeOK, ReliableInvariant, Sockets
<1>2. \/ \E e \in NextToSend(outbound[p], l.generation) :
           lease'[p] = EncodeData(l, e.seq, e.msg)
      \/ lease'[p] = EncodeAck(l)
  BY <1>1 DEF LeaseFrame, HasResyncPending, TypeOK
<1>3. /\ lease'[p].generation = l.generation /\ lease'[p].type \in {"data", "ack"}
      /\ lease'[p].type = "data" => \E e \in NextToSend(outbound[p], l.generation) :
           lease'[p].seq = e.seq
  <2>1. CASE lease'[p] = EncodeAck(l)
    BY <2>1 DEF EncodeAck
  <2>2. ASSUME NEW e \in NextToSend(outbound[p], l.generation),
               lease'[p] = EncodeData(l, e.seq, e.msg)
        PROVE  /\ lease'[p].generation = l.generation /\ lease'[p].type = "data"
               /\ lease'[p].seq = e.seq
    BY <2>2 DEF EncodeData
  <2> QED BY <1>2, <2>1, <2>2
<1>4. \A d \in Peer : d # p => lease'[d] = lease[d]
  BY <1>1 DEF TypeOK
<1>5. Sockets'
  BY <1>1, <1>3, <1>4 DEF ReliableInvariant, Sockets, SameGeneration
<1>6. Bounded'
  BY <1>1 DEF ReliableInvariant, Bounded
<1>7. \A d \in Peer : (Target(d)' <=> Target(d)) /\ (Reads(d)' <=> Reads(d))
  BY <1>1 DEF Target, Reads, SameGeneration
<1>8. \A d \in Peer : Orderly(d)'
  <2>1. \A d \in Peer : Keeps(d)
    BY LeaseKeeps
  <2> QED BY <1>1, <1>7, <2>1, QuietOrder DEF ReliableInvariant, Moving
<1>9. ASSUME NEW d \in Peer PROVE \E t : Carried(d, t)'
  <2>1. PICK t : Carried(d, t)
    BY DEF ReliableInvariant, Moving
  <2>2. phase[d] = "current" => Marked(outbound[d], link[d], t)
    BY <2>1 DEF Carried
  <2>3. lease'[d].type = "data" => lease'[d].seq = t + 1 /\ t < LastSend(link[d])
    <3>1. CASE d = p
      <4>1. l.generation # 0
        BY <1>1, <3>1, OtherPeer DEF HandoverInvariant, GenerationsAgree
      <4>2. HoldsUnacknowledged(outbound[p], link[p])
        BY <1>1 DEF UnacknowledgedIsQueued
      <4>3. t \in Nat
        BY <2>1 DEF Carried
      <4> QED BY <1>1, <1>3, <2>2, <3>1, <4>1, <4>2, <4>3, LeaseIsNext
    <3>2. CASE d # p
      BY <1>4, <2>1, <3>2 DEF Carried
    <3> QED BY <3>1, <3>2
  <2>4. Carried(d, t)'
    BY <1>1, <1>7, <2>1, <2>2, <2>3, CarriedKept
  <2> QED BY <2>4
<1> QED BY <1>5, <1>6, <1>8, <1>9 DEF ReliableInvariant, Moving

----------------------------------------------------------------------------
(* Sending.                                                                *)

(* What a frame at the end of a wire adds to its line.                     *)
LEMMA AppendInLine ==
  ASSUME NEW w \in Seq(Frame), NEW f \in Frame, NEW a \in Nat, NEW t \in Nat,
         InLine(w, a, t), a <= t
  PROVE  /\ (f.type = "data" /\ f.seq = t + 1) => InLine(Append(w, f), a, t + 1)
         /\ f.type # "data" => InLine(Append(w, f), a, t)
<1>1. /\ Len(w) \in Nat /\ DOMAIN w = 1 .. Len(w)
      /\ DOMAIN Append(w, f) = 1 .. Len(w) + 1
      /\ \A i \in DOMAIN w : i \in DOMAIN Append(w, f) /\ Append(w, f)[i] = w[i]
      /\ Append(w, f)[Len(w) + 1] = f
  <2>1. /\ Append(w, f) \in Seq(Frame) /\ Len(Append(w, f)) = Len(w) + 1
        /\ \A i \in 1 .. Len(w) : Append(w, f)[i] = w[i]
        /\ Append(w, f)[Len(w) + 1] = f
    BY AppendProperties
  <2>2. Len(w) \in Nat /\ DOMAIN w = 1 .. Len(w) /\ DOMAIN Append(w, f) = 1 .. Len(w) + 1
    BY <2>1, LenProperties
  <2> QED BY <2>1, <2>2
<1> PICK n \in Nat : n = Len(w)
  BY <1>1
<1> PICK v : v = Append(w, f)
  OBVIOUS
<1>2. /\ DOMAIN w = 1 .. n /\ DOMAIN v = 1 .. n + 1 /\ v[n + 1] = f
      /\ \A i \in 1 .. n : i \in DOMAIN v /\ v[i] = w[i]
      /\ \A i \in DOMAIN v : i = n + 1 \/ i \in DOMAIN w
  BY <1>1
<1>3. ASSUME f.type = "data", f.seq = t + 1 PROVE InLine(v, a, t + 1)
  <2>1. \A i \in DOMAIN v : v[i].type = "data" => v[i].seq \in a + 1 .. t + 1
    <3> SUFFICES ASSUME NEW i \in DOMAIN v, v[i].type = "data"
                 PROVE  v[i].seq \in a + 1 .. t + 1
      OBVIOUS
    <3>1. CASE i \in DOMAIN w
      <4>1. w[i].seq \in a + 1 .. t
        BY <1>2, <3>1 DEF InLine
      <4> QED BY <1>2, <3>1, <4>1
    <3>2. CASE i = n + 1
      BY <1>2, <1>3, <3>2
    <3> QED BY <1>2, <3>1, <3>2
  <2>2. ASSUME NEW i \in DOMAIN v, NEW j \in DOMAIN v, i < j,
               v[i].type = "data", v[j].type = "data"
        PROVE  v[i].seq < v[j].seq
    <3>1. i \in DOMAIN w /\ v[i] = w[i]
      BY <1>2, <2>2
    <3>2. CASE j = n + 1
      <4>1. w[i].seq \in a + 1 .. t
        BY <2>2, <3>1 DEF InLine
      <4> QED BY <1>2, <1>3, <3>1, <3>2, <4>1
    <3>3. CASE j \in DOMAIN w
      BY <1>2, <2>2, <3>1, <3>3 DEF InLine
    <3> QED BY <1>2, <3>2, <3>3
  <2>3. ASSUME NEW s \in a + 1 .. t + 1
        PROVE  \E i \in DOMAIN v : v[i].type = "data" /\ v[i].seq = s
    <3>1. CASE s = t + 1
      BY <1>2, <1>3, <3>1
    <3>2. CASE s # t + 1
      <4>1. s \in a + 1 .. t
        BY <3>2
      <4> QED BY <1>2, <4>1 DEF InLine
    <3> QED BY <3>1, <3>2
  <2> QED BY <2>1, <2>2, <2>3 DEF InLine
<1>4. ASSUME f.type # "data" PROVE InLine(v, a, t)
  <2>1. \A i \in DOMAIN v : v[i].type = "data" => i \in DOMAIN w /\ v[i] = w[i]
    BY <1>2, <1>4
  <2> QED BY <1>2, <2>1 DEF InLine
<1> QED BY <1>3, <1>4

(* What is left of the line behind its head.                               *)
LEMMA TailInLine ==
  ASSUME TypeOK, NEW p \in Peer, wire[p] # <<>>, NEW a \in Nat, NEW t \in Nat,
         InLine(wire[p], a, t)
  PROVE  /\ (Head(wire[p]).type = "data" /\ Head(wire[p]).seq = a + 1) =>
              InLine(Tail(wire[p]), a + 1, t)
         /\ Head(wire[p]).type # "data" => InLine(Tail(wire[p]), a, t)
         /\ \A i \in DOMAIN Tail(wire[p]) :
              Tail(wire[p])[i].type = "data" => Tail(wire[p])[i].seq <= t
<1> PICK w \in Seq(Frame) : w = wire[p]
  BY DEF TypeOK
<1> PICK v : v = Tail(w)
  OBVIOUS
<1>1. /\ 1 \in DOMAIN w /\ Head(w) = w[1]
      /\ \A i \in DOMAIN w : i \in Nat /\ 1 <= i /\ w[i] \in Frame
      /\ \A i \in DOMAIN v : i + 1 \in DOMAIN w /\ v[i] = w[i + 1]
      /\ \A i \in DOMAIN w : i # 1 => i - 1 \in DOMAIN v /\ v[i - 1] = w[i]
  BY HeadOf
<1>2. \A i \in DOMAIN v : v[i].type = "data" => v[i].seq \in a + 1 .. t
  BY <1>1 DEF InLine
<1>3. DOMAIN v \subseteq Nat
  <2>1. v \in Seq(Frame)
    BY HeadTailProperties
  <2> QED BY <2>1, LenProperties
<1>4. \A i, j \in DOMAIN v :
        (i < j /\ v[i].type = "data" /\ v[j].type = "data") => v[i].seq < v[j].seq
  <2> SUFFICES ASSUME NEW i \in DOMAIN v, NEW j \in DOMAIN v, i < j,
                      v[i].type = "data", v[j].type = "data"
               PROVE  v[i].seq < v[j].seq
    OBVIOUS
  <2>1. i + 1 < j + 1
    BY <1>3
  <2> QED BY <1>1, <2>1 DEF InLine
<1>5. ASSUME w[1].type = "data", w[1].seq = a + 1 PROVE InLine(v, a + 1, t)
  <2>1. ASSUME NEW i \in DOMAIN v, v[i].type = "data"
        PROVE  v[i].seq \in (a + 1) + 1 .. t
    <3>1. i + 1 \in DOMAIN w /\ v[i] = w[i + 1]
      BY <1>1
    <3>2. 1 < i + 1
      <4>1. i \in Nat /\ i + 1 # 1
        BY <1>1, <1>3, <3>1, LenProperties, HeadTailProperties
      <4> QED BY <4>1
    <3>3. w[1].seq < w[i + 1].seq
      BY <1>1, <1>5, <2>1, <3>1, <3>2 DEF InLine
    <3> QED BY <1>2, <1>5, <2>1, <3>1, <3>3
  <2>2. ASSUME NEW s \in (a + 1) + 1 .. t
        PROVE  \E i \in DOMAIN v : v[i].type = "data" /\ v[i].seq = s
    <3>1. s \in a + 1 .. t /\ s # a + 1
      OBVIOUS
    <3>2. PICK j \in DOMAIN w : w[j].type = "data" /\ w[j].seq = s
      BY <3>1 DEF InLine
    <3>3. j # 1
      BY <1>5, <3>1, <3>2
    <3>4. j - 1 \in DOMAIN v /\ v[j - 1] = w[j]
      BY <1>1, <3>3
    <3> QED BY <3>2, <3>4
  <2> QED BY <1>4, <2>1, <2>2 DEF InLine
<1>6. ASSUME w[1].type # "data" PROVE InLine(v, a, t)
  <2>1. ASSUME NEW s \in a + 1 .. t
        PROVE  \E i \in DOMAIN v : v[i].type = "data" /\ v[i].seq = s
    <3>1. PICK j \in DOMAIN w : w[j].type = "data" /\ w[j].seq = s
      BY DEF InLine
    <3>2. j # 1
      BY <1>6, <3>1
    <3>3. j - 1 \in DOMAIN v /\ v[j - 1] = w[j]
      BY <1>1, <3>2
    <3> QED BY <3>1, <3>3
  <2> QED BY <1>2, <1>4, <2>1 DEF InLine
<1>7. \A i \in DOMAIN v : v[i].type = "data" => v[i].seq <= t
  BY <1>2
<1> QED BY <1>1, <1>5, <1>6, <1>7

(* Acknowledging the lease of a frame that is not a Resync.                *)
LEMMA TransmitSays ==
  ASSUME TypeOK, NEW p \in Peer, TransmitLeased(p), lease[p].type \in {"data", "ack"},
         lease[p].type = "data" => IsQueued(outbound[p], lease[p].seq)
  PROVE  /\ lease'[p] = NoFrame /\ SameNumbers(link[p], link'[p])
         /\ link'[p].resync = link[p].resync
         /\ outbound'[p] = IF lease[p].type = "data"
                           THEN MarkSent(outbound[p], lease[p].seq, lease[p].generation)
                           ELSE outbound[p]
         /\ \A d \in Peer : d # p =>
              lease'[d] = lease[d] /\ link'[d] = link[d] /\ outbound'[d] = outbound[d]
         /\ wire'[p] = wire[p]
         /\ wire'[Other(p)] = IF phase[Other(p)] \in {"connecting", "current"}
                              THEN Append(wire[Other(p)], lease[p]) ELSE wire[Other(p)]
         /\ UNCHANGED <<phase, sent, accepted, pending>>
<1>1. /\ lease' = [lease EXCEPT ![p] = NoFrame]
      /\ outbound' = IF lease[p].type = "data"
                     THEN [outbound EXCEPT ![p] =
                             MarkSent(@, lease[p].seq, lease[p].generation)]
                     ELSE outbound
      /\ link' = [link EXCEPT ![p] = AcknowledgeSentAck(@, lease[p].ack)]
  BY DEF TransmitLeased, AcknowledgeLease
<1>2. lease[p] \in Frame /\ link[p] \in Link /\ lease[p].ack \in Nat
  BY DEF TypeOK, Frame
<1>3. link'[p] = AcknowledgeSentAck(link[p], lease[p].ack)
  BY <1>1 DEF TypeOK
<1>4. SameNumbers(link[p], link'[p])
  BY <1>2, <1>3, SentNumbers
<1>5. link'[p].resync = link[p].resync
  BY <1>2, <1>3 DEF AcknowledgeSentAck, Link
<1>6. wire'[p] = wire[p]
      /\ wire'[Other(p)] = IF phase[Other(p)] \in {"connecting", "current"}
                           THEN Append(wire[Other(p)], lease[p]) ELSE wire[Other(p)]
  BY OtherPeer DEF TransmitLeased, Carry, TypeOK
<1>7. lease'[p] = NoFrame /\ \A d \in Peer : d # p =>
         lease'[d] = lease[d] /\ link'[d] = link[d] /\ outbound'[d] = outbound[d]
  BY <1>1 DEF TypeOK
<1>8. outbound'[p] = IF lease[p].type = "data"
                     THEN MarkSent(outbound[p], lease[p].seq, lease[p].generation)
                     ELSE outbound[p]
  BY <1>1 DEF TypeOK
<1>9. UNCHANGED <<phase, sent, accepted, pending>>
  BY DEF TransmitLeased
<1> QED BY <1>4, <1>5, <1>6, <1>7, <1>8, <1>9

(* The lease of an operation is one of the unacknowledged, sent ones       *)
(* aside: LeaseIsQueued.                                                   *)
LEMMA LeaseQueued ==
  ASSUME TypeOK, UnacknowledgedIsQueued, ReliableInvariant, NEW p \in Peer,
         lease[p].type = "data"
  PROVE  IsQueued(outbound[p], lease[p].seq)
<1>1. PICK t : Carried(p, t)
  BY DEF ReliableInvariant, Moving
<1>2. phase[p] = "current"
  BY DEF ReliableInvariant, Sockets, NoFrame
<1>3. /\ t \in Nat /\ link[p].peer_acknowledged <= t /\ lease[p].seq = t + 1
      /\ t < LastSend(link[p])
  BY <1>1, <1>2 DEF Carried, Marked
<1>4. link[p] \in Link
  BY DEF TypeOK
<1>5. lease[p].seq \in link[p].peer_acknowledged + 1 .. LastSend(link[p])
  BY <1>3, <1>4, LinkNumbers
<1>6. HoldsUnacknowledged(outbound[p], link[p])
  BY <1>2 DEF UnacknowledgedIsQueued
<1> QED BY <1>5, <1>6 DEF HoldsUnacknowledged, IsQueued

(* mark_sent of the next operation.                                        *)
LEMMA MarkMarked ==
  ASSUME NEW q \in SUBSET Entry, NEW l \in Link, NEW k \in Link, NEW t \in Nat,
         Marked(q, l, t), SameNumbers(l, k), t < LastSend(l)
  PROVE  Marked(MarkSent(q, t + 1, l.generation), k, t + 1)
<1>1. LastSend(k) = LastSend(l) /\ LastSend(l) \in Nat /\ l.peer_acknowledged \in Nat
  BY LinkNumbers DEF SameNumbers
<1>2. ASSUME NEW e \in MarkSent(q, t + 1, l.generation)
      PROVE  e.sent = IF e.seq <= t + 1 THEN l.generation ELSE 0
  <2>1. PICK x \in q : /\ x.seq = e.seq /\ x.msg = e.msg
                       /\ e.sent = IF x.seq = t + 1 THEN l.generation ELSE x.sent
    <3>1. t + 1 \in Nat /\ l.generation \in Nat
      BY LinkNumbers
    <3> QED BY ZenonT(60), <3>1, MarkEntries
  <2>2. x.seq \in Nat /\ x.sent = IF x.seq <= t THEN l.generation ELSE 0
    BY DEF Entry, Marked
  <2> QED BY <2>1, <2>2
<1> QED BY <1>1, <1>2 DEF Marked, SameNumbers

(* send and acknowledge_*_frame.                                           *)
LEMMA TransmitReliable ==
  ASSUME TypeOK, TypeOK', HandoverInvariant, UnacknowledgedIsQueued,
         ReliableInvariant, NEW p \in Peer, TransmitLeased(p)
  PROVE  ReliableInvariant'
<1> DEFINE f == lease[p]
           r == Other(p)
<1>1. /\ r \in Peer /\ r = Other(p) /\ Other(r) = p /\ r # p
      /\ \A d \in Peer : d = p \/ d = r
      /\ p = Client => r = Session
      /\ p = Session => r = Client
      /\ p = Client \/ p = Session
  BY OtherPeer
<1>2. /\ phase[p] = "current" /\ f # NoFrame /\ f \in Frame
      /\ f.type \in {"data", "ack"} /\ f.generation = link[p].generation
      /\ link[p] \in Link /\ link'[p] \in Link
      /\ wire[r] \in Seq(Frame) /\ outbound[p] \in SUBSET Entry
  BY <1>1 DEF TransmitLeased, ReliableInvariant, Sockets, TypeOK
<1>3. /\ lease'[p] = NoFrame /\ SameNumbers(link[p], link'[p])
      /\ link'[p].resync = link[p].resync
      /\ outbound'[p] = IF f.type = "data"
                        THEN MarkSent(outbound[p], f.seq, f.generation)
                        ELSE outbound[p]
      /\ lease'[r] = lease[r] /\ link'[r] = link[r] /\ outbound'[r] = outbound[r]
      /\ wire'[p] = wire[p]
      /\ wire'[r] = IF phase[r] \in {"connecting", "current"}
                    THEN Append(wire[r], f) ELSE wire[r]
      /\ UNCHANGED <<phase, sent, accepted, pending>>
  BY <1>1, <1>2, LeaseQueued, TransmitSays
<1>4. SameGeneration' = SameGeneration
  BY <1>1, <1>3 DEF SameGeneration, SameNumbers
<1>5. phase[r] \in {"connecting", "current"} => Target(p)
  BY <1>1, <1>2 DEF Target, ReliableInvariant, Sockets
<1>6. \A d \in Peer : (Target(d)' <=> Target(d)) /\ (Reads(d)' <=> Reads(d))
  <2>1. ASSUME phase[Client] = "connecting" PROVE wire'[Client] # <<>> <=> wire[Client] # <<>>
    <3>1. CASE p = Client
      BY <1>3, <3>1
    <3>2. CASE p = Session
      <4>1. wire[Client] # <<>>
        BY <1>2, <2>1, <3>2 DEF ReliableInvariant, Sockets
      <4>2. r = Client /\ wire'[r] = Append(wire[r], f)
        BY <1>1, <1>3, <2>1, <3>2
      <4>3. wire'[Client] # <<>>
        BY <1>2, <4>2, WireContents
      <4> QED BY <4>1, <4>3
    <3> QED BY <1>1, <3>1, <3>2
  <2> QED BY <1>3, <1>4, <2>1 DEF Target, Reads
<1>7. \A i \in DOMAIN wire'[r] : wire'[r][i] = f \/ \E j \in DOMAIN wire[r] : wire'[r][i] = wire[r][j]
  BY <1>2, <1>3, WireContents
<1>8. Sockets'
  <2>1. \A i \in DOMAIN wire'[r] :
          wire'[r][i].generation = link'[p].generation /\ wire'[r][i].type # "resync"
    BY <1>1, <1>2, <1>3, <1>7 DEF ReliableInvariant, Sockets, SameNumbers
  <2>2. \A i \in DOMAIN wire'[p] :
          wire'[p][i].generation = link'[r].generation /\ wire'[p][i].type # "resync"
    BY <1>1, <1>3 DEF ReliableInvariant, Sockets
  <2>3. wire'[Session] # <<>> => SameGeneration'
    BY <1>1, <1>2, <1>3, <1>4 DEF ReliableInvariant, Sockets
  <2>4. (phase'[Client] = "connecting" /\ phase'[Session] = "current") => wire'[Client] # <<>>
    <3>1. (phase[Client] = "connecting" /\ phase[Session] = "current") => wire[Client] # <<>>
      BY DEF ReliableInvariant, Sockets
    <3>2. Append(wire[r], f) # <<>>
      BY <1>2, WireContents
    <3> QED BY <1>1, <1>3, <3>1, <3>2
  <2>5. \A d \in Peer : link'[d].resync = 0
    BY <1>1, <1>3 DEF ReliableInvariant, Sockets
  <2>6. \A d \in Peer : lease'[d] # NoFrame =>
          /\ phase'[d] = "current" /\ lease'[d].generation = link'[d].generation
          /\ lease'[d].type \in {"data", "ack"}
    BY <1>1, <1>3 DEF ReliableInvariant, Sockets
  <2>7. phase'[Client] = "current" => SameGeneration'
    BY <1>3, <1>4 DEF ReliableInvariant, Sockets
  <2> HIDE DEF r, f
  <2> QED BY <1>1, <2>1, <2>2, <2>3, <2>4, <2>5, <2>6, <2>7 DEF Sockets
<1>9. Bounded'
  BY <1>3 DEF ReliableInvariant, Bounded
<1>10. \A d \in Peer : Orderly(d)'
  <2>1. \A d \in Peer : Keeps(d)
    BY TransmitKeeps
  <2> QED BY <1>3, <1>6, <2>1, QuietOrder DEF ReliableInvariant, Moving
<1>11. \E t : Carried(r, t)'
  <2>1. PICK t : Carried(r, t)
    BY <1>1 DEF ReliableInvariant, Moving
  <2>2. Carried(r, t)'
    <3>1. link'[p].applied = link[p].applied
      BY <1>3 DEF SameNumbers
    <3> QED BY <1>1, <1>3, <1>6, <2>1, <3>1 DEF Carried
  <2> QED BY <2>2
<1>12. \E t : Carried(p, t)'
  <2>1. PICK t : Carried(p, t)
    BY DEF ReliableInvariant, Moving
  <2> PICK u : u = IF f.type = "data" THEN t + 1 ELSE t
    OBVIOUS
  <2>2. t \in Nat /\ u \in Nat /\ t <= u
    BY <2>1 DEF Carried
  <2>3. Marked(outbound[p], link[p], t) /\ (f.type = "data" => f.seq = t + 1 /\ t < LastSend(link[p]))
    BY <1>2, <2>1 DEF Carried
  <2>4. Marked(outbound'[p], link'[p], u)
    <3>1. CASE f.type = "data"
      BY <1>2, <1>3, <2>2, <2>3, <3>1, MarkMarked
    <3>2. CASE f.type # "data"
      <4>1. LastSend(link'[p]) = LastSend(link[p])
        BY <1>3 DEF SameNumbers, LastSend
      <4> QED BY <1>3, <2>3, <3>2, <4>1 DEF Marked, SameNumbers
    <3> QED BY <3>1, <3>2
  <2>5. \A i \in DOMAIN wire'[r] : wire'[r][i].type = "data" => wire'[r][i].seq <= u
    <3> SUFFICES ASSUME NEW i \in DOMAIN wire'[r], wire'[r][i].type = "data"
                 PROVE  wire'[r][i].seq <= u
      OBVIOUS
    <3>1. CASE wire'[r][i] = f
      BY <2>2, <2>3, <3>1
    <3>2. ASSUME NEW j \in DOMAIN wire[r], wire'[r][i] = wire[r][j]
          PROVE  wire'[r][i].seq <= u
      <4>1. wire[r][j] \in Frame
        BY <1>2, LenProperties, ElementOfSeq
      <4>2. wire[r][j].seq \in Nat /\ wire[r][j].seq <= t
        BY <2>1, <3>2, <4>1 DEF Carried, Frame
      <4> QED BY <2>2, <3>2, <4>2
    <3> QED BY <1>7, <3>1, <3>2
  <2>6. link[r] \in Link /\ link[r].applied \in Nat
    <3>1. link[r] \in Link
      BY <1>1 DEF TypeOK
    <3> QED BY <3>1, LinkNumbers
  <2>7. Target(p)' => link'[r].applied <= u
    BY <1>3, <1>6, <2>1, <2>2, <2>6 DEF Carried
  <2>8. Reads(p)' => InLine(wire'[r], link'[r].applied, u)
    <3> SUFFICES ASSUME Reads(p)' PROVE InLine(wire'[r], link'[r].applied, u)
      OBVIOUS
    <3>1. Reads(p) /\ Target(p) /\ phase[r] \in {"connecting", "current"}
      BY <1>6 DEF Reads
    <3>2. InLine(wire[r], link[r].applied, t) /\ link[r].applied <= t
      BY <2>1, <3>1 DEF Carried
    <3>3. InLine(Append(wire[r], f), link[r].applied, u)
      <4> HIDE DEF r, f
      <4> QED BY <1>2, <2>2, <2>3, <2>6, <3>2, AppendInLine
    <3> QED BY <1>3, <3>1, <3>3
  <2>9. lease'[p].type # "data"
    BY <1>3 DEF NoFrame
  <2>10. Carried(p, u)'
    BY <2>2, <2>4, <2>5, <2>7, <2>8, <2>9 DEF Carried
  <2> QED BY <2>10
<1> HIDE DEF r, f
<1> QED BY <1>1, <1>8, <1>9, <1>10, <1>11, <1>12 DEF ReliableInvariant, Moving

----------------------------------------------------------------------------
(* Acknowledgements.                                                       *)

(* A queue of which less is left.                                          *)
LEMMA FewerMarked ==
  ASSUME NEW q, NEW h, h \subseteq q, NEW l \in Link, NEW k \in Link, NEW t,
         Marked(q, l, t), k.generation = l.generation, LastSend(k) = LastSend(l),
         k.peer_acknowledged <= t
  PROVE  Marked(h, k, t)
BY DEF Marked

(* What a frame acknowledges was sent.                                     *)
LEMMA AckBelow ==
  ASSUME TypeOK, HandoverInvariant, Sockets, NEW p \in Peer, Arrives(p),
         Head(wire[p]).type \in {"data", "ack"}, NEW t, Carried(p, t)
  PROVE  /\ link[p].peer_acknowledged <= t /\ t \in Nat
         /\ AcceptPeerAck(link[p], Head(wire[p]).ack).peer_acknowledged <= t
         /\ AcceptPeerAck(link[p], Head(wire[p]).ack).peer_acknowledged
              <= link[Other(p)].applied
<1> DEFINE f == Head(wire[p])
           r == Other(p)
<1>1. /\ SameGeneration /\ Target(p) /\ f \in Frame /\ f = wire[p][1]
      /\ 1 \in DOMAIN wire[p] /\ f.generation = link[r].generation
  BY ArrivesInGeneration
<1>2. r \in Peer /\ phase[p] = "current"
  BY OtherPeer DEF Arrives
<1>3. link[p].peer_acknowledged <= t /\ link[r].applied <= t /\ t \in Nat
  BY <1>1, <1>2 DEF Carried, Marked
<1>4. link[r].generation # 0
  BY <1>1, <1>2, OtherPeer DEF HandoverInvariant, GenerationsAgree, SameGeneration
<1>5. f.ack <= link[r].applied
  <2>1. FrameAgrees(f, link[r])
    BY <1>1, <1>2 DEF HandoverInvariant, FramesAgree
  <2> QED BY <1>1, <1>4, <2>1 DEF FrameAgrees
<1>6. /\ link[p].peer_acknowledged \in Nat /\ link[r].applied \in Nat /\ f.ack \in Nat
      /\ link[p] \in Link
  <2>1. link[p] \in Link /\ link[r] \in Link
    BY <1>2 DEF TypeOK
  <2> QED BY <1>1, <2>1, LinkNumbers DEF Frame
<1>7. link[p].peer_acknowledged <= link[r].applied
  BY <1>1, <1>2 DEF HandoverInvariant, WatermarksAgree
<1>8. AcceptPeerAck(link[p], f.ack).peer_acknowledged =
        IF f.ack > link[p].peer_acknowledged THEN f.ack ELSE link[p].peer_acknowledged
  BY <1>6 DEF AcceptPeerAck, Link
<1> QED BY <1>3, <1>5, <1>6, <1>7, <1>8

(* A frame that arrives at p is taken from p's wire: what this means for   *)
(* the conditions on sockets and directions.                               *)
LEMMA TailSockets ==
  ASSUME TypeOK, TypeOK', Sockets, NEW p \in Peer, Arrives(p),
         wire' = [wire EXCEPT ![p] = Tail(@)], phase' = phase,
         \A d \in Peer : link'[d].generation = link[d].generation,
         \A d \in Peer : link'[d].resync = 0, lease' = lease
  PROVE  /\ Sockets' /\ SameGeneration' = SameGeneration
         /\ \A d \in Peer : (Target(d)' <=> Target(d)) /\ (Reads(d)' <=> Reads(d))
<1>1. SameGeneration' = SameGeneration
  BY OtherPeer DEF SameGeneration
<1>2. /\ wire'[p] = Tail(wire[p]) /\ wire[p] # <<>> /\ phase[p] = "current"
      /\ \A d \in Peer : d # p => wire'[d] = wire[d]
  BY DEF TypeOK, Arrives
<1>3. \A i \in DOMAIN wire'[p] : \E j \in DOMAIN wire[p] : wire'[p][i] = wire[p][j]
  BY <1>2, HeadOf
<1>4. phase[Client] = "connecting" => wire'[Client] = wire[Client]
  BY <1>2, OtherPeer
<1>5. \A d \in Peer : (Target(d)' <=> Target(d)) /\ (Reads(d)' <=> Reads(d))
  BY <1>1, <1>4 DEF Target, Reads
<1>6. \A d \in Peer : \A i \in DOMAIN wire'[d] :
        wire'[d][i].generation = link'[Other(d)].generation /\ wire'[d][i].type # "resync"
  <2> SUFFICES ASSUME NEW d \in Peer, NEW i \in DOMAIN wire'[d]
               PROVE  wire'[d][i].generation = link'[Other(d)].generation
                      /\ wire'[d][i].type # "resync"
    OBVIOUS
  <2>1. PICK j \in DOMAIN wire[d] : wire'[d][i] = wire[d][j]
    BY <1>2, <1>3
  <2> QED BY <2>1, OtherPeer DEF Sockets
<1>7. wire'[Session] # <<>> => SameGeneration'
  <2>1. SameGeneration
    BY ArrivesInGeneration
  <2> QED BY <1>1, <2>1
<1>8. Sockets'
  BY <1>1, <1>4, <1>6, <1>7 DEF Sockets
<1> QED BY <1>1, <1>5, <1>8

(* The line of a wire whose head was taken and was no operation.           *)
LEMMA TailCarried ==
  ASSUME TypeOK, NEW d \in Peer, NEW t, Carried(d, t),
         wire[Other(d)] # <<>>, Head(wire[Other(d)]).type # "data",
         wire'[Other(d)] = Tail(wire[Other(d)]),
         phase'[d] = "current" => phase[d] = "current",
         link'[d] = link[d], outbound'[d] = outbound[d], lease'[d] = lease[d],
         link'[Other(d)].applied = link[Other(d)].applied,
         Target(d)' => Target(d), Reads(d)' => Reads(d)
  PROVE  Carried(d, t)'
<1>1. Other(d) \in Peer /\ link[Other(d)] \in Link /\ t \in Nat
  BY OtherPeer DEF TypeOK, Carried
<1>2. link[Other(d)].applied \in Nat
  BY <1>1, LinkNumbers
<1>3. \A i \in DOMAIN Tail(wire[Other(d)]) :
        Tail(wire[Other(d)])[i].type = "data" => Tail(wire[Other(d)])[i].seq <= t
  BY <1>1, HeadOf DEF Carried
<1>4. InLine(wire[Other(d)], link[Other(d)].applied, t) =>
        InLine(Tail(wire[Other(d)]), link[Other(d)].applied, t)
  BY <1>1, <1>2, TailInLine
<1> QED BY <1>3, <1>4 DEF Carried

(* No frame is of a later generation than the end that sent it.            *)
LEMMA OldFrames ==
  ASSUME TypeOK, HandoverInvariant, Sockets
  PROVE  FramesAreOld /\ GenerationsAgree
<1>1. \A d \in Peer : lease[d].generation <= link[d].generation
  <2> SUFFICES ASSUME NEW d \in Peer PROVE lease[d].generation <= link[d].generation
    OBVIOUS
  <2>1. link[d].generation \in Nat
    BY DEF TypeOK, Link
  <2> QED BY <2>1 DEF Sockets, NoFrame
<1>2. \A d \in Peer : \A i \in DOMAIN wire[d] :
        wire[d][i].generation <= link[Other(d)].generation
  <2> SUFFICES ASSUME NEW d \in Peer, NEW i \in DOMAIN wire[d]
               PROVE  wire[d][i].generation <= link[Other(d)].generation
    OBVIOUS
  <2>1. link[Other(d)].generation \in Nat
    BY OtherPeer DEF TypeOK, Link
  <2> QED BY <2>1 DEF Sockets
<1> QED BY <1>1, <1>2 DEF FramesAreOld, Sockets, HandoverInvariant

(* A bare acknowledgement.                                                 *)
LEMMA ControlReliable ==
  ASSUME TypeOK, TypeOK', HandoverInvariant, ReliableInvariant, NEW p \in Peer,
         ReceiveControl(p)
  PROVE  ReliableInvariant'
<1> DEFINE f == Head(wire[p])
           r == Other(p)
<1>1. /\ r \in Peer /\ r = Other(p) /\ Other(r) = p /\ r # p
      /\ \A d \in Peer : d = p \/ d = r
  BY OtherPeer
<1>2. Sockets /\ Bounded /\ Arrives(p) /\ wire[p] # <<>>
  BY DEF ReliableInvariant, ReceiveControl, Arrives
<1>3. f.type = "ack"
  BY <1>2, ArrivesInGeneration DEF ReceiveControl
<1>4. /\ link' = [link EXCEPT ![p] = AcceptPeerAck(@, f.ack)]
      /\ outbound' = [outbound EXCEPT ![p] =
           AcknowledgeThrough(@, AcceptPeerAck(link[p], f.ack).peer_acknowledged)]
      /\ wire' = [wire EXCEPT ![p] = Tail(@)]
      /\ UNCHANGED <<lease, phase, sent, accepted, pending>>
  BY <1>3 DEF ReceiveControl
<1>5. /\ link[p] \in Link /\ link'[p] \in Link /\ link'[r] = link[r]
      /\ link'[p] = AcceptPeerAck(link[p], f.ack) /\ outbound'[r] = outbound[r]
      /\ outbound'[p] \subseteq outbound[p]
      /\ wire'[p] = Tail(wire[p]) /\ wire'[r] = wire[r]
  BY <1>1, <1>4 DEF TypeOK, AcknowledgeThrough
<1>6. /\ link'[p].generation = link[p].generation /\ link'[p].next_send = link[p].next_send
      /\ link'[p].applied = link[p].applied /\ link'[p].resync = link[p].resync
  BY <1>5 DEF AcceptPeerAck, Link
<1>7. /\ Sockets' /\ SameGeneration' = SameGeneration
      /\ \A d \in Peer : (Target(d)' <=> Target(d)) /\ (Reads(d)' <=> Reads(d))
  <2>1. \A d \in Peer : link'[d].generation = link[d].generation
    BY <1>1, <1>5, <1>6
  <2>2. \A d \in Peer : link'[d].resync = 0
    BY <1>1, <1>2, <1>5, <1>6 DEF Sockets
  <2> QED BY <1>2, <1>4, <2>1, <2>2, TailSockets
<1>8. Bounded'
  BY <1>2, <1>4 DEF Bounded
<1>9. \A d \in Peer : Orderly(d)'
  <2>1. FramesAreOld /\ GenerationsAgree
    BY <1>2, OldFrames
  <2>2. \A d \in Peer : Keeps(d)
    BY <2>1, ReceptionKeeps
  <2> QED BY <1>4, <1>7, <2>2, QuietOrder DEF ReliableInvariant, Moving
<1>10. \E t : Carried(p, t)'
  <2>1. PICK t : Carried(p, t)
    BY DEF ReliableInvariant, Moving
  <2>2. Marked(outbound[p], link[p], t) /\ link'[p].peer_acknowledged <= t
    BY <1>2, <1>3, <1>5, <2>1, AckBelow DEF Carried, Arrives
  <2>3. LastSend(link'[p]) = LastSend(link[p])
    BY <1>6 DEF LastSend
  <2>4. Marked(outbound'[p], link'[p], t)
    BY <1>5, <1>6, <2>2, <2>3, FewerMarked
  <2>5. Carried(p, t)'
    BY <1>1, <1>4, <1>5, <1>7, <2>1, <2>3, <2>4 DEF Carried
  <2> QED BY <2>5
<1>11. \E t : Carried(r, t)'
  <2>1. PICK t : Carried(r, t)
    BY <1>1 DEF ReliableInvariant, Moving
  <2>2. Carried(r, t)'
    BY <1>1, <1>2, <1>3, <1>4, <1>5, <1>6, <1>7, <2>1, TailCarried
  <2> QED BY <2>2
<1> HIDE DEF r, f
<1> QED BY <1>1, <1>7, <1>8, <1>9, <1>10, <1>11 DEF ReliableInvariant, Moving

----------------------------------------------------------------------------
(* Sockets that close and handshakes that begin.                           *)

(* End p has no socket any more.                                           *)
Closes(p) ==
  /\ phase'[p] \notin {"connecting", "current"} /\ wire'[p] = <<>>
  /\ lease'[p] = NoFrame /\ outbound'[p] \subseteq outbound[p]
  /\ \A d \in Peer : d # p =>
       /\ phase'[d] = phase[d] /\ wire'[d] = wire[d]
       /\ lease'[d] = lease[d] /\ outbound'[d] = outbound[d]
  /\ UNCHANGED <<link, sent, accepted, pending>>

(* The end of a socket keeps what the other end knows of it.               *)
LEMMA CloseReliable ==
  ASSUME TypeOK, TypeOK', ReliableInvariant, NEW p \in Peer, Closes(p),
         \A d \in Peer : Keeps(d)
  PROVE  ReliableInvariant'
<1> DEFINE r == Other(p)
<1>1. /\ r \in Peer /\ r = Other(p) /\ Other(r) = p /\ r # p
      /\ \A d \in Peer : d = p \/ d = r
  BY OtherPeer
<1>2. Sockets /\ Bounded /\ DOMAIN <<>> = {}
  BY DEF ReliableInvariant
<1>3. SameGeneration' = SameGeneration
  BY DEF Closes, SameGeneration
<1>4. \A d \in Peer : /\ phase'[d] \in {"connecting", "current"} => phase'[d] = phase[d]
                      /\ wire'[d] = wire[d] \/ wire'[d] = <<>>
                      /\ lease'[d] = lease[d] \/ lease'[d] = NoFrame
                      /\ link'[d] = link[d]
  BY <1>1 DEF Closes
<1>5. \A d \in Peer : (Target(d)' => Target(d)) /\ (Reads(d)' => Reads(d))
  <2>1. \A d \in Peer : Target(d)' => Target(d)
    BY <1>3, <1>4, OtherPeer DEF Target
  <2> QED BY <1>4, <2>1, OtherPeer DEF Reads
<1>6. Sockets'
  <2>1. \A d \in Peer : \A i \in DOMAIN wire'[d] :
          wire'[d][i].generation = link'[Other(d)].generation /\ wire'[d][i].type # "resync"
    BY <1>2, <1>4, OtherPeer DEF Sockets
  <2>2. \A d \in Peer : lease'[d] # NoFrame =>
          /\ phase'[d] = "current" /\ lease'[d].generation = link'[d].generation
          /\ lease'[d].type \in {"data", "ack"}
    BY <1>1, <1>2 DEF Closes, Sockets
  <2>3. (phase'[Client] = "connecting" /\ phase'[Session] = "current") => wire'[Client] # <<>>
    BY <1>2, OtherPeer DEF Closes, Sockets
  <2> QED BY <1>2, <1>3, <1>4, <2>1, <2>2, <2>3, OtherPeer DEF Sockets
<1>7. Bounded'
  BY <1>2 DEF Bounded, Closes
<1>8. \A d \in Peer : Orderly(d)'
  BY <1>5, QuietOrder DEF ReliableInvariant, Moving, Closes
<1>9. \E t : Carried(p, t)'
  <2>1. PICK t : Carried(p, t)
    BY DEF ReliableInvariant, Moving
  <2>2. Carried(p, t)'
    BY <1>1, <1>4, <1>5, <2>1 DEF Carried, Closes, NoFrame
  <2> QED BY <2>2
<1>10. \E t : Carried(r, t)'
  <2>1. PICK t : Carried(r, t)
    BY <1>1 DEF ReliableInvariant, Moving
  <2>2. ~ Reads(r)'
    BY <1>1 DEF Reads, Closes
  <2>3. Carried(r, t)'
    BY <1>1, <1>2, <1>4, <1>5, <2>1, <2>2 DEF Carried, Closes
  <2> QED BY <2>3
<1> HIDE DEF r
<1> QED BY <1>1, <1>6, <1>7, <1>8, <1>9, <1>10 DEF ReliableInvariant, Moving

(* mark_stale of either end, and the end of a Client without room.         *)
LEMMA DisconnectReliable ==
  ASSUME TypeOK, TypeOK', ReliableInvariant,
         ClientOverflow \/ ClientDisconnect \/ SessionDisconnect
  PROVE  ReliableInvariant'
<1>1. \A d \in Peer : Keeps(d)
  BY LossKeeps
<1>2. ClientOverflow \/ ClientDisconnect => Closes(Client)
  BY OtherPeer DEF ClientOverflow, Terminate, ClientDisconnect, Closes, TypeOK
<1>3. SessionDisconnect => Closes(Session)
  BY OtherPeer DEF SessionDisconnect, Closes, TypeOK
<1> QED BY <1>1, <1>2, <1>3, CloseReliable, OtherPeer

(* begin_resume: nothing of the old generation reaches the new socket.     *)
LEMMA BeginReliable ==
  ASSUME TypeOK, TypeOK', HandoverInvariant, ReliableInvariant, BeginResume
  PROVE  ReliableInvariant'
<1>1. /\ phase[Client] = "stale" /\ phase[Session] = "stale"
      /\ phase'[Client] = "connecting" /\ phase'[Session] = "stale"
      /\ UNCHANGED <<link, outbound, lease, wire, sent, accepted, pending>>
  BY OtherPeer DEF BeginResume, TypeOK
<1>2. wire[Client] = <<>> /\ wire[Session] = <<>> /\ DOMAIN <<>> = {}
  BY <1>1 DEF HandoverInvariant, ClosedWiresAreEmpty
<1>3. Sockets /\ Bounded
  BY DEF ReliableInvariant
<1>4. \A d \in Peer : lease[d] = NoFrame
  BY <1>1, <1>3, OtherPeer DEF Sockets
<1>5. SameGeneration' = SameGeneration
  BY <1>1 DEF SameGeneration
<1>6. Sockets'
  BY <1>1, <1>2, <1>3, <1>4, <1>5, OtherPeer DEF Sockets
<1>7. \A d \in Peer : Target(d)' => Target(d)
  BY <1>1, <1>2, <1>5 DEF Target
<1>8. \A d \in Peer : Orderly(d)'
  <2>1. \A d \in Peer : Keeps(d)
    BY LossKeeps
  <2> QED BY <1>1, <1>7, <2>1, QuietOrder DEF ReliableInvariant, Moving
<1>9. \E t : Carried(Client, t)'
  <2>1. PICK t : Carried(Client, t)
    BY OtherPeer DEF ReliableInvariant, Moving
  <2>2. ~ Reads(Client)'
    BY <1>1, OtherPeer DEF Reads
  <2>3. Carried(Client, t)'
    BY <1>1, <1>7, <2>1, <2>2, OtherPeer DEF Carried
  <2> QED BY <2>3
<1>10. \E t : Carried(Session, t)'
  <2>1. link[Client] \in Link
    BY OtherPeer DEF TypeOK
  <2>2. PICK t \in Nat : t = link[Client].applied
    BY <2>1, LinkNumbers
  <2>3. InLine(<<>>, t, t)
    <3>1. t + 1 .. t = {}
      OBVIOUS
    <3> QED BY <1>2, <3>1 DEF InLine
  <2>4. Carried(Session, t)'
    BY <1>1, <1>2, <1>4, <2>2, <2>3, OtherPeer DEF Carried, NoFrame
  <2> QED BY <2>4
<1>11. Bounded'
  BY <1>1, <1>3 DEF Bounded
<1> QED BY <1>6, <1>8, <1>9, <1>10, <1>11, OtherPeer DEF ReliableInvariant, Moving

(* Steps that touch nothing of this: an offer is dropped.                  *)
LEMMA StutterReliable ==
  ASSUME ReliableInvariant,
         UNCHANGED <<link, outbound, lease, phase, wire, sent, accepted, pending>>
  PROVE  ReliableInvariant'
<1>1. Sockets' /\ Bounded'
  BY DEF ReliableInvariant, Sockets, Bounded, SameGeneration
<1>2. \A d \in Peer : (Target(d)' <=> Target(d)) /\ (Reads(d)' <=> Reads(d))
  BY DEF Target, Reads, SameGeneration
<1>3. \A d \in Peer : Fresh(d)' = Fresh(d)
  BY DEF Fresh, Flies
<1>4. ASSUME NEW d \in Peer PROVE Moving(d)'
  <2>1. Orderly(d)'
    BY <1>2, <1>3, OrderlyKept DEF ReliableInvariant, Moving, SameGeneration
  <2>2. PICK t : Carried(d, t)
    BY DEF ReliableInvariant, Moving
  <2>3. Carried(d, t)'
    BY <1>2, <2>2 DEF Carried
  <2> QED BY <2>1, <2>3 DEF Moving
<1> QED BY <1>1, <1>4 DEF ReliableInvariant

----------------------------------------------------------------------------
(* Publications.                                                           *)

(* The operations of queue q, or of those under way, that are after a.     *)
Unapplied(q, F, a) ==
  {x \in Fingerprint :
     /\ x.seq > a
     /\ (\E e \in q : e.seq = x.seq /\ e.msg = x.msg) \/ x \in F}

Aloft(p) == {x \in Fingerprint : Flies(p, x.seq, x.msg)}

(* Fresh in these terms.                                                   *)
LEMMA FreshIs ==
  ASSUME NEW p \in Peer
  PROVE  Fresh(p) = Unapplied(outbound[p], Aloft(p), link[Other(p)].applied)
BY DEF Fresh, Unapplied, Aloft

(* What was pushed was never sent.                                         *)
LEMMA PushedUnsent ==
  \A q \in SUBSET Entry, l \in Link, m \in Message : \A e \in PushQueue(q, l, m) :
    e \notin q =>
      /\ m # NoMessage /\ e.msg = m /\ e.sent = 0
      /\ \/ Replaced(q, m) = {} /\ e.seq = l.next_send
         \/ \E x \in Replaced(q, m) : e.seq = x.seq
<1> TAKE q \in SUBSET Entry, l \in Link, m \in Message
<1> TAKE e \in PushQueue(q, l, m)
<1> HAVE e \notin q
<1>1. m # NoMessage
  BY DEF PushQueue
<1>2. CASE Replaced(q, m) # {}
  <2>1. PICK x \in Replaced(q, m) : e = [x EXCEPT !.msg = m]
    BY <1>1, <1>2 DEF PushQueue
  <2>2. x \in Entry /\ x.sent = 0
    BY ReplacedValues
  <2>3. e.seq = x.seq /\ e.msg = m /\ e.sent = 0
    BY <2>1, <2>2 DEF Entry
  <2> QED BY <1>1, <2>3
<1>3. CASE Replaced(q, m) = {}
  <2>1. e = NewEntry(l.next_send, m)
    BY <1>1, <1>3 DEF PushQueue
  <2> QED BY <1>1, <1>3, <2>1 DEF NewEntry
<1> QED BY <1>2, <1>3

(* A push leaves the sent ones the ones up to t.                           *)
LEMMA PushMarked ==
  ASSUME NEW q \in SUBSET Entry, NEW l \in Link, NEW m \in Message, NEW t \in Nat,
         Marked(q, l, t)
  PROVE  Marked(PushQueue(q, l, m), PushLink(q, l, m), t)
<1> PICK k : k = PushLink(q, l, m)
  OBVIOUS
<1>1. /\ k \in Link /\ LastSend(l) <= LastSend(k) /\ k.generation = l.generation
      /\ k.peer_acknowledged = l.peer_acknowledged
  BY PushGrows
<1>2. LastSend(l) \in Nat /\ LastSend(k) \in Nat /\ l.next_send = LastSend(l) + 1
  BY <1>1, LinkNumbers
<1>3. ASSUME NEW e \in PushQueue(q, l, m)
      PROVE  e.sent = IF e.seq <= t THEN l.generation ELSE 0
  <2>1. CASE e \in q
    BY <2>1 DEF Marked
  <2>2. CASE e \notin q
    <3>1. /\ e.sent = 0
          /\ e.seq = l.next_send \/ \E x \in Replaced(q, m) : e.seq = x.seq
      BY <2>2, PushedUnsent
    <3>2. CASE e.seq = l.next_send
      BY <1>2, <3>1, <3>2 DEF Marked
    <3>3. ASSUME NEW x \in Replaced(q, m), e.seq = x.seq
          PROVE  e.sent = IF e.seq <= t THEN l.generation ELSE 0
      BY <3>1, <3>3, ReplacedValues DEF Marked
    <3> QED BY <3>1, <3>2, <3>3
  <2> QED BY <2>1, <2>2
<1>4. l.peer_acknowledged <= t /\ t <= LastSend(k)
  BY <1>1, <1>2 DEF Marked
<1> QED BY <1>1, <1>3, <1>4 DEF Marked

(* What a push adds to the unapplied operations is m, with the number of   *)
(* the message it replaces or else with the next one.                      *)
AddsMessage(q, F, l, m, a) ==
  \A z \in Unapplied(PushQueue(q, l, m), F, a) :
    z \notin Unapplied(q, F, a) =>
      /\ m # NoMessage /\ z.msg = m
      /\ \/ Replaced(q, m) = {} /\ z.seq = l.next_send
         \/ \E x \in Replaced(q, m) : z.seq = x.seq

(* It does so for every queue and every operation under way.               *)
LEMMA UnappliedPushed ==
  ASSUME NEW q \in SUBSET Entry, NEW F \in SUBSET Fingerprint, NEW l \in Link,
         NEW m \in Message, NEW a \in Nat
  PROVE  AddsMessage(q, F, l, m, a)
<1> USE DEF AddsMessage
<1> TAKE z \in Unapplied(PushQueue(q, l, m), F, a)
<1> HAVE z \notin Unapplied(q, F, a)
<1>1. PICK e \in PushQueue(q, l, m) : e.seq = z.seq /\ e.msg = z.msg
  BY DEF Unapplied
<1>2. e \notin q
  BY <1>1 DEF Unapplied
<1>3. /\ m # NoMessage /\ e.msg = m
      /\ \/ Replaced(q, m) = {} /\ e.seq = l.next_send
         \/ \E x \in Replaced(q, m) : e.seq = x.seq
  BY <1>2, PushedUnsent
<1> QED BY <1>1, <1>3

(* The newest message of its kind comes last, also where it takes the      *)
(* place of one that was not sent.                                         *)
LEMMA PushIncreasing ==
  ASSUME NEW q \in SUBSET Entry, NEW F \in SUBSET Fingerprint, NEW l \in Link,
         NEW m \in Message, NEW t \in Nat, NEW a \in Nat,
         Marked(q, l, t), l.generation # 0,
         \A x \in F : x.seq <= t + 1 /\ x.seq <= LastSend(l),
         \A e \in q : e.seq <= LastSend(l),
         Increasing(Unapplied(q, F, a)),
         \A y \in Unapplied(q, F, a) : y.msg.kind = m.kind => y.msg.n < m.n
  PROVE  /\ Increasing(Unapplied(PushQueue(q, l, m), F, a))
         /\ \A z \in Unapplied(PushQueue(q, l, m), F, a) :
              z \in Unapplied(q, F, a) \/ (z.msg = m /\ m # NoMessage)
<1>0. AddsMessage(q, F, l, m, a)
  BY UnappliedPushed
<1> PICK S : S = Unapplied(q, F, a)
  OBVIOUS
<1> PICK T : T = Unapplied(PushQueue(q, l, m), F, a)
  OBVIOUS
<1>1. LastSend(l) \in Nat /\ l.next_send = LastSend(l) + 1
  BY LinkNumbers
<1>2. \A x \in S : x \in Fingerprint /\ x.seq \in Nat /\ x.seq <= LastSend(l)
  BY DEF Unapplied, Fingerprint
<1>3. ASSUME NEW z \in T, z \notin S
      PROVE  /\ m # NoMessage /\ z.msg = m
             /\ \/ Replaced(q, m) = {} /\ z.seq = l.next_send
                \/ \E x \in Replaced(q, m) : z.seq = x.seq
  BY <1>0, <1>3 DEF AddsMessage
<1>4. ASSUME NEW z \in T, z \notin S, NEW y \in S, z.seq < y.seq, y.msg.kind = m.kind
      PROVE  FALSE
  <2>1. CASE z.seq = l.next_send
    BY <1>1, <1>2, <1>4, <2>1
  <2>2. ASSUME NEW x \in Replaced(q, m), z.seq = x.seq PROVE FALSE
    <3>1. x \in q /\ x.msg.kind = "current" /\ m.kind = "current" /\ x.sent = 0
          /\ x.seq \in Nat
      BY ReplacedValues DEF Entry
    <3>2. ~ (x.seq <= t)
      BY <3>1 DEF Marked
    <3>3. y.seq > t + 1 /\ y.seq > x.seq /\ y.seq \in Nat
      BY <1>2, <1>4, <2>2, <3>1, <3>2
    <3>4. y \notin F
      BY <3>3
    <3>5. PICK e \in q : e.seq = y.seq /\ e.msg = y.msg
      BY <3>4 DEF Unapplied
    <3>6. e.sent = 0
      <4>1. ~ (e.seq <= t)
        BY <3>3, <3>5
      <4> QED BY <4>1 DEF Marked
    <3>7. e.seq <= x.seq
      BY <1>4, <3>1, <3>5, <3>6 DEF Replaced, ReplacesPending
    <3> QED BY <3>1, <3>3, <3>5, <3>7
  <2> QED BY <1>3, <1>4, <2>1, <2>2
<1>5. ASSUME NEW z \in T, z \notin S, NEW y \in T, y \notin S, z.seq < y.seq
      PROVE  FALSE
  <2>1. CASE Replaced(q, m) = {}
    BY <1>1, <1>3, <1>5, <2>1
  <2>2. CASE Replaced(q, m) # {}
    <3>1. PICK x \in Replaced(q, m) : z.seq = x.seq
      BY <1>3, <1>5, <2>2
    <3>2. PICK w \in Replaced(q, m) : y.seq = w.seq
      BY <1>3, <1>5, <2>2
    <3>3. w.seq <= x.seq
      BY DEF Replaced
    <3>4. x.seq \in Nat /\ w.seq \in Nat
      BY ReplacedValues DEF Entry
    <3> QED BY <1>5, <3>1, <3>2, <3>3, <3>4
  <2> QED BY <2>1, <2>2
<1>6. ASSUME NEW z \in T, NEW y \in T, z.seq < y.seq, z.msg.kind = y.msg.kind
      PROVE  z.msg.n < y.msg.n
  <2>1. CASE z \in S /\ y \in S
    BY <1>6, <2>1 DEF Increasing
  <2>2. CASE z \in S /\ y \notin S
    <3>1. y.msg = m
      BY <1>3, <2>2
    <3> QED BY <1>6, <2>2, <3>1
  <2>3. CASE z \notin S
    <3>1. z.msg = m
      BY <1>3, <2>3
    <3> QED BY <1>4, <1>5, <1>6, <2>3, <3>1
  <2> QED BY <2>1, <2>2, <2>3
<1> QED BY <1>3, <1>6 DEF Increasing

(* Message m is newer than what S holds of its kind.                       *)
Newest(m, S) == \A y \in S : y.msg.kind = m.kind => y.msg.n < m.n

(* Queue q, and F under way, hold operations that link l has numbered.     *)
Numbered(q, F, l, t) ==
  /\ \A x \in F : x.seq <= t + 1 /\ x.seq <= LastSend(l)
  /\ \A e \in q : e.seq <= LastSend(l)

(* T has nothing that S has not, except m.                                 *)
AddsOnly(T, S, m) == \A z \in T : z \in S \/ (z.msg = m /\ m # NoMessage)

(* The same in these terms.                                                *)
LEMMA PushOrders ==
  ASSUME NEW q \in SUBSET Entry, NEW F \in SUBSET Fingerprint, NEW l \in Link,
         NEW m \in Message, NEW t \in Nat, NEW a \in Nat,
         Marked(q, l, t), l.generation # 0, Numbered(q, F, l, t),
         Increasing(Unapplied(q, F, a)), Newest(m, Unapplied(q, F, a))
  PROVE  /\ Increasing(Unapplied(PushQueue(q, l, m), F, a))
         /\ AddsOnly(Unapplied(PushQueue(q, l, m), F, a), Unapplied(q, F, a), m)
<1>1. /\ \A x \in F : x.seq <= t + 1 /\ x.seq <= LastSend(l)
      /\ \A e \in q : e.seq <= LastSend(l)
  BY DEF Numbered
<1>2. \A y \in Unapplied(q, F, a) : y.msg.kind = m.kind => y.msg.n < m.n
  BY DEF Newest
<1> QED BY <1>1, <1>2, PushIncreasing DEF AddsOnly

(* What is under way of a connected end was numbered, and sent or leased.  *)
LEMMA AloftBounds ==
  ASSUME TypeOK, NEW p \in Peer, phase[p] = "current", NEW t, Carried(p, t)
  PROVE  /\ Aloft(p) \in SUBSET Fingerprint /\ t \in Nat
         /\ Marked(outbound[p], link[p], t)
         /\ \A x \in Aloft(p) : x.seq <= t + 1 /\ x.seq <= LastSend(link[p])
<1>1. Marked(outbound[p], link[p], t) /\ t \in Nat
  BY DEF Carried
<1>2. link[p] \in Link
  BY DEF TypeOK
<1>3. LastSend(link[p]) \in Nat /\ t <= LastSend(link[p])
  BY <1>1, <1>2, LinkNumbers DEF Marked
<1>4. ASSUME NEW x \in Aloft(p)
      PROVE  x.seq <= t + 1 /\ x.seq <= LastSend(link[p])
  <2>1. x \in Fingerprint /\ x.seq \in Nat /\ Flies(p, x.seq, x.msg)
    BY DEF Aloft, Fingerprint
  <2>2. CASE lease[p].type = "data" /\ lease[p].seq = x.seq
    BY <1>1, <1>3, <2>2 DEF Carried
  <2>3. ASSUME NEW i \in DOMAIN wire[Other(p)], wire[Other(p)][i].type = "data",
               wire[Other(p)][i].seq = x.seq
        PROVE  x.seq <= t + 1 /\ x.seq <= LastSend(link[p])
    <3>1. x.seq <= t
      BY <2>3 DEF Carried
    <3> QED BY <1>1, <1>3, <2>1, <3>1
  <2> QED BY <2>1, <2>2, <2>3 DEF Flies
<1>5. Aloft(p) \in SUBSET Fingerprint
  BY DEF Aloft
<1> QED BY <1>1, <1>4, <1>5

(* A message that is welcome stays so while nothing of its kind is taken.  *)
LEMMA WelcomeGrows ==
  ASSUME TypeOK, TypeOK', NEW p \in Peer, NEW m \in Message, Welcome(p, m),
         SameGeneration => SameGeneration',
         m.n > accepted'[Other(p)][m.kind],
         \A k \in Kind : sent[p][k] <= sent'[p][k],
         m.kind = "request" => m.n \in pending'[p],
         m.kind = "result" => m.n \in pending'[Other(p)],
         accepted[p]["request"] <= accepted'[p]["request"]
  PROVE  Welcome(p, m)'
<1>1. /\ sent[p] \in [Kind -> Nat] /\ sent'[p] \in [Kind -> Nat]
      /\ accepted[p] \in [Kind -> Nat] /\ accepted'[p] \in [Kind -> Nat]
  BY DEF TypeOK
<1>2. m.n \in Nat /\ "request" \in Kind
  BY DEF Message, Kind
<1>3. m.kind \in Sequenced => m.n <= sent'[p][m.kind]
  <2>1. m.kind \in Kind /\ sent[p][m.kind] \in Nat /\ sent'[p][m.kind] \in Nat
        /\ sent[p][m.kind] <= sent'[p][m.kind]
    BY <1>1 DEF Welcome
  <2>2. m.kind \in Sequenced => m.n <= sent[p][m.kind]
    BY DEF Welcome
  <2> QED BY <1>2, <2>1, <2>2
<1>4. m.kind = "result" => m.n <= accepted'[p]["request"]
  <2>1. accepted[p]["request"] \in Nat /\ accepted'[p]["request"] \in Nat
    BY <1>1, <1>2
  <2>2. m.kind = "result" => m.n <= accepted[p]["request"]
    BY DEF Welcome
  <2> QED BY <1>2, <2>1, <2>2
<1> QED BY <1>3, <1>4 DEF Welcome

(* What a program publishes next is welcome.                               *)
LEMMA PublishedWelcome ==
  ASSUME TypeOK, Bounded, NEW p \in Peer, NEW m \in Publications(p), m # NoMessage,
         sent' = RecordSent(p, m), Awaiting(m) \subseteq pending'[p],
         \A k \in Sequenced : accepted'[Other(p)][k] = accepted[Other(p)][k]
  PROVE  /\ Welcome(p, m)' /\ m.kind \in Sequenced /\ m.n = sent[p][m.kind] + 1
         /\ \A k \in Kind : sent[p][k] <= sent'[p][k]
<1>1. /\ m \in Message /\ m.kind \in Sequenced
      /\ m.kind \in Kind => m.n = sent[p][m.kind] + 1
      /\ \A k \in Kind : sent'[p][k] = IF m.kind = k THEN m.n ELSE sent[p][k]
  BY PublicationSays
<1>2. m.kind \in Kind /\ m.kind # "result" /\ m.n \in Nat
  BY <1>1 DEF Sequenced, Kind, Message
<1>3. sent[p] \in [Kind -> Nat] /\ accepted[Other(p)] \in [Kind -> Nat]
  BY OtherPeer DEF TypeOK
<1>4. m.n = sent[p][m.kind] + 1 /\ sent'[p][m.kind] = m.n
  BY <1>1, <1>2
<1>5. m.n > accepted'[Other(p)][m.kind]
  <2>1. accepted[Other(p)][m.kind] <= sent[p][m.kind]
    BY <1>1 DEF Bounded
  <2>2. accepted[Other(p)][m.kind] \in Nat /\ sent[p][m.kind] \in Nat
    BY <1>2, <1>3
  <2> QED BY <1>1, <1>4, <2>1, <2>2
<1>6. m.kind = "request" => m.n \in pending'[p]
  BY DEF Awaiting
<1>7. \A k \in Kind : sent[p][k] <= sent'[p][k]
  <2> SUFFICES ASSUME NEW k \in Kind PROVE sent[p][k] <= sent'[p][k]
    OBVIOUS
  <2>1. sent[p][k] \in Nat
    BY <1>3
  <2>2. CASE k = m.kind
    BY <1>4, <2>1, <2>2
  <2>3. CASE k # m.kind
    BY <1>1, <2>1, <2>3
  <2> QED BY <2>2, <2>3
<1>8. m.n <= sent'[p][m.kind]
  BY <1>2, <1>4
<1> QED BY <1>1, <1>2, <1>4, <1>5, <1>6, <1>7, <1>8 DEF Welcome

(* A program publishes.                                                    *)
LEMMA PublishReliable ==
  ASSUME TypeOK, TypeOK', HandoverInvariant, UnacknowledgedIsQueued,
         ReliableInvariant, NEW p \in Peer, NEW k \in Sequenced, Publish(p, k)
  PROVE  ReliableInvariant'
<1> DEFINE r == Other(p)
<1>1. /\ r \in Peer /\ r = Other(p) /\ Other(r) = p /\ r # p
      /\ \A d \in Peer : d = p \/ d = r
  BY OtherPeer
<1>2. PICK m \in Publication(p, k) : Publish(p, k)!(m)
  BY DEF Publish
<1>3. m \in Publications(p) /\ m # NoMessage /\ m \in Message
  <2>1. m \in Publications(p) /\ m.kind = k
    BY DEF Publications, Publication
  <2> QED BY <2>1, PublicationTypes DEF NoMessage, Sequenced
<1>4. /\ phase[p] = "current" /\ sent' = RecordSent(p, m)
      /\ UNCHANGED <<lease, phase, wire, accepted>>
      /\ link'[p] = PushLink(outbound[p], link[p], m)
      /\ outbound'[p] = PushQueue(outbound[p], link[p], m)
      /\ pending'[p] = pending[p] \cup Awaiting(m)
      /\ link'[r] = link[r] /\ outbound'[r] = outbound[r] /\ pending'[r] = pending[r]
  BY <1>1, <1>2 DEF TypeOK
<1>5. Sockets /\ Bounded
  BY DEF ReliableInvariant
<1>6. /\ link[p] \in Link /\ outbound[p] \in SUBSET Entry /\ link[r] \in Link
      /\ link'[p] \in Link
  BY <1>1 DEF TypeOK
<1>7. /\ link'[p].generation = link[p].generation /\ link'[p].applied = link[p].applied
      /\ link'[p].peer_acknowledged = link[p].peer_acknowledged
      /\ link'[p].resync = link[p].resync /\ LastSend(link[p]) <= LastSend(link'[p])
  BY <1>3, <1>4, <1>6, PushGrows
<1>8. SameGeneration' = SameGeneration
  BY <1>1, <1>4, <1>7, OtherPeer DEF SameGeneration
<1>9. \A d \in Peer : (Target(d)' <=> Target(d)) /\ (Reads(d)' <=> Reads(d))
  BY <1>4, <1>8 DEF Target, Reads
<1>10. Sockets'
  <2>1. \A d \in Peer : link'[d].generation = link[d].generation /\ link'[d].resync = link[d].resync
    BY <1>1, <1>4, <1>7
  <2> QED BY <1>4, <1>5, <1>8, <2>1, OtherPeer DEF Sockets
<1>11. /\ Welcome(p, m)' /\ m.kind \in Sequenced /\ m.n = sent[p][m.kind] + 1
       /\ \A j \in Kind : sent[p][j] <= sent'[p][j]
       /\ sent'[r] = sent[r]
  BY <1>1, <1>3, <1>4, <1>5, PublishedWelcome, PublicationSays
<1>12. Bounded'
  <2>1. sent[p] \in [Kind -> Nat] /\ sent'[p] \in [Kind -> Nat]
        /\ accepted[r] \in [Kind -> Nat] /\ Sequenced \subseteq Kind
    BY <1>1 DEF TypeOK, Sequenced, Kind
  <2>2. \A j \in Sequenced : accepted'[r][j] <= sent'[p][j]
    <3> SUFFICES ASSUME NEW j \in Sequenced PROVE accepted[r][j] <= sent'[p][j]
      BY <1>4
    <3>1. accepted[r][j] <= sent[p][j] /\ sent[p][j] <= sent'[p][j]
      BY <1>1, <1>5, <1>11, <2>1 DEF Bounded
    <3>2. accepted[r][j] \in Nat /\ sent[p][j] \in Nat /\ sent'[p][j] \in Nat
      BY <2>1
    <3> QED BY <3>1, <3>2
  <2>3. \A j \in Sequenced : accepted'[p][j] <= sent'[r][j]
    BY <1>1, <1>4, <1>5, <1>11 DEF Bounded
  <2>4. \A d \in Peer : accepted'[Other(d)]["result"] <= accepted'[d]["request"]
    BY <1>4, <1>5 DEF Bounded
  <2> HIDE DEF r
  <2> QED BY <1>1, <2>2, <2>3, <2>4 DEF Bounded
<1>13. PICK t : Carried(p, t)
  BY DEF ReliableInvariant, Moving
<1>14. /\ Aloft(p) \in SUBSET Fingerprint /\ t \in Nat
       /\ Marked(outbound[p], link[p], t)
       /\ \A x \in Aloft(p) : x.seq <= t + 1 /\ x.seq <= LastSend(link[p])
  BY <1>4, <1>13, AloftBounds
<1>15. Carried(p, t)'
  <2>1. Marked(outbound'[p], link'[p], t)
    BY <1>3, <1>4, <1>6, <1>14, PushMarked
  <2>2. lease'[p].type = "data" => lease'[p].seq = t + 1 /\ t < LastSend(link'[p])
    <3>1. lease[p].type = "data" => lease[p].seq = t + 1 /\ t < LastSend(link[p])
      BY <1>13 DEF Carried
    <3>2. LastSend(link[p]) \in Nat /\ LastSend(link'[p]) \in Nat
      BY <1>6, LinkNumbers
    <3> QED BY <1>4, <1>7, <1>14, <3>1, <3>2
  <2> QED BY <1>1, <1>4, <1>9, <1>13, <2>1, <2>2, CarriedKept
<1>16. \E u : Carried(r, u)'
  <2>1. PICK u : Carried(r, u)
    BY <1>1 DEF ReliableInvariant, Moving
  <2>2. Carried(r, u)'
    BY <1>1, <1>4, <1>7, <1>9, <2>1 DEF Carried
  <2> QED BY <2>2
<1>17. Orderly(p)'
  <2> SUFFICES ASSUME Target(p)'
               PROVE  Increasing(Fresh(p)') /\ \A x \in Fresh(p)' : Welcome(p, x.msg)'
    BY DEF Orderly
  <2>1. Increasing(Fresh(p)) /\ \A x \in Fresh(p) : Welcome(p, x.msg)
    BY <1>9 DEF ReliableInvariant, Moving, Orderly
  <2> PICK q \in SUBSET Entry : q = outbound[p]
    BY <1>6
  <2> PICK F \in SUBSET Fingerprint : F = Aloft(p)
    BY <1>14
  <2>2. PICK a \in Nat : a = link[r].applied
    BY <1>6, LinkNumbers
  <2>3. Aloft(p)' = F
    BY <1>1, <1>4, <1>7 DEF Aloft, Flies
  <2>4. Fresh(p) = Unapplied(q, F, a) /\ Fresh(p)' = Unapplied(PushQueue(q, link[p], m), F, a)
    BY <1>4, <2>2, <2>3 DEF Fresh, Unapplied, Aloft
  <2>5. link[p].generation # 0
    BY <1>4, OtherPeer DEF HandoverInvariant, GenerationsAgree
  <2>6. \A e \in q : e.seq <= LastSend(link[p])
    <3>1. HoldsUnacknowledged(q, link[p])
      BY <1>4 DEF UnacknowledgedIsQueued
    <3> QED BY <3>1 DEF HoldsUnacknowledged
  <2>7. ASSUME NEW y \in Unapplied(q, F, a), y.msg.kind = m.kind PROVE y.msg.n < m.n
    <3>1. y.msg.n <= sent[p][m.kind]
      BY <1>11, <2>1, <2>4, <2>7 DEF Welcome
    <3>2. y.msg.n \in Nat /\ sent[p][m.kind] \in Nat
      <4>1. y \in Fingerprint /\ m.kind \in Kind
        BY <1>11 DEF Unapplied, Sequenced, Kind
      <4>2. y.msg.n \in Nat
        BY <4>1 DEF Fingerprint, Message
      <4>3. sent[p] \in [Kind -> Nat]
        BY DEF TypeOK
      <4> QED BY <4>1, <4>2, <4>3
    <3> QED BY <1>11, <3>1, <3>2
  <2>8. /\ Increasing(Unapplied(PushQueue(q, link[p], m), F, a))
        /\ \A z \in Unapplied(PushQueue(q, link[p], m), F, a) :
              z \in Unapplied(q, F, a) \/ (z.msg = m /\ m # NoMessage)
    <3>1. PICK l \in Link : l = link[p]
      BY <1>6
    <3>2. /\ Marked(q, l, t) /\ l.generation # 0
          /\ \A x \in F : x.seq <= t + 1 /\ x.seq <= LastSend(l)
          /\ \A e \in q : e.seq <= LastSend(l)
      BY <1>14, <2>5, <2>6, <3>1
    <3>3. /\ Increasing(Unapplied(q, F, a))
          /\ \A y \in Unapplied(q, F, a) : y.msg.kind = m.kind => y.msg.n < m.n
      BY <2>1, <2>4, <2>7
    <3>4. m \in Message /\ t \in Nat
      BY <1>3, <1>14
    <3>5. /\ Increasing(Unapplied(PushQueue(q, l, m), F, a))
          /\ \A z \in Unapplied(PushQueue(q, l, m), F, a) :
                z \in Unapplied(q, F, a) \/ (z.msg = m /\ m # NoMessage)
      BY <3>2, <3>3, <3>4, PushIncreasing
    <3> QED BY <3>1, <3>5
  <2>9. ASSUME NEW x \in Fresh(p)' PROVE Welcome(p, x.msg)'
    <3>1. CASE x.msg = m
      BY <1>11, <3>1
    <3>2. CASE x \in Fresh(p)
      <4>1. Welcome(p, x.msg) /\ x.msg \in Message
        BY <2>1, <3>2 DEF Fresh, Fingerprint
      <4>2. x.msg.n > accepted'[Other(p)][x.msg.kind]
        BY <1>4, <4>1 DEF Welcome
      <4>3. /\ x.msg.kind = "request" => x.msg.n \in pending'[p]
            /\ x.msg.kind = "result" => x.msg.n \in pending'[Other(p)]
        BY <1>4, <4>1 DEF Welcome
      <4>4. accepted[p]["request"] <= accepted'[p]["request"]
        <5>1. accepted[p]["request"] \in Nat
          BY DEF TypeOK, Kind
        <5> QED BY <1>4, <5>1
      <4> QED BY <1>8, <1>11, <4>1, <4>2, <4>3, <4>4, WelcomeGrows
    <3> QED BY <2>4, <2>8, <3>1, <3>2
  <2> QED BY <2>4, <2>8, <2>9
<1>18. Orderly(r)'
  <2> SUFFICES ASSUME Target(r)'
               PROVE  Increasing(Fresh(r)') /\ \A x \in Fresh(r)' : Welcome(r, x.msg)'
    BY DEF Orderly
  <2>1. Increasing(Fresh(r)) /\ \A x \in Fresh(r) : Welcome(r, x.msg)
    BY <1>1, <1>9 DEF ReliableInvariant, Moving, Orderly
  <2>2. Fresh(r)' = Fresh(r)
    BY <1>1, <1>4, <1>7 DEF Fresh, Flies
  <2>3. ASSUME NEW x \in Fresh(r) PROVE Welcome(r, x.msg)'
    <3>1. Welcome(r, x.msg)
      BY <2>1
    <3> QED BY <1>1, <1>4, <1>8, <1>11, <3>1 DEF Welcome
  <2> QED BY <2>1, <2>2, <2>3
<1> HIDE DEF r
<1> QED BY <1>1, <1>10, <1>12, <1>15, <1>16, <1>17, <1>18 DEF ReliableInvariant, Moving

----------------------------------------------------------------------------
(* Deliveries.                                                             *)

(* A push keeps the numbers of a queue below those of its link.            *)
LEMMA PushBelow ==
  ASSUME NEW q \in SUBSET Entry, NEW l \in Link, NEW m \in Message,
         \A e \in q : e.seq <= LastSend(l)
  PROVE  \A e \in PushQueue(q, l, m) : e.seq <= LastSend(PushLink(q, l, m))
<1> PICK k : k = PushLink(q, l, m)
  OBVIOUS
<1>1. k \in Link /\ LastSend(l) <= LastSend(k)
  BY PushGrows
<1>2. LastSend(l) \in Nat /\ LastSend(k) \in Nat /\ l.next_send = LastSend(l) + 1
  BY <1>1, LinkNumbers
<1>3. \A e \in q : e.seq \in Nat /\ e.seq <= LastSend(k)
  <2>1. \A e \in q : e.seq \in Nat
    BY DEF Entry
  <2> QED BY <1>1, <1>2, <2>1
<1>4. CASE m = NoMessage
  BY <1>3, <1>4 DEF PushQueue
<1>5. CASE m # NoMessage /\ Replaced(q, m) # {}
  <2> SUFFICES ASSUME NEW e \in PushQueue(q, l, m) PROVE e.seq <= LastSend(k)
    OBVIOUS
  <2>1. CASE e \in q
    BY <1>3, <2>1
  <2>2. CASE e \notin q
    <3>1. PICK x \in Replaced(q, m) : e = [x EXCEPT !.msg = m]
      BY <1>5, <2>2 DEF PushQueue
    <3>2. x \in q /\ x \in Entry
      BY ReplacedValues
    <3>3. e.seq = x.seq
      BY <3>1, <3>2 DEF Entry
    <3> QED BY <1>3, <3>2, <3>3
  <2> QED BY <2>1, <2>2
<1>6. CASE m # NoMessage /\ Replaced(q, m) = {}
  <2>1. PushQueue(q, l, m) = q \cup {NewEntry(l.next_send, m)}
    BY <1>6 DEF PushQueue
  <2>2. LastSend(k) = LastSend(l) + 1
    BY <1>6, PushLast
  <2>3. NewEntry(l.next_send, m).seq = l.next_send
    BY DEF NewEntry
  <2> QED BY <1>2, <1>3, <2>1, <2>2, <2>3
<1> QED BY <1>4, <1>5, <1>6

(* What the turn of p that takes frame f and publishes m leaves behind.    *)
TurnQueue(p, f, m) == PushQueue(RepliedQueue(p, f), RepliedLink(p, f), m)
TurnLinkOf(p, f, m) == PushLink(RepliedQueue(p, f), RepliedLink(p, f), m)

(* The expected frame is taken.                                            *)
LEMMA NextSays ==
  ASSUME TypeOK, HandoverInvariant, ReliableInvariant, NEW p \in Peer, ReceiveNext(p)
  PROVE  LET f == Head(wire[p])
             r == Other(p)
         IN
         /\ Arrives(p) /\ f \in Frame /\ f.type = "data" /\ SameGeneration
         /\ f.seq = link[p].applied + 1 /\ f.msg \in Message
         /\ Welcome(r, f.msg) /\ f.msg.kind \in Kind /\ f.msg.n \in Nat
         /\ [seq |-> f.seq, msg |-> f.msg] \in Fresh(r)
         /\ accepted[p][f.msg.kind] < f.msg.n
         /\ \A k \in Kind : accepted'[p][k] =
              IF k = f.msg.kind THEN f.msg.n ELSE accepted[p][k]
         /\ accepted'[r] = accepted[r] /\ pending'[r] = pending[r]
         /\ link'[r] = link[r] /\ outbound'[r] = outbound[r]
         /\ wire' = [wire EXCEPT ![p] = Tail(@)]
         /\ wire'[p] = Tail(wire[p]) /\ wire'[r] = wire[r]
         /\ UNCHANGED <<lease, phase>>
         /\ \E m \in Publications(p) :
              /\ link'[p] = TurnLinkOf(p, f, m)
              /\ outbound'[p] = TurnQueue(p, f, m)
              /\ sent' = RecordSent(p, m)
              /\ pending'[p] = (IF f.msg.kind = "result" THEN pending[p] \ {f.msg.n}
                                ELSE pending[p]) \cup Awaiting(m)
<1> DEFINE f == Head(wire[p])
           r == Other(p)
<1>1. r \in Peer /\ r # p /\ Other(r) = p
  BY OtherPeer
<1>2. Arrives(p) /\ f.type = "data"
  BY DEF ReceiveNext, ExpectsNext
<1>3. f \in Frame /\ SameGeneration /\ Target(r)
  BY <1>2, ArrivesInGeneration DEF ReliableInvariant
<1>4. f.msg \in Message /\ f.seq \in Nat
  BY <1>3 DEF Frame
<1>5. f.seq = link[p].applied + 1 /\ [seq |-> f.seq, msg |-> f.msg] \in Fresh(r)
  <2>1. PICK t : Carried(r, t)
    BY <1>1 DEF ReliableInvariant, Moving
  <2> QED BY <1>2, <2>1, HeadIsNext DEF ReliableInvariant
<1>6. Welcome(r, f.msg)
  <2> DEFINE x == [seq |-> f.seq, msg |-> f.msg]
  <2>1. x.msg = f.msg /\ x \in Fresh(r)
    BY <1>5
  <2>2. Orderly(r)
    BY <1>1 DEF ReliableInvariant, Moving
  <2> HIDE DEF x, r, f
  <2> QED BY <1>3, <2>1, <2>2 DEF Orderly
<1>7. f.msg.kind \in Kind /\ f.msg.n \in Nat /\ accepted[p][f.msg.kind] < f.msg.n
  <2>1. f.msg.kind \in Kind /\ f.msg.n > accepted[p][f.msg.kind]
    BY <1>1, <1>6 DEF Welcome
  <2>2. f.msg.n \in Nat /\ accepted[p][f.msg.kind] \in Nat
    BY <1>4, <2>1 DEF Message, TypeOK
  <2> QED BY <2>1, <2>2
<1>8. accepted' = [accepted EXCEPT ![p][f.msg.kind] = f.msg.n]
  <2>1. Greater(f.msg, accepted[p][f.msg.kind]) = f.msg.n
    BY <1>7 DEF Greater
  <2>2. accepted' = [accepted EXCEPT ![p][f.msg.kind] = Greater(f.msg, @)]
    BY DEF ReceiveNext
  <2> QED BY <2>1, <2>2
<1>9. /\ \A k \in Kind : accepted'[p][k] =
           IF k = f.msg.kind THEN f.msg.n ELSE accepted[p][k]
      /\ accepted'[r] = accepted[r]
  BY <1>1, <1>7, <1>8 DEF TypeOK
<1>10. PICK m \in Publications(p) :
         /\ link' = [link EXCEPT ![p] = TurnLinkOf(p, f, m)]
         /\ outbound' = [outbound EXCEPT ![p] = TurnQueue(p, f, m)]
         /\ sent' = RecordSent(p, m)
         /\ pending' = [pending EXCEPT ![p] =
              (IF f.msg.kind = "result" THEN @ \ {f.msg.n} ELSE @) \cup Awaiting(m)]
  BY DEF ReceiveNext, TurnLinkOf, TurnQueue
<1>11. /\ link'[r] = link[r] /\ outbound'[r] = outbound[r] /\ pending'[r] = pending[r]
       /\ link'[p] = TurnLinkOf(p, f, m) /\ outbound'[p] = TurnQueue(p, f, m)
       /\ pending'[p] = (IF f.msg.kind = "result" THEN pending[p] \ {f.msg.n}
                         ELSE pending[p]) \cup Awaiting(m)
  BY <1>1, <1>10 DEF TypeOK
<1>12. /\ wire' = [wire EXCEPT ![p] = Tail(@)] /\ UNCHANGED <<lease, phase>>
  BY DEF ReceiveNext
<1>13. wire'[p] = Tail(wire[p]) /\ wire'[r] = wire[r]
  BY <1>1, <1>12 DEF TypeOK
<1> QED BY <1>2, <1>3, <1>4, <1>5, <1>6, <1>7, <1>9, <1>10, <1>11, <1>12, <1>13

(* The queue of the end that takes the frame.                              *)
LEMMA TurnMarked ==
  ASSUME TypeOK, HandoverInvariant, UnacknowledgedIsQueued, Sockets, NEW p \in Peer,
         Arrives(p), NEW f \in Frame, f = Head(wire[p]), f.type = "data",
         NEW m \in Message, NEW t, Carried(p, t)
  PROVE  /\ AcceptedQueue(p, f) \subseteq outbound[p]
         /\ Marked(AcceptedQueue(p, f), AcceptedLink(p, f), t)
         /\ Marked(RepliedQueue(p, f), RepliedLink(p, f), t)
         /\ Marked(TurnQueue(p, f, m), TurnLinkOf(p, f, m), t)
         /\ \A e \in AcceptedQueue(p, f) : e.seq <= LastSend(AcceptedLink(p, f))
         /\ \A e \in RepliedQueue(p, f) : e.seq <= LastSend(RepliedLink(p, f))
         /\ LastSend(AcceptedLink(p, f)) = LastSend(link[p])
         /\ LastSend(link[p]) <= LastSend(RepliedLink(p, f))
         /\ LastSend(link[p]) <= LastSend(TurnLinkOf(p, f, m))
         /\ AcceptedLink(p, f).generation = link[p].generation
         /\ RepliedLink(p, f).generation = link[p].generation
<1>1. PICK q \in SUBSET Entry : q = AcceptedQueue(p, f)
  BY ReplyTypes
<1>2. PICK l \in Link : l = AcceptedLink(p, f)
  BY ReplyTypes
<1>3. PICK h \in SUBSET Entry : h = RepliedQueue(p, f)
  BY ReplyTypes
<1>4. PICK k \in Link : k = RepliedLink(p, f)
  BY ReplyTypes
<1>5. PICK y : y = Reply(f.msg)
  OBVIOUS
<1>6. y \in Message /\ f.ack \in Nat /\ link[p] \in Link /\ outbound[p] \in SUBSET Entry
  <2>1. f.msg \in Message
    BY DEF Frame
  <2> QED BY <1>5, <2>1, ConstantTypes DEF Frame, Reply, Message, Kind, TypeOK
<1>7. /\ q \subseteq outbound[p] /\ LastSend(l) = LastSend(link[p])
      /\ l.generation = link[p].generation
      /\ l.peer_acknowledged = AcceptPeerAck(link[p], f.ack).peer_acknowledged
  BY <1>1, <1>2, AcceptedSays
<1>8. t \in Nat /\ Marked(outbound[p], link[p], t) /\ l.peer_acknowledged <= t
  BY <1>7, AckBelow DEF Carried, Arrives
<1>9. Marked(q, l, t)
  BY <1>6, <1>7, <1>8, FewerMarked
<1>10. h = PushQueue(q, l, y) /\ k = PushLink(q, l, y)
  BY <1>1, <1>2, <1>3, <1>4, <1>5 DEF RepliedQueue, RepliedLink
<1>11. Marked(h, k, t)
  BY <1>6, <1>8, <1>9, <1>10, PushMarked
<1>12. TurnQueue(p, f, m) = PushQueue(h, k, m) /\ TurnLinkOf(p, f, m) = PushLink(h, k, m)
  BY <1>3, <1>4 DEF TurnQueue, TurnLinkOf
<1>13. Marked(PushQueue(h, k, m), PushLink(h, k, m), t)
  BY <1>8, <1>11, PushMarked
<1>14. \A e \in q : e.seq <= LastSend(l)
  <2>1. HoldsUnacknowledged(outbound[p], link[p])
    BY DEF UnacknowledgedIsQueued, Arrives
  <2>2. \A e \in outbound[p] : e.seq <= LastSend(link[p])
    BY <2>1 DEF HoldsUnacknowledged
  <2> QED BY <1>7, <2>2
<1>15. \A e \in h : e.seq <= LastSend(k)
  BY <1>6, <1>10, <1>14, PushBelow
<1>16. LastSend(l) <= LastSend(k) /\ k.generation = l.generation
  BY <1>6, <1>10, PushGrows
<1>17. PICK n : n = PushLink(h, k, m)
  OBVIOUS
<1>18. n \in Link /\ LastSend(k) <= LastSend(n)
  BY <1>17, PushGrows
<1>19. LastSend(link[p]) <= LastSend(n)
  <2>1. LastSend(l) \in Nat /\ LastSend(k) \in Nat /\ LastSend(n) \in Nat
    BY <1>18, LinkNumbers
  <2> QED BY <1>7, <1>16, <1>18, <2>1
<1> QED BY <1>1, <1>2, <1>3, <1>4, <1>7, <1>9, <1>11, <1>12, <1>13, <1>14, <1>15, <1>16,
           <1>17, <1>19

(* Revisions only grow.                                                    *)
LEMMA SentGrows ==
  ASSUME TypeOK, NEW p \in Peer, NEW m \in Publications(p), sent' = RecordSent(p, m)
  PROVE  /\ \A k \in Kind : sent[p][k] <= sent'[p][k]
         /\ \A d \in Peer : d # p => sent'[d] = sent[d]
<1>1. /\ m.kind \in Kind => m.n = sent[p][m.kind] + 1
      /\ \A k \in Kind : sent'[p][k] = IF m.kind = k THEN m.n ELSE sent[p][k]
      /\ \A d \in Peer : d # p => sent'[d] = sent[d]
  BY PublicationSays
<1>2. ASSUME NEW k \in Kind PROVE sent[p][k] <= sent'[p][k]
  <2>1. sent[p][k] \in Nat
    BY RevisionTypes
  <2>2. CASE k = m.kind
    BY <1>1, <2>1, <2>2
  <2>3. CASE k # m.kind
    BY <1>1, <2>1, <2>3
  <2> QED BY <2>2, <2>3
<1> QED BY <1>1, <1>2

(* The sockets after a delivery.                                           *)
LEMMA NextSockets ==
  ASSUME TypeOK, TypeOK', HandoverInvariant, ReliableInvariant, NEW p \in Peer,
         ReceiveNext(p)
  PROVE  /\ Sockets' /\ SameGeneration' = SameGeneration
         /\ \A d \in Peer : (Target(d)' <=> Target(d)) /\ (Reads(d)' <=> Reads(d))
         /\ link'[p].applied = Head(wire[p]).seq
         /\ link'[p].generation = link[p].generation
<1> DEFINE f == Head(wire[p])
           r == Other(p)
<1>1. r \in Peer /\ r = Other(p) /\ \A d \in Peer : d = p \/ d = r
  BY OtherPeer
<1>2. /\ Arrives(p) /\ f \in Frame /\ link'[r] = link[r]
      /\ wire' = [wire EXCEPT ![p] = Tail(@)] /\ UNCHANGED <<lease, phase>>
  BY NextSays
<1>3. PICK m \in Publications(p) : link'[p] = TurnLinkOf(p, f, m)
  BY NextSays
<1>4. m \in Message
  BY PublicationTypes
<1>5. /\ link'[p].generation = link[p].generation /\ link'[p].resync = 0
      /\ link'[p].applied = f.seq
  BY <1>2, <1>3, <1>4, TurnLink DEF TurnLinkOf
<1>6. Sockets /\ link[r].resync = 0
  BY <1>1 DEF ReliableInvariant, Sockets
<1>7. \A d \in Peer : link'[d].generation = link[d].generation /\ link'[d].resync = 0
  <2> HIDE DEF r, f
  <2> QED BY <1>1, <1>2, <1>5, <1>6
<1>8. Sockets' /\ SameGeneration' = SameGeneration
      /\ \A d \in Peer : (Target(d)' <=> Target(d)) /\ (Reads(d)' <=> Reads(d))
  BY <1>2, <1>6, <1>7, TailSockets
<1> QED BY <1>5, <1>8

(* Both lines after a delivery.                                            *)
LEMMA NextCarried ==
  ASSUME TypeOK, TypeOK', HandoverInvariant, UnacknowledgedIsQueued,
         ReliableInvariant, NEW p \in Peer, ReceiveNext(p)
  PROVE  (\E t : Carried(p, t)') /\ (\E u : Carried(Other(p), u)')
<1> DEFINE f == Head(wire[p])
           r == Other(p)
<1>1. r \in Peer /\ r = Other(p) /\ Other(r) = p
  BY OtherPeer
<1>2. /\ Arrives(p) /\ f \in Frame /\ f.type = "data" /\ f.seq = link[p].applied + 1
      /\ link'[r] = link[r] /\ outbound'[r] = outbound[r]
      /\ wire'[p] = Tail(wire[p]) /\ wire'[r] = wire[r] /\ UNCHANGED <<lease, phase>>
  BY NextSays
<1>3. PICK m \in Publications(p) :
        link'[p] = TurnLinkOf(p, f, m) /\ outbound'[p] = TurnQueue(p, f, m)
  BY NextSays
<1>4. m \in Message /\ Sockets /\ phase[p] = "current" /\ wire[p] # <<>>
  BY <1>2, PublicationTypes DEF ReliableInvariant, Arrives
<1>5. /\ \A d \in Peer : (Target(d)' <=> Target(d)) /\ (Reads(d)' <=> Reads(d))
      /\ link'[p].applied = f.seq
  BY NextSockets
<1>6. PICK t : Carried(p, t)
  BY DEF ReliableInvariant, Moving
<1>7. Carried(p, t)'
  <2>1. /\ Marked(TurnQueue(p, f, m), TurnLinkOf(p, f, m), t)
        /\ LastSend(link[p]) <= LastSend(TurnLinkOf(p, f, m))
    BY <1>2, <1>4, <1>6, TurnMarked
  <2>2. lease'[p].type = "data" => lease'[p].seq = t + 1 /\ t < LastSend(link'[p])
    <3>1. lease[p].type = "data" => lease[p].seq = t + 1 /\ t < LastSend(link[p])
      BY <1>6 DEF Carried
    <3>2. link[p] \in Link /\ link'[p] \in Link /\ t \in Nat
      BY <1>6 DEF TypeOK, Carried
    <3>3. LastSend(link[p]) \in Nat /\ LastSend(link'[p]) \in Nat
      BY <3>2, LinkNumbers
    <3> QED BY <1>2, <1>3, <2>1, <3>1, <3>2, <3>3
  <2>3. Marked(outbound'[p], link'[p], t)
    BY <1>3, <2>1
  <2> QED BY <1>2, <1>4, <1>5, <1>6, <2>2, <2>3, CarriedKept
<1>8. PICK u : Carried(r, u)
  BY <1>1 DEF ReliableInvariant, Moving
<1>9. Carried(r, u)'
  <2>1. u \in Nat /\ f.seq <= u
    BY <1>1, <1>2, <1>4, <1>8, HeadIsNext DEF Carried
  <2>2. PICK a \in Nat : a = link[p].applied
    <3>1. link[p] \in Link
      BY DEF TypeOK
    <3> QED BY <3>1, LinkNumbers
  <2>3. Reads(r) => InLine(wire[p], a, u)
    BY <1>1, <1>8, <2>2 DEF Carried
  <2>4. Reads(r) => InLine(wire'[p], a + 1, u)
    BY <1>2, <1>4, <2>1, <2>2, <2>3, TailInLine
  <2>5. link'[p].applied = a + 1 /\ a + 1 <= u
    BY <1>2, <1>5, <2>1, <2>2
  <2>6. \A i \in DOMAIN wire'[p] : wire'[p][i].type = "data" => wire'[p][i].seq <= u
    <3>1. \A i \in DOMAIN wire[p] : wire[p][i].type = "data" => wire[p][i].seq <= u
      BY <1>1, <1>8 DEF Carried
    <3> QED BY <1>2, <1>4, <3>1, HeadOf
  <2>7. /\ phase'[r] = "current" => Marked(outbound'[r], link'[r], u)
        /\ lease'[r].type = "data" => lease'[r].seq = u + 1 /\ u < LastSend(link'[r])
    BY <1>2, <1>8 DEF Carried
  <2> HIDE DEF r, f
  <2> QED BY <1>1, <1>5, <2>1, <2>4, <2>5, <2>6, <2>7 DEF Carried
<1> QED BY <1>1, <1>7, <1>9

(* What was accepted was said, after a delivery.                           *)
LEMMA NextBounded ==
  ASSUME TypeOK, TypeOK', HandoverInvariant, ReliableInvariant, NEW p \in Peer,
         ReceiveNext(p)
  PROVE  Bounded' /\ accepted[p]["request"] <= accepted'[p]["request"]
<1> DEFINE f == Head(wire[p])
           r == Other(p)
<1>1. r \in Peer /\ r = Other(p) /\ Other(r) = p /\ r # p /\ \A d \in Peer : d = p \/ d = r
  BY OtherPeer
<1>2. /\ f.msg.kind \in Kind /\ f.msg.n \in Nat /\ Welcome(r, f.msg)
      /\ accepted[p][f.msg.kind] < f.msg.n /\ accepted'[r] = accepted[r]
      /\ \A k \in Kind : accepted'[p][k] =
           IF k = f.msg.kind THEN f.msg.n ELSE accepted[p][k]
  BY NextSays
<1>3. PICK m \in Publications(p) : sent' = RecordSent(p, m)
  BY NextSays
<1>4. sent'[r] = sent[r] /\ \A k \in Kind : sent[p][k] <= sent'[p][k]
  BY <1>1, <1>3, SentGrows
<1>5. Bounded
  BY DEF ReliableInvariant
<1>6. /\ "request" \in Kind /\ "result" \in Kind /\ Sequenced \subseteq Kind
      /\ accepted[p] \in [Kind -> Nat] /\ accepted[r] \in [Kind -> Nat]
      /\ sent[p] \in [Kind -> Nat] /\ sent'[p] \in [Kind -> Nat]
  BY <1>1 DEF TypeOK, Kind, Sequenced
<1>7. accepted[p]["request"] <= accepted'[p]["request"]
  <2>1. accepted[p]["request"] \in Nat
    BY <1>6
  <2> QED BY <1>2, <1>6, <2>1
<1>8. \A k \in Sequenced : accepted'[r][k] <= sent'[p][k]
  <2> SUFFICES ASSUME NEW k \in Sequenced PROVE accepted[r][k] <= sent'[p][k]
    BY <1>2
  <2>1. accepted[r][k] <= sent[p][k] /\ sent[p][k] <= sent'[p][k]
    BY <1>1, <1>4, <1>5, <1>6 DEF Bounded
  <2>2. accepted[r][k] \in Nat /\ sent[p][k] \in Nat /\ sent'[p][k] \in Nat
    BY <1>6
  <2> QED BY <2>1, <2>2
<1>9. accepted'[r]["result"] <= accepted'[p]["request"]
  <2>1. accepted[r]["result"] <= accepted[p]["request"]
    BY <1>1, <1>5 DEF Bounded
  <2>2. accepted[r]["result"] \in Nat /\ accepted[p]["request"] \in Nat
        /\ accepted'[p]["request"] \in Nat
    BY <1>2, <1>6
  <2> QED BY <1>2, <1>7, <2>1, <2>2
<1>10. \A k \in Sequenced : accepted'[p][k] <= sent'[r][k]
  <2> SUFFICES ASSUME NEW k \in Sequenced PROVE accepted'[p][k] <= sent[r][k]
    BY <1>4
  <2>1. k = f.msg.kind => f.msg.n <= sent[r][k]
    BY <1>2 DEF Welcome
  <2>2. accepted[p][k] <= sent[r][k]
    BY <1>1, <1>5 DEF Bounded
  <2> QED BY <1>2, <1>6, <2>1, <2>2
<1>11. accepted'[p]["result"] <= accepted'[r]["request"]
  <2>1. f.msg.kind = "result" => f.msg.n <= accepted[r]["request"]
    BY <1>2 DEF Welcome
  <2>2. accepted[p]["result"] <= accepted[r]["request"]
    BY <1>1, <1>5 DEF Bounded
  <2> QED BY <1>2, <1>6, <2>1, <2>2
<1>12. Bounded'
  <2> HIDE DEF r, f
  <2>1. \A d \in Peer : \A k \in Sequenced : accepted'[Other(d)][k] <= sent'[d][k]
    BY <1>1, <1>8, <1>10
  <2>2. \A d \in Peer : accepted'[Other(d)]["result"] <= accepted'[d]["request"]
    BY <1>1, <1>9, <1>11
  <2> QED BY <2>1, <2>2 DEF Bounded
<1> QED BY <1>7, <1>12

(* What is still under way behind the frame that was taken.                *)
LEMMA NextOrderOfSender ==
  ASSUME TypeOK, TypeOK', HandoverInvariant, ReliableInvariant, NEW p \in Peer,
         ReceiveNext(p)
  PROVE  Orderly(Other(p))'
<1> DEFINE f == Head(wire[p])
           r == Other(p)
<1>1. r \in Peer /\ r = Other(p) /\ Other(r) = p /\ r # p
  BY OtherPeer
<1>2. /\ Arrives(p) /\ f.seq = link[p].applied + 1 /\ f.msg \in Message
      /\ f.msg.kind \in Kind /\ f.msg.n \in Nat
      /\ [seq |-> f.seq, msg |-> f.msg] \in Fresh(r)
      /\ \A k \in Kind : accepted'[p][k] =
           IF k = f.msg.kind THEN f.msg.n ELSE accepted[p][k]
      /\ accepted'[r] = accepted[r] /\ pending'[r] = pending[r]
      /\ link'[r] = link[r] /\ outbound'[r] = outbound[r]
      /\ wire'[p] = Tail(wire[p]) /\ UNCHANGED <<lease, phase>>
  BY NextSays
<1>3. PICK m \in Publications(p) :
        /\ sent' = RecordSent(p, m)
        /\ pending'[p] = (IF f.msg.kind = "result" THEN pending[p] \ {f.msg.n}
                          ELSE pending[p]) \cup Awaiting(m)
  BY NextSays
<1>4. SameGeneration' = SameGeneration /\ (Target(r)' <=> Target(r))
      /\ link'[p].applied = f.seq
  BY <1>1, NextSockets
<1> SUFFICES ASSUME Target(r)'
             PROVE  Increasing(Fresh(r)') /\ \A x \in Fresh(r)' : Welcome(r, x.msg)'
  BY <1>1 DEF Orderly
<1>5. Increasing(Fresh(r)) /\ \A x \in Fresh(r) : Welcome(r, x.msg)
  BY <1>1, <1>4 DEF ReliableInvariant, Moving, Orderly
<1>6. \A x \in Fresh(r)' : x \in Fresh(r) /\ x.seq > f.seq /\ x.msg \in Message
  <2> SUFFICES ASSUME NEW x \in Fresh(r)'
               PROVE  x \in Fresh(r) /\ x.seq > f.seq /\ x.msg \in Message
    OBVIOUS
  <2>1. /\ x \in Fingerprint /\ x.seq > f.seq
        /\ \/ \E e \in outbound[r] : e.seq = x.seq /\ e.msg = x.msg
           \/ Flies(r, x.seq, x.msg)'
    BY <1>1, <1>2, <1>4 DEF Fresh
  <2>2. link[p].applied \in Nat /\ x.seq \in Nat /\ x.msg \in Message
    <3>1. link[p] \in Link
      BY DEF TypeOK
    <3> QED BY <2>1, <3>1, LinkNumbers DEF Fingerprint
  <2>3. x.seq > link[p].applied
    BY <1>2, <2>1, <2>2
  <2>4. Flies(r, x.seq, x.msg)' => Flies(r, x.seq, x.msg)
    <3>1. wire[p] # <<>>
      BY <1>2 DEF Arrives
    <3>2. \A i \in DOMAIN wire'[p] : \E j \in DOMAIN wire[p] : wire'[p][i] = wire[p][j]
      BY <1>2, <3>1, HeadOf
    <3> QED BY <1>1, <1>2, <3>2 DEF Flies
  <2> QED BY <1>1, <2>1, <2>2, <2>3, <2>4 DEF Fresh
<1>7. Increasing(Fresh(r)')
  BY <1>5, <1>6 DEF Increasing
<1>8. ASSUME NEW x \in Fresh(r)' PROVE Welcome(r, x.msg)'
  <2>1. Welcome(r, x.msg) /\ x.msg \in Message /\ x.seq > f.seq /\ x \in Fresh(r)
    BY <1>5, <1>6
  <2>2. x.msg.kind = f.msg.kind => f.msg.n < x.msg.n
    <3> PICK y : y = [seq |-> f.seq, msg |-> f.msg]
      OBVIOUS
    <3>1. y \in Fresh(r) /\ y.seq = f.seq /\ y.msg = f.msg
      BY <1>2
    <3>2. y.seq \in Nat /\ x.seq \in Nat
      BY <2>1, <3>1 DEF Fresh, Fingerprint
    <3>3. y.seq < x.seq
      BY <2>1, <3>1, <3>2
    <3> QED BY <1>5, <2>1, <3>1, <3>3 DEF Increasing
  <2>3. x.msg.n \in Nat /\ x.msg.kind \in Kind /\ x.msg.n > accepted[p][x.msg.kind]
    BY <1>1, <2>1 DEF Welcome, Message
  <2>4. x.msg.n > accepted'[Other(r)][x.msg.kind]
    BY <1>1, <1>2, <2>2, <2>3
  <2>5. x.msg.kind = "result" => x.msg.n \in pending'[Other(r)]
    <3>1. x.msg.kind = "result" => x.msg.n \in pending[p]
      BY <1>1, <2>1 DEF Welcome
    <3>2. (x.msg.kind = "result" /\ f.msg.kind = "result") => x.msg.n # f.msg.n
      BY <1>2, <2>2, <2>3
    <3> QED BY <1>1, <1>3, <3>1, <3>2
  <2>6. x.msg.kind = "request" => x.msg.n \in pending'[r]
    BY <1>2, <2>1 DEF Welcome
  <2>7. \A k \in Kind : sent[r][k] <= sent'[r][k]
    <3>1. sent'[r] = sent[r] /\ sent[r] \in [Kind -> Nat]
      BY <1>1, <1>3, SentGrows, RevisionTypes
    <3> QED BY <3>1
  <2>8. accepted[r]["request"] <= accepted'[r]["request"]
    <3>1. accepted[r]["request"] \in Nat
      BY <1>1 DEF TypeOK, Kind
    <3> QED BY <1>2, <3>1
  <2> HIDE DEF r, f
  <2> QED BY <1>1, <1>4, <2>1, <2>4, <2>5, <2>6, <2>7, <2>8, WelcomeGrows
<1> QED BY <1>7, <1>8

(* The reply and what the turn publishes are the newest of their kinds.    *)
LEMMA TurnIncreasing ==
  ASSUME TypeOK, HandoverInvariant, UnacknowledgedIsQueued, ReliableInvariant,
         NEW p \in Peer, Arrives(p), NEW f \in Frame, f = Head(wire[p]),
         f.type = "data", f.msg.kind \in Kind, accepted[p][f.msg.kind] < f.msg.n,
         NEW m \in Publications(p), NEW a \in Nat, a = link[Other(p)].applied
  PROVE  /\ Increasing(Unapplied(TurnQueue(p, f, m), Aloft(p), a))
         /\ \A z \in Unapplied(TurnQueue(p, f, m), Aloft(p), a) :
              \/ z \in Fresh(p)
              \/ z.msg = Reply(f.msg) /\ f.msg.kind = "request"
              \/ z.msg = m /\ m # NoMessage
<1>1. PICK q \in SUBSET Entry : q = AcceptedQueue(p, f)
  BY ReplyTypes
<1>2. PICK l \in Link : l = AcceptedLink(p, f)
  BY ReplyTypes
<1>3. PICK h \in SUBSET Entry : h = RepliedQueue(p, f)
  BY ReplyTypes
<1>4. PICK k \in Link : k = RepliedLink(p, f)
  BY ReplyTypes
<1>5. PICK y \in Message : y = Reply(f.msg)
  <2>1. f.msg \in Message
    BY DEF Frame
  <2> QED BY <2>1, ConstantTypes DEF Reply, Message, Kind
<1>6. PICK t \in Nat : Carried(p, t)
  BY DEF ReliableInvariant, Moving, Carried
<1>7. /\ t \in Nat /\ Aloft(p) \in SUBSET Fingerprint
      /\ \A x \in Aloft(p) : x.seq <= t + 1 /\ x.seq <= LastSend(link[p])
  BY <1>6, AloftBounds DEF Arrives
<1>8. PICK F \in SUBSET Fingerprint : F = Aloft(p)
  BY <1>7
<1>9. m \in Message /\ f.msg \in Message /\ link[p] \in Link
  <2>1. f.msg \in Message /\ m \in Message
    BY PublicationTypes DEF Frame
  <2>2. link[p] \in Link
    BY DEF TypeOK
  <2> QED BY <2>1, <2>2
<1>10. /\ q \subseteq outbound[p] /\ Marked(q, l, t) /\ Marked(h, k, t)
       /\ \A e \in q : e.seq <= LastSend(l)
       /\ \A e \in h : e.seq <= LastSend(k)
       /\ LastSend(l) = LastSend(link[p]) /\ LastSend(link[p]) <= LastSend(k)
       /\ l.generation = link[p].generation /\ k.generation = link[p].generation
  BY <1>1, <1>2, <1>3, <1>4, <1>6, <1>9, TurnMarked DEF ReliableInvariant
<1>11. link[p].generation # 0
  <2>1. phase[p] = "current"
    BY DEF Arrives
  <2> QED BY <2>1, OtherPeer DEF HandoverInvariant, GenerationsAgree
<1>12. h = PushQueue(q, l, y) /\ TurnQueue(p, f, m) = PushQueue(h, k, m)
  BY <1>1, <1>2, <1>3, <1>4, <1>5 DEF RepliedQueue, TurnQueue
<1>13. Increasing(Fresh(p)) /\ \A x \in Fresh(p) : Welcome(p, x.msg)
  <2>1. Target(p)
    BY ArrivesInGeneration DEF ReliableInvariant
  <2> QED BY <2>1 DEF ReliableInvariant, Moving, Orderly
<1>14. Unapplied(q, F, a) \subseteq Fresh(p)
  BY <1>8, <1>10 DEF Unapplied, Fresh, Aloft
<1>15. Increasing(Unapplied(q, F, a))
  BY <1>13, <1>14 DEF Increasing
<1>16. y # NoMessage => f.msg.kind = "request" /\ y.kind = "result" /\ y.n = f.msg.n
  BY <1>5 DEF Reply
<1>17. NoMessage.kind = "none" /\ "none" \notin Kind /\ "result" \notin Sequenced
       /\ "result" \in Kind /\ "request" \in Kind
  BY DEF NoMessage, Kind, Sequenced
<1>18. \A z \in Unapplied(q, F, a) : z.msg.kind \in Kind /\ z.msg.n \in Nat /\ Welcome(p, z.msg)
  <2>1. \A z \in Unapplied(q, F, a) : z.msg \in Message
    BY DEF Unapplied, Fingerprint
  <2> QED BY <1>13, <1>14, <2>1 DEF Welcome, Message
<1>19. ASSUME NEW z \in Unapplied(q, F, a), z.msg.kind = y.kind PROVE z.msg.n < y.n
  <2>1. y # NoMessage
    BY <1>17, <1>18, <1>19
  <2>2. f.msg.kind = "request" /\ y.kind = "result" /\ y.n = f.msg.n
    BY <1>16, <2>1
  <2>3. z.msg.n <= accepted[p]["request"]
    BY <1>18, <1>19, <2>2 DEF Welcome
  <2>4. accepted[p]["request"] \in Nat /\ f.msg.n \in Nat
    BY ZenonT(60), <1>9, <1>17 DEF TypeOK, Message
  <2> QED BY <1>18, <2>2, <2>3, <2>4
<1>20. \A x \in F : x.seq <= t + 1 /\ x.seq <= LastSend(l)
  BY <1>7, <1>8, <1>10
<1>21. /\ Increasing(Unapplied(h, F, a))
       /\ \A z \in Unapplied(h, F, a) :
            z \in Unapplied(q, F, a) \/ (z.msg = y /\ y # NoMessage)
  <2>1. l.generation # 0
    BY <1>10, <1>11
  <2>2. /\ Increasing(Unapplied(PushQueue(q, l, y), F, a))
        /\ \A z \in Unapplied(PushQueue(q, l, y), F, a) :
             z \in Unapplied(q, F, a) \/ (z.msg = y /\ y # NoMessage)
    <3>1. Newest(y, Unapplied(q, F, a))
      BY <1>19 DEF Newest
    <3>2. Numbered(q, F, l, t)
      BY <1>10, <1>20 DEF Numbered
    <3>3. Marked(q, l, t)
      BY <1>10
    <3>4. /\ Increasing(Unapplied(PushQueue(q, l, y), F, a))
          /\ AddsOnly(Unapplied(PushQueue(q, l, y), F, a), Unapplied(q, F, a), y)
      BY <1>15, <2>1, <3>1, <3>2, <3>3, PushOrders
    <3> QED BY <3>4 DEF AddsOnly
  <2> QED BY <1>12, <2>2
<1>22. ASSUME NEW z \in Unapplied(h, F, a), z.msg.kind = m.kind PROVE z.msg.n < m.n
  <2>1. CASE z.msg = y /\ y # NoMessage
    BY <1>16, <1>17, <1>22, <2>1, PublicationSays
  <2>2. CASE z \in Unapplied(q, F, a)
    <3>1. z.msg.kind \in Kind /\ z.msg.n \in Nat /\ Welcome(p, z.msg)
      BY <1>18, <2>2
    <3>2. m # NoMessage
      BY <1>17, <1>22, <3>1
    <3>3. m.kind \in Sequenced /\ m.kind \in Kind /\ m.n = sent[p][m.kind] + 1
      BY <1>22, <3>1, <3>2, PublicationSays
    <3>4. z.msg.n <= sent[p][m.kind]
      BY <1>22, <3>1, <3>3 DEF Welcome
    <3>5. sent[p][m.kind] \in Nat
      BY <3>3, RevisionTypes
    <3> QED BY <3>1, <3>3, <3>4, <3>5
  <2> QED BY <1>21, <2>1, <2>2
<1>23. \A x \in F : x.seq <= t + 1 /\ x.seq <= LastSend(k)
  <2>1. LastSend(link[p]) \in Nat /\ LastSend(k) \in Nat
    BY <1>9, LinkNumbers
  <2>2. \A x \in F : x.seq \in Nat
    BY DEF Fingerprint
  <2> QED BY <1>7, <1>8, <1>10, <2>1, <2>2
<1>24. /\ Increasing(Unapplied(PushQueue(h, k, m), F, a))
       /\ \A z \in Unapplied(PushQueue(h, k, m), F, a) :
            z \in Unapplied(h, F, a) \/ (z.msg = m /\ m # NoMessage)
  <2>1. k.generation # 0
    BY <1>10, <1>11
  <2>2. Newest(m, Unapplied(h, F, a))
    BY <1>22 DEF Newest
  <2>3. Numbered(h, F, k, t)
    BY <1>10, <1>23 DEF Numbered
  <2>4. Marked(h, k, t) /\ m \in Message /\ Increasing(Unapplied(h, F, a))
    BY <1>9, <1>10, <1>21
  <2>5. /\ Increasing(Unapplied(PushQueue(h, k, m), F, a))
        /\ AddsOnly(Unapplied(PushQueue(h, k, m), F, a), Unapplied(h, F, a), m)
    BY <2>1, <2>2, <2>3, <2>4, PushOrders
  <2> QED BY <2>5 DEF AddsOnly
<1> QED BY <1>5, <1>8, <1>12, <1>14, <1>16, <1>21, <1>24

(* What the end that takes the frame has under way.                        *)
LEMMA NextOrderOfTaker ==
  ASSUME TypeOK, TypeOK', HandoverInvariant, UnacknowledgedIsQueued,
         ReliableInvariant, NEW p \in Peer, ReceiveNext(p)
  PROVE  Orderly(p)'
<1> DEFINE f == Head(wire[p])
           r == Other(p)
<1>1. r \in Peer /\ r = Other(p) /\ Other(r) = p /\ r # p
  BY OtherPeer
<1>2. /\ Arrives(p) /\ f \in Frame /\ f.type = "data" /\ f.msg \in Message
      /\ f.msg.kind \in Kind /\ f.msg.n \in Nat /\ Welcome(r, f.msg)
      /\ accepted[p][f.msg.kind] < f.msg.n /\ SameGeneration
      /\ \A k \in Kind : accepted'[p][k] =
           IF k = f.msg.kind THEN f.msg.n ELSE accepted[p][k]
      /\ accepted'[r] = accepted[r] /\ pending'[r] = pending[r]
      /\ link'[r] = link[r] /\ wire'[r] = wire[r] /\ UNCHANGED <<lease, phase>>
  BY NextSays
<1>3. PICK m \in Publications(p) :
        /\ outbound'[p] = TurnQueue(p, f, m) /\ sent' = RecordSent(p, m)
        /\ pending'[p] = (IF f.msg.kind = "result" THEN pending[p] \ {f.msg.n}
                          ELSE pending[p]) \cup Awaiting(m)
  BY NextSays
<1>4. /\ SameGeneration' = SameGeneration /\ (Target(p)' <=> Target(p))
      /\ link'[p].generation = link[p].generation
  BY NextSockets
<1> SUFFICES ASSUME Target(p)'
             PROVE  Increasing(Fresh(p)') /\ \A x \in Fresh(p)' : Welcome(p, x.msg)'
  BY DEF Orderly
<1>5. PICK a \in Nat : a = link[r].applied
  <2>1. link[r] \in Link
    BY <1>1 DEF TypeOK
  <2> QED BY <2>1, LinkNumbers
<1>6. Fresh(p)' = Unapplied(TurnQueue(p, f, m), Aloft(p), a)
  <2>1. Aloft(p)' = Aloft(p)
    BY <1>1, <1>2, <1>4 DEF Aloft, Flies
  <2> HIDE DEF r, f
  <2> QED BY <1>1, <1>2, <1>3, <1>5, <2>1 DEF Fresh, Unapplied, Aloft
<1>7. /\ Increasing(Fresh(p)')
      /\ \A z \in Fresh(p)' :
           \/ z \in Fresh(p)
           \/ z.msg = Reply(f.msg) /\ f.msg.kind = "request"
           \/ z.msg = m /\ m # NoMessage
  BY <1>2, <1>5, <1>6, TurnIncreasing
<1>8. /\ \A k \in Kind : sent[p][k] <= sent'[p][k]
      /\ accepted[p]["request"] <= accepted'[p]["request"] /\ Bounded
  BY <1>3, SentGrows, NextBounded DEF ReliableInvariant
<1>9. "request" \in Kind /\ "result" \in Kind
  BY DEF Kind
<1>10. ASSUME NEW x \in Fresh(p) PROVE Welcome(p, x.msg)'
  <2>1. Welcome(p, x.msg) /\ x.msg \in Message
    BY <1>4 DEF ReliableInvariant, Moving, Orderly, Fresh, Fingerprint
  <2>2. x.msg.n > accepted'[Other(p)][x.msg.kind]
    BY <1>1, <1>2, <2>1 DEF Welcome
  <2>3. x.msg.kind = "request" => x.msg.n \in pending'[p]
    <3>1. ASSUME x.msg.kind = "request", f.msg.kind = "result" PROVE x.msg.n # f.msg.n
      <4>1. f.msg.n <= accepted[r]["request"] /\ x.msg.n > accepted[r]["request"]
        BY <1>1, <1>2, <2>1, <3>1 DEF Welcome
      <4>2. accepted[r]["request"] \in Nat
        BY <1>1, <1>9 DEF TypeOK
      <4>3. x.msg.n \in Nat
        BY <2>1 DEF Message
      <4> QED BY <1>2, <4>1, <4>2, <4>3
    <3>2. x.msg.kind = "request" => x.msg.n \in pending[p]
      BY <2>1 DEF Welcome
    <3> QED BY <1>3, <3>1, <3>2
  <2>4. x.msg.kind = "result" => x.msg.n \in pending'[Other(p)]
    BY <1>1, <1>2, <2>1 DEF Welcome
  <2> HIDE DEF r, f
  <2> QED BY <1>4, <1>8, <2>1, <2>2, <2>3, <2>4, WelcomeGrows
<1>11. ASSUME f.msg.kind = "request", NEW y, y = Reply(f.msg) PROVE Welcome(p, y)'
  <2>1. y.kind = "result" /\ y.n = f.msg.n
    BY <1>11 DEF Reply
  <2>2. f.msg.n > accepted'[r]["result"]
    <3>1. accepted[r]["result"] <= accepted[p]["request"]
      BY <1>1, <1>8 DEF Bounded
    <3>2. accepted[r]["result"] \in Nat /\ accepted[p]["request"] \in Nat
      BY <1>1, <1>9 DEF TypeOK
    <3> QED BY <1>2, <1>11, <3>1, <3>2
  <2>3. f.msg.n \in pending'[r]
    BY <1>2, <1>11 DEF Welcome
  <2>4. f.msg.n <= accepted'[p]["request"]
    BY <1>2, <1>9, <1>11
  <2>5. "result" \notin Sequenced /\ "result" # "request"
    BY DEF Sequenced
  <2> HIDE DEF r, f
  <2> QED BY <1>1, <1>2, <1>4, <1>9, <2>1, <2>2, <2>3, <2>4, <2>5 DEF Welcome
<1>12. ASSUME m # NoMessage PROVE Welcome(p, m)'
  <2>1. /\ Awaiting(m) \subseteq pending'[p]
        /\ \A k \in Sequenced : accepted'[Other(p)][k] = accepted[Other(p)][k]
    BY <1>1, <1>2, <1>3
  <2> HIDE DEF r, f
  <2> QED BY <1>3, <1>8, <1>12, <2>1, PublishedWelcome
<1>13. ASSUME NEW z \in Fresh(p)' PROVE Welcome(p, z.msg)'
  <2>1. CASE z \in Fresh(p)
    BY <1>10, <2>1
  <2>2. CASE z.msg = Reply(f.msg) /\ f.msg.kind = "request"
    <3>1. PICK y : y = z.msg
      OBVIOUS
    <3>2. Welcome(p, y)'
      BY <1>11, <2>2, <3>1
    <3> QED BY <3>1, <3>2
  <2>3. CASE z.msg = m /\ m # NoMessage
    BY <1>12, <2>3
  <2> QED BY <1>7, <2>1, <2>2, <2>3
<1> QED BY <1>7, <1>13

(* The expected operation is taken.                                        *)
LEMMA NextReliable ==
  ASSUME TypeOK, TypeOK', HandoverInvariant, UnacknowledgedIsQueued,
         ReliableInvariant, NEW p \in Peer, ReceiveNext(p)
  PROVE  ReliableInvariant'
<1>1. Sockets' /\ Bounded'
  BY NextSockets, NextBounded
<1>2. Orderly(p)' /\ Orderly(Other(p))'
  BY NextOrderOfTaker, NextOrderOfSender
<1>3. (\E t : Carried(p, t)') /\ (\E u : Carried(Other(p), u)')
  BY NextCarried
<1>4. \A d \in Peer : d = p \/ d = Other(p)
  BY OtherPeer
<1> QED BY <1>1, <1>2, <1>3, <1>4 DEF ReliableInvariant, Moving

----------------------------------------------------------------------------
(* Resumption.                                                             *)

(* An end that is rebound starts with an empty line and at most its value. *)
LEMMA RebindReliable ==
  ASSUME TypeOK, TypeOK', Bounded, NEW p \in Peer, NEW l \in Link,
         RebindEndpoint(p, l), accepted' = accepted, NEW t \in Nat,
         l.peer_acknowledged = t, l.next_send = t + 1,
         \A i \in DOMAIN wire'[Other(p)] : wire'[Other(p)][i].type # "data",
         Target(p)' => link'[Other(p)].applied = t
  PROVE  Bounded' /\ Orderly(p)' /\ Carried(p, t)'
<1> DEFINE r == Other(p)
<1>1. r \in Peer /\ r = Other(p) /\ Other(r) = p /\ r # p /\ \A d \in Peer : d = p \/ d = r
  BY OtherPeer
<1>2. /\ lease'[p] = NoFrame /\ sent'[r] = sent[r]
      /\ \A k \in Kind : sent'[p][k] =
           IF k = "current" /\ ForcesCurrent(p) THEN sent[p][k] + 1 ELSE sent[p][k]
      /\ outbound'[p] = IF ForcesCurrent(p)
                        THEN {NewEntry(l.next_send, CurrentMessage(p))} ELSE {}
      /\ LastSend(link'[p]) = IF ForcesCurrent(p) THEN LastSend(l) + 1 ELSE LastSend(l)
      /\ link'[p].generation = l.generation
      /\ link'[p].peer_acknowledged = l.peer_acknowledged
  BY <1>1, RebindSays
<1>3. LastSend(l) = t
  BY LinkNumbers
<1>4. lease'[p].type # "data"
  BY <1>2 DEF NoFrame
<1>5. \A e \in outbound'[p] :
        ForcesCurrent(p) /\ e.seq = t + 1 /\ e.sent = 0 /\ e.msg = CurrentMessage(p)
  BY <1>2 DEF NewEntry
<1>6. "current" \in Kind /\ "current" \in Sequenced /\ Sequenced \subseteq Kind
  BY DEF Kind, Sequenced
<1>7. \A k \in Kind : sent[p][k] \in Nat /\ sent[p][k] <= sent'[p][k]
  <2> SUFFICES ASSUME NEW k \in Kind PROVE sent[p][k] \in Nat /\ sent[p][k] <= sent'[p][k]
    OBVIOUS
  <2>1. sent[p][k] \in Nat
    BY RevisionTypes
  <2> QED BY <1>2, <2>1
<1>8. Bounded'
  <2>1. \A k \in Sequenced : accepted'[r][k] <= sent'[p][k]
    <3> SUFFICES ASSUME NEW k \in Sequenced PROVE accepted[r][k] <= sent'[p][k]
      OBVIOUS
    <3>1. accepted[r][k] <= sent[p][k] /\ sent[p][k] \in Nat /\ sent[p][k] <= sent'[p][k]
      BY <1>1, <1>6, <1>7 DEF Bounded
    <3>2. accepted[r][k] \in Nat /\ sent'[p][k] \in Nat
      BY <1>1, <1>6 DEF TypeOK
    <3> QED BY <3>1, <3>2
  <2>2. \A k \in Sequenced : accepted'[p][k] <= sent'[r][k]
    BY <1>1, <1>2 DEF Bounded
  <2>3. \A d \in Peer : accepted'[Other(d)]["result"] <= accepted'[d]["request"]
    BY DEF Bounded
  <2> HIDE DEF r
  <2>4. \A d \in Peer : \A k \in Sequenced : accepted'[Other(d)][k] <= sent'[d][k]
    BY <1>1, <2>1, <2>2
  <2> QED BY <2>3, <2>4 DEF Bounded
<1>9. \A x \in Fresh(p)' :
        ForcesCurrent(p) /\ x.seq = t + 1 /\ x.msg = CurrentMessage(p)
  <2>1. \A x \in Fresh(p)' : \E e \in outbound'[p] : e.seq = x.seq /\ e.msg = x.msg
    BY <1>4 DEF Fresh, Flies
  <2> QED BY <1>5, <2>1
<1>10. Increasing(Fresh(p)')
  BY <1>9 DEF Increasing
<1>11. ASSUME NEW x \in Fresh(p)' PROVE Welcome(p, x.msg)'
  <2>1. ForcesCurrent(p) /\ x.msg.kind = "current" /\ x.msg.n = sent[p]["current"] + 1
    BY <1>9 DEF CurrentMessage
  <2>2. sent'[p]["current"] = sent[p]["current"] + 1 /\ sent[p]["current"] \in Nat
    BY <1>2, <1>6, <1>7, <2>1
  <2>3. accepted[r]["current"] <= sent[p]["current"] /\ accepted[r]["current"] \in Nat
    BY <1>1, <1>6 DEF Bounded, TypeOK
  <2>4. x.msg.n > accepted'[r]["current"] /\ x.msg.n <= sent'[p]["current"]
    BY <2>1, <2>2, <2>3
  <2> QED BY <1>6, <2>1, <2>4 DEF Welcome
<1>12. Orderly(p)'
  BY <1>10, <1>11 DEF Orderly
<1>13. Marked(outbound'[p], link'[p], t)
  <2>1. \A e \in outbound'[p] : e.sent = IF e.seq <= t THEN link'[p].generation ELSE 0
    BY <1>5
  <2>2. link'[p].peer_acknowledged <= t /\ t <= LastSend(link'[p])
    BY <1>2, <1>3
  <2> QED BY <2>1, <2>2 DEF Marked
<1>14. Target(p)' => InLine(wire'[r], link'[r].applied, t) /\ link'[r].applied <= t
  <2>1. t + 1 .. t = {}
    OBVIOUS
  <2> QED BY <2>1 DEF InLine
<1>15. Carried(p, t)'
  BY <1>4, <1>13, <1>14 DEF Carried, Reads
<1> QED BY <1>8, <1>12, <1>15

(* The server commits a resume.                                            *)
LEMMA CommitReliable ==
  ASSUME TypeOK, TypeOK', HandoverInvariant, ReliableInvariant, CommitResume
  PROVE  ReliableInvariant'
<1>1. /\ Client \in Peer /\ Session \in Peer /\ Client # Session
      /\ Other(Client) = Session /\ Other(Session) = Client
      /\ \A d \in Peer : d = Client \/ d = Session
  BY OtherPeer
<1>2. PICK l \in Link :
        /\ RebindEndpoint(Session, l) /\ l.generation = offer.generation
        /\ l.peer_acknowledged = offer.applied_server
        /\ l.next_send = offer.applied_server + 1 /\ l.resync = 0
        /\ offer.generation > link[Client].generation /\ offer.generation \in Nat
        /\ wire[Client] = <<>> /\ wire[Session] = <<>> /\ wire'[Session] = <<>>
        /\ phase'[Client] = phase[Client] /\ phase'[Session] = "current"
        /\ phase[Client] # "current"
        /\ phase[Client] = "connecting" =>
             /\ offer.applied_server = link[Client].applied
             /\ wire'[Client] = <<ReadyFrame(offer.generation, link[Session].applied)>>
        /\ phase[Client] # "connecting" => wire'[Client] = <<>>
        /\ accepted' = accepted
  BY CommitSays
<1>3. /\ lease'[Session] = NoFrame /\ link'[Client] = link[Client]
      /\ outbound'[Client] = outbound[Client] /\ lease'[Client] = lease[Client]
      /\ link'[Session].generation = offer.generation /\ link'[Session].resync = 0
  BY <1>1, <1>2, RebindSays
<1>4. ~ SameGeneration'
  <2>1. link[Client].generation \in Nat
    BY <1>1, LinkNumbers DEF TypeOK
  <2> QED BY <1>2, <1>3, <2>1 DEF SameGeneration
<1>5. \A i \in DOMAIN wire'[Client] :
        wire'[Client][i].type = "ready" /\ wire'[Client][i].generation = offer.generation
  <2>1. CASE phase[Client] = "connecting"
    <3> PICK g : g = ReadyFrame(offer.generation, link[Session].applied)
      OBVIOUS
    <3>1. wire'[Client] = <<g>> /\ g.type = "ready" /\ g.generation = offer.generation
      BY <1>2, <2>1 DEF ReadyFrame
    <3> QED BY <3>1
  <2>2. CASE phase[Client] # "connecting"
    <3>1. DOMAIN <<>> = {}
      OBVIOUS
    <3> QED BY <1>2, <2>2, <3>1
  <2> QED BY <2>1, <2>2
<1>6. phase[Client] = "connecting" => wire'[Client] # <<>>
  <2> PICK g : g = ReadyFrame(offer.generation, link[Session].applied)
    OBVIOUS
  <2>1. <<g>> # <<>>
    OBVIOUS
  <2>2. phase[Client] = "connecting" => wire'[Client] = <<g>>
    BY <1>2
  <2> QED BY <2>1, <2>2
<1>7. lease[Client] = NoFrame
  BY <1>1, <1>2 DEF ReliableInvariant, Sockets
<1>8. Sockets'
  <2>1. DOMAIN <<>> = {}
    OBVIOUS
  <2>2. \A p \in Peer : \A i \in DOMAIN wire'[p] :
          wire'[p][i].generation = link'[Other(p)].generation /\ wire'[p][i].type # "resync"
    BY <1>1, <1>2, <1>3, <1>5, <2>1
  <2>3. \A p \in Peer : lease'[p] = NoFrame /\ link'[p].resync = 0
    BY <1>1, <1>3, <1>7 DEF ReliableInvariant, Sockets
  <2> QED BY <1>2, <1>6, <2>2, <2>3 DEF Sockets
<1>9. PICK t \in Nat : t = offer.applied_server
  BY DEF TypeOK
<1>10. Bounded' /\ Orderly(Session)' /\ Carried(Session, t)'
  <2>1. Target(Session)' => link'[Client].applied = t
    BY <1>2, <1>3, <1>4, <1>9 DEF Target
  <2>2. \A i \in DOMAIN wire'[Client] : wire'[Client][i].type # "data"
    BY <1>5
  <2>3. Bounded
    BY DEF ReliableInvariant
  <2> QED BY <1>1, <1>2, <1>9, <2>1, <2>2, <2>3, RebindReliable
<1>11. ~ Target(Client)'
  BY <1>1, <1>4 DEF Target
<1>12. \E u : Carried(Client, u)'
  <2>1. PICK u : Carried(Client, u)
    BY <1>1 DEF ReliableInvariant, Moving
  <2>2. lease'[Client].type # "data" /\ phase'[Client] # "current" /\ DOMAIN <<>> = {}
    BY <1>2, <1>3, <1>7 DEF NoFrame
  <2>3. Carried(Client, u)'
    BY <1>1, <1>2, <1>11, <2>1, <2>2 DEF Carried, Reads
  <2> QED BY <2>3
<1>13. Orderly(Client)'
  BY <1>11 DEF Orderly
<1> QED BY <1>1, <1>8, <1>10, <1>12, <1>13 DEF ReliableInvariant, Moving

(* The tab takes Ready.                                                    *)
LEMMA BindReliable ==
  ASSUME TypeOK, TypeOK', HandoverInvariant, ReliableInvariant, ClientBind
  PROVE  ReliableInvariant'
<1>1. /\ Client \in Peer /\ Session \in Peer /\ Client # Session
      /\ Other(Client) = Session /\ Other(Session) = Client
      /\ \A d \in Peer : d = Client \/ d = Session
  BY OtherPeer
<1>2. PICK l \in Link :
        /\ RebindEndpoint(Client, l) /\ l.generation = link[Session].generation
        /\ l.applied = link[Client].applied
        /\ l.peer_acknowledged = link[Session].applied
        /\ l.next_send = link[Session].applied + 1 /\ l.resync = 0
        /\ link[Client].generation < link[Session].generation
        /\ phase[Client] = "connecting" /\ phase'[Client] = "current"
        /\ phase'[Session] = phase[Session]
        /\ wire[Client] # <<>> /\ Head(wire[Client]).type = "ready"
        /\ wire'[Client] = Tail(wire[Client]) /\ wire'[Session] = <<>>
        /\ accepted' = accepted
  BY BindSays
<1>3. /\ lease'[Client] = NoFrame /\ link'[Session] = link[Session]
      /\ outbound'[Session] = outbound[Session] /\ lease'[Session] = lease[Session]
      /\ sent'[Session] = sent[Session] /\ pending'[Session] = pending[Session]
      /\ link'[Client].generation = link[Session].generation
      /\ link'[Client].applied = link[Client].applied /\ link'[Client].resync = 0
  BY <1>1, <1>2, RebindSays
<1>4. SameGeneration' /\ ~ SameGeneration
  <2>1. link[Client].generation \in Nat /\ link[Session].generation \in Nat
    BY <1>1, LinkNumbers DEF TypeOK
  <2> QED BY <1>2, <1>3, <2>1 DEF SameGeneration
<1>5. Target(Session) /\ Reads(Session)
  BY <1>1, <1>2 DEF Target, Reads
<1>6. \A i \in DOMAIN wire'[Client] :
        \E j \in DOMAIN wire[Client] : wire'[Client][i] = wire[Client][j]
  BY <1>1, <1>2, HeadOf
<1>7. DOMAIN <<>> = {}
  OBVIOUS
<1>8. Sockets'
  <2>1. \A i \in DOMAIN wire'[Client] :
          /\ wire'[Client][i].generation = link'[Session].generation
          /\ wire'[Client][i].type # "resync"
    <3>1. \A j \in DOMAIN wire[Client] :
            /\ wire[Client][j].generation = link[Session].generation
            /\ wire[Client][j].type # "resync"
      BY <1>1 DEF ReliableInvariant, Sockets
    <3> QED BY <1>3, <1>6, <3>1
  <2>2. \A p \in Peer : \A i \in DOMAIN wire'[p] :
          wire'[p][i].generation = link'[Other(p)].generation /\ wire'[p][i].type # "resync"
    BY <1>1, <1>2, <1>7, <2>1
  <2>3. \A p \in Peer : link'[p].resync = 0
    BY <1>1, <1>3 DEF ReliableInvariant, Sockets
  <2>4. \A p \in Peer : lease'[p] # NoFrame =>
          /\ phase'[p] = "current" /\ lease'[p].generation = link'[p].generation
          /\ lease'[p].type \in {"data", "ack"}
    BY <1>1, <1>2, <1>3 DEF ReliableInvariant, Sockets
  <2> QED BY <1>2, <1>4, <2>2, <2>3, <2>4 DEF Sockets
<1>9. PICK t \in Nat : t = link[Session].applied
  BY <1>1, LinkNumbers DEF TypeOK
<1>10. Bounded' /\ Orderly(Client)' /\ Carried(Client, t)'
  <2>1. link'[Session].applied = t
    BY <1>3, <1>9
  <2>2. \A i \in DOMAIN wire'[Session] : wire'[Session][i].type # "data"
    BY <1>2, <1>7
  <2>3. Bounded
    BY DEF ReliableInvariant
  <2> QED BY <1>1, <1>2, <1>9, <2>1, <2>2, <2>3, RebindReliable
<1>11. \E u : Carried(Session, u)'
  <2>1. PICK u : Carried(Session, u)
    BY <1>1 DEF ReliableInvariant, Moving
  <2>2. Carried(Session, u)'
    BY <1>1, <1>2, <1>3, <1>5, <2>1, TailCarried
  <2> QED BY <2>2
<1>12. Orderly(Session)'
  <2>1. Increasing(Fresh(Session)) /\ \A x \in Fresh(Session) : Welcome(Session, x.msg)
    BY <1>1, <1>5 DEF ReliableInvariant, Moving, Orderly
  <2>2. Fresh(Session)' \subseteq Fresh(Session)
    <3> SUFFICES ASSUME NEW x \in Fresh(Session)' PROVE x \in Fresh(Session)
      OBVIOUS
    <3>1. Flies(Session, x.seq, x.msg)' => Flies(Session, x.seq, x.msg)
      BY <1>1, <1>3, <1>6 DEF Flies
    <3> QED BY <1>1, <1>3, <3>1 DEF Fresh
  <2>3. Increasing(Fresh(Session)')
    BY <2>1, <2>2 DEF Increasing
  <2>4. ASSUME NEW x \in Fresh(Session)' PROVE Welcome(Session, x.msg)'
    <3>1. Welcome(Session, x.msg)
      BY <2>1, <2>2
    <3>2. x.msg.kind # "result"
      BY <1>4, <3>1 DEF Welcome
    <3> QED BY <1>2, <1>3, <3>1, <3>2 DEF Welcome
  <2> QED BY <2>3, <2>4 DEF Orderly
<1> QED BY <1>1, <1>8, <1>10, <1>11, <1>12 DEF ReliableInvariant, Moving

----------------------------------------------------------------------------
(* The invariant of a transport without faults.                            *)

(* The first generation: Ready is on the socket, and the value is queued.  *)
LEMMA ReliableInit == Init => ReliableInvariant
<1> SUFFICES ASSUME Init PROVE ReliableInvariant
  OBVIOUS
<1>1. TypeOK
  BY TypeInit
<1>2. /\ Client \in Peer /\ Session \in Peer /\ Client # Session
      /\ Other(Client) = Session /\ Other(Session) = Client
      /\ \A d \in Peer : d = Client \/ d = Session
  BY OtherPeer
<1>3. /\ lease[Client] = NoFrame /\ lease[Session] = NoFrame
      /\ wire[Client] = <<ReadyFrame(1, 0)>> /\ wire[Session] = <<>>
      /\ phase[Client] = "connecting" /\ phase[Session] = "current"
      /\ \A p \in Peer, k \in Kind : accepted[p][k] = 0
  BY <1>2 DEF Init
<1> DEFINE m == [kind |-> "current", n |-> 1]
<1>4. m # NoMessage /\ Replaced({}, m) = {} /\ NewLink(1) \in Link
      /\ NoLink \in Link
  BY ConstantTypes DEF NoMessage, Replaced
<1>5. /\ NewLink(1).generation = 1 /\ NewLink(1).resync = 0 /\ LastSend(NewLink(1)) = 0
      /\ NewLink(1).peer_acknowledged = 0 /\ NewLink(1).next_send = 1
      /\ NoLink.generation = 0 /\ NoLink.resync = 0 /\ NoLink.applied = 0
  BY DEF NewLink, NoLink, LastSend
<1>6. /\ link[Client] = NoLink /\ link[Session].generation = 1
      /\ link[Session].resync = 0 /\ link[Session].peer_acknowledged = 0
      /\ LastSend(link[Session]) \in {0, 1}
  <2>1. link[Client] = NoLink
    BY <1>2 DEF Init
  <2>2. link[Session] = PushLink({}, NewLink(1), m) \/ link[Session] = NewLink(1)
    BY <1>2 DEF Init
  <2> HIDE DEF m
  <2> QED BY <1>4, <1>5, <2>1, <2>2, PushLast
<1>7. \A e \in outbound[Session] :
        e.seq = 1 /\ e.sent = 0 /\ e.msg = m /\ sent[Session]["current"] = 1
  <2> SUFFICES ASSUME NEW e \in outbound[Session]
               PROVE  e.seq = 1 /\ e.sent = 0 /\ e.msg = m /\ sent[Session]["current"] = 1
    OBVIOUS
  <2>1. "current" \in Publishes[Session] /\ e \in PushQueue({}, NewLink(1), m)
    BY <1>2 DEF Init
  <2>2. sent[Session]["current"] = 1
    BY <1>2, <2>1 DEF Init, Kind
  <2>3. e = NewEntry(1, m)
    BY <1>4, <1>5, <2>1 DEF PushQueue
  <2> QED BY <2>2, <2>3 DEF NewEntry
<1> HIDE DEF m
<1>8. ~ SameGeneration /\ ~ Target(Client) /\ ~ Reads(Client)
  BY <1>2, <1>5, <1>6 DEF SameGeneration, Target, Reads
<1>9. /\ \A i \in DOMAIN wire[Client] :
           wire[Client][i].type = "ready" /\ wire[Client][i].generation = 1
      /\ \A i \in DOMAIN wire[Session] : FALSE
      /\ wire[Client] # <<>>
  <2> PICK g : g = ReadyFrame(1, 0)
    OBVIOUS
  <2>1. g.type = "ready" /\ g.generation = 1 /\ wire[Client] = <<g>>
    BY <1>3 DEF ReadyFrame
  <2>2. DOMAIN <<>> = {} /\ <<g>> # <<>>
    OBVIOUS
  <2> QED BY <1>3, <2>1, <2>2
<1>10. Sockets
  <2>1. \A p \in Peer : \A i \in DOMAIN wire[p] :
          wire[p][i].generation = link[Other(p)].generation /\ wire[p][i].type # "resync"
    BY <1>2, <1>6, <1>9
  <2>2. \A p \in Peer : lease[p] = NoFrame /\ link[p].resync = 0
    BY <1>2, <1>3, <1>5, <1>6
  <2> QED BY <1>3, <1>9, <2>1, <2>2 DEF Sockets
<1>11. Bounded
  <2>1. ASSUME NEW p \in Peer, NEW k \in Sequenced
        PROVE  accepted[Other(p)][k] <= sent[p][k]
    <3>1. k \in Kind /\ sent[p] \in [Kind -> Nat] /\ Other(p) \in Peer
      BY <1>1, RevisionTypes, OtherPeer DEF Sequenced, Kind
    <3>2. sent[p][k] \in Nat /\ accepted[Other(p)][k] = 0
      BY <1>3, <3>1
    <3> QED BY <3>2
  <2>2. ASSUME NEW p \in Peer
        PROVE  accepted[Other(p)]["result"] <= accepted[p]["request"]
    <3>1. Other(p) \in Peer /\ "result" \in Kind /\ "request" \in Kind
      BY OtherPeer DEF Kind
    <3> QED BY <1>3, <3>1
  <2> QED BY <2>1, <2>2 DEF Bounded
<1>12. NoFrame.type # "data"
  BY DEF NoFrame
<1>13. Moving(Client)
  <2>1. Carried(Client, 0)
    BY <1>2, <1>3, <1>8, <1>9, <1>12 DEF Carried
  <2> QED BY <1>8, <2>1 DEF Moving, Orderly
<1>14. Carried(Session, 0)
  <2>1. Marked(outbound[Session], link[Session], 0)
    <3>1. \A e \in outbound[Session] :
            e.sent = IF e.seq <= 0 THEN link[Session].generation ELSE 0
      BY <1>7
    <3> QED BY <1>6, <3>1 DEF Marked
  <2>2. 0 + 1 .. 0 = {}
    OBVIOUS
  <2>3. InLine(wire[Client], 0, 0)
    BY <1>9, <2>2 DEF InLine
  <2> QED BY <1>2, <1>3, <1>5, <1>6, <1>9, <1>12, <2>1, <2>3 DEF Carried
<1>15. Orderly(Session)
  <2>1. \A x \in Fresh(Session) : \E e \in outbound[Session] : e.seq = x.seq /\ e.msg = x.msg
    BY <1>2, <1>3, <1>9, <1>12 DEF Fresh, Flies
  <2>2. \A x \in Fresh(Session) : x.seq = 1 /\ x.msg = m /\ sent[Session]["current"] = 1
    BY <1>7, <2>1
  <2>3. Increasing(Fresh(Session))
    BY <2>2 DEF Increasing
  <2>4. "current" \in Kind /\ accepted[Client]["current"] = 0
    BY <1>2, <1>3 DEF Kind
  <2>5. m.kind = "current" /\ m.n = 1
    BY DEF m
  <2>6. ASSUME NEW x \in Fresh(Session) PROVE Welcome(Session, x.msg)
    BY <1>2, <2>2, <2>4, <2>5, <2>6 DEF Welcome
  <2> QED BY <2>3, <2>6 DEF Orderly
<1> QED BY <1>2, <1>10, <1>11, <1>13, <1>14, <1>15 DEF ReliableInvariant, Moving

(* Every step without a fault or a reload keeps it, and refuses nothing.   *)
LEMMA ReliableStep ==
  ASSUME TransportInvariant, ReliableInvariant, [Next]_vars, ~ Reload,
         \A p \in Peer : ~ LoseFrame(p) /\ ~ RepeatFrame(p)
  PROVE  ReliableInvariant' /\ \A p \in Peer : ~ ReceiveRefused(p)
<1>1. TypeOK /\ TypeOK' /\ HandoverInvariant /\ UnacknowledgedIsQueued
  BY TypeStep DEF TransportInvariant
<1>2. ASSUME NEW p \in Peer PROVE ~ ReceiveRefused(p) /\ ~ ReceiveOutOfOrder(p)
  <2>1. ReceiveRefused(p) => Arrives(p) /\ Refuses(p, Head(wire[p]))
    BY DEF ReceiveRefused
  <2>2. ReceiveOutOfOrder(p) => Arrives(p)
    BY DEF ReceiveOutOfOrder
  <2> QED BY <1>1, <2>1, <2>2, NothingRefused
<1>3. ASSUME NEW p \in Peer, NEW k \in Sequenced, Publish(p, k)
      PROVE  ReliableInvariant'
  BY <1>1, <1>3, PublishReliable
<1>4. ASSUME NEW p \in Peer, LeaseFrame(p) PROVE ReliableInvariant'
  BY <1>1, <1>4, LeaseReliable
<1>5. ASSUME NEW p \in Peer, TransmitLeased(p) PROVE ReliableInvariant'
  BY <1>1, <1>5, TransmitReliable
<1>6. ASSUME NEW p \in Peer, ReceiveNext(p) PROVE ReliableInvariant'
  BY <1>1, <1>6, NextReliable
<1>7. ASSUME NEW p \in Peer, ReceiveControl(p) PROVE ReliableInvariant'
  BY <1>1, <1>7, ControlReliable
<1>8. ClientOverflow \/ ClientDisconnect \/ SessionDisconnect => ReliableInvariant'
  BY <1>1, DisconnectReliable
<1>9. BeginResume \/ CommitResume \/ ClientBind => ReliableInvariant'
  BY <1>1, BeginReliable, CommitReliable, BindReliable
<1>10. DropOffer \/ UNCHANGED vars => ReliableInvariant'
  <2>1. DropOffer \/ UNCHANGED vars =>
          UNCHANGED <<link, outbound, lease, phase, wire, sent, accepted, pending>>
    BY DEF DropOffer, vars
  <2> QED BY <2>1, StutterReliable
<1> QED BY <1>2, <1>3, <1>4, <1>5, <1>6, <1>7, <1>8, <1>9, <1>10 DEF Next, Receive

(* Nothing else lets a runtime fail.                                       *)
LEMMA FailsByRefusing ==
  ASSUME TypeOK, NeverFails, [Next]_vars, \A p \in Peer : ~ ReceiveRefused(p)
  PROVE  NeverFails'
<1>1. phase \in [Peer -> Phase]
  BY DEF TypeOK
<1>2. ASSUME NEW p \in Peer, NEW v, v # "failed", phase' = [phase EXCEPT ![p] = v]
      PROVE  NeverFails'
  BY <1>1, <1>2 DEF NeverFails
<1>3. phase' = phase => NeverFails'
  BY DEF NeverFails
<1>4. ASSUME NEW p \in Peer, ReceiveNext(p) \/ ReceiveOutOfOrder(p) \/ ReceiveControl(p)
      PROVE  NeverFails'
  BY <1>3, <1>4 DEF ReceiveNext, ReceiveOutOfOrder, ReceiveControl
<1>5. ASSUME NEW p \in Peer,
             \/ \E k \in Sequenced : Publish(p, k)
             \/ LeaseFrame(p) \/ TransmitLeased(p) \/ LoseFrame(p) \/ RepeatFrame(p)
      PROVE  NeverFails'
  BY <1>3, <1>5 DEF Publish, LeaseFrame, TransmitLeased, LoseFrame, RepeatFrame
<1>6. ClientOverflow \/ ClientDisconnect \/ SessionDisconnect => NeverFails'
  BY <1>2, OtherPeer DEF ClientOverflow, Terminate, ClientDisconnect, SessionDisconnect
<1>7. BeginResume \/ CommitResume \/ ClientBind \/ Reload => NeverFails'
  BY ZenonT(60), <1>2, OtherPeer DEF BeginResume, CommitResume, ClientBind, Reload
<1>8. DropOffer \/ UNCHANGED vars => NeverFails'
  BY <1>3 DEF DropOffer, vars
<1> QED BY <1>4, <1>5, <1>6, <1>7, <1>8 DEF Next, Receive

(* What holds in every state of a transport without faults and reloads.    *)
Faultless == TransportInvariant /\ ReliableInvariant /\ NeverFails

(* It holds at first, and every step keeps it.                             *)
LEMMA FaultlessInductive ==
  ASSUME MaxFaults = 0, MaxReloads = 0
  PROVE  (Init => Faultless) /\ (Faultless /\ [Next]_vars => Faultless')
<1>1. Init => NeverFails
  BY OtherPeer DEF Init, NeverFails
<1>2. Init => Faultless
  BY <1>1, TransportInit, ReliableInit DEF Faultless
<1>3. ASSUME Faultless, [Next]_vars PROVE Faultless'
  <2>1. faults \in 0 .. 0 /\ reloads \in 0 .. 0
    BY <1>3 DEF Faultless, TransportInvariant, TypeOK
  <2>2. ~ Reload /\ \A p \in Peer : ~ LoseFrame(p) /\ ~ RepeatFrame(p)
    BY <2>1 DEF Reload, LoseFrame, RepeatFrame
  <2>3. ReliableInvariant' /\ \A p \in Peer : ~ ReceiveRefused(p)
    BY <1>3, <2>2, ReliableStep DEF Faultless
  <2>4. NeverFails'
    BY <1>3, <2>3, FailsByRefusing DEF Faultless, TransportInvariant
  <2>5. TransportInvariant'
    BY <1>3, TransportStep DEF Faultless
  <2> QED BY <2>3, <2>4, <2>5 DEF Faultless
<1> QED BY <1>2, <1>3

(* On a transport that neither loses nor repeats frames, no frame is ever  *)
(* refused: the Session is never poisoned and the tab's host never stops,  *)
(* whatever either end publishes and whenever it loses its socket.         *)
THEOREM NoFrameIsRefused ==
  ASSUME MaxFaults = 0, MaxReloads = 0
  PROVE  Spec => []NeverFails
<1>1. Faultless => NeverFails
  BY DEF Faultless
<1> QED BY <1>1, FaultlessInductive, PTL DEF Spec

(* On such a transport the operation of a lease is still queued when the   *)
(* socket has taken it: acknowledge_*_frame never puts the lease back.     *)
THEOREM LeaseIsAlwaysQueued ==
  ASSUME MaxFaults = 0, MaxReloads = 0
  PROVE  Spec => []LeaseIsQueued
<1>1. Faultless => LeaseIsQueued
  BY LeaseQueued DEF Faultless, TransportInvariant, LeaseIsQueued
<1> QED BY <1>1, FaultlessInductive, PTL DEF Spec

----------------------------------------------------------------------------
(* The last value of the Session.                                          *)

(* What is under way is what the queue holds under the same number.        *)
Agree(q, F) == \A x \in F, e \in q : e.seq = x.seq => e.msg = x.msg

(* Queue q holds value n, and the other end has not applied it.            *)
Holds(q, a, n) ==
  \E e \in q : e.seq > a /\ e.msg.kind = "current" /\ e.msg.n = n

Matches == phase[Session] = "current" => Agree(outbound[Session], Aloft(Session))

(* The last value was accepted, or the Session still has to send it.       *)
Latest ==
  (phase[Session] = "current" /\ Target(Session)) =>
    \/ accepted[Client]["current"] = sent[Session]["current"]
    \/ Holds(outbound[Session], link[Client].applied, sent[Session]["current"])

Silent == "current" \notin Publishes[Session] => sent[Session]["current"] = 0

ValueInvariant == Matches /\ Latest /\ Silent

(* The operations of the Session that the tab has not applied stay queued. *)
Retains ==
  \A e \in outbound[Session] : e.seq > link[Client].applied =>
    \E y \in outbound'[Session] : y.seq = e.seq /\ y.msg = e.msg

(* A step that publishes, delivers and rebinds nothing of the Session.     *)
LEMMA QuietValue ==
  ASSUME TypeOK, TypeOK', UnacknowledgedIsQueued, ValueInvariant, Keeps(Session),
         sent'[Session] = sent[Session], accepted'[Client] = accepted[Client],
         phase'[Session] = "current" =>
           phase[Session] = "current" /\ Retains /\ (Target(Session)' => Target(Session))
  PROVE  ValueInvariant'
<1>1. Session \in Peer /\ Other(Session) = Client
  BY OtherPeer
<1>2. Silent'
  BY DEF ValueInvariant, Silent
<1>3. ASSUME phase'[Session] = "current" PROVE Agree(outbound'[Session], Aloft(Session)')
  <2> SUFFICES ASSUME NEW x \in Aloft(Session)', NEW e \in outbound'[Session],
                      e.seq = x.seq
               PROVE  e.msg = x.msg
    BY DEF Agree
  <2>1. phase[Session] = "current"
    BY <1>3
  <2>2. Agree(outbound[Session], Aloft(Session))
    BY <2>1 DEF ValueInvariant, Matches
  <2>3. \A w, z \in outbound[Session] : w.seq = z.seq => w = z
    BY <1>1, <2>1 DEF UnacknowledgedIsQueued, HoldsUnacknowledged
  <2>4. x \in Fingerprint /\ x.seq \in Nat /\ x.msg \in Message
        /\ Flies(Session, x.seq, x.msg)'
    BY DEF Aloft, Fingerprint
  <2>5. PICK w \in outbound[Session] : w.seq = e.seq /\ w.msg = e.msg
    BY DEF Keeps
  <2>6. Flies(Session, x.seq, x.msg)
        \/ \E z \in outbound[Session] : z.seq = x.seq /\ z.msg = x.msg
    BY <1>1, <2>4, FliesKept DEF Keeps
  <2>7. CASE Flies(Session, x.seq, x.msg)
    <3>1. x \in Aloft(Session)
      BY <2>4, <2>7 DEF Aloft
    <3> QED BY <2>2, <2>5, <3>1 DEF Agree
  <2>8. CASE \E z \in outbound[Session] : z.seq = x.seq /\ z.msg = x.msg
    BY <2>3, <2>5, <2>8
  <2> QED BY <2>6, <2>7, <2>8
<1>4. Matches'
  BY <1>3 DEF Matches
<1>5. Latest'
  <2> SUFFICES ASSUME phase'[Session] = "current", Target(Session)'
               PROVE  \/ accepted'[Client]["current"] = sent'[Session]["current"]
                      \/ Holds(outbound'[Session], link'[Client].applied,
                               sent'[Session]["current"])
    BY DEF Latest
  <2>1. \/ accepted[Client]["current"] = sent[Session]["current"]
        \/ Holds(outbound[Session], link[Client].applied, sent[Session]["current"])
    BY DEF ValueInvariant, Latest
  <2>2. link'[Client].applied = link[Client].applied
    BY <1>1 DEF Keeps
  <2>3. ASSUME Holds(outbound[Session], link[Client].applied, sent[Session]["current"])
        PROVE  Holds(outbound'[Session], link[Client].applied, sent[Session]["current"])
    <3>1. PICK e \in outbound[Session] :
            /\ e.seq > link[Client].applied /\ e.msg.kind = "current"
            /\ e.msg.n = sent[Session]["current"]
      BY <2>3 DEF Holds
    <3>2. PICK y \in outbound'[Session] : y.seq = e.seq /\ y.msg = e.msg
      BY <3>1 DEF Retains
    <3> QED BY <3>1, <3>2 DEF Holds
  <2> QED BY <2>1, <2>2, <2>3
<1> QED BY <1>2, <1>4, <1>5 DEF ValueInvariant

(* A push changes nothing that is under way.                               *)
LEMMA PushAgrees ==
  ASSUME NEW q \in SUBSET Entry, NEW F \in SUBSET Fingerprint, NEW l \in Link,
         NEW m \in Message, NEW t \in Nat, Marked(q, l, t), l.generation # 0,
         m # NoMessage => \A x \in F : x.seq <= t, Agree(q, F)
  PROVE  Agree(PushQueue(q, l, m), F)
<1> SUFFICES ASSUME NEW x \in F, NEW e \in PushQueue(q, l, m), e.seq = x.seq
             PROVE  e.msg = x.msg
  BY DEF Agree
<1>1. CASE e \in q
  BY <1>1 DEF Agree
<1>2. ASSUME e \notin q PROVE FALSE
  <2>1. /\ m # NoMessage
        /\ \/ \E y \in Replaced(q, m) : e.seq = y.seq /\ e.msg = m
           \/ e = NewEntry(l.next_send, m)
    BY <1>2, PushEntries
  <2>2. x.seq <= t /\ x.seq \in Nat
    BY <2>1 DEF Fingerprint
  <2>3. ASSUME NEW y \in Replaced(q, m), e.seq = y.seq PROVE FALSE
    <3>1. y \in q /\ y.sent = 0
      BY ReplacedValues
    <3>2. ~ (y.seq <= t)
      BY <3>1 DEF Marked
    <3> QED BY <2>2, <2>3, <3>2
  <2>4. ASSUME e = NewEntry(l.next_send, m) PROVE FALSE
    <3>1. e.seq = l.next_send
      BY <2>4 DEF NewEntry
    <3>2. t <= LastSend(l) /\ LastSend(l) \in Nat /\ l.next_send = LastSend(l) + 1
      BY LinkNumbers DEF Marked
    <3> QED BY <2>2, <3>1, <3>2
  <2> QED BY <2>1, <2>3, <2>4
<1> QED BY <1>1, <1>2

(* A push of a value leaves it in the queue, any other leaves the queue.   *)
LEMMA PushHas ==
  ASSUME NEW q \in SUBSET Entry, NEW l \in Link, NEW m \in Message, NEW t \in Nat,
         NEW a \in Nat, a <= t, Marked(q, l, t), l.generation # 0
  PROVE  /\ m.kind = "current" => Holds(PushQueue(q, l, m), a, m.n)
         /\ m.kind # "current" => q \subseteq PushQueue(q, l, m)
<1>1. ASSUME m.kind = "current" PROVE Holds(PushQueue(q, l, m), a, m.n)
  <2>1. m # NoMessage
    BY <1>1 DEF NoMessage
  <2>2. CASE Replaced(q, m) # {}
    <3>1. PICK x : x \in Replaced(q, m)
      BY <2>2
    <3>2. x \in q /\ x.sent = 0 /\ x \in Entry /\ x.seq \in Nat
      BY <3>1, ReplacedValues DEF Entry
    <3>3. ~ (x.seq <= t)
      BY <3>2 DEF Marked
    <3> DEFINE e == [x EXCEPT !.msg = m]
    <3>4. e.seq = x.seq /\ e.msg = m
      BY <3>2 DEF Entry
    <3>5. e \in PushQueue(q, l, m)
      BY <2>1, <2>2, <3>1 DEF PushQueue
    <3>6. e.seq > a
      BY <3>2, <3>3, <3>4
    <3> HIDE DEF e
    <3> QED BY <1>1, <3>4, <3>5, <3>6 DEF Holds
  <2>3. CASE Replaced(q, m) = {}
    <3> DEFINE e == NewEntry(l.next_send, m)
    <3>1. e \in PushQueue(q, l, m)
      BY <2>1, <2>3 DEF PushQueue
    <3>2. e.seq = l.next_send /\ e.msg = m
      BY DEF NewEntry
    <3>3. t <= LastSend(l) /\ LastSend(l) \in Nat /\ l.next_send = LastSend(l) + 1
      BY LinkNumbers DEF Marked
    <3>4. e.seq > a
      BY <3>2, <3>3
    <3> HIDE DEF e
    <3> QED BY <1>1, <3>1, <3>2, <3>4 DEF Holds
  <2> QED BY <2>2, <2>3
<1>2. ASSUME m.kind # "current" PROVE q \subseteq PushQueue(q, l, m)
  <2>1. Replaced(q, m) = {}
    BY <1>2 DEF Replaced, ReplacesPending
  <2> QED BY <2>1 DEF PushQueue
<1> QED BY <1>1, <1>2

(* Without a lease, what is under way was sent.                            *)
LEMMA LandedBounds ==
  ASSUME TypeOK, NEW p \in Peer, NEW t, Carried(p, t), lease[p] = NoFrame,
         NEW x \in Aloft(p)
  PROVE  x.seq <= t
<1>1. Flies(p, x.seq, x.msg)
  BY DEF Aloft
<1>2. lease[p].type # "data"
  BY DEF NoFrame
<1> QED BY <1>1, <1>2 DEF Flies, Carried

(* What the Session's program publishes, as a value.                       *)
LEMMA PublishedValue ==
  ASSUME TypeOK, Silent, NEW m \in Publications(Session), sent' = RecordSent(Session, m)
  PROVE  /\ sent'[Session]["current"] =
              IF m.kind = "current" THEN m.n ELSE sent[Session]["current"]
         /\ Silent'
<1>1. Session \in Peer /\ "current" \in Kind
  BY OtherPeer DEF Kind
<1>2. sent'[Session]["current"] =
        IF m.kind = "current" THEN m.n ELSE sent[Session]["current"]
  BY <1>1, PublicationSays
<1>3. m.kind = "current" => "current" \in Publishes[Session]
  <2>1. m = NoMessage \/ \E k \in Sequenced : m.kind = k /\ k \in Publishes[Session]
    BY DEF Publications, Publication
  <2> QED BY <2>1 DEF NoMessage
<1>4. Silent'
  BY <1>2, <1>3 DEF Silent
<1> QED BY <1>2, <1>4

(* The Session publishes.                                                  *)
LEMMA PublishValue ==
  ASSUME TypeOK, TypeOK', HandoverInvariant, ReliableInvariant, ValueInvariant,
         NEW k \in Sequenced, Publish(Session, k)
  PROVE  ValueInvariant'
<1>1. Session \in Peer /\ Client \in Peer /\ Other(Session) = Client /\ Client # Session
  BY OtherPeer
<1>2. PICK m \in Publication(Session, k) : Publish(Session, k)!(m)
  BY DEF Publish
<1>3. m \in Publications(Session) /\ m \in Message
  <2>1. m \in Publications(Session)
    BY DEF Publications
  <2> QED BY <1>1, <2>1, PublicationTypes
<1>4. /\ phase[Session] = "current" /\ sent' = RecordSent(Session, m)
      /\ lease[Session] = NoFrame /\ UNCHANGED <<lease, phase, wire, accepted>>
      /\ link'[Session] = PushLink(outbound[Session], link[Session], m)
      /\ outbound'[Session] = PushQueue(outbound[Session], link[Session], m)
      /\ link'[Client] = link[Client]
  BY <1>1, <1>2 DEF TypeOK, MayPush
<1> PICK q \in SUBSET Entry : q = outbound[Session]
  BY <1>1 DEF TypeOK
<1> PICK l \in Link : l = link[Session]
  BY <1>1 DEF TypeOK
<1>5. PICK t \in Nat : Carried(Session, t)
  BY <1>1 DEF ReliableInvariant, Moving, Carried
<1>6. Aloft(Session) \in SUBSET Fingerprint /\ Marked(q, l, t)
  BY <1>1, <1>4, <1>5, AloftBounds
<1> PICK F \in SUBSET Fingerprint : F = Aloft(Session)
  BY <1>6
<1>7. \A x \in F : x.seq <= t
  BY <1>1, <1>4, <1>5, LandedBounds
<1>8. l.generation # 0
  BY DEF HandoverInvariant, GenerationsAgree
<1>9. link'[Session].generation = link[Session].generation
  <2>1. PICK n : n = PushLink(q, l, m)
    OBVIOUS
  <2>2. n.generation = l.generation
    BY <1>3, <2>1, PushGrows
  <2> QED BY <1>4, <2>1, <2>2
<1>10. Aloft(Session)' = F
  BY <1>1, <1>4, <1>9 DEF Aloft, Flies
<1>11. Agree(q, F)
  BY <1>4 DEF ValueInvariant, Matches
<1>12. Matches'
  <2>1. Agree(PushQueue(q, l, m), F)
    BY <1>3, <1>6, <1>7, <1>8, <1>11, PushAgrees
  <2> QED BY <1>4, <1>10, <2>1 DEF Matches
<1>13. /\ sent'[Session]["current"] =
            IF m.kind = "current" THEN m.n ELSE sent[Session]["current"]
       /\ Silent'
  BY <1>3, <1>4, PublishedValue DEF ValueInvariant
<1>14. Latest'
  <2> SUFFICES ASSUME Target(Session)'
               PROVE  \/ accepted'[Client]["current"] = sent'[Session]["current"]
                      \/ Holds(outbound'[Session], link'[Client].applied,
                               sent'[Session]["current"])
    BY DEF Latest
  <2>1. Target(Session)
    BY <1>4, <1>9 DEF Target, SameGeneration
  <2>2. PICK a \in Nat : a = link[Client].applied
    <3>1. link[Client] \in Link
      BY <1>1 DEF TypeOK
    <3> QED BY <3>1, LinkNumbers
  <2>3. a <= t
    BY <1>1, <1>5, <2>1, <2>2 DEF Carried
  <2>4. /\ m.kind = "current" => Holds(PushQueue(q, l, m), a, m.n)
        /\ m.kind # "current" => q \subseteq PushQueue(q, l, m)
    BY <1>3, <1>6, <1>8, <2>3, PushHas
  <2>5. \/ accepted[Client]["current"] = sent[Session]["current"]
        \/ Holds(q, a, sent[Session]["current"])
    BY <1>4, <2>1, <2>2 DEF ValueInvariant, Latest
  <2>6. CASE m.kind = "current"
    BY <1>4, <1>13, <2>2, <2>4, <2>6
  <2>7. CASE m.kind # "current"
    <3>1. Holds(q, a, sent[Session]["current"]) =>
            Holds(PushQueue(q, l, m), a, sent[Session]["current"])
      BY <2>4, <2>7 DEF Holds
    <3> QED BY <1>4, <1>13, <2>2, <2>5, <2>7, <3>1
  <2> QED BY <2>6, <2>7
<1> QED BY <1>12, <1>13, <1>14 DEF ValueInvariant

(* The tab takes an operation of the Session.                              *)
LEMMA TakeValue ==
  ASSUME TypeOK, TypeOK', HandoverInvariant, ReliableInvariant, ValueInvariant,
         ReceiveNext(Client)
  PROVE  ValueInvariant'
<1> DEFINE f == Head(wire[Client])
<1>1. Session \in Peer /\ Client \in Peer /\ Other(Session) = Client
      /\ Other(Client) = Session /\ Client # Session /\ "current" \in Kind
      /\ "current" \in Sequenced
  BY OtherPeer DEF Kind, Sequenced
<1>2. /\ Arrives(Client) /\ f \in Frame /\ f.type = "data" /\ SameGeneration
      /\ f.seq = link[Client].applied + 1 /\ Welcome(Session, f.msg)
      /\ f.msg.kind \in Kind /\ f.msg.n \in Nat /\ f.msg \in Message
      /\ accepted[Client][f.msg.kind] < f.msg.n
      /\ \A k \in Kind : accepted'[Client][k] =
           IF k = f.msg.kind THEN f.msg.n ELSE accepted[Client][k]
      /\ link'[Session] = link[Session] /\ outbound'[Session] = outbound[Session]
      /\ wire'[Client] = Tail(wire[Client]) /\ UNCHANGED <<lease, phase>>
  BY ZenonT(60), <1>1, NextSays
<1>3. PICK m \in Publications(Client) : sent' = RecordSent(Client, m)
  BY <1>1, NextSays
<1>4. sent'[Session] = sent[Session]
  BY <1>1, <1>3, SentGrows
<1>5. link'[Client].applied = f.seq
  BY <1>1, NextSockets
<1>6. Silent'
  BY <1>4 DEF ValueInvariant, Silent
<1>7. wire[Client] # <<>>
  BY <1>2 DEF Arrives
<1>8. Aloft(Session)' \subseteq Aloft(Session)
  <2>1. \A i \in DOMAIN wire'[Client] :
          \E j \in DOMAIN wire[Client] : wire'[Client][i] = wire[Client][j]
    BY <1>1, <1>2, <1>7, HeadOf
  <2> QED BY <1>1, <1>2, <2>1 DEF Aloft, Flies
<1>9. Matches'
  BY <1>2, <1>8 DEF ValueInvariant, Matches, Agree
<1>10. Latest'
  <2> SUFFICES ASSUME phase'[Session] = "current"
               PROVE  \/ accepted'[Client]["current"] = sent'[Session]["current"]
                      \/ Holds(outbound'[Session], link'[Client].applied,
                               sent'[Session]["current"])
    BY DEF Latest
  <2>1. phase[Session] = "current" /\ Target(Session)
    BY <1>2 DEF Target
  <2>2. sent[Session]["current"] \in Nat /\ accepted[Client]["current"] \in Nat
    BY <1>1 DEF TypeOK
  <2>3. CASE accepted[Client]["current"] = sent[Session]["current"]
    <3>1. f.msg.kind = "current" => f.msg.n <= sent[Session]["current"]
      BY <1>1, <1>2 DEF Welcome
    <3>2. f.msg.kind # "current"
      BY <1>2, <2>2, <2>3, <3>1
    <3> QED BY <1>1, <1>2, <1>4, <2>3, <3>2
  <2>4. CASE Holds(outbound[Session], link[Client].applied, sent[Session]["current"])
    <3>1. PICK e \in outbound[Session] :
            /\ e.seq > link[Client].applied /\ e.msg.kind = "current"
            /\ e.msg.n = sent[Session]["current"]
      BY <2>4 DEF Holds
    <3>2. e.seq \in Nat /\ link[Client].applied \in Nat
      <4>1. outbound[Session] \in SUBSET Entry /\ link[Client] \in Link
        BY <1>1 DEF TypeOK
      <4> QED BY <4>1, LinkNumbers DEF Entry
    <3>3. CASE e.seq = f.seq
      <4> PICK x : x = [seq |-> f.seq, msg |-> f.msg]
        OBVIOUS
      <4>1. x.seq = f.seq /\ x.msg = f.msg /\ x \in Fingerprint
        BY <1>2 DEF Frame, Fingerprint
      <4>2. f = wire[Client][1] /\ 1 \in DOMAIN wire[Client]
            /\ f.generation = link[Session].generation
        BY <1>1, <1>2, ArrivesInGeneration DEF ReliableInvariant
      <4>3. Flies(Session, x.seq, x.msg)
        BY <1>1, <1>2, <4>1, <4>2 DEF Flies
      <4>4. x \in Aloft(Session)
        BY <4>1, <4>3 DEF Aloft
      <4>5. e.msg = f.msg
        BY <2>1, <3>3, <4>1, <4>4 DEF ValueInvariant, Matches, Agree
      <4> QED BY <1>1, <1>2, <1>4, <3>1, <4>5
    <3>4. CASE e.seq # f.seq
      <4>1. e.seq > link'[Client].applied
        BY <1>2, <1>5, <3>1, <3>2, <3>4
      <4> QED BY <1>2, <1>4, <3>1, <4>1 DEF Holds
    <3> QED BY <3>3, <3>4
  <2> QED BY <2>1, <2>3, <2>4 DEF ValueInvariant, Latest
<1> QED BY <1>6, <1>9, <1>10 DEF ValueInvariant

(* The Session takes an operation of the tab, and publishes in the turn.   *)
LEMMA TurnValue ==
  ASSUME TypeOK, TypeOK', HandoverInvariant, UnacknowledgedIsQueued,
         ReliableInvariant, ValueInvariant, ReceiveNext(Session)
  PROVE  ValueInvariant'
<1>1. Session \in Peer /\ Client \in Peer /\ Other(Session) = Client /\ Client # Session
  BY OtherPeer
<1>2. PICK f \in Frame : f = Head(wire[Session])
  BY <1>1, NextSays
<1>3. /\ Arrives(Session) /\ f.type = "data" /\ f.msg \in Message /\ SameGeneration
      /\ accepted'[Client] = accepted[Client] /\ link'[Client] = link[Client]
      /\ wire'[Client] = wire[Client] /\ UNCHANGED <<lease, phase>>
  BY <1>1, <1>2, NextSays
<1>4. phase[Session] = "current" /\ Sockets
  BY <1>3 DEF Arrives, ReliableInvariant
<1>5. PICK m \in Publications(Session) :
        /\ {Reply(f.msg), m} # {NoMessage} => MayPush(Session)
        /\ outbound' = [outbound EXCEPT ![Session] = TurnQueue(Session, f, m)]
        /\ sent' = RecordSent(Session, m)
  BY <1>2 DEF ReceiveNext, TurnQueue
<1>6. outbound'[Session] = TurnQueue(Session, f, m) /\ m \in Message
  BY <1>1, <1>5, PublicationTypes DEF TypeOK
<1>7. PICK y \in Message : y = Reply(f.msg)
  BY <1>3, ConstantTypes DEF Reply, Message, Kind
<1>8. PICK t \in Nat : Carried(Session, t)
  BY <1>1 DEF ReliableInvariant, Moving, Carried
<1>9. PICK q \in SUBSET Entry : q = AcceptedQueue(Session, f)
  BY <1>1, ReplyTypes
<1>10. PICK l \in Link : l = AcceptedLink(Session, f)
  BY <1>1, ReplyTypes
<1>11. PICK h \in SUBSET Entry : h = RepliedQueue(Session, f)
  BY <1>1, ReplyTypes
<1>12. PICK k \in Link : k = RepliedLink(Session, f)
  BY <1>1, ReplyTypes
<1>13. /\ q \subseteq outbound[Session] /\ Marked(q, l, t) /\ Marked(h, k, t)
       /\ l.generation = link[Session].generation
       /\ k.generation = link[Session].generation
  BY <1>1, <1>2, <1>3, <1>4, <1>6, <1>8, <1>9, <1>10, <1>11, <1>12, TurnMarked
<1>14. l.generation # 0 /\ k.generation # 0
  BY <1>13 DEF HandoverInvariant, GenerationsAgree
<1>15. h = PushQueue(q, l, y) /\ outbound'[Session] = PushQueue(h, k, m)
  BY <1>6, <1>7, <1>9, <1>10, <1>11, <1>12 DEF RepliedQueue, TurnQueue
<1>16. PICK F \in SUBSET Fingerprint : F = Aloft(Session)
  BY DEF Aloft
<1>17. (y # NoMessage \/ m # NoMessage) => \A x \in F : x.seq <= t
  <2>1. (y # NoMessage \/ m # NoMessage) => lease[Session] = NoFrame
    BY <1>5, <1>7 DEF MayPush
  <2> QED BY <1>1, <1>8, <1>16, <2>1, LandedBounds
<1>18. Aloft(Session)' = F
  <2>1. link'[Session].generation = link[Session].generation
    BY <1>1, NextSockets
  <2> QED BY <1>1, <1>3, <1>16, <2>1 DEF Aloft, Flies
<1>19. Matches'
  <2>1. Agree(q, F)
    BY <1>4, <1>13, <1>16 DEF ValueInvariant, Matches, Agree
  <2>2. Agree(h, F)
    BY <1>13, <1>14, <1>15, <1>17, <2>1, PushAgrees
  <2>3. Agree(PushQueue(h, k, m), F)
    BY <1>6, <1>13, <1>14, <1>17, <2>2, PushAgrees
  <2> QED BY <1>15, <1>18, <2>3 DEF Matches
<1>20. /\ sent'[Session]["current"] =
            IF m.kind = "current" THEN m.n ELSE sent[Session]["current"]
       /\ Silent'
  BY <1>5, PublishedValue DEF ValueInvariant
<1>21. PICK a \in Nat : a = link[Client].applied
  BY <1>1, LinkNumbers DEF TypeOK
<1>22. a <= t /\ Target(Session)
  BY <1>1, <1>3, <1>8, <1>21 DEF Carried, Target
<1>23. Holds(outbound[Session], a, sent[Session]["current"]) =>
         Holds(h, a, sent[Session]["current"])
  <2>1. y.kind # "current"
    BY <1>7 DEF Reply, NoMessage
  <2>2. q \subseteq h
    BY <1>13, <1>14, <1>15, <1>22, <2>1, PushHas
  <2>3. \A e \in outbound[Session] : e.seq > a => e \in q
    <3>1. PICK b : b = AcceptPeerAck(link[Session], f.ack).peer_acknowledged
      OBVIOUS
    <3>2. b <= a /\ q = AcknowledgeThrough(outbound[Session], b)
      BY <1>1, <1>2, <1>3, <1>4, <1>8, <1>9, <1>21, <3>1, AckBelow DEF AcceptedQueue
    <3>3. b \in Nat /\ \A e \in outbound[Session] : e.seq \in Nat
      <4>1. link[Session] \in Link /\ f.ack \in Nat /\ outbound[Session] \in SUBSET Entry
        BY <1>1 DEF TypeOK, Frame
      <4>2. b \in Nat
        BY <3>1, <4>1 DEF AcceptPeerAck, Link
      <4> QED BY <4>1, <4>2 DEF Entry
    <3> QED BY <3>2, <3>3 DEF AcknowledgeThrough
  <2> QED BY <2>2, <2>3 DEF Holds
<1>24. Latest'
  <2>1. /\ m.kind = "current" => Holds(PushQueue(h, k, m), a, m.n)
        /\ m.kind # "current" => h \subseteq PushQueue(h, k, m)
    BY <1>6, <1>13, <1>14, <1>22, PushHas
  <2>2. \/ accepted[Client]["current"] = sent[Session]["current"]
        \/ Holds(h, a, sent[Session]["current"])
    BY <1>4, <1>21, <1>22, <1>23 DEF ValueInvariant, Latest
  <2>3. CASE m.kind = "current"
    BY <1>3, <1>15, <1>20, <1>21, <2>1, <2>3 DEF Latest
  <2>4. CASE m.kind # "current"
    <3>1. Holds(h, a, sent[Session]["current"]) =>
            Holds(PushQueue(h, k, m), a, sent[Session]["current"])
      BY <2>1, <2>4 DEF Holds
    <3> QED BY <1>3, <1>15, <1>20, <1>21, <2>2, <2>4, <3>1 DEF Latest
  <2> QED BY <2>3, <2>4
<1> QED BY <1>19, <1>20, <1>24 DEF ValueInvariant

(* A resume: the Session publishes its value again.                        *)
LEMMA CommitValue ==
  ASSUME TypeOK, TypeOK', HandoverInvariant, ReliableInvariant, ValueInvariant,
         CommitResume
  PROVE  ValueInvariant'
<1>1. Session \in Peer /\ Client \in Peer /\ Other(Session) = Client
      /\ Client # Session /\ "current" \in Kind /\ "current" \in Sequenced
  BY OtherPeer DEF Kind, Sequenced
<1>2. PICK l \in Link :
        /\ RebindEndpoint(Session, l) /\ l.generation = offer.generation
        /\ l.next_send = offer.applied_server + 1
        /\ offer.generation > link[Client].generation
        /\ phase'[Client] = phase[Client]
        /\ phase[Client] = "connecting" =>
             /\ offer.applied_server = link[Client].applied
             /\ wire'[Client] = <<ReadyFrame(offer.generation, link[Session].applied)>>
        /\ phase[Client] # "connecting" => wire'[Client] = <<>>
        /\ accepted' = accepted
  BY CommitSays
<1>3. /\ lease'[Session] = NoFrame /\ link'[Client] = link[Client]
      /\ link'[Session].generation = offer.generation
      /\ outbound'[Session] = IF ForcesCurrent(Session)
                              THEN {NewEntry(l.next_send, CurrentMessage(Session))} ELSE {}
      /\ sent'[Session]["current"] = IF ForcesCurrent(Session)
                                     THEN sent[Session]["current"] + 1
                                     ELSE sent[Session]["current"]
  BY <1>1, <1>2, RebindSays
<1>4. Silent'
  BY <1>3 DEF ValueInvariant, Silent, ForcesCurrent
<1>5. \A i \in DOMAIN wire'[Client] : wire'[Client][i].type # "data"
  <2>1. CASE phase[Client] = "connecting"
    <3> PICK g : g = ReadyFrame(offer.generation, link[Session].applied)
      OBVIOUS
    <3>1. wire'[Client] = <<g>> /\ g.type = "ready"
      BY <1>2, <2>1 DEF ReadyFrame
    <3> QED BY <3>1
  <2>2. CASE phase[Client] # "connecting"
    <3>1. DOMAIN <<>> = {}
      OBVIOUS
    <3> QED BY <1>2, <2>2, <3>1
  <2> QED BY <2>1, <2>2
<1>6. Aloft(Session)' = {}
  <2>1. lease'[Session].type # "data"
    BY <1>3 DEF NoFrame
  <2> QED BY <1>1, <1>5, <2>1 DEF Aloft, Flies
<1>7. Matches'
  BY <1>6 DEF Matches, Agree
<1>8. Latest'
  <2> SUFFICES ASSUME Target(Session)'
               PROVE  \/ accepted'[Client]["current"] = sent'[Session]["current"]
                      \/ Holds(outbound'[Session], link'[Client].applied,
                               sent'[Session]["current"])
    BY DEF Latest
  <2>1. link[Client].generation \in Nat /\ link[Client].applied \in Nat
    BY <1>1, LinkNumbers DEF TypeOK
  <2>2. phase[Client] = "connecting" /\ offer.applied_server = link[Client].applied
    <3>1. ~ SameGeneration'
      BY <1>2, <1>3, <2>1 DEF SameGeneration
    <3>2. phase[Client] = "connecting"
      BY <1>2, <3>1 DEF Target
    <3> QED BY <1>2, <3>2
  <2>3. CASE ForcesCurrent(Session)
    <3> PICK e : e = NewEntry(l.next_send, CurrentMessage(Session))
      OBVIOUS
    <3>1. /\ e.seq = l.next_send /\ e.msg.kind = "current"
          /\ e.msg.n = sent[Session]["current"] + 1
      BY DEF NewEntry, CurrentMessage
    <3>2. e.seq > link[Client].applied
      BY <1>2, <2>1, <2>2, <3>1
    <3>3. e \in outbound'[Session]
      BY <1>3, <2>3
    <3> QED BY <1>3, <2>3, <3>1, <3>2, <3>3 DEF Holds
  <2>4. CASE ~ ForcesCurrent(Session)
    <3>1. sent[Session]["current"] = 0
      BY <2>4 DEF ValueInvariant, Silent, ForcesCurrent
    <3>2. accepted[Client]["current"] <= sent[Session]["current"]
      BY <1>1 DEF ReliableInvariant, Bounded
    <3>3. accepted[Client]["current"] \in Nat
      BY <1>1 DEF TypeOK
    <3>4. accepted[Client]["current"] = 0
      BY <3>1, <3>2, <3>3
    <3> QED BY <1>2, <1>3, <2>4, <3>1, <3>4
  <2> QED BY <2>3, <2>4
<1> QED BY <1>4, <1>7, <1>8 DEF ValueInvariant

(* The tab takes Ready: nothing of the Session changes.                    *)
LEMMA BindValue ==
  ASSUME TypeOK, TypeOK', HandoverInvariant, UnacknowledgedIsQueued, ValueInvariant,
         ClientBind
  PROVE  ValueInvariant'
<1>1. Session \in Peer /\ Client \in Peer /\ Other(Session) = Client /\ Client # Session
      /\ Session # Client
  BY OtherPeer
<1>2. PICK l \in Link :
        /\ RebindEndpoint(Client, l) /\ l.applied = link[Client].applied
        /\ phase[Client] = "connecting" /\ phase'[Session] = phase[Session]
        /\ wire[Client] # <<>> /\ wire'[Client] = Tail(wire[Client])
        /\ accepted' = accepted
  BY BindSays
<1>3. /\ link'[Session] = link[Session] /\ outbound'[Session] = outbound[Session]
      /\ lease'[Session] = lease[Session] /\ sent'[Session] = sent[Session]
      /\ base'[Session] = base[Session]
      /\ link'[Client].applied = link[Client].applied
  BY <1>1, <1>2, RebindSays
<1>4. \A i \in DOMAIN wire'[Client] :
        \E j \in DOMAIN wire[Client] : wire'[Client][i] = wire[Client][j]
  BY <1>1, <1>2, HeadOf
<1>5. Keeps(Session)
  BY <1>1, <1>2, <1>3, <1>4 DEF Keeps
<1>6. Target(Session) /\ Retains
  BY <1>2, <1>3 DEF Target, Retains
<1> QED BY <1>2, <1>3, <1>5, <1>6, QuietValue

(* The transport takes a leased frame.                                     *)
LEMMA TransmitValue ==
  ASSUME TypeOK, TypeOK', UnacknowledgedIsQueued, ReliableInvariant, ValueInvariant,
         NEW p \in Peer, TransmitLeased(p)
  PROVE  ValueInvariant'
<1>1. Session \in Peer /\ Client \in Peer /\ Other(Session) = Client
      /\ Other(Client) = Session /\ Client # Session
      /\ (p = Client \/ p = Session)
  BY OtherPeer
<1>2. /\ lease[p].type \in {"data", "ack"}
      /\ lease[p].type = "data" => IsQueued(outbound[p], lease[p].seq)
  BY LeaseQueued DEF ReliableInvariant, Sockets, TransmitLeased
<1>3. /\ SameNumbers(link[p], link'[p])
      /\ outbound'[p] = IF lease[p].type = "data"
                        THEN MarkSent(outbound[p], lease[p].seq, lease[p].generation)
                        ELSE outbound[p]
      /\ \A d \in Peer : d # p => link'[d] = link[d] /\ outbound'[d] = outbound[d]
      /\ wire'[p] = wire[p] /\ UNCHANGED <<phase, sent, accepted>>
      /\ wire'[Other(p)] = IF phase[Other(p)] \in {"connecting", "current"}
                           THEN Append(wire[Other(p)], lease[p]) ELSE wire[Other(p)]
  BY <1>2, TransmitSays
<1>4. Keeps(Session)
  BY <1>1, TransmitKeeps
<1>5. Retains
  <2>1. CASE p = Client
    <3>1. outbound'[Session] = outbound[Session]
      BY <1>1, <1>3, <2>1
    <3> QED BY <3>1 DEF Retains
  <2>2. CASE p = Session
    <3> SUFFICES ASSUME NEW e \in outbound[Session]
                 PROVE  \E y \in outbound'[Session] : y.seq = e.seq /\ y.msg = e.msg
      BY DEF Retains
    <3>1. CASE lease[p].type # "data"
      BY <1>3, <2>2, <3>1
    <3>2. CASE lease[p].type = "data"
      <4> DEFINE y == IF e.seq = lease[p].seq
                      THEN [e EXCEPT !.sent = lease[p].generation] ELSE e
      <4>1. e \in Entry
        BY <1>1 DEF TypeOK
      <4>2. y.seq = e.seq /\ y.msg = e.msg
        BY <4>1 DEF Entry
      <4>3. y \in outbound'[Session]
        BY <1>3, <2>2, <3>2 DEF MarkSent
      <4> HIDE DEF y
      <4> QED BY <4>2, <4>3
    <3> QED BY <3>1, <3>2
  <2> QED BY <1>1, <2>1, <2>2
<1>6. Target(Session)' => Target(Session)
  <2>1. SameGeneration' = SameGeneration
    <3>1. link'[p].generation = link[p].generation
      BY <1>3 DEF SameNumbers
    <3>2. \A d \in Peer : link'[d].generation = link[d].generation
      BY <1>3, <3>1
    <3> QED BY <1>1, <3>2 DEF SameGeneration
  <2>2. ASSUME phase[Client] = "connecting", wire'[Client] # <<>>, wire[Client] = <<>>,
               p = Session
        PROVE  FALSE
    <3>1. phase[Session] = "current"
      BY <2>2 DEF TransmitLeased
    <3> QED BY <2>2, <3>1 DEF ReliableInvariant, Sockets
  <2>3. p = Client => wire'[Client] = wire[Client]
    BY <1>3
  <2> QED BY <1>1, <1>3, <2>1, <2>2, <2>3 DEF Target
<1> QED BY <1>3, <1>4, <1>5, <1>6, QuietValue

(* A bare acknowledgement only covers what the tab has applied.            *)
LEMMA ControlValue ==
  ASSUME TypeOK, TypeOK', HandoverInvariant, UnacknowledgedIsQueued,
         ReliableInvariant, ValueInvariant, NEW p \in Peer, ReceiveControl(p)
  PROVE  ValueInvariant'
<1> DEFINE f == Head(wire[p])
<1>1. Session \in Peer /\ Client \in Peer /\ Other(Session) = Client
      /\ Client # Session /\ (p = Client \/ p = Session)
  BY OtherPeer
<1>2. Sockets /\ Arrives(p)
  BY DEF ReliableInvariant, ReceiveControl
<1>3. f.type = "ack" /\ f \in Frame /\ SameGeneration
  BY <1>2, ArrivesInGeneration DEF ReceiveControl
<1>4. /\ outbound' = [outbound EXCEPT ![p] =
           AcknowledgeThrough(@, AcceptPeerAck(link[p], f.ack).peer_acknowledged)]
      /\ UNCHANGED <<phase, sent, accepted>>
  BY <1>3 DEF ReceiveControl
<1>5. Keeps(Session)
  <2>1. FramesAreOld /\ GenerationsAgree
    BY <1>2, OldFrames
  <2> QED BY <1>1, <2>1, ReceptionKeeps
<1>6. Retains
  <2>1. CASE p = Client
    <3>1. outbound'[Session] = outbound[Session]
      BY <1>1, <1>4, <2>1 DEF TypeOK
    <3> QED BY <3>1 DEF Retains
  <2>2. CASE p = Session
    <3>1. PICK b : b = AcceptPeerAck(link[Session], f.ack).peer_acknowledged
      OBVIOUS
    <3>2. outbound'[Session] = AcknowledgeThrough(outbound[Session], b)
      BY <1>1, <1>4, <2>2, <3>1 DEF TypeOK
    <3>3. PICK t : Carried(Session, t)
      BY <1>1 DEF ReliableInvariant, Moving
    <3>4. b <= link[Client].applied
      BY <1>1, <1>2, <1>3, <2>2, <3>1, <3>3, AckBelow
    <3>5. b \in Nat /\ link[Client].applied \in Nat
          /\ \A e \in outbound[Session] : e.seq \in Nat
      <4>1. link[Session] \in Link /\ f.ack \in Nat /\ outbound[Session] \in SUBSET Entry
            /\ link[Client] \in Link
        BY <1>1, <1>3 DEF TypeOK, Frame
      <4>2. b \in Nat
        BY <3>1, <4>1 DEF AcceptPeerAck, Link
      <4> QED BY <4>1, <4>2, LinkNumbers DEF Entry
    <3> QED BY <3>2, <3>4, <3>5 DEF Retains, AcknowledgeThrough
  <2> QED BY <1>1, <2>1, <2>2
<1>7. Target(Session)
  BY <1>3 DEF Target
<1> QED BY <1>4, <1>5, <1>6, <1>7, QuietValue

(* A socket ends, or a resume begins.                                      *)
LEMMA LossValue ==
  ASSUME TypeOK, TypeOK', UnacknowledgedIsQueued, ValueInvariant,
         \/ ClientOverflow \/ ClientDisconnect \/ SessionDisconnect
         \/ BeginResume \/ DropOffer
  PROVE  ValueInvariant'
<1>1. Session \in Peer /\ Client \in Peer /\ Client # Session
  BY OtherPeer
<1>2. Keeps(Session)
  BY <1>1, LossKeeps
<1>3. link' = link /\ sent' = sent /\ accepted' = accepted
  BY DEF ClientOverflow, ClientDisconnect, SessionDisconnect, BeginResume, DropOffer,
         Terminate
<1>4. CASE ClientOverflow \/ ClientDisconnect
  <2>1. /\ outbound'[Session] = outbound[Session] /\ phase'[Session] = phase[Session]
        /\ phase'[Client] # "connecting"
    BY <1>1, <1>4 DEF ClientOverflow, ClientDisconnect, Terminate, TypeOK
  <2>2. Retains /\ (Target(Session)' => Target(Session))
    BY <1>3, <2>1 DEF Retains, Target, SameGeneration
  <2> QED BY <1>2, <1>3, <2>1, <2>2, QuietValue
<1>5. CASE SessionDisconnect \/ BeginResume
  <2>1. phase'[Session] = "stale"
    BY <1>1, <1>5 DEF SessionDisconnect, BeginResume, TypeOK
  <2> QED BY <1>2, <1>3, <2>1, QuietValue
<1>6. CASE DropOffer
  <2>1. outbound' = outbound /\ phase' = phase /\ wire' = wire
    BY <1>6 DEF DropOffer
  <2>2. Retains /\ (Target(Session)' => Target(Session))
    BY <1>3, <2>1 DEF Retains, Target, SameGeneration
  <2> QED BY <1>2, <1>3, <2>1, <2>2, QuietValue
<1> QED BY <1>4, <1>5, <1>6

(* The tab publishes, or an end leases a frame.                            *)
LEMMA LocalValue ==
  ASSUME TypeOK, TypeOK', UnacknowledgedIsQueued, ValueInvariant,
         \/ \E k \in Sequenced : Publish(Client, k)
         \/ \E p \in Peer : LeaseFrame(p)
  PROVE  ValueInvariant'
<1>1. Session \in Peer /\ Client \in Peer /\ Client # Session /\ Other(Session) = Client
  BY OtherPeer
<1>2. ASSUME NEW p \in Peer, LeaseFrame(p) PROVE ValueInvariant'
  <2>1. Keeps(Session)
    BY <1>1, <1>2, LeaseKeeps
  <2>2. UNCHANGED <<link, outbound, phase, wire, sent, accepted>>
    BY <1>2 DEF LeaseFrame
  <2>3. Retains /\ (Target(Session)' => Target(Session))
    BY <2>2 DEF Retains, Target, SameGeneration
  <2> QED BY <2>1, <2>2, <2>3, QuietValue
<1>3. ASSUME NEW k \in Sequenced, Publish(Client, k) PROVE ValueInvariant'
  <2>1. PICK m \in Publication(Client, k) : Publish(Client, k)!(m)
    BY <1>3 DEF Publish
  <2>2. m \in Publications(Client) /\ m \in Message
    <3>1. m \in Publications(Client)
      BY DEF Publications
    <3> QED BY <1>1, <3>1, PublicationTypes
  <2>3. /\ link'[Session] = link[Session] /\ outbound'[Session] = outbound[Session]
        /\ link'[Client] = PushLink(outbound[Client], link[Client], m)
        /\ sent' = RecordSent(Client, m)
        /\ UNCHANGED <<lease, phase, wire, accepted, base>>
    BY <1>1, <2>1 DEF TypeOK
  <2>4. sent'[Session] = sent[Session]
    BY <1>1, <2>2, <2>3, SentGrows
  <2>5. link'[Client].applied = link[Client].applied
        /\ link'[Client].generation = link[Client].generation
    <3>1. outbound[Client] \in SUBSET Entry /\ link[Client] \in Link
      BY <1>1 DEF TypeOK
    <3> QED BY <2>2, <2>3, <3>1, PushGrows
  <2>6. Keeps(Session)
    BY <1>1, <2>3, <2>4, <2>5 DEF Keeps
  <2>7. Retains /\ (Target(Session)' => Target(Session))
    BY <2>3, <2>5 DEF Retains, Target, SameGeneration
  <2> QED BY <2>3, <2>4, <2>6, <2>7, QuietValue
<1> QED BY <1>2, <1>3

(* At first the value is queued, when the Session has one.                 *)
LEMMA ValueInit == Init => ValueInvariant
<1> SUFFICES ASSUME Init PROVE ValueInvariant
  OBVIOUS
<1>1. /\ Client \in Peer /\ Session \in Peer /\ Client # Session
      /\ Other(Session) = Client /\ "current" \in Kind
  BY OtherPeer DEF Kind
<1>2. /\ lease[Session] = NoFrame /\ wire[Client] = <<ReadyFrame(1, 0)>>
      /\ accepted[Client]["current"] = 0 /\ link[Client] = NoLink
      /\ sent[Session]["current"] = IF "current" \in Publishes[Session] THEN 1 ELSE 0
  BY <1>1 DEF Init
<1> DEFINE m == [kind |-> "current", n |-> 1]
<1>3. "current" \in Publishes[Session] => outbound[Session] = PushQueue({}, NewLink(1), m)
  BY <1>1 DEF Init
<1>4. "current" \in Publishes[Session] => outbound[Session] = {NewEntry(1, m)}
  <2>1. m # NoMessage /\ Replaced({}, m) = {} /\ NewLink(1).next_send = 1
    BY DEF NoMessage, Replaced, NewLink
  <2> QED BY <1>3, <2>1 DEF PushQueue
<1>5. NewEntry(1, m).seq = 1 /\ NewEntry(1, m).msg = m /\ m.kind = "current" /\ m.n = 1
  BY DEF NewEntry
<1> HIDE DEF m
<1>6. Silent
  BY <1>2 DEF Silent
<1>7. Aloft(Session) = {}
  <2>1. lease[Session].type # "data"
    BY <1>2 DEF NoFrame
  <2>2. \A i \in DOMAIN wire[Client] : wire[Client][i].type # "data"
    <3> PICK g : g = ReadyFrame(1, 0)
      OBVIOUS
    <3>1. wire[Client] = <<g>> /\ g.type = "ready"
      BY <1>2 DEF ReadyFrame
    <3> QED BY <3>1
  <2> QED BY <1>1, <2>1, <2>2 DEF Aloft, Flies
<1>8. Matches
  BY <1>7 DEF Matches, Agree
<1>9. Latest
  <2>1. CASE "current" \notin Publishes[Session]
    BY <1>2, <2>1 DEF Latest
  <2>2. CASE "current" \in Publishes[Session]
    <3>1. link[Client].applied = 0
      BY <1>2 DEF NoLink, NewLink
    <3>2. NewEntry(1, m) \in outbound[Session]
      BY <1>4, <2>2
    <3>3. Holds(outbound[Session], 0, 1)
      BY <1>5, <3>2 DEF Holds
    <3> QED BY <1>2, <2>2, <3>1, <3>3 DEF Latest
  <2> QED BY <2>1, <2>2
<1> QED BY <1>6, <1>8, <1>9 DEF ValueInvariant

(* Every step keeps it.                                                    *)
LEMMA ValueStep ==
  ASSUME TransportInvariant, ReliableInvariant, ValueInvariant, [Next]_vars, ~ Reload,
         \A p \in Peer : ~ LoseFrame(p) /\ ~ RepeatFrame(p)
  PROVE  ValueInvariant'
<1>1. TypeOK /\ TypeOK' /\ HandoverInvariant /\ UnacknowledgedIsQueued
  BY TypeStep DEF TransportInvariant
<1>2. \A p \in Peer : p = Client \/ p = Session
  BY OtherPeer
<1>3. ASSUME NEW p \in Peer PROVE ~ ReceiveRefused(p) /\ ~ ReceiveOutOfOrder(p)
  <2>1. ReceiveRefused(p) => Arrives(p) /\ Refuses(p, Head(wire[p]))
    BY DEF ReceiveRefused
  <2>2. ReceiveOutOfOrder(p) => Arrives(p)
    BY DEF ReceiveOutOfOrder
  <2> QED BY <1>1, <2>1, <2>2, NothingRefused
<1>4. ASSUME NEW p \in Peer, NEW k \in Sequenced, Publish(p, k) PROVE ValueInvariant'
  BY <1>1, <1>2, <1>4, PublishValue, LocalValue
<1>5. ASSUME NEW p \in Peer, LeaseFrame(p) PROVE ValueInvariant'
  BY <1>1, <1>5, LocalValue
<1>6. ASSUME NEW p \in Peer, TransmitLeased(p) PROVE ValueInvariant'
  BY <1>1, <1>6, TransmitValue
<1>7. ASSUME NEW p \in Peer, ReceiveNext(p) PROVE ValueInvariant'
  BY <1>1, <1>2, <1>7, TakeValue, TurnValue
<1>8. ASSUME NEW p \in Peer, ReceiveControl(p) PROVE ValueInvariant'
  BY <1>1, <1>8, ControlValue
<1>9. (ClientOverflow \/ ClientDisconnect \/ SessionDisconnect \/ BeginResume \/ DropOffer)
        => ValueInvariant'
  BY <1>1, LossValue
<1>10. (CommitResume \/ ClientBind) => ValueInvariant'
  BY <1>1, CommitValue, BindValue
<1>11. CASE UNCHANGED vars
  <2>1. UNCHANGED <<link, outbound, lease, phase, wire, sent, accepted>>
    BY <1>11 DEF vars
  <2>2. Aloft(Session)' = Aloft(Session)
    BY <2>1 DEF Aloft, Flies
  <2> QED BY <2>1, <2>2
          DEF ValueInvariant, Matches, Latest, Silent, Target, SameGeneration
<1> QED BY <1>3, <1>4, <1>5, <1>6, <1>7, <1>8, <1>9, <1>10, <1>11 DEF Next, Receive

(* On a transport without faults and reloads an idle tab holds the last    *)
(* value the Session exported: a value that replaced an unsent one, that   *)
(* was pushed between a lease and its send, or that was published again by *)
(* a resume, is never the one that gets lost.                              *)
THEOREM SessionValueAlwaysConverges ==
  ASSUME MaxFaults = 0, MaxReloads = 0
  PROVE  Spec => []SessionValueConverges
<1> DEFINE Inv == Faultless /\ ValueInvariant
<1>1. Init => Inv
  BY FaultlessInductive, ValueInit
<1>2. Inv /\ [Next]_vars => Inv'
  <2> SUFFICES ASSUME Inv, [Next]_vars PROVE Inv'
    OBVIOUS
  <2>1. faults \in 0 .. 0 /\ reloads \in 0 .. 0
    BY DEF Faultless, TransportInvariant, TypeOK
  <2>2. ~ Reload /\ \A p \in Peer : ~ LoseFrame(p) /\ ~ RepeatFrame(p)
    BY <2>1 DEF Reload, LoseFrame, RepeatFrame
  <2>3. ValueInvariant'
    BY <2>2, ValueStep DEF Faultless
  <2> QED BY <2>3, FaultlessInductive
<1>3. Inv => SessionValueConverges
  <2> SUFFICES ASSUME Inv, Quiescent(Session)
               PROVE  accepted[Client]["current"] = sent[Session]["current"]
    BY OtherPeer DEF SessionValueConverges, Converged
  <2>1. phase[Session] = "current" /\ Target(Session) /\ outbound[Session] = {}
    BY OtherPeer DEF Quiescent, Target
  <2> QED BY <2>1 DEF ValueInvariant, Latest, Holds
<1> QED BY <1>1, <1>2, <1>3, PTL DEF Spec
=============================================================================
