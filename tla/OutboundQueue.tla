--------------------------- MODULE OutboundQueue ---------------------------
(***************************************************************************)
(* OutboundClientSessionQueue of                                           *)
(* crates/boon_distributed_runtime/src/client_session.rs: the operations   *)
(* one end of a Client/Session transport has numbered and the other end    *)
(* has not acknowledged.  A queue is a set of entries; their order in the  *)
(* VecDeque is the order of their numbers.  An entry that was not handed   *)
(* to the socket of the current transport generation is unsent; a newer    *)
(* "current" message takes the place of one that was never sent.           *)
(*                                                                         *)
(* The byte limit (max_bytes) is not modelled: it is a second reason for   *)
(* the outcome of the message limit.                                       *)
(***************************************************************************)
EXTENDS ClientSessionLink, FiniteSets

CONSTANT MaxMessages      \* ClientSessionQueueLimits.max_messages

ASSUME MaxMessagesAssumption == MaxMessages \in Nat \ {0}

(* sent = 0 stands for sent_generation = None.                             *)
Entry == [seq : Nat, msg : Message, sent : Nat]
NewEntry(s, m) == [seq |-> s, msg |-> m, sent |-> 0]

(* DistributedMessage::replaces_pending for messages of one export edge.   *)
ReplacesPending(m, queued) == m.kind = "current" /\ queued.kind = "current"

(* The entry push finds searching from the newest: at most one.            *)
Replaced(q, m) ==
  LET unsent == {e \in q : e.sent = 0 /\ ReplacesPending(m, e.msg)}
  IN  {e \in unsent : \A x \in unsent : x.seq <= e.seq}

(* push: the queue and the link after message m was pushed.  The code      *)
(* pushes a list of messages; NoMessage stands for an empty one.           *)
PushQueue(q, l, m) ==
  IF m = NoMessage THEN q
  ELSE IF Replaced(q, m) # {}
  THEN (q \ Replaced(q, m)) \cup {[e EXCEPT !.msg = m] : e \in Replaced(q, m)}
  ELSE q \cup {NewEntry(l.next_send, m)}

PushLink(q, l, m) ==
  IF m = NoMessage \/ Replaced(q, m) # {} THEN l
  ELSE AllocateOperationSequence(l)

(* Without room push fails with QueueFull and changes nothing.             *)
HasRoom(q, m) ==
  m = NoMessage \/ Replaced(q, m) # {} \/ Cardinality(q) < MaxMessages

(* encode_next takes the oldest entry not sent in this generation.         *)
NextToSend(q, generation) ==
  LET unsent == {e \in q : e.sent # generation}
  IN  {e \in unsent : \A x \in unsent : e.seq <= x.seq}

HasSendable(q, generation) == \E e \in q : e.sent # generation

IsQueued(q, s) == \E e \in q : e.seq = s

(* A faulty variant: every entry is marked.                                *)
MarkAllSent(q, s, generation) == {[e EXCEPT !.sent = generation] : e \in q}

MarkSent(q, s, generation) ==
  {IF e.seq = s THEN [e EXCEPT !.sent = generation] ELSE e : e \in q}

(* A faulty variant: the last acknowledged operation is kept.              *)
AcknowledgeBefore(q, a) == {e \in q : e.seq >= a}

AcknowledgeThrough(q, a) == {e \in q : e.seq > a}

ResendValid(expected_next, last) ==
  expected_next # 0 /\ expected_next <= last + 1

ResendFrom(q, expected_next) ==
  {IF e.seq >= expected_next THEN [e EXCEPT !.sent = 0] ELSE e : e \in q}

(* The queue holds exactly the operations its link numbered and the peer   *)
(* did not acknowledge, each once.                                         *)
HoldsUnacknowledged(q, l) ==
  /\ {e.seq : e \in q} = l.peer_acknowledged + 1 .. LastSend(l)
  /\ \A e, x \in q : e.seq = x.seq => e = x

=============================================================================
