-------------------------- MODULE ClientSessionLink --------------------------
(***************************************************************************)
(* crates/boon_distributed_runtime/src/link.rs: the sequence-numbered link *)
(* one end of a Client/Session transport keeps.  A link is a record; every *)
(* method that takes &mut self is an operator from links to links, and the *)
(* conditions under which the method returns an error are operators of     *)
(* their own, so that the runtimes that call it can be written as actions. *)
(*                                                                         *)
(* Frames carry a message, or an acknowledgement, or a resynchronisation   *)
(* request.  A message is abstracted to its kind and its revision; the     *)
(* fingerprint of a message (SHA-256 of its encoding) is the message.      *)
(* Sequence numbers are u64 in the code and checked on increment; they are *)
(* unbounded here.                                                         *)
(***************************************************************************)
EXTENDS Naturals

CONSTANT ReplayWindow     \* RECEIVE_REPLAY_WINDOW, 256 in the code

ASSUME ReplayWindowAssumption == ReplayWindow \in Nat \ {0}

(* Kinds of message.  A "current" message carries the value of an export   *)
(* edge; "event", "request" (InvocationRequest) and "result"               *)
(* (InvocationResult) messages are transient.                              *)
Kind == {"current", "event", "request", "result"}

Message == [kind : Kind \cup {"none"}, n : Nat]
NoMessage == [kind |-> "none", n |-> 0]

Frame == [type : {"data", "ack", "resync", "ready", "none"},
          generation : Nat, seq : Nat, ack : Nat, msg : Message]
NoFrame ==
  [type |-> "none", generation |-> 0, seq |-> 0, ack |-> 0, msg |-> NoMessage]

(* applied stands for applied_receive_through, peer_acknowledged for       *)
(* peer_acknowledged_through, next_send for next_send_operation_sequence;  *)
(* resync = 0 stands for resync_expected_next = None.  generation = 0 is   *)
(* the link of a runtime that was never bound (Option::None in client.rs). *)
Fingerprint == [seq : Nat, msg : Message]

Link == [generation : Nat, next_send : Nat \ {0}, peer_acknowledged : Nat,
         applied : Nat, fingerprints : SUBSET Fingerprint,
         ack_pending : BOOLEAN, resync : Nat]

NewLink(generation) ==
  [generation        |-> generation,
   next_send         |-> 1,
   peer_acknowledged |-> 0,
   applied           |-> 0,
   fingerprints      |-> {},
   ack_pending       |-> FALSE,
   resync            |-> 0]

NoLink == NewLink(0)

LastSend(l) == l.next_send - 1

(* Faulty variants, for the mutation runs: the next number is the last one *)
(* the peer applied; the link keeps its own numbering.                     *)
RebaseSendOffByOne(l, peer_applied) ==
  [l EXCEPT !.next_send = peer_applied, !.peer_acknowledged = peer_applied]
RebaseSendKeepsNumbering(l, peer_applied) ==
  [l EXCEPT !.peer_acknowledged = peer_applied]

RebaseSendAfterHandshake(l, peer_applied) ==
  [l EXCEPT !.next_send = peer_applied + 1, !.peer_acknowledged = peer_applied]

CanRebind(l, generation) == generation > l.generation

Rebind(l, generation, peer_applied) ==
  [RebaseSendAfterHandshake(l, peer_applied) EXCEPT
     !.generation = generation,
     !.ack_pending = (l.applied # 0),
     !.resync = 0]

AllocateOperationSequence(l) == [l EXCEPT !.next_send = @ + 1]

EncodeData(l, s, m) ==
  [type |-> "data", generation |-> l.generation, seq |-> s, ack |-> l.applied,
   msg |-> m]
EncodeAck(l) ==
  [type |-> "ack", generation |-> l.generation, seq |-> 0, ack |-> l.applied,
   msg |-> NoMessage]
EncodeResync(l) ==
  [type |-> "resync", generation |-> l.generation, seq |-> l.resync, ack |-> 0,
   msg |-> NoMessage]

HasResyncPending(l) == l.resync # 0

(* decode_identity refuses a frame of any other generation.                *)
IdentityValid(l, f) == f.generation = l.generation

(* A faulty variant: a gap is not noticed.                                 *)
IsNextOrLater(l, s) == s > l.applied

IsNext(l, s) == s = l.applied + 1
IsGap(l, s) == s > l.applied + 1
IsDuplicate(l, s, m) ==
  /\ s <= l.applied
  /\ [seq |-> s, msg |-> m] \in l.fingerprints

(* classify_receive fails: the operation is outside the replay window, or  *)
(* its number was used for another message.                                *)
IsConflict(l, s, m) == s <= l.applied /\ ~ IsDuplicate(l, s, m)

AcceptNext(l, s, m) ==
  [l EXCEPT
     !.applied = s,
     !.fingerprints = {x \in @ : x.seq + ReplayWindow > s}
                        \cup {[seq |-> s, msg |-> m]},
     !.ack_pending = TRUE,
     !.resync = 0]

AcceptDuplicate(l) == [l EXCEPT !.ack_pending = TRUE]

RequestResync(l) == [l EXCEPT !.resync = l.applied + 1]

PeerAckValid(l, a) == a <= LastSend(l)

AcceptPeerAck(l, a) ==
  [l EXCEPT !.peer_acknowledged = IF a > @ THEN a ELSE @]

AcknowledgeSentAck(l, a) ==
  IF l.applied = a THEN [l EXCEPT !.ack_pending = FALSE] ELSE l

AcknowledgeSentResync(l, expected_next) ==
  IF l.resync = expected_next THEN [l EXCEPT !.resync = 0] ELSE l

=============================================================================
