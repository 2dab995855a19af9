----------------------- MODULE ClientSessionTransport -----------------------
(***************************************************************************)
(* A browser tab (DistributedClientRuntime, client.rs) and its Session     *)
(* island (DistributedSessionRuntime, session.rs), joined by one socket at *)
(* a time.  The two runtimes number, queue, lease, send, classify and      *)
(* acknowledge operations; the socket carries frames in order.  Each end   *)
(* notices the end of a socket in its own time, and the tab resumes its    *)
(* Session on a new socket, in a new transport generation.                 *)
(*                                                                         *)
(* One value export, one event export and one call site per direction      *)
(* stand for all of them: the endpoint keeps its revisions per edge.       *)
(***************************************************************************)
EXTENDS OutboundQueue, Sequences

CONSTANTS
  Publishes,       \* Publishes[p]: the kinds of message peer p originates
  MaxInFlight,     \* frames a socket buffers for a reader that is behind
  MaxPublish,      \* bound: publications of one kind by one peer
  MaxGeneration,   \* bound: transport generations of the Session
  MaxFaults,       \* bound: frames the transport loses or repeats
  MaxReloads       \* bound: page reloads, which lose the Client runtime

Client == "client"
Session == "session"
Peer == {Client, Session}
Other(p) == IF p = Client THEN Session ELSE Client

Sequenced == {"current", "event", "request"}

ASSUME PublishesAssumption == Publishes \in [Peer -> SUBSET Sequenced]
ASSUME BoundAssumption ==
  /\ MaxInFlight \in Nat \ {0}
  /\ MaxPublish \in Nat
  /\ MaxGeneration \in Nat \ {0}
  /\ MaxFaults \in Nat
  /\ MaxReloads \in Nat

VARIABLES
  link,      \* link[p]: the ClientSessionLink of peer p
  outbound,  \* outbound[p]: its outbound queue
  lease,     \* lease[p]: the frame handed to the host and not acknowledged
  phase,     \* phase[p]: see Phase
  wire,      \* wire[p]: frames on their way to p, oldest first
  offer,     \* the resume handshake the server has pending for the Session
  sent,      \* sent[p][k]: last revision of kind k that p published
  accepted,  \* accepted[p][k]: last revision of kind k that p accepted
  pending,   \* pending[p]: requests of p whose result route is registered
  base,      \* history: events p had published when its generation began
  faults,    \* number of frames lost or repeated so far
  reloads    \* number of page reloads so far

vars == <<link, outbound, lease, phase, wire, offer, sent, accepted, pending,
          base, faults, reloads>>

(* "connecting": the tab has a socket and waits for Ready.  "failed": the  *)
(* runtime refused a frame; the server removes the Session's slot, the     *)
(* browser host stops reconnecting.  "overflow": the Client had no room    *)
(* for a reply, which its host treats in the same way.                     *)
Phase == {"stale", "connecting", "current", "failed", "overflow"}

NoOffer == [generation |-> 0, applied_server |-> 0]

ReadyFrame(generation, applied_client) ==
  [type |-> "ready", generation |-> generation, seq |-> 0,
   ack |-> applied_client, msg |-> NoMessage]

(* A faulty variant: the revision of the last publication is used again.   *)
SameCurrentMessage(p) == [kind |-> "current", n |-> sent[p]["current"]]

CurrentMessage(p) == [kind |-> "current", n |-> sent[p]["current"] + 1]

(* prepare_context_rebind publishes the value export again, with a new     *)
(* revision, on the emptied queue of a rebound link.                       *)
ForcesCurrent(p) == "current" \in Publishes[p]

RebindEndpoint(p, l) ==
  /\ link' = [link EXCEPT ![p] =
       IF ForcesCurrent(p) THEN PushLink({}, l, CurrentMessage(p)) ELSE l]
  /\ outbound' = [outbound EXCEPT ![p] =
       IF ForcesCurrent(p) THEN PushQueue({}, l, CurrentMessage(p))
                           ELSE {}]
  /\ sent' = IF ForcesCurrent(p)
             THEN [sent EXCEPT ![p]["current"] = @ + 1] ELSE sent
  /\ pending' = [pending EXCEPT ![p] = {}]
  /\ base' = [base EXCEPT ![p] = sent[p]["event"]]
  /\ lease' = [lease EXCEPT ![p] = NoFrame]

----------------------------------------------------------------------------
(* The server has instantiated the Session, generation 1, and its Ready is *)
(* on the socket; mark_current has published the value export.             *)

Init ==
  LET l == NewLink(1)
      m == [kind |-> "current", n |-> 1]
      publishes == "current" \in Publishes[Session]
  IN
  /\ link = [p \in Peer |->
       IF p = Client THEN NoLink
       ELSE IF publishes THEN PushLink({}, l, m) ELSE l]
  /\ outbound = [p \in Peer |->
       IF p = Session /\ publishes THEN PushQueue({}, l, m)
       ELSE {}]
  /\ lease = [p \in Peer |-> NoFrame]
  /\ phase = [p \in Peer |-> IF p = Client THEN "connecting" ELSE "current"]
  /\ wire = [p \in Peer |-> IF p = Client THEN <<ReadyFrame(1, 0)>> ELSE <<>>]
  /\ offer = NoOffer
  /\ sent = [p \in Peer |-> [k \in Kind |->
       IF p = Session /\ k = "current" /\ publishes THEN 1 ELSE 0]]
  /\ accepted = [p \in Peer |-> [k \in Kind |-> 0]]
  /\ pending = [p \in Peer |-> {}]
  /\ base = [p \in Peer |-> 0]
  /\ faults = 0
  /\ reloads = 0

----------------------------------------------------------------------------
(* Publication: a turn of p's program exports a value, emits an event or   *)
(* invokes a remote function (route_prepared_with_transport).  The Session *)
(* refuses to publish to its Client while a frame is leased; the Client    *)
(* has no such check.                                                      *)

(* A faulty variant: the Session publishes under a lease, as the Client.   *)
MayAlwaysPush(p) == TRUE

MayPush(p) == p = Session => lease[p] = NoFrame

(* The messages of kind k that p's program may publish next.               *)
Publication(p, k) ==
  {m \in {[kind |-> k, n |-> sent[p][k] + 1]} :
     k \in Publishes[p] /\ sent[p][k] < MaxPublish}

(* What a turn of p's program publishes: nothing, or one message.          *)
Publications(p) == {NoMessage} \cup UNION {Publication(p, k) : k \in Sequenced}

(* The protocol state of the endpoint after m was published: its revision, *)
(* and, of a request, the route its result will take.                      *)
RecordSent(p, m) ==
  IF m = NoMessage THEN sent ELSE [sent EXCEPT ![p][m.kind] = m.n]
Awaiting(m) == IF m.kind = "request" THEN {m.n} ELSE {}

Publish(p, k) ==
  \E m \in Publication(p, k) :
    /\ phase[p] = "current"
    /\ MayPush(p)
    /\ HasRoom(outbound[p], m)
    /\ link' = [link EXCEPT ![p] = PushLink(outbound[p], @, m)]
    /\ outbound' = [outbound EXCEPT ![p] = PushQueue(@, link[p], m)]
    /\ sent' = RecordSent(p, m)
    /\ pending' = [pending EXCEPT ![p] = @ \cup Awaiting(m)]
    /\ UNCHANGED <<lease, phase, wire, offer, accepted, base, faults, reloads>>

(* next_session_frame / next_client_frame: a pending resynchronisation     *)
(* goes first, then unsent operations, then a bare acknowledgement.        *)
LeaseFrame(p) ==
  LET l == link[p] IN
  /\ phase[p] = "current"
  /\ lease[p] = NoFrame
  /\ \/ /\ HasResyncPending(l)
        /\ lease' = [lease EXCEPT ![p] = EncodeResync(l)]
     \/ /\ ~ HasResyncPending(l)
        /\ \E e \in NextToSend(outbound[p], l.generation) :
             lease' = [lease EXCEPT ![p] = EncodeData(l, e.seq, e.msg)]
     \/ /\ ~ HasResyncPending(l)
        /\ ~ HasSendable(outbound[p], l.generation)
        /\ l.ack_pending
        /\ lease' = [lease EXCEPT ![p] = EncodeAck(l)]
  /\ UNCHANGED <<link, outbound, phase, wire, offer, sent, accepted, pending,
                 base, faults, reloads>>

(* The socket of p's generation still has a reader.                        *)
Carry(p, f) ==
  IF phase[Other(p)] \in {"connecting", "current"}
  THEN [wire EXCEPT ![Other(p)] = Append(@, f)]
  ELSE wire

(* acknowledge_session_frame / acknowledge_client_frame: the lease of an   *)
(* operation that is no longer queued is kept, whatever was sent.          *)
AcknowledgeLease(p, f) ==
  IF f.type = "data" /\ ~ IsQueued(outbound[p], f.seq)
  THEN UNCHANGED <<link, outbound, lease>>
  ELSE /\ lease' = [lease EXCEPT ![p] = NoFrame]
       /\ outbound' = IF f.type = "data"
                      THEN [outbound EXCEPT ![p] = MarkSent(@, f.seq, f.generation)]
                      ELSE outbound
       /\ link' = [link EXCEPT ![p] =
                     IF f.type = "resync" THEN AcknowledgeSentResync(@, f.seq)
                                          ELSE AcknowledgeSentAck(@, f.ack)]

(* The host hands the leased bytes to the socket and, when the socket took *)
(* them, acknowledges the lease in the same turn.  A send that fails (the  *)
(* socket's buffer is full) leaves everything as it was, so between        *)
(* LeaseFrame and TransmitLeased anything else may happen.                 *)
TransmitLeased(p) ==
  /\ phase[p] = "current"
  /\ lease[p] # NoFrame
  /\ Len(wire[Other(p)]) < MaxInFlight
  /\ wire' = Carry(p, lease[p])
  /\ AcknowledgeLease(p, lease[p])
  /\ UNCHANGED <<phase, offer, sent, accepted, pending, base, faults, reloads>>

----------------------------------------------------------------------------
(* Reception (accept_session_frame / poll_client_frame).                   *)

Arrives(p) == phase[p] = "current" /\ wire[p] # <<>>

(* prepare_accept of the endpoint, by kind of message.  A request or a     *)
(* result at or below the accepted sequence is compared with the recorded  *)
(* one: it is taken when it equals it and refused when it does not.        *)
AcceptsCurrent(p, m) == m.kind = "current" /\ m.n > accepted[p]["current"]
AcceptsEvent(p, m) == m.kind = "event" /\ m.n > accepted[p]["event"]
AcceptsRequest(p, m) == m.kind = "request" /\ m.n > 0
AcceptsResult(p, m) ==
  /\ m.kind = "result"
  /\ m.n <= sent[p]["request"]
  /\ m.n > accepted[p]["result"] => m.n \in pending[p]

EndpointAccepts(p, m) ==
  \/ AcceptsCurrent(p, m)
  \/ AcceptsEvent(p, m)
  \/ AcceptsRequest(p, m)
  \/ AcceptsResult(p, m)

EndpointRefuses(p, m) ==
  \/ ~ EndpointAccepts(p, m)
  \/ m.kind \in {"request", "result"} /\ m.n <= accepted[p][m.kind]

Greater(m, n) == IF m.n > n THEN m.n ELSE n

(* An invocation request is answered in the turn that takes it.            *)
Reply(m) ==
  IF m.kind = "request" THEN [kind |-> "result", n |-> m.n] ELSE NoMessage

(* The link and the queue once the frame f that p expects next is taken,   *)
(* and what route_prepared_with_transport pushes on them: the reply, then  *)
(* what the program's turn publishes.                                      *)
AcceptedLink(p, f) == AcceptNext(AcceptPeerAck(link[p], f.ack), f.seq, f.msg)
AcceptedQueue(p, f) ==
  AcknowledgeThrough(outbound[p], AcceptPeerAck(link[p], f.ack).peer_acknowledged)
RepliedLink(p, f) == PushLink(AcceptedQueue(p, f), AcceptedLink(p, f), Reply(f.msg))
RepliedQueue(p, f) == PushQueue(AcceptedQueue(p, f), AcceptedLink(p, f), Reply(f.msg))

CanRoute(p, f, m) ==
  /\ HasRoom(AcceptedQueue(p, f), Reply(f.msg))
  /\ HasRoom(RepliedQueue(p, f), m)

ExpectsNext(p, f) ==
  /\ f.type = "data"
  /\ IdentityValid(link[p], f)
  /\ PeerAckValid(link[p], f.ack)
  /\ IsNext(link[p], f.seq)
  /\ EndpointAccepts(p, f.msg)

(* The operation expected next: the endpoint takes the message, its        *)
(* program runs a turn, and the reply and the publications of the turn are *)
(* queued in the same step.  When the Session cannot queue them, the frame *)
(* stays at the head of its inbound queue and is tried again.              *)
ReceiveNext(p) ==
  LET f == Head(wire[p]) IN
  /\ Arrives(p)
  /\ ExpectsNext(p, f)
  /\ \E m \in Publications(p) :
       /\ {Reply(f.msg), m} # {NoMessage} => MayPush(p)
       /\ CanRoute(p, f, m)
       /\ link' = [link EXCEPT ![p] = PushLink(RepliedQueue(p, f), RepliedLink(p, f), m)]
       /\ outbound' = [outbound EXCEPT ![p] =
            PushQueue(RepliedQueue(p, f), RepliedLink(p, f), m)]
       /\ sent' = RecordSent(p, m)
       /\ pending' = [pending EXCEPT ![p] =
            (IF f.msg.kind = "result" THEN @ \ {f.msg.n} ELSE @) \cup Awaiting(m)]
  /\ accepted' = [accepted EXCEPT ![p][f.msg.kind] = Greater(f.msg, @)]
  /\ wire' = [wire EXCEPT ![p] = Tail(@)]
  /\ UNCHANGED <<lease, phase, offer, base, faults, reloads>>

(* An operation that was applied before, or one after a missing one.       *)
ReceiveOutOfOrder(p) ==
  LET f == Head(wire[p])
      l == AcceptPeerAck(link[p], f.ack)
  IN
  /\ Arrives(p)
  /\ f.type = "data"
  /\ IdentityValid(link[p], f) /\ PeerAckValid(link[p], f.ack)
  /\ \/ /\ IsDuplicate(link[p], f.seq, f.msg)
        /\ link' = [link EXCEPT ![p] = AcceptDuplicate(l)]
     \/ /\ IsGap(link[p], f.seq)
        /\ link' = [link EXCEPT ![p] = RequestResync(l)]
  /\ outbound' = [outbound EXCEPT ![p] = AcknowledgeThrough(@, l.peer_acknowledged)]
  /\ wire' = [wire EXCEPT ![p] = Tail(@)]
  /\ UNCHANGED <<lease, phase, offer, sent, accepted, pending, base, faults,
                 reloads>>

ReceiveControl(p) ==
  LET f == Head(wire[p]) IN
  /\ Arrives(p)
  /\ IdentityValid(link[p], f)
  /\ \/ /\ f.type = "ack"
        /\ PeerAckValid(link[p], f.ack)
        /\ link' = [link EXCEPT ![p] = AcceptPeerAck(@, f.ack)]
        /\ outbound' = [outbound EXCEPT ![p] =
             AcknowledgeThrough(@, AcceptPeerAck(link[p], f.ack).peer_acknowledged)]
     \/ /\ f.type = "resync"
        /\ ResendValid(f.seq, LastSend(link[p]))
        /\ outbound' = [outbound EXCEPT ![p] = ResendFrom(@, f.seq)]
        /\ UNCHANGED link
  /\ wire' = [wire EXCEPT ![p] = Tail(@)]
  /\ UNCHANGED <<lease, phase, offer, sent, accepted, pending, base, faults,
                 reloads>>

(* The runtime refuses the frame: the Session is poisoned and its slot     *)
(* removed, the Client's host aborts the socket for good.                  *)
Refuses(p, f) ==
  \/ ~ IdentityValid(link[p], f)
  \/ f.type \in {"data", "ack"} /\ ~ PeerAckValid(link[p], f.ack)
  \/ f.type = "data" /\ IsConflict(link[p], f.seq, f.msg)
  \/ f.type = "data" /\ IsNext(link[p], f.seq) /\ EndpointRefuses(p, f.msg)
  \/ f.type = "resync" /\ ~ ResendValid(f.seq, LastSend(link[p]))

Terminate(p, outcome) ==
  /\ phase' = [phase EXCEPT ![p] = outcome]
  /\ wire' = [wire EXCEPT ![p] = <<>>]
  /\ lease' = [lease EXCEPT ![p] = NoFrame]
  /\ outbound' = [outbound EXCEPT ![p] = {}]
  /\ offer' = IF p = Session THEN NoOffer ELSE offer
  /\ UNCHANGED <<link, sent, accepted, pending, base, faults, reloads>>

ReceiveRefused(p) ==
  /\ Arrives(p)
  /\ Refuses(p, Head(wire[p]))
  /\ Terminate(p, "failed")

(* The Client has no room for a reply or for what its program publishes in *)
(* answer to the frame.                                                    *)
ClientOverflow ==
  LET f == Head(wire[Client]) IN
  /\ Arrives(Client)
  /\ ExpectsNext(Client, f)
  /\ \E m \in Publications(Client) : ~ CanRoute(Client, f, m)
  /\ Terminate(Client, "overflow")

----------------------------------------------------------------------------
(* Sockets come and go.                                                    *)

(* bind: the Client runtime takes Ready, numbers its operations after the  *)
(* ones the Session has applied, and publishes its value export again.     *)
ClientBind ==
  LET f == Head(wire[Client])
      l == link[Client]
  IN
  /\ phase[Client] = "connecting"
  /\ wire[Client] # <<>>
  /\ f.type = "ready"
  /\ CanRebind(l, f.generation)
  /\ RebindEndpoint(Client,
       IF l.generation = 0
       THEN RebaseSendAfterHandshake(NewLink(f.generation), f.ack)
       ELSE Rebind(l, f.generation, f.ack))
  /\ phase' = [phase EXCEPT ![Client] = "current"]
  /\ wire' = [wire EXCEPT ![Client] = Tail(@)]
  /\ UNCHANGED <<offer, accepted, faults, reloads>>

(* A faulty variant: the leased frame outlives the socket.                 *)
ClientDisconnectLeased ==
  /\ phase[Client] \in {"connecting", "current"}
  /\ phase' = [phase EXCEPT ![Client] = "stale"]
  /\ outbound' = [outbound EXCEPT ![Client] = {}]
  /\ wire' = [wire EXCEPT ![Client] = <<>>]
  /\ UNCHANGED <<link, lease, offer, sent, accepted, pending, base, faults,
                 reloads>>

(* mark_stale of the Client: what it had queued is gone.                   *)
ClientDisconnect ==
  /\ phase[Client] \in {"connecting", "current"}
  /\ phase' = [phase EXCEPT ![Client] = "stale"]
  /\ outbound' = [outbound EXCEPT ![Client] = {}]
  /\ lease' = [lease EXCEPT ![Client] = NoFrame]
  /\ wire' = [wire EXCEPT ![Client] = <<>>]
  /\ UNCHANGED <<link, offer, sent, accepted, pending, base, faults, reloads>>

(* mark_stale of the Session: the inbound frames are gone, the outbound    *)
(* operations stay until the Session is rebound.                           *)
SessionDisconnect ==
  /\ phase[Session] = "current"
  /\ phase' = [phase EXCEPT ![Session] = "stale"]
  /\ lease' = [lease EXCEPT ![Session] = NoFrame]
  /\ wire' = [wire EXCEPT ![Session] = <<>>]
  /\ UNCHANGED <<link, outbound, offer, sent, accepted, pending, base, faults,
                 reloads>>

(* begin_resume: the tab's Hello carries what it has applied; the server   *)
(* offers the next generation.                                             *)
BeginResume ==
  /\ phase[Client] = "stale"
  /\ phase[Session] = "stale"
  /\ offer = NoOffer
  /\ link[Session].generation < MaxGeneration
  /\ offer' = [generation |-> link[Session].generation + 1,
               applied_server |-> link[Client].applied]
  /\ phase' = [phase EXCEPT ![Client] = "connecting"]
  /\ UNCHANGED <<link, outbound, lease, wire, sent, accepted, pending, base,
                 faults, reloads>>

(* commit_resume: rebind_client, and Ready goes out ahead of every frame   *)
(* of the new generation.                                                  *)
CommitResume ==
  /\ offer # NoOffer
  /\ phase[Session] = "stale"
  /\ CanRebind(link[Session], offer.generation)
  /\ RebindEndpoint(Session,
       Rebind(link[Session], offer.generation, offer.applied_server))
  /\ phase' = [phase EXCEPT ![Session] = "current"]
  /\ wire' = IF phase[Client] = "connecting"
             THEN [wire EXCEPT ![Client] =
                     <<ReadyFrame(offer.generation, link[Session].applied)>>]
             ELSE wire
  /\ offer' = NoOffer
  /\ UNCHANGED <<accepted, faults, reloads>>

(* The handshake's socket ends, or its deadline passes, before the commit. *)
DropOffer ==
  /\ offer # NoOffer
  /\ offer' = NoOffer
  /\ UNCHANGED <<link, outbound, lease, phase, wire, sent, accepted, pending,
                 base, faults, reloads>>

(* The page is loaded again: a new Client runtime starts, and finds the    *)
(* resume token of the old one in sessionStorage.                          *)
Reload ==
  /\ reloads < MaxReloads
  /\ phase[Client] \in {"connecting", "current", "stale"}
  /\ link[Client] # NoLink
  /\ reloads' = reloads + 1
  /\ link' = [link EXCEPT ![Client] = NoLink]
  /\ outbound' = [outbound EXCEPT ![Client] = {}]
  /\ lease' = [lease EXCEPT ![Client] = NoFrame]
  /\ phase' = [phase EXCEPT ![Client] = "stale"]
  /\ wire' = [wire EXCEPT ![Client] = <<>>]
  /\ sent' = [sent EXCEPT ![Client] = [k \in Kind |-> 0]]
  /\ accepted' = [accepted EXCEPT ![Client] = [k \in Kind |-> 0]]
  /\ pending' = [pending EXCEPT ![Client] = {}]
  /\ base' = [base EXCEPT ![Client] = 0]
  /\ UNCHANGED <<offer, faults>>

----------------------------------------------------------------------------
(* The transport loses a frame, or delivers one again behind the others.   *)

LoseFrame(p) ==
  /\ faults < MaxFaults
  /\ Arrives(p)
  /\ Head(wire[p]).type # "ready"
  /\ faults' = faults + 1
  /\ wire' = [wire EXCEPT ![p] = Tail(@)]
  /\ UNCHANGED <<link, outbound, lease, phase, offer, sent, accepted, pending,
                 base, reloads>>

RepeatFrame(p) ==
  /\ faults < MaxFaults
  /\ Arrives(p)
  /\ Head(wire[p]).type # "ready"
  /\ faults' = faults + 1
  /\ wire' = [wire EXCEPT ![p] = Append(@, Head(@))]
  /\ UNCHANGED <<link, outbound, lease, phase, offer, sent, accepted, pending,
                 base, reloads>>

----------------------------------------------------------------------------

Receive(p) ==
  \/ ReceiveNext(p)
  \/ ReceiveOutOfOrder(p)
  \/ ReceiveControl(p)
  \/ ReceiveRefused(p)

Next ==
  \/ \E p \in Peer :
       \/ \E k \in Sequenced : Publish(p, k)
       \/ LeaseFrame(p)
       \/ TransmitLeased(p)
       \/ Receive(p)
       \/ LoseFrame(p)
       \/ RepeatFrame(p)
  \/ ClientOverflow
  \/ ClientBind
  \/ ClientDisconnect
  \/ SessionDisconnect
  \/ BeginResume
  \/ CommitResume
  \/ DropOffer
  \/ Reload

Spec == Init /\ [][Next]_vars

----------------------------------------------------------------------------

(* Every component of the state keeps its type; in particular no link      *)
(* hands out the operation number 0, which the wire format reserves.       *)
TypeOK ==
  /\ link \in [Peer -> Link]
  /\ outbound \in [Peer -> SUBSET Entry]
  /\ lease \in [Peer -> Frame]
  /\ phase \in [Peer -> Phase]
  /\ wire \in [Peer -> Seq(Frame)]
  /\ offer \in [generation : Nat, applied_server : Nat]
  /\ sent \in [Peer -> [Kind -> Nat]]
  /\ accepted \in [Peer -> [Kind -> Nat]]
  /\ pending \in [Peer -> SUBSET Nat]
  /\ base \in [Peer -> Nat]
  /\ faults \in 0 .. MaxFaults
  /\ reloads \in 0 .. MaxReloads

SameGeneration == link[Client].generation = link[Session].generation

(* While both ends are in one transport generation, no end believes more   *)
(* of its operations applied than the other end has applied, and no end    *)
(* has applied an operation that was not numbered.  The numbers were       *)
(* handed over by the resume handshake, from snapshots that either end may *)
(* have outlived (link.rs rebind, begin_resume).                           *)
WatermarksAgree ==
  SameGeneration =>
    \A p \in Peer :
      /\ link[p].peer_acknowledged <= link[Other(p)].applied
      /\ link[Other(p)].applied <= LastSend(link[p])

(* A connected end still holds every operation it numbered and the other   *)
(* end did not acknowledge, each once: what Resync asks for can be resent. *)
UnacknowledgedIsQueued ==
  \A p \in Peer :
    phase[p] = "current" => HoldsUnacknowledged(outbound[p], link[p])

(* Why the watermarks agree, as an inductive invariant.  A frame that can  *)
(* still arrive in its sender's generation acknowledges no more, and       *)
(* numbers no more, than the sender has applied and numbered.              *)
FrameAgrees(f, l) ==
  (f.generation = l.generation /\ l.generation # 0) =>
    /\ f.type \in {"data", "ack"} => f.ack <= l.applied
    /\ f.type = "data" => f.seq <= LastSend(l)

FramesAgree ==
  \A p \in Peer :
    /\ \A i \in DOMAIN wire[p] : FrameAgrees(wire[p][i], link[Other(p)])
    /\ FrameAgrees(lease[p], link[p])
    /\ lease[p].type # "ready"

(* Nothing is on its way to an end that has no socket, nor to the Session  *)
(* while the tab waits for Ready.                                          *)
ClosedWiresAreEmpty ==
  /\ phase[Session] = "stale" => wire[Session] = <<>>
  /\ phase[Client] = "connecting" => wire[Session] = <<>>
  /\ phase[Client] \in {"stale", "failed", "overflow"} => wire[Client] = <<>>

(* The offer of a resume holds what the waiting tab has applied.           *)
OfferIsFresh ==
  offer # NoOffer =>
    /\ phase[Session] = "stale"
    /\ phase[Client] # "current"
    /\ wire[Client] = <<>>
    /\ offer.generation > link[Session].generation
    /\ phase[Client] = "connecting" => offer.applied_server = link[Client].applied

(* Ready holds what the Session has applied, and the Session has started   *)
(* from what the tab has applied.                                          *)
ReadyIsFresh ==
  (phase[Client] = "connecting" /\ wire[Client] # <<>>) =>
    LET f == Head(wire[Client]) IN
    f.type = "ready" =>
      /\ f.generation = link[Session].generation
      /\ f.ack = link[Session].applied
      /\ link[Session].peer_acknowledged = link[Client].applied

GenerationsAgree ==
  /\ link[Client].generation <= link[Session].generation
  /\ link[Session].generation # 0
  /\ link[Client].generation = 0 =>
       link[Client].applied = 0 /\ phase[Client] # "current"
  /\ \A p \in Peer : link[p].peer_acknowledged <= LastSend(link[p])

(* Every number handed over by a resume handshake is still the number it   *)
(* was taken from, whichever end lost its socket, its page or its          *)
(* handshake in between (begin_resume, commit_resume, bind).               *)
HandoverInvariant ==
  /\ GenerationsAgree
  /\ FramesAgree
  /\ ClosedWiresAreEmpty
  /\ OfferIsFresh
  /\ ReadyIsFresh
  /\ WatermarksAgree

(* On a transport that neither loses nor repeats frames no frame of the    *)
(* peer is ever refused, in whatever order the two ends notice the end of  *)
(* a socket and however the tab resumes.                                   *)
NeverFails == \A p \in Peer : phase[p] # "failed"

(* A leased operation is still queued, so acknowledging the send succeeds: *)
(* acknowledge_*_frame puts the lease back for ever when it is not.        *)
LeaseIsQueued ==
  \A p \in Peer : lease[p].type = "data" => IsQueued(outbound[p], lease[p].seq)

(* Nothing of what p published is under way or waiting to be sent.         *)
Quiescent(p) ==
  /\ SameGeneration
  /\ \A q \in Peer : phase[q] = "current"
  /\ outbound[p] = {}
  /\ wire[Other(p)] = <<>>

Converged(p) == Quiescent(p) => accepted[Other(p)]["current"] = sent[p]["current"]

(* When the transport is idle the Client holds the last value the Session  *)
(* exported, although values that were not sent were replaced by newer     *)
(* ones, frames were leased meanwhile and generations changed.             *)
SessionValueConverges == Converged(Session)

ClientEvents ==
  INSTANCE GenerationChannel WITH
    produced <- sent[Client]["event"], base <- base[Client],
    delivered <- accepted[Session]["event"]

SessionEvents ==
  INSTANCE GenerationChannel WITH
    produced <- sent[Session]["event"], base <- base[Session],
    delivered <- accepted[Client]["event"]

(* The events of each direction go through a GenerationChannel: in order,  *)
(* without a gap, at most once, and never into a later generation          *)
(* ("Events and call replies belong to the transport generation that       *)
(* produced them", message.rs).                                            *)
EventsKeepToTheirGeneration == ClientEvents!Spec /\ SessionEvents!Spec

(* The frame at the head of the Session's inbound queue, when the reply to *)
(* it, or what the turn it starts may publish, finds the outbound queue at *)
(* its limit.  The frame is put back and tried again, and the              *)
(* acknowledgement that would make room may be in the queue behind it.     *)
WaitsForRoom ==
  LET f == Head(wire[Session]) IN
  /\ Arrives(Session)
  /\ ExpectsNext(Session, f)
  /\ \E m \in Publications(Session) : ~ CanRoute(Session, f, m)

(* The hosts keep flushing and reading while the socket is open.  A frame  *)
(* the Client has no room for ends its socket; one that waits for room at  *)
(* the Session is tried again but need not be taken.                       *)
Fairness ==
  /\ \A p \in Peer : WF_vars(LeaseFrame(p)) /\ WF_vars(TransmitLeased(p))
  /\ WF_vars(Receive(Client) \/ ClientOverflow)
  /\ WF_vars(Receive(Session) /\ ~ WaitsForRoom)

FairSpec == Spec /\ Fairness

BothCurrent == SameGeneration /\ \A p \in Peer : phase[p] = "current"

(* As long as both ends stay connected, every event is delivered, with the *)
(* socket's buffer and the lease in the way, and the queues at their       *)
(* limit: the one thing that holds it up is a frame for which the Session  *)
(* has no room from some time on (session.rs:261).  Without it the event   *)
(* arrives however full the queues have been.                              *)
EventsAreDelivered ==
  \A p \in Peer : \A n \in 1 .. MaxPublish :
    (BothCurrent /\ base[p] < n /\ n <= sent[p]["event"]) ~>
      (~ BothCurrent \/ accepted[Other(p)]["event"] >= n \/ []WaitsForRoom)

(* As long as both ends stay connected, every call gets its result, or the *)
(* Session waits for ever for room for the answer to a frame.              *)
CallsAreAnswered ==
  \A p \in Peer : \A n \in 1 .. MaxPublish :
    (BothCurrent /\ n \in pending[p]) ~>
      (~ BothCurrent \/ n \notin pending[p] \/ []WaitsForRoom)

=============================================================================
