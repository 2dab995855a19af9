--------------------------- MODULE SessionResume ---------------------------
(***************************************************************************)
(* How a browser tab gets its Session back.  The tab runs the handshake of *)
(* boon_web_host/src/distributed_session.rs over one socket at a time and  *)
(* keeps a journal of resume tokens in sessionStorage, which outlives the  *)
(* page.  The server keeps, in memory, the registry of                     *)
(* boon_server_runtime/src/distributed_sessions.rs: a slot per Session,    *)
(* found by the token offered last, and the handshakes under way.  Each    *)
(* end notices the end of a socket in its own time; pages reload and the   *)
(* server restarts at any point of a handshake.                            *)
(*                                                                         *)
(* A socket carries at most one offer, so the socket's number stands for   *)
(* the token offered on it and, when the offer is a fresh one, for the     *)
(* Session.  Deadlines are abstracted to "may have passed": a resume       *)
(* handshake never outlives its slot's deadline, because the slot's expiry *)
(* drops it.  Graph, schema and principal are the same for every tab.      *)
(***************************************************************************)
EXTENDS Naturals, Sequences, FiniteSets

CONSTANTS
  Tab,                   \* browser tabs
  MaxSessions,           \* DistributedSessionRegistryConfig.max_sessions
  MaxPendingHandshakes,  \* .max_pending_handshakes
  MaxInFlight,           \* bound: data frames on their way to a tab
  MaxSockets,            \* bound: sockets opened by all tabs
  MaxReloads,            \* bound: page loads after the first
  MaxRestarts,           \* bound: server restarts
  MaxRevokes,            \* bound: revocations requested
  MaxPressure            \* bound: registry operations failing with QueueFull

ASSUME ResumeAssumption ==
  /\ MaxSessions \in Nat \ {0}
  /\ MaxPendingHandshakes \in Nat \ {0}
  /\ MaxSockets \in Nat
  /\ {MaxInFlight, MaxReloads, MaxRestarts, MaxRevokes, MaxPressure} \subseteq Nat

Socket == 1 .. MaxSockets
None == 0

VARIABLES
  journal,   \* journal[t]: the resume tokens of tab t, in sessionStorage
  tab,       \* tab[t]: the handshake and the runtime of the page of t
  conn,      \* conn[s]: the server's transport phase of socket s
  toServer,  \* toServer[s]: control frames on their way to the server
  toTab,     \* toTab[s]: frames on their way to the tab
  handshakes,\* the server's pending handshakes
  slots,     \* the server's Session slots
  refused,   \* history: refused[t] holds the tokens the server refused to t
  spent      \* how much of each bound is used up

vars ==
  <<journal, tab, conn, toServer, toTab, handshakes, slots, refused, spent>>

(* "disconnected" stands for Idle and ReconnectRequired.  "rejected",      *)
(* "revoked" and "failed" are terminal: only a new page starts again.      *)
TabPhase == {"disconnected", "awaiting_offer", "awaiting_ready", "current",
             "awaiting_revoke", "rejected", "revoked", "failed"}
Attempt == {"pending", "current", "fresh"}

(* "cleaning" is Stale with cleanup Resume, "removing" with cleanup Remove. *)
SlotState == {"connected", "cleaning", "stale", "removing"}

Message == [type : {"hello", "commit", "revoke",
                    "offer", "ready", "reject", "revoked", "data", "close"},
            token : Nat, session : Nat, generation : Nat, applied : BOOLEAN]

Control(type, token, session, generation) ==
  [type |-> type, token |-> token, session |-> session,
   generation |-> generation, applied |-> FALSE]
Bare(type) == Control(type, None, None, 0)

NewPage == [phase |-> "disconnected", socket |-> None, attempt |-> "fresh",
            session |-> None, generation |-> 0, applied |-> FALSE]

NoJournal == [current |-> None, pending |-> None]

Init ==
  /\ journal = [t \in Tab |-> NoJournal]
  /\ tab = [t \in Tab |-> NewPage]
  /\ conn = [s \in Socket |-> "closed"]
  /\ toServer = [s \in Socket |-> <<>>]
  /\ toTab = [s \in Socket |-> <<>>]
  /\ handshakes = {}
  /\ slots = {}
  /\ refused = [t \in Tab |-> {}]
  /\ spent = [sockets |-> 0, reloads |-> 0, restarts |-> 0, revokes |-> 0,
              pressure |-> 0]

----------------------------------------------------------------------------
(* The token journal (ResumeTokenJournal).                                 *)

InitialAttempt(j) ==
  IF j.pending # None THEN "pending"
  ELSE IF j.current # None THEN "current" ELSE "fresh"

Token(j, attempt) ==
  CASE attempt = "pending" -> j.pending
    [] attempt = "current" -> j.current
    [] attempt = "fresh"   -> None

(* A faulty variant: the offered token replaces the one in use.            *)
InstallOnlyOffer(j, attempt, offered) == [current |-> None, pending |-> offered]

InstallOffer(j, attempt, offered) ==
  [current |-> CASE attempt = "pending" -> j.pending
                 [] attempt = "current" -> j.current
                 [] attempt = "fresh"   -> None,
   pending |-> offered]

(* reject: the journal that is left, and the next attempt, which is the    *)
(* last one when the refused attempt was a fresh one.                      *)
Reject(j, attempt) ==
  IF attempt = "pending" THEN [j EXCEPT !.pending = None] ELSE NoJournal

CollapseReady(j) == [current |-> j.pending, pending |-> None]

Hello(j, attempt, applied) ==
  [Control("hello", Token(j, attempt), None, 0) EXCEPT !.applied = applied]

----------------------------------------------------------------------------
(* Frames to an end that has left the socket are lost.                     *)

SendServer(s, m) ==
  IF conn[s] = "closed" THEN toServer ELSE [toServer EXCEPT ![s] = Append(@, m)]

SendTab(s, ms) ==
  IF \E t \in Tab : tab[t].socket = s
  THEN [toTab EXCEPT ![s] = @ \o ms] ELSE toTab

(* The tab has taken the first frame of its socket; Leave: it gives up the *)
(* socket and enters phase.                                                *)
Received(t) == [toTab EXCEPT ![tab[t].socket] = Tail(@)]
Leave(t, phase) ==
  /\ tab' = [tab EXCEPT ![t].phase = phase, ![t].socket = None]
  /\ toTab' = IF tab[t].socket = None THEN toTab
              ELSE [toTab EXCEPT ![tab[t].socket] = <<>>]

HasFrame(t, type) ==
  /\ tab[t].socket # None
  /\ toTab[tab[t].socket] # <<>>
  /\ Head(toTab[tab[t].socket]).type = type

----------------------------------------------------------------------------
(* The tab.                                                                *)

(* begin_connect and socket_opened: the handshake starts from the journal. *)
BeginConnect(t) ==
  LET s == spent.sockets + 1
      attempt == InitialAttempt(journal[t])
  IN
  /\ tab[t].phase = "disconnected"
  /\ s \in Socket
  /\ spent' = [spent EXCEPT !.sockets = s]
  /\ tab' = [tab EXCEPT ![t].phase = "awaiting_offer", ![t].socket = s,
                        ![t].attempt = attempt]
  /\ conn' = [conn EXCEPT ![s] = "hello"]
  /\ toServer' = [toServer EXCEPT ![s] =
                    <<Hello(journal[t], attempt, tab[t].applied)>>]
  /\ UNCHANGED <<journal, toTab, handshakes, slots, refused>>

(* The frames a phase takes; ServerReady has to repeat the offer's binding. *)
Takes(t, m) ==
  CASE tab[t].phase = "awaiting_offer"  -> m.type \in {"offer", "reject"}
    [] tab[t].phase = "awaiting_ready"  ->
         \/ m.type = "reject"
         \/ /\ m.type = "ready" /\ m.session = tab[t].session
            /\ m.generation = tab[t].generation
    [] tab[t].phase = "current"         -> m.type = "data"
    [] tab[t].phase = "awaiting_revoke" -> m.type = "revoked"
    [] OTHER                            -> FALSE

(* The offered token is journalled before ClientCommit goes out.           *)
ReceiveOffer(t) ==
  LET m == Head(toTab[tab[t].socket]) IN
  /\ tab[t].phase = "awaiting_offer"
  /\ HasFrame(t, "offer")
  /\ journal' = [journal EXCEPT ![t] = InstallOffer(@, tab[t].attempt, m.token)]
  /\ tab' = [tab EXCEPT ![t].phase = "awaiting_ready", ![t].session = m.session,
                        ![t].generation = m.generation]
  /\ toTab' = Received(t)
  /\ toServer' = SendServer(tab[t].socket,
                   Control("commit", None, m.session, m.generation))
  /\ UNCHANGED <<conn, handshakes, slots, refused, spent>>

ReceiveReady(t) ==
  /\ HasFrame(t, "ready")
  /\ Takes(t, Head(toTab[tab[t].socket]))
  /\ journal' = [journal EXCEPT ![t] = CollapseReady(@)]
  /\ tab' = [tab EXCEPT ![t].phase = "current"]
  /\ toTab' = Received(t)
  /\ UNCHANGED <<conn, toServer, handshakes, slots, refused, spent>>

(* retry_after_reject: the next attempt's Hello goes out on this socket,   *)
(* which the server has closed; the journal decides the next one's.        *)
ReceiveReject(t) ==
  LET attempt == tab[t].attempt
      left == Reject(journal[t], attempt)
      next == InitialAttempt(left)
  IN
  /\ tab[t].phase \in {"awaiting_offer", "awaiting_ready"}
  /\ HasFrame(t, "reject")
  /\ journal' = [journal EXCEPT ![t] = left]
  /\ refused' = [refused EXCEPT ![t] = @ \cup ({Token(journal[t], attempt)} \ {None})]
  /\ \/ /\ attempt = "fresh"
        /\ Leave(t, "rejected")
        /\ UNCHANGED toServer
     \/ /\ attempt # "fresh"
        /\ tab' = [tab EXCEPT ![t].phase = "awaiting_offer", ![t].attempt = next]
        /\ toTab' = Received(t)
        /\ toServer' = SendServer(tab[t].socket, Hello(left, next, tab[t].applied))
  /\ UNCHANGED <<conn, handshakes, slots, spent>>

(* accept_session_frame: the runtime has applied an operation.             *)
ReceiveData(t) ==
  /\ tab[t].phase = "current"
  /\ HasFrame(t, "data")
  /\ tab' = [tab EXCEPT ![t].applied = TRUE]
  /\ toTab' = Received(t)
  /\ UNCHANGED <<journal, conn, toServer, handshakes, slots, refused, spent>>

(* The handshake has failed, and the host aborts the socket.               *)
ReceiveUnexpected(t) ==
  /\ tab[t].socket # None /\ toTab[tab[t].socket] # <<>>
  /\ ~ HasFrame(t, "close")
  /\ ~ Takes(t, Head(toTab[tab[t].socket]))
  /\ Leave(t, "failed")
  /\ UNCHANGED <<journal, conn, toServer, handshakes, slots, refused, spent>>

Revoke(t) ==
  /\ tab[t].phase = "current"
  /\ spent.revokes < MaxRevokes
  /\ spent' = [spent EXCEPT !.revokes = @ + 1]
  /\ tab' = [tab EXCEPT ![t].phase = "awaiting_revoke"]
  /\ toServer' = SendServer(tab[t].socket, Bare("revoke"))
  /\ UNCHANGED <<journal, conn, toTab, handshakes, slots, refused>>

ReceiveRevoked(t) ==
  /\ tab[t].phase = "awaiting_revoke"
  /\ HasFrame(t, "revoked")
  /\ journal' = [journal EXCEPT ![t] = NoJournal]
  /\ Leave(t, "revoked")
  /\ UNCHANGED <<conn, toServer, handshakes, slots, refused, spent>>

(* finish_socket: the server closed the socket, or the network lost it.    *)
SocketDisconnected(t) ==
  /\ tab[t].socket # None
  /\ Leave(t, "disconnected")
  /\ UNCHANGED <<journal, conn, toServer, handshakes, slots, refused, spent>>

(* A new page of the same tab: only sessionStorage is left.                *)
Reload(t) ==
  /\ spent.reloads < MaxReloads
  /\ tab[t] # NewPage
  /\ spent' = [spent EXCEPT !.reloads = @ + 1]
  /\ tab' = [tab EXCEPT ![t] = NewPage]
  /\ toTab' = IF tab[t].socket = None THEN toTab
              ELSE [toTab EXCEPT ![tab[t].socket] = <<>>]
  /\ UNCHANGED <<journal, conn, toServer, handshakes, slots, refused>>

----------------------------------------------------------------------------
(* The server.                                                             *)

Take(s) == [toServer EXCEPT ![s] = Tail(@)]
HasControl(s, type) == toServer[s] # <<>> /\ Head(toServer[s]).type = type

(* The transport connection is dropped after a last frame or none; frames  *)
(* still to be read are lost.                                              *)
CloseTransport(s, last) ==
  /\ conn' = [conn EXCEPT ![s] = "closed"]
  /\ toServer' = [toServer EXCEPT ![s] = <<>>]
  /\ toTab' = IF conn[s] = "closed" THEN toTab
              ELSE SendTab(s, last \o <<Bare("close")>>)

Fresh == {h \in handshakes : h.fresh}

HasCapacity ==
  /\ Cardinality(handshakes) < MaxPendingHandshakes
  /\ Cardinality(slots) + Cardinality(Fresh) < MaxSessions

(* The slot a token resumes, if it does: it is indexed under the token,    *)
(* its cleanup is over, and no other handshake is resuming it.             *)
Resumable(token) ==
  {x \in slots :
     /\ x.token = token
     /\ x.state = "stale"
     /\ Cardinality(handshakes) < MaxPendingHandshakes
     /\ \A h \in handshakes : h.session # x.session}

Offer(s, session, generation, fresh) ==
  /\ handshakes' = handshakes \cup {[socket |-> s, session |-> session,
                                     generation |-> generation, fresh |-> fresh]}
  /\ conn' = [conn EXCEPT ![s] = "commit"]
  /\ toServer' = Take(s)
  /\ toTab' = SendTab(s, <<Control("offer", s, session, generation)>>)

CanStart(m) ==
  IF m.token = None THEN ~ m.applied /\ HasCapacity ELSE Resumable(m.token) # {}

BeginFresh(s) ==
  /\ conn[s] = "hello" /\ HasControl(s, "hello")
  /\ CanStart(Head(toServer[s]))
  /\ Head(toServer[s]).token = None
  /\ Offer(s, s, 1, TRUE)
  /\ UNCHANGED <<journal, tab, slots, refused, spent>>

BeginResume(s) ==
  /\ conn[s] = "hello" /\ HasControl(s, "hello")
  /\ Head(toServer[s]).token # None
  /\ \E x \in Resumable(Head(toServer[s]).token) :
       Offer(s, x.session, x.generation + 1, FALSE)
  /\ UNCHANGED <<journal, tab, slots, refused, spent>>

(* rejection: whatever the reason, the tab is told no more than "reject".  *)
RejectHello(s) ==
  /\ conn[s] = "hello" /\ HasControl(s, "hello")
  /\ ~ CanStart(Head(toServer[s]))
  /\ CloseTransport(s, <<Bare("reject")>>)
  /\ UNCHANGED <<journal, tab, handshakes, slots, refused, spent>>

Committing(s) == {h \in handshakes : h.socket = s}
Matches(s, h) ==
  Head(toServer[s]).session = h.session /\ Head(toServer[s]).generation = h.generation

CommitReady(s, h) ==
  /\ handshakes' = handshakes \ {h}
  /\ conn' = [conn EXCEPT ![s] = "current"]
  /\ toServer' = Take(s)
  /\ toTab' = SendTab(s, <<Control("ready", None, h.session, h.generation)>>)

Slot(h) == [session |-> h.session, token |-> h.socket, connection |-> h.socket,
            state |-> "connected", generation |-> h.generation]

CommitFresh(s) ==
  /\ conn[s] = "commit" /\ HasControl(s, "commit")
  /\ \E h \in Committing(s) :
       /\ h.fresh /\ Matches(s, h)
       /\ Cardinality(slots) < MaxSessions
       /\ slots' = slots \cup {Slot(h)}
       /\ CommitReady(s, h)
  /\ UNCHANGED <<journal, tab, refused, spent>>

(* The slot is rebound, indexed under the new token instead of the old.    *)
CommitResume(s) ==
  /\ conn[s] = "commit" /\ HasControl(s, "commit")
  /\ \E h \in Committing(s), x \in slots :
       /\ ~ h.fresh /\ Matches(s, h)
       /\ x.session = h.session /\ x.state = "stale"
       /\ slots' = (slots \ {x}) \cup {Slot(h)}
       /\ CommitReady(s, h)
  /\ UNCHANGED <<journal, tab, refused, spent>>

CanCommit(s) ==
  \E h \in Committing(s) :
    /\ Matches(s, h)
    /\ h.fresh => Cardinality(slots) < MaxSessions
    /\ ~ h.fresh => \E x \in slots : x.session = h.session /\ x.state = "stale"

(* QueueFull or QueueBytesFull from a queue the operation has to write.    *)
UnderPressure ==
  /\ spent.pressure < MaxPressure
  /\ spent' = [spent EXCEPT !.pressure = @ + 1]

(* What a commit that ran into QueueFull leaves: a resume changes nothing, *)
(* the new slot of a fresh Session is removed unless that fails as well.   *)
LeftBehind(s) ==
  {slots} \cup {slots \cup {[Slot(h) EXCEPT !.state = "removing", !.connection = None]} :
                 h \in Committing(s) \cap Fresh}
          \cup {slots \cup {Slot(h)} : h \in Committing(s) \cap Fresh}

(* A faulty variant: the tab is told nothing.                              *)
CommitFailsSilently(s) ==
  /\ conn[s] = "commit" /\ HasControl(s, "commit")
  /\ ~ CanCommit(s)
  /\ toServer' = Take(s)
  /\ UNCHANGED <<journal, tab, conn, toTab, handshakes, slots, refused, spent>>

(* The handshake timed out, or the registry cannot commit it: it is gone,  *)
(* and the connection is closed.                                           *)
CommitFails(s) ==
  /\ conn[s] = "commit" /\ HasControl(s, "commit")
  /\ \/ ~ CanCommit(s) /\ UNCHANGED <<slots, spent>>
     \/ CanCommit(s) /\ UnderPressure /\ slots' \in LeftBehind(s)
  /\ handshakes' = handshakes \ Committing(s)
  /\ CloseTransport(s, <<>>)
  /\ UNCHANGED <<journal, tab, refused>>

ExpireHandshake(h) ==
  /\ h \in handshakes
  /\ handshakes' = handshakes \ {h}
  /\ UNCHANGED <<journal, tab, conn, toServer, toTab, slots, refused, spent>>

Become(x, state) == (slots \ {x}) \cup {[x EXCEPT !.state = state, !.connection = None]}
WithoutResumeOf(x) == {h \in handshakes : h.session # x.session}
Connected(s) == {x \in slots : x.state = "connected" /\ x.connection = s}

(* disconnect: a pending handshake is dropped, a connected Session becomes *)
(* stale.  When a queue is full the cleanup is left to poll, or, when it   *)
(* could not even begin, the slot stays as it is and the error is recorded.*)
Disconnect(s) ==
  /\ handshakes' = handshakes \ Committing(s)
  /\ IF Connected(s) = {} THEN UNCHANGED <<slots, spent>>
     ELSE \E x \in Connected(s) :
            \/ slots' = Become(x, "stale") /\ UNCHANGED spent
            \/ slots' = Become(x, "cleaning") /\ UnderPressure
            \/ UNCHANGED slots /\ UnderPressure

(* A faulty variant: only the transport forgets the connection.            *)
ForgetConnection(s) ==
  /\ conn[s] # "closed"
  /\ CloseTransport(s, <<>>)
  /\ UNCHANGED <<journal, tab, handshakes, slots, refused, spent>>

(* The server notices that the tab has left, or gives up on a slow one.    *)
CloseConnection(s) ==
  /\ conn[s] # "closed"
  /\ CloseTransport(s, <<>>)
  /\ Disconnect(s)
  /\ UNCHANGED <<journal, tab, refused>>

(* A faulty variant: the revoked Session is left to its resume window.     *)
RevokeAsDisconnect(s) ==
  /\ conn[s] = "current" /\ HasControl(s, "revoke")
  /\ CloseTransport(s, <<Bare("revoked")>>)
  /\ Disconnect(s)
  /\ UNCHANGED <<journal, tab, refused>>

(* revoke: the slot is removed, now or, its cleanup begun, by poll.  When  *)
(* that fails the socket is closed as a broken one, which disconnects.     *)
RevokeSession(s) ==
  /\ conn[s] = "current" /\ HasControl(s, "revoke")
  /\ \E x \in Connected(s) :
       \/ /\ slots' = slots \ {x}
          /\ handshakes' = WithoutResumeOf(x)
          /\ CloseTransport(s, <<Bare("revoked")>>)
          /\ UNCHANGED spent
       \/ /\ slots' \in {slots} \cup
               {Become(x, state) : state \in {"removing", "cleaning", "stale"}}
          /\ handshakes' = handshakes
          /\ CloseTransport(s, <<>>)
          /\ UnderPressure
  /\ UNCHANGED <<journal, tab, refused>>

(* poll finds the Session's runtime poisoned, removes the slot and closes  *)
(* the socket if it is still there.                                        *)
Poison(x) ==
  /\ x \in slots /\ x.state = "connected"
  /\ CloseTransport(x.connection, <<>>)
  /\ \/ slots' = slots \ {x} /\ UNCHANGED spent
     \/ slots' \in {slots, Become(x, "removing")} /\ UnderPressure
  /\ UNCHANGED <<journal, tab, handshakes, refused>>

(* A faulty variant: data goes out before the handshake is committed.      *)
SendDataEarly(s) ==
  /\ conn[s] \in {"commit", "current"}
  /\ Len(toTab[s]) < MaxInFlight
  /\ toTab' = SendTab(s, <<Bare("data")>>)
  /\ UNCHANGED <<journal, tab, conn, toServer, handshakes, slots, refused, spent>>

SendData(s) ==
  /\ conn[s] = "current"
  /\ Len(toTab[s]) < MaxInFlight
  /\ toTab' = SendTab(s, <<Bare("data")>>)
  /\ UNCHANGED <<journal, tab, conn, toServer, handshakes, slots, refused, spent>>

(* A faulty variant: the handshake that resumes the Session survives it.   *)
ExpireKeepingHandshakes(x) ==
  /\ x \in slots /\ x.state = "stale"
  /\ slots' = Become(x, "removing")
  /\ UNCHANGED <<journal, tab, conn, toServer, toTab, handshakes, refused, spent>>

(* poll: a stale slot's resume window is over; a cleanup goes on.          *)
ExpireSession(x) ==
  /\ x \in slots /\ x.state = "stale"
  /\ slots' = Become(x, "removing")
  /\ handshakes' = WithoutResumeOf(x)
  /\ UNCHANGED <<journal, tab, conn, toServer, toTab, refused, spent>>

ContinueCleanup(x) ==
  /\ x \in slots
  /\ \/ x.state = "cleaning" /\ slots' = Become(x, "stale")
     \/ x.state = "removing" /\ slots' = slots \ {x}
  /\ UNCHANGED <<journal, tab, conn, toServer, toTab, handshakes, refused, spent>>

ServerRestart ==
  /\ spent.restarts < MaxRestarts
  /\ spent' = [spent EXCEPT !.restarts = @ + 1]
  /\ conn' = [s \in Socket |-> "closed"]
  /\ toServer' = [s \in Socket |-> <<>>]
  /\ toTab' = [s \in Socket |->
       IF conn[s] # "closed" THEN SendTab(s, <<Bare("close")>>)[s] ELSE toTab[s]]
  /\ handshakes' = {}
  /\ slots' = {}
  /\ UNCHANGED <<journal, tab, refused>>

----------------------------------------------------------------------------

TabReceives(t) ==
  \/ ReceiveOffer(t)
  \/ ReceiveReady(t)
  \/ ReceiveReject(t)
  \/ ReceiveData(t)
  \/ ReceiveUnexpected(t)
  \/ ReceiveRevoked(t)
  \/ HasFrame(t, "close") /\ SocketDisconnected(t)

ServerReceives(s) ==
  \/ BeginFresh(s)
  \/ BeginResume(s)
  \/ RejectHello(s)
  \/ CommitFresh(s)
  \/ CommitResume(s)
  \/ CommitFails(s)
  \/ RevokeSession(s)

Next ==
  \/ \E t \in Tab :
       \/ BeginConnect(t)
       \/ TabReceives(t)
       \/ SocketDisconnected(t)
       \/ Revoke(t)
       \/ Reload(t)
  \/ \E s \in Socket :
       \/ ServerReceives(s)
       \/ CloseConnection(s)
       \/ SendData(s)
  \/ \E h \in handshakes : ExpireHandshake(h)
  \/ \E x \in slots : Poison(x) \/ ExpireSession(x) \/ ContinueCleanup(x)
  \/ ServerRestart

Spec == Init /\ [][Next]_vars

(* The browser delivers what arrives on an open socket, and so does the    *)
(* server's host; the host learns at some time that the peer of a socket   *)
(* is gone; poll runs again as long as a slot has runnable work.  Nothing  *)
(* is assumed of reconnecting, of expiry or of the network.                *)
PeerIsGone(s) == \A t \in Tab : tab[t].socket # s

Fairness ==
  /\ \A t \in Tab : WF_vars(TabReceives(t))
  /\ \A s \in Socket : WF_vars(ServerReceives(s))
  /\ \A s \in Socket : WF_vars(PeerIsGone(s) /\ CloseConnection(s))
  /\ WF_vars(\E x \in slots : ContinueCleanup(x))

FairSpec == Spec /\ Fairness

----------------------------------------------------------------------------
(* Properties.                                                             *)

Handshake == [socket : Socket, session : Socket, generation : Nat, fresh : BOOLEAN]
SlotType == [session : Socket, token : Socket, connection : Socket \cup {None},
             state : SlotState, generation : Nat]

(* Types; a slot has a connection exactly when it is connected, and no two *)
(* slots share a Session, a token or a connection.                         *)
TypeOK ==
  /\ journal \in [Tab -> [current : Nat, pending : Nat]]
  /\ tab \in [Tab -> [phase : TabPhase, socket : Socket \cup {None},
                      attempt : Attempt, session : Nat, generation : Nat,
                      applied : BOOLEAN]]
  /\ conn \in [Socket -> {"closed", "hello", "commit", "current"}]
  /\ toServer \in [Socket -> Seq(Message)]
  /\ toTab \in [Socket -> Seq(Message)]
  /\ handshakes \subseteq Handshake
  /\ slots \subseteq SlotType
  /\ refused \in [Tab -> SUBSET Nat]
  /\ \A x \in slots : x.connection # None <=> x.state = "connected"
  /\ \A x, y \in slots :
       \/ x = y
       \/ x.session # y.session /\ x.token # y.token
          /\ (x.connection = None \/ x.connection # y.connection)

(* The token under which the server would give back a Session is always    *)
(* one its tab has in sessionStorage, whatever page loads, closes and      *)
(* timeouts happen during a handshake: the journal is written before       *)
(* ClientCommit and keeps the token in use beside the one on offer.  The   *)
(* exception is a token the tab gave up because the server refused it.     *)
TokenIsJournaled ==
  \A x \in slots :
    x.state # "removing" =>
      \E t \in Tab :
        x.token \in {journal[t].current, journal[t].pending} \cup refused[t]

(* A fresh offer is backed by a free slot until it is committed or dropped, *)
(* however many tabs shake hands at once: commit_fresh never meets its     *)
(* SessionCapacity error.                                                  *)
OffersAreHonoured ==
  Fresh # {} => Cardinality(slots) + Cardinality(Fresh) <= MaxSessions

(* A resume handshake under way always has its slot: stale, cleaned up,    *)
(* not taken by another handshake and one generation behind the offer.     *)
ResumeHasItsSlot ==
  \A h \in handshakes \ Fresh :
    /\ \E x \in slots : /\ x.session = h.session
                        /\ x.state = "stale"
                        /\ x.generation + 1 = h.generation
    /\ \A g \in handshakes : g.session = h.session => g = h

(* A tab that was told its Session is revoked can rely on it: the server   *)
(* has no slot of it, or only one that no token can bring back.            *)
RevokedIsGone ==
  \A t \in Tab : tab[t].phase = "revoked" =>
    \A x \in slots : x.session = tab[t].session => x.state = "removing"

(* While both ends of a socket consider it current, they agree on Session  *)
(* and generation, and the registry routes the Session to this socket.     *)
BindingAgrees ==
  \A t \in Tab :
    /\ tab[t].phase \in {"current", "awaiting_revoke"}
    /\ conn[tab[t].socket] = "current"
    => \E x \in slots : /\ x.connection = tab[t].socket
                       /\ x.session = tab[t].session
                       /\ x.generation = tab[t].generation

(* The registry keeps its books: slots are well formed, a resume has its   *)
(* slot, a fresh offer can be kept, and both ends of a current socket      *)
(* agree on what it is bound to, whichever sockets close, handshakes       *)
(* expire and Sessions are removed.                                        *)
RegistryInvariant ==
  TypeOK /\ ResumeHasItsSlot /\ OffersAreHonoured /\ BindingAgrees

(* No order of the two ends' steps sends a tab a frame its handshake does  *)
(* not expect, which would end it for good; the one exception is a data    *)
(* frame that was under way when the tab asked for revocation.             *)
OnlyRevocationFails ==
  [][\A t \in Tab :
       (tab'[t].phase = "failed" /\ tab[t].phase # "failed")
         => tab[t].phase = "awaiting_revoke"]_vars

(* A slot bound to a socket the transport knows no more: no event of the   *)
(* socket will ever give it up.                                            *)
Abandoned(s) == conn[s] = "closed" /\ Connected(s) # {}

(* Once a tab has left a socket, the Session bound to it does not stay     *)
(* connected: it becomes stale or is removed.  The one exception is the    *)
(* slot whose own disconnection, revocation, removal or commit met a full  *)
(* queue in the step that closed the socket (lib.rs:1934): the error is    *)
(* recorded and the slot abandoned; no other step abandons one.            *)
SlotsAreReclaimed ==
  /\ \A s \in Socket :
       (Connected(s) # {} /\ PeerIsGone(s)) ~> (Connected(s) = {} \/ Abandoned(s))
  /\ [][\A s \in Socket : ~ Abandoned(s) /\ Abandoned(s)' =>
          spent'.pressure > spent.pressure]_vars

(* A tab that has committed an offer does not wait for ServerReady for     *)
(* ever, even if the handshake timed out on the server.                    *)
HandshakeEnds ==
  \A t \in Tab : tab[t].phase = "awaiting_ready" ~> tab[t].phase # "awaiting_ready"

=============================================================================
