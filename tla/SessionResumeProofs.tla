------------------------ MODULE SessionResumeProofs ------------------------
(***************************************************************************)
(* Proofs about SessionResume, for any number of tabs, sockets, Sessions,  *)
(* reloads, restarts and failures: the registry keeps its books, the token *)
(* of a Session stays in its tab's journal, a revoked Session is gone, and *)
(* no frame but data after a revocation is ever unexpected.                *)
(*                                                                         *)
(* The argument follows the life of a socket (hello, commit, current,      *)
(* closed, never back) and of the two tokens in a journal: the one in use  *)
(* is not being offered any more, and the commit of the one on offer takes *)
(* its slot over.                                                          *)
(***************************************************************************)
EXTENDS SessionResume, FiniteSetTheorems, SequenceTheorems, TLAPS

----------------------------------------------------------------------------
(* The inductive invariant *)

Online == {"awaiting_offer", "awaiting_ready", "current", "awaiting_revoke"}
Used == {"current", "closed"}

\* Sockets are opened in order, and none is touched before.
SocketsSuit ==
  /\ spent \in [sockets : 0 .. MaxSockets, reloads : Nat, restarts : Nat,
                revokes : Nat, pressure : Nat]
  /\ \A s \in Socket : s > spent.sockets => conn[s] = "closed" /\ toTab[s] = <<>>
  /\ \A t \in Tab : tab[t].socket <= spent.sockets

\* A tab, its socket and its journal.
TabSuits(r, j) ==
  /\ r.socket # None <=> r.phase \in Online
  /\ r.phase = "awaiting_offer" => r.attempt = InitialAttempt(j)
  /\ r.phase = "awaiting_ready" => j.pending = r.socket
  /\ r.phase \in {"current", "awaiting_revoke"} => j.current = r.socket /\ j.pending = None
TabsSuit ==
  /\ \A t \in Tab : TabSuits(tab[t], journal[t])
  /\ \A t, u \in Tab : tab[t].socket = tab[u].socket /\ tab[t].socket # None => t = u

\* The frame q[i] of those on their way to a tab in state r.
Frame(r, q, i) ==
  \/ q[i].type = "close" /\ i = Len(q)
  \/ r.phase = "awaiting_offer" /\ i = 1 /\ q[i].type = "reject"
  \/ r.phase = "awaiting_offer" /\ i = 1 /\ q[i].type = "offer" /\ q[i].token = r.socket
  \/ /\ r.phase = "awaiting_ready" /\ i = 1 /\ q[i].type = "ready"
     /\ q[i].session = r.session /\ q[i].generation = r.generation
  \/ r.phase = "awaiting_ready" /\ i > 1 /\ q[1].type = "ready" /\ q[i].type = "data"
  \/ r.phase \in {"current", "awaiting_revoke"} /\ q[i].type = "data"
  \/ r.phase = "awaiting_revoke" /\ q[i].type = "revoked"
Frames(r, q) == \A i \in DOMAIN q : Frame(r, q, i)

\* The two ends of a socket: the tab in state r with frames q on their way to
\* it, the server in phase c with control frames w on their way.
Wire(r, q, c, w) ==
  /\ c = "hello" => r.phase = "awaiting_offer" /\ q = <<>>
  /\ c = "commit" =>
       \/ r.phase = "awaiting_offer" /\ w = <<>> /\ Len(q) = 1 /\ q[1].type = "offer"
       \/ /\ r.phase = "awaiting_ready" /\ q = <<>> /\ Len(w) = 1
          /\ w[1].session = r.session /\ w[1].generation = r.generation
  /\ c = "current" =>
       /\ r.phase # "awaiting_offer"
       /\ w # <<>> => r.phase = "awaiting_revoke"
       /\ r.phase = "awaiting_ready" => q # <<>> /\ q[1].type = "ready"
  /\ c # "closed" => \A i \in DOMAIN q : q[i].type # "close"
ControlSuits(c, w) ==
  /\ c = "closed" => w = <<>>
  /\ c = "hello" => Len(w) = 1
  /\ Len(w) <= 1
WiresSuit ==
  /\ \A s \in Socket : ControlSuits(conn[s], toServer[s])
  /\ \A t \in Tab : tab[t].socket # None =>
       /\ Frames(tab[t], toTab[tab[t].socket])
       /\ Wire(tab[t], toTab[tab[t].socket], conn[tab[t].socket], toServer[tab[t].socket])
       /\ conn[tab[t].socket] = "hello" =>
            toServer[tab[t].socket][1].token = Token(journal[t], tab[t].attempt)

\* A handshake under way has the connection that waits for its commit.
HandshakesSuit ==
  /\ IsFiniteSet(handshakes)
  /\ \A h \in handshakes : conn[h.socket] = "commit" /\ (h.fresh => h.session = h.socket)
  /\ \A g, h \in handshakes : g.socket = h.socket => g = h

\* A slot's token and Session were committed on their sockets.
SlotsSuit ==
  /\ IsFiniteSet(slots)
  /\ \A x \in slots :
       /\ conn[x.token] \in Used /\ x.token <= spent.sockets
       /\ conn[x.session] \in Used /\ x.session <= spent.sockets
       /\ x.connection \in {None, x.token}
  /\ Cardinality(slots) + Cardinality(Fresh) <= MaxSessions

\* A current connection is the one of the Session its tab was offered.
BindingsSuit ==
  \A t \in Tab : tab[t].socket # None /\ conn[tab[t].socket] = "current" =>
    \E x \in slots : /\ x.connection = tab[t].socket
                     /\ x.session = tab[t].session
                     /\ x.generation = tab[t].generation

\* Of the two tokens of a journal, the one in use is not on offer any more, and
\* a handshake for the other resumes the Session that the first one names.
JournalSuits(j, hs, xs) ==
  /\ \A h \in hs : h.socket # j.current
  /\ \A x, y \in xs : ~ (x.token = j.current /\ y.token = j.pending)
  /\ \A h \in hs, x \in xs :
       h.socket = j.pending /\ x.token = j.current => x.session = h.session
Known(n, opened, cs) == n = None \/ (n \in 1 .. opened /\ cs[n] # "hello")
JournalsSuit ==
  \A t \in Tab : /\ Known(journal[t].current, spent.sockets, conn)
                 /\ Known(journal[t].pending, spent.sockets, conn)
                 /\ JournalSuits(journal[t], handshakes, slots)

\* The same of an offer that a tab has yet to read, with r and j of the tab.
OfferSuits(r, j, hs, xs) ==
  /\ \A h \in hs : h.socket # Token(j, r.attempt)
  /\ r.attempt = "pending" => \A x \in xs : x.token # j.current
  /\ \A x \in xs : x.token # r.socket
  /\ \A h \in hs, x \in xs :
       h.socket = r.socket /\ x.token = Token(j, r.attempt) => x.session = h.session
FirstIs(q, type) == q # <<>> /\ q[1].type = type
OffersSuit ==
  \A t \in Tab : tab[t].socket # None /\ FirstIs(toTab[tab[t].socket], "offer") =>
    OfferSuits(tab[t], journal[t], handshakes, slots)

\* A commit has taken over the slot of the token in use.
ReadySuits ==
  \A t \in Tab : tab[t].socket # None /\ FirstIs(toTab[tab[t].socket], "ready") =>
    \A x \in slots : x.token # journal[t].current

Kept(n, js, rs) ==
  \E t \in Tab : n \in {js[t].current, js[t].pending} \cup rs[t]
TokensKept ==
  /\ \A x \in slots : x.state # "removing" => Kept(x.token, journal, refused)
  /\ \A h \in handshakes : toServer[h.socket] # <<>> => Kept(h.socket, journal, refused)

\* A Session that was revoked has no slot, and never will.
Told(q) == \E i \in DOMAIN q : q[i].type = "revoked"
Gone(n, opened, cs, xs) == n \in 1 .. opened /\ cs[n] \in Used /\ \A x \in xs : x.session # n
RevokedSuits ==
  \A t \in Tab :
    /\ tab[t].phase = "revoked" => Gone(tab[t].session, spent.sockets, conn, slots)
    /\ tab[t].socket # None /\ Told(toTab[tab[t].socket]) =>
         Gone(tab[t].session, spent.sockets, conn, slots) /\ \A x \in slots : x.token # tab[t].socket

ResumeInvariant ==
  /\ TypeOK
  /\ SocketsSuit
  /\ TabsSuit
  /\ WiresSuit
  /\ HandshakesSuit
  /\ SlotsSuit
  /\ ResumeHasItsSlot
  /\ BindingsSuit
  /\ JournalsSuit
  /\ OffersSuit
  /\ ReadySuits
  /\ TokensKept
  /\ RevokedSuits

----------------------------------------------------------------------------
(* Types *)

\* Sockets are numbers, and None is none of them.
LEMMA SocketNumbers ==
  /\ Socket \subseteq Nat /\ None \notin Socket /\ None \in Nat /\ MaxSockets \in Nat
  /\ \A s \in Socket : s # None
BY ResumeAssumption DEF Socket, None

TabRecord == [phase : TabPhase, socket : Socket \cup {None}, attempt : Attempt,
              session : Nat, generation : Nat, applied : BOOLEAN]
Spending == [sockets : 0 .. MaxSockets, reloads : Nat, restarts : Nat,
             revokes : Nat, pressure : Nat]

\* The variables, and what they are made of.
LEMMA Fields ==
  ASSUME TypeOK
  PROVE  /\ \A t \in Tab : /\ tab[t] \in TabRecord /\ tab[t].socket \in Socket \cup {None}
                           /\ tab[t].phase \in TabPhase /\ tab[t].attempt \in Attempt
                           /\ tab[t].session \in Nat /\ tab[t].generation \in Nat
                           /\ tab[t].applied \in BOOLEAN
                           /\ journal[t] \in [current : Nat, pending : Nat]
                           /\ journal[t].current \in Nat /\ journal[t].pending \in Nat
                           /\ refused[t] \in SUBSET Nat
         /\ \A s \in Socket : /\ conn[s] \in {"closed", "hello", "commit", "current"}
                              /\ toServer[s] \in Seq(Message) /\ toTab[s] \in Seq(Message)
         /\ \A h \in handshakes : /\ h.socket \in Socket /\ h.session \in Socket
                                  /\ h.generation \in Nat /\ h.fresh \in BOOLEAN
         /\ \A x \in slots : /\ x.session \in Socket /\ x.token \in Socket
                             /\ x.connection \in Socket \cup {None}
                             /\ x.state \in SlotState /\ x.generation \in Nat
         /\ \A m \in Message : m.token \in Nat /\ m.session \in Nat /\ m.generation \in Nat
BY DEF TypeOK, TabRecord, Handshake, SlotType, Message

\* The sockets opened so far.
LEMMA Opened ==
  ASSUME SocketsSuit
  PROVE  spent.sockets \in 0 .. MaxSockets /\ \A n \in 1 .. spent.sockets : n \in Socket
<1>1. spent.sockets \in 0 .. MaxSockets
  BY DEF SocketsSuit
<1> QED BY <1>1, SocketNumbers DEF Socket

\* The frames the two ends make.
LEMMA FrameTypes ==
  /\ \A k \in {"hello", "commit", "revoke", "offer", "ready", "reject", "revoked", "data", "close"},
        n, m, g \in Nat :
       /\ Control(k, n, m, g) \in Message /\ Control(k, n, m, g).type = k
       /\ Control(k, n, m, g).token = n /\ Control(k, n, m, g).session = m
       /\ Control(k, n, m, g).generation = g
  /\ \A k \in {"hello", "commit", "revoke", "offer", "ready", "reject", "revoked", "data", "close"} :
       Bare(k) \in Message /\ Bare(k).type = k
  /\ \A j \in [current : Nat, pending : Nat], a \in Attempt, b \in BOOLEAN :
       /\ Hello(j, a, b) \in Message /\ Hello(j, a, b).type = "hello"
       /\ Hello(j, a, b).token = Token(j, a) /\ Token(j, a) \in Nat
<1>1. \A k \in {"hello", "commit", "revoke", "offer", "ready", "reject", "revoked", "data", "close"},
         n, m, g \in Nat :
        /\ Control(k, n, m, g) \in Message /\ Control(k, n, m, g).type = k
        /\ Control(k, n, m, g).token = n /\ Control(k, n, m, g).session = m
        /\ Control(k, n, m, g).generation = g
  BY DEF Control, Message
<1>2. \A k \in {"hello", "commit", "revoke", "offer", "ready", "reject", "revoked", "data", "close"} :
        Bare(k) \in Message /\ Bare(k).type = k
  BY <1>1, SocketNumbers DEF Bare
<1>3. ASSUME NEW j \in [current : Nat, pending : Nat], NEW a \in Attempt, NEW b \in BOOLEAN
      PROVE  /\ Hello(j, a, b) \in Message /\ Hello(j, a, b).type = "hello"
             /\ Hello(j, a, b).token = Token(j, a) /\ Token(j, a) \in Nat
  <2>1. Token(j, a) \in Nat
    BY SocketNumbers DEF Token, Attempt
  <2> QED BY <2>1, SocketNumbers DEF Hello, Control, Message
<1> QED BY <1>1, <1>2, <1>3

\* The first attempt is the one a journal calls for.
LEMMA Attempts ==
  ASSUME NEW j \in [current : Nat, pending : Nat]
  PROVE  /\ InitialAttempt(j) \in Attempt
         /\ InitialAttempt(j) = "pending" => Token(j, "pending") = j.pending /\ j.pending # None
         /\ InitialAttempt(j) = "current" =>
              Token(j, "current") = j.current /\ j.current # None /\ j.pending = None
         /\ InitialAttempt(j) = "fresh" =>
              Token(j, "fresh") = None /\ j.current = None /\ j.pending = None
BY DEF InitialAttempt, Attempt, Token

----------------------------------------------------------------------------
(* The registry shrinks: connections close, Sessions and handshakes go *)

Holds(t, s) == tab[t].socket = s

\* What a step of the server does to the sockets it closes, and to no other.
SameSocket(s) == conn'[s] = conn[s] /\ toServer'[s] = toServer[s] /\ toTab'[s] = toTab[s]
ClosesSocket(s) ==
  /\ conn'[s] = "closed" /\ toServer'[s] = <<>> /\ toTab'[s] \in Seq(Message)
  /\ s > spent.sockets => toTab'[s] = toTab[s]
  /\ \A t \in Tab : tab[t].socket = s =>
       /\ Frames(tab[t], toTab'[s])
       /\ \A type \in {"offer", "ready"} : FirstIs(toTab'[s], type) => FirstIs(toTab[s], type)
       /\ Told(toTab'[s]) /\ ~ Told(toTab[s]) =>
            /\ tab[t].session \in 1 .. spent.sockets /\ conn[tab[t].session] \in Used
            /\ \A x \in slots' : x.session # tab[t].session /\ x.token # s

\* Every slot of the registry comes from one it had.
Kin(y, x) ==
  /\ y.session = x.session /\ y.token = x.token
  /\ x.state = "removing" => y.state = "removing"
  /\ y = x \/ (y.connection = None /\ y.state # "connected")

Shrinks ==
  /\ journal' = journal /\ tab' = tab /\ refused' = refused
  /\ spent' \in Spending /\ spent'.sockets = spent.sockets
  /\ conn' \in [Socket -> {"closed", "hello", "commit", "current"}]
  /\ toServer' \in [Socket -> Seq(Message)] /\ toTab' \in [Socket -> Seq(Message)]
  /\ handshakes' \subseteq handshakes
  /\ slots' \subseteq SlotType
  /\ \A y \in slots' : \E x \in slots : Kin(y, x)
  /\ \A y, z \in slots' : y.session = z.session => y = z
  /\ IsFiniteSet(slots') /\ Cardinality(slots') <= Cardinality(slots)
  /\ \A x \in slots, h \in handshakes' :
       x.state = "stale" /\ ~ h.fresh /\ x.session = h.session => x \in slots'
  /\ \A x \in slots : x.connection # None /\ conn'[x.connection] = "current" => x \in slots'
  /\ \A h \in handshakes' : conn'[h.socket] = conn[h.socket]
  /\ \A s \in Socket : SameSocket(s) \/ ClosesSocket(s)

\* The registry keeps its books when it shrinks.
LEMMA ShrinksKeeps ==
  ASSUME ResumeInvariant, Shrinks
  PROVE  ResumeInvariant'
<1>1. /\ TypeOK /\ SocketsSuit /\ TabsSuit /\ WiresSuit /\ HandshakesSuit /\ SlotsSuit
      /\ ResumeHasItsSlot /\ BindingsSuit /\ JournalsSuit /\ OffersSuit /\ ReadySuits
      /\ TokensKept /\ RevokedSuits
  BY DEF ResumeInvariant
<1>2. /\ journal' = journal /\ tab' = tab /\ refused' = refused
      /\ spent' \in Spending /\ spent'.sockets = spent.sockets
      /\ handshakes' \subseteq handshakes
      /\ \A y \in slots' : \E x \in slots : Kin(y, x)
  BY DEF Shrinks
<1>3. \A s \in Socket : SameSocket(s) \/ ClosesSocket(s)
  BY DEF Shrinks
<1>4. \A s \in Socket : conn'[s] \in {conn[s], "closed"}
  BY <1>3 DEF SameSocket, ClosesSocket
<1>5. /\ None \notin Socket
      /\ \A t \in Tab : tab[t].socket \in Socket \cup {None}
      /\ \A h \in handshakes : h.socket \in Socket
      /\ \A x \in slots : x.session \in Socket /\ x.token \in Socket
  BY <1>1, Fields, SocketNumbers
<1>6. TypeOK'
  <2>1. \A x \in slots' : x.connection # None <=> x.state = "connected"
    BY <1>1, <1>2 DEF TypeOK, Kin
  <2>2. ASSUME NEW x \in slots', NEW y \in slots', x # y
        PROVE  /\ x.session # y.session /\ x.token # y.token
               /\ x.connection = None \/ x.connection # y.connection
    <3>1. x.session # y.session
      BY <2>2 DEF Shrinks
    <3>2. PICK u \in slots : Kin(x, u)
      BY <1>2
    <3>3. PICK v \in slots : Kin(y, v)
      BY <1>2
    <3>4. u # v
      BY <3>1, <3>2, <3>3 DEF Kin
    <3>5. u.session # v.session /\ u.token # v.token /\ (u.connection = None \/ u.connection # v.connection)
      BY <1>1, <3>4 DEF TypeOK
    <3> QED BY <3>1, <3>2, <3>3, <3>5 DEF Kin
  <2>3. handshakes' \subseteq Handshake /\ slots' \subseteq SlotType
    BY <1>1, <1>2 DEF TypeOK, Shrinks
  <2> QED BY <1>1, <1>2, <2>1, <2>2, <2>3 DEF TypeOK, Shrinks
<1>7. SocketsSuit'
  <2>1. \A s \in Socket : s > spent.sockets => conn'[s] = "closed" /\ toTab'[s] = <<>>
    BY <1>1, <1>3 DEF SocketsSuit, SameSocket, ClosesSocket
  <2> QED BY <1>1, <1>2, <2>1 DEF SocketsSuit, Spending
<1>8. TabsSuit'
  BY <1>1, <1>2 DEF TabsSuit
<1>9. WiresSuit'
  <2>1. \A s \in Socket : ControlSuits(conn'[s], toServer'[s])
    BY <1>1, <1>3 DEF WiresSuit, ControlSuits, SameSocket, ClosesSocket
  <2>2. ASSUME NEW t \in Tab, tab[t].socket # None
        PROVE  LET s == tab[t].socket IN
               /\ Frames(tab[t], toTab'[s]) /\ Wire(tab[t], toTab'[s], conn'[s], toServer'[s])
               /\ conn'[s] = "hello" => toServer'[s][1].token = Token(journal[t], tab[t].attempt)
    <3> DEFINE s == tab[t].socket
    <3>1. s \in Socket
      BY <1>5, <2>2
    <3>2. CASE SameSocket(s)
      BY <1>1, <2>2, <3>2 DEF WiresSuit, SameSocket
    <3>3. CASE ClosesSocket(s)
      <4>1. Frames(tab[t], toTab'[s]) /\ conn'[s] = "closed"
        BY <3>3 DEF ClosesSocket
      <4>2. Wire(tab[t], toTab'[s], conn'[s], toServer'[s])
        BY <4>1 DEF Wire
      <4> QED BY <4>1, <4>2
    <3> QED BY <1>3, <3>1, <3>2, <3>3
  <2> QED BY <1>2, <2>1, <2>2 DEF WiresSuit
<1>10. HandshakesSuit'
  <2>1. IsFiniteSet(handshakes')
    BY <1>1, <1>2, FS_Subset DEF HandshakesSuit
  <2>2. \A h \in handshakes' : conn'[h.socket] = conn[h.socket]
    BY DEF Shrinks
  <2> QED BY <1>1, <1>2, <2>1, <2>2 DEF HandshakesSuit
<1>11. SlotsSuit'
  <2>1. IsFiniteSet(slots') /\ Cardinality(slots') <= Cardinality(slots)
    BY DEF Shrinks
  <2>2. ASSUME NEW y \in slots'
        PROVE  /\ conn'[y.token] \in Used /\ y.token <= spent'.sockets
               /\ conn'[y.session] \in Used /\ y.session <= spent'.sockets
               /\ y.connection \in {None, y.token}
    <3>1. PICK x \in slots : Kin(y, x)
      BY <1>2
    <3>2. /\ conn[x.token] \in Used /\ x.token <= spent.sockets
          /\ conn[x.session] \in Used /\ x.session <= spent.sockets
          /\ x.connection \in {None, x.token}
      BY <1>1 DEF SlotsSuit
    <3>3. y.session = x.session /\ y.token = x.token /\ y.connection \in {None, x.connection}
      BY <3>1 DEF Kin
    <3> QED BY <1>2, <1>4, <1>5, <3>2, <3>3 DEF Used
  <2>3. Cardinality(slots') + Cardinality(Fresh') <= MaxSessions
    <3>1. Fresh' \subseteq Fresh /\ Fresh \subseteq handshakes
      BY <1>2 DEF Fresh
    <3>2. IsFiniteSet(Fresh) /\ IsFiniteSet(Fresh')
      BY <1>1, <3>1, FS_Subset DEF HandshakesSuit
    <3>3. /\ Cardinality(Fresh') <= Cardinality(Fresh) /\ Cardinality(Fresh') \in Nat
          /\ Cardinality(Fresh) \in Nat /\ Cardinality(slots) \in Nat /\ Cardinality(slots') \in Nat
      BY <1>1, <2>1, <3>1, <3>2, FS_Subset, FS_CardinalityType DEF SlotsSuit
    <3>4. Cardinality(slots) + Cardinality(Fresh) <= MaxSessions
      BY <1>1 DEF SlotsSuit
    <3> QED BY <2>1, <3>3, <3>4, ResumeAssumption
  <2> QED BY <2>1, <2>2, <2>3 DEF SlotsSuit
<1>12. ResumeHasItsSlot'
  <2> SUFFICES ASSUME NEW h \in handshakes', ~ h.fresh
               PROVE  /\ \E x \in slots' : /\ x.session = h.session /\ x.state = "stale"
                                           /\ x.generation + 1 = h.generation
                      /\ \A g \in handshakes' : g.session = h.session => g = h
    BY DEF ResumeHasItsSlot, Fresh
  <2>1. h \in handshakes \ Fresh
    BY <1>2 DEF Fresh
  <2>2. PICK x \in slots : /\ x.session = h.session /\ x.state = "stale"
                           /\ x.generation + 1 = h.generation
    BY <1>1, <2>1 DEF ResumeHasItsSlot
  <2>3. x \in slots'
    BY <2>2 DEF Shrinks
  <2> QED BY <1>1, <1>2, <2>1, <2>2, <2>3 DEF ResumeHasItsSlot
<1>13. BindingsSuit'
  <2> SUFFICES ASSUME NEW t \in Tab, tab[t].socket # None, conn'[tab[t].socket] = "current"
               PROVE  \E x \in slots' : /\ x.connection = tab[t].socket
                                        /\ x.session = tab[t].session
                                        /\ x.generation = tab[t].generation
    BY <1>2 DEF BindingsSuit
  <2>1. conn[tab[t].socket] = "current"
    BY <1>4, <1>5
  <2>2. PICK x \in slots : /\ x.connection = tab[t].socket /\ x.session = tab[t].session
                           /\ x.generation = tab[t].generation
    BY <1>1, <2>1 DEF BindingsSuit
  <2>3. x \in slots'
    BY <2>2 DEF Shrinks
  <2> QED BY <2>2, <2>3
<1>14. JournalsSuit'
  <2> SUFFICES ASSUME NEW t \in Tab
               PROVE  /\ Known(journal[t].current, spent.sockets, conn')
                      /\ Known(journal[t].pending, spent.sockets, conn')
                      /\ JournalSuits(journal[t], handshakes', slots')
    BY <1>2 DEF JournalsSuit
  <2>1. /\ Known(journal[t].current, spent.sockets, conn)
        /\ Known(journal[t].pending, spent.sockets, conn)
        /\ JournalSuits(journal[t], handshakes, slots)
    BY <1>1 DEF JournalsSuit
  <2>2. \A n : Known(n, spent.sockets, conn) => Known(n, spent.sockets, conn')
    BY <1>1, <1>4, Opened DEF Known
  <2>3. JournalSuits(journal[t], handshakes', slots')
    BY <1>2, <2>1 DEF JournalSuits, Kin
  <2> QED BY <1>2, <2>1, <2>2, <2>3
<1>15. OffersSuit'
  <2> SUFFICES ASSUME NEW t \in Tab, tab[t].socket # None, FirstIs(toTab'[tab[t].socket], "offer")
               PROVE  OfferSuits(tab[t], journal[t], handshakes', slots')
    BY <1>2 DEF OffersSuit
  <2>1. FirstIs(toTab[tab[t].socket], "offer")
    BY <1>3, <1>5 DEF SameSocket, ClosesSocket
  <2>2. OfferSuits(tab[t], journal[t], handshakes, slots)
    BY <1>1, <2>1 DEF OffersSuit
  <2> QED BY <1>2, <2>2 DEF OfferSuits, Kin
<1>16. ReadySuits'
  <2> SUFFICES ASSUME NEW t \in Tab, tab[t].socket # None, FirstIs(toTab'[tab[t].socket], "ready")
               PROVE  \A x \in slots' : x.token # journal[t].current
    BY <1>2 DEF ReadySuits
  <2>1. FirstIs(toTab[tab[t].socket], "ready")
    BY <1>3, <1>5 DEF SameSocket, ClosesSocket
  <2> QED BY <1>1, <1>2, <2>1 DEF ReadySuits, Kin
<1>17. TokensKept'
  <2>1. \A x \in slots' : x.state # "removing" => Kept(x.token, journal, refused)
    BY <1>1, <1>2 DEF TokensKept, Kin
  <2>2. \A h \in handshakes' : toServer'[h.socket] # <<>> => Kept(h.socket, journal, refused)
    <3>1. \A h \in handshakes' : toServer'[h.socket] # <<>> => toServer[h.socket] # <<>>
      BY <1>2, <1>3, <1>5 DEF SameSocket, ClosesSocket
    <3> QED BY <1>1, <1>2, <3>1 DEF TokensKept
  <2> QED BY <1>2, <2>1, <2>2 DEF TokensKept
<1>18. RevokedSuits'
  <2> DEFINE k == spent.sockets
  <2>1. \A n : Gone(n, k, conn, slots) => Gone(n, k, conn', slots')
    BY <1>1, <1>2, <1>4, Opened DEF Gone, Kin, Used
  <2>2. ASSUME NEW t \in Tab, tab[t].socket # None, Told(toTab'[tab[t].socket])
        PROVE  Gone(tab[t].session, k, conn', slots') /\ \A x \in slots' : x.token # tab[t].socket
    <3>1. CASE Told(toTab[tab[t].socket])
      <4>1. Gone(tab[t].session, k, conn, slots) /\ \A x \in slots : x.token # tab[t].socket
        BY <1>1, <2>2, <3>1 DEF RevokedSuits
      <4> QED BY <1>2, <2>1, <4>1 DEF Kin
    <3>2. CASE ~ Told(toTab[tab[t].socket])
      <4>1. ClosesSocket(tab[t].socket)
        BY <1>3, <1>5, <2>2, <3>2 DEF SameSocket
      <4>2. /\ tab[t].session \in 1 .. spent.sockets /\ conn[tab[t].session] \in Used
            /\ \A x \in slots' : x.session # tab[t].session /\ x.token # tab[t].socket
        BY <2>2, <3>2, <4>1 DEF ClosesSocket
      <4>3. tab[t].session \in Socket
        BY <1>1, <4>2, Opened
      <4> QED BY <1>2, <1>4, <4>2, <4>3 DEF Gone, Used
    <3> QED BY <3>1, <3>2
  <2>3. \A t \in Tab : tab[t].phase = "revoked" => Gone(tab[t].session, k, conn', slots')
    BY <1>1, <2>1 DEF RevokedSuits
  <2> QED BY <1>2, <2>2, <2>3 DEF RevokedSuits
<1> QED BY <1>6, <1>7, <1>8, <1>9, <1>10, <1>11, <1>12, <1>13, <1>14, <1>15, <1>16, <1>17, <1>18
        DEF ResumeInvariant

\* One more frame on its way to a tab.
LEMMA FramesAppend ==
  ASSUME NEW r, NEW q \in Seq(Message), NEW m \in Message, Frames(r, q),
         \A i \in DOMAIN q : q[i].type # "close",
         Frame(r, Append(q, m), Len(q) + 1)
  PROVE  Frames(r, Append(q, m))
<1> DEFINE a == Append(q, m)
           n == Len(q)
<1>1. /\ n \in Nat /\ DOMAIN a = 1 .. n + 1 /\ DOMAIN q = 1 .. n /\ Len(a) = n + 1
      /\ \A i \in 1 .. n : a[i] = q[i]
  OBVIOUS
<1> HIDE DEF a, n
<1>2. ASSUME NEW i \in 1 .. n PROVE Frame(r, a, i)
  <2>1. Frame(r, q, i) /\ q[i].type # "close" /\ a[i] = q[i] /\ 1 \in 1 .. n /\ a[1] = q[1]
    BY <1>1 DEF Frames
  <2> QED BY <2>1 DEF Frame
<1>3. Frame(r, a, n + 1)
  BY DEF a, n
<1>4. \A i \in 1 .. n + 1 : i \in 1 .. n \/ i = n + 1
  BY <1>1
<1> QED BY <1>1, <1>2, <1>3, <1>4 DEF Frames, a

\* The last frame is a close.
LEMMA FramesClose ==
  ASSUME NEW r, NEW q \in Seq(Message), NEW m \in Message, m.type = "close", Frames(r, q),
         \A i \in DOMAIN q : q[i].type # "close"
  PROVE  /\ Append(q, m) \in Seq(Message) /\ Frames(r, Append(q, m))
         /\ \A type \in {"offer", "ready"} : FirstIs(Append(q, m), type) => FirstIs(q, type)
         /\ Told(Append(q, m)) => Told(q)
<1> DEFINE a == Append(q, m)
           n == Len(q)
<1>1. /\ n \in Nat /\ DOMAIN a = 1 .. n + 1 /\ DOMAIN q = 1 .. n /\ Len(a) = n + 1
      /\ \A i \in 1 .. n : a[i] = q[i]
      /\ a[n + 1] = m /\ a \in Seq(Message) /\ (n = 0 <=> q = <<>>)
  OBVIOUS
<1> HIDE DEF a, n
<1>2. Frame(r, a, n + 1)
  BY <1>1 DEF Frame
<1>3. Frames(r, a)
  BY <1>2, FramesAppend DEF a, n
<1>4. \A i \in 1 .. n + 1 : i \in 1 .. n \/ i = n + 1
  BY <1>1
<1>5. Told(a) => Told(q)
  BY <1>1, <1>4 DEF Told
<1>6. ASSUME NEW type \in {"offer", "ready"}, FirstIs(a, type) PROVE FirstIs(q, type)
  <2>1. CASE n = 0
    BY <1>1, <1>6, <2>1 DEF FirstIs
  <2>2. CASE n # 0
    <3>1. 1 \in 1 .. n
      BY <1>1, <2>2
    <3> QED BY <1>1, <1>6, <2>2, <3>1 DEF FirstIs
  <2> QED BY <2>1, <2>2
<1> QED BY <1>1, <1>3, <1>5, <1>6 DEF a

\* What the tab reads last when its socket closes: after a rejection of its
\* Hello, after the revocation it asked for, or after whatever was sent before.
LastWords(s, last) ==
  \/ last = <<>>
  \/ last = <<Bare("reject")>> /\ conn[s] = "hello"
  \/ /\ last = <<Bare("revoked")>> /\ conn[s] = "current" /\ toServer[s] # <<>>
     /\ \A t \in Tab : tab[t].socket = s =>
          /\ tab[t].session \in 1 .. spent.sockets /\ conn[tab[t].session] \in Used
          /\ \A x \in slots' : x.session # tab[t].session /\ x.token # s

\* The transport closes one socket.
LEMMA TransportCloses ==
  ASSUME ResumeInvariant, NEW s \in Socket, NEW last, LastWords(s, last), CloseTransport(s, last)
  PROVE  /\ conn' \in [Socket -> {"closed", "hello", "commit", "current"}]
         /\ toServer' \in [Socket -> Seq(Message)] /\ toTab' \in [Socket -> Seq(Message)]
         /\ \A u \in Socket : u # s => conn'[u] = conn[u] /\ SameSocket(u)
         /\ conn'[s] = "closed"
         /\ SameSocket(s) \/ ClosesSocket(s)
<1>1. /\ TypeOK /\ SocketsSuit /\ TabsSuit /\ WiresSuit
      /\ conn \in [Socket -> {"closed", "hello", "commit", "current"}]
      /\ toServer \in [Socket -> Seq(Message)] /\ toTab \in [Socket -> Seq(Message)]
  BY DEF ResumeInvariant, TypeOK
<1>2. /\ conn' = [conn EXCEPT ![s] = "closed"] /\ toServer' = [toServer EXCEPT ![s] = <<>>]
      /\ toTab' = IF conn[s] = "closed" THEN toTab ELSE SendTab(s, last \o <<Bare("close")>>)
  BY DEF CloseTransport
<1>3. /\ conn' \in [Socket -> {"closed", "hello", "commit", "current"}]
      /\ toServer' \in [Socket -> Seq(Message)]
      /\ conn'[s] = "closed" /\ toServer'[s] = <<>>
      /\ \A u \in Socket : u # s => conn'[u] = conn[u] /\ toServer'[u] = toServer[u]
  BY <1>1, <1>2
<1> DEFINE q == toTab[s]
           c == Bare("close")
<1>4. q \in Seq(Message) /\ c \in Message /\ c.type = "close"
  BY <1>1, FrameTypes
<1>5. CASE conn[s] = "closed" \/ ~ \E t \in Tab : tab[t].socket = s
  <2>1. toTab' = toTab
    BY <1>2, <1>5 DEF SendTab
  <2>2. \A u \in Socket : u # s => SameSocket(u)
    BY <1>3, <2>1 DEF SameSocket
  <2>3. CASE conn[s] = "closed"
    <3>1. toServer[s] = <<>>
      BY <1>1, <2>3 DEF WiresSuit, ControlSuits
    <3> QED BY <1>1, <1>3, <2>1, <2>2, <2>3, <3>1 DEF SameSocket
  <2>4. CASE ~ \E t \in Tab : tab[t].socket = s
    BY <1>1, <1>3, <1>4, <2>1, <2>2, <2>4 DEF ClosesSocket
  <2> QED BY <1>5, <2>3, <2>4
<1>6. CASE conn[s] # "closed" /\ \E t \in Tab : tab[t].socket = s
  <2>1. PICK t \in Tab : tab[t].socket = s
    BY <1>6
  <2>2. \A u \in Tab : tab[u].socket = s => u = t
    BY <1>1, <2>1, SocketNumbers DEF TabsSuit
  <2>3. /\ Frames(tab[t], q) /\ Wire(tab[t], q, conn[s], toServer[s])
        /\ \A i \in DOMAIN q : q[i].type # "close"
    BY <1>1, <1>6, <2>1, SocketNumbers DEF WiresSuit, Wire
  <2>4. toTab' = [toTab EXCEPT ![s] = q \o (last \o <<c>>)]
    BY <1>2, <1>6 DEF SendTab
  <2>5. s <= spent.sockets /\ spent.sockets \in Nat /\ s \in Nat
    BY <1>1, <2>1, Opened, SocketNumbers DEF SocketsSuit
  <2>6. \E p \in Seq(Message) :
          /\ q \o (last \o <<c>>) = Append(p, c) /\ Frames(tab[t], p)
          /\ \A i \in DOMAIN p : p[i].type # "close"
          /\ \A type \in {"offer", "ready"} : FirstIs(p, type) => FirstIs(q, type)
          /\ Told(p) /\ ~ Told(q) =>
               /\ tab[t].session \in 1 .. spent.sockets /\ conn[tab[t].session] \in Used
               /\ \A x \in slots' : x.session # tab[t].session /\ x.token # s
    <3> HIDE DEF q, c
    <3>1. CASE last = <<>>
      <4>1. q \o (<<>> \o <<c>>) = Append(q, c)
        BY <1>4
      <4> QED BY <1>4, <2>3, <3>1, <4>1
    <3>2. CASE last = <<Bare("reject")>> /\ conn[s] = "hello"
      <4> DEFINE m == Bare("reject")
      <4>1. m \in Message /\ m.type = "reject"
        BY FrameTypes
      <4>2. q = <<>> /\ tab[t].phase = "awaiting_offer"
        BY <2>3, <3>2 DEF Wire
      <4> HIDE DEF m
      <4>3. <<m>> \in Seq(Message) /\ <<>> \o (<<m>> \o <<c>>) = Append(<<m>>, c)
            /\ DOMAIN <<m>> = {1} /\ <<m>>[1] = m /\ Len(<<m>>) = 1
        BY <1>4, <4>1
      <4>4. Frames(tab[t], <<m>>)
        BY <4>1, <4>2, <4>3 DEF Frames, Frame
      <4>5. ~ Told(<<m>>) /\ \A type \in {"offer", "ready"} : ~ FirstIs(<<m>>, type)
        BY <4>1, <4>3 DEF Told, FirstIs
      <4> QED BY <3>2, <4>1, <4>2, <4>3, <4>4, <4>5 DEF m
    <3>3. CASE last = <<Bare("revoked")>> /\ conn[s] = "current"
      <4> DEFINE m == Bare("revoked")
                 p == Append(q, m)
      <4>1. m \in Message /\ m.type = "revoked"
        BY FrameTypes
      <4>2. /\ tab[t].phase = "awaiting_revoke" /\ tab[t].session \in 1 .. spent.sockets
            /\ conn[tab[t].session] \in Used
            /\ \A x \in slots' : x.session # tab[t].session /\ x.token # s
        <5>1. last # <<>>
          BY <3>3
        <5>2. Bare("revoked") # Bare("reject")
          BY FrameTypes
        <5>3. toServer[s] # <<>>
          BY <3>3, <5>1, <5>2 DEF LastWords
        <5> QED BY <2>1, <2>3, <3>3, <5>1, <5>2, <5>3 DEF LastWords, Wire
      <4> HIDE DEF m
      <4>3. q \o (<<m>> \o <<c>>) = Append(p, c)
        BY <1>4, <4>1
      <4>4. /\ p \in Seq(Message) /\ p[Len(q) + 1] = m /\ Len(q) \in Nat
            /\ \A i \in 1 .. Len(q) : p[i] = q[i]
            /\ DOMAIN p = 1 .. Len(q) + 1 /\ DOMAIN q = 1 .. Len(q)
        BY <1>4, <4>1
      <4>5. Frame(tab[t], p, Len(q) + 1)
        BY <4>1, <4>2, <4>4 DEF Frame
      <4>6. Frames(tab[t], p)
        BY <1>4, <2>3, <4>1, <4>5, FramesAppend
      <4>7. \A i \in 1 .. Len(q) + 1 : i \in 1 .. Len(q) \/ i = Len(q) + 1
        BY <4>4
      <4>8. \A i \in DOMAIN p : p[i].type # "close"
        BY <2>3, <4>1, <4>4, <4>7
      <4>9. \A type \in {"offer", "ready"} : FirstIs(p, type) => FirstIs(q, type)
        <5>1. CASE q = <<>>
          BY <4>1, <4>4, <5>1 DEF FirstIs
        <5>2. CASE q # <<>>
          <6>1. 1 \in 1 .. Len(q)
            BY <1>4, <5>2
          <6> QED BY <4>4, <5>2, <6>1 DEF FirstIs
        <5> QED BY <5>1, <5>2
      <4> QED BY <3>3, <4>2, <4>3, <4>4, <4>6, <4>8, <4>9 DEF m
    <3> QED BY <3>1, <3>2, <3>3 DEF LastWords
  <2>7. PICK p \in Seq(Message) :
          /\ q \o (last \o <<c>>) = Append(p, c) /\ Frames(tab[t], p)
          /\ \A i \in DOMAIN p : p[i].type # "close"
          /\ \A type \in {"offer", "ready"} : FirstIs(p, type) => FirstIs(q, type)
          /\ Told(p) /\ ~ Told(q) =>
               /\ tab[t].session \in 1 .. spent.sockets /\ conn[tab[t].session] \in Used
               /\ \A x \in slots' : x.session # tab[t].session /\ x.token # s
    BY <2>6
  <2>8. /\ Append(p, c) \in Seq(Message) /\ Frames(tab[t], Append(p, c))
        /\ \A type \in {"offer", "ready"} : FirstIs(Append(p, c), type) => FirstIs(p, type)
        /\ Told(Append(p, c)) => Told(p)
    BY <1>4, <2>7, FramesClose
  <2>9. /\ toTab'[s] = Append(p, c) /\ toTab' \in [Socket -> Seq(Message)]
        /\ \A u \in Socket : u # s => toTab'[u] = toTab[u]
    BY <1>1, <2>4, <2>7, <2>8
  <2>10. ClosesSocket(s)
    BY <1>3, <2>2, <2>5, <2>7, <2>8, <2>9 DEF ClosesSocket
  <2> QED BY <1>3, <2>9, <2>10 DEF SameSocket
<1> QED BY <1>5, <1>6

\* The slots ys are those of the registry, but for what has become of x.
Reduced(ys, x) ==
  /\ ys \subseteq SlotType
  /\ \A y \in ys : \E z \in slots : Kin(y, z)
  /\ \A y, z \in ys : y.session = z.session => y = z
  /\ IsFiniteSet(ys) /\ Cardinality(ys) <= Cardinality(slots)
  /\ \A z \in slots : z # x => z \in ys

\* A slot that stays, goes, or loses its connection.
LEMMA SlotsReduced ==
  ASSUME ResumeInvariant
  PROVE  /\ \A x : Reduced(slots, x)
         /\ \A x \in slots : Reduced(slots \ {x}, x)
         /\ \A x \in slots, state \in {"stale", "cleaning", "removing"} :
              (x.state = "removing" => state = "removing") => Reduced(Become(x, state), x)
<1>1. TypeOK /\ SlotsSuit
  BY DEF ResumeInvariant
<1>2. /\ slots \subseteq SlotType /\ IsFiniteSet(slots) /\ Cardinality(slots) \in Nat
      /\ \A y, z \in slots : y.session = z.session => y = z
      /\ \A y \in slots : Kin(y, y)
  BY <1>1, FS_CardinalityType DEF TypeOK, SlotsSuit, Kin
<1>3. \A x : Reduced(slots, x)
  <2>1. Cardinality(slots) <= Cardinality(slots)
    BY <1>2
  <2> QED BY <1>2, <2>1 DEF Reduced
<1>4. ASSUME NEW x \in slots PROVE Reduced(slots \ {x}, x)
  <2>1. /\ IsFiniteSet(slots \ {x}) /\ Cardinality(slots \ {x}) <= Cardinality(slots)
    <3>1. IsFiniteSet(slots \ {x}) /\ Cardinality(slots \ {x}) = Cardinality(slots) - 1
      BY <1>2, FS_RemoveElement
    <3> QED BY <1>2, <3>1
  <2> QED BY <1>2, <2>1 DEF Reduced
<1>5. ASSUME NEW x \in slots, NEW state \in {"stale", "cleaning", "removing"},
             x.state = "removing" => state = "removing"
      PROVE  Reduced(Become(x, state), x)
  <2> DEFINE y == [x EXCEPT !.state = state, !.connection = None]
             ys == (slots \ {x}) \cup {y}
  <2>1. /\ y \in SlotType /\ y.session = x.session /\ y.token = x.token /\ y.state = state
        /\ y.connection = None
    BY <1>2 DEF SlotType, SlotState
  <2>2. Kin(y, x)
    BY <1>5, <2>1 DEF Kin
  <2>3. ys = Become(x, state)
    BY DEF Become
  <2> HIDE DEF y
  <2>4. /\ IsFiniteSet(slots \ {x}) /\ Cardinality(slots \ {x}) = Cardinality(slots) - 1
    BY <1>2, FS_RemoveElement
  <2>5. /\ IsFiniteSet(ys) /\ Cardinality(ys) <= Cardinality(slots \ {x}) + 1
    <3>1. IsFiniteSet(ys) /\ Cardinality(ys) \in {Cardinality(slots \ {x}), Cardinality(slots \ {x}) + 1}
      BY <2>4, FS_AddElement
    <3>2. Cardinality(slots \ {x}) \in Nat
      BY <2>4, FS_CardinalityType
    <3> QED BY <3>1, <3>2
  <2>6. Cardinality(ys) <= Cardinality(slots)
    BY <1>2, <2>4, <2>5, FS_CardinalityType
  <2> QED BY <1>2, <2>1, <2>2, <2>3, <2>5, <2>6 DEF Reduced
<1> QED BY <1>3, <1>4, <1>5

\* A step that closes a socket, or none, and leaves the rest of the registry.
LEMMA ClosingShrinks ==
  ASSUME ResumeInvariant, UNCHANGED <<journal, tab, refused>>,
         spent' \in Spending, spent'.sockets = spent.sockets,
         handshakes' \subseteq handshakes, NEW s, NEW x, Reduced(slots', x),
         \/ UNCHANGED <<conn, toServer, toTab>>
         \/ /\ s \in Socket /\ \E last : LastWords(s, last) /\ CloseTransport(s, last)
            /\ \A h \in handshakes' : h.socket # s,
         x \in slots => \/ x \in slots'
                        \/ /\ x.connection = None \/ (x.connection = s /\ conn'[s] = "closed")
                           /\ x.state # "stale" \/ \A h \in handshakes' : h.session # x.session
  PROVE  ResumeInvariant'
<1>1. TypeOK /\ HandshakesSuit
  BY DEF ResumeInvariant
<1>2. /\ conn' \in [Socket -> {"closed", "hello", "commit", "current"}]
      /\ toServer' \in [Socket -> Seq(Message)] /\ toTab' \in [Socket -> Seq(Message)]
      /\ \A u \in Socket : SameSocket(u) \/ ClosesSocket(u)
      /\ \A h \in handshakes' : conn'[h.socket] = conn[h.socket]
  <2>1. CASE UNCHANGED <<conn, toServer, toTab>>
    BY <1>1, <2>1 DEF TypeOK, SameSocket
  <2>2. CASE /\ s \in Socket /\ \E last : LastWords(s, last) /\ CloseTransport(s, last)
             /\ \A h \in handshakes' : h.socket # s
    <3>1. PICK last : LastWords(s, last) /\ CloseTransport(s, last)
      BY <2>2
    <3>2. /\ conn' \in [Socket -> {"closed", "hello", "commit", "current"}]
          /\ toServer' \in [Socket -> Seq(Message)] /\ toTab' \in [Socket -> Seq(Message)]
          /\ \A u \in Socket : u # s => conn'[u] = conn[u] /\ SameSocket(u)
          /\ SameSocket(s) \/ ClosesSocket(s)
      BY <2>2, <3>1, TransportCloses
    <3>3. \A h \in handshakes' : h.socket \in Socket /\ h.socket # s
      BY <1>1, <2>2, Fields
    <3> QED BY <3>2, <3>3
  <2> QED BY <2>1, <2>2
<1>3. \A z \in slots, h \in handshakes' :
        z.state = "stale" /\ ~ h.fresh /\ z.session = h.session => z \in slots'
  BY DEF Reduced
<1>4. \A z \in slots : z.connection # None /\ conn'[z.connection] = "current" => z \in slots'
  BY DEF Reduced
<1>5. Shrinks
  BY <1>2, <1>3, <1>4 DEF Shrinks, Reduced
<1> QED BY <1>5, ShrinksKeeps

\* A bound is used up.
LEMMA SpendingTypes ==
  ASSUME SocketsSuit, UnderPressure \/ UNCHANGED spent
  PROVE  spent' \in Spending /\ spent'.sockets = spent.sockets
BY DEF SocketsSuit, Spending, UnderPressure

\* A connection that ends takes its handshake with it.
LEMMA DisconnectKeeps ==
  ASSUME ResumeInvariant, NEW s \in Socket,
         RejectHello(s) \/ CloseConnection(s) \/ (CommitFails(s) /\ slots' = slots)
  PROVE  ResumeInvariant'
<1>1. TypeOK /\ SocketsSuit /\ HandshakesSuit /\ SlotsSuit
  BY DEF ResumeInvariant
<1>2. /\ UNCHANGED <<journal, tab, refused>> /\ handshakes' \subseteq handshakes
      /\ UnderPressure \/ UNCHANGED spent
  BY DEF RejectHello, CloseConnection, CommitFails, Disconnect
<1>3. spent' \in Spending /\ spent'.sockets = spent.sockets
  BY <1>1, <1>2, SpendingTypes
<1>4. \A h \in handshakes' : h.socket # s
  BY <1>1 DEF RejectHello, CloseConnection, CommitFails, Disconnect, Committing, HandshakesSuit
<1>5. \E last : LastWords(s, last) /\ CloseTransport(s, last)
  BY DEF RejectHello, CloseConnection, CommitFails, LastWords
<1>6. CASE slots' = slots
  <2>1. Reduced(slots', None)
    BY <1>6, SlotsReduced
  <2> QED BY <1>2, <1>3, <1>4, <1>5, <1>6, <2>1, ClosingShrinks
<1>7. CASE slots' # slots
  <2>1. CloseConnection(s) /\ Connected(s) # {}
    BY <1>7 DEF RejectHello, CloseConnection, Disconnect
  <2>2. PICK x \in Connected(s), state \in {"stale", "cleaning"} : slots' = Become(x, state)
    BY <1>7, <2>1 DEF CloseConnection, Disconnect
  <2>3. x \in slots /\ x.state = "connected" /\ x.connection = s
    BY DEF Connected
  <2>4. Reduced(slots', x)
    BY <2>2, <2>3, SlotsReduced
  <2>5. conn'[s] = "closed"
    BY <1>1, <2>1 DEF CloseConnection, CloseTransport, TypeOK
  <2> QED BY <1>2, <1>3, <1>4, <1>5, <2>3, <2>4, <2>5, ClosingShrinks
<1> QED BY <1>6, <1>7

\* A slot that expires, or whose cleanup goes on, and a handshake that expires.
LEMMA ExpiryKeeps ==
  ASSUME ResumeInvariant,
         \/ \E h \in handshakes : ExpireHandshake(h)
         \/ \E x \in slots : ExpireSession(x) \/ ContinueCleanup(x)
  PROVE  ResumeInvariant'
<1>1. TypeOK /\ SocketsSuit
  BY DEF ResumeInvariant
<1>2. /\ UNCHANGED <<journal, tab, refused, spent, conn, toServer, toTab>>
      /\ handshakes' \subseteq handshakes
  BY DEF ExpireHandshake, ExpireSession, ContinueCleanup, WithoutResumeOf
<1>3. spent' \in Spending /\ spent'.sockets = spent.sockets
  BY <1>1, <1>2, SpendingTypes
<1>4. ASSUME NEW h \in handshakes, ExpireHandshake(h) PROVE ResumeInvariant'
  <2>1. slots' = slots /\ Reduced(slots', None)
    BY <1>4, SlotsReduced DEF ExpireHandshake
  <2> QED BY <1>2, <1>3, <2>1, ClosingShrinks
<1>5. ASSUME NEW x \in slots, ExpireSession(x) \/ ContinueCleanup(x) PROVE ResumeInvariant'
  <2>1. x.connection = None
    BY <1>1, <1>5 DEF TypeOK, ExpireSession, ContinueCleanup
  <2>2. Reduced(slots', x)
    BY <1>5, SlotsReduced DEF ExpireSession, ContinueCleanup
  <2>3. x.state # "stale" \/ \A h \in handshakes' : h.session # x.session
    BY <1>5 DEF ExpireSession, ContinueCleanup, WithoutResumeOf
  <2> QED BY <1>2, <1>3, <2>1, <2>2, <2>3, ClosingShrinks
<1> QED BY <1>4, <1>5

\* A Session whose runtime is poisoned.
LEMMA PoisonKeeps ==
  ASSUME ResumeInvariant, NEW x \in slots, Poison(x)
  PROVE  ResumeInvariant'
<1>1. TypeOK /\ SocketsSuit /\ SlotsSuit /\ HandshakesSuit
  BY DEF ResumeInvariant
<1> DEFINE s == x.connection
<1>2. /\ UNCHANGED <<journal, tab, refused, handshakes>> /\ (UnderPressure \/ UNCHANGED spent)
      /\ x.state = "connected" /\ CloseTransport(s, <<>>) /\ LastWords(s, <<>>)
  BY DEF Poison, LastWords
<1>3. spent' \in Spending /\ spent'.sockets = spent.sockets
  BY <1>1, <1>2, SpendingTypes
<1>4. s \in Socket /\ s = x.token /\ conn[s] \in Used
  BY <1>1, <1>2, Fields DEF TypeOK, SlotsSuit
<1>5. \A h \in handshakes : h.socket # s
  BY <1>1, <1>4 DEF HandshakesSuit, Used
<1>6. Reduced(slots', x)
  BY <1>2, SlotsReduced DEF Poison
<1>7. conn'[s] = "closed"
  BY <1>1, <1>2, <1>4 DEF CloseTransport, TypeOK
<1> QED BY <1>2, <1>3, <1>4, <1>5, <1>6, <1>7, ClosingShrinks

\* A revoked Session is removed, and its tab told so; when that fails, the
\* socket is closed.
LEMMA RevokeSessionKeeps ==
  ASSUME ResumeInvariant, NEW s \in Socket, RevokeSession(s)
  PROVE  ResumeInvariant'
<1>1. TypeOK /\ SocketsSuit /\ WiresSuit /\ SlotsSuit /\ HandshakesSuit /\ BindingsSuit
  BY DEF ResumeInvariant
<1>2. PICK x \in Connected(s) :
       \/ /\ slots' = slots \ {x}
          /\ handshakes' = WithoutResumeOf(x)
          /\ CloseTransport(s, <<Bare("revoked")>>)
          /\ UNCHANGED spent
       \/ /\ slots' \in {slots} \cup
               {Become(x, state) : state \in {"removing", "cleaning", "stale"}}
          /\ handshakes' = handshakes
          /\ CloseTransport(s, <<>>)
          /\ UnderPressure
  BY DEF RevokeSession
<1>3. /\ x \in slots /\ x.state = "connected" /\ x.connection = s /\ x.token = s
      /\ conn[x.session] \in Used /\ x.session \in 1 .. spent.sockets
  <2>1. x \in slots /\ x.state = "connected" /\ x.connection = s
    BY DEF Connected
  <2>2. /\ s # None /\ x.connection \in {None, x.token} /\ conn[x.session] \in Used
        /\ x.session <= spent.sockets /\ x.session \in Socket
    BY <1>1, <2>1, SocketNumbers, Fields DEF SlotsSuit
  <2>3. x.session \in 1 .. spent.sockets
    BY <1>1, <2>2, Opened DEF Socket
  <2> QED BY <2>1, <2>2, <2>3
<1>4. /\ UNCHANGED <<journal, tab, refused>> /\ conn[s] = "current" /\ toServer[s] # <<>>
      /\ handshakes' \subseteq handshakes /\ (UnderPressure \/ UNCHANGED spent)
      /\ conn'[s] = "closed"
  BY <1>1, <1>2 DEF RevokeSession, HasControl, WithoutResumeOf, CloseTransport, TypeOK
<1>5. spent' \in Spending /\ spent'.sockets = spent.sockets
  BY <1>1, <1>4, SpendingTypes
<1>6. \A h \in handshakes' : h.socket # s
  BY <1>1, <1>4 DEF HandshakesSuit
<1>7. Reduced(slots', x)
  BY <1>2, <1>3, SlotsReduced
<1>8. \E last : LastWords(s, last) /\ CloseTransport(s, last)
  <2>1. CASE CloseTransport(s, <<>>)
    BY <2>1 DEF LastWords
  <2>2. CASE slots' = slots \ {x} /\ CloseTransport(s, <<Bare("revoked")>>)
    <3>1. ASSUME NEW t \in Tab, tab[t].socket = s
          PROVE  /\ tab[t].session \in 1 .. spent.sockets /\ conn[tab[t].session] \in Used
                 /\ \A y \in slots' : y.session # tab[t].session /\ y.token # s
      <4>1. PICK z \in slots : z.connection = s /\ z.session = tab[t].session
        BY <1>1, <1>4, <3>1, SocketNumbers DEF BindingsSuit
      <4>2. z = x
        BY <1>1, <1>3, <4>1, SocketNumbers DEF TypeOK
      <4>3. \A y \in slots' : y.session # x.session /\ y.token # x.token
        BY <1>1, <1>3, <2>2 DEF TypeOK
      <4> QED BY <1>3, <4>1, <4>2, <4>3
    <3> QED BY <1>4, <2>2, <3>1 DEF LastWords
  <2> QED BY <1>2, <2>1, <2>2
<1> QED BY <1>3, <1>4, <1>5, <1>6, <1>7, <1>8, ClosingShrinks

\* The server is gone, and every socket with it.
LEMMA RestartKeeps ==
  ASSUME ResumeInvariant, ServerRestart
  PROVE  ResumeInvariant'
<1>1. TypeOK /\ SocketsSuit /\ TabsSuit /\ WiresSuit /\ SlotsSuit
  BY DEF ResumeInvariant
<1>2. /\ UNCHANGED <<journal, tab, refused>> /\ handshakes' = {} /\ slots' = {}
      /\ conn' = [s \in Socket |-> "closed"] /\ toServer' = [s \in Socket |-> <<>>]
      /\ toTab' = [s \in Socket |->
           IF conn[s] # "closed" THEN SendTab(s, <<Bare("close")>>)[s] ELSE toTab[s]]
  BY DEF ServerRestart
<1>3. spent' \in Spending /\ spent'.sockets = spent.sockets
  BY <1>1 DEF ServerRestart, SocketsSuit, Spending
<1>4. ASSUME NEW s \in Socket PROVE ClosesSocket(s)
  <2> DEFINE q == toTab[s]
             c == Bare("close")
  <2>1. q \in Seq(Message) /\ c \in Message /\ c.type = "close"
    BY <1>1, FrameTypes, Fields
  <2>2. conn'[s] = "closed" /\ toServer'[s] = <<>>
    BY <1>2
  <2>3. CASE conn[s] = "closed" \/ ~ \E t \in Tab : tab[t].socket = s
    <3>1. toTab'[s] = q
      BY <1>2, <2>3 DEF SendTab
    <3>2. \A t \in Tab : tab[t].socket = s => Frames(tab[t], q)
      BY <1>1, SocketNumbers DEF WiresSuit
    <3> QED BY <2>1, <2>2, <3>1, <3>2 DEF ClosesSocket
  <2>4. CASE conn[s] # "closed" /\ \E t \in Tab : tab[t].socket = s
    <3>1. PICK t \in Tab : tab[t].socket = s
      BY <2>4
    <3>2. \A u \in Tab : tab[u].socket = s => u = t
      BY <1>1, <3>1, SocketNumbers DEF TabsSuit
    <3>3. Frames(tab[t], q) /\ \A i \in DOMAIN q : q[i].type # "close"
      BY <1>1, <2>4, <3>1, SocketNumbers DEF WiresSuit, Wire
    <3>4. toTab'[s] = q \o <<c>>
      BY <1>1, <1>2, <2>4 DEF SendTab, TypeOK
    <3>5. q \o <<c>> = Append(q, c)
      BY <2>1
    <3>6. s <= spent.sockets /\ spent.sockets \in Nat /\ s \in Nat
      BY <1>1, <3>1, Opened, SocketNumbers DEF SocketsSuit
    <3> HIDE DEF q, c
    <3>7. /\ Append(q, c) \in Seq(Message) /\ Frames(tab[t], Append(q, c))
          /\ \A type \in {"offer", "ready"} : FirstIs(Append(q, c), type) => FirstIs(q, type)
          /\ Told(Append(q, c)) => Told(q)
      BY <2>1, <3>3, FramesClose
    <3>8. toTab'[s] = Append(q, c)
      BY <3>4, <3>5
    <3>9. /\ Frames(tab[t], toTab'[s])
          /\ \A type \in {"offer", "ready"} : FirstIs(toTab'[s], type) => FirstIs(toTab[s], type)
          /\ ~ (Told(toTab'[s]) /\ ~ Told(toTab[s]))
      BY <3>7, <3>8 DEF q
    <3> QED BY <2>2, <3>2, <3>6, <3>7, <3>8, <3>9 DEF ClosesSocket
  <2> QED BY <2>3, <2>4
<1>5. /\ conn' \in [Socket -> {"closed", "hello", "commit", "current"}]
      /\ toServer' \in [Socket -> Seq(Message)]
  BY <1>2
<1>6. toTab' \in [Socket -> Seq(Message)]
  <2>1. \A s \in Socket : toTab'[s] \in Seq(Message)
    BY <1>4 DEF ClosesSocket
  <2> QED BY <1>2, <2>1
<1>7. IsFiniteSet(slots') /\ Cardinality(slots') <= Cardinality(slots)
  <2>1. IsFiniteSet(slots') /\ Cardinality(slots') = 0 /\ Cardinality(slots) \in Nat
    BY <1>1, <1>2, FS_EmptySet, FS_CardinalityType DEF SlotsSuit
  <2> QED BY <2>1
<1>8. \A x \in slots : x.connection # None /\ conn'[x.connection] = "current" => x \in slots'
  BY <1>1, <1>2, Fields
<1>9. Shrinks
  BY <1>2, <1>3, <1>4, <1>5, <1>6, <1>7, <1>8 DEF Shrinks
<1> QED BY <1>9, ShrinksKeeps

----------------------------------------------------------------------------
(* Data, offers and commits *)

\* Nothing changes.
LEMMA StutterKeeps ==
  ASSUME ResumeInvariant, UNCHANGED vars
  PROVE  ResumeInvariant'
<1>1. /\ TypeOK /\ SocketsSuit /\ TabsSuit /\ WiresSuit /\ HandshakesSuit /\ SlotsSuit
      /\ ResumeHasItsSlot /\ BindingsSuit /\ JournalsSuit /\ OffersSuit /\ ReadySuits
      /\ TokensKept /\ RevokedSuits
  BY DEF ResumeInvariant
<1>2. UNCHANGED <<journal, tab, conn, toServer, toTab, handshakes, slots, refused, spent>>
  BY DEF vars
<1>3. TypeOK' /\ SocketsSuit' /\ TabsSuit' /\ WiresSuit'
  BY <1>1, <1>2 DEF TypeOK, SocketsSuit, TabsSuit, WiresSuit
<1>4. HandshakesSuit' /\ SlotsSuit' /\ ResumeHasItsSlot' /\ BindingsSuit' /\ JournalsSuit'
  BY <1>1, <1>2 DEF HandshakesSuit, SlotsSuit, ResumeHasItsSlot, BindingsSuit, JournalsSuit, Fresh
<1>5. OffersSuit' /\ ReadySuits' /\ TokensKept' /\ RevokedSuits'
  BY <1>1, <1>2 DEF OffersSuit, ReadySuits, TokensKept, RevokedSuits
<1> QED BY <1>3, <1>4, <1>5 DEF ResumeInvariant

\* Data on its way to a tab.
LEMMA SendDataKeeps ==
  ASSUME ResumeInvariant, NEW s \in Socket, SendData(s)
  PROVE  ResumeInvariant'
<1>1. /\ TypeOK /\ SocketsSuit /\ TabsSuit /\ WiresSuit /\ HandshakesSuit /\ SlotsSuit
      /\ ResumeHasItsSlot /\ BindingsSuit /\ JournalsSuit /\ OffersSuit /\ ReadySuits
      /\ TokensKept /\ RevokedSuits
  BY DEF ResumeInvariant
<1>2. /\ UNCHANGED <<journal, tab, conn, toServer, handshakes, slots, refused, spent>>
      /\ conn[s] = "current" /\ toTab' = SendTab(s, <<Bare("data")>>)
  BY DEF SendData
<1>3. CASE ~ \E t \in Tab : tab[t].socket = s
  <2>1. toTab' = toTab
    BY <1>2, <1>3 DEF SendTab
  <2> QED BY <1>2, <2>1, StutterKeeps DEF vars
<1>4. ASSUME NEW t \in Tab, tab[t].socket = s PROVE ResumeInvariant'
  <2> DEFINE q == toTab[s]
             m == Bare("data")
             a == Append(q, m)
             n == Len(q)
  <2>1. q \in Seq(Message) /\ m \in Message /\ m.type = "data" /\ s # None
    BY <1>1, FrameTypes, Fields, SocketNumbers
  <2>2. \A u \in Tab : u # t => tab[u].socket # s
    BY <1>1, <1>4, <2>1 DEF TabsSuit
  <2>3. /\ Frames(tab[t], q) /\ Wire(tab[t], q, conn[s], toServer[s])
        /\ \A i \in DOMAIN q : q[i].type # "close"
    BY <1>1, <1>2, <1>4, <2>1 DEF WiresSuit, Wire
  <2>4. tab[t].phase \in {"awaiting_ready", "current", "awaiting_revoke"}
    BY <1>1, <1>2, <1>4, <2>1, <2>3 DEF Wire, TabsSuit, TabSuits, Online
  <2>5. /\ n \in Nat /\ a \in Seq(Message) /\ DOMAIN a = 1 .. n + 1 /\ a[n + 1] = m
        /\ DOMAIN q = 1 .. n /\ Len(a) = n + 1
        /\ \A i \in 1 .. n : a[i] = q[i]
        /\ q # <<>> <=> 1 \in 1 .. n
    BY <2>1
  <2>6. toTab' = [toTab EXCEPT ![s] = a]
    <3>1. q \o <<m>> = a
      BY <2>1
    <3> QED BY <1>2, <1>4, <3>1 DEF SendTab
  <2>7. /\ toTab' \in [Socket -> Seq(Message)] /\ toTab'[s] = a
        /\ \A u \in Socket : u # s => toTab'[u] = toTab[u]
    BY <1>1, <2>5, <2>6 DEF TypeOK
  <2> HIDE DEF q, m, a, n
  <2>8. Frame(tab[t], a, n + 1)
    <3>1. CASE tab[t].phase = "awaiting_ready"
      <4>1. q # <<>> /\ q[1].type = "ready"
        BY <1>2, <2>3, <3>1 DEF Wire
      <4>2. n + 1 > 1 /\ a[1] = q[1]
        BY <2>5, <4>1
      <4> QED BY <2>1, <2>5, <3>1, <4>1, <4>2 DEF Frame
    <3>2. CASE tab[t].phase # "awaiting_ready"
      BY <2>1, <2>4, <2>5, <3>2 DEF Frame
    <3> QED BY <3>1, <3>2
  <2>9. Frames(tab[t], a)
    BY <2>1, <2>3, <2>8, FramesAppend DEF a, n
  <2>10. \A i \in 1 .. n + 1 : i \in 1 .. n \/ i = n + 1
    BY <2>5
  <2>11. /\ Told(a) => Told(q)
         /\ \A type \in {"offer", "ready"} : FirstIs(a, type) => FirstIs(q, type)
         /\ q # <<>> => a # <<>> /\ a[1] = q[1]
         /\ \A i \in DOMAIN a : a[i].type # "close"
    <3>1. Told(a) => Told(q)
      BY <2>1, <2>5, <2>10 DEF Told
    <3>2. \A i \in DOMAIN a : a[i].type # "close"
      BY <2>1, <2>3, <2>5, <2>10
    <3>3. q # <<>> => a # <<>> /\ a[1] = q[1]
      BY <2>5
    <3>4. q = <<>> => n = 0
      BY <2>1 DEF n
    <3>5. \A type \in {"offer", "ready"} : FirstIs(a, type) => FirstIs(q, type)
      <4>1. CASE q = <<>>
        BY <2>1, <2>5, <3>4, <4>1 DEF FirstIs
      <4>2. CASE q # <<>>
        BY <3>3, <4>2 DEF FirstIs
      <4> QED BY <4>1, <4>2
    <3> QED BY <3>1, <3>2, <3>3, <3>5
  <2>12. Wire(tab[t], a, conn[s], toServer[s])
    BY <1>2, <2>3, <2>11 DEF Wire
  <2>13. \A u \in Tab : u # t /\ tab[u].socket # None => toTab'[tab[u].socket] = toTab[tab[u].socket]
    BY <1>1, <2>2, <2>7, Fields
  <2>14. TypeOK'
    BY <1>1, <1>2, <2>7 DEF TypeOK
  <2>15. SocketsSuit'
    <3>1. s <= spent.sockets /\ s \in Nat /\ spent.sockets \in Nat
      BY <1>1, <1>4, Opened, SocketNumbers DEF SocketsSuit
    <3> QED BY <1>1, <1>2, <2>7, <3>1 DEF SocketsSuit
  <2>16. WiresSuit'
    BY <1>1, <1>2, <1>4, <2>3, <2>7, <2>9, <2>12, <2>13 DEF WiresSuit, q
  <2>17. OffersSuit' /\ ReadySuits' /\ RevokedSuits'
    BY <1>1, <1>2, <1>4, <2>7, <2>11, <2>13 DEF OffersSuit, ReadySuits, RevokedSuits, q
  <2>18. TabsSuit' /\ HandshakesSuit' /\ SlotsSuit' /\ ResumeHasItsSlot' /\ BindingsSuit'
           /\ JournalsSuit' /\ TokensKept'
    BY <1>1, <1>2 DEF TabsSuit, HandshakesSuit, SlotsSuit, ResumeHasItsSlot, BindingsSuit,
       JournalsSuit, TokensKept, Fresh
  <2> QED BY <2>14, <2>15, <2>16, <2>17, <2>18 DEF ResumeInvariant
<1> QED BY <1>3, <1>4

\* The tokens of a journal, and the one of an attempt, are known.
LEMMA KnownTokens ==
  ASSUME TypeOK, JournalsSuit, NEW t \in Tab
  PROVE  /\ Known(journal[t].current, spent.sockets, conn)
         /\ Known(journal[t].pending, spent.sockets, conn)
         /\ \A a \in Attempt : Known(Token(journal[t], a), spent.sockets, conn)
<1>1. /\ Known(journal[t].current, spent.sockets, conn)
      /\ Known(journal[t].pending, spent.sockets, conn)
  BY DEF JournalsSuit
<1>2. Known(None, spent.sockets, conn)
  BY DEF Known
<1> QED BY <1>1, <1>2 DEF Token, Attempt

\* What the registry needs to make an offer on socket s.
MayOffer(s, session, generation, fresh) ==
  /\ conn[s] = "hello"
  /\ fresh => /\ session = s /\ toServer[s][1].token = None
              /\ Cardinality(slots) + Cardinality(Fresh) < MaxSessions
  /\ ~ fresh => /\ \E x \in slots : /\ x.session = session /\ x.token = toServer[s][1].token
                                    /\ x.state = "stale" /\ x.generation + 1 = generation
                /\ \A g \in handshakes : g.session # session

\* Of one frame nothing is left.
LEMMA TailOfOne ==
  \A w \in Seq(Message) : Len(w) = 1 => Tail(w) = <<>> /\ Head(w) = w[1]
BY SMTT(60)

\* A new handshake: nothing names its socket yet.
LEMMA OfferKeeps ==
  ASSUME ResumeInvariant, NEW s \in Socket, NEW session \in Socket, NEW generation \in Nat,
         NEW fresh \in BOOLEAN, MayOffer(s, session, generation, fresh),
         Offer(s, session, generation, fresh), UNCHANGED <<journal, tab, slots, refused, spent>>
  PROVE  ResumeInvariant'
<1>1. /\ TypeOK /\ SocketsSuit /\ TabsSuit /\ WiresSuit /\ HandshakesSuit /\ SlotsSuit
      /\ ResumeHasItsSlot /\ BindingsSuit /\ JournalsSuit /\ OffersSuit /\ ReadySuits
      /\ TokensKept /\ RevokedSuits
  BY DEF ResumeInvariant
<1> DEFINE h == [socket |-> s, session |-> session, generation |-> generation, fresh |-> fresh]
           m == Control("offer", s, session, generation)
           k == toServer[s][1].token
<1>2. /\ h.socket = s /\ h.session = session /\ h.generation = generation /\ h.fresh = fresh
      /\ h \in Handshake
  BY DEF Handshake
<1>3. m \in Message /\ m.type = "offer" /\ m.token = s
  BY FrameTypes, SocketNumbers
<1>4. /\ handshakes' = handshakes \cup {h} /\ conn' = [conn EXCEPT ![s] = "commit"]
      /\ toServer' = [toServer EXCEPT ![s] = Tail(@)] /\ toTab' = SendTab(s, <<m>>)
  BY DEF Offer, Take
<1> HIDE DEF h, m
<1>5. conn[s] = "hello" /\ Len(toServer[s]) = 1 /\ toServer[s] \in Seq(Message) /\ s # None /\ s \in Nat
  BY <1>1, Fields, SocketNumbers DEF MayOffer, WiresSuit, ControlSuits
<1>6. /\ conn' \in [Socket -> {"closed", "hello", "commit", "current"}]
      /\ toServer' \in [Socket -> Seq(Message)]
      /\ conn'[s] = "commit" /\ toServer'[s] = <<>>
      /\ \A u \in Socket : u # s => conn'[u] = conn[u] /\ toServer'[u] = toServer[u]
  <2>1. Tail(toServer[s]) = <<>>
    BY <1>5, TailOfOne
  <2>2. <<>> \in Seq(Message)
    OBVIOUS
  <2>3. toServer' = [toServer EXCEPT ![s] = <<>>]
    BY <1>4, <2>1
  <2> QED BY <1>1, <1>4, <2>2, <2>3 DEF TypeOK
<1>7. /\ \A g \in handshakes : g.socket # s /\ g.socket \in Socket
      /\ \A x \in slots : x.token # s /\ x.session # s /\ x.token \in Socket /\ x.session \in Socket
  BY <1>1, <1>5, Fields DEF HandshakesSuit, SlotsSuit, Used
<1>8. \A n : Known(n, spent.sockets, conn) => n # s
  BY <1>5 DEF Known
<1>9. s <= spent.sockets /\ spent.sockets \in Nat
  BY <1>1, <1>5, Opened DEF SocketsSuit
<1>10. ASSUME NEW t \in Tab, tab[t].socket = s
       PROVE  /\ tab[t].phase = "awaiting_offer" /\ toTab[s] = <<>> /\ toTab'[s] = <<m>>
              /\ tab[t].attempt = InitialAttempt(journal[t])
              /\ k = Token(journal[t], tab[t].attempt)
  <2>1. /\ tab[t].phase = "awaiting_offer" /\ toTab[s] = <<>>
        /\ k = Token(journal[t], tab[t].attempt)
    BY <1>1, <1>5, <1>10 DEF WiresSuit, Wire
  <2>2. tab[t].attempt = InitialAttempt(journal[t])
    BY <1>1, <2>1 DEF TabsSuit, TabSuits
  <2>3. toTab' = [toTab EXCEPT ![s] = toTab[s] \o <<m>>]
    BY <1>4, <1>10 DEF SendTab
  <2>4. toTab'[s] = <<>> \o <<m>>
    BY <1>1, <2>1, <2>3 DEF TypeOK
  <2> QED BY <1>3, <2>1, <2>2, <2>4
<1>11. /\ toTab' \in [Socket -> Seq(Message)]
       /\ \A u \in Socket : u # s => toTab'[u] = toTab[u]
  <2>1. <<m>> \in Seq(Message)
    BY <1>3
  <2> QED BY <1>1, <1>4, <2>1 DEF SendTab, TypeOK
<1>12. \A t \in Tab : tab[t].socket # s /\ tab[t].socket # None =>
         /\ toTab'[tab[t].socket] = toTab[tab[t].socket]
         /\ toServer'[tab[t].socket] = toServer[tab[t].socket]
         /\ conn'[tab[t].socket] = conn[tab[t].socket]
  BY <1>1, <1>6, <1>11, Fields
<1>13. TypeOK'
  BY <1>1, <1>2, <1>4, <1>6, <1>11 DEF TypeOK
<1>14. SocketsSuit' /\ TabsSuit'
  <2>1. \A u \in Socket : u > spent.sockets => u # s
    BY <1>5, <1>9, SocketNumbers
  <2>2. SocketsSuit'
    BY <1>1, <1>6, <1>11, <2>1 DEF SocketsSuit
  <2> QED BY <1>1, <2>2 DEF TabsSuit
<1>15. WiresSuit'
  <2>1. \A u \in Socket : ControlSuits(conn'[u], toServer'[u])
    <3>1. ControlSuits("commit", <<>>)
      BY DEF ControlSuits
    <3> QED BY <1>1, <1>6, <3>1 DEF WiresSuit
  <2>2. ASSUME NEW t \in Tab, tab[t].socket = s
        PROVE  Frames(tab[t], toTab'[s]) /\ Wire(tab[t], toTab'[s], conn'[s], toServer'[s])
    <3>1. /\ tab[t].phase = "awaiting_offer" /\ toTab'[s] = <<m>>
      BY <1>10, <2>2
    <3>2. DOMAIN <<m>> = {1} /\ <<m>>[1] = m /\ Len(<<m>>) = 1
      OBVIOUS
    <3> QED BY <1>3, <1>6, <2>2, <3>1, <3>2 DEF Frames, Frame, Wire
  <2> QED BY ZenonT(60), <1>1, <1>6, <1>12, <2>1, <2>2 DEF WiresSuit
<1>16. HandshakesSuit'
  <2>1. IsFiniteSet(handshakes')
    BY <1>1, <1>4, FS_AddElement DEF HandshakesSuit
  <2> QED BY <1>1, <1>2, <1>4, <1>6, <1>7, <2>1 DEF HandshakesSuit, MayOffer
<1>17. SlotsSuit'
  <2>1. Cardinality(slots') + Cardinality(Fresh') <= MaxSessions
    <3>1. /\ Fresh \subseteq handshakes /\ IsFiniteSet(Fresh)
          /\ Cardinality(Fresh) \in Nat /\ Cardinality(slots) \in Nat /\ MaxSessions \in Nat
      <4>1. Fresh \subseteq handshakes
        BY DEF Fresh
      <4> QED BY <1>1, <4>1, FS_Subset, FS_CardinalityType, ResumeAssumption DEF HandshakesSuit, SlotsSuit
    <3>2. CASE fresh
      <4>1. Fresh' = Fresh \cup {h} /\ h \notin Fresh
        BY <1>2, <1>4, <1>7, <3>2 DEF Fresh
      <4>2. Cardinality(Fresh') = Cardinality(Fresh) + 1
        BY <3>1, <4>1, FS_AddElement
      <4> QED BY <3>1, <3>2, <4>2 DEF MayOffer
    <3>3. CASE ~ fresh
      <4>1. Fresh' = Fresh
        BY <1>2, <1>4, <3>3 DEF Fresh
      <4> QED BY <1>1, <4>1 DEF SlotsSuit
    <3> QED BY <3>2, <3>3
  <2> QED BY <1>1, <1>6, <1>7, <2>1 DEF SlotsSuit
<1>18. ResumeHasItsSlot'
  <2> SUFFICES ASSUME NEW g \in handshakes', ~ g.fresh
               PROVE  /\ \E x \in slots : /\ x.session = g.session /\ x.state = "stale"
                                          /\ x.generation + 1 = g.generation
                      /\ \A f \in handshakes' : f.session = g.session => f = g
    BY DEF ResumeHasItsSlot, Fresh
  <2>1. CASE g = h
    <3>1. /\ \E x \in slots : /\ x.session = session /\ x.state = "stale"
                              /\ x.generation + 1 = generation
          /\ \A f \in handshakes : f.session # session
      BY <1>2, <2>1 DEF MayOffer
    <3> QED BY <1>2, <1>4, <2>1, <3>1
  <2>2. CASE g \in handshakes
    <3>1. /\ \E x \in slots : /\ x.session = g.session /\ x.state = "stale"
                              /\ x.generation + 1 = g.generation
          /\ \A f \in handshakes : f.session = g.session => f = g
      BY <1>1, <2>2 DEF ResumeHasItsSlot, Fresh
    <3>2. h.session # g.session
      <4>1. CASE fresh
        BY <1>2, <1>7, <3>1, <4>1 DEF MayOffer
      <4>2. CASE ~ fresh
        BY <1>2, <2>2, <4>2 DEF MayOffer
      <4> QED BY <4>1, <4>2
    <3> QED BY <1>4, <3>1, <3>2
  <2> QED BY <1>4, <2>1, <2>2
<1>19. BindingsSuit'
  BY <1>1, <1>6, <1>12 DEF BindingsSuit
<1>20. JournalsSuit'
  <2> SUFFICES ASSUME NEW t \in Tab
               PROVE  /\ Known(journal[t].current, spent.sockets, conn')
                      /\ Known(journal[t].pending, spent.sockets, conn')
                      /\ JournalSuits(journal[t], handshakes', slots)
    BY DEF JournalsSuit
  <2>1. \A n : Known(n, spent.sockets, conn) => Known(n, spent.sockets, conn')
    BY <1>1, <1>6, Opened DEF Known
  <2>2. journal[t].current # s /\ journal[t].pending # s
    BY <1>1, <1>8, KnownTokens
  <2>3. JournalSuits(journal[t], handshakes, slots)
    BY <1>1 DEF JournalsSuit
  <2>4. JournalSuits(journal[t], handshakes', slots)
    BY <1>2, <1>4, <2>2, <2>3 DEF JournalSuits
  <2> QED BY <1>1, <2>1, <2>4, KnownTokens
<1>21. OffersSuit'
  <2> SUFFICES ASSUME NEW t \in Tab, tab[t].socket # None, FirstIs(toTab'[tab[t].socket], "offer")
               PROVE  OfferSuits(tab[t], journal[t], handshakes', slots)
    BY DEF OffersSuit
  <2> DEFINE key == Token(journal[t], tab[t].attempt)
  <2>1. key # s /\ tab[t].attempt \in Attempt
    BY <1>1, <1>8, Fields, KnownTokens
  <2>2. CASE tab[t].socket # s
    <3>1. OfferSuits(tab[t], journal[t], handshakes, slots)
      BY <1>1, <1>12, <2>2 DEF OffersSuit
    <3> QED BY <1>2, <1>4, <2>1, <2>2, <3>1 DEF OfferSuits
  <2>3. CASE tab[t].socket = s
    <3>1. tab[t].attempt = InitialAttempt(journal[t]) /\ k = key
      BY <1>10, <2>3
    <3>2. JournalSuits(journal[t], handshakes, slots) /\ journal[t] \in [current : Nat, pending : Nat]
      BY <1>1, Fields DEF JournalsSuit
    <3>3. CASE fresh
      <4>1. key = None
        BY <3>1, <3>3 DEF MayOffer
      <4>2. tab[t].attempt # "pending"
        BY <3>1, <3>2, <4>1, Attempts DEF Token
      <4>3. None \notin Socket
        BY SocketNumbers
      <4> QED BY <1>2, <1>4, <1>5, <1>7, <2>1, <2>3, <4>1, <4>2, <4>3 DEF OfferSuits
    <3>4. CASE ~ fresh
      <4>1. PICK x \in slots : x.session = session /\ x.token = key
        BY <3>1, <3>4 DEF MayOffer
      <4>2. \A y \in slots : y.token = key => y = x
        BY <1>1, <4>1 DEF TypeOK
      <4>3. \A g \in handshakes : g.socket # key
        BY <1>1, <4>1 DEF HandshakesSuit, SlotsSuit, Used
      <4>4. tab[t].attempt = "pending" => \A y \in slots : y.token # journal[t].current
        <5>1. tab[t].attempt = "pending" => key = journal[t].pending
          BY DEF Token
        <5> QED BY <3>2, <4>1, <5>1 DEF JournalSuits
      <4> QED BY <1>2, <1>4, <1>7, <2>1, <2>3, <4>1, <4>2, <4>3, <4>4 DEF OfferSuits
    <3> QED BY <3>3, <3>4
  <2> QED BY <2>2, <2>3
<1>22. ReadySuits'
  <2>1. \A t \in Tab : tab[t].socket = s => ~ FirstIs(toTab'[s], "ready")
    BY <1>3, <1>10 DEF FirstIs
  <2> QED BY <1>1, <1>12, <2>1 DEF ReadySuits
<1>23. TokensKept'
  BY <1>1, <1>2, <1>4, <1>6, <1>7 DEF TokensKept
<1>24. RevokedSuits'
  <2>1. \A n : Gone(n, spent.sockets, conn, slots) => Gone(n, spent.sockets, conn', slots)
    BY <1>1, <1>5, <1>6, Opened DEF Gone, Used
  <2>2. \A t \in Tab : tab[t].socket = s => ~ Told(toTab'[s])
    BY <1>3, <1>10 DEF Told
  <2> QED BY <1>1, <1>12, <2>1, <2>2 DEF RevokedSuits
<1> QED BY <1>13, <1>14, <1>15, <1>16, <1>17, <1>18, <1>19, <1>20, <1>21, <1>22, <1>23, <1>24
        DEF ResumeInvariant

\* A Hello is answered with an offer.
LEMMA BeginKeeps ==
  ASSUME ResumeInvariant, NEW s \in Socket, BeginFresh(s) \/ BeginResume(s)
  PROVE  ResumeInvariant'
<1>1. TypeOK /\ WiresSuit /\ conn[s] = "hello" /\ Head(toServer[s]) = toServer[s][1]
  <2>1. TypeOK /\ WiresSuit /\ conn[s] = "hello"
    BY DEF ResumeInvariant, BeginFresh, BeginResume
  <2>2. toServer[s] \in Seq(Message) /\ Len(toServer[s]) = 1
    BY <2>1, Fields DEF WiresSuit, ControlSuits
  <2> QED BY <2>1, <2>2
<1>2. UNCHANGED <<journal, tab, slots, refused, spent>>
  BY DEF BeginFresh, BeginResume
<1>3. CASE BeginFresh(s)
  <2>1. MayOffer(s, s, 1, TRUE) /\ Offer(s, s, 1, TRUE)
    BY <1>1, <1>3 DEF BeginFresh, MayOffer, CanStart, HasCapacity
  <2> QED BY <1>2, <2>1, OfferKeeps
<1>4. CASE BeginResume(s)
  <2>1. PICK x \in Resumable(toServer[s][1].token) : Offer(s, x.session, x.generation + 1, FALSE)
    BY <1>1, <1>4 DEF BeginResume
  <2>2. /\ x \in slots /\ x.token = toServer[s][1].token /\ x.state = "stale"
        /\ \A h \in handshakes : h.session # x.session
    BY DEF Resumable
  <2>3. MayOffer(s, x.session, x.generation + 1, FALSE)
    BY <1>1, <2>2 DEF MayOffer
  <2>4. x.session \in Socket /\ x.generation + 1 \in Nat
    BY <1>1, <2>2, Fields
  <2> QED BY <1>2, <2>1, <2>3, <2>4, OfferKeeps
<1> QED BY <1>3, <1>4

\* The slot y that the commit of handshake h leaves in place of the slots xs.
Installs(h, y, xs) ==
  /\ y \in SlotType /\ y.session = h.session /\ y.token = h.socket /\ y.generation = h.generation
  /\ y.state \in {"connected", "removing"}
  /\ y.connection = IF y.state = "connected" THEN h.socket ELSE None
  /\ slots' = (slots \ xs) \cup {y}
  /\ \/ h.fresh /\ xs = {}
     \/ ~ h.fresh /\ \E x \in slots : xs = {x} /\ x.session = h.session /\ x.state = "stale"

\* What the commit leaves of its socket s: current, or closed.
Settles(s, y) ==
  /\ conn' \in [Socket -> {"closed", "hello", "commit", "current"}]
  /\ toServer' \in [Socket -> Seq(Message)] /\ toTab' \in [Socket -> Seq(Message)]
  /\ \A u \in Socket : u # s => SameSocket(u)
  /\ conn'[s] \in Used /\ toServer'[s] = <<>>
  /\ conn'[s] = "current" => y.state = "connected"
  /\ \A t \in Tab : tab[t].socket = s =>
       /\ Frames(tab[t], toTab'[s]) /\ Wire(tab[t], toTab'[s], conn'[s], <<>>)
       /\ ~ FirstIs(toTab'[s], "offer") /\ ~ Told(toTab'[s])

\* A handshake becomes a slot: the token on offer becomes the one in use.
LEMMA InstallKeeps ==
  ASSUME ResumeInvariant, NEW s \in Socket, NEW h \in handshakes, h.socket = s,
         NEW y, NEW xs, Installs(h, y, xs), Settles(s, y),
         toServer[s] # <<>>, toServer[s][1].session = h.session,
         toServer[s][1].generation = h.generation,
         handshakes' = handshakes \ {h}, UNCHANGED <<journal, tab, refused>>,
         spent' \in Spending, spent'.sockets = spent.sockets
  PROVE  ResumeInvariant'
<1>1. /\ TypeOK /\ SocketsSuit /\ TabsSuit /\ WiresSuit /\ HandshakesSuit /\ SlotsSuit
      /\ ResumeHasItsSlot /\ BindingsSuit /\ JournalsSuit /\ OffersSuit /\ ReadySuits
      /\ TokensKept /\ RevokedSuits
  BY DEF ResumeInvariant
<1>2. /\ s # None /\ s \in Nat /\ None \notin Socket /\ conn[s] = "commit"
      /\ \A g \in handshakes : g.socket = s => g = h
      /\ h.fresh => h.session = s
      /\ h.session \in Socket /\ h.fresh \in BOOLEAN
  BY <1>1, Fields, SocketNumbers DEF HandshakesSuit
<1>3. \A x \in slots : /\ x.token # s /\ x.session # s /\ x.token \in Socket /\ x.session \in Socket
                       /\ x.connection # s
                       /\ conn[x.token] \in Used /\ conn[x.session] \in Used
                       /\ x.connection # None => x.state = "connected"
  <2>1. \A x \in slots : conn[x.token] \in Used /\ conn[x.session] \in Used
                         /\ x.connection \in {None, x.token}
    BY <1>1 DEF SlotsSuit
  <2>2. conn[s] \notin Used
    BY <1>2 DEF Used
  <2>3. \A x \in slots : x.connection # None => x.state = "connected"
    BY <1>1 DEF TypeOK
  <2> QED BY <1>1, <1>2, <2>1, <2>2, <2>3, Fields
<1>4. \A x \in slots : x.session = h.session => x \in xs
  <2>1. CASE h.fresh
    BY <1>2, <1>3, <2>1
  <2>2. CASE ~ h.fresh
    <3>1. PICK z \in slots : xs = {z} /\ z.session = h.session
      BY <2>2 DEF Installs
    <3> QED BY <1>1, <3>1 DEF TypeOK
  <2> QED BY <2>1, <2>2
<1>5. /\ y.session = h.session /\ y.token = s /\ y.generation = h.generation /\ y \in SlotType
      /\ y.state \in {"connected", "removing"}
      /\ y.connection = IF y.state = "connected" THEN s ELSE None
      /\ slots' = (slots \ xs) \cup {y} /\ y \in slots'
      /\ \A x \in slots' : x = y \/ (x \in slots /\ x \notin xs)
      /\ \A x \in xs : x \in slots /\ x.state = "stale" /\ x.session = h.session
  BY DEF Installs
<1>6. /\ \A u \in Socket : u # s => conn'[u] = conn[u] /\ toServer'[u] = toServer[u] /\ toTab'[u] = toTab[u]
      /\ conn'[s] \in Used /\ toServer'[s] = <<>>
      /\ conn'[s] = "current" => y.state = "connected"
      /\ handshakes' \subseteq handshakes /\ \A g \in handshakes' : g.socket # s /\ g \in handshakes
      /\ journal' = journal /\ tab' = tab /\ refused' = refused /\ spent'.sockets = spent.sockets
  BY <1>2 DEF Settles, SameSocket
<1>7. \A t \in Tab : tab[t].socket = s =>
        /\ Frames(tab[t], toTab'[s]) /\ Wire(tab[t], toTab'[s], conn'[s], <<>>)
        /\ ~ FirstIs(toTab'[s], "offer") /\ ~ Told(toTab'[s])
  BY DEF Settles
<1>8. ASSUME NEW t \in Tab, tab[t].socket = s
      PROVE  /\ tab[t].phase = "awaiting_ready" /\ tab[t].session = h.session
             /\ tab[t].generation = h.generation /\ journal[t].pending = s
  <2>1. Wire(tab[t], toTab[s], "commit", toServer[s])
    BY <1>1, <1>2, <1>8 DEF WiresSuit
  <2>2. /\ tab[t].phase = "awaiting_ready" /\ tab[t].session = h.session
        /\ tab[t].generation = h.generation
    BY <2>1 DEF Wire
  <2> QED BY <1>1, <1>8, <2>2 DEF TabsSuit, TabSuits
<1>9. \A t \in Tab : tab[t].socket # s /\ tab[t].socket # None =>
         /\ toTab'[tab[t].socket] = toTab[tab[t].socket]
         /\ toServer'[tab[t].socket] = toServer[tab[t].socket]
         /\ conn'[tab[t].socket] = conn[tab[t].socket]
  BY <1>1, <1>6, Fields
<1>10. s <= spent.sockets /\ spent.sockets \in Nat
  BY <1>1, <1>2, Opened DEF SocketsSuit
<1>11. \A t \in Tab : /\ JournalSuits(journal[t], handshakes, slots) /\ journal[t].current # s
                      /\ \A x \in slots : journal[t].pending = s /\ x.token = journal[t].current =>
                           x.session = h.session
  BY <1>1 DEF JournalsSuit, JournalSuits
<1>12. TypeOK'
  <2>1. \A x \in slots' : x.connection # None <=> x.state = "connected"
    BY <1>1, <1>2, <1>5 DEF TypeOK
  <2>2. \A x \in slots' : x = y \/ (x.session # y.session /\ x.token # y.token /\ x.connection # s)
    BY <1>3, <1>4, <1>5
  <2>3. \A x \in slots' : x = y \/ x.connection = None \/ x.connection # y.connection
    BY <1>5, <2>2
  <2>4. ASSUME NEW x \in slots', NEW z \in slots', x # z
        PROVE  /\ x.session # z.session /\ x.token # z.token
               /\ x.connection = None \/ x.connection # z.connection
    <3>1. CASE x # y /\ z # y
      <4>1. x \in slots /\ z \in slots
        BY <1>5, <3>1
      <4> QED BY <1>1, <2>4, <4>1 DEF TypeOK
    <3>2. CASE x = y
      BY <2>2, <2>3, <2>4, <3>2
    <3>3. CASE z = y
      BY <2>2, <2>3, <2>4, <3>3
    <3> QED BY <3>1, <3>2, <3>3
  <2>5. slots' \subseteq SlotType /\ handshakes' \subseteq Handshake
    BY <1>1, <1>5, <1>6 DEF TypeOK
  <2>6. /\ conn' \in [Socket -> {"closed", "hello", "commit", "current"}]
        /\ toServer' \in [Socket -> Seq(Message)] /\ toTab' \in [Socket -> Seq(Message)]
    BY DEF Settles
  <2> QED BY <1>1, <1>6, <2>1, <2>4, <2>5, <2>6 DEF TypeOK
<1>13. SocketsSuit'
  <2>1. \A u \in Socket : u > spent.sockets => u # s
    BY <1>2, <1>10, SocketNumbers
  <2> QED BY <1>1, <1>6, <2>1 DEF SocketsSuit, Spending
<1>14. TabsSuit'
  BY <1>1, <1>6 DEF TabsSuit
<1>15. WiresSuit'
  <2>1. ControlSuits(conn'[s], <<>>)
    BY <1>6 DEF ControlSuits, Used
  <2>2. \A u \in Socket : ControlSuits(conn'[u], toServer'[u])
    BY <1>1, <1>6, <2>1 DEF WiresSuit
  <2>3. conn'[s] # "hello"
    BY <1>6 DEF Used
  <2> QED BY <1>1, <1>6, <1>7, <1>9, <2>2, <2>3 DEF WiresSuit
<1>16. HandshakesSuit'
  <2>1. IsFiniteSet(handshakes')
    BY <1>1, <1>6, FS_Subset DEF HandshakesSuit
  <2>2. \A g \in handshakes' : g.socket \in Socket
    BY <1>1, <1>6, Fields
  <2> QED BY <1>1, <1>6, <2>1, <2>2 DEF HandshakesSuit
<1>17. SlotsSuit'
  <2>1. /\ IsFiniteSet(slots) /\ Fresh \subseteq handshakes /\ IsFiniteSet(Fresh)
        /\ Cardinality(Fresh) \in Nat /\ Cardinality(slots) \in Nat /\ MaxSessions \in Nat
        /\ Cardinality(slots) + Cardinality(Fresh) <= MaxSessions
    <3>1. Fresh \subseteq handshakes
      BY DEF Fresh
    <3> QED BY <1>1, <3>1, FS_Subset, FS_CardinalityType, ResumeAssumption DEF HandshakesSuit, SlotsSuit
  <2>2. y \notin slots
    BY <1>3, <1>5
  <2>3. CASE h.fresh
    <3>1. slots' = slots \cup {y}
      BY <1>5, <2>3 DEF Installs
    <3>2. IsFiniteSet(slots') /\ Cardinality(slots') = Cardinality(slots) + 1
      BY <2>1, <2>2, <3>1, FS_AddElement
    <3>3. Fresh' = Fresh \ {h} /\ h \in Fresh
      BY <2>3 DEF Fresh
    <3>4. Cardinality(Fresh') = Cardinality(Fresh) - 1
      BY <2>1, <3>3, FS_RemoveElement
    <3>5. Cardinality(slots') + Cardinality(Fresh') <= MaxSessions
      BY <2>1, <3>2, <3>4
    <3>6. y.session = s
      BY <1>2, <1>5, <2>3
    <3> QED BY <1>1, <1>3, <1>5, <1>6, <1>10, <3>2, <3>5, <3>6 DEF SlotsSuit
  <2>4. CASE ~ h.fresh
    <3>1. PICK x \in slots : xs = {x} /\ x.session = h.session
      BY <2>4 DEF Installs
    <3>2. IsFiniteSet(slots \ {x}) /\ Cardinality(slots \ {x}) = Cardinality(slots) - 1
      BY <2>1, FS_RemoveElement
    <3>3. slots' = (slots \ {x}) \cup {y} /\ y \notin slots \ {x}
      BY <1>5, <2>2, <3>1
    <3>4. IsFiniteSet(slots') /\ Cardinality(slots') = Cardinality(slots \ {x}) + 1
      BY <3>2, <3>3, FS_AddElement
    <3>5. Cardinality(slots') = Cardinality(slots)
      BY <2>1, <3>2, <3>4
    <3>6. Fresh' = Fresh
      BY <2>4 DEF Fresh
    <3>7. y.session = x.session /\ conn[x.session] \in Used /\ x.session <= spent.sockets
          /\ x.session # s /\ x.session \in Socket
      BY <1>1, <1>3, <1>5, <3>1 DEF SlotsSuit
    <3> QED BY <1>1, <1>3, <1>5, <1>6, <1>10, <2>1, <3>4, <3>5, <3>6, <3>7 DEF SlotsSuit
  <2> QED BY <2>3, <2>4
<1>18. ResumeHasItsSlot'
  <2> SUFFICES ASSUME NEW g \in handshakes', ~ g.fresh
               PROVE  /\ \E x \in slots' : /\ x.session = g.session /\ x.state = "stale"
                                           /\ x.generation + 1 = g.generation
                      /\ \A f \in handshakes' : f.session = g.session => f = g
    BY DEF ResumeHasItsSlot, Fresh
  <2>1. /\ \E x \in slots : /\ x.session = g.session /\ x.state = "stale"
                            /\ x.generation + 1 = g.generation
        /\ \A f \in handshakes : f.session = g.session => f = g
    BY <1>1, <1>6 DEF ResumeHasItsSlot, Fresh
  <2>2. h.session # g.session
    BY <1>6, <2>1
  <2> QED BY <1>5, <1>6, <2>1, <2>2
<1>19. BindingsSuit'
  <2> SUFFICES ASSUME NEW t \in Tab, tab[t].socket # None, conn'[tab[t].socket] = "current"
               PROVE  \E x \in slots' : /\ x.connection = tab[t].socket
                                        /\ x.session = tab[t].session
                                        /\ x.generation = tab[t].generation
    BY <1>6 DEF BindingsSuit
  <2>1. CASE tab[t].socket = s
    BY <1>5, <1>6, <1>8, <2>1
  <2>2. CASE tab[t].socket # s
    <3>1. PICK x \in slots : /\ x.connection = tab[t].socket /\ x.session = tab[t].session
                             /\ x.generation = tab[t].generation
      BY <1>1, <1>9, <2>2 DEF BindingsSuit
    <3>2. x \notin xs
      BY <1>3, <1>5, <3>1
    <3> QED BY <1>5, <3>1, <3>2
  <2> QED BY <2>1, <2>2
<1>20. JournalsSuit'
  <2> SUFFICES ASSUME NEW t \in Tab
               PROVE  /\ Known(journal[t].current, spent.sockets, conn')
                      /\ Known(journal[t].pending, spent.sockets, conn')
                      /\ JournalSuits(journal[t], handshakes', slots')
    BY <1>6 DEF JournalsSuit
  <2>1. \A n : Known(n, spent.sockets, conn) => Known(n, spent.sockets, conn')
    BY <1>1, <1>6, Opened DEF Known, Used
  <2>2. JournalSuits(journal[t], handshakes', slots')
    BY <1>4, <1>5, <1>6, <1>11 DEF JournalSuits
  <2> QED BY <1>1, <2>1, <2>2, KnownTokens
<1>21. OffersSuit'
  <2> SUFFICES ASSUME NEW t \in Tab, tab[t].socket # None, FirstIs(toTab'[tab[t].socket], "offer")
               PROVE  OfferSuits(tab[t], journal[t], handshakes', slots')
    BY <1>6 DEF OffersSuit
  <2>1. tab[t].socket # s
    BY <1>7
  <2>2. OfferSuits(tab[t], journal[t], handshakes, slots)
    BY <1>1, <1>9, <2>1 DEF OffersSuit
  <2> QED BY <1>5, <1>6, <1>11, <2>1, <2>2 DEF OfferSuits
<1>22. ReadySuits'
  <2> SUFFICES ASSUME NEW t \in Tab, tab[t].socket # None, FirstIs(toTab'[tab[t].socket], "ready"),
                      NEW x \in slots', x.token = journal[t].current
               PROVE  FALSE
    BY <1>6 DEF ReadySuits
  <2>1. x \in slots /\ x \notin xs
    BY <1>5, <1>11
  <2>2. CASE tab[t].socket = s
    BY <1>4, <1>8, <1>11, <2>1, <2>2
  <2>3. CASE tab[t].socket # s
    BY <1>1, <1>9, <2>1, <2>3 DEF ReadySuits
  <2> QED BY <2>2, <2>3
<1>23. TokensKept'
  <2>1. Kept(s, journal, refused)
    BY <1>1 DEF TokensKept
  <2>2. \A x \in slots' : x.state # "removing" => Kept(x.token, journal, refused)
    BY <1>1, <1>5, <2>1 DEF TokensKept
  <2>3. \A g \in handshakes' : g.socket \in Socket
    BY <1>1, <1>6, Fields
  <2> QED BY <1>1, <1>6, <2>2, <2>3 DEF TokensKept
<1>24. RevokedSuits'
  <2>1. ASSUME NEW n, Gone(n, spent.sockets, conn, slots) PROVE Gone(n, spent.sockets, conn', slots')
    <3>1. n \in Socket /\ conn[n] \in Used /\ n # s
      BY <1>1, <1>2, <2>1, Opened DEF Gone, Used
    <3>2. n # h.session
      BY <1>2, <2>1, <3>1 DEF Gone, Installs
    <3> QED BY <1>5, <1>6, <2>1, <3>1, <3>2 DEF Gone
  <2>2. ASSUME NEW t \in Tab, tab[t].socket # None, Told(toTab'[tab[t].socket])
        PROVE  Gone(tab[t].session, spent.sockets, conn', slots') /\ \A x \in slots' : x.token # tab[t].socket
    <3>1. tab[t].socket # s
      BY <1>7, <2>2
    <3>2. Gone(tab[t].session, spent.sockets, conn, slots) /\ \A x \in slots : x.token # tab[t].socket
      BY <1>1, <1>9, <2>2, <3>1 DEF RevokedSuits
    <3> QED BY <1>5, <2>1, <3>1, <3>2
  <2>3. \A t \in Tab : tab[t].phase = "revoked" => Gone(tab[t].session, spent.sockets, conn', slots')
    BY <1>1, <2>1 DEF RevokedSuits
  <2> QED BY <1>6, <2>2, <2>3 DEF RevokedSuits
<1> QED BY <1>12, <1>13, <1>14, <1>15, <1>16, <1>17, <1>18, <1>19, <1>20, <1>21, <1>22, <1>23, <1>24
        DEF ResumeInvariant

\* The tab that waits on socket s has sent the commit, and nothing is under way to it.
LEMMA CommitRead ==
  ASSUME ResumeInvariant, NEW s \in Socket, NEW h \in handshakes, h.socket = s,
         HasControl(s, "commit"), Matches(s, h)
  PROVE  /\ conn[s] = "commit" /\ toServer[s] # <<>> /\ Tail(toServer[s]) = <<>>
         /\ toServer[s][1].session = h.session /\ toServer[s][1].generation = h.generation
         /\ \A g \in handshakes : g.socket = s => g = h
         /\ \A t \in Tab : tab[t].socket = s =>
              /\ tab[t].phase = "awaiting_ready" /\ toTab[s] = <<>>
              /\ tab[t].session = h.session /\ tab[t].generation = h.generation
<1>1. TypeOK /\ WiresSuit /\ HandshakesSuit /\ toServer[s] # <<>> /\ s # None
  BY SocketNumbers DEF ResumeInvariant, HasControl
<1>2. toServer[s] \in Seq(Message) /\ Len(toServer[s]) <= 1
  BY <1>1, Fields DEF WiresSuit, ControlSuits
<1>3. \A w \in Seq(Message) : Len(w) \in Nat /\ (Len(w) = 0 <=> w = <<>>)
  OBVIOUS
<1>4. Len(toServer[s]) = 1
  <2>1. Len(toServer[s]) \in Nat /\ Len(toServer[s]) # 0
    BY <1>1, <1>2, <1>3
  <2>2. \A n \in Nat : n <= 1 /\ n # 0 => n = 1
    OBVIOUS
  <2> QED BY <1>2, <2>1, <2>2, Zenon
<1>5. Tail(toServer[s]) = <<>> /\ Head(toServer[s]) = toServer[s][1]
  BY <1>2, <1>4, TailOfOne
<1>6. toServer[s][1].session = h.session /\ toServer[s][1].generation = h.generation
  BY <1>5 DEF Matches
<1>7. conn[s] = "commit" /\ \A g \in handshakes : g.socket = s => g = h
  BY <1>1 DEF HandshakesSuit
<1>8. ASSUME NEW t \in Tab, tab[t].socket = s
      PROVE  /\ tab[t].phase = "awaiting_ready" /\ toTab[s] = <<>>
             /\ tab[t].session = h.session /\ tab[t].generation = h.generation
  <2>1. Wire(tab[t], toTab[s], "commit", toServer[s])
    BY <1>1, <1>7, <1>8 DEF WiresSuit
  <2> QED BY <1>1, <1>6, <2>1 DEF Wire
<1> QED BY <1>1, <1>5, <1>6, <1>7, <1>8

\* ServerReady is the first frame after the commit.
LEMMA ReadySettles ==
  ASSUME ResumeInvariant, NEW s \in Socket, NEW h \in handshakes, h.socket = s,
         HasControl(s, "commit"), Matches(s, h), CommitReady(s, h)
  PROVE  Settles(s, Slot(h))
<1>1. TypeOK
  BY DEF ResumeInvariant
<1> DEFINE m == Control("ready", None, h.session, h.generation)
<1>2. /\ m \in Message /\ m.type = "ready" /\ m.session = h.session /\ m.generation = h.generation
  <2>1. None \in Nat /\ h.session \in Nat /\ h.generation \in Nat
    BY <1>1, Fields, SocketNumbers
  <2>2. \A a, b, g \in Nat :
          /\ Control("ready", a, b, g) \in Message /\ Control("ready", a, b, g).type = "ready"
          /\ Control("ready", a, b, g).session = b /\ Control("ready", a, b, g).generation = g
    BY FrameTypes
  <2> HIDE DEF m
  <2> QED BY <2>1, <2>2 DEF m
<1>3. /\ conn' = [conn EXCEPT ![s] = "current"] /\ toServer' = [toServer EXCEPT ![s] = Tail(@)]
      /\ toTab' = SendTab(s, <<m>>)
  BY DEF CommitReady, Take
<1> HIDE DEF m
<1>4. /\ conn[s] = "commit" /\ Tail(toServer[s]) = <<>>
      /\ \A t \in Tab : tab[t].socket = s =>
              /\ tab[t].phase = "awaiting_ready" /\ toTab[s] = <<>>
              /\ tab[t].session = h.session /\ tab[t].generation = h.generation
  BY CommitRead
<1>5. <<>> \in Seq(Message) /\ <<m>> \in Seq(Message) /\ <<>> \o <<m>> = <<m>>
      /\ DOMAIN <<m>> = {1} /\ <<m>>[1] = m /\ Len(<<m>>) = 1
  BY <1>2
<1>6. toServer' = [toServer EXCEPT ![s] = <<>>]
  BY <1>3, <1>4
<1>7. /\ conn' \in [Socket -> {"closed", "hello", "commit", "current"}]
      /\ toServer' \in [Socket -> Seq(Message)]
      /\ conn'[s] = "current" /\ toServer'[s] = <<>>
      /\ \A u \in Socket : u # s => conn'[u] = conn[u] /\ toServer'[u] = toServer[u]
  <2>1. /\ conn' \in [Socket -> {"closed", "hello", "commit", "current"}]
        /\ conn'[s] = "current" /\ \A u \in Socket : u # s => conn'[u] = conn[u]
    BY <1>1, <1>3 DEF TypeOK
  <2>2. toServer \in [Socket -> Seq(Message)] /\ <<>> \in Seq(Message)
    BY <1>1, <1>5 DEF TypeOK
  <2>3. /\ toServer' \in [Socket -> Seq(Message)] /\ toServer'[s] = <<>>
        /\ \A u \in Socket : u # s => toServer'[u] = toServer[u]
    BY <1>6, <2>2
  <2> QED BY <2>1, <2>3
<1>8. /\ toTab' \in [Socket -> Seq(Message)]
      /\ \A u \in Socket : u # s => toTab'[u] = toTab[u]
      /\ \A t \in Tab : tab[t].socket = s => toTab'[s] = <<m>>
  <2>1. CASE ~ \E t \in Tab : tab[t].socket = s
    BY <1>1, <1>3, <2>1 DEF SendTab, TypeOK
  <2>2. CASE \E t \in Tab : tab[t].socket = s
    <3>1. toTab[s] = <<>>
      BY <1>4, <2>2
    <3>2. toTab' = [toTab EXCEPT ![s] = <<m>>]
      BY <1>3, <1>5, <2>2, <3>1 DEF SendTab
    <3> QED BY <1>1, <1>5, <3>2 DEF TypeOK
  <2> QED BY <2>1, <2>2
<1>9. ASSUME NEW t \in Tab, tab[t].socket = s
      PROVE  /\ Frames(tab[t], <<m>>) /\ Wire(tab[t], <<m>>, "current", <<>>)
             /\ ~ FirstIs(<<m>>, "offer") /\ ~ Told(<<m>>)
  <2>1. tab[t].phase = "awaiting_ready" /\ tab[t].session = h.session /\ tab[t].generation = h.generation
    BY <1>4, <1>9
  <2>2. Frames(tab[t], <<m>>)
    BY <1>2, <1>5, <2>1 DEF Frames, Frame
  <2>3. Wire(tab[t], <<m>>, "current", <<>>)
    BY <1>2, <1>5, <2>1 DEF Wire
  <2> QED BY <1>2, <1>5, <2>2, <2>3 DEF FirstIs, Told
<1>10. \A u \in Socket : u # s => SameSocket(u)
  BY <1>7, <1>8 DEF SameSocket
<1>11. Slot(h).state = "connected"
  BY DEF Slot
<1> QED BY <1>7, <1>8, <1>9, <1>10, <1>11 DEF Settles, Used

\* A commit that fails on the way closes the socket.
LEMMA CloseSettles ==
  ASSUME ResumeInvariant, NEW s \in Socket, NEW h \in handshakes, h.socket = s,
         HasControl(s, "commit"), Matches(s, h), CloseTransport(s, <<>>),
         NEW y \in slots', y.session = h.session
  PROVE  Settles(s, y)
<1>1. LastWords(s, <<>>)
  BY DEF LastWords
<1>2. /\ conn' \in [Socket -> {"closed", "hello", "commit", "current"}]
      /\ toServer' \in [Socket -> Seq(Message)] /\ toTab' \in [Socket -> Seq(Message)]
      /\ \A u \in Socket : u # s => SameSocket(u)
      /\ conn'[s] = "closed" /\ (SameSocket(s) \/ ClosesSocket(s))
  BY <1>1, TransportCloses
<1>3. /\ conn[s] = "commit"
      /\ \A t \in Tab : tab[t].socket = s => toTab[s] = <<>> /\ tab[t].session = h.session
  BY CommitRead
<1>4. ClosesSocket(s)
  BY <1>2, <1>3 DEF SameSocket
<1>5. toServer'[s] = <<>>
  BY <1>4 DEF ClosesSocket
<1>6. ASSUME NEW t \in Tab, tab[t].socket = s
      PROVE  /\ Frames(tab[t], toTab'[s]) /\ Wire(tab[t], toTab'[s], conn'[s], <<>>)
             /\ ~ FirstIs(toTab'[s], "offer") /\ ~ Told(toTab'[s])
  <2>1. /\ Frames(tab[t], toTab'[s])
        /\ FirstIs(toTab'[s], "offer") => FirstIs(toTab[s], "offer")
        /\ Told(toTab'[s]) /\ ~ Told(toTab[s]) => \A x \in slots' : x.session # tab[t].session
    BY <1>4, <1>6 DEF ClosesSocket
  <2>2. toTab[s] = <<>> /\ tab[t].session = h.session
    BY <1>3, <1>6
  <2>3. ~ FirstIs(<<>>, "offer") /\ ~ Told(<<>>)
    BY DEF FirstIs, Told
  <2>4. Wire(tab[t], toTab'[s], "closed", <<>>)
    BY DEF Wire
  <2> QED BY <1>2, <2>1, <2>2, <2>3, <2>4
<1> QED BY <1>2, <1>5, <1>6 DEF Settles, Used

\* The handshake is committed, or fails after its slot was made.
LEMMA CommitKeeps ==
  ASSUME ResumeInvariant, NEW s \in Socket,
         CommitFresh(s) \/ CommitResume(s) \/ (CommitFails(s) /\ slots' # slots)
  PROVE  ResumeInvariant'
<1>1. TypeOK /\ SocketsSuit /\ HandshakesSuit /\ HasControl(s, "commit")
      /\ UNCHANGED <<journal, tab, refused>>
  BY DEF ResumeInvariant, CommitFresh, CommitResume, CommitFails
<1>2. spent' \in Spending /\ spent'.sockets = spent.sockets
  <2>1. UnderPressure \/ UNCHANGED spent
    BY DEF CommitFresh, CommitResume, CommitFails
  <2> QED BY <1>1, <2>1, SpendingTypes
<1>3. ASSUME NEW h \in handshakes, h.socket = s
      PROVE  /\ Slot(h) \in SlotType /\ Slot(h).session = h.session /\ Slot(h).token = s
             /\ Slot(h).generation = h.generation /\ Slot(h).state = "connected"
             /\ Slot(h).connection = s
  <2>1. h.session \in Socket /\ h.generation \in Nat
    BY <1>1, Fields
  <2> QED BY <1>3, <2>1 DEF Slot, SlotType, SlotState
<1>4. CASE CommitFresh(s)
  <2>1. PICK h \in handshakes : /\ h.socket = s /\ h.fresh /\ Matches(s, h)
                                /\ slots' = slots \cup {Slot(h)} /\ CommitReady(s, h)
    BY <1>4 DEF CommitFresh, Committing
  <2>2. Installs(h, Slot(h), {})
    BY <1>3, <2>1 DEF Installs
  <2>3. handshakes' = handshakes \ {h}
    BY <2>1 DEF CommitReady
  <2>4. Settles(s, Slot(h))
    BY <1>1, <2>1, ReadySettles
  <2>5. toServer[s] # <<>> /\ toServer[s][1].session = h.session
        /\ toServer[s][1].generation = h.generation
    BY <1>1, <2>1, CommitRead
  <2> QED BY <1>1, <1>2, <2>1, <2>2, <2>3, <2>4, <2>5, InstallKeeps
<1>5. CASE CommitResume(s)
  <2>1. PICK h \in handshakes, x \in slots :
          /\ h.socket = s /\ ~ h.fresh /\ Matches(s, h)
          /\ x.session = h.session /\ x.state = "stale"
          /\ slots' = (slots \ {x}) \cup {Slot(h)} /\ CommitReady(s, h)
    BY <1>5 DEF CommitResume, Committing
  <2>2. Installs(h, Slot(h), {x})
    BY <1>3, <2>1 DEF Installs
  <2>3. handshakes' = handshakes \ {h}
    BY <2>1 DEF CommitReady
  <2>4. Settles(s, Slot(h))
    BY <1>1, <2>1, ReadySettles
  <2>5. toServer[s] # <<>> /\ toServer[s][1].session = h.session
        /\ toServer[s][1].generation = h.generation
    BY <1>1, <2>1, CommitRead
  <2> QED BY <1>1, <1>2, <2>1, <2>2, <2>3, <2>4, <2>5, InstallKeeps
<1>6. CASE CommitFails(s) /\ slots' # slots
  <2>1. CanCommit(s) /\ slots' \in LeftBehind(s) /\ CloseTransport(s, <<>>)
        /\ handshakes' = handshakes \ Committing(s)
    BY <1>6 DEF CommitFails
  <2>2. PICK g \in handshakes : g.socket = s /\ Matches(s, g)
    BY <2>1 DEF CanCommit, Committing
  <2>3. PICK h \in handshakes :
          /\ h.socket = s /\ h.fresh
          /\ \/ slots' = slots \cup {[Slot(h) EXCEPT !.state = "removing", !.connection = None]}
             \/ slots' = slots \cup {Slot(h)}
    BY <1>6, <2>1 DEF LeftBehind, Committing, Fresh
  <2>4. g = h /\ Committing(s) = {h}
    BY <1>1, <2>2, <2>3 DEF HandshakesSuit, Committing
  <2> DEFINE z == [Slot(h) EXCEPT !.state = "removing", !.connection = None]
  <2>5. /\ z \in SlotType /\ z.session = h.session /\ z.token = s /\ z.generation = h.generation
        /\ z.state = "removing" /\ z.connection = None
    BY <1>3, <2>3 DEF SlotType, SlotState
  <2> HIDE DEF z
  <2>6. \E y : Installs(h, y, {}) /\ y \in slots' /\ y.session = h.session
    <3>1. CASE slots' = slots \cup {z}
      <4>1. Installs(h, z, {})
        BY <2>3, <2>5, <3>1 DEF Installs
      <4> QED BY <2>5, <3>1, <4>1
    <3>2. CASE slots' = slots \cup {Slot(h)}
      <4>1. Installs(h, Slot(h), {})
        BY <1>3, <2>3, <3>2 DEF Installs
      <4> QED BY <1>3, <2>3, <3>2, <4>1
    <3> QED BY <2>3, <3>1, <3>2 DEF z
  <2>7. PICK y : Installs(h, y, {}) /\ y \in slots' /\ y.session = h.session
    BY <2>6
  <2>8. Settles(s, y)
    BY <1>1, <2>1, <2>2, <2>4, <2>7, CloseSettles
  <2>9. toServer[s] # <<>> /\ toServer[s][1].session = h.session
        /\ toServer[s][1].generation = h.generation
    BY <1>1, <2>2, <2>4, CommitRead
  <2>10. handshakes' = handshakes \ {h}
    BY <2>1, <2>4
  <2> QED BY <1>1, <1>2, <2>2, <2>4, <2>7, <2>8, <2>9, <2>10, InstallKeeps
<1> QED BY <1>4, <1>5, <1>6

----------------------------------------------------------------------------
(* A tab takes a step *)

\* A sequence without its first frame.
LEMMA Rest ==
  ASSUME NEW q \in Seq(Message), q # <<>>
  PROVE  /\ Tail(q) \in Seq(Message) /\ Head(q) = q[1] /\ q[1] \in Message
         /\ Len(q) \in Nat /\ 1 \in DOMAIN q /\ DOMAIN q = 1 .. Len(q)
         /\ \A i \in DOMAIN Tail(q) : /\ i + 1 \in DOMAIN q /\ i + 1 > 1
                                      /\ Tail(q)[i] = q[i + 1]
                                      /\ i + 1 = Len(q) => i = Len(Tail(q))
OBVIOUS

\* A frame that is of no meaning to the handshake: data, or the last one.
Plain(q) == \A i \in DOMAIN q : q[i].type = "data" \/ (q[i].type = "close" /\ i = Len(q))
Ends(q) == \A i \in DOMAIN q : q[i].type = "close" /\ i = Len(q)

\* What is under way behind the frame a tab takes.
LEMMA RestOfFrames ==
  ASSUME NEW r, NEW q \in Seq(Message), q # <<>>, Frames(r, q)
  PROVE  /\ r.phase = "awaiting_offer" => Ends(Tail(q))
         /\ r.phase \in {"awaiting_ready", "current"} => Plain(Tail(q))
<1>1. \A i \in DOMAIN Tail(q) : /\ i + 1 \in DOMAIN q /\ i + 1 > 1
                                /\ Tail(q)[i] = q[i + 1]
                                /\ i + 1 = Len(q) => i = Len(Tail(q))
  BY Rest
<1>2. ASSUME NEW i \in DOMAIN Tail(q), r.phase = "awaiting_offer"
      PROVE  Tail(q)[i].type = "close" /\ i = Len(Tail(q))
  <2>1. Frame(r, q, i + 1)
    BY <1>1 DEF Frames
  <2>2. i + 1 # 1
    BY <1>1
  <2> QED BY <1>1, <1>2, <2>1, <2>2 DEF Frame
<1>3. ASSUME NEW i \in DOMAIN Tail(q), r.phase \in {"awaiting_ready", "current"}
      PROVE  Tail(q)[i].type = "data" \/ (Tail(q)[i].type = "close" /\ i = Len(Tail(q)))
  <2>1. Frame(r, q, i + 1)
    BY <1>1 DEF Frames
  <2>2. i + 1 # 1
    BY <1>1
  <2> QED BY <1>1, <1>3, <2>1, <2>2 DEF Frame
<1> QED BY <1>2, <1>3 DEF Ends, Plain

\* Such frames suit the phases in which no answer is awaited.
LEMMA PlainFrames ==
  ASSUME NEW r, NEW q \in Seq(Message)
  PROVE  /\ Ends(q) => Plain(q) /\ Frames(r, q)
         /\ Plain(q) /\ r.phase \in {"current", "awaiting_revoke"} => Frames(r, q)
         /\ Plain(q) => ~ FirstIs(q, "offer") /\ ~ FirstIs(q, "ready") /\ ~ Told(q)
<1>1. Ends(q) => Plain(q) /\ Frames(r, q)
  BY DEF Ends, Plain, Frames, Frame
<1>2. Plain(q) /\ r.phase \in {"current", "awaiting_revoke"} => Frames(r, q)
  BY DEF Plain, Frames, Frame
<1>3. Plain(q) => ~ Told(q)
  BY DEF Plain, Told
<1>4. q # <<>> => 1 \in DOMAIN q
  OBVIOUS
<1>5. Plain(q) => ~ FirstIs(q, "offer") /\ ~ FirstIs(q, "ready")
  BY <1>4 DEF Plain, FirstIs
<1> QED BY <1>1, <1>2, <1>3, <1>5

\* The step of a tab t that ends in state r with journal j and the refused
\* tokens f, and leaves the registry alone.
Moves(t, r, j, f) ==
  /\ tab' = [tab EXCEPT ![t] = r] /\ r \in TabRecord
  /\ journal' = [journal EXCEPT ![t] = j] /\ j \in [current : Nat, pending : Nat]
  /\ refused' = [refused EXCEPT ![t] = f] /\ f \in SUBSET Nat
  /\ UNCHANGED <<conn, handshakes, slots>>
  /\ spent' \in Spending /\ spent'.sockets = spent.sockets
  /\ toServer' \in [Socket -> Seq(Message)] /\ toTab' \in [Socket -> Seq(Message)]
  /\ r.socket \in {tab[t].socket, None}
  /\ \A s \in Socket : s # tab[t].socket => toServer'[s] = toServer[s] /\ toTab'[s] = toTab[s]

\* Its journal still has the tokens that count.
Unused(n) == (\A x \in slots : x.token # n) /\ (\A h \in handshakes : h.socket # n)
Journals(t, j, f) ==
  /\ Known(j.current, spent.sockets, conn) /\ Known(j.pending, spent.sockets, conn)
  /\ JournalSuits(j, handshakes, slots)
  /\ \A n \in {journal[t].current, journal[t].pending} \cup refused[t] :
       n \in {j.current, j.pending} \cup f \/ Unused(n)

\* Its socket s is in the state in which the tab left it.
Holding(t, r, j, s) ==
  /\ conn[s] # "hello"
  /\ Frames(r, toTab'[s]) /\ Wire(r, toTab'[s], conn[s], toServer'[s])
  /\ conn[s] = "current" => r.session = tab[t].session /\ r.generation = tab[t].generation
  /\ ~ FirstIs(toTab'[s], "offer")
  /\ FirstIs(toTab'[s], "ready") => \A x \in slots : x.token # j.current
  /\ Told(toTab'[s]) => Told(toTab[s]) /\ r.session = tab[t].session
Sends(t, j, s) ==
  /\ ControlSuits(conn[s], toServer'[s])
  /\ \A h \in handshakes : h.socket = s /\ toServer'[s] # <<>> =>
       toServer[s] # <<>> \/ s \in {j.current, j.pending}

\* The registry keeps its books when a tab moves.
LEMMA MoveKeeps ==
  ASSUME ResumeInvariant, NEW t \in Tab, NEW r, NEW j, NEW f,
         Moves(t, r, j, f), TabSuits(r, j), Journals(t, j, f),
         tab[t].socket # None => Sends(t, j, tab[t].socket),
         r.socket # None => Holding(t, r, j, r.socket),
         r.phase = "revoked" => Gone(r.session, spent.sockets, conn, slots)
  PROVE  ResumeInvariant'
<1>1. /\ TypeOK /\ SocketsSuit /\ TabsSuit /\ WiresSuit /\ HandshakesSuit /\ SlotsSuit
      /\ ResumeHasItsSlot /\ BindingsSuit /\ JournalsSuit /\ OffersSuit /\ ReadySuits
      /\ TokensKept /\ RevokedSuits
  BY DEF ResumeInvariant
<1>2. /\ tab' = [tab EXCEPT ![t] = r] /\ r \in TabRecord
      /\ journal' = [journal EXCEPT ![t] = j] /\ j \in [current : Nat, pending : Nat]
      /\ refused' = [refused EXCEPT ![t] = f] /\ f \in SUBSET Nat
      /\ conn' = conn /\ handshakes' = handshakes /\ slots' = slots
      /\ spent' \in Spending /\ spent'.sockets = spent.sockets
      /\ toServer' \in [Socket -> Seq(Message)] /\ toTab' \in [Socket -> Seq(Message)]
      /\ r.socket \in {tab[t].socket, None}
      /\ \A s \in Socket : s # tab[t].socket => toServer'[s] = toServer[s] /\ toTab'[s] = toTab[s]
  BY DEF Moves
<1>3. /\ tab'[t] = r /\ journal'[t] = j /\ refused'[t] = f
      /\ \A u \in Tab : u # t => tab'[u] = tab[u] /\ journal'[u] = journal[u] /\ refused'[u] = refused[u]
      /\ tab' \in [Tab -> TabRecord]
      /\ journal' \in [Tab -> [current : Nat, pending : Nat]]
      /\ refused' \in [Tab -> SUBSET Nat]
  BY <1>1, <1>2 DEF TypeOK, TabRecord
<1>4. \A u \in Tab : u # t /\ tab[u].socket # None =>
        /\ tab[u].socket # tab[t].socket /\ tab[u].socket # r.socket /\ tab[u].socket \in Socket
        /\ toServer'[tab[u].socket] = toServer[tab[u].socket]
        /\ toTab'[tab[u].socket] = toTab[tab[u].socket]
  BY <1>1, <1>2, Fields DEF TabsSuit
<1>5. tab[t].socket \in Socket \cup {None} /\ None \notin Socket
  BY <1>1, Fields, SocketNumbers
<1>6. TypeOK'
  BY <1>1, <1>2, <1>3 DEF TypeOK, TabRecord
<1>7. SocketsSuit'
  <2>1. tab[t].socket <= spent.sockets /\ spent.sockets \in Nat /\ None <= spent.sockets
    <3>1. tab[t].socket <= spent.sockets /\ spent.sockets \in Nat
      BY <1>1, Opened DEF SocketsSuit
    <3> QED BY <3>1 DEF None
  <2>2. \A s \in Socket : s > spent.sockets => s # tab[t].socket
    <3>1. \A s \in Socket : s \in Nat
      BY SocketNumbers
    <3> QED BY <1>5, <2>1, <3>1
  <2>3. \A u \in Tab : tab'[u].socket <= spent.sockets
    BY <1>1, <1>2, <1>3, <2>1 DEF SocketsSuit
  <2>4. \A s \in Socket : s > spent.sockets => conn[s] = "closed" /\ toTab'[s] = <<>>
    BY <1>1, <1>2, <2>2 DEF SocketsSuit
  <2> QED BY <1>2, <2>3, <2>4 DEF SocketsSuit, Spending
<1>8. TabsSuit'
  <2>1. \A u \in Tab : TabSuits(tab'[u], journal'[u])
    BY <1>1, <1>3 DEF TabsSuit
  <2>2. \A u, v \in Tab : tab'[u].socket = tab'[v].socket /\ tab'[u].socket # None => u = v
    BY <1>1, <1>2, <1>3, <1>4 DEF TabsSuit
  <2> QED BY <2>1, <2>2 DEF TabsSuit
<1>9. WiresSuit'
  <2>1. \A s \in Socket : ControlSuits(conn[s], toServer'[s])
    BY <1>1, <1>2, <1>5 DEF WiresSuit, Sends
  <2>2. ASSUME NEW u \in Tab, tab'[u].socket # None
        PROVE  /\ Frames(tab'[u], toTab'[tab'[u].socket])
               /\ Wire(tab'[u], toTab'[tab'[u].socket], conn[tab'[u].socket], toServer'[tab'[u].socket])
               /\ conn[tab'[u].socket] = "hello" =>
                    toServer'[tab'[u].socket][1].token = Token(journal'[u], tab'[u].attempt)
    <3>1. CASE u = t
      BY <1>3, <2>2, <3>1 DEF Holding
    <3>2. CASE u # t
      BY <1>1, <1>3, <1>4, <2>2, <3>2 DEF WiresSuit
    <3> QED BY <3>1, <3>2
  <2> QED BY <1>2, <2>1, <2>2 DEF WiresSuit
<1>10. HandshakesSuit' /\ SlotsSuit' /\ ResumeHasItsSlot'
  BY <1>1, <1>2 DEF HandshakesSuit, SlotsSuit, ResumeHasItsSlot, Fresh
<1>11. BindingsSuit'
  <2> SUFFICES ASSUME NEW u \in Tab, tab'[u].socket # None, conn[tab'[u].socket] = "current"
               PROVE  \E x \in slots : /\ x.connection = tab'[u].socket
                                       /\ x.session = tab'[u].session
                                       /\ x.generation = tab'[u].generation
    BY <1>2 DEF BindingsSuit
  <2>1. CASE u = t
    <3>1. r.socket = tab[t].socket /\ r.session = tab[t].session /\ r.generation = tab[t].generation
      BY <1>2, <1>3, <2>1 DEF Holding
    <3> QED BY <1>1, <1>3, <2>1, <3>1 DEF BindingsSuit
  <2>2. CASE u # t
    BY <1>1, <1>3, <2>2 DEF BindingsSuit
  <2> QED BY <2>1, <2>2
<1>12. JournalsSuit'
  <2>1. \A u \in Tab : /\ Known(journal'[u].current, spent.sockets, conn)
                       /\ Known(journal'[u].pending, spent.sockets, conn)
                       /\ JournalSuits(journal'[u], handshakes, slots)
    BY <1>1, <1>3 DEF JournalsSuit, Journals
  <2> QED BY <1>2, <2>1 DEF JournalsSuit
<1>13. OffersSuit'
  <2>1. \A u \in Tab : tab'[u].socket # None /\ FirstIs(toTab'[tab'[u].socket], "offer") =>
          OfferSuits(tab'[u], journal'[u], handshakes, slots)
    BY <1>1, <1>3, <1>4 DEF OffersSuit, Holding
  <2> QED BY <1>2, <2>1 DEF OffersSuit
<1>14. ReadySuits'
  <2>1. \A u \in Tab : tab'[u].socket # None /\ FirstIs(toTab'[tab'[u].socket], "ready") =>
          \A x \in slots : x.token # journal'[u].current
    BY <1>1, <1>3, <1>4 DEF ReadySuits, Holding
  <2> QED BY <1>2, <2>1 DEF ReadySuits
<1>15. TokensKept'
  <2>1. ASSUME NEW n, Kept(n, journal, refused), ~ Unused(n) PROVE Kept(n, journal', refused')
    <3>1. PICK u \in Tab : n \in {journal[u].current, journal[u].pending} \cup refused[u]
      BY <2>1 DEF Kept
    <3>2. CASE u = t
      BY <1>3, <2>1, <3>1, <3>2 DEF Journals, Kept
    <3>3. CASE u # t
      BY <1>3, <3>1, <3>3 DEF Kept
    <3> QED BY <3>2, <3>3
  <2>2. \A x \in slots : x.state # "removing" => Kept(x.token, journal', refused')
    BY <1>1, <2>1 DEF TokensKept, Unused
  <2>3. ASSUME NEW h \in handshakes, toServer'[h.socket] # <<>>
        PROVE  Kept(h.socket, journal', refused')
    <3>1. h.socket \in Socket /\ ~ Unused(h.socket)
      BY <1>1, Fields DEF Unused
    <3>2. CASE toServer[h.socket] # <<>>
      BY <1>1, <2>1, <3>1, <3>2 DEF TokensKept
    <3>3. CASE toServer[h.socket] = <<>>
      <4>1. h.socket = tab[t].socket /\ h.socket \in {j.current, j.pending}
        BY <1>2, <1>5, <2>3, <3>1, <3>3 DEF Sends
      <4> QED BY <1>3, <4>1 DEF Kept
    <3> QED BY <3>2, <3>3
  <2> QED BY <1>2, <2>2, <2>3 DEF TokensKept
<1>16. RevokedSuits'
  <2>1. \A u \in Tab : tab'[u].phase = "revoked" => Gone(tab'[u].session, spent.sockets, conn, slots)
    BY <1>1, <1>3 DEF RevokedSuits
  <2>2. ASSUME NEW u \in Tab, tab'[u].socket # None, Told(toTab'[tab'[u].socket])
        PROVE  Gone(tab'[u].session, spent.sockets, conn, slots) /\ \A x \in slots : x.token # tab'[u].socket
    <3>1. CASE u = t
      <4>1. r.socket = tab[t].socket /\ r.session = tab[t].session /\ Told(toTab[tab[t].socket])
        BY <1>2, <1>3, <2>2, <3>1 DEF Holding
      <4> QED BY <1>1, <1>3, <2>2, <3>1, <4>1 DEF RevokedSuits
    <3>2. CASE u # t
      BY <1>1, <1>3, <1>4, <2>2, <3>2 DEF RevokedSuits
    <3> QED BY <3>1, <3>2
  <2> QED BY <1>2, <2>1, <2>2 DEF RevokedSuits
<1> QED BY <1>6, <1>7, <1>8, <1>9, <1>10, <1>11, <1>12, <1>13, <1>14, <1>15, <1>16
        DEF ResumeInvariant

\* A journal that stays as it is keeps what it had.
LEMMA SameJournal ==
  ASSUME ResumeInvariant, NEW t \in Tab
  PROVE  Journals(t, journal[t], refused[t])
BY DEF ResumeInvariant, JournalsSuit, Journals

\* A tab without a socket: nothing is under way to it.
LEMMA LeaveKeeps ==
  ASSUME ResumeInvariant, NEW t \in Tab, NEW r \in TabRecord, r.socket = None, r.phase \notin Online,
         NEW j \in [current : Nat, pending : Nat], NEW f \in SUBSET Nat, Journals(t, j, f),
         tab' = [tab EXCEPT ![t] = r], journal' = [journal EXCEPT ![t] = j],
         refused' = [refused EXCEPT ![t] = f],
         toTab' = IF tab[t].socket = None THEN toTab ELSE [toTab EXCEPT ![tab[t].socket] = <<>>],
         UNCHANGED <<conn, toServer, handshakes, slots>>,
         spent' \in Spending, spent'.sockets = spent.sockets,
         r.phase = "revoked" => Gone(r.session, spent.sockets, conn, slots)
  PROVE  ResumeInvariant'
<1>1. TypeOK /\ WiresSuit
  BY DEF ResumeInvariant
<1>2. toServer \in [Socket -> Seq(Message)] /\ toTab \in [Socket -> Seq(Message)] /\ <<>> \in Seq(Message)
      /\ tab[t].socket \in Socket \cup {None}
  BY <1>1, Fields DEF TypeOK
<1>3. /\ toTab' \in [Socket -> Seq(Message)]
      /\ \A s \in Socket : s # tab[t].socket => toTab'[s] = toTab[s]
  BY <1>2
<1>4. Moves(t, r, j, f)
  BY <1>2, <1>3 DEF Moves
<1>5. TabSuits(r, j)
  BY DEF TabSuits, Online
<1>6. tab[t].socket # None => Sends(t, j, tab[t].socket)
  BY <1>1, <1>2 DEF Sends, WiresSuit
<1> QED BY <1>4, <1>5, <1>6, MoveKeeps

\* The socket of a tab, and the first frame on its way to the tab.
LEMMA FirstFrame ==
  ASSUME ResumeInvariant, NEW t \in Tab, tab[t].socket # None
  PROVE  LET s == tab[t].socket
             q == toTab[s]
         IN  /\ s \in Socket /\ q \in Seq(Message) /\ Frames(tab[t], q)
             /\ Wire(tab[t], q, conn[s], toServer[s]) /\ ControlSuits(conn[s], toServer[s])
             /\ toServer[s] \in Seq(Message)
             /\ q # <<>> => /\ Head(q) = q[1] /\ q[1] \in Message /\ Frame(tab[t], q, 1)
                            /\ Tail(q) \in Seq(Message) /\ 1 \in DOMAIN q
<1>1. TypeOK /\ WiresSuit
  BY DEF ResumeInvariant
<1> DEFINE s == tab[t].socket
           q == toTab[s]
<1>2. s \in Socket
  BY <1>1, Fields
<1>3. q \in Seq(Message) /\ toServer[s] \in Seq(Message)
  BY <1>1, <1>2, Fields
<1>4. Frames(tab[t], q) /\ Wire(tab[t], q, conn[s], toServer[s]) /\ ControlSuits(conn[s], toServer[s])
  BY <1>1, <1>2 DEF WiresSuit
<1>5. q # <<>> => Head(q) = q[1] /\ q[1] \in Message /\ Tail(q) \in Seq(Message) /\ 1 \in DOMAIN q
  BY <1>3, Rest
<1>6. q # <<>> => Frame(tab[t], q, 1)
  BY <1>4, <1>5 DEF Frames
<1> QED BY <1>2, <1>3, <1>4, <1>5, <1>6

\* A journal without tokens.
LEMMA EmptyJournal ==
  ASSUME ResumeInvariant, NEW t \in Tab, NEW f,
         \A n \in {journal[t].current, journal[t].pending} \cup refused[t] : n \in f \/ Unused(n)
  PROVE  Journals(t, NoJournal, f) /\ NoJournal \in [current : Nat, pending : Nat] /\ Unused(None)
<1>1. TypeOK
  BY DEF ResumeInvariant
<1>2. Unused(None)
  BY <1>1, Fields, SocketNumbers DEF Unused
<1>3. NoJournal.current = None /\ NoJournal.pending = None
      /\ NoJournal \in [current : Nat, pending : Nat]
  BY SocketNumbers DEF NoJournal
<1>4. JournalSuits(NoJournal, handshakes, slots)
  BY <1>2, <1>3 DEF JournalSuits, Unused
<1> QED BY <1>2, <1>3, <1>4 DEF Journals, Known

\* The page fails, loses its socket, or is loaded again.
LEMMA LeavingKeeps ==
  ASSUME ResumeInvariant, NEW t \in Tab, ReceiveUnexpected(t) \/ SocketDisconnected(t) \/ Reload(t)
  PROVE  ResumeInvariant'
<1>1. TypeOK /\ SocketsSuit
  BY DEF ResumeInvariant
<1>2. /\ journal' = [journal EXCEPT ![t] = journal[t]] /\ refused' = [refused EXCEPT ![t] = refused[t]]
      /\ journal[t] \in [current : Nat, pending : Nat] /\ refused[t] \in SUBSET Nat
  BY <1>1 DEF ReceiveUnexpected, SocketDisconnected, Reload, TypeOK
<1>3. UNCHANGED <<conn, toServer, handshakes, slots>>
  BY DEF ReceiveUnexpected, SocketDisconnected, Reload
<1>4. toTab' = IF tab[t].socket = None THEN toTab ELSE [toTab EXCEPT ![tab[t].socket] = <<>>]
  BY DEF ReceiveUnexpected, SocketDisconnected, Reload, Leave
<1>5. spent' \in Spending /\ spent'.sockets = spent.sockets
  <2>1. spent \in Spending
    BY <1>1 DEF SocketsSuit, Spending
  <2>2. spent' = spent \/ spent' = [spent EXCEPT !.reloads = @ + 1]
    BY DEF ReceiveUnexpected, SocketDisconnected, Reload
  <2> QED BY <2>1, <2>2 DEF Spending
<1>6. \E r \in TabRecord : /\ r.socket = None /\ r.phase \in {"failed", "disconnected"}
                           /\ tab' = [tab EXCEPT ![t] = r]
  <2>1. CASE Reload(t)
    <3>1. NewPage \in TabRecord /\ NewPage.socket = None /\ NewPage.phase = "disconnected"
      BY SocketNumbers DEF NewPage, TabRecord, TabPhase, Attempt
    <3> QED BY <2>1, <3>1 DEF Reload
  <2>2. CASE ReceiveUnexpected(t) \/ SocketDisconnected(t)
    <3>1. PICK p \in {"failed", "disconnected"} : Leave(t, p)
      BY <2>2 DEF ReceiveUnexpected, SocketDisconnected
    <3> DEFINE r == [tab[t] EXCEPT !.phase = p, !.socket = None]
    <3>2. tab[t] \in TabRecord
      BY <1>1, Fields
    <3>3. r \in TabRecord /\ r.socket = None /\ r.phase = p
      BY <3>2 DEF TabRecord, TabPhase
    <3>4. tab' = [tab EXCEPT ![t] = r]
      BY <1>1, <3>1 DEF Leave, TypeOK
    <3> QED BY <3>3, <3>4
  <2> QED BY <2>1, <2>2
<1>7. PICK r \in TabRecord : /\ r.socket = None /\ r.phase \in {"failed", "disconnected"}
                             /\ tab' = [tab EXCEPT ![t] = r]
  BY <1>6
<1>8. r.phase \notin Online /\ r.phase # "revoked"
  BY <1>7 DEF Online
<1> QED BY <1>2, <1>3, <1>4, <1>5, <1>7, <1>8, SameJournal, LeaveKeeps

\* The tab is told that its Session is revoked, and forgets its token.
LEMMA RevokedKeeps ==
  ASSUME ResumeInvariant, NEW t \in Tab, ReceiveRevoked(t)
  PROVE  ResumeInvariant'
<1>1. TypeOK /\ SocketsSuit /\ TabsSuit /\ JournalsSuit /\ RevokedSuits
  BY DEF ResumeInvariant
<1>2. /\ tab[t].phase = "awaiting_revoke" /\ HasFrame(t, "revoked") /\ Leave(t, "revoked")
      /\ journal' = [journal EXCEPT ![t] = NoJournal]
      /\ UNCHANGED <<conn, toServer, handshakes, slots, refused, spent>>
  BY DEF ReceiveRevoked
<1> DEFINE s == tab[t].socket
           r == [tab[t] EXCEPT !.phase = "revoked", !.socket = None]
<1>3. s # None /\ toTab[s] # <<>> /\ Head(toTab[s]).type = "revoked"
  BY <1>2 DEF HasFrame
<1>4. Told(toTab[s])
  BY <1>3, FirstFrame DEF Told
<1>5. Gone(tab[t].session, spent.sockets, conn, slots) /\ \A x \in slots : x.token # s
  BY <1>1, <1>3, <1>4 DEF RevokedSuits
<1>6. journal[t].current = s /\ journal[t].pending = None
  BY <1>1, <1>2 DEF TabsSuit, TabSuits
<1>7. Unused(s) /\ Unused(None)
  <2>1. Unused(None)
    BY <1>1, Fields, SocketNumbers DEF Unused
  <2>2. \A h \in handshakes : h.socket # s
    BY <1>1, <1>6 DEF JournalsSuit, JournalSuits
  <2> QED BY <1>5, <2>1, <2>2 DEF Unused
<1>8. Journals(t, NoJournal, refused[t]) /\ NoJournal \in [current : Nat, pending : Nat]
  BY <1>6, <1>7, EmptyJournal
<1>9. r \in TabRecord /\ r.socket = None /\ r.phase = "revoked" /\ r.session = tab[t].session
  <2>1. tab[t] \in TabRecord
    BY <1>1, Fields
  <2> QED BY <2>1 DEF TabRecord, TabPhase
<1>10. tab' = [tab EXCEPT ![t] = r] /\ refused' = [refused EXCEPT ![t] = refused[t]]
       /\ refused[t] \in SUBSET Nat
  BY <1>1, <1>2 DEF Leave, TypeOK
<1>11. toTab' = IF tab[t].socket = None THEN toTab ELSE [toTab EXCEPT ![tab[t].socket] = <<>>]
  BY <1>2 DEF Leave
<1>12. spent' \in Spending /\ spent'.sockets = spent.sockets
  BY <1>1, <1>2, SpendingTypes
<1>13. r.phase \notin Online
  BY <1>9 DEF Online
<1> HIDE DEF r, s
<1> QED BY <1>2, <1>5, <1>8, <1>9, <1>10, <1>11, <1>12, <1>13, LeaveKeeps

\* A step that takes the first frame and stays on the socket.
LEMMA TakeMoves ==
  ASSUME ResumeInvariant, NEW t \in Tab, tab[t].socket # None, toTab[tab[t].socket] # <<>>,
         NEW r \in TabRecord, r.socket = tab[t].socket,
         NEW j \in [current : Nat, pending : Nat], NEW f \in SUBSET Nat,
         tab' = [tab EXCEPT ![t] = r], journal' = [journal EXCEPT ![t] = j],
         refused' = [refused EXCEPT ![t] = f], toTab' = Received(t),
         toServer' = toServer \/ \E m \in Message : toServer' = SendServer(tab[t].socket, m),
         UNCHANGED <<conn, handshakes, slots, spent>>
  PROVE  Moves(t, r, j, f) /\ toTab'[tab[t].socket] = Tail(toTab[tab[t].socket])
<1>1. TypeOK /\ SocketsSuit
  BY DEF ResumeInvariant
<1> DEFINE s == tab[t].socket
<1>2. s \in Socket /\ Tail(toTab[s]) \in Seq(Message) /\ toServer[s] \in Seq(Message)
  BY FirstFrame
<1>3. toTab' = [toTab EXCEPT ![s] = Tail(toTab[s])] /\ toTab \in [Socket -> Seq(Message)]
      /\ toServer \in [Socket -> Seq(Message)]
  BY <1>1 DEF Received, TypeOK
<1>4. /\ toTab' \in [Socket -> Seq(Message)] /\ toTab'[s] = Tail(toTab[s])
      /\ \A u \in Socket : u # s => toTab'[u] = toTab[u]
  BY <1>2, <1>3
<1>5. /\ toServer' \in [Socket -> Seq(Message)]
      /\ \A u \in Socket : u # s => toServer'[u] = toServer[u]
  <2>1. CASE toServer' = toServer
    BY <1>3, <2>1
  <2>2. CASE \E m \in Message : toServer' = [toServer EXCEPT ![s] = Append(toServer[s], m)]
    <3>1. PICK m \in Message : toServer' = [toServer EXCEPT ![s] = Append(toServer[s], m)]
      BY <2>2
    <3>2. Append(toServer[s], m) \in Seq(Message)
      BY <1>2
    <3> QED BY <1>2, <1>3, <3>1, <3>2
  <2> QED BY <2>1, <2>2 DEF SendServer
<1>6. spent' \in Spending /\ spent'.sockets = spent.sockets
  BY <1>1, SpendingTypes
<1> QED BY <1>4, <1>5, <1>6 DEF Moves

\* A fresh attempt is refused for good.
LEMMA RejectedKeeps ==
  ASSUME ResumeInvariant, NEW t \in Tab, ReceiveReject(t), tab[t].attempt = "fresh"
  PROVE  ResumeInvariant'
<1>1. TypeOK /\ SocketsSuit /\ TabsSuit
  BY DEF ResumeInvariant
<1>2. /\ HasFrame(t, "reject") /\ Leave(t, "rejected")
      /\ journal' = [journal EXCEPT ![t] = Reject(journal[t], "fresh")]
      /\ refused' = [refused EXCEPT ![t] = @ \cup ({Token(journal[t], "fresh")} \ {None})]
      /\ UNCHANGED <<conn, toServer, handshakes, slots, spent>>
  BY DEF ReceiveReject
<1>3. /\ tab[t].socket # None /\ toTab[tab[t].socket] # <<>>
      /\ Head(toTab[tab[t].socket]).type = "reject"
  BY <1>2 DEF HasFrame
<1>4. tab[t].phase = "awaiting_offer"
  BY <1>3, FirstFrame DEF Frame
<1>5. InitialAttempt(journal[t]) = "fresh" /\ journal[t] \in [current : Nat, pending : Nat]
  BY <1>1, <1>4, Fields DEF TabsSuit, TabSuits
<1>6. journal[t].current = None /\ journal[t].pending = None
  BY <1>5, Attempts
<1>7. Unused(None)
  BY <1>1, Fields, SocketNumbers DEF Unused
<1>8. Journals(t, NoJournal, refused[t]) /\ NoJournal \in [current : Nat, pending : Nat]
  BY <1>6, <1>7, EmptyJournal
<1>9. journal' = [journal EXCEPT ![t] = NoJournal]
  BY <1>2 DEF Reject
<1>10. refused' = [refused EXCEPT ![t] = refused[t]] /\ refused[t] \in SUBSET Nat
  <2>1. Token(journal[t], "fresh") = None
    BY DEF Token
  <2> QED BY <1>1, <1>2, <2>1 DEF TypeOK
<1> DEFINE r == [tab[t] EXCEPT !.phase = "rejected", !.socket = None]
<1>11. r \in TabRecord /\ r.socket = None /\ r.phase = "rejected"
  <2>1. tab[t] \in TabRecord
    BY <1>1, Fields
  <2> QED BY <2>1 DEF TabRecord, TabPhase
<1>12. tab' = [tab EXCEPT ![t] = r]
  BY <1>1, <1>2 DEF Leave, TypeOK
<1>13. toTab' = IF tab[t].socket = None THEN toTab ELSE [toTab EXCEPT ![tab[t].socket] = <<>>]
  BY <1>2 DEF Leave
<1>14. spent' \in Spending /\ spent'.sockets = spent.sockets
  BY <1>1, <1>2, SpendingTypes
<1>15. r.phase \notin Online /\ r.phase # "revoked"
  BY <1>11 DEF Online
<1> HIDE DEF r
<1> QED BY <1>2, <1>8, <1>9, <1>10, <1>11, <1>12, <1>13, <1>14, <1>15, LeaveKeeps

\* A token is refused: the journal loses it, and the next attempt is prepared.
LEMMA RetryKeeps ==
  ASSUME ResumeInvariant, NEW t \in Tab, ReceiveReject(t), tab[t].attempt # "fresh"
  PROVE  ResumeInvariant'
<1>1. TypeOK /\ SocketsSuit /\ TabsSuit /\ JournalsSuit
  BY DEF ResumeInvariant
<1> DEFINE s == tab[t].socket
           old == journal[t]
           a == tab[t].attempt
           left == Reject(old, a)
           next == InitialAttempt(left)
           r == [tab[t] EXCEPT !.phase = "awaiting_offer", !.attempt = next]
           f == refused[t] \cup ({Token(old, a)} \ {None})
           hello == Hello(left, next, tab[t].applied)
<1>2. /\ HasFrame(t, "reject")
      /\ journal' = [journal EXCEPT ![t] = left]
      /\ refused' = [refused EXCEPT ![t] = @ \cup ({Token(old, a)} \ {None})]
      /\ tab' = [tab EXCEPT ![t].phase = "awaiting_offer", ![t].attempt = next]
      /\ toTab' = Received(t)
      /\ toServer' = SendServer(s, hello)
      /\ UNCHANGED <<conn, handshakes, slots, spent>>
  BY DEF ReceiveReject
<1>3. s # None /\ toTab[s] # <<>> /\ Head(toTab[s]).type = "reject"
  BY <1>2 DEF HasFrame
<1>4. /\ s \in Socket /\ toTab[s] \in Seq(Message) /\ Frames(tab[t], toTab[s])
      /\ Wire(tab[t], toTab[s], conn[s], toServer[s]) /\ ControlSuits(conn[s], toServer[s])
      /\ toTab[s][1].type = "reject" /\ Frame(tab[t], toTab[s], 1) /\ Tail(toTab[s]) \in Seq(Message)
  BY <1>3, FirstFrame
<1>5. tab[t].phase = "awaiting_offer"
  BY <1>4 DEF Frame
<1>6. conn[s] = "closed"
  <2>1. conn[s] \in {"closed", "hello", "commit", "current"}
    BY <1>1, <1>4, Fields
  <2> QED BY <1>3, <1>4, <1>5, <2>1 DEF Wire
<1>7. toServer' = toServer /\ toServer[s] = <<>>
  BY <1>2, <1>4, <1>6 DEF SendServer, ControlSuits
<1>8. a = InitialAttempt(old) /\ old \in [current : Nat, pending : Nat] /\ a \in Attempt
      /\ refused[t] \in SUBSET Nat /\ tab[t] \in TabRecord
  BY <1>1, <1>5, Fields DEF TabsSuit, TabSuits
<1>9. a \in {"pending", "current"}
  BY <1>8 DEF Attempt
<1>10. /\ left \in [current : Nat, pending : Nat] /\ left.pending = None
       /\ left.current \in {None, old.current}
       /\ Token(old, a) \in Nat /\ Token(old, a) # None
       /\ \A n \in {old.current, old.pending} : n \in {left.current, None, Token(old, a)}
  <2>1. CASE a = "pending"
    <3>1. left = [old EXCEPT !.pending = None] /\ Token(old, a) = old.pending /\ old.pending # None
      BY <1>8, <2>1, Attempts DEF Reject, Token
    <3>2. left \in [current : Nat, pending : Nat] /\ left.pending = None /\ left.current = old.current
      BY <1>8, <3>1, SocketNumbers
    <3> HIDE DEF left
    <3> QED BY <1>8, <3>1, <3>2
  <2>2. CASE a = "current"
    <3>1. left = NoJournal /\ Token(old, a) = old.current /\ old.current # None /\ old.pending = None
      BY <1>8, <2>2, Attempts DEF Reject, Token
    <3>2. left \in [current : Nat, pending : Nat] /\ left.pending = None /\ left.current = None
      BY <3>1, SocketNumbers DEF NoJournal
    <3> HIDE DEF left
    <3> QED BY <1>8, <3>1, <3>2
  <2> QED BY <1>9, <2>1, <2>2
<1> HIDE DEF left
<1>11. Unused(None)
  BY <1>1, Fields, SocketNumbers DEF Unused
<1>12. Journals(t, left, f)
  <2>1. JournalSuits(old, handshakes, slots)
    BY <1>1 DEF JournalsSuit
  <2>2. JournalSuits(left, handshakes, slots)
    BY <1>10, <1>11, <2>1 DEF JournalSuits, Unused
  <2>3. Known(left.current, spent.sockets, conn) /\ Known(left.pending, spent.sockets, conn)
    BY <1>1, <1>10, KnownTokens DEF Known
  <2>4. \A n \in {old.current, old.pending} \cup refused[t] :
          n \in {left.current, left.pending} \cup f \/ Unused(n)
    BY <1>10, <1>11
  <2> QED BY <2>2, <2>3, <2>4 DEF Journals
<1>13. next \in Attempt
  BY <1>10, Attempts
<1> HIDE DEF next
<1>14. /\ r \in TabRecord /\ r.phase = "awaiting_offer" /\ r.socket = s /\ r.attempt = next
       /\ r.session = tab[t].session
  BY <1>8, <1>13 DEF TabRecord, TabPhase
<1>15. tab' = [tab EXCEPT ![t] = r] /\ refused' = [refused EXCEPT ![t] = f] /\ f \in SUBSET Nat
  BY <1>1, <1>2, <1>8, <1>10 DEF TypeOK
<1> HIDE DEF r, f
<1>16. Moves(t, r, left, f) /\ toTab'[s] = Tail(toTab[s])
  BY <1>2, <1>3, <1>7, <1>10, <1>14, <1>15, TakeMoves
<1>17. TabSuits(r, left)
  BY <1>3, <1>14 DEF TabSuits, Online, next
<1>18. Sends(t, left, s)
  BY <1>4, <1>7 DEF Sends
<1>19. Ends(Tail(toTab[s]))
  BY <1>3, <1>4, <1>5, RestOfFrames
<1>20. /\ Frames(r, Tail(toTab[s])) /\ ~ FirstIs(Tail(toTab[s]), "offer")
       /\ ~ FirstIs(Tail(toTab[s]), "ready") /\ ~ Told(Tail(toTab[s]))
  BY <1>4, <1>19, PlainFrames
<1>21. Wire(r, Tail(toTab[s]), "closed", toServer[s])
  BY DEF Wire
<1>22. Holding(t, r, left, s)
  BY <1>6, <1>7, <1>16, <1>20, <1>21 DEF Holding
<1> QED BY <1>12, <1>14, <1>16, <1>17, <1>18, <1>22, MoveKeeps

\* The offered token is journalled beside the one in use.
LEMMA OfferReadKeeps ==
  ASSUME ResumeInvariant, NEW t \in Tab, ReceiveOffer(t)
  PROVE  ResumeInvariant'
<1>1. TypeOK /\ SocketsSuit /\ TabsSuit /\ JournalsSuit /\ OffersSuit
  BY DEF ResumeInvariant
<1> DEFINE s == tab[t].socket
           old == journal[t]
           a == tab[t].attempt
           q == toTab[s]
           m == Head(q)
           j == InstallOffer(old, a, m.token)
           r == [tab[t] EXCEPT !.phase = "awaiting_ready", !.session = m.session,
                               !.generation = m.generation]
           c == Control("commit", None, m.session, m.generation)
<1>2. /\ HasFrame(t, "offer") /\ tab[t].phase = "awaiting_offer"
      /\ journal' = [journal EXCEPT ![t] = j]
      /\ tab' = [tab EXCEPT ![t].phase = "awaiting_ready", ![t].session = m.session,
                            ![t].generation = m.generation]
      /\ toTab' = Received(t)
      /\ toServer' = SendServer(s, c)
      /\ UNCHANGED <<conn, handshakes, slots, refused, spent>>
  BY DEF ReceiveOffer
<1>3. s # None /\ q # <<>> /\ m.type = "offer"
  BY <1>2 DEF HasFrame
<1>4. /\ s \in Socket /\ q \in Seq(Message) /\ Frames(tab[t], q)
      /\ Wire(tab[t], q, conn[s], toServer[s]) /\ ControlSuits(conn[s], toServer[s])
      /\ m = q[1] /\ m \in Message /\ Frame(tab[t], q, 1) /\ Tail(q) \in Seq(Message)
  BY <1>3, FirstFrame
<1>5. m.token = s /\ m.session \in Nat /\ m.generation \in Nat
  BY <1>1, <1>3, <1>4, Fields DEF Frame
<1>6. conn[s] = "closed" \/ (conn[s] = "commit" /\ toServer[s] = <<>> /\ Len(q) = 1)
  <2>1. conn[s] \in {"closed", "hello", "commit", "current"}
    BY <1>1, <1>4, Fields
  <2> QED BY <1>2, <1>3, <1>4, <2>1 DEF Wire
<1>7. OfferSuits(tab[t], old, handshakes, slots) /\ JournalSuits(old, handshakes, slots)
  BY <1>1, <1>3, <1>4 DEF OffersSuit, JournalsSuit, FirstIs
<1>8. a = InitialAttempt(old) /\ old \in [current : Nat, pending : Nat] /\ a \in Attempt
      /\ refused[t] \in SUBSET Nat /\ tab[t] \in TabRecord
  BY <1>1, <1>2, Fields DEF TabsSuit, TabSuits
<1>9. j.current = Token(old, a) /\ j.pending = s /\ j \in [current : Nat, pending : Nat]
  <2>1. j = [current |-> Token(old, a), pending |-> s]
    BY <1>5 DEF InstallOffer, Token
  <2>2. Token(old, a) \in Nat /\ s \in Nat
    BY <1>4, <1>8, FrameTypes, SocketNumbers
  <2> QED BY <2>1, <2>2
<1> HIDE DEF j
<1>10. Unused(None)
  BY <1>1, Fields, SocketNumbers DEF Unused
<1>11. Journals(t, j, refused[t])
  <2>1. JournalSuits(j, handshakes, slots)
    BY <1>7, <1>9 DEF JournalSuits, OfferSuits
  <2>2. Known(j.current, spent.sockets, conn)
    BY <1>1, <1>8, <1>9, KnownTokens
  <2>3. Known(j.pending, spent.sockets, conn)
    <3>1. s <= spent.sockets /\ s \in 1 .. MaxSockets /\ spent.sockets \in Nat
      BY <1>1, <1>4, Opened DEF SocketsSuit, Socket
    <3>2. s \in 1 .. spent.sockets
      BY <3>1, ResumeAssumption
    <3> QED BY <1>6, <1>9, <3>2 DEF Known
  <2>4. \A n \in {old.current, old.pending} : n \in {j.current, j.pending} \/ Unused(n)
    <3>1. CASE a = "pending"
      <4>1. j.current = old.pending
        BY <1>9, <3>1 DEF Token
      <4>2. Unused(old.current)
        BY <1>7, <3>1 DEF OfferSuits, JournalSuits, Unused
      <4> QED BY <4>1, <4>2
    <3>2. CASE a = "current"
      BY <1>8, <1>9, <1>10, <3>2, Attempts
    <3>3. CASE a = "fresh"
      BY <1>8, <1>10, <3>3, Attempts
    <3> QED BY <1>8, <3>1, <3>2, <3>3 DEF Attempt
  <2> QED BY <2>1, <2>2, <2>3, <2>4 DEF Journals
<1>12. c \in Message /\ c.session = m.session /\ c.generation = m.generation
  <2>1. \A n, g \in Nat : /\ Control("commit", None, n, g) \in Message
                          /\ Control("commit", None, n, g).session = n
                          /\ Control("commit", None, n, g).generation = g
    BY FrameTypes, SocketNumbers
  <2> HIDE DEF c
  <2> QED BY <1>5, <2>1 DEF c
<1> HIDE DEF c
<1>13. /\ r \in TabRecord /\ r.phase = "awaiting_ready" /\ r.socket = s
       /\ r.session = m.session /\ r.generation = m.generation
  BY <1>5, <1>8 DEF TabRecord, TabPhase
<1>14. tab' = [tab EXCEPT ![t] = r] /\ refused' = [refused EXCEPT ![t] = refused[t]]
  BY <1>1, <1>2 DEF TypeOK
<1> HIDE DEF r, q
<1>15. Moves(t, r, j, refused[t]) /\ toTab'[s] = Tail(q)
  <2>1. \E d \in Message : toServer' = SendServer(s, d)
    BY <1>2, <1>12
  <2>2. toTab[s] # <<>>
    BY <1>3 DEF q
  <2> QED BY <1>2, <1>3, <1>8, <1>9, <1>13, <1>14, <2>1, <2>2, TakeMoves DEF q
<1>16. TabSuits(r, j)
  BY <1>3, <1>9, <1>13 DEF TabSuits, Online
<1>17. Ends(Tail(q))
  BY <1>2, <1>3, <1>4, RestOfFrames
<1>18. /\ Frames(r, Tail(q)) /\ ~ FirstIs(Tail(q), "offer")
       /\ ~ FirstIs(Tail(q), "ready") /\ ~ Told(Tail(q))
  BY <1>4, <1>17, PlainFrames
<1>19. /\ conn[s] = "closed" => toServer'[s] = toServer[s] /\ toServer[s] = <<>>
       /\ conn[s] = "commit" => toServer'[s] = <<c>> /\ Tail(q) = <<>>
  <2>1. conn[s] = "closed" => toServer'[s] = toServer[s] /\ toServer[s] = <<>>
    BY <1>2, <1>4 DEF SendServer, ControlSuits
  <2>2. ASSUME conn[s] = "commit" PROVE toServer'[s] = <<c>> /\ Tail(q) = <<>>
    <3>1. toServer' = [toServer EXCEPT ![s] = Append(toServer[s], c)] /\ toServer[s] = <<>> /\ Len(q) = 1
      BY <1>2, <1>6, <2>2 DEF SendServer
    <3>2. Append(<<>>, c) = <<c>>
      OBVIOUS
    <3>3. toServer'[s] = <<c>>
      BY <1>1, <1>4, <3>1, <3>2 DEF TypeOK
    <3> QED BY <1>4, <3>1, <3>3, TailOfOne
  <2> QED BY <2>1, <2>2
<1>20. Len(<<c>>) = 1 /\ <<c>>[1] = c
  OBVIOUS
<1>21. Sends(t, j, s)
  <2>1. ControlSuits(conn[s], toServer'[s])
    BY <1>4, <1>6, <1>19, <1>20 DEF ControlSuits
  <2> QED BY <1>9, <2>1 DEF Sends
<1>22. Wire(r, Tail(q), conn[s], toServer'[s])
  <2>1. CASE conn[s] = "closed"
    BY <2>1 DEF Wire
  <2>2. CASE conn[s] = "commit"
    <3>1. DOMAIN <<>> = {}
      OBVIOUS
    <3>2. Wire(r, <<>>, "commit", <<c>>)
      BY <1>12, <1>13, <1>20, <3>1 DEF Wire
    <3> QED BY <1>19, <2>2, <3>2
  <2> QED BY <1>6, <2>1, <2>2
<1>23. Holding(t, r, j, s)
  BY <1>6, <1>15, <1>18, <1>22 DEF Holding
<1> QED BY <1>11, <1>13, <1>15, <1>16, <1>21, <1>23, MoveKeeps

\* Behind ServerReady and in a current Session, the server has committed.
LEMMA Committed ==
  ASSUME ResumeInvariant, NEW t \in Tab, tab[t].socket # None,
         tab[t].phase = "current" \/ (tab[t].phase = "awaiting_ready" /\ toTab[tab[t].socket] # <<>>)
  PROVE  /\ conn[tab[t].socket] \in {"current", "closed"} /\ toServer[tab[t].socket] = <<>>
         /\ \A h \in handshakes : h.socket # tab[t].socket
         /\ tab[t].socket \in 1 .. spent.sockets
<1>1. TypeOK /\ SocketsSuit /\ HandshakesSuit
  BY DEF ResumeInvariant
<1> DEFINE s == tab[t].socket
<1>2. /\ s \in Socket /\ Wire(tab[t], toTab[s], conn[s], toServer[s])
      /\ ControlSuits(conn[s], toServer[s])
  BY FirstFrame
<1>3. conn[s] \in {"closed", "hello", "commit", "current"}
  BY <1>1, <1>2, Fields
<1>4. conn[s] \in {"current", "closed"}
  BY <1>2, <1>3 DEF Wire
<1>5. toServer[s] = <<>>
  BY <1>2, <1>4 DEF Wire, ControlSuits
<1>6. s <= spent.sockets /\ s \in 1 .. MaxSockets /\ spent.sockets \in Nat
  BY <1>1, <1>2, Opened DEF SocketsSuit, Socket
<1>7. s \in 1 .. spent.sockets
  BY <1>6, ResumeAssumption
<1> QED BY <1>1, <1>4, <1>5, <1>7 DEF HandshakesSuit

\* The token on offer is the one in use from here on.
LEMMA ReadyReadKeeps ==
  ASSUME ResumeInvariant, NEW t \in Tab, ReceiveReady(t)
  PROVE  ResumeInvariant'
<1>1. TypeOK /\ SocketsSuit /\ TabsSuit /\ JournalsSuit /\ ReadySuits
  BY DEF ResumeInvariant
<1> DEFINE s == tab[t].socket
           old == journal[t]
           q == toTab[s]
           j == CollapseReady(old)
           r == [tab[t] EXCEPT !.phase = "current"]
<1>2. /\ HasFrame(t, "ready")
      /\ journal' = [journal EXCEPT ![t] = CollapseReady(journal[t])]
      /\ tab' = [tab EXCEPT ![t].phase = "current"]
      /\ toTab' = Received(t)
      /\ UNCHANGED <<conn, toServer, handshakes, slots, refused, spent>>
  BY DEF ReceiveReady
<1>3. s # None /\ q # <<>> /\ Head(q).type = "ready"
  BY <1>2 DEF HasFrame
<1>4. /\ s \in Socket /\ q \in Seq(Message) /\ Frames(tab[t], q)
      /\ Wire(tab[t], q, conn[s], toServer[s]) /\ ControlSuits(conn[s], toServer[s])
      /\ Head(q) = q[1] /\ Frame(tab[t], q, 1) /\ Tail(q) \in Seq(Message)
  BY <1>3, FirstFrame
<1>5. tab[t].phase = "awaiting_ready" /\ FirstIs(q, "ready")
  BY <1>3, <1>4 DEF Frame, FirstIs
<1>6. /\ conn[s] \in {"current", "closed"} /\ toServer[s] = <<>>
      /\ \A h \in handshakes : h.socket # s
      /\ s \in 1 .. spent.sockets
  BY <1>3, <1>5, Committed
<1>7. /\ old.pending = s /\ old \in [current : Nat, pending : Nat] /\ tab[t] \in TabRecord
      /\ refused[t] \in SUBSET Nat /\ JournalSuits(old, handshakes, slots)
  BY <1>1, <1>5, Fields DEF TabsSuit, TabSuits, JournalsSuit
<1>8. j.current = s /\ j.pending = None /\ j \in [current : Nat, pending : Nat]
  BY <1>4, <1>7, SocketNumbers DEF CollapseReady
<1>9. journal' = [journal EXCEPT ![t] = j]
  BY <1>2
<1> HIDE DEF j
<1>10. Unused(None)
  BY <1>1, Fields, SocketNumbers DEF Unused
<1>11. Unused(old.current)
  <2>1. \A x \in slots : x.token # old.current
    BY <1>1, <1>3, <1>5 DEF ReadySuits
  <2> QED BY <1>7, <2>1 DEF Unused, JournalSuits
<1>12. Journals(t, j, refused[t])
  <2>1. JournalSuits(j, handshakes, slots)
    BY <1>6, <1>8, <1>10 DEF JournalSuits, Unused
  <2>2. Known(j.current, spent.sockets, conn) /\ Known(j.pending, spent.sockets, conn)
    BY <1>6, <1>8 DEF Known
  <2> QED BY <1>7, <1>8, <1>11, <2>1, <2>2 DEF Journals
<1>13. /\ r \in TabRecord /\ r.phase = "current" /\ r.socket = s
       /\ r.session = tab[t].session /\ r.generation = tab[t].generation
  BY <1>7 DEF TabRecord, TabPhase
<1>14. tab' = [tab EXCEPT ![t] = r] /\ refused' = [refused EXCEPT ![t] = refused[t]]
  BY <1>1, <1>2 DEF TypeOK
<1> HIDE DEF r
<1>15. Moves(t, r, j, refused[t]) /\ toTab'[s] = Tail(q)
  <2>1. toServer' = toServer /\ UNCHANGED <<conn, handshakes, slots, spent>> /\ toTab' = Received(t)
    BY <1>2
  <2>2. toTab[s] # <<>> /\ refused[t] \in SUBSET Nat
    BY <1>3, <1>7
  <2> HIDE DEF q, old
  <2> QED BY <1>3, <1>8, <1>9, <1>13, <1>14, <2>1, <2>2, TakeMoves DEF q
<1>16. TabSuits(r, j)
  BY <1>3, <1>8, <1>13 DEF TabSuits, Online
<1>17. Plain(Tail(q))
  BY <1>3, <1>4, <1>5, RestOfFrames
<1>18. /\ Frames(r, Tail(q)) /\ ~ FirstIs(Tail(q), "offer")
       /\ ~ FirstIs(Tail(q), "ready") /\ ~ Told(Tail(q))
  BY <1>4, <1>13, <1>17, PlainFrames
<1>19. Sends(t, j, s)
  BY <1>2, <1>4 DEF Sends
<1>20. conn[s] # "closed" => \A i \in DOMAIN Tail(q) : Tail(q)[i].type # "close"
  <2>1. \A i \in DOMAIN Tail(q) : i + 1 \in DOMAIN q /\ Tail(q)[i] = q[i + 1]
    BY <1>3, <1>4, Rest
  <2> QED BY <1>4, <2>1 DEF Wire
<1>21. Wire(r, Tail(q), conn[s], toServer[s])
  BY <1>6, <1>13, <1>20 DEF Wire
<1>22. Holding(t, r, j, s)
  BY <1>2, <1>6, <1>13, <1>15, <1>18, <1>21 DEF Holding
<1> QED BY <1>12, <1>13, <1>15, <1>16, <1>19, <1>22, MoveKeeps

\* The runtime of a current Session takes a data frame.
LEMMA DataReadKeeps ==
  ASSUME ResumeInvariant, NEW t \in Tab, ReceiveData(t)
  PROVE  ResumeInvariant'
<1>1. TypeOK /\ SocketsSuit /\ TabsSuit
  BY DEF ResumeInvariant
<1> DEFINE s == tab[t].socket
           j == journal[t]
           q == toTab[s]
           r == [tab[t] EXCEPT !.applied = TRUE]
<1>2. /\ HasFrame(t, "data") /\ tab[t].phase = "current"
      /\ tab' = [tab EXCEPT ![t].applied = TRUE]
      /\ toTab' = Received(t)
      /\ UNCHANGED <<journal, conn, toServer, handshakes, slots, refused, spent>>
  BY DEF ReceiveData
<1>3. s # None /\ q # <<>>
  BY <1>2 DEF HasFrame
<1>4. /\ s \in Socket /\ q \in Seq(Message) /\ Frames(tab[t], q)
      /\ Wire(tab[t], q, conn[s], toServer[s]) /\ ControlSuits(conn[s], toServer[s])
      /\ Tail(q) \in Seq(Message)
  BY <1>3, FirstFrame
<1>5. conn[s] \in {"current", "closed"} /\ toServer[s] = <<>>
  BY <1>2, <1>3, Committed
<1>6. /\ j \in [current : Nat, pending : Nat] /\ tab[t] \in TabRecord
      /\ refused[t] \in SUBSET Nat /\ j.current = s /\ j.pending = None
  BY <1>1, <1>2, Fields DEF TabsSuit, TabSuits
<1>7. /\ r \in TabRecord /\ r.phase = "current" /\ r.socket = s
      /\ r.session = tab[t].session /\ r.generation = tab[t].generation
  BY <1>2, <1>6 DEF TabRecord
<1>8. /\ tab' = [tab EXCEPT ![t] = r] /\ refused' = [refused EXCEPT ![t] = refused[t]]
      /\ journal' = [journal EXCEPT ![t] = j]
  BY <1>1, <1>2 DEF TypeOK
<1> HIDE DEF r, q
<1>9. Moves(t, r, j, refused[t]) /\ toTab'[s] = Tail(q)
  <2>1. toServer' = toServer /\ UNCHANGED <<conn, handshakes, slots, spent>> /\ toTab' = Received(t)
    BY <1>2
  <2>2. toTab[s] # <<>> /\ refused[t] \in SUBSET Nat
    BY <1>3, <1>6 DEF q
  <2> QED BY <1>3, <1>6, <1>7, <1>8, <2>1, <2>2, TakeMoves DEF q
<1>10. TabSuits(r, j)
  BY <1>3, <1>6, <1>7 DEF TabSuits, Online
<1>11. Plain(Tail(q))
  BY <1>2, <1>3, <1>4, RestOfFrames
<1>12. /\ Frames(r, Tail(q)) /\ ~ FirstIs(Tail(q), "offer")
       /\ ~ FirstIs(Tail(q), "ready") /\ ~ Told(Tail(q))
  BY <1>4, <1>7, <1>11, PlainFrames
<1>13. Sends(t, j, s)
  BY <1>2, <1>4 DEF Sends
<1>14. conn[s] # "closed" => \A i \in DOMAIN Tail(q) : Tail(q)[i].type # "close"
  <2>1. \A i \in DOMAIN Tail(q) : i + 1 \in DOMAIN q /\ Tail(q)[i] = q[i + 1]
    BY <1>3, <1>4, Rest
  <2> QED BY <1>4, <2>1 DEF Wire
<1>15. Wire(r, Tail(q), conn[s], toServer[s])
  BY <1>5, <1>7, <1>14 DEF Wire
<1>16. Holding(t, r, j, s)
  BY <1>2, <1>5, <1>7, <1>9, <1>12, <1>15 DEF Holding
<1> QED BY <1>7, <1>9, <1>10, <1>13, <1>16, SameJournal, MoveKeeps

\* A tab asks for its Session to be revoked.
LEMMA RevokeKeeps ==
  ASSUME ResumeInvariant, NEW t \in Tab, Revoke(t)
  PROVE  ResumeInvariant'
<1>1. TypeOK /\ SocketsSuit /\ TabsSuit
  BY DEF ResumeInvariant
<1> DEFINE s == tab[t].socket
           j == journal[t]
           q == toTab[s]
           r == [tab[t] EXCEPT !.phase = "awaiting_revoke"]
           c == Bare("revoke")
<1>2. /\ tab[t].phase = "current"
      /\ spent' = [spent EXCEPT !.revokes = @ + 1]
      /\ tab' = [tab EXCEPT ![t].phase = "awaiting_revoke"]
      /\ toServer' = SendServer(s, c)
      /\ UNCHANGED <<journal, conn, toTab, handshakes, slots, refused>>
  BY DEF Revoke
<1>3. s # None
  BY <1>1, <1>2 DEF TabsSuit, TabSuits, Online
<1>4. /\ s \in Socket /\ q \in Seq(Message) /\ Frames(tab[t], q)
      /\ Wire(tab[t], q, conn[s], toServer[s]) /\ ControlSuits(conn[s], toServer[s])
  BY <1>3, FirstFrame
<1>5. /\ conn[s] \in {"current", "closed"} /\ toServer[s] = <<>>
      /\ \A h \in handshakes : h.socket # s
  BY <1>2, <1>3, Committed
<1>6. /\ j \in [current : Nat, pending : Nat] /\ tab[t] \in TabRecord
      /\ refused[t] \in SUBSET Nat /\ j.current = s /\ j.pending = None
  BY <1>1, <1>2, Fields DEF TabsSuit, TabSuits
<1>7. /\ r \in TabRecord /\ r.phase = "awaiting_revoke" /\ r.socket = s
      /\ r.session = tab[t].session /\ r.generation = tab[t].generation
  BY <1>6 DEF TabRecord, TabPhase
<1>8. /\ tab' = [tab EXCEPT ![t] = r] /\ refused' = [refused EXCEPT ![t] = refused[t]]
      /\ journal' = [journal EXCEPT ![t] = j]
  BY <1>1, <1>2 DEF TypeOK
<1>9. c \in Message
  BY FrameTypes
<1> HIDE DEF r, c
<1>10. <<c>> \in Seq(Message) /\ Append(<<>>, c) = <<c>> /\ Len(<<c>>) = 1 /\ Len(<<>>) = 0
  BY <1>9
<1>11. toServer' \in [Socket -> Seq(Message)] /\ toServer'[s] \in {<<>>, <<c>>}
       /\ (conn[s] = "closed" => toServer'[s] = <<>>)
       /\ \A u \in Socket : u # s => toServer'[u] = toServer[u]
  <2>1. toServer \in [Socket -> Seq(Message)]
    BY <1>1 DEF TypeOK
  <2>2. CASE conn[s] = "closed"
    BY <1>2, <1>5, <2>1, <2>2 DEF SendServer
  <2>3. CASE conn[s] # "closed"
    <3>1. toServer' = [toServer EXCEPT ![s] = <<c>>]
      BY <1>2, <1>5, <1>10, <2>3 DEF SendServer
    <3> QED BY <1>4, <1>10, <2>1, <2>3, <3>1
  <2> QED BY <2>2, <2>3
<1>12. spent' \in Spending /\ spent'.sockets = spent.sockets
  <2>1. spent \in Spending
    BY <1>1 DEF SocketsSuit, Spending
  <2> QED BY <1>2, <2>1 DEF Spending
<1>13. toTab' \in [Socket -> Seq(Message)] /\ toTab' = toTab
  BY <1>1, <1>2 DEF TypeOK
<1>14. Moves(t, r, j, refused[t])
  BY <1>2, <1>6, <1>7, <1>8, <1>11, <1>12, <1>13 DEF Moves
<1>15. TabSuits(r, j)
  BY <1>3, <1>6, <1>7 DEF TabSuits, Online
<1>16. Plain(q)
  BY <1>2, <1>4 DEF Plain, Frames, Frame
<1>17. /\ Frames(r, q) /\ ~ FirstIs(q, "offer") /\ ~ FirstIs(q, "ready") /\ ~ Told(q)
  BY <1>4, <1>7, <1>16, PlainFrames
<1>18. Sends(t, j, s)
  <2>1. ControlSuits(conn[s], toServer'[s])
    <3>1. /\ ControlSuits("closed", <<>>) /\ ControlSuits("current", <<>>)
          /\ ControlSuits("current", <<c>>)
      BY <1>10 DEF ControlSuits
    <3> QED BY <1>5, <1>11, <3>1
  <2> QED BY <1>5, <2>1 DEF Sends
<1>19. Wire(r, q, conn[s], toServer'[s])
  BY <1>4, <1>5, <1>7 DEF Wire
<1>20. Holding(t, r, j, s)
  BY <1>5, <1>7, <1>13, <1>17, <1>19 DEF Holding
<1> QED BY <1>7, <1>14, <1>15, <1>18, <1>20, SameJournal, MoveKeeps

\* A tab opens a socket that nothing names yet, and says Hello on it.
LEMMA ConnectKeeps ==
  ASSUME ResumeInvariant, NEW t \in Tab, BeginConnect(t)
  PROVE  ResumeInvariant'
<1>1. /\ TypeOK /\ SocketsSuit /\ TabsSuit /\ WiresSuit /\ HandshakesSuit /\ SlotsSuit
      /\ ResumeHasItsSlot /\ BindingsSuit /\ JournalsSuit /\ OffersSuit /\ ReadySuits
      /\ TokensKept /\ RevokedSuits
  BY DEF ResumeInvariant
<1> DEFINE n == spent.sockets
           s == n + 1
           a == InitialAttempt(journal[t])
           m == Hello(journal[t], a, tab[t].applied)
           r == [tab[t] EXCEPT !.phase = "awaiting_offer", !.socket = s, !.attempt = a]
<1>2. /\ tab[t].phase = "disconnected" /\ s \in Socket
      /\ spent' = [spent EXCEPT !.sockets = s]
      /\ tab' = [tab EXCEPT ![t].phase = "awaiting_offer", ![t].socket = s, ![t].attempt = a]
      /\ conn' = [conn EXCEPT ![s] = "hello"]
      /\ toServer' = [toServer EXCEPT ![s] = <<m>>]
      /\ UNCHANGED <<journal, toTab, handshakes, slots, refused>>
  BY DEF BeginConnect
<1>3. n \in Nat /\ n \in 0 .. MaxSockets /\ s > n /\ s \in Nat /\ s # None /\ spent \in Spending
  <2>1. n \in 0 .. MaxSockets /\ spent \in Spending
    BY <1>1, Opened DEF SocketsSuit, Spending
  <2> QED BY <1>2, <2>1, SocketNumbers
<1>4. spent' \in Spending /\ spent'.sockets = s
  <2>1. s \in 0 .. MaxSockets
    BY <1>2, <1>3 DEF Socket
  <2> QED BY <1>2, <1>3, <2>1 DEF Spending
<1>5. /\ journal[t] \in [current : Nat, pending : Nat] /\ tab[t] \in TabRecord
      /\ tab[t].applied \in BOOLEAN /\ a \in Attempt
  BY <1>1, Fields, Attempts
<1>6. m \in Message /\ m.token = Token(journal[t], a)
  <2>1. \A j \in [current : Nat, pending : Nat], k \in Attempt, b \in BOOLEAN :
          Hello(j, k, b) \in Message /\ Hello(j, k, b).token = Token(j, k)
    BY FrameTypes
  <2> HIDE DEF a, m
  <2> QED BY <1>5, <2>1 DEF m
<1> HIDE DEF m
<1>7. <<m>> \in Seq(Message) /\ Len(<<m>>) = 1 /\ <<m>>[1] = m
  BY <1>6
<1>8. conn[s] = "closed" /\ toTab[s] = <<>>
  BY <1>1, <1>2, <1>3 DEF SocketsSuit
<1> HIDE DEF s
<1>9. /\ conn' \in [Socket -> {"closed", "hello", "commit", "current"}]
      /\ conn'[s] = "hello" /\ \A u \in Socket : u # s => conn'[u] = conn[u]
  BY <1>1, <1>2 DEF TypeOK
<1>10. /\ toServer' \in [Socket -> Seq(Message)]
       /\ toServer'[s] = <<m>> /\ \A u \in Socket : u # s => toServer'[u] = toServer[u]
  BY <1>1, <1>2, <1>7 DEF TypeOK
<1>11. /\ r \in TabRecord /\ r.phase = "awaiting_offer" /\ r.socket = s /\ r.attempt = a
  BY <1>2, <1>5 DEF TabRecord, TabPhase
<1>12. tab' = [tab EXCEPT ![t] = r]
  BY <1>1, <1>2 DEF TypeOK
<1> HIDE DEF r, a
<1>13. /\ tab'[t] = r /\ tab' \in [Tab -> TabRecord]
       /\ \A u \in Tab : u # t => tab'[u] = tab[u]
  BY <1>1, <1>11, <1>12 DEF TypeOK, TabRecord
<1>14. \A k : k <= n /\ k \in Nat => k # s /\ k <= s
  BY <1>3
<1>15. \A u \in Tab : tab[u].socket # s /\ tab[u].socket <= s
  <2>1. \A u \in Tab : tab[u].socket \in Nat
    BY <1>1, Fields, SocketNumbers
  <2>2. \A u \in Tab : tab[u].socket <= n
    BY <1>1 DEF SocketsSuit
  <2> QED BY <1>14, <2>1, <2>2
<1>16. \A u \in Tab : tab[u].socket # None =>
         /\ tab[u].socket \in Socket
         /\ conn'[tab[u].socket] = conn[tab[u].socket]
         /\ toServer'[tab[u].socket] = toServer[tab[u].socket]
  BY <1>1, <1>9, <1>10, <1>15, Fields
<1>17. \A h \in handshakes : h.socket # s /\ h.socket \in Socket
  BY <1>1, <1>8, Fields DEF HandshakesSuit
<1>18. \A x \in slots : /\ x.token # s /\ x.session # s /\ x.token <= s /\ x.session <= s
                        /\ x.token \in Socket /\ x.session \in Socket
  <2>1. \A x \in slots : x.token \in Nat /\ x.session \in Nat
    BY <1>1, Fields, SocketNumbers
  <2>2. \A x \in slots : x.token <= n /\ x.session <= n
    BY <1>1 DEF SlotsSuit
  <2> QED BY <1>1, <1>14, <2>1, <2>2, Fields
<1>19. \A k \in 1 .. n : k \in 1 .. s /\ k # s /\ k \in Socket
  <2>1. \A k \in 1 .. n : k \in Socket
    BY <1>1, Opened
  <2> QED BY <1>3, <2>1 DEF s
<1>20. TypeOK'
  BY <1>1, <1>2, <1>9, <1>10, <1>13 DEF TypeOK, TabRecord
<1>21. SocketsSuit'
  <2>1. \A u \in Socket : u > s => u # s /\ u > n
    BY <1>3, SocketNumbers DEF s
  <2>2. \A u \in Socket : u > s => conn'[u] = "closed" /\ toTab[u] = <<>>
    BY <1>1, <1>9, <2>1 DEF SocketsSuit
  <2>3. s <= s
    BY <1>3
  <2>4. \A u \in Tab : tab'[u].socket <= s
    BY <1>11, <1>13, <1>15, <2>3
  <2> QED BY <1>2, <1>4, <2>2, <2>4 DEF SocketsSuit, Spending
<1>22. TabsSuit'
  <2>1. TabSuits(r, journal[t])
    BY <1>3, <1>11 DEF TabSuits, Online, a
  <2>2. \A u \in Tab : TabSuits(tab'[u], journal[u])
    BY <1>1, <1>13, <2>1 DEF TabsSuit
  <2>3. \A u, v \in Tab : tab'[u].socket = tab'[v].socket /\ tab'[u].socket # None => u = v
    BY <1>1, <1>11, <1>13, <1>15 DEF TabsSuit
  <2> QED BY <1>2, <2>2, <2>3 DEF TabsSuit
<1>23. WiresSuit'
  <2>1. \A u \in Socket : ControlSuits(conn'[u], toServer'[u])
    <3>1. ControlSuits("hello", <<m>>)
      BY <1>7 DEF ControlSuits
    <3> QED BY <1>1, <1>9, <1>10, <3>1 DEF WiresSuit
  <2>2. Frames(r, <<>>) /\ Wire(r, <<>>, "hello", <<m>>)
    <3>1. DOMAIN <<>> = {}
      OBVIOUS
    <3> QED BY <1>11, <3>1 DEF Frames, Wire
  <2>3. ASSUME NEW u \in Tab, tab'[u].socket # None
        PROVE  /\ Frames(tab'[u], toTab[tab'[u].socket])
               /\ Wire(tab'[u], toTab[tab'[u].socket], conn'[tab'[u].socket], toServer'[tab'[u].socket])
               /\ conn'[tab'[u].socket] = "hello" =>
                    toServer'[tab'[u].socket][1].token = Token(journal[u], tab'[u].attempt)
    <3>1. CASE u = t
      BY <1>6, <1>7, <1>8, <1>9, <1>10, <1>11, <1>13, <2>2, <3>1
    <3>2. CASE u # t
      BY <1>1, <1>13, <1>16, <2>3, <3>2 DEF WiresSuit
    <3> QED BY <3>1, <3>2
  <2> QED BY <1>2, <2>1, <2>3 DEF WiresSuit
<1>24. HandshakesSuit' /\ SlotsSuit' /\ ResumeHasItsSlot'
  <2>1. HandshakesSuit'
    BY <1>1, <1>2, <1>9, <1>17 DEF HandshakesSuit
  <2>2. SlotsSuit'
    BY <1>1, <1>2, <1>4, <1>9, <1>18 DEF SlotsSuit, Fresh
  <2> QED BY <1>1, <1>2, <2>1, <2>2 DEF ResumeHasItsSlot, Fresh
<1>25. BindingsSuit'
  BY <1>1, <1>2, <1>9, <1>11, <1>13, <1>16 DEF BindingsSuit
<1>26. JournalsSuit'
  <2>1. \A k : Known(k, n, conn) => Known(k, s, conn')
    BY <1>9, <1>19 DEF Known
  <2> QED BY <1>1, <1>2, <1>4, <2>1 DEF JournalsSuit
<1>27. OffersSuit' /\ ReadySuits'
  <2>1. ~ FirstIs(<<>>, "offer") /\ ~ FirstIs(<<>>, "ready")
    BY DEF FirstIs
  <2>2. OffersSuit'
    BY <1>1, <1>2, <1>8, <1>11, <1>13, <2>1 DEF OffersSuit
  <2>3. ReadySuits'
    BY <1>1, <1>2, <1>8, <1>11, <1>13, <2>1 DEF ReadySuits
  <2> QED BY <2>2, <2>3
<1>28. TokensKept'
  BY <1>1, <1>2, <1>10, <1>17 DEF TokensKept
<1>29. RevokedSuits'
  <2>1. \A k : Gone(k, n, conn, slots) => Gone(k, s, conn', slots)
    BY <1>9, <1>19 DEF Gone
  <2>2. ~ Told(<<>>)
    BY DEF Told
  <2>3. ASSUME NEW u \in Tab
        PROVE  /\ tab'[u].phase = "revoked" => Gone(tab'[u].session, s, conn', slots)
               /\ tab'[u].socket # None /\ Told(toTab[tab'[u].socket]) =>
                    /\ Gone(tab'[u].session, s, conn', slots)
                    /\ \A x \in slots : x.token # tab'[u].socket
    <3>1. CASE u = t
      BY <1>8, <1>11, <1>13, <2>2, <3>1
    <3>2. CASE u # t
      BY <1>1, <1>13, <2>1, <3>2 DEF RevokedSuits
    <3> QED BY <3>1, <3>2
  <2> QED BY <1>2, <1>4, <2>3 DEF RevokedSuits
<1> QED BY <1>20, <1>21, <1>22, <1>23, <1>24, <1>25, <1>26, <1>27, <1>28, <1>29 DEF ResumeInvariant

----------------------------------------------------------------------------
(* The theorems *)

\* Nothing is open at first.
LEMMA ResumeInit ==
  ASSUME Init
  PROVE  ResumeInvariant
<1>1. /\ journal = [t \in Tab |-> NoJournal] /\ tab = [t \in Tab |-> NewPage]
      /\ conn = [s \in Socket |-> "closed"] /\ toServer = [s \in Socket |-> <<>>]
      /\ toTab = [s \in Socket |-> <<>>] /\ handshakes = {} /\ slots = {}
      /\ refused = [t \in Tab |-> {}]
      /\ spent = [sockets |-> 0, reloads |-> 0, restarts |-> 0, revokes |-> 0, pressure |-> 0]
  BY DEF Init
<1>2. /\ NewPage \in TabRecord /\ NewPage.socket = None /\ NewPage.phase = "disconnected"
      /\ NoJournal \in [current : Nat, pending : Nat]
      /\ NoJournal.current = None /\ NoJournal.pending = None
  BY SocketNumbers DEF NewPage, NoJournal, TabRecord, TabPhase, Attempt
<1>3. TypeOK
  BY <1>1, <1>2 DEF TypeOK, TabRecord
<1>4. SocketsSuit
  <2>1. 0 \in 0 .. MaxSockets /\ None <= 0
    BY ResumeAssumption DEF None
  <2> QED BY <1>1, <1>2, <2>1 DEF SocketsSuit
<1>5. TabsSuit
  BY <1>1, <1>2 DEF TabsSuit, TabSuits, Online
<1>6. WiresSuit
  <2>1. ControlSuits("closed", <<>>)
    BY DEF ControlSuits
  <2> QED BY <1>1, <1>2, <2>1 DEF WiresSuit
<1>7. HandshakesSuit /\ SlotsSuit /\ ResumeHasItsSlot
  <2>1. Fresh = {}
    BY <1>1 DEF Fresh
  <2>2. IsFiniteSet({}) /\ Cardinality({}) = 0
    BY FS_EmptySet
  <2>3. 0 + 0 <= MaxSessions
    BY ResumeAssumption
  <2> QED BY <1>1, <2>1, <2>2, <2>3 DEF HandshakesSuit, SlotsSuit, ResumeHasItsSlot
<1>8. BindingsSuit /\ JournalsSuit /\ OffersSuit /\ ReadySuits /\ TokensKept /\ RevokedSuits
  BY <1>1, <1>2 DEF BindingsSuit, JournalsSuit, JournalSuits, Known, OffersSuit, ReadySuits,
     TokensKept, RevokedSuits
<1> QED BY <1>3, <1>4, <1>5, <1>6, <1>7, <1>8 DEF ResumeInvariant

\* Every step keeps the books.
LEMMA ResumeStep ==
  ASSUME ResumeInvariant, [Next]_vars
  PROVE  ResumeInvariant'
<1>1. CASE UNCHANGED vars
  BY <1>1, StutterKeeps
<1>2. ASSUME NEW t \in Tab,
             BeginConnect(t) \/ TabReceives(t) \/ SocketDisconnected(t) \/ Revoke(t) \/ Reload(t)
      PROVE  ResumeInvariant'
  <2>1. CASE BeginConnect(t)
    BY <2>1, ConnectKeeps
  <2>2. CASE ReceiveOffer(t)
    BY <2>2, OfferReadKeeps
  <2>3. CASE ReceiveReady(t)
    BY <2>3, ReadyReadKeeps
  <2>4. CASE ReceiveReject(t)
    BY <2>4, RejectedKeeps, RetryKeeps
  <2>5. CASE ReceiveData(t)
    BY <2>5, DataReadKeeps
  <2>6. CASE ReceiveUnexpected(t) \/ SocketDisconnected(t) \/ Reload(t)
    BY <2>6, LeavingKeeps
  <2>7. CASE ReceiveRevoked(t)
    BY <2>7, RevokedKeeps
  <2>8. CASE Revoke(t)
    BY <2>8, RevokeKeeps
  <2> QED BY <1>2, <2>1, <2>2, <2>3, <2>4, <2>5, <2>6, <2>7, <2>8 DEF TabReceives
<1>3. ASSUME NEW s \in Socket, ServerReceives(s) \/ CloseConnection(s) \/ SendData(s)
      PROVE  ResumeInvariant'
  <2>1. CASE BeginFresh(s) \/ BeginResume(s)
    BY <2>1, BeginKeeps
  <2>2. CASE RejectHello(s) \/ CloseConnection(s) \/ (CommitFails(s) /\ slots' = slots)
    BY <2>2, DisconnectKeeps
  <2>3. CASE CommitFresh(s) \/ CommitResume(s) \/ (CommitFails(s) /\ slots' # slots)
    BY <2>3, CommitKeeps
  <2>4. CASE RevokeSession(s)
    BY <2>4, RevokeSessionKeeps
  <2>5. CASE SendData(s)
    BY <2>5, SendDataKeeps
  <2> QED BY <1>3, <2>1, <2>2, <2>3, <2>4, <2>5 DEF ServerReceives
<1>4. CASE \E h \in handshakes : ExpireHandshake(h)
  BY <1>4, ExpiryKeeps
<1>5. CASE \E x \in slots : Poison(x) \/ ExpireSession(x) \/ ContinueCleanup(x)
  BY <1>5, PoisonKeeps, ExpiryKeeps
<1>6. CASE ServerRestart
  BY <1>6, RestartKeeps
<1> QED BY <1>1, <1>2, <1>3, <1>4, <1>5, <1>6 DEF Next

\* What the inductive invariant says of the properties.
LEMMA ResumeImplies ==
  ASSUME ResumeInvariant
  PROVE  RegistryInvariant /\ TokenIsJournaled /\ RevokedIsGone
<1>1. /\ TypeOK /\ TabsSuit /\ SlotsSuit /\ ResumeHasItsSlot /\ BindingsSuit /\ TokensKept
      /\ RevokedSuits
  BY DEF ResumeInvariant
<1>2. OffersAreHonoured
  BY <1>1 DEF SlotsSuit, OffersAreHonoured
<1>3. BindingAgrees
  <2>1. \A t \in Tab : tab[t].phase \in {"current", "awaiting_revoke"} => tab[t].socket # None
    BY <1>1 DEF TabsSuit, TabSuits, Online
  <2> QED BY <1>1, <2>1 DEF BindingAgrees, BindingsSuit
<1>4. TokenIsJournaled
  BY <1>1 DEF TokensKept, Kept, TokenIsJournaled
<1>5. RevokedIsGone
  BY <1>1 DEF RevokedSuits, Gone, RevokedIsGone
<1> QED BY <1>1, <1>2, <1>3, <1>4, <1>5 DEF RegistryInvariant

\* Whatever sockets close, handshakes expire and Sessions go, the registry's
\* slots are well formed, a resume has its slot, a fresh offer can be kept, and
\* both ends of a current socket agree on Session and generation.
THEOREM RegistryKeepsItsBooks == Spec => []RegistryInvariant
<1>1. ResumeInvariant => RegistryInvariant
  BY ResumeImplies
<1> QED BY <1>1, ResumeInit, ResumeStep, PTL DEF Spec

\* The token under which the server gives a Session back is in the journal of
\* a tab (or was refused to it), wherever a page load, a crash or a timeout cuts
\* the handshake.
THEOREM TokensAreJournaled == Spec => []TokenIsJournaled
<1>1. ResumeInvariant => TokenIsJournaled
  BY ResumeImplies
<1> QED BY <1>1, ResumeInit, ResumeStep, PTL DEF Spec

\* The Session of a tab that was told of its revocation cannot be resumed.
THEOREM RevocationIsFinal == Spec => []RevokedIsGone
<1>1. ResumeInvariant => RevokedIsGone
  BY ResumeImplies
<1> QED BY <1>1, ResumeInit, ResumeStep, PTL DEF Spec

\* A step that fails a tab is one of its own, and the frame it meets is one that
\* only revocation makes unexpected.
LEMMA OnlyRevocationFailsStep ==
  ASSUME ResumeInvariant, [Next]_vars, NEW t \in Tab,
         tab'[t].phase = "failed", tab[t].phase # "failed"
  PROVE  tab[t].phase = "awaiting_revoke"
<1>1. TypeOK /\ TabsSuit /\ tab \in [Tab -> TabRecord]
  BY DEF ResumeInvariant, TypeOK, TabRecord
<1>2. tab'[t] # tab[t]
  OBVIOUS
<1>3. PICK u \in Tab :
        BeginConnect(u) \/ TabReceives(u) \/ SocketDisconnected(u) \/ Revoke(u) \/ Reload(u)
  <2>1. tab' # tab
    BY <1>2
  <2>2. ASSUME NEW s \in Socket, ServerReceives(s) \/ CloseConnection(s) \/ SendData(s)
        PROVE  tab' = tab
    BY <2>2 DEF ServerReceives, BeginFresh, BeginResume, RejectHello, CommitFresh, CommitResume,
       CommitFails, RevokeSession, CloseConnection, SendData
  <2>3. ASSUME NEW h \in handshakes, ExpireHandshake(h) PROVE tab' = tab
    BY <2>3 DEF ExpireHandshake
  <2>4. ASSUME NEW x \in slots, Poison(x) \/ ExpireSession(x) \/ ContinueCleanup(x)
        PROVE  tab' = tab
    BY <2>4 DEF Poison, ExpireSession, ContinueCleanup
  <2>5. ServerRestart => tab' = tab
    BY DEF ServerRestart
  <2>6. UNCHANGED vars => tab' = tab
    BY DEF vars
  <2> QED BY <2>1, <2>2, <2>3, <2>4, <2>5, <2>6 DEF Next
<1>4. ReceiveUnexpected(u) /\ u = t
  <2>1. ASSUME ~ ReceiveUnexpected(u) PROVE FALSE
    <3>1. CASE BeginConnect(u)
      BY <1>1, <3>1 DEF BeginConnect, TabRecord
    <3>2. CASE ReceiveOffer(u) \/ ReceiveReady(u) \/ ReceiveData(u) \/ Revoke(u)
      BY <1>1, <3>2 DEF ReceiveOffer, ReceiveReady, ReceiveData, Revoke, TabRecord
    <3>3. CASE ReceiveReject(u)
      BY <1>1, <3>3 DEF ReceiveReject, Leave, TabRecord
    <3>4. CASE ReceiveRevoked(u) \/ SocketDisconnected(u)
      BY <1>1, <3>4 DEF ReceiveRevoked, SocketDisconnected, Leave, TabRecord
    <3>5. CASE Reload(u)
      BY <1>1, <3>5 DEF Reload, NewPage, TabRecord
    <3> QED BY <1>3, <2>1, <3>1, <3>2, <3>3, <3>4, <3>5 DEF TabReceives
  <2>2. Leave(u, "failed")
    BY <2>1 DEF ReceiveUnexpected
  <2>3. \A v \in Tab : v # u => tab'[v] = tab[v]
    BY <1>1, <2>2 DEF Leave
  <2> QED BY <1>2, <2>1, <2>3
<1>5. /\ tab[t].socket # None /\ toTab[tab[t].socket] # <<>>
      /\ Head(toTab[tab[t].socket]).type # "close"
      /\ ~ Takes(t, Head(toTab[tab[t].socket]))
  BY <1>4 DEF ReceiveUnexpected, HasFrame
<1>6. Frame(tab[t], toTab[tab[t].socket], 1) /\ Head(toTab[tab[t].socket]) = toTab[tab[t].socket][1]
  BY <1>5, FirstFrame
<1>7. tab[t].phase \in Online
  BY <1>1, <1>5 DEF TabsSuit, TabSuits
<1> QED BY <1>5, <1>6, <1>7 DEF Frame, Takes, Online

\* No order of the two ends' steps ends a tab's handshake for good, but a data
\* frame that crosses its request for revocation.
THEOREM NothingElseFails == Spec => OnlyRevocationFails
<1>1. ResumeInvariant /\ [Next]_vars =>
        [\A t \in Tab : (tab'[t].phase = "failed" /\ tab[t].phase # "failed")
                          => tab[t].phase = "awaiting_revoke"]_vars
  BY OnlyRevocationFailsStep
<1> QED BY <1>1, ResumeInit, ResumeStep, PTL DEF Spec, OnlyRevocationFails
=============================================================================
