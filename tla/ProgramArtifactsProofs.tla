------------------------ MODULE ProgramArtifactsProofs ------------------------
(***************************************************************************)
(* Theorems about ProgramArtifacts, for all sessions, sources, limits and  *)
(* bounds: no program goes back to an older revision, no archived program  *)
(* runs that the database does not own, no current draft misses its owner  *)
(* unless its store has ended in a diagnostic, without a compaction no     *)
(* checkpoint is refused for its artifacts, and the store lane keeps its   *)
(* limits with an exact count of its bytes.                                *)
(*                                                                         *)
(* A handler of the host is a composition of operators on the record of    *)
(* the host's state, so the inductive invariant is an operator on that     *)
(* record, on the database and on the number of compactions, and every     *)
(* operator has a lemma that it keeps it.  At the heart of the invariant   *)
(* is where the turn that gives an artifact its owner is: the lane holds   *)
(* one store at a time, its ticket is the number of that turn, and no      *)
(* other turn on its way changes an owner.                                 *)
(***************************************************************************)
EXTENDS ProgramArtifacts, Sums

-----------------------------------------------------------------------------
(* The inductive invariant *)

\* h is a record of the host's state.
IsHost(h) ==
  /\ DOMAIN h = {"program", "lane", "link", "compiler", "ended", "unsaved"}
  /\ DOMAIN h.lane = {"pending", "flight", "ready", "awaiting", "ticket", "bytes"}
  /\ DOMAIN h.link = {"channel", "sent", "durable", "completion", "waiting"}
  /\ DOMAIN h.compiler = {"pending", "outcomes"}
  /\ h.link.channel \in Seq(Message)
  /\ h.link.sent \in Nat /\ h.link.durable \in Nat
  /\ h.compiler.pending \in [Sessions -> Identity \cup {None}]
  /\ h.compiler.outcomes \in Seq(Request)

\* Requests rise: the latest one has the last revision, no active program a later one.
ProgramsRise(p) ==
  /\ p \in [Sessions -> HostedProgram \cup {None}]
  /\ \A s \in Sessions : p[s] # None =>
       /\ p[s].request # None => p[s].request.revision = p[s].requested
       /\ p[s].active # None => p[s].active.revision <= p[s].requested

\* Pending stores are filed under their session, and one store at a time is
\* under way.
LaneIsSound(l) ==
  /\ DOMAIN l.pending = Sessions
  /\ \A s \in Sessions :
       /\ DOMAIN l.pending[s] = {"sequence", "request", "quiet"}
       /\ l.pending[s].request \in Request \cup {None}
       /\ l.pending[s].request # None => l.pending[s].request.session = s
  /\ {l.flight, l.ready, l.awaiting} \subseteq Request \cup {None}
  /\ l.ticket \in Nat
  /\ l.flight # None => l.ready = None /\ l.awaiting = None
  /\ l.ready # None => l.awaiting = None

\* Every owner in the manifest is the owner of a request for that content, and
\* what is owned is stored.
DiskIsSound(d) ==
  /\ DOMAIN d = {"stored", "manifest", "batch"}
  /\ d.manifest = [o \in DOMAIN d.manifest |-> d.manifest[o]]
  /\ \A o \in DOMAIN d.manifest :
       \E r \in Request : o = Owner(r) /\ d.manifest[o] = Content(r)
  /\ IsFiniteSet(d.stored)
  /\ Owned(d.manifest) \subseteq d.stored
  /\ d.batch \in Seq(Message)
  /\ \A i \in DOMAIN d.batch : d.batch[i].kind = "turn"

\* A Put is in the channel for the flight that waits for it, a compaction at its
\* end while the host waits.
ChannelIsSound(h, c) ==
  LET q == h.link.channel IN
  /\ h.link.completion # "none" => h.lane.flight # None
  /\ \A i \in DOMAIN q : q[i].kind = "put" =>
       /\ h.lane.flight # None /\ h.link.completion = "none"
       /\ q[i].request # None /\ Content(q[i].request) = Content(h.lane.flight)
       /\ \A j \in DOMAIN q : q[j].kind = "put" => i = j
  /\ \A i \in DOMAIN q : q[i].kind = "compact" =>
       h.link.waiting /\ i = Len(q) /\ c # 0

\* The messages of the channel that are not turns.
Others(h) ==
  (IF h.lane.flight # None /\ h.link.completion = "none" THEN 1 ELSE 0)
    + (IF h.link.waiting THEN 1 ELSE 0)

\* Every turn sent is durable, in the worker's batch or in the channel.
TurnsAreCounted(h, d) ==
  h.link.sent + Others(h) = h.link.durable + Len(d.batch) + Len(h.link.channel)

Owns(m, r) == Owner(r) \in DOMAIN m /\ m[Owner(r)] = Content(r)

\* The only turn on its way that changes an owner has the ticket's number.
OwnerIsOnItsWay(h, d) ==
  LET q == h.link.channel
      a == h.lane.awaiting
      k == h.lane.ticket - h.link.durable
  IN
  /\ \A i \in DOMAIN d.batch : d.batch[i].request # None => d.batch[i].request = a /\ k = i
  /\ \A i \in DOMAIN q : q[i].kind = "turn" /\ q[i].request # None =>
       q[i].request = a /\ k = Len(d.batch) + i
  /\ a # None /\ k <= 0 => Owns(d.manifest, a)
  /\ a # None /\ k > 0 =>
       \/ k \in DOMAIN d.batch /\ d.batch[k].request = a
       \/ /\ k - Len(d.batch) \in DOMAIN q
          /\ q[k - Len(d.batch)].kind = "turn" /\ q[k - Len(d.batch)].request = a

\* The manifest once the owner on its way is committed.
With(m, r) ==
  [o \in DOMAIN m \cup {Owner(r)} |-> IF o = Owner(r) THEN Content(r) ELSE m[o]]
Promised(h, d) ==
  IF h.lane.awaiting # None /\ h.lane.ticket > h.link.durable
    THEN With(d.manifest, h.lane.awaiting) ELSE d.manifest

\* As long as nobody compacts, what the lane has put is stored, and the commit
\* of the owner on its way leaves no more staged artifacts than allowed.
PutsAreStored(h, d) ==
  /\ h.link.completion = "ok" => Content(h.lane.flight) \in d.stored
  /\ h.lane.ready # None => Content(h.lane.ready) \in d.stored
  /\ h.lane.awaiting # None => Content(h.lane.awaiting) \in d.stored
  /\ Cardinality(d.stored \ Owned(Promised(h, d))) <= MaxStaged

\* ActiveIsOwned, and no other content is about to be owned in its place; the
\* requests of x are exempt, while a handler is at work on them.
ActiveIsSafe(h, d, x) ==
  \A s \in Sessions :
    (h.program[s] # None /\ h.program[s].active # None) =>
      LET r == [session |-> s, id |-> h.program[s].active] IN
      IF s \in Archives THEN Owns(d.manifest, r)
      ELSE h.program[s].request = h.program[s].active =>
             \/ r \in h.unsaved \cup InLane(h) \cup x
             \/ /\ Owns(d.manifest, r)
                /\ (h.lane.awaiting # None /\ h.lane.awaiting.session = s) =>
                     Content(h.lane.awaiting) = Content(r)

Sound(h, d, c, x) ==
  /\ IsHost(h)
  /\ ProgramsRise(h.program)
  /\ LaneIsSound(h.lane)
  /\ DiskIsSound(d)
  /\ ChannelIsSound(h, c)
  /\ TurnsAreCounted(h, d)
  /\ OwnerIsOnItsWay(h, d)
  /\ c = 0 => PutsAreStored(h, d)
  /\ ActiveIsSafe(h, d, x)

Counters == [edits : Nat, compactions : Nat, failures : Nat]

\* The inductive invariant of ProgramArtifacts.
ArtifactsInvariant == spent \in Counters /\ Sound(HostState, disk, spent.compactions, {})

-----------------------------------------------------------------------------
(* Turns that change no owner *)

\* A turn is sent: the channel and the count of turns change, nothing else.
LEMMA SentFields ==
  ASSUME NEW h, IsHost(h), NEW o \in Request \cup {None}
  PROVE  /\ IsHost(Sent(h, o))
         /\ Sent(h, o).program = h.program
         /\ Sent(h, o).lane = h.lane
         /\ Sent(h, o).compiler = h.compiler
         /\ Sent(h, o).ended = h.ended
         /\ Sent(h, o).unsaved = h.unsaved
         /\ Sent(h, o).link.channel = Append(h.link.channel, Msg("turn", o))
         /\ Sent(h, o).link.sent = h.link.sent + 1
         /\ Sent(h, o).link.durable = h.link.durable
         /\ Sent(h, o).link.completion = h.link.completion
         /\ Sent(h, o).link.waiting = h.link.waiting
PROOF
  <1> DEFINE g == Sent(h, o)
  <1>1. /\ g.program = h.program /\ g.lane = h.lane /\ g.compiler = h.compiler
        /\ g.ended = h.ended /\ g.unsaved = h.unsaved
        /\ DOMAIN g = DOMAIN h /\ DOMAIN g.link = DOMAIN h.link
    BY DEF Sent, IsHost
  <1>2. /\ g.link.channel = Append(h.link.channel, Msg("turn", o))
        /\ g.link.sent = h.link.sent + 1
        /\ g.link.durable = h.link.durable
        /\ g.link.completion = h.link.completion
        /\ g.link.waiting = h.link.waiting
    BY DEF Sent, IsHost
  <1>3. Append(h.link.channel, Msg("turn", o)) \in Seq(Message)
    <2>1. Msg("turn", o) \in Message
      BY DEF Msg, Message
    <2> QED BY <2>1 DEF IsHost
  <1> HIDE DEF g
  <1> QED BY <1>1, <1>2, <1>3 DEF IsHost, g

\* The channel with one more message at its end.
LEMMA AppendFacts ==
  ASSUME NEW q \in Seq(Message), NEW m \in Message
  PROVE  /\ Append(q, m) \in Seq(Message)
         /\ Len(Append(q, m)) = Len(q) + 1
         /\ DOMAIN Append(q, m) = 1 .. Len(q) + 1
         /\ DOMAIN q = 1 .. Len(q)
         /\ Len(q) \in Nat
         /\ \A i \in DOMAIN q : Append(q, m)[i] = q[i]
         /\ Append(q, m)[Len(q) + 1] = m
         /\ \A i \in DOMAIN Append(q, m) : i \in DOMAIN q \/ i = Len(q) + 1
PROOF
  OBVIOUS

\* A turn without an owner leaves the invariant alone (dispatch_lifecycle).
LEMMA SentKeeps ==
  ASSUME NEW h, NEW d, NEW c \in Nat, NEW x, Sound(h, d, c, x), ~h.link.waiting
  PROVE  Sound(Sent(h, None), d, c, x)
PROOF
  <1> DEFINE g == Sent(h, None)
             m == Msg("turn", None)
             q == h.link.channel
  <1>0. IsHost(h) /\ q \in Seq(Message) /\ m \in Message
    BY DEF Sound, IsHost, Msg, Message
  <1>1. /\ IsHost(g)
        /\ g.program = h.program /\ g.lane = h.lane /\ g.compiler = h.compiler
        /\ g.ended = h.ended /\ g.unsaved = h.unsaved
        /\ g.link.channel = Append(q, m) /\ g.link.sent = h.link.sent + 1
        /\ g.link.durable = h.link.durable /\ g.link.completion = h.link.completion
        /\ g.link.waiting = h.link.waiting
    BY <1>0, SentFields
  <1>3. m.kind = "turn" /\ m.request = None
    BY DEF Msg
  <1> HIDE DEF g, m
  <1>4. /\ Len(Append(q, m)) = Len(q) + 1
        /\ \A i \in DOMAIN q : Append(q, m)[i] = q[i]
        /\ Append(q, m)[Len(q) + 1] = m
        /\ \A i \in DOMAIN Append(q, m) : i \in DOMAIN q \/ i = Len(q) + 1
        /\ DOMAIN q \subseteq DOMAIN Append(q, m)
    BY <1>0, AppendFacts
  <1>5. ChannelIsSound(g, c)
    <2>1. ChannelIsSound(h, c)
      BY DEF Sound
    <2>2. ~\E i \in DOMAIN q : q[i].kind = "compact"
      BY <2>1 DEF ChannelIsSound
    <2> QED BY <2>1, <2>2, <1>1, <1>3, <1>4, SMTT(60) DEF ChannelIsSound
  <1>6. TurnsAreCounted(g, d)
    <2>1. Others(g) = Others(h)
      BY <1>1 DEF Others
    <2>2. Others(h) \in Nat /\ Len(d.batch) \in Nat /\ Len(q) \in Nat
      BY <1>0 DEF Others, Sound, DiskIsSound
    <2>3. h.link.sent \in Nat /\ h.link.durable \in Nat
      BY <1>0 DEF IsHost
    <2>4. h.link.sent + Others(h) = h.link.durable + Len(d.batch) + Len(q)
      BY DEF Sound, TurnsAreCounted
    <2>6. h.link.sent + 1 + Others(h) = h.link.durable + Len(d.batch) + (Len(q) + 1)
      <3> DEFINE e == h.link.sent
                 f == Others(h)
                 i == h.link.durable
                 j == Len(d.batch)
                 n == Len(q)
      <3>1. e \in Nat /\ f \in Nat /\ i \in Nat /\ j \in Nat /\ n \in Nat /\ e + f = i + j + n
        BY <2>2, <2>3, <2>4
      <3> HIDE DEF e, f, i, j, n
      <3>2. e + 1 + f = i + j + (n + 1)
        BY <3>1
      <3> QED BY <3>2 DEF e, f, i, j, n
    <2> QED BY <1>1, <1>4, <2>1, <2>6 DEF TurnsAreCounted
  <1>7. OwnerIsOnItsWay(g, d)
    <2>1. OwnerIsOnItsWay(h, d)
      BY DEF Sound
    <2> QED BY <2>1, <1>1, <1>3, <1>4, SMTT(60) DEF OwnerIsOnItsWay
  <1>8. c = 0 => PutsAreStored(g, d)
    BY <1>1 DEF Sound, PutsAreStored, Promised
  <1>9. ActiveIsSafe(g, d, x)
    BY <1>1 DEF Sound, ActiveIsSafe, InLane
  <1> QED BY <1>1, <1>5, <1>6, <1>7, <1>8, <1>9 DEF Sound, g

-----------------------------------------------------------------------------
(* Steps of a handler that change programs only *)

\* No program is removed, and none goes back.
NoneGoesBack(p, q) ==
  \A s \in Sessions : p[s] # None =>
    /\ q[s] # None
    /\ p[s].active # None =>
         q[s].active # None /\ q[s].active.revision >= p[s].active.revision

\* What every part of a handler of the host does, from h to g.
Keeps(h, g, d, c, x) ==
  Sound(g, d, c, x) /\ ~g.link.waiting /\ NoneGoesBack(h.program, g.program)

\* The fields of a program in the document.
LEMMA ProgramFields ==
  ASSUME NEW p, ProgramsRise(p), NEW s \in Sessions, p[s] # None
  PROVE  /\ p[s] \in HostedProgram
         /\ DOMAIN p = Sessions
         /\ DOMAIN p[s] = {"current", "requested", "request", "inFlight", "active", "diagnostic"}
         /\ p[s].current \in Identity \cup {None}
         /\ p[s].requested \in 0 .. MaxRevision
         /\ p[s].request \in Identity \cup {None}
         /\ p[s].inFlight \in BOOLEAN
         /\ p[s].active \in Identity \cup {None}
         /\ p[s].diagnostic \in Nat \X Nat
PROOF
  BY DEF ProgramsRise, HostedProgram

\* A revision is a number.
LEMMA RevisionIsNat ==
  ASSUME NEW i \in Identity
  PROVE  i.revision \in Nat /\ i.revision \in 1 .. MaxRevision /\ i.source \in Sources
PROOF
  BY ConstantsAssumption DEF Identity

\* A step that changes no program goes back with none.
LEMMA SameIsNotBack ==
  ASSUME NEW p, ProgramsRise(p)
  PROVE  NoneGoesBack(p, p)
PROOF
  <1> SUFFICES ASSUME NEW s \in Sessions, p[s] # None, p[s].active # None
               PROVE  p[s].active.revision >= p[s].active.revision
    BY DEF NoneGoesBack
  <1>1. p[s].active \in Identity
    BY ProgramFields
  <1>2. p[s].active.revision \in Nat
    BY <1>1, RevisionIsNat
  <1> QED BY <1>2

\* Not going back is transitive.
LEMMA NotBackTwice ==
  ASSUME NEW p, NEW q, NEW t, ProgramsRise(p), ProgramsRise(q), ProgramsRise(t),
         NoneGoesBack(p, q), NoneGoesBack(q, t)
  PROVE  NoneGoesBack(p, t)
PROOF
  <1> SUFFICES ASSUME NEW s \in Sessions, p[s] # None
               PROVE  /\ t[s] # None
                      /\ p[s].active # None =>
                           t[s].active # None /\ t[s].active.revision >= p[s].active.revision
    BY DEF NoneGoesBack
  <1>1. q[s] # None /\ t[s] # None
    BY DEF NoneGoesBack
  <1>2. CASE p[s].active # None
    <2>1. /\ q[s].active # None /\ q[s].active.revision >= p[s].active.revision
          /\ t[s].active # None /\ t[s].active.revision >= q[s].active.revision
      BY <1>1, <1>2 DEF NoneGoesBack
    <2>2. p[s].active \in Identity /\ q[s].active \in Identity /\ t[s].active \in Identity
      BY <1>1, <1>2, <2>1, ProgramFields
    <2>3. p[s].active.revision \in Nat /\ q[s].active.revision \in Nat
          /\ t[s].active.revision \in Nat
      BY <2>2, RevisionIsNat
    <2> QED BY <1>1, <2>1, <2>3
  <1> QED BY <1>1, <1>2

\* Two parts of a handler, one after the other.
LEMMA KeepsTwice ==
  ASSUME NEW h, NEW g, NEW f, NEW d, NEW c, NEW x, NEW y, NEW z, Sound(h, d, c, z),
         Keeps(h, g, d, c, x), Keeps(g, f, d, c, y)
  PROVE  Keeps(h, f, d, c, y)
PROOF
  <1>1. ProgramsRise(h.program) /\ ProgramsRise(g.program) /\ ProgramsRise(f.program)
    BY DEF Keeps, Sound
  <1> QED BY <1>1, NotBackTwice DEF Keeps

\* Exempting more requests weakens the invariant.
LEMMA ExemptMore ==
  ASSUME NEW h, NEW d, NEW c, NEW x, Sound(h, d, c, {})
  PROVE  Sound(h, d, c, x)
PROOF
  <1>1. ActiveIsSafe(h, d, {})
    BY DEF Sound
  <1>2. ActiveIsSafe(h, d, x)
    BY <1>1 DEF ActiveIsSafe
  <1> QED BY <1>2 DEF Sound

\* An archived request needs no exemption.
LEMMA ExemptArchived ==
  ASSUME NEW h, NEW d, NEW c, NEW r \in Request, r.session \in Archives, Sound(h, d, c, {r})
  PROVE  Sound(h, d, c, {})
PROOF
  <1>1. ActiveIsSafe(h, d, {r})
    BY DEF Sound
  <1>2. ActiveIsSafe(h, d, {})
    BY <1>1 DEF ActiveIsSafe
  <1> QED BY <1>2 DEF Sound

\* A part that leaves the lane and the link alone.
LEMMA OnlyPrograms ==
  ASSUME NEW h, NEW g, NEW d, NEW c, NEW x, NEW y, Sound(h, d, c, x),
         IsHost(g), g.lane = h.lane, g.link = h.link,
         ProgramsRise(g.program), ActiveIsSafe(g, d, y)
  PROVE  Sound(g, d, c, y)
PROOF
  <1>1. ChannelIsSound(g, c)
    BY DEF Sound, ChannelIsSound
  <1>2. TurnsAreCounted(g, d)
    BY DEF Sound, TurnsAreCounted, Others
  <1>3. OwnerIsOnItsWay(g, d)
    BY DEF Sound, OwnerIsOnItsWay
  <1>4. c = 0 => PutsAreStored(g, d)
    BY DEF Sound, PutsAreStored, Promised
  <1> QED BY <1>1, <1>2, <1>3, <1>4 DEF Sound

\* Programs that are not activated stay safe, unless they become current again.
LEMMA SameActive ==
  ASSUME NEW h, NEW g, NEW d, NEW x, ActiveIsSafe(h, d, x),
         g.lane = h.lane, h.unsaved \subseteq g.unsaved,
         \A s \in Sessions : g.program[s] # None /\ g.program[s].active # None =>
           /\ h.program[s] # None /\ h.program[s].active = g.program[s].active
           /\ g.program[s].request = g.program[s].active =>
                h.program[s].request = h.program[s].active
  PROVE  ActiveIsSafe(g, d, x)
PROOF
  <1>1. InLane(g) = InLane(h)
    BY DEF InLane
  <1> QED BY <1>1 DEF ActiveIsSafe

-----------------------------------------------------------------------------
(* Completions *)

\* An error that leaves the host's loop, or a turn of the parent.
LEMMA DispatchKeeps ==
  ASSUME NEW h, NEW d, NEW c \in Nat, NEW x, Sound(h, d, c, x), ~h.link.waiting
  PROVE  Keeps(h, Dispatch(h), d, c, x) /\ Dispatch(h).program = h.program
PROOF
  <1>0. IsHost(h) /\ ProgramsRise(h.program) /\ ActiveIsSafe(h, d, x)
    BY DEF Sound
  <1>1. NoneGoesBack(h.program, h.program)
    BY <1>0, SameIsNotBack
  <1>2. CASE HasRoom(h)
    <2>1. Dispatch(h) = Sent(h, None)
      BY <1>2 DEF Dispatch
    <2>2. Sound(Sent(h, None), d, c, x)
      BY SentKeeps
    <2>3. Sent(h, None).program = h.program /\ Sent(h, None).link.waiting = h.link.waiting
      BY <1>0, SentFields
    <2> QED BY <1>1, <2>1, <2>2, <2>3 DEF Keeps
  <1>3. CASE ~HasRoom(h)
    <2> DEFINE g == [h EXCEPT !.ended = TRUE]
    <2>1. /\ IsHost(g) /\ g.lane = h.lane /\ g.link = h.link
          /\ g.program = h.program /\ g.unsaved = h.unsaved
      BY <1>0 DEF IsHost
    <2>2. Dispatch(h) = g
      BY <1>3 DEF Dispatch
    <2> HIDE DEF g
    <2>3. ActiveIsSafe(g, d, x)
      BY <1>0, <2>1, SameActive
    <2>4. Sound(g, d, c, x)
      BY <1>0, <2>1, <2>3, OnlyPrograms
    <2> QED BY <1>1, <2>1, <2>2, <2>4 DEF Keeps
  <1> QED BY <1>2, <1>3

SetProgram(h, s, p) == [h EXCEPT !.program[s] = p]

\* The program of a session is replaced: the host keeps its shape.
LEMMA ProgramChange ==
  ASSUME NEW h, IsHost(h), ProgramsRise(h.program), NEW s \in Sessions,
         NEW p \in HostedProgram \cup {None}, NEW g, g = SetProgram(h, s, p)
  PROVE  /\ IsHost(g) /\ g.lane = h.lane /\ g.link = h.link
         /\ g.unsaved = h.unsaved /\ g.compiler = h.compiler /\ g.ended = h.ended
         /\ g.program \in [Sessions -> HostedProgram \cup {None}]
         /\ g.program[s] = p
         /\ \A t \in Sessions : t # s => g.program[t] = h.program[t]
PROOF
  <1>1. h.program \in [Sessions -> HostedProgram \cup {None}]
    BY DEF ProgramsRise
  <1>2. /\ DOMAIN g = DOMAIN h /\ g.lane = h.lane /\ g.link = h.link
        /\ g.unsaved = h.unsaved /\ g.compiler = h.compiler /\ g.ended = h.ended
        /\ g.program = [h.program EXCEPT ![s] = p]
    BY DEF IsHost, SetProgram
  <1> QED BY <1>1, <1>2 DEF IsHost

\* A request that is settled without a program, and the turn that says so.
LEMMA RejectKeeps ==
  ASSUME NEW h, NEW d, NEW c \in Nat, NEW x, Sound(h, d, c, x), ~h.link.waiting,
         NEW r \in Request
  PROVE  Keeps(h, Reject(h, r), d, c, x)
PROOF
  <1> DEFINE s == r.session
             p == h.program[s]
             o == [p EXCEPT !.inFlight = FALSE]
             g == SetProgram(h, s, o)
  <1>0. IsHost(h) /\ ProgramsRise(h.program) /\ ActiveIsSafe(h, d, x) /\ s \in Sessions
    BY DEF Sound, Request
  <1>1. CASE ~IsAwaited(h, r)
    BY <1>0, <1>1, SameIsNotBack DEF Reject, Keeps
  <1>2. CASE IsAwaited(h, r)
    <2>1. p # None
      BY <1>2 DEF IsAwaited, IsCurrent
    <2>2. /\ o \in HostedProgram /\ o.active = p.active /\ o.request = p.request
          /\ o.requested = p.requested
      <3>1. p \in HostedProgram
        BY <1>0, <2>1, ProgramFields
      <3> HIDE DEF p
      <3> QED BY <3>1 DEF HostedProgram
    <2>3. [h EXCEPT !.program[r.session].inFlight = FALSE] = g
      BY DEF SetProgram
    <2>4. Reject(h, r) = Dispatch(g)
      BY <1>2, <2>3 DEF Reject
    <2>5. o # None
      BY <2>2, NoneAssumption
    <2> HIDE DEF o
    <2>6. /\ IsHost(g) /\ g.lane = h.lane /\ g.link = h.link /\ g.unsaved = h.unsaved
          /\ g.program \in [Sessions -> HostedProgram \cup {None}]
          /\ g.program[s] = o /\ \A t \in Sessions : t # s => g.program[t] = h.program[t]
      <3>1. o \in HostedProgram \cup {None}
        BY <2>2
      <3> QED BY <1>0, <3>1, ProgramChange
    <2> HIDE DEF g
    <2>7. ProgramsRise(g.program)
      BY <1>0, <2>1, <2>2, <2>6 DEF ProgramsRise
    <2>8. ActiveIsSafe(g, d, x)
      BY <1>0, <2>1, <2>2, <2>6, SameActive
    <2>9. Sound(g, d, c, x)
      BY <2>6, <2>7, <2>8, OnlyPrograms
    <2>10. NoneGoesBack(h.program, g.program)
      BY <1>0, <2>1, <2>2, <2>5, <2>6, SameIsNotBack DEF NoneGoesBack
    <2>11. Keeps(h, g, d, c, x)
      BY <2>6, <2>9, <2>10 DEF Keeps
    <2>12. Keeps(g, Dispatch(g), d, c, x)
      BY <2>6, <2>9, DispatchKeeps
    <2> QED BY <2>4, <2>11, <2>12, KeepsTwice
  <1> QED BY <1>1, <1>2

\* A store that ends in a diagnostic: the request is noted as not saved, and
\* rejected if it is awaited.
LEMMA FailStoreKeeps ==
  ASSUME NEW h, NEW d, NEW c \in Nat, NEW r \in Request, Sound(h, d, c, {r}), ~h.link.waiting
  PROVE  Keeps(h, FailStore(h, r), d, c, {})
PROOF
  <1> DEFINE g == [h EXCEPT !.unsaved = @ \cup {r}]
  <1>0. IsHost(h) /\ ProgramsRise(h.program) /\ ActiveIsSafe(h, d, {r})
    BY DEF Sound
  <1>1. /\ IsHost(g) /\ g.lane = h.lane /\ g.link = h.link
        /\ g.program = h.program /\ g.unsaved = h.unsaved \cup {r}
    BY <1>0 DEF IsHost
  <1>2. FailStore(h, r) = Reject(g, r)
    BY DEF FailStore
  <1> HIDE DEF g
  <1>3. InLane(g) = InLane(h)
    BY <1>1 DEF InLane
  <1>4. ActiveIsSafe(g, d, {})
    BY <1>0, <1>1, <1>3 DEF ActiveIsSafe
  <1>5. Sound(g, d, c, {})
    BY <1>0, <1>1, <1>4, OnlyPrograms
  <1>6. Keeps(h, g, d, c, {})
    BY <1>0, <1>1, <1>5, SameIsNotBack DEF Keeps
  <1>7. Keeps(g, Reject(g, r), d, c, {})
    BY <1>1, <1>5, RejectKeeps
  <1> QED BY <1>2, <1>6, <1>7, KeepsTwice

\* An awaited request is activated: its revision is the last one requested.  The
\* request is exempt until it is in the lane; an archived one is owned already.
LEMMA ActivateKeeps ==
  ASSUME NEW h, NEW d, NEW c \in Nat, NEW r \in Request, Sound(h, d, c, {}), ~h.link.waiting,
         r.session \in Archives => Owns(d.manifest, r)
  PROVE  /\ Keeps(h, Activate(h, r), d, c, {r})
         /\ IsAwaited(h, r) => IsCurrent(Activate(h, r), r)
         /\ r.id.source \in Unstartable => Keeps(h, Activate(h, r), d, c, {})
PROOF
  <1> DEFINE s == r.session
             p == h.program[s]
             a == IF r.id.source \in Unstartable THEN p.active ELSE r.id
             o == [p EXCEPT !.inFlight = FALSE, !.active = a]
             g == SetProgram(h, s, o)
  <1>0. IsHost(h) /\ ProgramsRise(h.program) /\ ActiveIsSafe(h, d, {}) /\ s \in Sessions
        /\ r.id \in Identity
    BY DEF Sound, Request
  <1>1. CASE ~IsAwaited(h, r)
    <2>1. Activate(h, r) = h
      BY <1>1 DEF Activate
    <2> QED BY <1>0, <1>1, <2>1, SameIsNotBack, ExemptMore DEF Keeps
  <1>2. CASE IsAwaited(h, r)
    <2>1. p # None /\ p.request = r.id
      BY <1>2 DEF IsAwaited, IsCurrent
    <2>2. p \in HostedProgram
      BY <1>0, <2>1, ProgramFields
    <2>3. a \in Identity \cup {None}
      BY <1>0, <2>2 DEF HostedProgram
    <2>4. Activate(h, r) = g
      BY <1>2 DEF Activate, SetProgram
    <2> HIDE DEF a
    <2>5. /\ o \in HostedProgram /\ o.active = a /\ o.request = p.request
          /\ o.requested = p.requested
      <3> HIDE DEF p
      <3> QED BY <2>2, <2>3 DEF HostedProgram
    <2>6. o # None
      BY <2>5, NoneAssumption
    <2> HIDE DEF o
    <2>7. /\ IsHost(g) /\ g.lane = h.lane /\ g.link = h.link /\ g.unsaved = h.unsaved
          /\ g.program \in [Sessions -> HostedProgram \cup {None}]
          /\ g.program[s] = o /\ \A t \in Sessions : t # s => g.program[t] = h.program[t]
      <3>1. o \in HostedProgram \cup {None}
        BY <2>5
      <3> QED BY <1>0, <3>1, ProgramChange
    <2> HIDE DEF g
    <2>8. /\ a = p.active \/ a = r.id
          /\ p.active # None => a # None
          /\ a # None => a.revision <= p.requested
          /\ p.active # None => a.revision >= p.active.revision
      <3>1. r.id # None /\ r.id.revision = p.requested /\ r.id.revision \in Nat
        BY <1>0, <2>1, NoneAssumption, RevisionIsNat DEF ProgramsRise
      <3>2. p.active # None => p.active.revision <= p.requested /\ p.active.revision \in Nat
        <4>1. p.active \in Identity \cup {None}
          BY <2>2 DEF HostedProgram
        <4> QED BY <1>0, <2>1, <4>1, RevisionIsNat DEF ProgramsRise
      <3>3. CASE a = r.id
        BY <3>1, <3>2, <3>3
      <3>4. CASE a = p.active
        BY <3>1, <3>2, <3>4
      <3> QED BY <3>3, <3>4 DEF a
    <2>9. ProgramsRise(g.program)
      <3>1. \A t \in Sessions : t # s => g.program[t] = h.program[t]
        BY <2>7
      <3>2. o.request # None => o.request.revision = o.requested
        BY <1>0, <2>1, <2>5 DEF ProgramsRise
      <3>3. o.active # None => o.active.revision <= o.requested
        BY <2>5, <2>8
      <3> HIDE DEF s
      <3> QED BY <1>0, <2>7, <3>1, <3>2, <3>3 DEF ProgramsRise
    <2>10. ActiveIsSafe(g, d, {r})
      <3>1. InLane(g) = InLane(h)
        BY <2>7 DEF InLane
      <3> SUFFICES ASSUME NEW t \in Sessions, g.program[t] # None, g.program[t].active # None
                   PROVE  LET q == [session |-> t, id |-> g.program[t].active] IN
                          IF t \in Archives THEN Owns(d.manifest, q)
                          ELSE g.program[t].request = g.program[t].active =>
                             \/ q \in g.unsaved \cup InLane(g) \cup {r}
                             \/ /\ Owns(d.manifest, q)
                                /\ (g.lane.awaiting # None /\ g.lane.awaiting.session = t) =>
                                     Content(g.lane.awaiting) = Content(q)
        BY DEF ActiveIsSafe
      <3>2. CASE t = s /\ a = r.id
        <4>1. [session |-> t, id |-> g.program[t].active] = r
          BY <2>5, <2>7, <3>2 DEF Request
        <4> QED BY <3>2, <4>1
      <3>3. CASE ~(t = s /\ a = r.id)
        <4>1. /\ h.program[t] # None /\ h.program[t].active = g.program[t].active
              /\ h.program[t].request = g.program[t].request
          BY <2>1, <2>5, <2>7, <2>8, <3>3
        <4> QED BY <1>0, <2>7, <3>1, <4>1 DEF ActiveIsSafe
      <3> QED BY <3>2, <3>3
    <2>11. Sound(g, d, c, {r})
      BY <2>7, <2>9, <2>10, OnlyPrograms
    <2>12. NoneGoesBack(h.program, g.program)
      BY <1>0, <2>1, <2>5, <2>6, <2>7, <2>8, SameIsNotBack DEF NoneGoesBack
    <2>13. IsCurrent(g, r)
      BY <2>1, <2>5, <2>6, <2>7 DEF IsCurrent
    <2>14. r.id.source \in Unstartable => Sound(g, d, c, {})
      <3> SUFFICES ASSUME r.id.source \in Unstartable PROVE Sound(g, d, c, {})
        OBVIOUS
      <3>1. a = p.active
        BY DEF a
      <3>2. ActiveIsSafe(g, d, {})
        BY <1>0, <2>1, <2>5, <2>7, <3>1, SameActive
      <3> QED BY <2>7, <2>9, <3>2, OnlyPrograms
    <2> QED BY <2>4, <2>7, <2>11, <2>12, <2>13, <2>14 DEF Keeps
  <1> QED BY <1>1, <1>2

-----------------------------------------------------------------------------
(* The store lane *)

\* Programs stay safe in a lane that keeps its requests and its owner on the way.
LEMMA LaneStaysSafe ==
  ASSUME NEW h, NEW g, NEW d, NEW x, NEW y, ActiveIsSafe(h, d, x),
         g.program = h.program, h.unsaved \subseteq g.unsaved,
         g.lane.awaiting = h.lane.awaiting,
         InLane(h) \cup x \subseteq InLane(g) \cup y
  PROVE  ActiveIsSafe(g, d, y)
PROOF
  BY DEF ActiveIsSafe

\* The oldest eligible candidate is put: there is no other store under way.
LEMMA DriveStoreKeeps ==
  ASSUME NEW h, NEW d, NEW c \in Nat, Sound(h, d, c, {}), ~h.link.waiting
  PROVE  Keeps(h, DriveStore(h), d, c, {})
PROOF
  <1> DEFINE g == DriveStore(h)
             s == CHOOSE t \in Oldest(h.lane) : TRUE
             r == h.lane.pending[s].request
             m == Msg("put", r)
             q == h.link.channel
  <1>0. /\ IsHost(h) /\ ProgramsRise(h.program) /\ ActiveIsSafe(h, d, {})
        /\ LaneIsSound(h.lane) /\ ChannelIsSound(h, c) /\ DiskIsSound(d)
    BY DEF Sound
  <1>1. CASE g = h
    BY <1>0, <1>1, SameIsNotBack DEF Keeps
  <1>2. CASE g # h
    <2>1. /\ {h.lane.flight, h.lane.ready, h.lane.awaiting} = {None}
          /\ Oldest(h.lane) # {}
          /\ g = [h EXCEPT !.lane = [h.lane EXCEPT !.flight = r, !.pending[s] = NoStore],
                           !.link.channel = Append(@, m)]
      BY <1>2 DEF DriveStore
    <2>2. h.lane.flight = None /\ h.lane.ready = None /\ h.lane.awaiting = None
      BY <2>1
    <2>3. s \in Oldest(h.lane)
      BY <2>1
    <2>4. s \in Sessions /\ r # None /\ r \in Request /\ r.session = s
      BY <1>0, <2>3 DEF Oldest, Queued, LaneIsSound
    <2> HIDE DEF s
    <2>5. /\ g.program = h.program /\ g.compiler = h.compiler /\ g.unsaved = h.unsaved
          /\ DOMAIN g = DOMAIN h /\ DOMAIN g.lane = DOMAIN h.lane /\ DOMAIN g.link = DOMAIN h.link
      BY <1>0, <2>1 DEF IsHost
    <2>6. /\ g.lane.flight = r /\ g.lane.ready = None /\ g.lane.awaiting = None
          /\ g.lane.ticket = h.lane.ticket
      <3>1. g.lane = [h.lane EXCEPT !.flight = r, !.pending[s] = NoStore]
        BY <1>0, <2>1 DEF IsHost
      <3> HIDE DEF g, r
      <3> QED BY <1>0, <2>2, <3>1 DEF IsHost
    <2>7. /\ DOMAIN g.lane.pending = DOMAIN h.lane.pending
          /\ g.lane.pending[s] = NoStore
          /\ \A t \in Sessions : t # s => g.lane.pending[t] = h.lane.pending[t]
      <3>1. g.lane.pending = [h.lane.pending EXCEPT ![s] = NoStore]
        BY ZenonT(60), <1>0, <2>1 DEF IsHost
      <3> QED BY <1>0, <2>4, <3>1 DEF LaneIsSound
    <2>8. /\ g.link.channel = Append(q, m)
          /\ g.link.sent = h.link.sent /\ g.link.durable = h.link.durable
          /\ g.link.completion = h.link.completion /\ g.link.waiting = h.link.waiting
      BY <1>0, <2>1 DEF IsHost
    <2>9. m \in Message /\ m.kind = "put" /\ m.request = r /\ q \in Seq(Message)
      BY <1>0, <2>4 DEF Msg, Message, IsHost
    <2> HIDE DEF g, r, m
    <2>10. /\ Append(q, m) \in Seq(Message)
           /\ Len(Append(q, m)) = Len(q) + 1 /\ Len(q) \in Nat
           /\ \A i \in DOMAIN q : Append(q, m)[i] = q[i]
           /\ Append(q, m)[Len(q) + 1] = m
           /\ \A i \in DOMAIN Append(q, m) : i \in DOMAIN q \/ i = Len(q) + 1
      BY <2>9, AppendFacts
    <2>11. IsHost(g)
      BY <1>0, <2>5, <2>8, <2>10 DEF IsHost
    <2>12. LaneIsSound(g.lane)
      <3>1. DOMAIN NoStore = {"sequence", "request", "quiet"} /\ NoStore.request = None
        BY DEF NoStore
      <3> QED BY <1>0, <2>4, <2>6, <2>7, <3>1 DEF LaneIsSound
    <2>13. h.link.completion = "none" /\ \A i \in DOMAIN q : q[i].kind \notin {"put", "compact"}
      BY <1>0, <2>2 DEF ChannelIsSound
    <2>14. ChannelIsSound(g, c)
      BY <2>4, <2>6, <2>8, <2>9, <2>10, <2>13 DEF ChannelIsSound
    <2>15. TurnsAreCounted(g, d)
      <3>1. Others(h) = 0 /\ Others(g) = Others(h) + 1
        BY <2>2, <2>4, <2>6, <2>8, <2>13 DEF Others
      <3>2. h.link.sent + Others(h) = h.link.durable + Len(d.batch) + Len(q)
        BY DEF Sound, TurnsAreCounted
      <3>3. /\ h.link.sent \in Nat /\ h.link.durable \in Nat /\ Len(d.batch) \in Nat
            /\ Others(h) \in Nat
        BY <1>0, <3>1 DEF IsHost, DiskIsSound
      <3>4. h.link.sent + (Others(h) + 1) = h.link.durable + Len(d.batch) + (Len(q) + 1)
        <4> DEFINE e == h.link.sent
                   f == Others(h)
                   i == h.link.durable
                   j == Len(d.batch)
                   n == Len(q)
        <4>1. e \in Nat /\ f \in Nat /\ i \in Nat /\ j \in Nat /\ n \in Nat /\ e + f = i + j + n
          BY <2>10, <3>2, <3>3
        <4> HIDE DEF e, f, i, j, n
        <4>2. e + (f + 1) = i + j + (n + 1)
          BY <4>1
        <4> QED BY <4>2 DEF e, f, i, j, n
      <3> QED BY <2>8, <2>10, <3>1, <3>4 DEF TurnsAreCounted
    <2>16. OwnerIsOnItsWay(g, d)
      <3>1. OwnerIsOnItsWay(h, d)
        BY DEF Sound
      <3> QED BY <2>2, <2>6, <2>8, <2>9, <2>10, <3>1 DEF OwnerIsOnItsWay
    <2>17. c = 0 => PutsAreStored(g, d)
      BY <2>2, <2>6, <2>8, <2>13 DEF Sound, PutsAreStored, Promised
    <2>18. ActiveIsSafe(g, d, {})
      <3>1. InLane(h) \subseteq InLane(g)
        <4> SUFFICES ASSUME NEW e \in InLane(h) PROVE e \in InLane(g)
          OBVIOUS
        <4>1. PICK t \in Queued(h.lane) : e = h.lane.pending[t].request
          BY <2>2 DEF InLane
        <4>2. CASE t = s
          <5>1. e = r
            BY <4>1, <4>2 DEF r
          <5> QED BY <2>4, <2>6, <5>1 DEF InLane
        <4>3. CASE t # s
          <5>1. t \in Queued(g.lane) /\ e = g.lane.pending[t].request
            BY <2>7, <4>1, <4>3 DEF Queued
          <5> QED BY <5>1 DEF InLane
        <4> QED BY <4>2, <4>3
      <3>2. h.unsaved \subseteq g.unsaved /\ g.lane.awaiting = h.lane.awaiting
            /\ InLane(h) \cup {} \subseteq InLane(g) \cup {}
        BY <2>2, <2>5, <2>6, <3>1
      <3> QED BY <1>0, <2>5, <3>2, LaneStaysSafe
    <2>19. Sound(g, d, c, {})
      BY <1>0, <2>5, <2>11, <2>12, <2>14, <2>15, <2>16, <2>17, <2>18 DEF Sound
    <2>20. NoneGoesBack(h.program, g.program)
      BY <1>0, <2>5, SameIsNotBack
    <2>21. Keeps(h, g, d, c, {})
      BY <2>8, <2>19, <2>20 DEF Keeps
    <2> QED BY <2>21 DEF g
  <1> QED BY <1>1, <1>2

Joins(l, r) == l.flight # None /\ Content(l.flight) = Content(r)

Enqueued(l, r, e, b) ==
  [l EXCEPT !.flight = IF Joins(l, r) THEN r ELSE @, !.pending[r.session] = e, !.bytes = b]

\* Requests for the same content are of the same session.
LEMMA ContentTellsSession ==
  ASSUME NEW p \in Request, NEW r \in Request, Content(p) = Content(r)
  PROVE  p.session = r.session
PROOF
  BY DEF Content

\* The current request of a session takes the place of its pending store, or
\* joins the flight of its content.
LEMMA EnqueuedKeeps ==
  ASSUME NEW h, NEW d, NEW c \in Nat, NEW r \in Request, Sound(h, d, c, {r}),
         ~h.link.waiting, IsCurrent(h, r), NEW b, NEW e,
         DOMAIN e = {"sequence", "request", "quiet"},
         e.request = IF Joins(h.lane, r) THEN None ELSE r,
         NEW g, g = [h EXCEPT !.lane = Enqueued(h.lane, r, e, b)]
  PROVE  Keeps(h, g, d, c, {})
PROOF
  <1> DEFINE l == h.lane
             s == r.session
  <1>0. /\ IsHost(h) /\ ProgramsRise(h.program) /\ ActiveIsSafe(h, d, {r})
        /\ LaneIsSound(l) /\ ChannelIsSound(h, c) /\ DiskIsSound(d)
        /\ s \in Sessions /\ r # None
    BY NoneAssumption DEF Sound, Request
  <1>1. /\ g.program = h.program /\ g.compiler = h.compiler /\ g.unsaved = h.unsaved
        /\ g.link = h.link /\ DOMAIN g = DOMAIN h
        /\ g.lane = Enqueued(l, r, e, b)
    BY <1>0 DEF IsHost
  <1>2. /\ DOMAIN g.lane = DOMAIN l
        /\ g.lane.flight = IF Joins(l, r) THEN r ELSE l.flight
        /\ g.lane.ready = l.ready /\ g.lane.awaiting = l.awaiting /\ g.lane.ticket = l.ticket
        /\ g.lane.pending = [l.pending EXCEPT ![s] = e]
    BY <1>0, <1>1 DEF IsHost, Enqueued
  <1>3. /\ DOMAIN g.lane.pending = Sessions /\ g.lane.pending[s] = e
        /\ \A t \in Sessions : t # s => g.lane.pending[t] = l.pending[t]
    BY <1>0, <1>2 DEF LaneIsSound
  <1>4. /\ g.lane.flight = None <=> l.flight = None
        /\ l.flight # None => Content(g.lane.flight) = Content(l.flight)
    BY <1>0, <1>2 DEF Joins
  <1>5. IsHost(g)
    BY <1>0, <1>1, <1>2 DEF IsHost
  <1>6. LaneIsSound(g.lane)
    <2>1. g.lane.flight \in Request \cup {None}
      BY <1>0, <1>2 DEF LaneIsSound
    <2> QED BY <1>0, <1>2, <1>3, <1>4, <2>1 DEF LaneIsSound
  <1>7. ChannelIsSound(g, c)
    BY <1>0, <1>1, <1>4 DEF ChannelIsSound
  <1>8. TurnsAreCounted(g, d)
    BY <1>1, <1>4 DEF Sound, TurnsAreCounted, Others
  <1>9. OwnerIsOnItsWay(g, d)
    BY <1>1, <1>2 DEF Sound, OwnerIsOnItsWay
  <1>10. c = 0 => PutsAreStored(g, d)
    <2>1. h.link.completion = "ok" => l.flight # None
      BY <1>0 DEF ChannelIsSound
    <2> QED BY <1>1, <1>2, <1>4, <2>1 DEF Sound, PutsAreStored, Promised
  <1>11. ActiveIsSafe(g, d, {})
    <2>1. r \in InLane(g)
      <3>1. CASE Joins(l, r)
        BY <1>0, <1>2, <3>1 DEF InLane
      <3>2. CASE ~Joins(l, r)
        <4>1. s \in Queued(g.lane) /\ g.lane.pending[s].request = r
          BY <1>0, <1>3, <3>2 DEF Queued
        <4> QED BY <4>1 DEF InLane
      <3> QED BY <3>1, <3>2
    <2>2. ASSUME NEW p \in InLane(h), p \in Request, p.session # s
          PROVE  p \in InLane(g)
      <3>0. p # None
        BY <2>2, NoneAssumption
      <3>1. CASE p = l.flight
        <4>1. ~Joins(l, r)
          BY <2>2, <3>1, ContentTellsSession DEF Joins
        <4> QED BY <1>2, <3>0, <3>1, <4>1 DEF InLane
      <3>2. CASE p = l.ready \/ p = l.awaiting
        BY <1>2, <3>0, <3>2 DEF InLane
      <3>3. CASE \E t \in Queued(l) : p = l.pending[t].request
        <4>1. PICK t \in Queued(l) : p = l.pending[t].request
          BY <3>3
        <4>2. t \in Sessions /\ t = p.session
          BY <1>0, <3>0, <4>1 DEF LaneIsSound, Queued
        <4>3. t \in Queued(g.lane) /\ p = g.lane.pending[t].request
          BY <1>3, <2>2, <4>1, <4>2 DEF Queued
        <4> QED BY <4>3 DEF InLane
      <3> QED BY <2>2, <3>1, <3>2, <3>3 DEF InLane
    <2> SUFFICES ASSUME NEW t \in Sessions, g.program[t] # None, g.program[t].active # None
                 PROVE  LET q == [session |-> t, id |-> g.program[t].active] IN
                        IF t \in Archives THEN Owns(d.manifest, q)
                        ELSE g.program[t].request = g.program[t].active =>
                           \/ q \in g.unsaved \cup InLane(g) \cup {}
                           \/ /\ Owns(d.manifest, q)
                              /\ (g.lane.awaiting # None /\ g.lane.awaiting.session = t) =>
                                   Content(g.lane.awaiting) = Content(q)
      BY DEF ActiveIsSafe
    <2> DEFINE q == [session |-> t, id |-> h.program[t].active]
    <2>3. q \in Request /\ q.session = t
      BY <1>0, <1>1, ProgramFields DEF Request
    <2>4. CASE t \in Archives
      BY <1>0, <1>1, <2>4 DEF ActiveIsSafe
    <2>5. CASE t \notin Archives /\ h.program[t].request # h.program[t].active
      BY <1>1, <2>5
    <2>6. CASE t \notin Archives /\ h.program[t].request = h.program[t].active /\ t = s
      <3>1. q = r
        BY <1>1, <2>6 DEF IsCurrent, Request
      <3> QED BY <1>1, <2>1, <2>6, <3>1
    <2>7. CASE t \notin Archives /\ h.program[t].request = h.program[t].active /\ t # s
      <3>1. \/ q \in h.unsaved \cup InLane(h) \cup {r}
            \/ /\ Owns(d.manifest, q)
               /\ (l.awaiting # None /\ l.awaiting.session = t) => Content(l.awaiting) = Content(q)
        BY <1>0, <1>1, <2>7 DEF ActiveIsSafe
      <3>2. q # r
        BY <2>7
      <3>3. q \in InLane(h) => q \in InLane(g)
        BY <2>2, <2>3, <2>7
      <3> QED BY <1>1, <1>2, <2>7, <3>1, <3>2, <3>3
    <2> QED BY <2>4, <2>5, <2>6, <2>7
  <1>12. Sound(g, d, c, {})
    BY <1>0, <1>1, <1>5, <1>6, <1>7, <1>8, <1>9, <1>10, <1>11 DEF Sound
  <1> QED BY <1>0, <1>1, <1>12, SameIsNotBack DEF Keeps

\* enqueue_store: the candidate fails at a limit, or is filed and the lane driven.
LEMMA EnqueueStoreKeeps ==
  ASSUME NEW h, NEW d, NEW c \in Nat, NEW r \in Request, Sound(h, d, c, {r}),
         ~h.link.waiting, IsCurrent(h, r)
  PROVE  Keeps(h, EnqueueStore(h, r), d, c, {})
PROOF
  <1> DEFINE l == h.lane
             b == l.bytes - ((IF r.session \in Queued(l) THEN Size(l.pending[r.session].request)
                              ELSE 0) + (IF Joins(l, r) THEN Size(l.flight) ELSE 0)) + Size(r)
             e == IF Joins(l, r) THEN NoStore ELSE Pending(NextSequence(l), r)
             g == [h EXCEPT !.lane = Enqueued(l, r, e, b)]
  <1>1. EnqueueStore(h, r) \in {FailStore(h, r), DriveStore(g)}
    BY DEF EnqueueStore, Joins, Enqueued
  <1>2. /\ DOMAIN e = {"sequence", "request", "quiet"}
        /\ e.request = IF Joins(l, r) THEN None ELSE r
    BY DEF NoStore, Pending
  <1> HIDE DEF b, e
  <1>3. Keeps(h, g, d, c, {})
    BY <1>2, EnqueuedKeeps
  <1> HIDE DEF g
  <1>4. Keeps(g, DriveStore(g), d, c, {})
    BY <1>3, DriveStoreKeeps DEF Keeps
  <1>5. Keeps(h, DriveStore(g), d, c, {})
    BY <1>3, <1>4, KeepsTwice
  <1>6. Keeps(h, FailStore(h, r), d, c, {})
    BY FailStoreKeeps
  <1> QED BY <1>1, <1>5, <1>6

\* complete_program, for every outcome of a compilation.
LEMMA CompleteProgramKeeps ==
  ASSUME NEW h, NEW d, NEW c \in Nat, NEW r \in Request, Sound(h, d, c, {}), ~h.link.waiting
  PROVE  Keeps(h, CompleteProgram(h, r), d, c, {})
PROOF
  <1> DEFINE g == Activate(h, r)
  <1>0. ProgramsRise(h.program)
    BY DEF Sound
  <1>1. CASE ~IsAwaited(h, r)
    BY <1>0, <1>1, SameIsNotBack DEF CompleteProgram, Keeps
  <1>2. CASE IsAwaited(h, r) /\ r.id.source \in Broken
    BY <1>2, RejectKeeps DEF CompleteProgram
  <1>3. CASE IsAwaited(h, r) /\ r.id.source \notin Broken /\ r.session \in Archives
    <2>1. Sound(h, d, c, {r}) /\ IsCurrent(h, r)
      BY <1>3, ExemptMore DEF IsAwaited
    <2>2. Keeps(h, EnqueueStore(h, r), d, c, {})
      BY <2>1, EnqueueStoreKeeps
    <2> QED BY <1>3, <2>2 DEF CompleteProgram
  <1>4. CASE IsAwaited(h, r) /\ r.id.source \notin Broken /\ r.session \notin Archives
    <2>1. Keeps(h, g, d, c, {r})
      BY <1>4, ActivateKeeps
    <2>2. CASE r.id.source \in Unstartable
      <3>1. CompleteProgram(h, r) = g
        BY <1>4, <2>2 DEF CompleteProgram
      <3>2. Keeps(h, g, d, c, {})
        BY <1>4, <2>2, ActivateKeeps
      <3> QED BY <3>1, <3>2
    <2>3. CASE r.id.source \notin Unstartable
      <3>1. CompleteProgram(h, r) = EnqueueStore(g, r)
        BY <1>4, <2>3 DEF CompleteProgram
      <3>2. IsCurrent(g, r)
        BY <1>4, ActivateKeeps
      <3>3. Keeps(g, EnqueueStore(g, r), d, c, {})
        BY <2>1, <3>2, EnqueueStoreKeeps DEF Keeps
      <3> QED BY <2>1, <3>1, <3>3, KeepsTwice
    <2> QED BY <2>2, <2>3
  <1> QED BY <1>1, <1>2, <1>3, <1>4

-----------------------------------------------------------------------------
(* Completed stores and their owners *)

\* poll_durability: the owner's turn is durable, so the artifact is owned when
\* its request leaves the lane, and an archived program may run.
LEMMA PollDurabilityKeeps ==
  ASSUME NEW h, NEW d, NEW c \in Nat, Sound(h, d, c, {}), ~h.link.waiting
  PROVE  Keeps(h, PollDurability(h), d, c, {})
PROOF
  <1> DEFINE l == h.lane
             r == l.awaiting
             b == l.bytes - Size(r)
             k == [l EXCEPT !.awaiting = None, !.ticket = 0, !.bytes = b]
             g == [h EXCEPT !.lane = k]
  <1>0. /\ IsHost(h) /\ ProgramsRise(h.program) /\ ActiveIsSafe(h, d, {})
        /\ LaneIsSound(l) /\ ChannelIsSound(h, c) /\ DiskIsSound(d)
    BY DEF Sound
  <1>1. CASE h.ended \/ r = None \/ h.link.durable < l.ticket
    BY <1>0, <1>1, SameIsNotBack DEF PollDurability, Keeps
  <1>2. CASE ~h.ended /\ r # None /\ ~(h.link.durable < l.ticket)
    <2>1. PollDurability(h) = IF r.session \in Archives THEN Activate(g, r) ELSE g
      BY <1>2 DEF PollDurability
    <2>2. r \in Request
      BY <1>0, <1>2 DEF LaneIsSound
    <2>3. l.ticket - h.link.durable <= 0 /\ l.ticket \in Nat /\ h.link.durable \in Nat
      BY <1>0, <1>2 DEF LaneIsSound, IsHost
    <2>4. Owns(d.manifest, r)
      BY <1>2, <2>3 DEF Sound, OwnerIsOnItsWay
    <2> HIDE DEF b
    <2>5. /\ DOMAIN k = DOMAIN l /\ k.pending = l.pending /\ k.flight = l.flight
          /\ k.ready = l.ready /\ k.awaiting = None /\ k.ticket = 0
      BY <1>0 DEF IsHost
    <2> HIDE DEF k
    <2>6. /\ g.program = h.program /\ g.compiler = h.compiler /\ g.unsaved = h.unsaved
          /\ g.link = h.link /\ DOMAIN g = DOMAIN h /\ g.lane = k
      BY <1>0 DEF IsHost
    <2> HIDE DEF g
    <2>7. IsHost(g)
      BY <1>0, <2>5, <2>6 DEF IsHost
    <2>8. LaneIsSound(g.lane)
      BY <1>0, <2>5, <2>6 DEF LaneIsSound
    <2>9. ChannelIsSound(g, c)
      BY <1>0, <2>5, <2>6 DEF ChannelIsSound
    <2>10. TurnsAreCounted(g, d)
      BY <2>5, <2>6 DEF Sound, TurnsAreCounted, Others
    <2>11. OwnerIsOnItsWay(g, d)
      <3>1. \A i \in DOMAIN d.batch : d.batch[i].request = None
        <4> SUFFICES ASSUME NEW i \in DOMAIN d.batch, d.batch[i].request # None PROVE FALSE
          OBVIOUS
        <4>1. l.ticket - h.link.durable = i
          BY DEF Sound, OwnerIsOnItsWay
        <4>2. i > 0
          BY <1>0 DEF DiskIsSound
        <4> QED BY <2>3, <4>1, <4>2
      <3>2. \A i \in DOMAIN h.link.channel :
              h.link.channel[i].kind = "turn" => h.link.channel[i].request = None
        <4> SUFFICES ASSUME NEW i \in DOMAIN h.link.channel, h.link.channel[i].kind = "turn",
                            h.link.channel[i].request # None
                     PROVE  FALSE
          OBVIOUS
        <4>1. l.ticket - h.link.durable = Len(d.batch) + i
          BY DEF Sound, OwnerIsOnItsWay
        <4>2. i > 0 /\ Len(d.batch) \in Nat /\ i \in Nat
          BY <1>0 DEF DiskIsSound, IsHost
        <4>3. Len(d.batch) + i > 0
          BY <4>2
        <4> QED BY <2>3, <4>1, <4>3
      <3> QED BY <2>5, <2>6, <3>1, <3>2 DEF OwnerIsOnItsWay
    <2>12. c = 0 => PutsAreStored(g, d)
      <3>1. Promised(h, d) = d.manifest /\ Promised(g, d) = d.manifest
        BY <2>3, <2>5, <2>6 DEF Promised
      <3> QED BY <2>5, <2>6, <3>1 DEF Sound, PutsAreStored
    <2>13. ActiveIsSafe(g, d, {})
      <3>1. InLane(h) \subseteq InLane(g) \cup {r}
        BY <2>5, <2>6 DEF InLane, Queued
      <3> QED BY <1>0, <2>4, <2>5, <2>6, <3>1 DEF ActiveIsSafe
    <2>14. Keeps(h, g, d, c, {})
      BY <1>0, <2>6, <2>7, <2>8, <2>9, <2>10, <2>11, <2>12, <2>13, SameIsNotBack DEF Sound, Keeps
    <2>15. CASE r.session \in Archives
      <3>1. Keeps(g, Activate(g, r), d, c, {r})
        BY <2>2, <2>4, <2>14, ActivateKeeps DEF Keeps
      <3>2. Keeps(g, Activate(g, r), d, c, {})
        BY <2>2, <2>15, <3>1, ExemptArchived DEF Keeps
      <3> QED BY <2>1, <2>14, <2>15, <3>2, KeepsTwice
    <2>16. CASE r.session \notin Archives
      BY <2>1, <2>14, <2>16
    <2> QED BY <2>15, <2>16
  <1> QED BY <1>1, <1>2

\* A request that owns its content already, or a new owner, leaves no more
\* artifacts staged than before: what a replaceable program no longer owns
\* takes the place of what it now owns.
LEMMA OwnerFreesStage ==
  ASSUME NEW d, DiskIsSound(d), NEW r \in Request, Content(r) \in d.stored
  PROVE  /\ Cardinality(d.stored \ Owned(With(d.manifest, r)))
              <= Cardinality(d.stored \ Owned(d.manifest))
         /\ Cardinality(d.stored \ Owned(With(d.manifest, r))) \in Nat
         /\ Cardinality(d.stored \ Owned(d.manifest)) \in Nat
         /\ Owned(With(d.manifest, r)) \subseteq d.stored
PROOF
  <1> DEFINE m == d.manifest
             o == Owner(r)
             new == Content(r)
             n == With(m, r)
             A == d.stored \ Owned(m)
             B == d.stored \ Owned(n)
  <1>1. DOMAIN n = DOMAIN m \cup {o} /\ n[o] = new /\ \A u \in DOMAIN m : u # o => n[u] = m[u]
    BY DEF With
  <1>2. IsFiniteSet(A) /\ IsFiniteSet(B) /\ Cardinality(A) \in Nat /\ Cardinality(B) \in Nat
    <2>1. A \in SUBSET d.stored /\ B \in SUBSET d.stored /\ IsFiniteSet(d.stored)
      BY DEF DiskIsSound
    <2> HIDE DEF A, B
    <2>2. IsFiniteSet(A) /\ IsFiniteSet(B)
      BY <2>1, FS_Subset
    <2> QED BY <2>2, FS_CardinalityType
  <1>3. Owned(n) \subseteq d.stored
    <2>1. Owned(m) \subseteq d.stored
      BY DEF DiskIsSound
    <2> HIDE DEF n, m
    <2> QED BY <1>1, <2>1 DEF Owned
  <1>4. CASE o \notin DOMAIN m \/ m[o] = new
    <2>1. Owned(m) \subseteq Owned(n)
      <3> HIDE DEF n, m
      <3> QED BY <1>1, <1>4 DEF Owned
    <2>2. B \in SUBSET A
      BY <2>1
    <2> HIDE DEF A, B
    <2>3. Cardinality(B) <= Cardinality(A)
      BY <1>2, <2>2, FS_Subset
    <2> QED BY <1>2, <1>3, <2>3 DEF A, B
  <1>5. CASE o \in DOMAIN m /\ m[o] # new
    <2> DEFINE old == m[o]
    <2>1. PICK p \in Request : o = Owner(p) /\ old = Content(p)
      BY <1>5 DEF DiskIsSound
    <2>2. r.session \notin Archives
      <3> SUFFICES ASSUME r.session \in Archives PROVE FALSE
        OBVIOUS
      <3>1. p.session = r.session /\ p.id = r.id
        BY <2>1 DEF Owner
      <3>2. Content(p) = Content(r)
        BY <3>1 DEF Content
      <3> QED BY <1>5, <2>1, <3>2
    <2>3. new \notin Owned(m)
      <3> SUFFICES ASSUME NEW u \in DOMAIN m, m[u] = new PROVE FALSE
        BY DEF Owned
      <3>1. PICK q \in Request : u = Owner(q) /\ m[u] = Content(q)
        BY DEF DiskIsSound
      <3>2. q.session = r.session
        BY <3>1, ContentTellsSession
      <3>3. u = o
        BY <2>2, <3>1, <3>2 DEF Owner
      <3> QED BY <1>5, <3>3
    <2>4. new \in A
      BY <2>3
    <2>5. B \in SUBSET ((A \ {new}) \cup {old})
      <3>1. new \in Owned(n)
        <4> HIDE DEF n, m
        <4> QED BY <1>1 DEF Owned
      <3>2. Owned(m) \subseteq Owned(n) \cup {old}
        <4> HIDE DEF n
        <4> QED BY <1>1 DEF Owned
      <3> HIDE DEF n, m, new, old
      <3> QED BY <3>1, <3>2
    <2> HIDE DEF A, B, new, old
    <2>6. IsFiniteSet(A \ {new}) /\ Cardinality(A \ {new}) = Cardinality(A) - 1
      BY <1>2, <2>4, FS_RemoveElement
    <2>7. /\ IsFiniteSet((A \ {new}) \cup {old})
          /\ \/ Cardinality((A \ {new}) \cup {old}) = Cardinality(A) - 1
             \/ Cardinality((A \ {new}) \cup {old}) = Cardinality(A) - 1 + 1
      BY <2>6, FS_AddElement
    <2>8. Cardinality(B) <= Cardinality((A \ {new}) \cup {old})
      BY <2>5, <2>7, FS_Subset
    <2>9. Cardinality(B) <= Cardinality(A)
      BY <1>2, <2>7, <2>8
    <2> QED BY <1>2, <1>3, <2>9 DEF A, B
  <1> QED BY <1>4, <1>5

\* drive_authority, for a request that is no longer current or whose turn is
\* refused: it leaves the lane; a current one is exempt until it is noted.
LEMMA ReadyDropped ==
  ASSUME NEW h, NEW d, NEW c \in Nat, Sound(h, d, c, {}), ~h.link.waiting,
         h.lane.ready # None, NEW x, ~IsCurrent(h, h.lane.ready) \/ h.lane.ready \in x,
         NEW b, NEW g,
         g = [h EXCEPT !.lane = [h.lane EXCEPT !.ready = None, !.bytes = b]]
  PROVE  Keeps(h, g, d, c, x)
PROOF
  <1> DEFINE l == h.lane
             r == l.ready
             k == [l EXCEPT !.ready = None, !.bytes = b]
  <1>0. /\ IsHost(h) /\ ProgramsRise(h.program) /\ ActiveIsSafe(h, d, {})
        /\ LaneIsSound(l) /\ ChannelIsSound(h, c) /\ DiskIsSound(d)
    BY DEF Sound
  <1>1. /\ DOMAIN k = DOMAIN l /\ k.pending = l.pending /\ k.flight = l.flight
        /\ k.ready = None /\ k.awaiting = l.awaiting /\ k.ticket = l.ticket
    BY <1>0 DEF IsHost
  <1>2. /\ g.program = h.program /\ g.compiler = h.compiler /\ g.unsaved = h.unsaved
        /\ g.link = h.link /\ DOMAIN g = DOMAIN h /\ g.lane = k
    BY <1>0 DEF IsHost
  <1> HIDE DEF k
  <1>3. IsHost(g) /\ LaneIsSound(g.lane)
    BY <1>0, <1>1, <1>2 DEF IsHost, LaneIsSound
  <1>4. ChannelIsSound(g, c)
    BY <1>0, <1>1, <1>2 DEF ChannelIsSound
  <1>5. TurnsAreCounted(g, d)
    BY <1>1, <1>2 DEF Sound, TurnsAreCounted, Others
  <1>6. OwnerIsOnItsWay(g, d)
    BY <1>1, <1>2 DEF Sound, OwnerIsOnItsWay
  <1>7. c = 0 => PutsAreStored(g, d)
    BY <1>1, <1>2 DEF Sound, PutsAreStored, Promised
  <1>8. ActiveIsSafe(g, d, x)
    <2>1. InLane(h) \subseteq InLane(g) \cup {r}
      BY <1>1, <1>2 DEF InLane, Queued
    <2>2. ASSUME NEW t \in Sessions, h.program[t] # None,
                 h.program[t].request = h.program[t].active,
                 [session |-> t, id |-> h.program[t].active] = r
          PROVE  r \in x
      BY <2>2 DEF IsCurrent
    <2> QED BY <1>0, <1>1, <1>2, <2>1, <2>2 DEF ActiveIsSafe
  <1> QED BY <1>0, <1>2, <1>3, <1>4, <1>5, <1>6, <1>7, <1>8, SameIsNotBack DEF Sound, Keeps

\* drive_authority, for a current request: the turn with its owner is the last
\* one in the channel, behind nothing but turns, and its number is the ticket.
LEMMA OwnerSent ==
  ASSUME NEW h, NEW d, NEW c \in Nat, Sound(h, d, c, {}), ~h.link.waiting,
         NEW r, r = h.lane.ready, r # None, IsCurrent(h, r), NEW g,
         g = [Sent(h, r) EXCEPT !.lane = [h.lane EXCEPT !.ready = None, !.awaiting = r,
                                                        !.ticket = h.link.sent + 1]]
  PROVE  Keeps(h, g, d, c, {})
PROOF
  <1> DEFINE l == h.lane
             k == [l EXCEPT !.ready = None, !.awaiting = r, !.ticket = h.link.sent + 1]
             q == h.link.channel
             m == Msg("turn", r)
             f == Sent(h, r)
  <1>0. /\ IsHost(h) /\ ProgramsRise(h.program) /\ ActiveIsSafe(h, d, {})
        /\ LaneIsSound(l) /\ ChannelIsSound(h, c) /\ DiskIsSound(d)
    BY DEF Sound
  <1>1. r \in Request /\ l.flight = None /\ l.awaiting = None
    BY <1>0 DEF LaneIsSound
  <1>2. /\ DOMAIN k = DOMAIN l /\ k.pending = l.pending /\ k.flight = l.flight
        /\ k.ready = None /\ k.awaiting = r /\ k.ticket = h.link.sent + 1
    BY <1>0 DEF IsHost
  <1>3. /\ IsHost(f) /\ f.program = h.program /\ f.compiler = h.compiler
        /\ f.unsaved = h.unsaved
        /\ f.link.channel = Append(q, m) /\ f.link.sent = h.link.sent + 1
        /\ f.link.durable = h.link.durable /\ f.link.completion = h.link.completion
        /\ f.link.waiting = h.link.waiting
    BY <1>0, <1>1, SentFields
  <1> HIDE DEF k, f
  <1>4. g = [f EXCEPT !.lane = k]
    BY DEF k, f
  <1>5. /\ g.program = f.program /\ g.compiler = f.compiler /\ g.unsaved = f.unsaved
        /\ g.link = f.link /\ DOMAIN g = DOMAIN f /\ g.lane = k
    BY <1>3, <1>4 DEF IsHost
  <1>6. m \in Message /\ m.kind = "turn" /\ m.request = r /\ q \in Seq(Message)
    BY <1>0, <1>1 DEF Msg, Message, IsHost
  <1> HIDE DEF m
  <1>7. /\ Append(q, m) \in Seq(Message)
        /\ Len(Append(q, m)) = Len(q) + 1 /\ Len(q) \in Nat
        /\ DOMAIN Append(q, m) = 1 .. Len(q) + 1
        /\ \A i \in DOMAIN q : Append(q, m)[i] = q[i]
        /\ Append(q, m)[Len(q) + 1] = m
        /\ \A i \in DOMAIN Append(q, m) : i \in DOMAIN q \/ i = Len(q) + 1
    BY <1>6, AppendFacts
  <1>8. h.link.sent \in Nat /\ h.link.durable \in Nat /\ Len(d.batch) \in Nat
    BY <1>0 DEF IsHost, DiskIsSound
  <1>9. h.link.completion = "none" /\ \A i \in DOMAIN q : q[i].kind \notin {"put", "compact"}
    BY <1>0, <1>1 DEF ChannelIsSound
  <1>10. h.link.sent = h.link.durable + Len(d.batch) + Len(q)
    <2>1. Others(h) = 0
      BY <1>1 DEF Others
    <2>2. h.link.sent + 0 = h.link.durable + Len(d.batch) + Len(q)
      BY <2>1 DEF Sound, TurnsAreCounted
    <2> DEFINE e == h.link.sent
               n == h.link.durable + Len(d.batch) + Len(q)
    <2>3. e \in Nat /\ e + 0 = n
      BY <1>8, <2>2
    <2> HIDE DEF e, n
    <2>4. e = n
      BY <2>3
    <2> QED BY <2>4 DEF e, n
  <1>11. /\ k.ticket - h.link.durable = Len(d.batch) + (Len(q) + 1)
         /\ k.ticket - h.link.durable > 0 /\ ~(k.ticket - h.link.durable <= 0)
         /\ k.ticket > h.link.durable /\ k.ticket \in Nat
         /\ (k.ticket - h.link.durable) - Len(d.batch) = Len(q) + 1
    <2> DEFINE e == h.link.sent
               u == h.link.durable
               v == Len(d.batch)
               w == Len(q)
    <2>1. e \in Nat /\ u \in Nat /\ v \in Nat /\ w \in Nat /\ e = u + v + w
      BY <1>7, <1>8, <1>10
    <2>2. k.ticket = e + 1
      BY <1>2
    <2> HIDE DEF e, u, v, w
    <2>3. /\ (e + 1) - u = v + (w + 1) /\ (e + 1) - u > 0 /\ ~((e + 1) - u <= 0) /\ e + 1 > u /\ e + 1 \in Nat
          /\ ((e + 1) - u) - v = w + 1
      BY <2>1
    <2> QED BY <2>2, <2>3 DEF u, v, w
  <1>12. IsHost(g) /\ LaneIsSound(g.lane)
    BY ZenonT(60), <1>0, <1>1, <1>2, <1>3, <1>5, <1>11 DEF IsHost, LaneIsSound
  <1>13. ChannelIsSound(g, c)
    <2>1. \A i \in DOMAIN Append(q, m) : Append(q, m)[i].kind \notin {"put", "compact"}
      BY <1>6, <1>7, <1>9
    <2> QED BY ZenonT(60), <1>3, <1>5, <1>9, <2>1 DEF ChannelIsSound
  <1>14. TurnsAreCounted(g, d)
    <2>1. Others(g) = 0
      BY <1>1, <1>2, <1>3, <1>5 DEF Others
    <2> DEFINE e == h.link.sent
               u == h.link.durable
               v == Len(d.batch)
               w == Len(q)
    <2>2. e \in Nat /\ u \in Nat /\ v \in Nat /\ w \in Nat /\ e = u + v + w
      BY <1>7, <1>8, <1>10
    <2> HIDE DEF e, u, v, w
    <2>3. e + 1 + 0 = u + v + (w + 1)
      BY <2>2
    <2>4. h.link.sent + 1 + 0 = h.link.durable + Len(d.batch) + (Len(q) + 1)
      BY <2>3 DEF e, u, v, w
    <2> QED BY <1>3, <1>5, <1>7, <2>1, <2>4 DEF TurnsAreCounted
  <1>15. OwnerIsOnItsWay(g, d)
    <2>1. \A i \in DOMAIN d.batch : d.batch[i].request = None
      BY <1>1 DEF Sound, OwnerIsOnItsWay
    <2>2. \A i \in DOMAIN q : q[i].kind = "turn" => q[i].request = None
      BY <1>1 DEF Sound, OwnerIsOnItsWay
    <2> DEFINE j == k.ticket - h.link.durable
    <2>3. j = Len(d.batch) + (Len(q) + 1) /\ j > 0 /\ ~(j <= 0) /\ j - Len(d.batch) = Len(q) + 1
      BY <1>11
    <2>4. g.lane.ticket - g.link.durable = j
      BY <1>3, <1>5
    <2>5. Len(q) + 1 \in DOMAIN Append(q, m)
      BY <1>7
    <2> HIDE DEF j
    <2>6. \A i \in DOMAIN Append(q, m) :
            Append(q, m)[i].kind = "turn" /\ Append(q, m)[i].request # None =>
              Append(q, m)[i].request = r /\ j = Len(d.batch) + i
      BY <1>6, <1>7, <2>2, <2>3
    <2>7. /\ j - Len(d.batch) \in DOMAIN Append(q, m)
          /\ Append(q, m)[j - Len(d.batch)].kind = "turn"
          /\ Append(q, m)[j - Len(d.batch)].request = r
      BY <1>6, <1>7, <2>3, <2>5
    <2>8. g.link.channel = Append(q, m) /\ g.lane.awaiting = r
      BY <1>2, <1>3, <1>5
    <2> QED BY <2>1, <2>3, <2>4, <2>6, <2>7, <2>8 DEF OwnerIsOnItsWay
  <1>16. c = 0 => PutsAreStored(g, d)
    <2> SUFFICES ASSUME c = 0 PROVE PutsAreStored(g, d)
      OBVIOUS
    <2>1. PutsAreStored(h, d)
      BY DEF Sound
    <2>2. Content(r) \in d.stored
      BY <2>1 DEF PutsAreStored
    <2>3. Promised(h, d) = d.manifest /\ Promised(g, d) = With(d.manifest, r)
      BY <1>1, <1>2, <1>3, <1>5, <1>11 DEF Promised
    <2> DEFINE e == Cardinality(d.stored \ Owned(d.manifest))
               n == Cardinality(d.stored \ Owned(With(d.manifest, r)))
    <2>4. n <= e /\ n \in Nat /\ e \in Nat /\ e <= MaxStaged /\ MaxStaged \in Nat
      BY <1>0, <1>1, <2>1, <2>2, <2>3, OwnerFreesStage, ConstantsAssumption DEF PutsAreStored
    <2> HIDE DEF e, n
    <2>5. n <= MaxStaged
      BY <2>4
    <2> QED BY <1>2, <1>3, <1>5, <1>9, <2>2, <2>3, <2>5 DEF PutsAreStored, n
  <1>17. ActiveIsSafe(g, d, {})
    <2>1. InLane(h) \subseteq InLane(g)
      BY <1>1, <1>2, <1>5 DEF InLane, Queued
    <2>2. ASSUME NEW t \in Sessions, r.session = t, h.program[t].request = h.program[t].active
          PROVE  Content(r) = Content([session |-> t, id |-> h.program[t].active])
      <3>1. r.id = h.program[t].active
        BY <2>2 DEF IsCurrent
      <3> QED BY <2>2, <3>1 DEF Content
    <2> QED BY <1>0, <1>2, <1>3, <1>5, <2>1, <2>2, SMTT(60) DEF ActiveIsSafe
  <1> QED BY <1>0, <1>3, <1>5, <1>12, <1>13, <1>14, <1>15, <1>16, <1>17, SameIsNotBack DEF Sound, Keeps

\* drive_authority.
LEMMA DriveAuthorityKeeps ==
  ASSUME NEW h, NEW d, NEW c \in Nat, Sound(h, d, c, {}), ~h.link.waiting,
         NEW refused \in BOOLEAN
  PROVE  Keeps(h, DriveAuthority(h, refused), d, c, {})
PROOF
  <1> DEFINE r == h.lane.ready
             b == h.lane.bytes - Size(r)
             g == [h EXCEPT !.lane = [h.lane EXCEPT !.ready = None, !.bytes = b]]
             f == [Sent(h, r) EXCEPT !.lane = [h.lane EXCEPT !.ready = None, !.awaiting = r,
                                                             !.ticket = h.link.sent + 1]]
  <1>0. Keeps(h, h, d, c, {})
    BY SameIsNotBack DEF Sound, Keeps
  <1>1. CASE r = None \/ h.ended
    BY <1>0, <1>1 DEF DriveAuthority
  <1>2. CASE r # None /\ ~h.ended /\ ~IsCurrent(h, r)
    <2>1. DriveAuthority(h, refused) = g
      BY <1>2 DEF DriveAuthority
    <2> HIDE DEF b
    <2>2. Keeps(h, g, d, c, {})
      BY <1>2, ReadyDropped
    <2> QED BY <2>1, <2>2
  <1>3. CASE r # None /\ ~h.ended /\ IsCurrent(h, r) /\ refused
    <2>1. DriveAuthority(h, refused) = FailStore(g, r)
      BY <1>3 DEF DriveAuthority
    <2>2. r \in Request
      BY <1>3 DEF Sound, LaneIsSound
    <2> HIDE DEF b
    <2>3. Keeps(h, g, d, c, {r})
      BY <1>3, ReadyDropped
    <2> HIDE DEF g, r
    <2>4. Keeps(g, FailStore(g, r), d, c, {})
      BY <2>2, <2>3, FailStoreKeeps DEF Keeps
    <2> QED BY <2>1, <2>3, <2>4, KeepsTwice
  <1>4. CASE r # None /\ ~h.ended /\ IsCurrent(h, r) /\ ~refused
    <2>1. DriveAuthority(h, refused) \in {h, f}
      BY <1>4 DEF DriveAuthority
    <2>2. Keeps(h, f, d, c, {})
      BY <1>4, OwnerSent
    <2> QED BY <1>0, <2>1, <2>2
  <1> QED BY <1>1, <1>2, <1>3, <1>4

\* poll takes a completed store: stored, it waits for its owner; failed, it
\* leaves the lane with its diagnostic.
LEMMA TakeCompletionKeeps ==
  ASSUME NEW h, NEW d, NEW c \in Nat, Sound(h, d, c, {}), ~h.link.waiting
  PROVE  Keeps(h, TakeCompletion(h), d, c, {})
PROOF
  <1> DEFINE l == h.lane
             r == l.flight
             taken == [h EXCEPT !.lane.flight = None, !.link.completion = "none"]
             stored == [taken EXCEPT !.lane.ready = r]
             failed == [taken EXCEPT !.lane.bytes = @ - Size(r)]
  <1>0. /\ IsHost(h) /\ ProgramsRise(h.program) /\ ActiveIsSafe(h, d, {})
        /\ LaneIsSound(l) /\ ChannelIsSound(h, c) /\ DiskIsSound(d)
    BY DEF Sound
  <1>1. CASE h.ended \/ h.link.completion = "none"
    BY <1>0, <1>1, SameIsNotBack DEF TakeCompletion, Keeps
  <1>2. CASE ~h.ended /\ h.link.completion # "none"
    <2>1. r # None /\ r \in Request /\ l.ready = None /\ l.awaiting = None
      BY <1>0, <1>2 DEF ChannelIsSound, LaneIsSound
    <2>2. \A i \in DOMAIN h.link.channel : h.link.channel[i].kind \notin {"put", "compact"}
      BY <1>0, <1>2 DEF ChannelIsSound
    <2>3. TakeCompletion(h) = IF h.link.completion = "ok" THEN stored ELSE FailStore(failed, r)
      BY <1>2 DEF TakeCompletion
    <2>4. /\ DOMAIN taken = DOMAIN h /\ taken.program = h.program
          /\ taken.compiler = h.compiler /\ taken.unsaved = h.unsaved
          /\ taken.lane = [l EXCEPT !.flight = None]
          /\ taken.link = [h.link EXCEPT !.completion = "none"]
      BY <1>0 DEF IsHost
    <2> HIDE DEF taken
    <2>5. /\ DOMAIN taken.lane = DOMAIN l /\ taken.lane.pending = l.pending
          /\ taken.lane.flight = None /\ taken.lane.ready = None
          /\ taken.lane.awaiting = None /\ taken.lane.ticket = l.ticket
      BY <1>0, <2>1, <2>4 DEF IsHost
    <2>6. /\ DOMAIN taken.link = DOMAIN h.link /\ taken.link.channel = h.link.channel
          /\ taken.link.sent = h.link.sent /\ taken.link.durable = h.link.durable
          /\ taken.link.completion = "none" /\ taken.link.waiting = h.link.waiting
      BY <1>0, <2>4 DEF IsHost
    <2>7. ASSUME NEW g, DOMAIN g = DOMAIN h, g.program = h.program, g.compiler = h.compiler,
                 g.unsaved = h.unsaved, g.link = taken.link, DOMAIN g.lane = DOMAIN l,
                 g.lane.pending = l.pending, g.lane.flight = None, g.lane.awaiting = None,
                 g.lane.ticket = l.ticket, NEW x,
                 \/ h.link.completion = "ok" /\ g.lane.ready = r /\ x = {}
                 \/ g.lane.ready = None /\ x = {r}
          PROVE  Keeps(h, g, d, c, x)
      <3>1. IsHost(g)
        BY <1>0, <2>6, <2>7 DEF IsHost
      <3>2. LaneIsSound(g.lane)
        BY <1>0, <2>1, <2>7 DEF LaneIsSound
      <3>3. ChannelIsSound(g, c)
        BY <2>2, <2>6, <2>7 DEF ChannelIsSound
      <3>4. TurnsAreCounted(g, d)
        BY <1>2, <2>6, <2>7 DEF Sound, TurnsAreCounted, Others
      <3>5. OwnerIsOnItsWay(g, d)
        BY <2>1, <2>6, <2>7 DEF Sound, OwnerIsOnItsWay
      <3>6. c = 0 => PutsAreStored(g, d)
        BY <2>1, <2>6, <2>7 DEF Sound, PutsAreStored, Promised
      <3>7. InLane(h) \cup {} \subseteq InLane(g) \cup x
        BY <2>1, <2>7 DEF InLane, Queued
      <3>8. ActiveIsSafe(g, d, x)
        BY <1>0, <2>1, <2>7, <3>7, LaneStaysSafe
      <3> QED BY <1>0, <2>6, <2>7, <3>1, <3>2, <3>3, <3>4, <3>5, <3>6, <3>8, SameIsNotBack DEF Sound, Keeps
    <2>8. CASE h.link.completion = "ok"
      <3>1. /\ DOMAIN stored = DOMAIN taken /\ stored.program = taken.program
            /\ stored.compiler = taken.compiler /\ stored.unsaved = taken.unsaved
            /\ stored.link = taken.link /\ stored.lane = [taken.lane EXCEPT !.ready = r]
        BY <1>0, <2>4 DEF IsHost
      <3> HIDE DEF stored
      <3>2. /\ DOMAIN stored.lane = DOMAIN l /\ stored.lane.pending = l.pending
            /\ stored.lane.flight = None /\ stored.lane.ready = r
            /\ stored.lane.awaiting = None /\ stored.lane.ticket = l.ticket
        BY <1>0, <2>5, <3>1 DEF IsHost
      <3>3. Keeps(h, stored, d, c, {})
        BY <2>4, <2>7, <2>8, <3>1, <3>2
      <3> QED BY <2>3, <2>8, <3>3
    <2>9. CASE h.link.completion # "ok"
      <3> DEFINE b == taken.lane.bytes - Size(r)
      <3>1. /\ DOMAIN failed = DOMAIN taken /\ failed.program = taken.program
            /\ failed.compiler = taken.compiler /\ failed.unsaved = taken.unsaved
            /\ failed.link = taken.link /\ failed.lane = [taken.lane EXCEPT !.bytes = b]
        BY <1>0, <2>4 DEF IsHost
      <3> HIDE DEF failed, b
      <3>2. /\ DOMAIN failed.lane = DOMAIN l /\ failed.lane.pending = l.pending
            /\ failed.lane.flight = None /\ failed.lane.ready = None
            /\ failed.lane.awaiting = None /\ failed.lane.ticket = l.ticket
        BY <1>0, <2>5, <3>1 DEF IsHost
      <3>3. Keeps(h, failed, d, c, {r})
        BY <2>4, <2>7, <3>1, <3>2
      <3>4. Keeps(failed, FailStore(failed, r), d, c, {})
        BY <2>1, <3>3, FailStoreKeeps DEF Keeps
      <3>5. Keeps(h, FailStore(failed, r), d, c, {})
        BY <3>3, <3>4, KeepsTwice
      <3> QED BY <2>3, <2>9, <3>5
    <2> QED BY <2>8, <2>9
  <1> QED BY <1>1, <1>2

-----------------------------------------------------------------------------
(* Requests *)

\* A change of one program that activates nothing and makes no older program
\* current.
LEMMA ProgramSet ==
  ASSUME NEW h, NEW d, NEW c \in Nat, Sound(h, d, c, {}), ~h.link.waiting,
         NEW s \in Sessions, NEW o \in HostedProgram, NEW g, IsHost(g),
         g.lane = h.lane, g.link = h.link, g.unsaved = h.unsaved,
         g.program \in [Sessions -> HostedProgram \cup {None}], g.program[s] = o,
         \A t \in Sessions : t # s => g.program[t] = h.program[t],
         o.request # None => o.request.revision = o.requested,
         o.active # None => /\ o.active.revision <= o.requested
                            /\ h.program[s] # None
                            /\ o.request = o.active => h.program[s].request = o.active,
         h.program[s] # None => o.active = h.program[s].active
  PROVE  Keeps(h, g, d, c, {})
PROOF
  <1>0. ProgramsRise(h.program) /\ ActiveIsSafe(h, d, {}) /\ o # None
    BY NoneAssumption DEF Sound
  <1>1. ProgramsRise(g.program)
    BY <1>0 DEF ProgramsRise
  <1>2. ActiveIsSafe(g, d, {})
    BY <1>0, SameActive
  <1>3. Sound(g, d, c, {})
    BY <1>1, <1>2, OnlyPrograms
  <1>4. NoneGoesBack(h.program, g.program)
    BY <1>0, SameIsNotBack DEF NoneGoesBack
  <1> QED BY <1>3, <1>4 DEF Keeps

\* reject_program_request: the latest request is forgotten.
LEMMA RejectRequestKeeps ==
  ASSUME NEW h, NEW d, NEW c \in Nat, Sound(h, d, c, {}), ~h.link.waiting,
         NEW s \in Sessions, h.program[s] # None, NEW n \in Nat \X Nat
  PROVE  Keeps(h, RejectRequest(h, s, n), d, c, {})
PROOF
  <1> DEFINE p == h.program[s]
             o == [p EXCEPT !.diagnostic = n, !.request = None, !.inFlight = FALSE]
             g == SetProgram(h, s, o)
  <1>0. IsHost(h) /\ ProgramsRise(h.program) /\ p \in HostedProgram
    BY ProgramFields DEF Sound
  <1>1. RejectRequest(h, s, n) \in {g, Dispatch(g)}
    BY DEF RejectRequest, SetProgram
  <1>2. /\ o \in HostedProgram /\ o.active = p.active /\ o.request = None
        /\ o.requested = p.requested
    <2> HIDE DEF p
    <2> QED BY <1>0 DEF HostedProgram
  <1>3. p.active # None => p.active.revision <= p.requested
    BY <1>0 DEF ProgramsRise
  <1> HIDE DEF o
  <1>4. /\ IsHost(g) /\ g.lane = h.lane /\ g.link = h.link /\ g.unsaved = h.unsaved
        /\ g.program \in [Sessions -> HostedProgram \cup {None}]
        /\ g.program[s] = o /\ \A t \in Sessions : t # s => g.program[t] = h.program[t]
    <2>1. o \in HostedProgram \cup {None}
      BY <1>2
    <2> QED BY <1>0, <2>1, ProgramChange
  <1> HIDE DEF g
  <1>5. Keeps(h, g, d, c, {})
    BY <1>2, <1>3, <1>4, ProgramSet
  <1>6. Keeps(g, Dispatch(g), d, c, {})
    BY <1>5, DispatchKeeps DEF Keeps
  <1>7. Keeps(h, Dispatch(g), d, c, {})
    BY <1>5, <1>6, KeepsTwice
  <1> QED BY <1>1, <1>5, <1>7

\* schedule_requests: a new request has a later revision than every earlier one,
\* so it is not the active program's.
LEMMA ScheduleKeeps ==
  ASSUME NEW h, NEW d, NEW c \in Nat, Sound(h, d, c, {}), ~h.link.waiting,
         NEW s \in Sessions, NEW id \in Identity
  PROVE  Keeps(h, Schedule(h, s, id), d, c, {})
PROOF
  <1> DEFINE p == IF h.program[s] = None THEN NewProgram ELSE h.program[s]
             found == SetProgram(h, s, p)
             o == [p EXCEPT !.current = id]
             current == SetProgram(h, s, o)
             settled == [current.program[s] EXCEPT !.diagnostic = NoDiagnostic, !.inFlight = FALSE]
             asked == [current.program[s] EXCEPT !.requested = id.revision, !.request = id,
                                                 !.inFlight = TRUE, !.diagnostic = NoDiagnostic]
             sent == [current EXCEPT !.program[s] = asked, !.compiler.pending[s] = id]
             early == <<id.revision, p.current.revision>>
             late == <<id.revision, p.requested>>
  <1>0. /\ IsHost(h) /\ ProgramsRise(h.program) /\ NoDiagnostic \in Nat \X Nat
        /\ id.revision \in Nat /\ id.revision \in 1 .. MaxRevision /\ id # None
    BY RevisionIsNat, NoneAssumption DEF Sound, NoDiagnostic
  <1>1. /\ p \in HostedProgram
        /\ h.program[s] # None => p = h.program[s]
        /\ h.program[s] = None => p.active = None /\ p.request = None /\ p.current = None
    <2>1. CASE h.program[s] # None
      BY <1>0, <2>1, ProgramFields
    <2>2. CASE h.program[s] = None
      <3>1. 0 \in 0 .. MaxRevision
        BY ConstantsAssumption
      <3>2. NewProgram \in HostedProgram
        BY <1>0, <3>1 DEF NewProgram, HostedProgram
      <3> QED BY <2>2, <3>2 DEF NewProgram
    <2> QED BY <2>1, <2>2
  <1>2. \/ /\ p.current # None
           /\ Schedule(h, s, id) = RejectRequest(found, s, early)
        \/ /\ p.active = id
           /\ Schedule(h, s, id) = SetProgram(current, s, settled)
        \/ Schedule(h, s, id) = current
        \/ Schedule(h, s, id) = RejectRequest(current, s, late)
        \/ ~(id.revision <= p.requested) /\ Schedule(h, s, id) = sent
    BY DEF Schedule, SetProgram
  <1> HIDE DEF p
  <1>3. /\ p.request # None => p.request.revision = p.requested
        /\ p.active # None => p.active.revision <= p.requested /\ h.program[s] # None
        /\ p.active # None /\ p.request = p.active => h.program[s].request = p.active
        /\ p.active # None => p.active \in Identity
        /\ p.current # None => p.current \in Identity
        /\ p.requested \in 0 .. MaxRevision /\ p.requested \in Nat
    <2>1. p.requested \in Nat /\ p.active \in Identity \cup {None} /\ p.current \in Identity \cup {None}
          /\ p.requested \in 0 .. MaxRevision
      BY <1>1, ConstantsAssumption DEF HostedProgram
    <2> QED BY <1>0, <1>1, <2>1 DEF ProgramsRise
  <1>4. /\ o \in HostedProgram /\ o.active = p.active /\ o.request = p.request
        /\ o.requested = p.requested
    BY <1>1 DEF HostedProgram
  <1> HIDE DEF o
  <1>5. Keeps(h, found, d, c, {}) /\ found.program[s] = p /\ p # None
    <2>1. p \in HostedProgram \cup {None} /\ p # None
      BY <1>1, NoneAssumption
    <2>2. /\ IsHost(found) /\ found.lane = h.lane /\ found.link = h.link
          /\ found.unsaved = h.unsaved
          /\ found.program \in [Sessions -> HostedProgram \cup {None}]
          /\ found.program[s] = p
          /\ \A t \in Sessions : t # s => found.program[t] = h.program[t]
      BY <1>0, <2>1, ProgramChange
    <2> HIDE DEF found
    <2> QED BY <1>1, <1>3, <2>1, <2>2, ProgramSet
  <1>6. /\ Keeps(h, current, d, c, {}) /\ current.program[s] = o /\ o # None
        /\ IsHost(current)
    <2>1. o \in HostedProgram \cup {None} /\ o # None
      BY <1>4, NoneAssumption
    <2>2. /\ IsHost(current) /\ current.lane = h.lane /\ current.link = h.link
          /\ current.unsaved = h.unsaved
          /\ current.program \in [Sessions -> HostedProgram \cup {None}]
          /\ current.program[s] = o
          /\ \A t \in Sessions : t # s => current.program[t] = h.program[t]
      BY <1>0, <2>1, ProgramChange
    <2> HIDE DEF current
    <2> QED BY <1>1, <1>3, <1>4, <2>1, <2>2, ProgramSet
  <1> HIDE DEF found, current
  <1>7. Sound(found, d, c, {}) /\ ~found.link.waiting
        /\ Sound(current, d, c, {}) /\ ~current.link.waiting /\ ProgramsRise(current.program)
    BY <1>5, <1>6 DEF Keeps, Sound
  <1>8. CASE p.current # None /\ Schedule(h, s, id) = RejectRequest(found, s, early)
    <2>1. early \in Nat \X Nat
      BY <1>0, <1>3, <1>8, RevisionIsNat
    <2> HIDE DEF early
    <2>2. Keeps(found, RejectRequest(found, s, early), d, c, {})
      BY <1>5, <1>7, <2>1, RejectRequestKeeps
    <2> QED BY <1>5, <1>8, <2>2, KeepsTwice
  <1>9. CASE p.active = id /\ Schedule(h, s, id) = SetProgram(current, s, settled)
    <2>1. /\ settled \in HostedProgram /\ settled.active = o.active
          /\ settled.request = o.request /\ settled.requested = o.requested
      <3> DEFINE n == NoDiagnostic
      <3>1. n \in Nat \X Nat /\ settled = [o EXCEPT !.diagnostic = n, !.inFlight = FALSE]
        BY <1>0, <1>6
      <3> HIDE DEF n, settled
      <3> QED BY <1>4, <3>1 DEF HostedProgram
    <2> HIDE DEF settled
    <2>2. /\ IsHost(SetProgram(current, s, settled))
          /\ SetProgram(current, s, settled).lane = current.lane
          /\ SetProgram(current, s, settled).link = current.link
          /\ SetProgram(current, s, settled).unsaved = current.unsaved
          /\ SetProgram(current, s, settled).program \in [Sessions -> HostedProgram \cup {None}]
          /\ SetProgram(current, s, settled).program[s] = settled
          /\ \A t \in Sessions : t # s =>
               SetProgram(current, s, settled).program[t] = current.program[t]
      <3>1. settled \in HostedProgram \cup {None}
        BY <2>1
      <3> QED BY <1>6, <1>7, <3>1, ProgramChange
    <2>3. Keeps(current, SetProgram(current, s, settled), d, c, {})
      BY <1>3, <1>4, <1>6, <1>7, <2>1, <2>2, ProgramSet
    <2> QED BY <1>6, <1>9, <2>3, KeepsTwice
  <1>10. CASE Schedule(h, s, id) = current
    BY <1>6, <1>10
  <1>11. CASE Schedule(h, s, id) = RejectRequest(current, s, late)
    <2>1. late \in Nat \X Nat
      BY <1>0, <1>3
    <2> HIDE DEF late
    <2>2. Keeps(current, RejectRequest(current, s, late), d, c, {})
      BY <1>6, <1>7, <2>1, RejectRequestKeeps
    <2> QED BY <1>6, <1>11, <2>2, KeepsTwice
  <1>12. CASE ~(id.revision <= p.requested) /\ Schedule(h, s, id) = sent
    <2>1. /\ asked \in HostedProgram /\ asked.active = o.active
          /\ asked.request = id /\ asked.requested = id.revision
      <3> DEFINE n == NoDiagnostic
                 v == id.revision
      <3>1. /\ n \in Nat \X Nat /\ v \in 0 .. MaxRevision
            /\ asked = [o EXCEPT !.requested = v, !.request = id, !.inFlight = TRUE,
                                 !.diagnostic = n]
        BY <1>0, <1>6
      <3> HIDE DEF n, v, asked
      <3>2. /\ asked \in HostedProgram /\ asked.active = o.active
            /\ asked.request = id /\ asked.requested = v
        BY <1>4, <3>1 DEF HostedProgram
      <3> QED BY <3>2 DEF v
    <2> HIDE DEF asked
    <2>2. /\ DOMAIN sent = DOMAIN current /\ sent.lane = current.lane /\ sent.link = current.link
          /\ sent.unsaved = current.unsaved
          /\ sent.program = [current.program EXCEPT ![s] = asked]
          /\ DOMAIN sent.compiler = DOMAIN current.compiler
          /\ sent.compiler.outcomes = current.compiler.outcomes
          /\ sent.compiler.pending = [current.compiler.pending EXCEPT ![s] = id]
      BY <1>6 DEF IsHost
    <2> HIDE DEF sent
    <2>3. IsHost(sent)
      BY <1>6, <2>2 DEF IsHost
    <2>4. /\ sent.program \in [Sessions -> HostedProgram \cup {None}]
          /\ sent.program[s] = asked
          /\ \A t \in Sessions : t # s => sent.program[t] = current.program[t]
      BY <1>7, <2>1, <2>2 DEF ProgramsRise
    <2>5. asked.active # None => /\ asked.active.revision <= asked.requested
                                 /\ asked.request # asked.active
      <3> SUFFICES ASSUME p.active # None
                   PROVE  p.active.revision <= id.revision /\ id # p.active
        BY <1>4, <2>1
      <3> DEFINE u == p.active.revision
                 v == id.revision
                 w == p.requested
      <3>1. u \in Nat /\ v \in Nat /\ w \in Nat /\ u <= w /\ ~(v <= w)
        BY <1>0, <1>3, <1>12, RevisionIsNat
      <3> HIDE DEF u, v, w
      <3>2. u <= v /\ u # v
        BY <3>1
      <3> QED BY <3>2 DEF u, v
    <2>6. Keeps(current, sent, d, c, {})
      <3>1. /\ asked.request # None => asked.request.revision = asked.requested
            /\ asked.active # None =>
                 /\ asked.active.revision <= asked.requested
                 /\ current.program[s] # None
                 /\ asked.request = asked.active => current.program[s].request = asked.active
            /\ current.program[s] # None => asked.active = current.program[s].active
        BY <1>6, <2>1, <2>5
      <3>2. /\ sent.lane = current.lane /\ sent.link = current.link
            /\ sent.unsaved = current.unsaved /\ asked \in HostedProgram
        BY <2>1, <2>2
      <3> QED BY <1>7, <2>3, <2>4, <3>1, <3>2, ProgramSet
    <2> QED BY <1>6, <1>12, <2>6, KeepsTwice
  <1> QED BY <1>2, <1>8, <1>9, <1>10, <1>11, <1>12

-----------------------------------------------------------------------------
(* The persistence worker *)

\* A batch without owners leaves the manifest as it is.
LEMMA OwningNone ==
  ASSUME NEW m, m = [o \in DOMAIN m |-> m[o]], NEW b \in Seq(Message),
         \A i \in DOMAIN b : b[i].request = None
  PROVE  Changes(b) = {} /\ Owning(m, b) = m
PROOF
  <1>1. Changes(b) = {}
    BY DEF Changes
  <1>2. DOMAIN m \cup {Owner(r) : r \in Changes(b)} = DOMAIN m
    BY <1>1
  <1>3. Owning(m, b) = [o \in DOMAIN m |-> m[o]]
    BY <1>1, <1>2 DEF Owning
  <1> QED BY <1>1, <1>3

\* A batch with one owner gives that owner its content.
LEMMA OwningOne ==
  ASSUME NEW m, NEW b \in Seq(Message), NEW r \in Request, NEW j \in DOMAIN b,
         b[j].request = r, \A i \in DOMAIN b : b[i].request # None => i = j
  PROVE  Changes(b) = {r} /\ Owning(m, b) = With(m, r)
PROOF
  <1>0. r # None
    BY NoneAssumption
  <1>1. Changes(b) = {r}
    BY <1>0 DEF Changes
  <1>2. {Owner(p) : p \in Changes(b)} = {Owner(r)}
    BY <1>1
  <1>3. LastChange(b, Owner(r)) = j
    <2> DEFINE o == Owner(r)
    <2>1. \A i \in DOMAIN b :
            (/\ b[i].request # None /\ Owner(b[i].request) = o
             /\ \A n \in DOMAIN b :
                  (b[n].request # None /\ Owner(b[n].request) = o) => n <= i) <=> i = j
      <3>1. j <= j
        OBVIOUS
      <3> HIDE DEF o
      <3>2. Owner(b[j].request) = o
        BY DEF o
      <3> QED BY <1>0, <3>1, <3>2
    <2> HIDE DEF o
    <2>2. LastChange(b, o) = j
      BY <2>1 DEF LastChange
    <2> QED BY <2>2 DEF o
  <1>4. \A o \in DOMAIN m \cup {Owner(r)} :
          (\E p \in Changes(b) : Owner(p) = o) <=> o = Owner(r)
    BY <1>1
  <1>5. Owning(m, b) = [o \in DOMAIN m \cup {Owner(r)} |->
                          IF o = Owner(r) THEN Content(r) ELSE m[o]]
    BY <1>2, <1>3, <1>4 DEF Owning
  <1> QED BY <1>1, <1>5 DEF With

\* A sequence cut in two, and its first part put behind another.
LEMMA SubSeqFacts ==
  ASSUME NEW q \in Seq(Message), NEW b \in Seq(Message), NEW n \in 1 .. Len(q)
  PROVE  LET t == SubSeq(q, n + 1, Len(q))
             z == b \o SubSeq(q, 1, n)
         IN /\ t \in Seq(Message) /\ Len(t) = Len(q) - n
            /\ n \in Nat /\ Len(q) \in Nat /\ n <= Len(q)
            /\ \A i \in DOMAIN t : i + n \in DOMAIN q /\ t[i] = q[i + n]
            /\ z \in Seq(Message) /\ Len(z) = Len(b) + n /\ Len(b) \in Nat
            /\ DOMAIN b = 1 .. Len(b) /\ DOMAIN z = 1 .. Len(b) + n
            /\ DOMAIN t = 1 .. Len(q) - n /\ DOMAIN q = 1 .. Len(q)
            /\ \A i \in DOMAIN b : z[i] = b[i]
            /\ \A i \in DOMAIN z : i \notin DOMAIN b =>
                 i - Len(b) \in 1 .. n /\ z[i] = q[i - Len(b)]
PROOF
  <1> DEFINE t == SubSeq(q, n + 1, Len(q))
             y == SubSeq(q, 1, n)
             z == b \o y
  <1>1. /\ Len(q) \in Nat /\ n \in Nat /\ n <= Len(q) /\ n >= 1 /\ Len(b) \in Nat
        /\ DOMAIN q = 1 .. Len(q) /\ DOMAIN b = 1 .. Len(b)
    OBVIOUS
  <1>2. t \in Seq(Message) /\ Len(t) = Len(q) - n /\ DOMAIN t = 1 .. Len(q) - n
        /\ \A i \in 1 .. Len(q) - n : t[i] = q[i + n]
    OBVIOUS
  <1>3. y \in Seq(Message) /\ Len(y) = n /\ \A i \in 1 .. n : y[i] = q[i]
    OBVIOUS
  <1> HIDE DEF t, y
  <1>4. /\ z \in Seq(Message) /\ Len(z) = Len(b) + n /\ DOMAIN z = 1 .. Len(b) + n
        /\ \A i \in 1 .. Len(b) : z[i] = b[i]
        /\ \A i \in Len(b) + 1 .. Len(b) + n : z[i] = y[i - Len(b)]
    BY <1>1, <1>3
  <1> HIDE DEF z
  <1>5. \A i \in DOMAIN t : i + n \in DOMAIN q /\ t[i] = q[i + n]
    BY <1>1, <1>2
  <1>6. \A i \in DOMAIN z : i \notin DOMAIN b => i - Len(b) \in 1 .. n /\ z[i] = q[i - Len(b)]
    BY SMTT(60), <1>1, <1>3, <1>4
  <1> QED BY <1>1, <1>2, <1>4, <1>5, <1>6 DEF t, y, z

\* The worker moves turns from the head of its channel into its batch.
LEMMA CollectKeeps ==
  ASSUME NEW h, NEW d, NEW c \in Nat, Sound(h, d, c, {}),
         NEW n \in 1 .. Len(h.link.channel), \A i \in 1 .. n : h.link.channel[i].kind = "turn",
         NEW g, IsHost(g), g.program = h.program, g.lane = h.lane, g.unsaved = h.unsaved,
         g.link.channel = SubSeq(h.link.channel, n + 1, Len(h.link.channel)),
         g.link.sent = h.link.sent, g.link.durable = h.link.durable,
         g.link.completion = h.link.completion, g.link.waiting = h.link.waiting,
         NEW e, DOMAIN e = DOMAIN d, e.stored = d.stored, e.manifest = d.manifest,
         e.batch = d.batch \o SubSeq(h.link.channel, 1, n)
  PROVE  Sound(g, e, c, {})
PROOF
  <1> DEFINE q == h.link.channel
             b == d.batch
             t == SubSeq(q, n + 1, Len(q))
             z == b \o SubSeq(q, 1, n)
  <1>0. /\ IsHost(h) /\ ProgramsRise(h.program) /\ ActiveIsSafe(h, d, {})
        /\ LaneIsSound(h.lane) /\ ChannelIsSound(h, c) /\ DiskIsSound(d)
        /\ TurnsAreCounted(h, d) /\ OwnerIsOnItsWay(h, d)
    BY DEF Sound
  <1>1. q \in Seq(Message) /\ b \in Seq(Message)
    BY <1>0 DEF IsHost, DiskIsSound
  <1>2. /\ t \in Seq(Message) /\ Len(t) = Len(q) - n
        /\ n \in Nat /\ Len(q) \in Nat /\ n <= Len(q)
        /\ \A i \in DOMAIN t : i + n \in DOMAIN q /\ t[i] = q[i + n]
        /\ z \in Seq(Message) /\ Len(z) = Len(b) + n /\ Len(b) \in Nat
        /\ DOMAIN b = 1 .. Len(b) /\ DOMAIN z = 1 .. Len(b) + n
        /\ DOMAIN t = 1 .. Len(q) - n /\ DOMAIN q = 1 .. Len(q)
        /\ \A i \in DOMAIN b : z[i] = b[i]
        /\ \A i \in DOMAIN z : i \notin DOMAIN b =>
             i - Len(b) \in 1 .. n /\ z[i] = q[i - Len(b)]
    BY ZenonT(60), <1>1, SubSeqFacts
  <1>3. /\ z \in Seq(Message) /\ Len(z) = Len(b) + n /\ Len(b) \in Nat
        /\ DOMAIN b = 1 .. Len(b) /\ DOMAIN z = 1 .. Len(b) + n /\ DOMAIN t = 1 .. Len(q) - n
        /\ DOMAIN q = 1 .. Len(q)
        /\ \A i \in DOMAIN b : z[i] = b[i]
        /\ \A i \in DOMAIN z : i \notin DOMAIN b => i - Len(b) \in 1 .. n /\ z[i] = q[i - Len(b)]
    BY <1>2
  <1> HIDE DEF t, z
  <1>4. g.link.channel = t /\ e.batch = z
    BY DEF t, z
  <1>5. DiskIsSound(e)
    <2>1. \A i \in DOMAIN z : z[i].kind = "turn"
      <3>1. \A i \in DOMAIN b : b[i].kind = "turn"
        BY <1>0 DEF DiskIsSound
      <3> QED BY <1>3, <3>1
    <2>2. e.batch \in Seq(Message) /\ \A i \in DOMAIN e.batch : e.batch[i].kind = "turn"
      BY <1>3, <1>4, <2>1
    <2>3. /\ DOMAIN d = {"stored", "manifest", "batch"}
          /\ d.manifest = [o \in DOMAIN d.manifest |-> d.manifest[o]]
          /\ \A o \in DOMAIN d.manifest :
               \E r \in Request : o = Owner(r) /\ d.manifest[o] = Content(r)
          /\ IsFiniteSet(d.stored)
          /\ Owned(d.manifest) \subseteq d.stored
      BY <1>0 DEF DiskIsSound
    <2>4. /\ DOMAIN e = {"stored", "manifest", "batch"}
          /\ e.manifest = [o \in DOMAIN e.manifest |-> e.manifest[o]]
          /\ \A o \in DOMAIN e.manifest :
               \E r \in Request : o = Owner(r) /\ e.manifest[o] = Content(r)
      BY <2>3
    <2>5. IsFiniteSet(e.stored) /\ Owned(e.manifest) \subseteq e.stored
      BY <2>3
    <2> QED BY <2>2, <2>4, <2>5 DEF DiskIsSound
  <1>6. ChannelIsSound(g, c)
    <2>1. \A i \in DOMAIN t : i + n \in DOMAIN q /\ t[i] = q[i + n]
      BY <1>2
    <2>2. \A i, j \in DOMAIN t : i + n = j + n => i = j
      BY <1>2, <1>3
    <2>3. \A i \in DOMAIN t : i + n = Len(q) => i = Len(t)
      BY <1>2, <1>3
    <2>4. ASSUME NEW i \in DOMAIN t, t[i].kind = "put"
          PROVE  /\ h.lane.flight # None /\ h.link.completion = "none"
                 /\ t[i].request # None /\ Content(t[i].request) = Content(h.lane.flight)
                 /\ \A j \in DOMAIN t : t[j].kind = "put" => i = j
      <3>1. i + n \in DOMAIN q /\ q[i + n].kind = "put" /\ t[i] = q[i + n]
        BY <2>1, <2>4
      <3>2. /\ h.lane.flight # None /\ h.link.completion = "none"
            /\ q[i + n].request # None /\ Content(q[i + n].request) = Content(h.lane.flight)
            /\ \A j \in DOMAIN q : q[j].kind = "put" => i + n = j
        BY <1>0, <3>1 DEF ChannelIsSound
      <3>3. \A j \in DOMAIN t : t[j].kind = "put" => i + n = j + n
        BY <2>1, <3>2
      <3> QED BY <2>2, <3>1, <3>2, <3>3
    <2>5. ASSUME NEW i \in DOMAIN t, t[i].kind = "compact"
          PROVE  h.link.waiting /\ i = Len(t) /\ c # 0
      <3>1. i + n \in DOMAIN q /\ q[i + n].kind = "compact"
        BY <2>1, <2>5
      <3>2. h.link.waiting /\ i + n = Len(q) /\ c # 0
        BY <1>0, <3>1 DEF ChannelIsSound
      <3> QED BY <2>3, <3>2
    <2>6. h.link.completion # "none" => h.lane.flight # None
      BY <1>0 DEF ChannelIsSound
    <2> QED BY <1>4, <2>4, <2>5, <2>6 DEF ChannelIsSound
  <1>7. TurnsAreCounted(g, e)
    <2>1. Others(g) = Others(h)
      BY DEF Others
    <2>2. h.link.durable \in Nat
      BY <1>0 DEF IsHost
    <2> DEFINE u == h.link.durable
               v == Len(b)
               w == Len(q)
    <2>3. /\ u \in Nat /\ v \in Nat /\ w \in Nat /\ n \in Nat
          /\ Len(z) = v + n /\ Len(t) = w - n
      BY <1>2, <1>3, <2>2
    <2>4. h.link.sent + Others(h) = u + v + w
      BY <1>0 DEF TurnsAreCounted
    <2> HIDE DEF u, v, w
    <2>5. u + v + w = u + Len(z) + Len(t)
      BY <2>3
    <2>6. u = g.link.durable
      BY DEF u
    <2> QED BY <1>4, <2>1, <2>4, <2>5, <2>6 DEF TurnsAreCounted
  <1>8. OwnerIsOnItsWay(g, e)
    <2> DEFINE a == h.lane.awaiting
               k == h.lane.ticket - h.link.durable
               v == Len(b)
    <2>0. k \in Int /\ v \in Nat
      BY <1>0, <1>3 DEF LaneIsSound, IsHost
    <2>1. /\ \A i \in DOMAIN b : b[i].request # None => b[i].request = a /\ k = i
          /\ \A i \in DOMAIN q : q[i].kind = "turn" /\ q[i].request # None =>
               q[i].request = a /\ k = v + i
          /\ a # None /\ k <= 0 => Owns(d.manifest, a)
          /\ a # None /\ k > 0 =>
               \/ k \in DOMAIN b /\ b[k].request = a
               \/ k - v \in DOMAIN q /\ q[k - v].kind = "turn" /\ q[k - v].request = a
      BY <1>0 DEF OwnerIsOnItsWay
    <2>2. g.lane.awaiting = a /\ g.lane.ticket - g.link.durable = k
      OBVIOUS
    <2> HIDE DEF k
    <2>3. \A i \in DOMAIN z : z[i].request # None => z[i].request = a /\ k = i
      <3> SUFFICES ASSUME NEW i \in DOMAIN z, z[i].request # None
                   PROVE  z[i].request = a /\ k = i
        OBVIOUS
      <3>1. CASE i \in DOMAIN b
        BY <1>3, <2>1, <3>1
      <3>2. CASE i \notin DOMAIN b
        <4> DEFINE j == i - v
        <4>1. j \in 1 .. n /\ z[i] = q[j] /\ j \in DOMAIN q
          <5>1. j \in 1 .. n /\ z[i] = q[j]
            BY <1>3, <3>2
          <5> HIDE DEF j
          <5> QED BY <1>2, <5>1
        <4>2. v + j = i
          BY <1>3, <2>0
        <4> HIDE DEF j
        <4>3. q[j].kind = "turn"
          BY <4>1
        <4>4. q[j].request = a /\ k = v + j
          BY <2>1, <4>1, <4>3
        <4> QED BY <4>1, <4>2, <4>4
      <3> QED BY <3>1, <3>2
    <2>4. \A i \in DOMAIN t : t[i].kind = "turn" /\ t[i].request # None =>
            t[i].request = a /\ k = Len(z) + i
      <3> SUFFICES ASSUME NEW i \in DOMAIN t, t[i].kind = "turn", t[i].request # None
                   PROVE  t[i].request = a /\ k = Len(z) + i
        OBVIOUS
      <3>1. i + n \in DOMAIN q /\ t[i] = q[i + n]
        BY <1>2
      <3>2. t[i].request = a /\ k = v + (i + n)
        BY <2>1, <3>1
      <3> HIDE DEF v
      <3>3. v + (i + n) = Len(z) + i
        BY <1>2, <1>3, <2>0 DEF v
      <3> QED BY <3>2, <3>3
    <2>5. a # None /\ k > 0 =>
            \/ k \in DOMAIN z /\ z[k].request = a
            \/ k - Len(z) \in DOMAIN t /\ t[k - Len(z)].kind = "turn" /\ t[k - Len(z)].request = a
      <3> SUFFICES ASSUME a # None, k > 0
                   PROVE  \/ k \in DOMAIN z /\ z[k].request = a
                          \/ /\ k - Len(z) \in DOMAIN t /\ t[k - Len(z)].kind = "turn"
                             /\ t[k - Len(z)].request = a
        OBVIOUS
      <3>1. CASE k \in DOMAIN b /\ b[k].request = a
        BY <1>2, <1>3, <3>1
      <3>2. CASE k - v \in DOMAIN q /\ q[k - v].kind = "turn" /\ q[k - v].request = a
        <4>1. CASE k - v <= n
          <5>1. k \in DOMAIN z /\ k \notin DOMAIN b
            BY <1>2, <1>3, <2>0, <3>2, <4>1
          <5> QED BY <1>3, <3>2, <5>1
        <4>2. CASE k - v > n
          <5> DEFINE j == k - Len(z)
          <5>1. j \in DOMAIN t /\ j + n = k - v
            <6> DEFINE w == Len(q)
            <6>1. /\ w \in Nat /\ n \in Nat /\ k - v \in 1 .. w /\ Len(z) = v + n
                  /\ DOMAIN t = 1 .. w - n
              BY <1>2, <1>3, <3>2
            <6> HIDE DEF v, w
            <6> QED BY <2>0, <4>2, <6>1
          <5> HIDE DEF j
          <5>2. t[j] = q[k - v]
            BY <1>2, <5>1
          <5> QED BY <3>2, <5>1, <5>2 DEF j
        <4> QED BY <1>2, <2>0, <4>1, <4>2
      <3> QED BY <2>1, <3>1, <3>2
    <2> QED BY <1>4, <2>1, <2>2, <2>3, <2>4, <2>5 DEF OwnerIsOnItsWay
  <1>9. c = 0 => PutsAreStored(g, e)
    BY DEF Sound, PutsAreStored, Promised
  <1>10. ActiveIsSafe(g, e, {})
    BY ZenonT(60), <1>0 DEF ActiveIsSafe, InLane
  <1> QED BY <1>0, <1>5, <1>6, <1>7, <1>8, <1>9, <1>10 DEF Sound

\* A manifest with one more owner.
LEMMA WithFacts ==
  ASSUME NEW m, NEW r \in Request,
         \A o \in DOMAIN m : \E p \in Request : o = Owner(p) /\ m[o] = Content(p)
  PROVE  /\ With(m, r) = [o \in DOMAIN With(m, r) |-> With(m, r)[o]]
         /\ \A o \in DOMAIN With(m, r) :
              \E p \in Request : o = Owner(p) /\ With(m, r)[o] = Content(p)
         /\ Owns(With(m, r), r)
         /\ \A p \in Request :
              Owns(m, p) /\ (p.session = r.session => p.session \in Archives \/ Content(p) = Content(r))
                => Owns(With(m, r), p)
PROOF
  <1> DEFINE w == With(m, r)
  <1>1. w = [o \in DOMAIN w |-> w[o]]
    BY DEF With
  <1>2. /\ DOMAIN w = DOMAIN m \cup {Owner(r)} /\ w[Owner(r)] = Content(r)
        /\ \A o \in DOMAIN m : o # Owner(r) => w[o] = m[o]
    BY DEF With
  <1> HIDE DEF w
  <1>3. \A o \in DOMAIN w : \E p \in Request : o = Owner(p) /\ w[o] = Content(p)
    BY <1>2
  <1>4. Owns(w, r)
    BY <1>2 DEF Owns
  <1>5. ASSUME NEW p \in Request, Owns(m, p),
               p.session = r.session => p.session \in Archives \/ Content(p) = Content(r)
        PROVE  Owns(w, p)
    <2>1. CASE Owner(p) # Owner(r)
      BY <1>2, <1>5, <2>1 DEF Owns
    <2>2. CASE Owner(p) = Owner(r)
      <3>1. p.session = r.session /\ (p.session \in Archives => p.id = r.id)
        BY <2>2 DEF Owner
      <3>2. Content(p) = Content(r)
        BY <1>5, <3>1 DEF Content
      <3> QED BY <1>2, <2>2, <3>2 DEF Owns
    <2> QED BY <2>1, <2>2
  <1> QED BY <1>1, <1>3, <1>4, <1>5 DEF w

\* The batch is committed: either it changes no owner, or it holds the one turn
\* that does, and its ticket is now durable.
LEMMA CommitKeeps ==
  ASSUME NEW h, NEW d, NEW c \in Nat, Sound(h, d, c, {}),
         Changes(d.batch) = {} \/ StorageIsValid(Owning(d.manifest, d.batch), d.stored),
         NEW g, IsHost(g), g.program = h.program, g.lane = h.lane, g.unsaved = h.unsaved,
         g.link.channel = h.link.channel, g.link.sent = h.link.sent,
         g.link.durable = h.link.durable + Len(d.batch),
         g.link.completion = h.link.completion, g.link.waiting = h.link.waiting,
         NEW e, DOMAIN e = DOMAIN d, e.stored = d.stored,
         e.manifest = Owning(d.manifest, d.batch), e.batch = <<>>
  PROVE  Sound(g, e, c, {})
PROOF
  <1> DEFINE q == h.link.channel
             b == d.batch
             m == d.manifest
             a == h.lane.awaiting
             u == h.link.durable
             x == h.lane.ticket
             v == Len(b)
  <1>0. /\ IsHost(h) /\ ProgramsRise(h.program) /\ ActiveIsSafe(h, d, {})
        /\ LaneIsSound(h.lane) /\ ChannelIsSound(h, c) /\ DiskIsSound(d)
        /\ TurnsAreCounted(h, d) /\ OwnerIsOnItsWay(h, d)
    BY DEF Sound
  <1>1. /\ q \in Seq(Message) /\ b \in Seq(Message) /\ v \in Nat /\ u \in Nat /\ x \in Nat
        /\ DOMAIN b = 1 .. v /\ DOMAIN q = 1 .. Len(q) /\ Len(q) \in Nat
        /\ a \in Request \cup {None}
    BY <1>0 DEF IsHost, DiskIsSound, LaneIsSound
  <1>2. /\ m = [o \in DOMAIN m |-> m[o]]
        /\ \A o \in DOMAIN m : \E r \in Request : o = Owner(r) /\ m[o] = Content(r)
        /\ IsFiniteSet(d.stored) /\ Owned(m) \subseteq d.stored
    BY <1>0 DEF DiskIsSound
  <1>3. /\ \A i \in DOMAIN b : b[i].request # None => b[i].request = a /\ x - u = i
        /\ \A i \in DOMAIN q : q[i].kind = "turn" /\ q[i].request # None =>
             q[i].request = a /\ x - u = v + i
        /\ a # None /\ x - u <= 0 => Owns(m, a)
        /\ a # None /\ x - u > 0 =>
             \/ x - u \in DOMAIN b /\ b[x - u].request = a
             \/ x - u - v \in DOMAIN q /\ q[x - u - v].kind = "turn" /\ q[x - u - v].request = a
    BY <1>0 DEF OwnerIsOnItsWay
  <1>4. Len(<<>>) = 0 /\ DOMAIN <<>> = {} /\ <<>> \in Seq(Message)
    OBVIOUS
  <1>5. ChannelIsSound(g, c)
    BY <1>0 DEF ChannelIsSound
  <1>6. TurnsAreCounted(g, e)
    <2>1. Others(g) = Others(h)
      BY DEF Others
    <2>2. h.link.sent + Others(h) = u + v + Len(q)
      BY <1>0 DEF TurnsAreCounted
    <2> DEFINE w == Len(q)
    <2>3. w \in Nat
      BY <1>1
    <2> HIDE DEF u, v, w
    <2>4. u + v + w = (u + v) + 0 + w
      BY <1>1, <2>3
    <2>5. (u + v) + 0 + w = g.link.durable + Len(e.batch) + Len(g.link.channel)
      BY <1>4 DEF u, v, w
    <2>6. h.link.sent + Others(h) = u + v + w
      BY <2>2 DEF w
    <2> QED BY <2>1, <2>4, <2>5, <2>6 DEF TurnsAreCounted
  <1>7. g.lane.ticket - g.link.durable = x - (u + v) /\ g.lane.awaiting = a
    OBVIOUS
  <1> HIDE DEF u, v, x, a
  <1>8. CASE \A i \in DOMAIN b : b[i].request = None
    <2>1. e.manifest = m
      BY <1>1, <1>2, <1>8, OwningNone
    <2>2. a # None /\ x - u > 0 =>
            /\ x - (u + v) \in DOMAIN q
            /\ q[x - (u + v)].kind = "turn" /\ q[x - (u + v)].request = a
            /\ x - (u + v) > 0
      <3>1. x - u - v = x - (u + v)
        BY <1>1
      <3>2. \A i \in DOMAIN q : i > 0
        BY <1>1
      <3> QED BY <1>3, <1>8, <3>1, <3>2
    <2>3. x - u <= 0 => x - (u + v) <= 0
      BY <1>1
    <2>4. x - u <= 0 \/ x - u > 0
      BY <1>1
    <2>5. \A i \in DOMAIN q : x - u = v + i => x - (u + v) = 0 + i
      BY <1>1
    <2>6. x - (u + v) > 0 => ~(x - (u + v) <= 0)
      BY <1>1
    <2>7. OwnerIsOnItsWay(g, e)
      <3>1. \A i \in DOMAIN q : q[i].kind = "turn" /\ q[i].request # None =>
              q[i].request = a /\ x - (u + v) = 0 + i
        BY <1>3, <2>5
      <3>2. a # None /\ x - (u + v) <= 0 => Owns(m, a)
        BY <1>3, <2>2, <2>4, <2>6
      <3>3. a # None /\ x - (u + v) > 0 =>
              /\ x - (u + v) - 0 \in DOMAIN q
              /\ q[x - (u + v) - 0].kind = "turn" /\ q[x - (u + v) - 0].request = a
        <4>1. x - (u + v) - 0 = x - (u + v)
          BY <1>1
        <4>2. x - (u + v) > 0 => x - u > 0
          BY <1>1
        <4> QED BY <2>2, <4>1, <4>2
      <3> QED BY <1>4, <1>7, <2>1, <3>1, <3>2, <3>3 DEF OwnerIsOnItsWay
    <2>8. DiskIsSound(e)
      <3>1. e.batch \in Seq(Message) /\ \A i \in DOMAIN e.batch : e.batch[i].kind = "turn"
        BY <1>4
      <3>2. DOMAIN e = {"stored", "manifest", "batch"}
        BY <1>0 DEF DiskIsSound
      <3>3. Owned(e.manifest) \subseteq e.stored /\ IsFiniteSet(e.stored)
        BY <1>2, <2>1
      <3> QED BY <1>2, <2>1, <3>1, <3>2, <3>3 DEF DiskIsSound
    <2>9. Promised(g, e) = Promised(h, d)
      <3>1. (a # None /\ x > u + v) <=> (a # None /\ x > u)
        <4>1. (x > u + v => x - u > 0) /\ (x > u => x - u > 0) /\ (x - (u + v) > 0 => x > u + v)
              /\ (x > u + v => x > u)
          BY <1>1
        <4> QED BY <2>2, <4>1
      <3> QED BY <2>1, <3>1 DEF Promised, a, x, u, v
    <2>10. c = 0 => PutsAreStored(g, e)
      BY <2>9 DEF Sound, PutsAreStored
    <2>11. ActiveIsSafe(g, e, {})
      BY <1>0, <2>1 DEF ActiveIsSafe, InLane
    <2> QED BY <1>0, <1>5, <1>6, <2>7, <2>8, <2>10, <2>11 DEF Sound
  <1>9. CASE \E i \in DOMAIN b : b[i].request # None
    <2>1. PICK j \in DOMAIN b : b[j].request # None
      BY <1>9
    <2>2. b[j].request = a /\ x - u = j /\ a \in Request /\ a # None
      BY <1>1, <1>3, <2>1
    <2>3. \A i \in DOMAIN b : b[i].request # None => i = j
      BY <1>3, <2>2
    <2>4. Changes(b) = {a} /\ e.manifest = With(m, a)
      <3>1. b \in Seq(Message) /\ e.manifest = Owning(m, b)
        BY <1>1
      <3> HIDE DEF b, m
      <3>2. Changes(b) = {a} /\ Owning(m, b) = With(m, a)
        BY <2>2, <2>3, <3>1, OwningOne
      <3> QED BY <3>1, <3>2
    <2>5. Owned(e.manifest) \subseteq e.stored
      BY <2>4 DEF StorageIsValid
    <2>6. /\ e.manifest = [o \in DOMAIN e.manifest |-> e.manifest[o]]
          /\ \A o \in DOMAIN e.manifest :
               \E p \in Request : o = Owner(p) /\ e.manifest[o] = Content(p)
          /\ Owns(e.manifest, a)
          /\ \A p \in Request :
               Owns(m, p) /\ (p.session = a.session => p.session \in Archives \/ Content(p) = Content(a))
                 => Owns(e.manifest, p)
      BY <1>2, <2>2, <2>4, WithFacts
    <2>7. x - (u + v) <= 0 /\ ~(x - (u + v) > 0) /\ x > u /\ ~(x > u + v)
          /\ \A i \in DOMAIN q : x - u # v + i
      BY <1>1, <2>2
    <2>8. OwnerIsOnItsWay(g, e)
      <3>1. \A i \in DOMAIN q : ~(q[i].kind = "turn" /\ q[i].request # None)
        BY <1>3, <2>7
      <3> QED BY <1>4, <1>7, <2>6, <2>7, <3>1 DEF OwnerIsOnItsWay
    <2>9. DiskIsSound(e)
      <3>1. e.batch \in Seq(Message) /\ \A i \in DOMAIN e.batch : e.batch[i].kind = "turn"
        BY <1>4
      <3>2. DOMAIN e = {"stored", "manifest", "batch"} /\ IsFiniteSet(e.stored)
        BY <1>0, <1>2 DEF DiskIsSound
      <3> QED BY <2>5, <2>6, <3>1, <3>2 DEF DiskIsSound
    <2>10. Promised(g, e) = Promised(h, d)
      <3>1. Promised(g, e) = e.manifest
        BY <2>7 DEF Promised, x, u, v
      <3>2. Promised(h, d) = With(m, a)
        BY <2>2, <2>7 DEF Promised, x, u, a
      <3> QED BY <2>4, <3>1, <3>2
    <2>11. c = 0 => PutsAreStored(g, e)
      BY <2>10 DEF Sound, PutsAreStored
    <2>12. ActiveIsSafe(g, e, {})
      <3>1. InLane(g) = InLane(h)
        BY DEF InLane
      <3>2. ASSUME NEW t \in Sessions, h.program[t] # None, h.program[t].active # None
            PROVE  LET r == [session |-> t, id |-> h.program[t].active] IN
                   /\ r \in Request /\ r.session = t
                   /\ t \in Archives /\ Owns(m, r) => Owns(e.manifest, r)
                   /\ Owns(m, r) /\ (a.session = t => Content(a) = Content(r)) => Owns(e.manifest, r)
        <4>1. h.program[t].active \in Identity
          BY <1>0, <3>2, ProgramFields
        <4>2. [session |-> t, id |-> h.program[t].active] \in Request
          BY <4>1 DEF Request
        <4> QED BY <2>6, <4>2
      <3> QED BY <1>0, <2>2, <3>1, <3>2 DEF ActiveIsSafe, a
    <2> QED BY <1>0, <1>5, <1>6, <2>8, <2>9, <2>11, <2>12 DEF Sound
  <1> QED BY <1>8, <1>9

-----------------------------------------------------------------------------
(* The worker's other commands *)

\* The channel once its head is taken.
LEMMA TailFacts ==
  ASSUME NEW q \in Seq(Message), q # <<>>
  PROVE  /\ Tail(q) \in Seq(Message) /\ Len(Tail(q)) = Len(q) - 1
         /\ Len(q) \in Nat /\ Len(q) >= 1 /\ DOMAIN q = 1 .. Len(q)
         /\ DOMAIN Tail(q) = 1 .. Len(q) - 1
         /\ \A i \in DOMAIN Tail(q) : i \in Nat /\ i + 1 \in DOMAIN q /\ Tail(q)[i] = q[i + 1]
         /\ 1 \in DOMAIN q /\ Head(q) = q[1]
PROOF
  OBVIOUS

\* The artifact of the flight is put into the database, or refused: no turn on
\* its way changes an owner, as the lane has one store under way
\* (put_content_artifact).
LEMMA PutKeeps ==
  ASSUME NEW h, NEW d, NEW c \in Nat, Sound(h, d, c, {}),
         h.link.channel # <<>>, Head(h.link.channel).kind = "put", NEW ok \in BOOLEAN,
         NEW e, DOMAIN e = DOMAIN d, e.manifest = d.manifest, e.batch = d.batch,
         e.stored = IF ok THEN d.stored \cup {Content(Head(h.link.channel).request)} ELSE d.stored,
         ok => StorageIsValid(d.manifest, e.stored),
         NEW g, IsHost(g), g.program = h.program, g.lane = h.lane, g.unsaved = h.unsaved,
         g.link.channel = Tail(h.link.channel), g.link.sent = h.link.sent,
         g.link.durable = h.link.durable, g.link.waiting = h.link.waiting,
         g.link.completion = IF ok THEN "ok" ELSE "err"
  PROVE  Sound(g, e, c, {})
PROOF
  <1> DEFINE q == h.link.channel
             t == Tail(q)
  <1>0. /\ IsHost(h) /\ ProgramsRise(h.program) /\ ActiveIsSafe(h, d, {})
        /\ LaneIsSound(h.lane) /\ ChannelIsSound(h, c) /\ DiskIsSound(d)
        /\ TurnsAreCounted(h, d) /\ OwnerIsOnItsWay(h, d)
    BY DEF Sound
  <1>1. q \in Seq(Message)
    BY <1>0 DEF IsHost
  <1>2. /\ t \in Seq(Message) /\ Len(t) = Len(q) - 1
        /\ Len(q) \in Nat /\ Len(q) >= 1 /\ DOMAIN q = 1 .. Len(q)
        /\ DOMAIN t = 1 .. Len(q) - 1
        /\ \A i \in DOMAIN t : i \in Nat /\ i + 1 \in DOMAIN q /\ t[i] = q[i + 1]
        /\ 1 \in DOMAIN q /\ Head(q) = q[1]
    BY <1>1, TailFacts
  <1> HIDE DEF t
  <1>3. g.link.channel = t
    BY DEF t
  <1>4. /\ h.lane.flight # None /\ h.link.completion = "none"
        /\ q[1].request # None /\ Content(q[1].request) = Content(h.lane.flight)
        /\ \A j \in DOMAIN q : q[j].kind = "put" => j = 1
    BY <1>0, <1>2 DEF ChannelIsSound
  <1>5. h.lane.ready = None /\ h.lane.awaiting = None
    BY <1>0, <1>4 DEF LaneIsSound
  <1>6. DiskIsSound(e)
    <2>1. IsFiniteSet(d.stored) /\ Owned(d.manifest) \subseteq d.stored
      BY <1>0 DEF DiskIsSound
    <2>2. IsFiniteSet({Content(q[1].request)})
      BY FS_Singleton
    <2>3. IsFiniteSet(d.stored \cup {Content(q[1].request)})
      BY <2>1, <2>2, FS_Union
    <2>4. IsFiniteSet(e.stored) /\ Owned(e.manifest) \subseteq e.stored
      BY <1>2, <2>1, <2>3
    <2>5. /\ e.batch \in Seq(Message) /\ \A i \in DOMAIN e.batch : e.batch[i].kind = "turn"
          /\ DOMAIN e = {"stored", "manifest", "batch"}
          /\ e.manifest = [o \in DOMAIN e.manifest |-> e.manifest[o]]
          /\ \A o \in DOMAIN e.manifest :
               \E r \in Request : o = Owner(r) /\ e.manifest[o] = Content(r)
      BY <1>0 DEF DiskIsSound
    <2> QED BY <2>4, <2>5 DEF DiskIsSound
  <1>7. ChannelIsSound(g, c)
    <2>1. \A i \in DOMAIN t : t[i].kind # "put"
      <3> SUFFICES ASSUME NEW i \in DOMAIN t, t[i].kind = "put" PROVE FALSE
        OBVIOUS
      <3>1. i + 1 = 1 /\ i \in Nat
        BY <1>2, <1>4
      <3>2. i \in 1 .. Len(q) - 1
        BY <1>2
      <3> QED BY <1>2, <3>1, <3>2
    <2>2. ASSUME NEW i \in DOMAIN t, t[i].kind = "compact"
          PROVE  h.link.waiting /\ i = Len(t) /\ c # 0
      <3>1. i \in Nat /\ i + 1 \in DOMAIN q /\ q[i + 1].kind = "compact"
        BY <1>2, <2>2
      <3>2. h.link.waiting /\ i + 1 = Len(q) /\ c # 0
        BY <1>0, <3>1 DEF ChannelIsSound
      <3> QED BY <1>2, <3>1, <3>2
    <2> QED BY <1>3, <1>4, <2>1, <2>2 DEF ChannelIsSound
  <1>8. TurnsAreCounted(g, e)
    <2> DEFINE y == IF h.link.waiting THEN 1 ELSE 0
               u == h.link.durable
               v == Len(d.batch)
               w == Len(q)
               z == h.link.sent
    <2>1. Others(h) = 1 + y /\ Others(g) = 0 + y
      BY <1>4 DEF Others
    <2>2. u \in Nat /\ v \in Nat /\ w \in Nat /\ z \in Nat /\ y \in Nat
      BY <1>0, <1>2 DEF IsHost, DiskIsSound
    <2>3. z + (1 + y) = u + v + w
      BY <1>0, <2>1 DEF TurnsAreCounted
    <2>4. z = g.link.sent /\ u = g.link.durable /\ v = Len(e.batch) /\ Len(t) = w - 1
      BY <1>2
    <2> HIDE DEF u, v, w, y, z
    <2>5. z + (0 + y) = u + v + (w - 1)
      BY <2>2, <2>3
    <2> QED BY <1>3, <2>1, <2>4, <2>5 DEF TurnsAreCounted
  <1>9. OwnerIsOnItsWay(g, e)
    <2>1. \A i \in DOMAIN d.batch : d.batch[i].request = None
      BY <1>0, <1>5 DEF OwnerIsOnItsWay
    <2>2. \A i \in DOMAIN q : ~(q[i].kind = "turn" /\ q[i].request # None)
      BY <1>0, <1>5 DEF OwnerIsOnItsWay
    <2>3. \A i \in DOMAIN t : ~(t[i].kind = "turn" /\ t[i].request # None)
      BY <1>2, <2>2
    <2> QED BY <1>3, <1>5, <2>1, <2>3 DEF OwnerIsOnItsWay
  <1>10. c = 0 => PutsAreStored(g, e)
    <2> SUFFICES ASSUME c = 0 PROVE PutsAreStored(g, e)
      OBVIOUS
    <2>1. Promised(g, e) = d.manifest /\ Promised(h, d) = d.manifest
      BY <1>5 DEF Promised
    <2>2. Cardinality(e.stored \ Owned(d.manifest)) <= MaxStaged
      BY <2>1 DEF Sound, PutsAreStored, StorageIsValid
    <2>3. g.link.completion = "ok" => Content(h.lane.flight) \in e.stored
      BY <1>2, <1>4
    <2> QED BY <1>5, <2>1, <2>2, <2>3 DEF PutsAreStored
  <1>11. ActiveIsSafe(g, e, {})
    BY <1>0 DEF ActiveIsSafe, InLane
  <1> QED BY <1>0, <1>6, <1>7, <1>8, <1>9, <1>10, <1>11 DEF Sound

\* The compaction is answered: it was the last message, and it deletes only
\* what nobody owns (compact).
LEMMA CompactKeeps ==
  ASSUME NEW h, NEW d, NEW c \in Nat, Sound(h, d, c, {}),
         h.link.channel # <<>>, Head(h.link.channel).kind = "compact",
         NEW e, DOMAIN e = DOMAIN d, e.manifest = d.manifest, e.batch = d.batch,
         e.stored \subseteq d.stored, Owned(d.manifest) \subseteq e.stored,
         NEW g, IsHost(g), g.program = h.program, g.lane = h.lane, g.unsaved = h.unsaved,
         g.link.channel = Tail(h.link.channel), g.link.sent = h.link.sent,
         g.link.durable = h.link.durable, ~g.link.waiting,
         g.link.completion = h.link.completion
  PROVE  Sound(g, e, c, {})
PROOF
  <1> DEFINE q == h.link.channel
             t == Tail(q)
  <1>0. /\ IsHost(h) /\ ProgramsRise(h.program) /\ ActiveIsSafe(h, d, {})
        /\ LaneIsSound(h.lane) /\ ChannelIsSound(h, c) /\ DiskIsSound(d)
        /\ TurnsAreCounted(h, d) /\ OwnerIsOnItsWay(h, d)
    BY DEF Sound
  <1>1. q \in Seq(Message)
    BY <1>0 DEF IsHost
  <1>2. /\ t \in Seq(Message) /\ Len(t) = Len(q) - 1
        /\ Len(q) \in Nat /\ DOMAIN q = 1 .. Len(q) /\ DOMAIN t = 1 .. Len(q) - 1
        /\ 1 \in DOMAIN q /\ Head(q) = q[1]
    BY <1>1, TailFacts
  <1> HIDE DEF t
  <1>3. g.link.channel = t
    BY DEF t
  <1>4. h.link.waiting /\ Len(q) = 1 /\ c # 0
    BY <1>0, <1>2 DEF ChannelIsSound
  <1>5. DOMAIN t = {} /\ Len(t) = 0
    BY <1>2, <1>4
  <1>6. DiskIsSound(e)
    <2>1. IsFiniteSet(d.stored)
      BY <1>0 DEF DiskIsSound
    <2>2. IsFiniteSet(e.stored) /\ Owned(e.manifest) \subseteq e.stored
      BY <2>1, FS_Subset
    <2>3. /\ e.batch \in Seq(Message) /\ \A i \in DOMAIN e.batch : e.batch[i].kind = "turn"
          /\ DOMAIN e = {"stored", "manifest", "batch"}
          /\ e.manifest = [o \in DOMAIN e.manifest |-> e.manifest[o]]
          /\ \A o \in DOMAIN e.manifest :
               \E r \in Request : o = Owner(r) /\ e.manifest[o] = Content(r)
      BY <1>0 DEF DiskIsSound
    <2> QED BY <2>2, <2>3 DEF DiskIsSound
  <1>7. ChannelIsSound(g, c)
    BY <1>0, <1>3, <1>5 DEF ChannelIsSound
  <1>8. TurnsAreCounted(g, e)
    <2> DEFINE y == IF h.lane.flight # None /\ h.link.completion = "none" THEN 1 ELSE 0
               u == h.link.durable
               v == Len(d.batch)
               z == h.link.sent
    <2>1. Others(h) = y + 1 /\ Others(g) = y + 0
      BY <1>4 DEF Others
    <2>2. u \in Nat /\ v \in Nat /\ z \in Nat /\ y \in Nat
      BY <1>0 DEF IsHost, DiskIsSound
    <2>3. z + (y + 1) = u + v + 1
      BY <1>0, <1>4, <2>1 DEF TurnsAreCounted
    <2>4. z = g.link.sent /\ u = g.link.durable /\ v = Len(e.batch)
      OBVIOUS
    <2> HIDE DEF u, v, y, z
    <2>5. z + (y + 0) = u + v + 0
      BY <2>2, <2>3
    <2> QED BY <1>3, <1>5, <2>1, <2>4, <2>5 DEF TurnsAreCounted
  <1>9. OwnerIsOnItsWay(g, e)
    <2> DEFINE a == h.lane.awaiting
               k == h.lane.ticket - h.link.durable
               v == Len(d.batch)
    <2>1. /\ \A i \in DOMAIN d.batch : d.batch[i].request # None => d.batch[i].request = a /\ k = i
          /\ a # None /\ k <= 0 => Owns(d.manifest, a)
          /\ a # None /\ k > 0 =>
               \/ k \in DOMAIN d.batch /\ d.batch[k].request = a
               \/ k - v \in DOMAIN q /\ q[k - v].kind = "turn" /\ q[k - v].request = a
      BY <1>0 DEF OwnerIsOnItsWay
    <2>2. \A i \in DOMAIN q : q[i].kind # "turn"
      BY <1>2, <1>4
    <2>3. g.lane.awaiting = a /\ g.lane.ticket - g.link.durable = k
      OBVIOUS
    <2> HIDE DEF k, v
    <2> QED BY <1>3, <1>5, <2>1, <2>2, <2>3 DEF OwnerIsOnItsWay
  <1>10. ActiveIsSafe(g, e, {})
    BY <1>0 DEF ActiveIsSafe, InLane
  <1> QED BY <1>0, <1>4, <1>6, <1>7, <1>8, <1>9, <1>10 DEF Sound

-----------------------------------------------------------------------------
(* The actions *)

\* The record of the host's state has the variables as its fields.
LEMMA HostFields ==
  /\ HostState.program = program /\ HostState.lane = lane /\ HostState.link = link
  /\ HostState.compiler = compiler /\ HostState.ended = ended /\ HostState.unsaved = unsaved
  /\ DOMAIN HostState = {"program", "lane", "link", "compiler", "ended", "unsaved"}
PROOF
  BY DEF HostState

\* The same after a step.
LEMMA HostFieldsNext ==
  /\ HostState'.program = program' /\ HostState'.lane = lane' /\ HostState'.link = link'
  /\ HostState'.compiler = compiler' /\ HostState'.ended = ended'
  /\ HostState'.unsaved = unsaved'
  /\ DOMAIN HostState' = {"program", "lane", "link", "compiler", "ended", "unsaved"}
PROOF
  BY DEF HostState

\* The invariant says nothing of ended.
LEMMA SameFields ==
  ASSUME NEW h, NEW g, NEW d, NEW c, NEW x, Sound(h, d, c, x), IsHost(g),
         g.program = h.program, g.lane = h.lane, g.link = h.link, g.unsaved = h.unsaved
  PROVE  Sound(g, d, c, x)
PROOF
  <1>1. ActiveIsSafe(g, d, x)
    BY DEF Sound, ActiveIsSafe, InLane
  <1>2. ProgramsRise(g.program)
    BY DEF Sound
  <1> QED BY <1>1, <1>2, OnlyPrograms

\* What a handler of the host computes is the next state.
LEMMA HostStep ==
  ASSUME NEW h, Sound(h, disk, spent.compactions, {}), HostBecomes(h), UNCHANGED disk,
         spent' \in Counters, spent'.compactions = spent.compactions
  PROVE  ArtifactsInvariant'
PROOF
  <1> DEFINE g == HostState'
  <1>1. /\ g.program = h.program /\ g.lane = h.lane /\ g.link = h.link
        /\ g.compiler = h.compiler /\ g.unsaved = h.unsaved
        /\ DOMAIN g = {"program", "lane", "link", "compiler", "ended", "unsaved"}
    BY HostFieldsNext DEF HostBecomes
  <1>2. IsHost(h)
    BY DEF Sound
  <1>3. IsHost(g)
    BY <1>1, <1>2 DEF IsHost
  <1>4. Sound(g, disk, spent.compactions, {})
    BY <1>1, <1>3, SameFields
  <1> QED BY <1>4 DEF ArtifactsInvariant

\* The counters stay numbers, and an edit is no compaction.
LEMMA EditCounted ==
  ASSUME spent \in Counters, spent' = [spent EXCEPT !.edits = @ + 1]
  PROVE  spent' \in Counters /\ spent'.compactions = spent.compactions
PROOF
  BY DEF Counters

\* A turn of the parent changes a descriptor.
LEMMA EditStep ==
  ASSUME ArtifactsInvariant, NEW s \in Sessions, NEW id \in Descriptors[s], Edit(s, id)
  PROVE  ArtifactsInvariant' /\ NoneGoesBack(program, program')
PROOF
  <1> DEFINE h == HostState
             c == spent.compactions
             f == Sent(h, None)
             g == Schedule(f, s, id)
  <1>0. /\ Sound(h, disk, c, {}) /\ c \in Nat /\ IsHost(h) /\ spent \in Counters
        /\ ProgramsRise(h.program)
    BY DEF ArtifactsInvariant, Counters, Sound
  <1>1. ~h.link.waiting /\ HostBecomes(g) /\ UNCHANGED disk
        /\ spent' = [spent EXCEPT !.edits = @ + 1]
    BY HostFields DEF Edit, HostRuns
  <1>2. spent' \in Counters /\ spent'.compactions = c
    BY <1>0, <1>1, EditCounted
  <1>3. id \in Identity
    BY ConstantsAssumption DEF Identity
  <1> HIDE DEF c, h
  <1>4. Sound(f, disk, c, {})
    BY <1>0, <1>1, SentKeeps
  <1>5. f.program = h.program /\ ~f.link.waiting
    BY <1>0, <1>1, SentFields
  <1> HIDE DEF f
  <1>6. Keeps(f, g, disk, c, {})
    BY <1>0, <1>3, <1>4, <1>5, ScheduleKeeps
  <1> HIDE DEF g
  <1>7. Sound(g, disk, c, {}) /\ NoneGoesBack(h.program, g.program)
    BY <1>5, <1>6 DEF Keeps
  <1>8. ArtifactsInvariant'
    BY <1>1, <1>2, <1>7, HostStep DEF c
  <1>9. h.program = program /\ g.program = program'
    BY <1>1, HostFields DEF HostBecomes, h
  <1> QED BY <1>7, <1>8, <1>9

\* A turn of the parent removes a program.
LEMMA RemoveStep ==
  ASSUME ArtifactsInvariant, NEW s \in Sessions, Remove(s)
  PROVE  /\ ArtifactsInvariant' /\ program'[s] = None
         /\ \A t \in Sessions : t # s => program'[t] = program[t]
PROOF
  <1> DEFINE h == HostState
             c == spent.compactions
             f == Sent(h, None)
             g == SetProgram(f, s, None)
  <1>0. /\ Sound(h, disk, c, {}) /\ c \in Nat /\ IsHost(h) /\ spent \in Counters
        /\ ProgramsRise(h.program)
    BY DEF ArtifactsInvariant, Counters, Sound
  <1>1. ~h.link.waiting /\ HostBecomes(g) /\ UNCHANGED disk
        /\ spent' = [spent EXCEPT !.edits = @ + 1]
    BY HostFields DEF Remove, HostRuns, SetProgram
  <1>2. spent' \in Counters /\ spent'.compactions = c
    BY <1>0, <1>1, EditCounted
  <1> HIDE DEF c, h
  <1>4. Sound(f, disk, c, {})
    BY <1>0, <1>1, SentKeeps
  <1>5. f.program = h.program /\ ~f.link.waiting
    BY <1>0, <1>1, SentFields
  <1> HIDE DEF f
  <1>6. IsHost(f) /\ ProgramsRise(f.program) /\ ActiveIsSafe(f, disk, {})
    BY <1>4 DEF Sound
  <1>7. /\ IsHost(g) /\ g.lane = f.lane /\ g.link = f.link /\ g.unsaved = f.unsaved
        /\ g.program \in [Sessions -> HostedProgram \cup {None}] /\ g.program[s] = None
        /\ \A t \in Sessions : t # s => g.program[t] = f.program[t]
    BY <1>6, ProgramChange
  <1> HIDE DEF g
  <1>8. ProgramsRise(g.program)
    BY <1>6, <1>7 DEF ProgramsRise
  <1>9. ActiveIsSafe(g, disk, {})
    <2>1. \A t \in Sessions : g.program[t] # None => g.program[t] = f.program[t]
      BY <1>7
    <2> QED BY <1>6, <1>7, <2>1, SameActive
  <1>10. Sound(g, disk, c, {})
    BY <1>4, <1>7, <1>8, <1>9, OnlyPrograms
  <1>11. ArtifactsInvariant'
    BY <1>1, <1>2, <1>10, HostStep DEF c
  <1>12. h.program = program /\ g.program = program'
    BY <1>1, HostFields DEF HostBecomes, h
  <1> QED BY <1>5, <1>7, <1>11, <1>12

\* The host takes the outcome of a compilation.
LEMMA TakeOutcomeStep ==
  ASSUME ArtifactsInvariant, TakeOutcome
  PROVE  ArtifactsInvariant' /\ NoneGoesBack(program, program')
PROOF
  <1> DEFINE h == HostState
             c == spent.compactions
             f == [h EXCEPT !.compiler.outcomes = Tail(@)]
             r == Head(compiler.outcomes)
             g == CompleteProgram(f, r)
  <1>0. /\ Sound(h, disk, c, {}) /\ c \in Nat /\ IsHost(h) /\ spent \in Counters
    BY DEF ArtifactsInvariant, Counters, Sound
  <1>1. ~h.link.waiting /\ HostBecomes(g) /\ UNCHANGED <<disk, spent>>
        /\ compiler.outcomes # <<>> /\ h.compiler = compiler
    BY HostFields DEF TakeOutcome, HostRuns
  <1>2. compiler.outcomes \in Seq(Request)
    BY <1>0, <1>1 DEF IsHost
  <1>3. r \in Request /\ Tail(compiler.outcomes) \in Seq(Request)
    BY <1>1, <1>2
  <1> HIDE DEF c, h
  <1>4. /\ f.program = h.program /\ f.lane = h.lane /\ f.link = h.link /\ f.unsaved = h.unsaved
        /\ f.compiler.outcomes = Tail(h.compiler.outcomes)
        /\ f.compiler.pending = h.compiler.pending
        /\ DOMAIN f = DOMAIN h /\ DOMAIN f.compiler = DOMAIN h.compiler
    BY <1>0 DEF IsHost
  <1> HIDE DEF f
  <1>5. IsHost(f)
    BY <1>0, <1>1, <1>3, <1>4 DEF IsHost
  <1>6. Sound(f, disk, c, {}) /\ ~f.link.waiting
    BY <1>0, <1>1, <1>4, <1>5, SameFields
  <1>7. Keeps(f, g, disk, c, {})
    BY <1>0, <1>3, <1>6, CompleteProgramKeeps
  <1> HIDE DEF g
  <1>8. Sound(g, disk, c, {}) /\ NoneGoesBack(h.program, g.program)
    BY <1>4, <1>7 DEF Keeps
  <1>9. ArtifactsInvariant'
    BY <1>0, <1>1, <1>8, HostStep DEF c
  <1>10. h.program = program /\ g.program = program'
    BY <1>1, HostFields DEF HostBecomes, h
  <1> QED BY <1>8, <1>9, <1>10

\* The counters after a step that may be refused or fail.
LEMMA FailsCounted ==
  ASSUME spent \in Counters, NEW fail \in BOOLEAN, Fails(fail)
  PROVE  spent' \in Counters /\ spent'.compactions = spent.compactions
PROOF
  BY DEF Counters, Fails

\* The host polls the lane.
LEMMA PollStep ==
  ASSUME ArtifactsInvariant, NEW refused \in BOOLEAN, Poll(refused)
  PROVE  ArtifactsInvariant' /\ NoneGoesBack(program, program')
PROOF
  <1> DEFINE h == HostState
             c == spent.compactions
             h1 == PollDurability(h)
             h2 == DriveAuthority(h1, refused)
             h3 == TakeCompletion(h2)
             h4 == DriveAuthority(h3, refused)
             h5 == PollDurability(h4)
             h6 == DriveStore(h5)
  <1>0. /\ Sound(h, disk, c, {}) /\ c \in Nat /\ spent \in Counters
    BY DEF ArtifactsInvariant, Counters
  <1>1. ~h.link.waiting /\ HostBecomes(h6) /\ UNCHANGED disk /\ Fails(refused)
    BY HostFields DEF Poll, HostRuns
  <1> HIDE DEF c, h
  <1>2. Keeps(h, h1, disk, c, {})
    BY <1>0, <1>1, PollDurabilityKeeps
  <1> HIDE DEF h1
  <1>3. Keeps(h1, h2, disk, c, {})
    BY <1>0, <1>2, DriveAuthorityKeeps DEF Keeps
  <1> HIDE DEF h2
  <1>4. Keeps(h2, h3, disk, c, {})
    BY <1>0, <1>3, TakeCompletionKeeps DEF Keeps
  <1> HIDE DEF h3
  <1>5. Keeps(h3, h4, disk, c, {})
    BY <1>0, <1>4, DriveAuthorityKeeps DEF Keeps
  <1> HIDE DEF h4
  <1>6. Keeps(h4, h5, disk, c, {})
    BY <1>0, <1>5, PollDurabilityKeeps DEF Keeps
  <1> HIDE DEF h5
  <1>7. Keeps(h5, h6, disk, c, {})
    BY <1>0, <1>6, DriveStoreKeeps DEF Keeps
  <1> HIDE DEF h6
  <1>8. Keeps(h, h2, disk, c, {})
    BY <1>0, <1>2, <1>3, KeepsTwice
  <1>9. Keeps(h, h3, disk, c, {})
    BY <1>0, <1>4, <1>8, KeepsTwice
  <1>10. Keeps(h, h4, disk, c, {})
    BY <1>0, <1>5, <1>9, KeepsTwice
  <1>11. Keeps(h, h5, disk, c, {})
    BY <1>0, <1>6, <1>10, KeepsTwice
  <1>12. Keeps(h, h6, disk, c, {})
    BY <1>0, <1>7, <1>11, KeepsTwice
  <1>13. Sound(h6, disk, c, {}) /\ NoneGoesBack(h.program, h6.program)
    BY <1>12 DEF Keeps
  <1>14. ArtifactsInvariant'
    <2>1. spent' \in Counters /\ spent'.compactions = spent.compactions
      BY <1>0, <1>1, FailsCounted
    <2> QED BY <1>0, <1>1, <1>13, <2>1, HostStep DEF c
  <1>15. h.program = program /\ h6.program = program'
    BY <1>1, HostFields DEF HostBecomes, h
  <1> QED BY <1>13, <1>14, <1>15

\* A quiet period ends: no request enters or leaves the lane.
LEMMA QuietEndsStep ==
  ASSUME ArtifactsInvariant, NEW s \in Sessions, QuietEnds(s)
  PROVE  ArtifactsInvariant' /\ program' = program
PROOF
  <1> DEFINE h == HostState
             g == HostState'
             c == spent.compactions
  <1>0. /\ Sound(h, disk, c, {}) /\ c \in Nat /\ IsHost(h) /\ spent \in Counters
        /\ ProgramsRise(h.program) /\ LaneIsSound(h.lane) /\ DiskIsSound(disk)
        /\ ChannelIsSound(h, c) /\ TurnsAreCounted(h, disk) /\ OwnerIsOnItsWay(h, disk)
        /\ ActiveIsSafe(h, disk, {}) /\ (c = 0 => PutsAreStored(h, disk))
    BY DEF ArtifactsInvariant, Counters, Sound
  <1>1. /\ lane' = [lane EXCEPT !.pending[s].quiet = TRUE]
        /\ UNCHANGED <<program, link, compiler, ended, unsaved, disk, spent>>
    BY DEF QuietEnds
  <1>2. h.lane = lane /\ g.lane = lane' /\ h.link = link /\ g.link = link
        /\ h.program = program /\ g.program = program /\ h.unsaved = unsaved
        /\ g.unsaved = unsaved /\ h.compiler = compiler /\ g.compiler = compiler
        /\ DOMAIN g = DOMAIN h
    BY <1>1, HostFields, HostFieldsNext
  <1> HIDE DEF h, g, c
  <1>3. /\ g.lane.flight = h.lane.flight /\ g.lane.ready = h.lane.ready
        /\ g.lane.awaiting = h.lane.awaiting /\ g.lane.ticket = h.lane.ticket
        /\ DOMAIN g.lane = DOMAIN h.lane /\ DOMAIN g.lane.pending = Sessions
    BY <1>0, <1>1, <1>2 DEF IsHost, LaneIsSound
  <1>4. ASSUME NEW t \in Sessions
        PROVE  /\ g.lane.pending[t].request = h.lane.pending[t].request
               /\ DOMAIN g.lane.pending[t] = DOMAIN h.lane.pending[t]
    <2>1. DOMAIN lane = {"pending", "flight", "ready", "awaiting", "ticket", "bytes"}
          /\ DOMAIN lane.pending = Sessions
          /\ DOMAIN lane.pending[t] = {"sequence", "request", "quiet"}
      BY <1>0, <1>2 DEF IsHost, LaneIsSound
    <2> QED BY <1>1, <1>2, <2>1
  <1>5. IsHost(g)
    BY <1>0, <1>2, <1>3 DEF IsHost
  <1>6. LaneIsSound(g.lane)
    <2>1. \A t \in Sessions :
            /\ DOMAIN g.lane.pending[t] = {"sequence", "request", "quiet"}
            /\ g.lane.pending[t].request \in Request \cup {None}
            /\ g.lane.pending[t].request # None => g.lane.pending[t].request.session = t
      BY <1>0, <1>4 DEF LaneIsSound
    <2>2. /\ {h.lane.flight, h.lane.ready, h.lane.awaiting} \subseteq Request \cup {None}
          /\ h.lane.ticket \in Nat
          /\ h.lane.flight # None => h.lane.ready = None /\ h.lane.awaiting = None
          /\ h.lane.ready # None => h.lane.awaiting = None
      BY <1>0 DEF LaneIsSound
    <2> QED BY <1>3, <2>1, <2>2 DEF LaneIsSound
  <1>7. InLane(g) = InLane(h)
    <2>1. Queued(g.lane) = Queued(h.lane)
      BY <1>4 DEF Queued
    <2>2. \A t \in Queued(h.lane) : t \in Sessions
      BY DEF Queued
    <2>3. {g.lane.pending[t].request : t \in Queued(g.lane)}
            = {h.lane.pending[t].request : t \in Queued(h.lane)}
      BY <1>4, <2>1, <2>2
    <2> QED BY <1>3, <2>3 DEF InLane
  <1>8. ChannelIsSound(g, c)
    BY <1>0, <1>2, <1>3 DEF ChannelIsSound
  <1>9. TurnsAreCounted(g, disk)
    BY <1>0, <1>2, <1>3 DEF TurnsAreCounted, Others
  <1>10. OwnerIsOnItsWay(g, disk)
    BY <1>0, <1>2, <1>3 DEF OwnerIsOnItsWay
  <1>11. c = 0 => PutsAreStored(g, disk)
    BY <1>0, <1>2, <1>3 DEF PutsAreStored, Promised
  <1>12. ActiveIsSafe(g, disk, {})
    BY <1>0, <1>2, <1>3, <1>7 DEF ActiveIsSafe
  <1>13. Sound(g, disk, c, {})
    BY <1>0, <1>2, <1>5, <1>6, <1>8, <1>9, <1>10, <1>11, <1>12 DEF Sound
  <1> QED BY <1>0, <1>1, <1>13 DEF ArtifactsInvariant, g, c

\* The host asks for a compaction and waits.
LEMMA CompactStep ==
  ASSUME ArtifactsInvariant, Compact
  PROVE  ArtifactsInvariant' /\ program' = program
PROOF
  <1> DEFINE h == HostState
             g == HostState'
             c == spent.compactions
             b == spent'.compactions
             m == Msg("compact", None)
             q == h.link.channel
             t == Append(q, m)
  <1>0. /\ Sound(h, disk, c, {}) /\ c \in Nat /\ IsHost(h) /\ spent \in Counters
        /\ ProgramsRise(h.program) /\ LaneIsSound(h.lane) /\ DiskIsSound(disk)
        /\ ChannelIsSound(h, c) /\ TurnsAreCounted(h, disk) /\ OwnerIsOnItsWay(h, disk)
        /\ ActiveIsSafe(h, disk, {})
    BY DEF ArtifactsInvariant, Counters, Sound
  <1>1. /\ link' = [link EXCEPT !.waiting = TRUE, !.channel = Append(@, Msg("compact", None))]
        /\ spent' = [spent EXCEPT !.compactions = @ + 1]
        /\ UNCHANGED <<program, lane, compiler, ended, unsaved, disk>>
        /\ ~link.waiting
    BY DEF Compact, HostRuns
  <1>2. spent' \in Counters /\ b \in Nat /\ b # 0
    BY <1>0, <1>1 DEF Counters
  <1>3. h.lane = lane /\ g.lane = lane /\ h.link = link /\ g.link = link'
        /\ h.program = program /\ g.program = program /\ h.unsaved = unsaved
        /\ g.unsaved = unsaved /\ h.compiler = compiler /\ g.compiler = compiler
        /\ DOMAIN g = DOMAIN h
    BY <1>1, HostFields, HostFieldsNext
  <1> HIDE DEF h, g, c, b
  <1>4. /\ g.link.channel = t /\ g.link.waiting /\ g.link.sent = h.link.sent
        /\ g.link.durable = h.link.durable /\ g.link.completion = h.link.completion
        /\ DOMAIN g.link = DOMAIN h.link /\ ~h.link.waiting
    BY <1>0, <1>1, <1>3 DEF IsHost
  <1>5. q \in Seq(Message) /\ m \in Message /\ m.kind = "compact"
    BY <1>0 DEF IsHost, Msg, Message
  <1> HIDE DEF m
  <1>6. /\ t \in Seq(Message) /\ Len(t) = Len(q) + 1 /\ Len(q) \in Nat
        /\ \A i \in DOMAIN q : t[i] = q[i]
        /\ t[Len(q) + 1] = m
        /\ \A i \in DOMAIN t : i \in DOMAIN q \/ i = Len(q) + 1
        /\ DOMAIN q \subseteq DOMAIN t
    BY <1>5, AppendFacts
  <1> HIDE DEF t
  <1>7. IsHost(g)
    BY <1>0, <1>3, <1>4, <1>6 DEF IsHost
  <1>8. ChannelIsSound(g, b)
    <2>1. ~\E i \in DOMAIN q : q[i].kind = "compact"
      BY <1>0, <1>4 DEF ChannelIsSound
    <2>2. \A i \in DOMAIN t : t[i].kind = "put" => i \in DOMAIN q /\ q[i].kind = "put" /\ t[i] = q[i]
      BY <1>5, <1>6
    <2>3. \A i \in DOMAIN t : t[i].kind = "compact" => i = Len(t)
      BY <1>6, <2>1
    <2>4. \A i \in DOMAIN q : q[i].kind = "put" =>
            /\ h.lane.flight # None /\ h.link.completion = "none"
            /\ q[i].request # None /\ Content(q[i].request) = Content(h.lane.flight)
            /\ \A j \in DOMAIN q : q[j].kind = "put" => i = j
      BY <1>0 DEF ChannelIsSound
    <2>5. h.link.completion # "none" => h.lane.flight # None
      BY <1>0 DEF ChannelIsSound
    <2> QED BY <1>2, <1>3, <1>4, <2>2, <2>3, <2>4, <2>5 DEF ChannelIsSound
  <1>9. TurnsAreCounted(g, disk)
    <2> DEFINE y == IF h.lane.flight # None /\ h.link.completion = "none" THEN 1 ELSE 0
               u == h.link.durable
               v == Len(disk.batch)
               w == Len(q)
               z == h.link.sent
    <2>1. Others(h) = y + 0 /\ Others(g) = y + 1
      BY <1>3, <1>4 DEF Others
    <2>2. u \in Nat /\ v \in Nat /\ w \in Nat /\ z \in Nat /\ y \in Nat
      BY <1>0, <1>6 DEF IsHost, DiskIsSound
    <2>3. z + (y + 0) = u + v + w
      BY <1>0, <2>1 DEF TurnsAreCounted
    <2>4. z = g.link.sent /\ u = g.link.durable /\ Len(t) = w + 1
      BY <1>4, <1>6
    <2> HIDE DEF u, v, w, y, z
    <2>5. z + (y + 1) = u + v + (w + 1)
      BY <2>2, <2>3
    <2> QED BY <1>4, <2>1, <2>4, <2>5 DEF TurnsAreCounted, v
  <1>10. OwnerIsOnItsWay(g, disk)
    <2>1. OwnerIsOnItsWay(h, disk)
      BY <1>0
    <2>2. \A i \in DOMAIN t : t[i].kind = "turn" => i \in DOMAIN q
      BY <1>5, <1>6
    <2> QED BY <1>3, <1>4, <1>6, <2>1, <2>2 DEF OwnerIsOnItsWay
  <1>11. ActiveIsSafe(g, disk, {})
    BY <1>0, <1>3 DEF ActiveIsSafe, InLane
  <1>12. Sound(g, disk, b, {})
    BY <1>0, <1>2, <1>3, <1>7, <1>8, <1>9, <1>10, <1>11 DEF Sound
  <1> QED BY <1>1, <1>2, <1>12 DEF ArtifactsInvariant, g, b

\* A program is compiled.
LEMMA CompileStep ==
  ASSUME ArtifactsInvariant, NEW s \in Sessions, Compile(s)
  PROVE  ArtifactsInvariant' /\ program' = program
PROOF
  <1> DEFINE h == HostState
             g == HostState'
             c == spent.compactions
             r == [session |-> s, id |-> compiler.pending[s]]
             e == [compiler.pending EXCEPT ![s] = None]
             o == Append(compiler.outcomes, r)
  <1>0. Sound(h, disk, c, {}) /\ IsHost(h) /\ spent \in Counters
    BY DEF ArtifactsInvariant, Sound
  <1>1. /\ compiler.pending[s] # None
        /\ compiler' = [pending |-> e, outcomes |-> o]
        /\ UNCHANGED <<program, lane, link, ended, unsaved, disk, spent>>
    BY DEF Compile
  <1>2. /\ g.lane = h.lane /\ g.link = h.link /\ g.program = h.program /\ g.unsaved = h.unsaved
        /\ h.compiler = compiler /\ g.compiler = compiler' /\ DOMAIN g = DOMAIN h
    BY <1>1, HostFields, HostFieldsNext
  <1> HIDE DEF h, g, c
  <1>3. /\ compiler.pending \in [Sessions -> Identity \cup {None}]
        /\ compiler.outcomes \in Seq(Request)
    BY <1>0, <1>2 DEF IsHost
  <1>4. e \in [Sessions -> Identity \cup {None}]
    BY <1>3
  <1>5. r \in Request
    BY <1>1, <1>3 DEF Request
  <1> HIDE DEF r, e
  <1>6. o \in Seq(Request)
    BY <1>3, <1>5
  <1> HIDE DEF o
  <1>7. /\ g.compiler.pending \in [Sessions -> Identity \cup {None}]
        /\ g.compiler.outcomes \in Seq(Request)
        /\ DOMAIN g.compiler = {"pending", "outcomes"}
    BY <1>1, <1>2, <1>4, <1>6
  <1>8. IsHost(g)
    BY <1>0, <1>2, <1>7 DEF IsHost
  <1>9. Sound(g, disk, c, {})
    BY <1>0, <1>2, <1>8, SameFields
  <1> QED BY <1>0, <1>1, <1>9 DEF ArtifactsInvariant, g, c

\* The worker puts an artifact.
LEMMA PutStep ==
  ASSUME ArtifactsInvariant, NEW fail \in BOOLEAN, WorkerPut(fail)
  PROVE  ArtifactsInvariant' /\ program' = program
PROOF
  <1> DEFINE h == HostState
             g == HostState'
             c == spent.compactions
             s == disk.stored \cup {Content(Head(link.channel).request)}
             ok == ~fail /\ StorageIsValid(disk.manifest, s)
  <1>0. Sound(h, disk, c, {}) /\ IsHost(h) /\ spent \in Counters /\ DiskIsSound(disk) /\ c \in Nat
    BY DEF ArtifactsInvariant, Sound, Counters
  <1>1. /\ link.channel # <<>> /\ Head(link.channel).kind = "put" /\ Fails(fail)
        /\ disk' = [disk EXCEPT !.stored = IF ok THEN s ELSE @]
        /\ link' = [link EXCEPT !.channel = Tail(@), !.completion = IF ok THEN "ok" ELSE "err"]
        /\ UNCHANGED <<program, lane, compiler, ended, unsaved>>
    BY DEF WorkerPut
  <1>2. /\ g.lane = h.lane /\ g.program = h.program /\ g.unsaved = h.unsaved
        /\ g.compiler = h.compiler /\ h.link = link /\ g.link = link' /\ DOMAIN g = DOMAIN h
    BY <1>1, HostFields, HostFieldsNext
  <1>3. spent' \in Counters /\ spent'.compactions = c
    BY <1>0, <1>1, FailsCounted
  <1>4. ok \in BOOLEAN /\ (ok => StorageIsValid(disk.manifest, s))
    OBVIOUS
  <1> HIDE DEF h, g, c, ok
  <1>5. /\ DOMAIN disk' = DOMAIN disk /\ disk'.manifest = disk.manifest
        /\ disk'.batch = disk.batch /\ disk'.stored = IF ok THEN s ELSE disk.stored
    BY <1>0, <1>1 DEF DiskIsSound
  <1>6. /\ g.link.channel = Tail(h.link.channel) /\ g.link.sent = h.link.sent
        /\ g.link.durable = h.link.durable /\ g.link.waiting = h.link.waiting
        /\ g.link.completion = (IF ok THEN "ok" ELSE "err") /\ DOMAIN g.link = DOMAIN h.link
    BY <1>0, <1>1, <1>2 DEF IsHost
  <1>7. Tail(h.link.channel) \in Seq(Message)
    BY <1>0, <1>1, <1>2 DEF IsHost
  <1>8. IsHost(g)
    BY <1>0, <1>2, <1>6, <1>7 DEF IsHost
  <1>9. Sound(g, disk', c, {})
    <2>1. /\ h.link.channel # <<>> /\ Head(h.link.channel).kind = "put"
          /\ disk'.stored = IF ok THEN disk.stored \cup {Content(Head(h.link.channel).request)}
                            ELSE disk.stored
          /\ ok => StorageIsValid(disk.manifest, disk'.stored)
      BY <1>1, <1>2, <1>4, <1>5
    <2> DEFINE e == disk'
               f == ok
    <2>2. /\ DOMAIN e = DOMAIN disk /\ e.manifest = disk.manifest /\ e.batch = disk.batch
          /\ e.stored = IF f THEN disk.stored \cup {Content(Head(h.link.channel).request)}
                        ELSE disk.stored
          /\ f \in BOOLEAN /\ (f => StorageIsValid(disk.manifest, e.stored))
      BY <1>4, <1>5, <2>1
    <2>3. g.link.completion = IF f THEN "ok" ELSE "err"
      BY <1>6
    <2> HIDE DEF e, f
    <2>4. Sound(g, e, c, {})
      BY <1>0, <1>2, <1>6, <1>8, <2>1, <2>2, <2>3, PutKeeps
    <2> QED BY <2>4 DEF e
  <1> QED BY <1>1, <1>3, <1>9 DEF ArtifactsInvariant, g

\* The invariant looks at the fields of the records only.
LEMMA SameLink ==
  ASSUME NEW h, NEW d, NEW c \in Nat, Sound(h, d, c, {}), NEW g, IsHost(g),
         g.program = h.program, g.lane = h.lane, g.unsaved = h.unsaved,
         g.link.channel = h.link.channel, g.link.sent = h.link.sent,
         g.link.durable = h.link.durable, g.link.completion = h.link.completion,
         g.link.waiting = h.link.waiting,
         NEW e, DOMAIN e = DOMAIN d, e.stored = d.stored, e.manifest = d.manifest,
         e.batch = d.batch
  PROVE  Sound(g, e, c, {})
PROOF
  <1>1. DiskIsSound(e)
    BY DEF Sound, DiskIsSound
  <1>2. ChannelIsSound(g, c)
    BY DEF Sound, ChannelIsSound
  <1>3. TurnsAreCounted(g, e)
    BY DEF Sound, TurnsAreCounted, Others
  <1>4. OwnerIsOnItsWay(g, e)
    BY DEF Sound, OwnerIsOnItsWay
  <1>5. c = 0 => PutsAreStored(g, e)
    BY DEF Sound, PutsAreStored, Promised
  <1>6. ActiveIsSafe(g, e, {})
    BY DEF Sound, ActiveIsSafe, InLane
  <1> QED BY <1>1, <1>2, <1>3, <1>4, <1>5, <1>6 DEF Sound

\* The worker collects turns at the head of its channel and commits the batch,
\* or keeps it.
LEMMA TurnsStep ==
  ASSUME ArtifactsInvariant, NEW n, NEW fail \in BOOLEAN, WorkerTurns(n, fail)
  PROVE  ArtifactsInvariant' /\ program' = program
PROOF
  <1> DEFINE h == HostState
             g == HostState'
             c == spent.compactions
             q == link.channel
             z == disk.batch \o SubSeq(q, 1, n)
             t == SubSeq(q, n + 1, Len(q))
             f == [h EXCEPT !.link = [link EXCEPT !.channel = t]]
             d == [disk EXCEPT !.batch = z]
             done == ~fail /\ Committable(z)
  <1>0. Sound(h, disk, c, {}) /\ IsHost(h) /\ spent \in Counters /\ DiskIsSound(disk) /\ c \in Nat
    BY DEF ArtifactsInvariant, Sound, Counters
  <1>1. /\ n \in 1 .. Len(q) /\ \A i \in 1 .. n : q[i].kind = "turn"
        /\ Fails(fail)
        /\ done => /\ disk' = [disk EXCEPT !.manifest = Owning(@, z), !.batch = <<>>]
                   /\ link' = [link EXCEPT !.channel = t, !.durable = @ + Len(z)]
        /\ ~done => disk' = d /\ link' = [link EXCEPT !.channel = t]
        /\ UNCHANGED <<program, lane, compiler, ended, unsaved>>
    BY DEF WorkerTurns
  <1>2. /\ g.lane = h.lane /\ g.program = h.program /\ g.unsaved = h.unsaved
        /\ g.compiler = h.compiler /\ h.link = link /\ g.link = link' /\ DOMAIN g = DOMAIN h
    BY <1>1, HostFields, HostFieldsNext
  <1>3. spent' \in Counters /\ spent'.compactions = c
    BY <1>0, <1>1, FailsCounted
  <1> HIDE DEF h, g, c
  <1>4. q \in Seq(Message) /\ disk.batch \in Seq(Message)
    BY <1>0, <1>2 DEF IsHost, DiskIsSound
  <1>5. t \in Seq(Message) /\ z \in Seq(Message)
    BY <1>1, <1>4, SubSeqFacts
  <1>6. /\ f.program = h.program /\ f.lane = h.lane /\ f.unsaved = h.unsaved
        /\ f.compiler = h.compiler /\ f.link.channel = t /\ f.link.sent = h.link.sent
        /\ f.link.durable = h.link.durable /\ f.link.completion = h.link.completion
        /\ f.link.waiting = h.link.waiting /\ DOMAIN f = DOMAIN h
        /\ DOMAIN f.link = DOMAIN h.link
    BY <1>0, <1>2 DEF IsHost
  <1>7. /\ DOMAIN d = DOMAIN disk /\ d.stored = disk.stored /\ d.manifest = disk.manifest
        /\ d.batch = z
    BY <1>0 DEF DiskIsSound
  <1>8. IsHost(f)
    BY <1>0, <1>5, <1>6 DEF IsHost
  <1>9. Sound(f, d, c, {})
    <2>1. /\ n \in 1 .. Len(h.link.channel)
          /\ \A i \in 1 .. n : h.link.channel[i].kind = "turn"
          /\ f.link.channel = SubSeq(h.link.channel, n + 1, Len(h.link.channel))
          /\ d.batch = disk.batch \o SubSeq(h.link.channel, 1, n)
      BY <1>1, <1>2, <1>6, <1>7
    <2> HIDE DEF f, d
    <2> QED BY <1>0, <1>6, <1>7, <1>8, <2>1, CollectKeeps
  <1>10. CASE done
    <2>1. /\ DOMAIN disk' = DOMAIN d /\ disk'.stored = d.stored
          /\ disk'.manifest = Owning(d.manifest, d.batch) /\ disk'.batch = <<>>
      BY <1>0, <1>1, <1>7, <1>10 DEF DiskIsSound
    <2>2. /\ g.link.channel = f.link.channel /\ g.link.sent = f.link.sent
          /\ g.link.durable = f.link.durable + Len(d.batch)
          /\ g.link.completion = f.link.completion /\ g.link.waiting = f.link.waiting
          /\ DOMAIN g.link = DOMAIN f.link
      <3>1. DOMAIN link = {"channel", "sent", "durable", "completion", "waiting"}
        BY <1>0, <1>2 DEF IsHost
      <3>2. g.link = [link EXCEPT !.channel = t, !.durable = @ + Len(z)]
        BY <1>1, <1>2, <1>10
      <3> HIDE DEF f, d, z, t
      <3>3. /\ g.link.channel = t /\ g.link.sent = link.sent
            /\ g.link.durable = link.durable + Len(z)
            /\ g.link.completion = link.completion /\ g.link.waiting = link.waiting
            /\ DOMAIN g.link = DOMAIN link
        BY <3>1, <3>2
      <3> QED BY <1>2, <1>6, <1>7, <3>3
    <2>3. Len(z) \in Nat
      BY <1>5
    <2>4. Changes(d.batch) = {} \/ StorageIsValid(Owning(d.manifest, d.batch), d.stored)
      BY <1>7, <1>10 DEF Committable
    <2> DEFINE e == disk'
    <2> HIDE DEF f, d, z, t
    <2>5. g.link.durable \in Nat
      <3>1. f.link.durable \in Nat
        BY <1>8 DEF IsHost
      <3> QED BY <1>7, <2>2, <2>3, <3>1
    <2>6. IsHost(g)
      BY <1>2, <1>6, <1>8, <2>2, <2>5 DEF IsHost
    <2>7. /\ DOMAIN e = DOMAIN d /\ e.stored = d.stored
          /\ e.manifest = Owning(d.manifest, d.batch) /\ e.batch = <<>>
      BY <2>1
    <2>8. g.program = f.program /\ g.lane = f.lane /\ g.unsaved = f.unsaved
      BY <1>2, <1>6
    <2> HIDE DEF e
    <2>9. Sound(g, e, c, {})
      BY <1>0, <1>9, <2>2, <2>4, <2>6, <2>7, <2>8, CommitKeeps
    <2> QED BY <1>1, <1>3, <2>9 DEF ArtifactsInvariant, g, e
  <1>11. CASE ~done
    <2>1. disk' = d /\ g.link = f.link
      BY <1>0, <1>1, <1>2, <1>11 DEF IsHost
    <2> HIDE DEF f, d, z, t
    <2>2. IsHost(g)
      BY <1>2, <1>6, <1>8, <2>1 DEF IsHost
    <2>3. g.program = f.program /\ g.lane = f.lane /\ g.unsaved = f.unsaved
      BY <1>2, <1>6
    <2>4. Sound(g, d, c, {})
      BY <1>9, <2>1, <2>2, <2>3, SameFields
    <2> QED BY <1>1, <1>3, <2>1, <2>4 DEF ArtifactsInvariant, g
  <1> QED BY <1>10, <1>11

\* The worker flushes its batch, if it can, and compacts.
LEMMA WorkerCompactStep ==
  ASSUME ArtifactsInvariant, NEW fail \in {"nothing", "flush", "compact"}, WorkerCompact(fail)
  PROVE  ArtifactsInvariant' /\ program' = program
PROOF
  <1> DEFINE h == HostState
             g == HostState'
             c == spent.compactions
             b == disk.batch
             flushed == fail # "flush" /\ Committable(b)
             m == IF flushed THEN Owning(disk.manifest, b) ELSE disk.manifest
             u == IF flushed THEN link.durable + Len(b) ELSE link.durable
             f == [h EXCEPT !.link = [link EXCEPT !.durable = u]]
             d == [stored |-> disk.stored, manifest |-> m,
                   batch |-> IF flushed THEN <<>> ELSE b]
  <1>0. Sound(h, disk, c, {}) /\ IsHost(h) /\ spent \in Counters /\ DiskIsSound(disk) /\ c \in Nat
    BY DEF ArtifactsInvariant, Sound, Counters
  <1>1. /\ link.channel # <<>> /\ Head(link.channel).kind = "compact"
        /\ Fails(fail # "nothing")
        /\ disk' = [stored |-> IF flushed /\ fail = "nothing"
                                 THEN disk.stored \cap Owned(m) ELSE disk.stored,
                    manifest |-> m,
                    batch |-> IF flushed THEN <<>> ELSE b]
        /\ link' = [link EXCEPT !.channel = Tail(@), !.waiting = FALSE,
                                !.durable = IF flushed THEN @ + Len(b) ELSE @]
        /\ UNCHANGED <<program, lane, compiler, ended, unsaved>>
    BY DEF WorkerCompact
  <1>2. /\ g.lane = h.lane /\ g.program = h.program /\ g.unsaved = h.unsaved
        /\ g.compiler = h.compiler /\ h.link = link /\ g.link = link' /\ DOMAIN g = DOMAIN h
    BY <1>1, HostFields, HostFieldsNext
  <1>3. spent' \in Counters /\ spent'.compactions = c
    BY <1>0, <1>1, FailsCounted
  <1> HIDE DEF h, g, c
  <1>4. link.channel \in Seq(Message) /\ b \in Seq(Message) /\ link.durable \in Nat /\ Len(b) \in Nat
    BY <1>0, <1>2 DEF IsHost, DiskIsSound
  <1>5. u \in Nat
    BY <1>4
  <1>6. /\ f.program = h.program /\ f.lane = h.lane /\ f.unsaved = h.unsaved
        /\ f.compiler = h.compiler /\ f.link.channel = h.link.channel
        /\ f.link.sent = h.link.sent /\ f.link.durable = u
        /\ f.link.completion = h.link.completion
        /\ f.link.waiting = h.link.waiting /\ DOMAIN f = DOMAIN h
        /\ DOMAIN f.link = DOMAIN h.link
    BY <1>0, <1>2 DEF IsHost
  <1>7. /\ g.link.channel = Tail(f.link.channel) /\ g.link.sent = f.link.sent
        /\ g.link.durable = f.link.durable /\ ~g.link.waiting
        /\ g.link.completion = f.link.completion /\ DOMAIN g.link = DOMAIN f.link
    BY <1>0, <1>1, <1>2, <1>6, SMTT(60) DEF IsHost
  <1>8. /\ DOMAIN d = DOMAIN disk /\ d.stored = disk.stored /\ d.manifest = m
        /\ d.batch = IF flushed THEN <<>> ELSE b
        /\ DOMAIN disk' = DOMAIN d /\ disk'.manifest = d.manifest /\ disk'.batch = d.batch
        /\ disk'.stored = IF flushed /\ fail = "nothing"
                            THEN disk.stored \cap Owned(m) ELSE disk.stored
    BY <1>0, <1>1 DEF DiskIsSound
  <1> HIDE DEF f, d
  <1>9. IsHost(f)
    BY <1>0, <1>5, <1>6 DEF IsHost
  <1>10. Sound(f, d, c, {})
    <2>1. CASE flushed
      <3>1. Changes(b) = {} \/ StorageIsValid(Owning(disk.manifest, b), disk.stored)
        BY <2>1 DEF Committable
      <3>2. /\ f.link.durable = h.link.durable + Len(b)
            /\ d.manifest = Owning(disk.manifest, b) /\ d.batch = <<>>
        BY <1>2, <1>6, <1>8, <2>1
      <3> QED BY <1>0, <1>6, <1>8, <1>9, <3>1, <3>2, CommitKeeps
    <2>2. CASE ~flushed
      <3>1. f.link.durable = h.link.durable /\ d.manifest = disk.manifest /\ d.batch = b
        BY <1>2, <1>6, <1>8, <2>2
      <3> QED BY <1>0, <1>6, <1>8, <1>9, <3>1, SameLink
    <2> QED BY <2>1, <2>2
  <1>11. Owned(d.manifest) \subseteq d.stored
    BY <1>10 DEF Sound, DiskIsSound
  <1> DEFINE e == disk'
  <1>12. /\ DOMAIN e = DOMAIN d /\ e.manifest = d.manifest /\ e.batch = d.batch
         /\ e.stored \subseteq d.stored /\ Owned(d.manifest) \subseteq e.stored
    BY <1>8, <1>11
  <1>13. f.link.channel # <<>> /\ Head(f.link.channel).kind = "compact"
         /\ f.link.channel \in Seq(Message)
    BY <1>1, <1>2, <1>4, <1>6
  <1>14. Tail(f.link.channel) \in Seq(Message)
    BY <1>13
  <1>15. IsHost(g)
    BY <1>2, <1>6, <1>7, <1>9, <1>14 DEF IsHost
  <1>16. g.program = f.program /\ g.lane = f.lane /\ g.unsaved = f.unsaved
    BY <1>2, <1>6
  <1> HIDE DEF e
  <1>17. Sound(g, e, c, {})
    BY <1>0, <1>7, <1>10, <1>12, <1>13, <1>15, <1>16, CompactKeeps
  <1> QED BY <1>1, <1>3, <1>17 DEF ArtifactsInvariant, g, e

-----------------------------------------------------------------------------
(* The theorems *)

\* A mounted document with an empty database.
LEMMA InitSound ==
  Init => ArtifactsInvariant
PROOF
  <1> SUFFICES ASSUME Init PROVE ArtifactsInvariant
    OBVIOUS
  <1> DEFINE h == HostState
             c == spent.compactions
  <1>1. /\ h.program = program /\ h.lane = lane /\ h.link = link /\ h.compiler = compiler
        /\ h.unsaved = unsaved
        /\ DOMAIN h = {"program", "lane", "link", "compiler", "ended", "unsaved"}
    BY HostFields
  <1> HIDE DEF h
  <1>2. /\ h.lane.flight = None /\ h.lane.ready = None /\ h.lane.awaiting = None
        /\ h.lane.ticket = 0 /\ h.lane.pending = [s \in Sessions |-> NoStore]
        /\ DOMAIN h.lane = {"pending", "flight", "ready", "awaiting", "ticket", "bytes"}
    <2>1. lane = [pending |-> [s \in Sessions |-> NoStore], flight |-> None, ready |-> None,
                  awaiting |-> None, ticket |-> 0, bytes |-> 0]
      BY DEF Init
    <2> QED BY <1>1, <2>1
  <1>3. /\ h.link.channel = <<>> /\ h.link.sent = 0 /\ h.link.durable = 0
        /\ h.link.completion = "none" /\ h.link.waiting = FALSE
        /\ DOMAIN h.link = {"channel", "sent", "durable", "completion", "waiting"}
    <2>1. link = [channel |-> <<>>, sent |-> 0, durable |-> 0, completion |-> "none",
                  waiting |-> FALSE]
      BY DEF Init
    <2> QED BY <1>1, <2>1
  <1>4. /\ disk.stored = {} /\ disk.manifest = [o \in {} |-> None] /\ disk.batch = <<>>
        /\ DOMAIN disk = {"stored", "manifest", "batch"}
    BY DEF Init
  <1>5. Len(<<>>) = 0 /\ DOMAIN <<>> = {} /\ <<>> \in Seq(Message) /\ <<>> \in Seq(Request)
    OBVIOUS
  <1>6. Mounted \in [Sessions -> Identity]
    BY ConstantsAssumption DEF Identity
  <1>7. IsHost(h)
    <2>1. h.compiler.pending = Mounted /\ h.compiler.outcomes = <<>>
          /\ DOMAIN h.compiler = {"pending", "outcomes"}
      <3>1. compiler = [pending |-> Mounted, outcomes |-> <<>>]
        BY DEF Init
      <3> QED BY <1>1, <3>1
    <2>2. Mounted \in [Sessions -> Identity \cup {None}]
      BY <1>6
    <2> QED BY <1>1, <1>2, <1>3, <1>5, <2>1, <2>2 DEF IsHost
  <1>8. ProgramsRise(h.program)
    <2> DEFINE p(s) == [NewProgram EXCEPT !.current = Mounted[s],
                          !.requested = Mounted[s].revision,
                          !.request = Mounted[s], !.inFlight = TRUE]
    <2>1. h.program = [s \in Sessions |-> p(s)]
      BY <1>1 DEF Init
    <2>2. ASSUME NEW s \in Sessions
          PROVE  /\ p(s) \in HostedProgram /\ p(s).request = Mounted[s] /\ p(s).active = None
                 /\ p(s).requested = Mounted[s].revision
      <3>1. Mounted[s] \in Identity
        BY <1>6
      <3>2. Mounted[s].revision \in 0 .. MaxRevision
        BY <3>1, ConstantsAssumption DEF Identity
      <3>3. NoDiagnostic \in Nat \X Nat
        BY DEF NoDiagnostic
      <3>4. NewProgram \in HostedProgram
        BY <3>3, ConstantsAssumption DEF NewProgram, HostedProgram
      <3>5. /\ p(s).request = Mounted[s] /\ p(s).active = None
            /\ p(s).requested = Mounted[s].revision
        BY DEF NewProgram
      <3>6. p(s) \in HostedProgram
        BY <3>1, <3>2, <3>4 DEF HostedProgram
      <3> QED BY <3>5, <3>6
    <2> HIDE DEF p
    <2> QED BY <2>1, <2>2 DEF ProgramsRise
  <1>9. LaneIsSound(h.lane)
    BY <1>2 DEF LaneIsSound, NoStore
  <1>10. DiskIsSound(disk)
    <2>1. IsFiniteSet({})
      BY FS_EmptySet
    <2>2. DOMAIN disk.manifest = {} /\ disk.manifest = [o \in DOMAIN disk.manifest |-> disk.manifest[o]]
      BY <1>4
    <2>3. Owned(disk.manifest) = {}
      BY <2>2 DEF Owned
    <2> QED BY <1>4, <1>5, <2>1, <2>2, <2>3 DEF DiskIsSound
  <1>11. ChannelIsSound(h, c)
    BY <1>2, <1>3, <1>5 DEF ChannelIsSound
  <1>12. TurnsAreCounted(h, disk)
    BY <1>2, <1>3, <1>4, <1>5 DEF TurnsAreCounted, Others
  <1>13. OwnerIsOnItsWay(h, disk)
    BY <1>2, <1>3, <1>4, <1>5 DEF OwnerIsOnItsWay
  <1>14. PutsAreStored(h, disk)
    <2>1. disk.stored \ Owned(Promised(h, disk)) = {}
      BY <1>4
    <2>2. Cardinality({}) = 0 /\ 0 <= MaxStaged
      BY FS_EmptySet, ConstantsAssumption
    <2> QED BY <1>2, <1>3, <2>1, <2>2 DEF PutsAreStored
  <1>15. ActiveIsSafe(h, disk, {})
    <2> DEFINE p(s) == [NewProgram EXCEPT !.current = Mounted[s],
                          !.requested = Mounted[s].revision,
                          !.request = Mounted[s], !.inFlight = TRUE]
    <2>1. h.program = [s \in Sessions |-> p(s)]
      BY <1>1 DEF Init
    <2>2. ASSUME NEW s \in Sessions PROVE p(s).active = None
      BY DEF NewProgram
    <2> HIDE DEF p
    <2>3. \A s \in Sessions : h.program[s].active = None
      BY <2>1, <2>2
    <2> QED BY <2>3 DEF ActiveIsSafe
  <1>16. spent \in Counters
    BY DEF Init, Counters
  <1> QED BY <1>7, <1>8, <1>9, <1>10, <1>11, <1>12, <1>13, <1>14, <1>15, <1>16
        DEF ArtifactsInvariant, Sound, h

\* What no step does to a program that stays in the document.
StaysAhead ==
  \A s \in Sessions :
    (program[s] # None /\ program'[s] # None /\ program[s].active # None) =>
      /\ program'[s].active # None
      /\ program'[s].active.revision >= program[s].active.revision

\* Every step keeps the invariant, and no program goes back.
LEMMA NextSound ==
  ArtifactsInvariant /\ [Next]_vars => ArtifactsInvariant' /\ StaysAhead
PROOF
  <1> SUFFICES ASSUME ArtifactsInvariant, [Next]_vars
               PROVE  ArtifactsInvariant' /\ StaysAhead
    OBVIOUS
  <1>0. NoneGoesBack(program, program)
    <2>1. ProgramsRise(program)
      BY HostFields DEF ArtifactsInvariant, Sound
    <2> QED BY <2>1, SameIsNotBack
  <1>1. NoneGoesBack(program, program') => StaysAhead
    BY DEF NoneGoesBack, StaysAhead
  <1>2. program' = program => StaysAhead
    BY <1>0 DEF NoneGoesBack, StaysAhead
  <1>3. ASSUME NEW s \in Sessions, NEW id \in Descriptors[s], Edit(s, id)
        PROVE  ArtifactsInvariant' /\ StaysAhead
    BY <1>1, <1>3, EditStep
  <1>4. ASSUME NEW s \in Sessions, Remove(s)
        PROVE  ArtifactsInvariant' /\ StaysAhead
    <2>1. /\ ArtifactsInvariant' /\ program'[s] = None
          /\ \A t \in Sessions : t # s => program'[t] = program[t]
      BY <1>4, RemoveStep
    <2> QED BY <1>0, <2>1 DEF NoneGoesBack, StaysAhead
  <1>5. ASSUME NEW s \in Sessions, QuietEnds(s)
        PROVE  ArtifactsInvariant' /\ StaysAhead
    BY <1>2, <1>5, QuietEndsStep
  <1>6. ASSUME NEW s \in Sessions, Compile(s)
        PROVE  ArtifactsInvariant' /\ StaysAhead
    BY <1>2, <1>6, CompileStep
  <1>7. CASE TakeOutcome
    BY <1>1, <1>7, TakeOutcomeStep
  <1>8. ASSUME NEW refused \in BOOLEAN, Poll(refused)
        PROVE  ArtifactsInvariant' /\ StaysAhead
    BY <1>1, <1>8, PollStep
  <1>9. CASE Compact
    BY <1>2, <1>9, CompactStep
  <1>10. CASE Worker
    <2>1. ASSUME NEW n, NEW fail \in BOOLEAN, WorkerTurns(n, fail)
          PROVE  ArtifactsInvariant' /\ StaysAhead
      BY <1>2, <2>1, TurnsStep
    <2>2. ASSUME NEW fail \in BOOLEAN, WorkerPut(fail)
          PROVE  ArtifactsInvariant' /\ StaysAhead
      BY <1>2, <2>2, PutStep
    <2>3. ASSUME NEW fail \in {"nothing", "flush", "compact"}, WorkerCompact(fail)
          PROVE  ArtifactsInvariant' /\ StaysAhead
      BY <1>2, <2>3, WorkerCompactStep
    <2> QED BY <1>10, <2>1, <2>2, <2>3 DEF Worker
  <1>11. CASE UNCHANGED vars
    <2>1. /\ UNCHANGED <<program, lane, link, compiler, ended, unsaved, disk, spent>>
      BY <1>11 DEF vars
    <2>2. HostState' = HostState
      BY <2>1 DEF HostState
    <2>3. ArtifactsInvariant'
      BY <2>1, <2>2 DEF ArtifactsInvariant
    <2> QED BY <1>2, <2>1, <2>3
  <1> QED BY <1>3, <1>4, <1>5, <1>6, <1>7, <1>8, <1>9, <1>10, <1>11 DEF Next

\* In a sound state an archived active program is owned, and a current draft is
\* owned, in the lane, or its store has ended in a diagnostic.
LEMMA SoundIsOwned ==
  ArtifactsInvariant => ActiveIsOwned
PROOF
  <1> SUFFICES ASSUME ArtifactsInvariant, NEW s \in Sessions, program[s] # None,
                      program[s].active # None
               PROVE  LET r == [session |-> s, id |-> program[s].active] IN
                      IF s \in Archives THEN IsOwned(r)
                      ELSE IsCurrent(HostState, r) =>
                             IsOwned(r) \/ r \in unsaved \cup InLane(HostState)
    BY DEF ActiveIsOwned
  <1> DEFINE r == [session |-> s, id |-> program[s].active]
  <1>1. IF s \in Archives THEN Owns(disk.manifest, r)
        ELSE program[s].request = program[s].active =>
               r \in unsaved \cup InLane(HostState) \/ Owns(disk.manifest, r)
    BY HostFields DEF ArtifactsInvariant, Sound, ActiveIsSafe
  <1>2. IsOwned(r) <=> Owns(disk.manifest, r)
    BY DEF IsOwned, Owns
  <1>3. IsCurrent(HostState, r) => program[s].request = program[s].active
    BY HostFields DEF IsCurrent
  <1> QED BY <1>1, <1>2, <1>3

OnlyTurns(z) ==
  [i \in DOMAIN z |-> IF z[i].kind = "turn" THEN z[i] ELSE Msg("turn", None)]

\* What waits to be committed: the batch, then the turns of the channel.
LEMMA UncommittedFacts ==
  ASSUME NEW b \in Seq(Message), NEW q \in Seq(Message),
         \A i \in DOMAIN b : b[i].kind = "turn", NEW u, u = OnlyTurns(b \o q)
  PROVE  /\ u \in Seq(Message) /\ Len(b) \in Nat
         /\ \A i \in DOMAIN u : i \in Nat /\ i > 0
         /\ \A i \in DOMAIN u : i \in DOMAIN b => u[i] = b[i]
         /\ \A i \in DOMAIN u : i \notin DOMAIN b =>
              /\ i - Len(b) \in DOMAIN q
              /\ q[i - Len(b)].kind # "turn" => u[i].request = None
              /\ q[i - Len(b)].kind = "turn" => u[i] = q[i - Len(b)]
         /\ \A i \in DOMAIN b : i \in DOMAIN u
         /\ \A i \in DOMAIN q : i + Len(b) \in DOMAIN u /\ i + Len(b) \notin DOMAIN b
PROOF
  <1> DEFINE z == b \o q
  <1>0. u = [i \in DOMAIN z |-> IF z[i].kind = "turn" THEN z[i] ELSE Msg("turn", None)]
    BY DEF OnlyTurns
  <1>1. /\ z \in Seq(Message) /\ Len(z) = Len(b) + Len(q) /\ DOMAIN z = 1 .. Len(z)
        /\ Len(b) \in Nat /\ Len(q) \in Nat /\ DOMAIN b = 1 .. Len(b) /\ DOMAIN q = 1 .. Len(q)
        /\ \A i \in DOMAIN b : z[i] = b[i]
        /\ \A i \in DOMAIN z : i \notin DOMAIN b => i - Len(b) \in DOMAIN q /\ z[i] = q[i - Len(b)]
    OBVIOUS
  <1> HIDE DEF z
  <1>2. Msg("turn", None) \in Message /\ Msg("turn", None).request = None
    BY DEF Msg, Message
  <1>3. DOMAIN u = 1 .. Len(z) /\ \A i \in DOMAIN u : u[i] \in Message
    <2>1. \A i \in DOMAIN z : z[i] \in Message
      BY <1>1
    <2> QED BY <1>0, <1>1, <1>2, <2>1
  <1>4. u \in Seq(Message)
    <2>1. u \in [1 .. Len(z) -> Message]
      BY <1>0, <1>3
    <2>2. Len(z) \in Nat
      BY <1>1
    <2> QED BY <2>1, <2>2
  <1>5. \A i \in DOMAIN u : i \in DOMAIN b => u[i] = b[i]
    BY <1>0, <1>1, <1>3
  <1>6. \A i \in DOMAIN u : i \notin DOMAIN b =>
          /\ i - Len(b) \in DOMAIN q
          /\ q[i - Len(b)].kind # "turn" => u[i].request = None
          /\ q[i - Len(b)].kind = "turn" => u[i] = q[i - Len(b)]
    BY <1>0, <1>1, <1>2, <1>3
  <1>7. /\ \A i \in DOMAIN b : i \in DOMAIN u
        /\ \A i \in DOMAIN q : i + Len(b) \in DOMAIN u /\ i + Len(b) \notin DOMAIN b
        /\ \A i \in DOMAIN u : i \in Nat /\ i > 0
    <2> DEFINE v == Len(b)
               w == Len(q)
    <2>1. /\ v \in Nat /\ w \in Nat /\ DOMAIN b = 1 .. v /\ DOMAIN q = 1 .. w
          /\ DOMAIN u = 1 .. v + w
      BY <1>0, <1>1, <1>3
    <2> HIDE DEF v, w
    <2>2. /\ \A i \in DOMAIN b : i \in DOMAIN u
          /\ \A i \in DOMAIN q : i + v \in DOMAIN u /\ i + v \notin DOMAIN b
          /\ \A i \in DOMAIN u : i \in Nat /\ i > 0
      BY <2>1
    <2> QED BY <2>2 DEF v
  <1> QED BY <1>1, <1>4, <1>5, <1>6, <1>7

\* The manifest once everything on its way is committed is the promised one.
LEMMA UncommittedIsPromised ==
  ASSUME ArtifactsInvariant
  PROVE  Owning(disk.manifest, Uncommitted) = Promised(HostState, disk)
PROOF
  <1> DEFINE h == HostState
             a == lane.awaiting
             b == disk.batch
             q == link.channel
             k == lane.ticket - link.durable
             v == Len(b)
             u == Uncommitted
             m == disk.manifest
  <1>0. /\ IsHost(h) /\ DiskIsSound(disk) /\ LaneIsSound(h.lane) /\ OwnerIsOnItsWay(h, disk)
        /\ h.lane = lane /\ h.link = link
    BY HostFields DEF ArtifactsInvariant, Sound
  <1>1. /\ q \in Seq(Message) /\ b \in Seq(Message) /\ \A i \in DOMAIN b : b[i].kind = "turn"
        /\ a \in Request \cup {None} /\ lane.ticket \in Nat /\ link.durable \in Nat
        /\ m = [o \in DOMAIN m |-> m[o]]
    BY <1>0 DEF IsHost, DiskIsSound, LaneIsSound
  <1>2. /\ u \in Seq(Message) /\ v \in Nat
        /\ \A i \in DOMAIN u : i \in Nat /\ i > 0
        /\ \A i \in DOMAIN u : i \in DOMAIN b => u[i] = b[i]
        /\ \A i \in DOMAIN u : i \notin DOMAIN b =>
             /\ i - v \in DOMAIN q
             /\ q[i - v].kind # "turn" => u[i].request = None
             /\ q[i - v].kind = "turn" => u[i] = q[i - v]
        /\ \A i \in DOMAIN b : i \in DOMAIN u
        /\ \A i \in DOMAIN q : i + v \in DOMAIN u /\ i + v \notin DOMAIN b
    <2>1. u = OnlyTurns(b \o q)
      BY DEF Uncommitted, OnlyTurns
    <2> HIDE DEF u, b, q
    <2> QED BY <1>1, <2>1, UncommittedFacts
  <1>3. /\ \A i \in DOMAIN b : b[i].request # None => b[i].request = a /\ k = i
        /\ \A i \in DOMAIN q : q[i].kind = "turn" /\ q[i].request # None =>
             q[i].request = a /\ k = v + i
        /\ a # None /\ k > 0 =>
             \/ k \in DOMAIN b /\ b[k].request = a
             \/ k - v \in DOMAIN q /\ q[k - v].kind = "turn" /\ q[k - v].request = a
    BY <1>0 DEF OwnerIsOnItsWay
  <1>4. k \in Int /\ (k > 0 <=> lane.ticket > link.durable)
    BY <1>1
  <1>5. Promised(h, disk) = IF a # None /\ k > 0 THEN With(m, a) ELSE m
    BY <1>0, <1>4 DEF Promised
  <1> HIDE DEF a, b, q, k, v, u, m, h
  <1>6. \A i \in DOMAIN u : u[i].request # None => u[i].request = a /\ k = i
    <2> SUFFICES ASSUME NEW i \in DOMAIN u, u[i].request # None
                 PROVE  u[i].request = a /\ k = i
      OBVIOUS
    <2>1. CASE i \in DOMAIN b
      BY <1>2, <1>3, <2>1
    <2>2. CASE i \notin DOMAIN b
      <3>1. i - v \in DOMAIN q /\ q[i - v].kind = "turn" /\ u[i] = q[i - v]
        BY <1>2, <2>2
      <3>2. u[i].request = a /\ k = v + (i - v)
        BY <1>3, <3>1
      <3>3. v + (i - v) = i
        BY <1>2
      <3> QED BY <3>2, <3>3
    <2> QED BY <2>1, <2>2
  <1>7. CASE a # None /\ k > 0
    <2>1. k \in DOMAIN u /\ u[k].request = a
      <3>1. CASE k \in DOMAIN b /\ b[k].request = a
        BY <1>2, <3>1
      <3>2. CASE k - v \in DOMAIN q /\ q[k - v].kind = "turn" /\ q[k - v].request = a
        <4>1. (k - v) + v = k
          BY <1>2, <1>4
        <4>2. k \in DOMAIN u /\ k \notin DOMAIN b
          BY <1>2, <3>2, <4>1
        <4> QED BY <1>2, <3>2, <4>2
      <3> QED BY <1>3, <1>7, <3>1, <3>2
    <2>2. a \in Request
      BY <1>1, <1>7
    <2>3. Owning(m, u) = With(m, a)
      BY <1>2, <1>6, <2>1, <2>2, OwningOne
    <2> QED BY <1>5, <1>7, <2>3 DEF m, u, h
  <1>8. CASE ~(a # None /\ k > 0)
    <2>1. \A i \in DOMAIN u : u[i].request = None
      BY <1>2, <1>6, <1>8
    <2>2. Owning(m, u) = m
      BY <1>1, <1>2, <2>1, OwningNone
    <2> QED BY <1>5, <1>8, <2>2 DEF m, u, h
  <1> QED BY <1>7, <1>8

\* In a sound state what is owned is stored, and what is on its way may be committed.
LEMMA SoundIsAdmissible ==
  ArtifactsInvariant => CheckpointsAreAdmissible
PROOF
  <1> SUFFICES ASSUME ArtifactsInvariant PROVE CheckpointsAreAdmissible
    OBVIOUS
  <1> DEFINE m == Owning(disk.manifest, Uncommitted)
  <1>1. m = Promised(HostState, disk)
    BY UncommittedIsPromised
  <1>2. DiskIsSound(disk) /\ Owned(disk.manifest) \subseteq disk.stored
    BY DEF ArtifactsInvariant, Sound, DiskIsSound
  <1>3. ASSUME spent.compactions = 0
        PROVE  /\ Owned(m) \subseteq disk.stored
               /\ Cardinality(disk.stored \ Owned(m)) <= MaxStaged
    <2>1. PutsAreStored(HostState, disk)
      BY <1>3 DEF ArtifactsInvariant, Sound
    <2>2. Cardinality(disk.stored \ Owned(m)) <= MaxStaged
      BY <1>1, <2>1 DEF PutsAreStored
    <2>3. Owned(m) \subseteq disk.stored
      <3>1. CASE m = disk.manifest
        BY <1>2, <3>1
      <3>2. CASE m # disk.manifest
        <4>1. lane.awaiting # None /\ m = With(disk.manifest, lane.awaiting)
          BY <1>1, <3>2, HostFields DEF Promised
        <4>2. Content(lane.awaiting) \in disk.stored
          BY <2>1, <4>1, HostFields DEF PutsAreStored
        <4>3. lane.awaiting \in Request
          BY <4>1, HostFields DEF ArtifactsInvariant, Sound, LaneIsSound
        <4> QED BY <1>2, <4>1, <4>2, <4>3, OwnerFreesStage
      <3> QED BY <3>1, <3>2
    <2> QED BY <2>2, <2>3
  <1> QED BY <1>2, <1>3 DEF CheckpointsAreAdmissible

\* Late compile outcomes and late stores never put an older program in the
\* place of a newer one: a program that stays in the document keeps its active
\* revision or raises it (ProgramDocumentHost::complete, schedule_requests).
THEOREM ProgramsNeverGoBack ==
  Spec => ActiveNeverGoesBack
PROOF
  <1>1. ArtifactsInvariant /\ [Next]_vars => [StaysAhead]_vars
    BY NextSound
  <1>2. Spec => []ArtifactsInvariant
    BY InitSound, NextSound, PTL DEF Spec
  <1> QED BY <1>1, <1>2, PTL DEF Spec, ActiveNeverGoesBack, StaysAhead

\* An archived program runs only when the database owns its artifact, whatever
\* fails or is compacted; a current draft is owned or in the lane unless its
\* store has ended in a diagnostic: refused by a limit, failed by the database
\* or left without an owner (complete_program, finish_store, drive_authority).
THEOREM ActiveIsAlwaysOwned ==
  Spec => []ActiveIsOwned
PROOF
  BY InitSound, NextSound, SoundIsOwned, PTL DEF Spec

\* What is owned is stored; and as long as nobody compacts, no checkpoint on
\* its way is refused for an artifact that is not stored or for the number of
\* staged artifacts (validate_content_artifact_storage).
THEOREM CheckpointsStayAdmissible ==
  Spec => []CheckpointsAreAdmissible
PROOF
  BY InitSound, NextSound, SoundIsAdmissible, PTL DEF Spec

-----------------------------------------------------------------------------
(* What the store lane holds *)

LaneType ==
  [pending : [Sessions -> Entry], flight : Request \cup {None}, ready : Request \cup {None},
   awaiting : Request \cup {None}, ticket : Nat, bytes : Int]

\* The bytes of the pending stores, of the stores under way, and of both.
Sizes(l) == [s \in Sessions |-> SizeOrZero(l.pending[s].request)]
PendingBytes(l) == SumFunctionOnSet(Sizes(l), Queued(l))
UnderWay(l) == SizeOrZero(l.flight) + SizeOrZero(l.ready) + SizeOrZero(l.awaiting)

\* The sessions that have a store in the lane.
Holders(l) ==
  {s \in Sessions : \/ l.flight # None /\ l.flight.session = s
                    \/ l.ready # None /\ l.ready.session = s
                    \/ l.awaiting # None /\ l.awaiting.session = s
                    \/ l.pending[s].request # None}

HoldersFit(l) == IsFiniteSet(Holders(l)) /\ Cardinality(Holders(l)) <= MaxStoreSessions

\* The lane's counter is exact, and the lane keeps to its limits.
LaneFits(l) ==
  /\ l \in LaneType
  /\ IsFiniteSet(Queued(l))
  /\ l.bytes = UnderWay(l) + PendingBytes(l)
  /\ l.bytes <= MaxStoreBytes
  /\ HoldersFit(l)

\* The fields of a lane.
LEMMA LaneFields ==
  ASSUME NEW l \in LaneType
  PROVE  /\ DOMAIN l = {"pending", "flight", "ready", "awaiting", "ticket", "bytes"}
         /\ l.pending \in [Sessions -> Entry]
         /\ {l.flight, l.ready, l.awaiting} \subseteq Request \cup {None}
         /\ l.ticket \in Nat /\ l.bytes \in Int
         /\ \A s \in Sessions : /\ l.pending[s] \in Entry
                                /\ l.pending[s].request \in Request \cup {None}
                                /\ l.pending[s].sequence \in Nat
PROOF
  <1>1. \A e \in Entry : e.request \in Request \cup {None} /\ e.sequence \in Nat
    BY DEF Entry
  <1> QED BY <1>1 DEF LaneType

\* A request has a session and a size.
LEMMA RequestFields ==
  ASSUME NEW r \in Request
  PROVE  /\ r # None /\ r.session \in Sessions /\ r.id \in Identity
         /\ Size(r) \in Nat /\ SizeOrZero(r) = Size(r)
PROOF
  <1>1. r.session \in Sessions /\ r.id \in Identity /\ r.id.source \in Sources
    BY DEF Request, Identity
  <1>2. Size(r) \in Nat
    BY <1>1, ConstantsAssumption DEF Size
  <1>3. r # None
    BY NoneAssumption
  <1> QED BY <1>1, <1>2, <1>3 DEF SizeOrZero

\* What is counted for a place in the lane.
LEMMA SizeOrZeroType ==
  /\ SizeOrZero(None) = 0
  /\ \A r \in Request \cup {None} : SizeOrZero(r) \in Nat
PROOF
  <1>1. SizeOrZero(None) = 0
    BY DEF SizeOrZero
  <1>2. \A r \in Request : SizeOrZero(r) \in Nat
    BY RequestFields
  <1> QED BY <1>1, <1>2

\* The bytes of the pending stores, with one session's set apart.
LEMMA PendingSplit ==
  ASSUME NEW l \in LaneType, IsFiniteSet(Queued(l)), NEW s \in Sessions
  PROVE  LET others == SumFunctionOnSet(Sizes(l), Queued(l) \ {s}) IN
         /\ others \in Int
         /\ PendingBytes(l) = SizeOrZero(l.pending[s].request) + others
         /\ PendingBytes(l) \in Int
PROOF
  <1> DEFINE q == Queued(l)
             f == Sizes(l)
  <1>1. q \subseteq Sessions /\ (s \in q <=> l.pending[s].request # None)
    BY DEF Queued
  <1>2. \A t \in Sessions : f[t] = SizeOrZero(l.pending[t].request) /\ f[t] \in Nat
    BY LaneFields, SizeOrZeroType DEF Sizes
  <1>3. \A t \in q : f[t] \in Int
    BY <1>1, <1>2
  <1>4. PendingBytes(l) = SumFunctionOnSet(f, q)
    BY DEF PendingBytes
  <1> HIDE DEF q, f
  <1>5. CASE s \in q
    <2>1. /\ SumFunctionOnSet(f, q) = f[s] + SumFunctionOnSet(f, q \ {s})
          /\ SumFunctionOnSet(f, q \ {s}) \in Int
      BY <1>3, <1>5, SumWithout DEF q
    <2> QED BY <1>2, <1>4, <2>1 DEF f, q
  <1>6. CASE s \notin q
    <2>1. q \ {s} = q /\ SizeOrZero(l.pending[s].request) = 0
      BY <1>1, <1>6, SizeOrZeroType
    <2>2. \A t \in q : f[t] = f[t] /\ f[t] \in Int
      BY <1>3
    <2>3. SumFunctionOnSet(f, q) \in Int
      BY <2>2, SumSame DEF q
    <2>4. SumFunctionOnSet(f, q \ {s}) = SumFunctionOnSet(f, q)
      BY <2>1
    <2>5. PendingBytes(l) = 0 + SumFunctionOnSet(f, q \ {s})
      BY <1>4, <2>3, <2>4
    <2> QED BY <1>4, <2>1, <2>3, <2>4, <2>5 DEF f, q
  <1> QED BY <1>5, <1>6

\* Lanes that differ in one session's pending store only.
LEMMA PendingChange ==
  ASSUME NEW l \in LaneType, NEW m \in LaneType, IsFiniteSet(Queued(l)), NEW s \in Sessions,
         \A t \in Sessions : t # s => m.pending[t].request = l.pending[t].request
  PROVE  /\ IsFiniteSet(Queued(m))
         /\ PendingBytes(l) \in Int /\ PendingBytes(m) \in Int
         /\ PendingBytes(m) - SizeOrZero(m.pending[s].request)
              = PendingBytes(l) - SizeOrZero(l.pending[s].request)
PROOF
  <1> DEFINE q == Queued(l) \ {s}
             x == SumFunctionOnSet(Sizes(l), q)
             y == SumFunctionOnSet(Sizes(m), q)
  <1>1. Queued(m) \ {s} = q /\ Queued(m) \subseteq q \cup {s}
    BY DEF Queued
  <1>2. IsFiniteSet(q)
    BY FS_Subset
  <1>3. IsFiniteSet(Queued(m))
    <2>1. IsFiniteSet(q \cup {s})
      BY <1>2, FS_AddElement
    <2> QED BY <1>1, <2>1, FS_Subset
  <1>4. x = y
    <2>1. \A t \in q : Sizes(l)[t] = Sizes(m)[t] /\ Sizes(l)[t] \in Int
      <3>1. \A t \in q : t \in Sessions /\ t # s
        BY DEF Queued
      <3>2. \A t \in Sessions : /\ Sizes(l)[t] = SizeOrZero(l.pending[t].request)
                                /\ Sizes(m)[t] = SizeOrZero(m.pending[t].request)
                                /\ Sizes(l)[t] \in Nat
        BY LaneFields, SizeOrZeroType DEF Sizes
      <3> HIDE DEF q
      <3> QED BY <3>1, <3>2
    <2> HIDE DEF q
    <2> QED BY <1>2, <2>1, SumSame
  <1>5. /\ x \in Int /\ PendingBytes(l) = SizeOrZero(l.pending[s].request) + x
        /\ PendingBytes(l) \in Int
    BY PendingSplit
  <1>6. /\ y \in Int /\ PendingBytes(m) = SizeOrZero(m.pending[s].request) + y
        /\ PendingBytes(m) \in Int
    BY <1>1, <1>3, PendingSplit
  <1>7. SizeOrZero(l.pending[s].request) \in Nat /\ SizeOrZero(m.pending[s].request) \in Nat
    BY LaneFields, SizeOrZeroType
  <1> HIDE DEF x, y
  <1> QED BY <1>3, <1>4, <1>5, <1>6, <1>7

\* The bytes of the stores under way and of one session's pending store.
Places(l, s) == UnderWay(l) + SizeOrZero(l.pending[s].request)

\* A lane in which the counter has moved with the places it counts fits.
LEMMA LaneChange ==
  ASSUME NEW l, LaneFits(l), NEW m \in LaneType, NEW s \in Sessions,
         \A t \in Sessions : t # s => m.pending[t].request = l.pending[t].request,
         m.bytes - Places(m, s) = l.bytes - Places(l, s),
         m.bytes <= MaxStoreBytes, HoldersFit(m)
  PROVE  LaneFits(m)
PROOF
  <1>1. l \in LaneType /\ IsFiniteSet(Queued(l)) /\ l.bytes = UnderWay(l) + PendingBytes(l)
    BY DEF LaneFits
  <1>2. /\ IsFiniteSet(Queued(m))
        /\ PendingBytes(l) \in Int /\ PendingBytes(m) \in Int
        /\ PendingBytes(m) - SizeOrZero(m.pending[s].request)
             = PendingBytes(l) - SizeOrZero(l.pending[s].request)
    BY <1>1, PendingChange
  <1>3. /\ UnderWay(l) \in Nat /\ UnderWay(m) \in Nat
        /\ SizeOrZero(l.pending[s].request) \in Nat
        /\ SizeOrZero(m.pending[s].request) \in Nat
        /\ l.bytes \in Int /\ m.bytes \in Int
    BY <1>1, LaneFields, SizeOrZeroType DEF UnderWay
  <1>4. m.bytes = UnderWay(m) + PendingBytes(m)
    BY <1>1, <1>2, <1>3 DEF Places
  <1> QED BY <1>2, <1>4 DEF LaneFits

\* Fewer sessions with a store are within the limit.
LEMMA HoldersShrink ==
  ASSUME NEW l, HoldersFit(l), NEW m, Holders(m) \subseteq Holders(l)
  PROVE  HoldersFit(m)
PROOF
  <1>1. /\ IsFiniteSet(Holders(m)) /\ Cardinality(Holders(m)) <= Cardinality(Holders(l))
        /\ Cardinality(Holders(m)) \in Nat /\ Cardinality(Holders(l)) \in Nat
    BY FS_Subset, FS_CardinalityType DEF HoldersFit
  <1> QED BY <1>1, ConstantsAssumption DEF HoldersFit

\* The sessions of the stores in the lane are its holders.
LEMMA StoreSessionsAreHolders ==
  ASSUME NEW h, h.lane \in LaneType, LaneIsSound(h.lane)
  PROVE  StoreSessions(h) = Holders(h.lane)
PROOF
  <1> DEFINE l == h.lane
  <1>1. /\ {l.flight, l.ready, l.awaiting} \subseteq Request \cup {None}
        /\ \A s \in Sessions : l.pending[s].request # None => l.pending[s].request.session = s
    BY DEF LaneIsSound
  <1>2. ASSUME NEW s \in StoreSessions(h) PROVE s \in Holders(l)
    <2>1. PICK r \in InLane(h) : s = r.session
      BY DEF StoreSessions
    <2>2. CASE r \in {l.flight, l.ready, l.awaiting} \ {None}
      <3>1. r \in Request
        BY <1>1, <2>2
      <3>2. s \in Sessions
        BY <2>1, <3>1, RequestFields
      <3> QED BY <2>1, <2>2, <3>2 DEF Holders
    <2>3. CASE r \in {l.pending[t].request : t \in Queued(l)}
      BY <1>1, <2>1, <2>3 DEF Holders, Queued
    <2> QED BY <2>1, <2>2, <2>3 DEF InLane
  <1>3. ASSUME NEW s \in Holders(l) PROVE s \in StoreSessions(h)
    <2>1. CASE l.pending[s].request # None
      <3>1. s \in Queued(l) /\ l.pending[s].request.session = s
        BY <1>1, <2>1 DEF Holders, Queued
      <3>2. l.pending[s].request \in InLane(h)
        BY <3>1 DEF InLane
      <3> QED BY <3>1, <3>2 DEF StoreSessions
    <2>2. CASE l.pending[s].request = None
      <3>1. PICK r \in {l.flight, l.ready, l.awaiting} : r # None /\ r.session = s
        BY <2>2 DEF Holders
      <3>2. r \in InLane(h)
        BY <3>1 DEF InLane
      <3> QED BY <3>1, <3>2 DEF StoreSessions
    <2> QED BY <2>1, <2>2
  <1> QED BY <1>2, <1>3

\* A store goes from one place to another, or out of the lane with its bytes.
LEMMA StoreMoved ==
  ASSUME NEW l, LaneFits(l), NEW m \in LaneType, NEW s \in Sessions, NEW n \in Nat,
         \A t \in Sessions : t # s => m.pending[t].request = l.pending[t].request,
         Places(m, s) = Places(l, s) - n, m.bytes = l.bytes - n,
         Holders(m) \subseteq Holders(l)
  PROVE  LaneFits(m)
PROOF
  <1>1. /\ l \in LaneType /\ l.bytes \in Int /\ l.bytes <= MaxStoreBytes /\ HoldersFit(l)
        /\ MaxStoreBytes \in Nat
    BY LaneFields, ConstantsAssumption DEF LaneFits
  <1>2. Places(l, s) \in Int
    BY <1>1, LaneFields, SizeOrZeroType DEF Places, UnderWay
  <1>3. m.bytes - Places(m, s) = l.bytes - Places(l, s) /\ m.bytes <= MaxStoreBytes
    BY <1>1, <1>2
  <1>4. HoldersFit(m)
    BY <1>1, HoldersShrink
  <1> QED BY <1>3, <1>4, LaneChange

\* NoStore is an entry.
LEMMA NoStoreFields ==
  NoStore \in Entry /\ NoStore.request = None
PROOF
  BY DEF NoStore, Entry

Started(l, s) == [l EXCEPT !.flight = l.pending[s].request, !.pending[s] = NoStore]

\* drive_store: the oldest pending store is under way.
LEMMA StoreStarted ==
  ASSUME NEW l, LaneFits(l), LaneIsSound(l), NEW s \in Queued(l),
         l.flight = None, l.ready = None, l.awaiting = None, NEW m, m = Started(l, s)
  PROVE  LaneFits(m)
PROOF
  <1> DEFINE r == l.pending[s].request
  <1>1. l \in LaneType /\ s \in Sessions /\ r # None /\ r \in Request /\ r.session = s
    BY LaneFields DEF LaneFits, Queued, LaneIsSound
  <1>2. /\ DOMAIN l = {"pending", "flight", "ready", "awaiting", "ticket", "bytes"}
        /\ l.pending \in [Sessions -> Entry] /\ l.ticket \in Nat /\ l.bytes \in Int
    BY <1>1, LaneFields
  <1>3. /\ m.flight = r /\ m.ready = None /\ m.awaiting = None
        /\ m.ticket = l.ticket /\ m.bytes = l.bytes
        /\ m.pending = [l.pending EXCEPT ![s] = NoStore]
    BY <1>2 DEF Started
  <1>4. m \in LaneType
    <2>1. m.pending \in [Sessions -> Entry]
      BY <1>1, <1>2, <1>3, NoStoreFields
    <2>2. /\ DOMAIN m = {"pending", "flight", "ready", "awaiting", "ticket", "bytes"}
          /\ m = [x \in DOMAIN m |-> m[x]]
      BY <1>2 DEF Started
    <2> QED BY <1>1, <1>2, <1>3, <2>1, <2>2 DEF LaneType
  <1>5. /\ m.pending[s].request = None
        /\ \A t \in Sessions : t # s => m.pending[t].request = l.pending[t].request
    BY <1>1, <1>2, <1>3, NoStoreFields
  <1> HIDE DEF r
  <1>6. Places(m, s) = Places(l, s) - 0
    <2>1. SizeOrZero(r) \in Nat /\ SizeOrZero(None) = 0
      BY <1>1, SizeOrZeroType
    <2>2. Places(m, s) = SizeOrZero(r) + 0 + 0 + 0
      BY <1>3, <1>5, <2>1 DEF Places, UnderWay
    <2>3. Places(l, s) = 0 + 0 + 0 + SizeOrZero(r)
      BY <2>1 DEF Places, UnderWay, r
    <2> QED BY <2>1, <2>2, <2>3
  <1>7. Holders(m) \subseteq Holders(l)
    BY <1>1, <1>3, <1>5 DEF Holders, r
  <1> DEFINE n == 0
  <1>8. m.bytes = l.bytes - n /\ n \in Nat /\ Places(m, s) = Places(l, s) - n
    BY <1>2, <1>3, <1>6
  <1> HIDE DEF n
  <1> QED BY <1>1, <1>4, <1>5, <1>7, <1>8, StoreMoved

\* The stores under way change, the pending ones do not.
LEMMA UnderWayMoves ==
  ASSUME NEW l, LaneFits(l), NEW r \in Request, NEW m \in LaneType, m.pending = l.pending,
         {m.flight, m.ready, m.awaiting} \subseteq {r, None},
         r \in {l.flight, l.ready, l.awaiting},
         NEW n \in Nat, UnderWay(m) = UnderWay(l) - n, m.bytes = l.bytes - n
  PROVE  LaneFits(m)
PROOF
  <1>1. l \in LaneType /\ r # None
    BY RequestFields DEF LaneFits
  <1>2. r.session \in Sessions
    BY RequestFields
  <1>3. Places(m, r.session) = Places(l, r.session) - n
    <2>1. UnderWay(l) \in Nat /\ SizeOrZero(l.pending[r.session].request) \in Nat
      BY <1>1, <1>2, LaneFields, SizeOrZeroType DEF UnderWay
    <2> QED BY <2>1 DEF Places
  <1>4. Holders(m) \subseteq Holders(l)
    BY <1>1 DEF Holders
  <1> QED BY <1>2, <1>3, <1>4, StoreMoved

\* The number of a new candidate.
LEMMA NextSequenceType ==
  ASSUME NEW l \in LaneType, IsFiniteSet(Queued(l))
  PROVE  NextSequence(l) \in Nat
PROOF
  <1> DEFINE q == {l.pending[s].sequence : s \in Queued(l)}
  <1>1. q \in SUBSET Nat
    BY LaneFields DEF Queued
  <1>2. IsFiniteSet(q)
    <2> DEFINE f == [s \in Queued(l) |-> l.pending[s].sequence]
    <2>1. f \in Surjection(Queued(l), q)
      BY DEF Surjection
    <2> HIDE DEF f, q
    <2> QED BY <2>1, FS_Surjection
  <1>3. IsFiniteSet({0} \cup q) /\ {0} \cup q \in SUBSET Nat /\ {0} \cup q # {}
    <2>1. IsFiniteSet(q \cup {0}) /\ q \cup {0} = {0} \cup q
      BY <1>2, FS_AddElement
    <2>2. 0 \in {0} \cup q /\ {0} \cup q \in SUBSET Nat
      BY <1>1
    <2> HIDE DEF q
    <2> QED BY <2>1, <2>2
  <1>4. Max({0} \cup q) \in {0} \cup q
    BY <1>3, MaxIsGreatest
  <1>5. Max({0} \cup q) \in Nat
    BY <1>3, <1>4
  <1> QED BY <1>5 DEF NextSequence

\* What enqueue_store makes of the lane: the number of bytes and the entry.
Projected(l, r) ==
  l.bytes - ((IF r.session \in Queued(l) THEN Size(l.pending[r.session].request) ELSE 0)
               + (IF Joins(l, r) THEN Size(l.flight) ELSE 0)) + Size(r)
Filed(l, r) == IF Joins(l, r) THEN NoStore ELSE Pending(NextSequence(l), r)

\* enqueue_store: the candidate takes the place of the session's pending store
\* or joins the flight, and the bytes of what it replaces are freed.
LEMMA StoreFiled ==
  ASSUME NEW l, LaneFits(l), LaneIsSound(l), NEW r \in Request,
         r.session \in Holders(l) \/ ~(Cardinality(Holders(l)) >= MaxStoreSessions),
         Projected(l, r) <= MaxStoreBytes, NEW m,
         m = Enqueued(l, r, Filed(l, r), Projected(l, r))
  PROVE  LaneFits(m)
PROOF
  <1> DEFINE s == r.session
             e == Filed(l, r)
             b == Projected(l, r)
             x == SizeOrZero(l.pending[s].request)
             y == IF Joins(l, r) THEN SizeOrZero(l.flight) ELSE 0
  <1>1. /\ l \in LaneType /\ IsFiniteSet(Queued(l)) /\ s \in Sessions /\ r # None
        /\ Size(r) \in Nat /\ SizeOrZero(r) = Size(r)
    BY RequestFields DEF LaneFits
  <1>2. /\ DOMAIN l = {"pending", "flight", "ready", "awaiting", "ticket", "bytes"}
        /\ l.pending \in [Sessions -> Entry] /\ l.ticket \in Nat /\ l.bytes \in Int
        /\ {l.flight, l.ready, l.awaiting} \subseteq Request \cup {None}
        /\ l.pending[s].request \in Request \cup {None}
    BY <1>1, LaneFields
  <1>3. e \in Entry /\ e.request = IF Joins(l, r) THEN None ELSE r
    <2>1. Pending(NextSequence(l), r) \in Entry /\ Pending(NextSequence(l), r).request = r
      BY <1>1, NextSequenceType DEF Pending, Entry
    <2> QED BY <2>1, NoStoreFields DEF Filed
  <1>4. /\ x \in Nat /\ y \in Nat
        /\ b = l.bytes - (x + y) + Size(r) /\ b \in Int
    <2>1. x \in Nat /\ y \in Nat
      BY <1>2, SizeOrZeroType
    <2>2. x = IF s \in Queued(l) THEN Size(l.pending[s].request) ELSE 0
      BY <1>1 DEF SizeOrZero, Queued
    <2>3. y = IF Joins(l, r) THEN Size(l.flight) ELSE 0
      BY DEF SizeOrZero, Joins
    <2>4. b = l.bytes - (x + y) + Size(r)
      BY <2>2, <2>3 DEF Projected
    <2> HIDE DEF x, y, b
    <2> QED BY <1>1, <1>2, <2>1, <2>4
  <1>5. m = Enqueued(l, r, e, b) /\ b <= MaxStoreBytes
    OBVIOUS
  <1> HIDE DEF e, b
  <1>6. /\ m.flight = IF Joins(l, r) THEN r ELSE l.flight
        /\ m.ready = l.ready /\ m.awaiting = l.awaiting /\ m.ticket = l.ticket /\ m.bytes = b
        /\ m.pending = [l.pending EXCEPT ![s] = e]
        /\ DOMAIN m = {"pending", "flight", "ready", "awaiting", "ticket", "bytes"}
        /\ m = [f \in DOMAIN m |-> m[f]]
    BY <1>2, <1>5 DEF Enqueued
  <1>7. m \in LaneType
    <2>1. m.pending \in [Sessions -> Entry]
      BY <1>1, <1>2, <1>3, <1>6
    <2> QED BY <1>2, <1>4, <1>6, <2>1 DEF LaneType
  <1>8. /\ m.pending[s].request = e.request
        /\ \A t \in Sessions : t # s => m.pending[t].request = l.pending[t].request
    BY <1>1, <1>2, <1>6
  <1> HIDE DEF x, y
  <1>9. m.bytes - Places(m, s) = l.bytes - Places(l, s)
    <2> DEFINE v == SizeOrZero(l.ready)
               w == SizeOrZero(l.awaiting)
               z == SizeOrZero(l.flight)
    <2>1. v \in Nat /\ w \in Nat /\ z \in Nat
      BY <1>2, SizeOrZeroType
    <2>2. Places(l, s) = z + v + w + x
      BY DEF Places, UnderWay, x
    <2>3. CASE Joins(l, r)
      <3>1. Places(m, s) = Size(r) + v + w + 0
        BY <1>1, <1>3, <1>6, <1>8, <2>3, SizeOrZeroType DEF Places, UnderWay
      <3>2. y = z
        BY <2>3 DEF y
      <3> HIDE DEF v, w, z
      <3> QED BY <1>1, <1>2, <1>4, <1>6, <2>1, <2>2, <3>1, <3>2
    <2>4. CASE ~Joins(l, r)
      <3>1. Places(m, s) = z + v + w + Size(r)
        BY <1>1, <1>3, <1>6, <1>8, <2>4 DEF Places, UnderWay
      <3>2. y = 0
        BY <2>4 DEF y
      <3> HIDE DEF v, w, z
      <3> QED BY <1>1, <1>2, <1>4, <1>6, <2>1, <2>2, <3>1, <3>2
    <2> QED BY <2>3, <2>4
  <1>10. HoldersFit(m)
    <2>1. Holders(m) \subseteq Holders(l) \cup {s}
      BY <1>3, <1>6, <1>8 DEF Holders
    <2>2. IsFiniteSet(Holders(l)) /\ Cardinality(Holders(l)) <= MaxStoreSessions
      BY DEF LaneFits, HoldersFit
    <2>3. CASE s \in Holders(l)
      <3>1. Holders(m) \subseteq Holders(l) /\ HoldersFit(l)
        BY <2>1, <2>2, <2>3 DEF HoldersFit
      <3> QED BY <3>1, HoldersShrink
    <2>4. CASE s \notin Holders(l)
      <3>1. ~(Cardinality(Holders(l)) >= MaxStoreSessions)
        BY <2>4
      <3>2. /\ IsFiniteSet(Holders(l) \cup {s}) /\ Cardinality(Holders(l)) \in Nat
            /\ Cardinality(Holders(l) \cup {s}) = Cardinality(Holders(l)) + 1
        BY <2>2, <2>4, FS_AddElement, FS_CardinalityType
      <3>3. /\ IsFiniteSet(Holders(m)) /\ Cardinality(Holders(m)) \in Nat
            /\ Cardinality(Holders(m)) <= Cardinality(Holders(l) \cup {s})
        BY <2>1, <3>2, FS_Subset, FS_CardinalityType
      <3>4. MaxStoreSessions \in Nat
        BY ConstantsAssumption
      <3>5. Cardinality(Holders(m)) <= MaxStoreSessions
        BY <3>1, <3>2, <3>3, <3>4
      <3> QED BY <3>3, <3>5 DEF HoldersFit
    <2> QED BY <2>3, <2>4
  <1>11. m.bytes <= MaxStoreBytes
    BY <1>5, <1>6
  <1> HIDE DEF s
  <1> QED BY <1>1, <1>7, <1>8, <1>9, <1>10, <1>11, LaneChange

-----------------------------------------------------------------------------
(* The handlers keep the lane within its limits *)

LinkType ==
  [channel : Seq(Message), sent : Nat, durable : Nat,
   completion : {"none", "ok", "err"}, waiting : BOOLEAN]
CompilerType ==
  [pending : [Sessions -> Identity \cup {None}], outcomes : Seq(Request)]

\* The host's lane fits, and what IsHost leaves open of its types.
Fits(h) ==
  /\ h.link \in LinkType
  /\ h.compiler \in CompilerType
  /\ h.ended \in BOOLEAN
  /\ h.unsaved \subseteq Request
  /\ LaneFits(h.lane)

\* A turn is sent.
LEMMA SentFits ==
  ASSUME NEW h, IsHost(h), Fits(h), NEW o \in Request \cup {None}
  PROVE  Fits(Sent(h, o))
PROOF
  <1> DEFINE g == Sent(h, o)
  <1>1. /\ g.lane = h.lane /\ g.compiler = h.compiler /\ g.ended = h.ended
        /\ g.unsaved = h.unsaved
    BY SentFields
  <1>2. /\ g.link.channel \in Seq(Message) /\ g.link.sent = h.link.sent + 1
        /\ g.link.durable = h.link.durable /\ g.link.completion = h.link.completion
        /\ g.link.waiting = h.link.waiting
    BY SentFields DEF IsHost
  <1>3. DOMAIN g.link = DOMAIN h.link /\ g.link = [f \in DOMAIN g.link |-> g.link[f]]
    BY DEF Sent, IsHost
  <1> HIDE DEF g
  <1>4. g.link \in LinkType
    BY <1>2, <1>3 DEF Fits, LinkType, IsHost
  <1> QED BY <1>1, <1>4 DEF Fits, g

\* A step that leaves the lane and the link alone.
LEMMA SameLaneFits ==
  ASSUME NEW h, Fits(h), NEW g, g.lane = h.lane, g.link = h.link, g.compiler = h.compiler,
         g.ended \in BOOLEAN, g.unsaved \subseteq Request
  PROVE  Fits(g)
PROOF
  BY DEF Fits

\* dispatch_lifecycle.
LEMMA DispatchFits ==
  ASSUME NEW h, IsHost(h), Fits(h)
  PROVE  Fits(Dispatch(h))
PROOF
  <1> DEFINE g == [h EXCEPT !.ended = TRUE]
  <1>1. Fits(Sent(h, None))
    BY SentFits
  <1>2. /\ g.lane = h.lane /\ g.link = h.link /\ g.compiler = h.compiler
        /\ g.ended = TRUE /\ g.unsaved = h.unsaved
    BY DEF IsHost
  <1> HIDE DEF g
  <1>3. Fits(g)
    BY <1>2 DEF Fits
  <1> QED BY <1>1, <1>3 DEF Dispatch, g

\* The program of a session is replaced.
LEMMA SetProgramFits ==
  ASSUME NEW h, IsHost(h), Fits(h), NEW s, NEW p
  PROVE  IsHost(SetProgram(h, s, p)) /\ Fits(SetProgram(h, s, p))
PROOF
  <1> DEFINE g == SetProgram(h, s, p)
  <1>1. /\ DOMAIN g = DOMAIN h /\ g.lane = h.lane /\ g.link = h.link
        /\ g.unsaved = h.unsaved /\ g.compiler = h.compiler /\ g.ended = h.ended
    BY DEF IsHost, SetProgram
  <1> HIDE DEF g
  <1>2. IsHost(g) /\ Fits(g)
    BY <1>1 DEF IsHost, Fits
  <1> QED BY <1>2 DEF g

\* A request is settled without a program.
LEMMA RejectFits ==
  ASSUME NEW h, IsHost(h), Fits(h), NEW r \in Request
  PROVE  Fits(Reject(h, r))
PROOF
  <1> DEFINE g == SetProgram(h, r.session, [h.program[r.session] EXCEPT !.inFlight = FALSE])
  <1>1. Reject(h, r) \in {h, Dispatch(g)}
    BY DEF Reject, SetProgram
  <1>2. IsHost(g) /\ Fits(g)
    BY SetProgramFits
  <1> HIDE DEF g
  <1>3. Fits(Dispatch(g))
    BY <1>2, DispatchFits
  <1> QED BY <1>1, <1>3

\* A failed store.
LEMMA FailStoreFits ==
  ASSUME NEW h, IsHost(h), Fits(h), NEW r \in Request
  PROVE  Fits(FailStore(h, r))
PROOF
  <1> DEFINE g == [h EXCEPT !.unsaved = @ \cup {r}]
  <1>1. FailStore(h, r) = Reject(g, r)
    BY DEF FailStore
  <1>2. /\ g.lane = h.lane /\ g.link = h.link /\ g.compiler = h.compiler
        /\ g.ended = h.ended /\ g.unsaved = h.unsaved \cup {r}
    BY DEF IsHost
  <1> HIDE DEF g
  <1>3. IsHost(g) /\ Fits(g)
    <2>1. DOMAIN g = DOMAIN h /\ g.program = h.program
      BY DEF IsHost, g
    <2> QED BY <1>2, <2>1 DEF IsHost, Fits
  <1> QED BY <1>1, <1>3, RejectFits

\* A program starts, or does not.
LEMMA ActivateFits ==
  ASSUME NEW h, IsHost(h), Fits(h), NEW r \in Request
  PROVE  IsHost(Activate(h, r)) /\ Fits(Activate(h, r))
PROOF
  <1> DEFINE p == h.program[r.session]
             o == [p EXCEPT !.inFlight = FALSE,
                            !.active = IF r.id.source \in Unstartable THEN @ ELSE r.id]
             g == SetProgram(h, r.session, o)
  <1>1. Activate(h, r) \in {h, g}
    BY DEF Activate, SetProgram
  <1> HIDE DEF o
  <1>2. IsHost(g) /\ Fits(g)
    BY SetProgramFits
  <1> QED BY <1>1, <1>2

\* The lane is replaced by one that fits.
LEMMA SetLaneFits ==
  ASSUME NEW h, IsHost(h), Fits(h), NEW m, LaneFits(m), NEW g,
         g = [h EXCEPT !.lane = m]
  PROVE  IsHost(g) /\ Fits(g)
PROOF
  <1>1. /\ DOMAIN g = DOMAIN h /\ g.lane = m /\ g.link = h.link
        /\ g.unsaved = h.unsaved /\ g.compiler = h.compiler /\ g.ended = h.ended
    BY DEF IsHost
  <1>2. DOMAIN m = {"pending", "flight", "ready", "awaiting", "ticket", "bytes"}
    BY LaneFields DEF LaneFits
  <1> QED BY <1>1, <1>2 DEF IsHost, Fits

\* drive_store.
LEMMA DriveStoreFits ==
  ASSUME NEW h, IsHost(h), LaneIsSound(h.lane), Fits(h)
  PROVE  Fits(DriveStore(h))
PROOF
  <1> DEFINE s == CHOOSE t \in Oldest(h.lane) : TRUE
             r == h.lane.pending[s].request
             m == Started(h.lane, s)
             g == DriveStore(h)
  <1>1. CASE g # h
    <2>1. /\ {h.lane.flight, h.lane.ready, h.lane.awaiting} = {None}
          /\ Oldest(h.lane) # {}
          /\ g = [h EXCEPT !.lane = m, !.link.channel = Append(@, Msg("put", r))]
      BY <1>1 DEF DriveStore, Started
    <2>2. s \in Queued(h.lane)
      BY <2>1 DEF Oldest
    <2> HIDE DEF s, g
    <2>3. LaneFits(m)
      BY <2>1, <2>2, StoreStarted DEF Fits
    <2> HIDE DEF m
    <2>4. Msg("put", r) \in Message
      BY <2>2 DEF Msg, Message, LaneIsSound, Queued
    <2> HIDE DEF r
    <2>5. /\ g.lane = m /\ g.unsaved = h.unsaved /\ g.compiler = h.compiler
          /\ g.ended = h.ended
          /\ g.link = [h.link EXCEPT !.channel = Append(@, Msg("put", r))]
      BY <2>1 DEF IsHost
    <2>6. g.link \in LinkType
      <3> DEFINE q == Append(h.link.channel, Msg("put", r))
      <3>1. q \in Seq(Message) /\ g.link = [h.link EXCEPT !.channel = q]
        BY <2>4, <2>5, AppendFacts DEF IsHost
      <3> HIDE DEF q
      <3>2. h.link \in LinkType
        BY DEF Fits
      <3> QED BY <3>1, <3>2 DEF LinkType
    <2> QED BY <2>3, <2>5, <2>6 DEF Fits, g
  <1> QED BY <1>1

\* enqueue_store.
LEMMA EnqueueStoreFits ==
  ASSUME NEW h, NEW d, NEW c \in Nat, NEW r \in Request, Sound(h, d, c, {r}),
         ~h.link.waiting, IsCurrent(h, r), Fits(h)
  PROVE  Fits(EnqueueStore(h, r))
PROOF
  <1> DEFINE l == h.lane
             m == Enqueued(l, r, Filed(l, r), Projected(l, r))
             g == [h EXCEPT !.lane = m]
  <1>0. IsHost(h) /\ LaneIsSound(l) /\ l \in LaneType
    BY DEF Sound, Fits, LaneFits
  <1>1. StoreSessions(h) = Holders(l)
    BY <1>0, StoreSessionsAreHolders
  <1>2. CASE EnqueueStore(h, r) = FailStore(h, r)
    BY <1>0, <1>2, FailStoreFits
  <1>3. CASE EnqueueStore(h, r) # FailStore(h, r)
    <2>1. /\ r.session \in Holders(l) \/ ~(Cardinality(Holders(l)) >= MaxStoreSessions)
          /\ ~(Projected(l, r) > MaxStoreBytes)
          /\ EnqueueStore(h, r) = DriveStore(g)
      BY <1>1, <1>3 DEF EnqueueStore, Joins, Enqueued, Filed, Projected
    <2>2. Projected(l, r) <= MaxStoreBytes
      <3>1. Projected(l, r) \in Int
        <4>1. /\ l.bytes \in Int /\ Size(r) \in Nat
              /\ \A p \in Request : Size(p) \in Nat
              /\ l.flight \in Request \cup {None}
              /\ r.session \in Queued(l) => l.pending[r.session].request \in Request
          BY <1>0, LaneFields, RequestFields DEF Queued
        <4> QED BY <4>1 DEF Projected, Joins
      <3>2. MaxStoreBytes \in Nat
        BY ConstantsAssumption
      <3> QED BY <2>1, <3>1, <3>2
    <2>3. LaneFits(m)
      BY <1>0, <2>1, <2>2, StoreFiled DEF Fits
    <2>4. IsHost(g) /\ Fits(g)
      BY <1>0, <2>3, SetLaneFits
    <2>5. LaneIsSound(g.lane)
      <3> DEFINE e == Filed(l, r)
                 b == Projected(l, r)
      <3>1. /\ DOMAIN e = {"sequence", "request", "quiet"}
            /\ e.request = IF Joins(l, r) THEN None ELSE r
        BY DEF NoStore, Pending, Filed
      <3>2. g = [h EXCEPT !.lane = Enqueued(l, r, e, b)]
        OBVIOUS
      <3> HIDE DEF e, b, g, m
      <3>3. Keeps(h, g, d, c, {})
        BY <3>1, <3>2, EnqueuedKeeps
      <3> QED BY <3>3 DEF Keeps, Sound
    <2> HIDE DEF g
    <2>6. Fits(DriveStore(g))
      BY <2>4, <2>5, DriveStoreFits
    <2> QED BY <2>1, <2>6
  <1> QED BY <1>2, <1>3

\* complete_program.
LEMMA CompleteProgramFits ==
  ASSUME NEW h, NEW d, NEW c \in Nat, NEW r \in Request, Sound(h, d, c, {}), ~h.link.waiting,
         Fits(h)
  PROVE  Fits(CompleteProgram(h, r))
PROOF
  <1> DEFINE g == Activate(h, r)
  <1>0. IsHost(h)
    BY DEF Sound
  <1>1. CASE ~IsAwaited(h, r)
    BY <1>1 DEF CompleteProgram
  <1>2. CASE IsAwaited(h, r) /\ r.id.source \in Broken
    BY <1>0, <1>2, RejectFits DEF CompleteProgram
  <1>3. CASE IsAwaited(h, r) /\ r.id.source \notin Broken /\ r.session \in Archives
    <2>1. Sound(h, d, c, {r}) /\ IsCurrent(h, r)
      BY <1>3, ExemptMore DEF IsAwaited
    <2>2. Fits(EnqueueStore(h, r))
      BY <2>1, EnqueueStoreFits
    <2> QED BY <1>3, <2>2 DEF CompleteProgram
  <1>4. CASE IsAwaited(h, r) /\ r.id.source \notin Broken /\ r.session \notin Archives
    <2>1. Keeps(h, g, d, c, {r}) /\ IsCurrent(g, r)
      BY <1>4, ActivateKeeps
    <2>2. Fits(g)
      BY <1>0, ActivateFits
    <2>3. Fits(EnqueueStore(g, r))
      BY <2>1, <2>2, EnqueueStoreFits DEF Keeps
    <2>4. CompleteProgram(h, r) \in {g, EnqueueStore(g, r)}
      BY <1>4 DEF CompleteProgram
    <2> QED BY <2>2, <2>3, <2>4
  <1> QED BY <1>1, <1>2, <1>3, <1>4

-----------------------------------------------------------------------------
(* Completed stores keep the lane within its limits *)

Settled(l) == [l EXCEPT !.awaiting = None, !.ticket = 0, !.bytes = @ - Size(l.awaiting)]

\* poll_durability: the owned store leaves the lane with its bytes.
LEMMA StoreSettled ==
  ASSUME NEW l, LaneFits(l), LaneIsSound(l), NEW r \in Request, r = l.awaiting
  PROVE  LaneFits(Settled(l))
PROOF
  <1> DEFINE m == Settled(l)
             n == Size(r)
  <1>0. l \in LaneType /\ r # None /\ n \in Nat /\ SizeOrZero(r) = n
    BY RequestFields DEF LaneFits
  <1>1. /\ DOMAIN l = {"pending", "flight", "ready", "awaiting", "ticket", "bytes"}
        /\ l.pending \in [Sessions -> Entry] /\ l.bytes \in Int
    BY <1>0, LaneFields
  <1>2. l.flight = None /\ l.ready = None
    BY <1>0 DEF LaneIsSound
  <1>3. /\ DOMAIN m = DOMAIN l /\ m = [f \in DOMAIN m |-> m[f]]
        /\ m.pending = l.pending /\ m.flight = None /\ m.ready = None /\ m.awaiting = None
        /\ m.ticket = 0 /\ m.bytes = l.bytes - n
    BY <1>1, <1>2 DEF Settled
  <1> HIDE DEF m, n
  <1>4. m \in LaneType
    BY <1>0, <1>1, <1>3 DEF LaneType
  <1>5. UnderWay(m) = UnderWay(l) - n
    <2>1. UnderWay(l) = 0 + 0 + n /\ UnderWay(m) = 0 + 0 + 0
      BY <1>0, <1>2, <1>3, SizeOrZeroType DEF UnderWay
    <2> QED BY <1>0, <2>1
  <1>6. LaneFits(m)
    BY <1>0, <1>3, <1>4, <1>5, UnderWayMoves
  <1> QED BY <1>6 DEF m

\* poll_durability.
LEMMA PollDurabilityFits ==
  ASSUME NEW h, IsHost(h), LaneIsSound(h.lane), Fits(h)
  PROVE  Fits(PollDurability(h))
PROOF
  <1> DEFINE r == h.lane.awaiting
             g == [h EXCEPT !.lane = Settled(h.lane)]
  <1>1. CASE r = None
    BY <1>1 DEF PollDurability
  <1>2. CASE r # None
    <2>1. r \in Request
      BY <1>2 DEF LaneIsSound
    <2>2. PollDurability(h) \in {h, g, Activate(g, r)}
      BY DEF PollDurability, Settled
    <2>3. LaneFits(Settled(h.lane))
      BY <2>1, StoreSettled DEF Fits
    <2>4. IsHost(g) /\ Fits(g)
      BY <2>3, SetLaneFits
    <2> HIDE DEF g
    <2>5. Fits(Activate(g, r))
      BY <2>1, <2>4, ActivateFits
    <2> QED BY <2>2, <2>4, <2>5
  <1> QED BY <1>1, <1>2

Dropped(l) == [l EXCEPT !.ready = None, !.bytes = @ - Size(l.ready)]
Promoted(l, n) == [l EXCEPT !.ready = None, !.awaiting = l.ready, !.ticket = n]

\* drive_authority: the stored artifact leaves the lane with its bytes, or waits
\* for its owner to be durable.
LEMMA StoreReady ==
  ASSUME NEW l, LaneFits(l), LaneIsSound(l), NEW r \in Request, r = l.ready, NEW k \in Nat
  PROVE  LaneFits(Dropped(l)) /\ LaneFits(Promoted(l, k))
PROOF
  <1> DEFINE n == Size(r)
  <1>0. l \in LaneType /\ r # None /\ n \in Nat /\ SizeOrZero(r) = n
    BY RequestFields DEF LaneFits
  <1>1. /\ DOMAIN l = {"pending", "flight", "ready", "awaiting", "ticket", "bytes"}
        /\ l.pending \in [Sessions -> Entry] /\ l.bytes \in Int /\ l.ticket \in Nat
    BY <1>0, LaneFields
  <1>2. l.flight = None /\ l.awaiting = None
    BY <1>0 DEF LaneIsSound
  <1>3. UnderWay(l) = 0 + n + 0
    BY <1>0, <1>2, SizeOrZeroType DEF UnderWay
  <1>4. LaneFits(Dropped(l))
    <2> DEFINE m == Dropped(l)
    <2>1. /\ DOMAIN m = DOMAIN l /\ m = [f \in DOMAIN m |-> m[f]]
          /\ m.pending = l.pending /\ m.flight = None /\ m.ready = None /\ m.awaiting = None
          /\ m.ticket = l.ticket /\ m.bytes = l.bytes - n
      BY <1>1, <1>2 DEF Dropped
    <2> HIDE DEF m, n
    <2>2. m \in LaneType
      BY <1>0, <1>1, <2>1 DEF LaneType
    <2>3. UnderWay(m) = UnderWay(l) - n
      <3>1. UnderWay(m) = 0 + 0 + 0
        BY <2>1, SizeOrZeroType DEF UnderWay
      <3> QED BY <1>0, <1>3, <3>1
    <2>4. LaneFits(m)
      BY <1>0, <2>1, <2>2, <2>3, UnderWayMoves
    <2> QED BY <2>4 DEF m
  <1>5. LaneFits(Promoted(l, k))
    <2> DEFINE m == Promoted(l, k)
               z == 0
    <2>1. /\ DOMAIN m = DOMAIN l /\ m = [f \in DOMAIN m |-> m[f]]
          /\ m.pending = l.pending /\ m.flight = None /\ m.ready = None /\ m.awaiting = r
          /\ m.ticket = k /\ m.bytes = l.bytes
      BY <1>1, <1>2 DEF Promoted
    <2> HIDE DEF m, n
    <2>2. m \in LaneType
      BY <1>0, <1>1, <2>1 DEF LaneType
    <2>3. UnderWay(m) = UnderWay(l) - z /\ m.bytes = l.bytes - z /\ z \in Nat
      <3>1. UnderWay(m) = 0 + 0 + n
        BY <1>0, <2>1, SizeOrZeroType DEF UnderWay
      <3> QED BY <1>0, <1>1, <1>3, <2>1, <3>1
    <2> HIDE DEF z
    <2>4. LaneFits(m)
      BY <2>1, <2>2, <2>3, UnderWayMoves
    <2> QED BY <2>4 DEF m
  <1> QED BY <1>4, <1>5

\* drive_authority.
LEMMA DriveAuthorityFits ==
  ASSUME NEW h, IsHost(h), LaneIsSound(h.lane), Fits(h), NEW refused \in BOOLEAN
  PROVE  Fits(DriveAuthority(h, refused))
PROOF
  <1> DEFINE r == h.lane.ready
             k == h.link.sent + 1
             f == Sent(h, r)
             g1 == [h EXCEPT !.lane = Dropped(h.lane)]
             g2 == [f EXCEPT !.lane = Promoted(h.lane, k)]
  <1>1. CASE r = None
    BY <1>1 DEF DriveAuthority
  <1>2. CASE r # None
    <2>1. r \in Request /\ k \in Nat
      BY <1>2 DEF LaneIsSound, IsHost
    <2>2. DriveAuthority(h, refused) \in {h, g1, FailStore(g1, r), g2}
      BY DEF DriveAuthority, Dropped, Promoted
    <2>3. LaneFits(Dropped(h.lane)) /\ LaneFits(Promoted(h.lane, k))
      BY <2>1, StoreReady DEF Fits
    <2>4. IsHost(g1) /\ Fits(g1)
      BY <2>3, SetLaneFits
    <2>5. IsHost(f) /\ Fits(f)
      BY <2>1, SentFields, SentFits
    <2> HIDE DEF f, k
    <2>6. Fits(g2)
      BY <2>3, <2>5, SetLaneFits
    <2>7. Fits(FailStore(g1, r))
      <3> HIDE DEF g1, r
      <3> QED BY <2>1, <2>4, FailStoreFits
    <2> QED BY <2>2, <2>4, <2>6, <2>7
  <1> QED BY <1>1, <1>2

\* poll takes a completed store: stored, it is ready for its owner; failed, it
\* leaves the lane with its bytes.
LEMMA StoreCompleted ==
  ASSUME NEW l, LaneFits(l), LaneIsSound(l), NEW r \in Request, r = l.flight, NEW m,
         m.pending = l.pending, m.flight = None, m.awaiting = l.awaiting,
         m.ticket = l.ticket, DOMAIN m = DOMAIN l, m = [f \in DOMAIN m |-> m[f]],
         \/ m.ready = r /\ m.bytes = l.bytes
         \/ m.ready = l.ready /\ m.bytes = l.bytes - Size(r)
  PROVE  LaneFits(m)
PROOF
  <1> DEFINE n == IF m.ready = r THEN 0 ELSE Size(r)
  <1>0. l \in LaneType /\ r # None /\ Size(r) \in Nat /\ SizeOrZero(r) = Size(r)
    BY RequestFields DEF LaneFits
  <1>1. /\ DOMAIN l = {"pending", "flight", "ready", "awaiting", "ticket", "bytes"}
        /\ l.pending \in [Sessions -> Entry] /\ l.bytes \in Int /\ l.ticket \in Nat
    BY <1>0, LaneFields
  <1>2. l.ready = None /\ l.awaiting = None
    BY <1>0 DEF LaneIsSound
  <1>3. n \in Nat /\ m.bytes = l.bytes - n
    BY <1>0, <1>1, <1>2
  <1>4. m \in LaneType
    BY <1>0, <1>1, <1>2, <1>3 DEF LaneType
  <1>5. UnderWay(m) = UnderWay(l) - n
    <2>1. UnderWay(l) = Size(r) + 0 + 0
      BY <1>0, <1>2, SizeOrZeroType DEF UnderWay
    <2>2. UnderWay(m) = 0 + SizeOrZero(m.ready) + 0
      BY <1>2, SizeOrZeroType DEF UnderWay
    <2>3. SizeOrZero(m.ready) = IF m.ready = r THEN Size(r) ELSE 0
      BY <1>0, <1>2, SizeOrZeroType
    <2> QED BY <1>0, <2>1, <2>2, <2>3
  <1> HIDE DEF n
  <1> QED BY <1>0, <1>2, <1>3, <1>4, <1>5, UnderWayMoves

\* poll's own loop over the completed stores.
LEMMA TakeCompletionFits ==
  ASSUME NEW h, NEW c, IsHost(h), LaneIsSound(h.lane), ChannelIsSound(h, c), Fits(h)
  PROVE  Fits(TakeCompletion(h))
PROOF
  <1> DEFINE l == h.lane
             r == l.flight
             taken == [h EXCEPT !.lane.flight = None, !.link.completion = "none"]
             stored == [taken EXCEPT !.lane.ready = r]
             failed == [taken EXCEPT !.lane.bytes = @ - Size(r)]
  <1>1. CASE h.link.completion = "none"
    BY <1>1 DEF TakeCompletion
  <1>2. CASE h.link.completion # "none"
    <2>1. r \in Request
      BY <1>2 DEF ChannelIsSound, LaneIsSound
    <2>2. TakeCompletion(h) \in {h, stored, FailStore(failed, r)}
      BY DEF TakeCompletion
    <2>3. /\ DOMAIN taken = DOMAIN h /\ taken.program = h.program /\ taken.ended = h.ended
          /\ taken.compiler = h.compiler /\ taken.unsaved = h.unsaved
          /\ taken.lane = [l EXCEPT !.flight = None]
          /\ taken.link = [h.link EXCEPT !.completion = "none"]
      BY DEF IsHost
    <2> HIDE DEF taken
    <2>4. taken.link \in LinkType
      BY <2>3 DEF Fits, LinkType
    <2>5. /\ DOMAIN taken.lane = DOMAIN l /\ taken.lane.pending = l.pending
          /\ taken.lane.flight = None /\ taken.lane.ready = l.ready
          /\ taken.lane.awaiting = l.awaiting /\ taken.lane.ticket = l.ticket
          /\ taken.lane.bytes = l.bytes
      BY <2>3 DEF IsHost
    <2>6. Fits(stored)
      <3>1. /\ stored.ended = taken.ended
            /\ stored.compiler = taken.compiler /\ stored.unsaved = taken.unsaved
            /\ stored.link = taken.link /\ stored.lane = [taken.lane EXCEPT !.ready = r]
        BY <2>3 DEF IsHost
      <3> DEFINE m == stored.lane
      <3>2. /\ DOMAIN m = DOMAIN l /\ m = [f \in DOMAIN m |-> m[f]]
            /\ m.pending = l.pending /\ m.flight = None /\ m.ready = r
            /\ m.awaiting = l.awaiting /\ m.ticket = l.ticket /\ m.bytes = l.bytes
        BY <2>5, <3>1 DEF IsHost
      <3> HIDE DEF m, stored
      <3>3. LaneFits(m)
        BY <2>1, <3>2, StoreCompleted DEF Fits
      <3> QED BY <2>3, <2>4, <3>1, <3>3 DEF Fits, m
    <2>7. IsHost(failed) /\ Fits(failed)
      <3> DEFINE b == l.bytes - Size(r)
      <3>1. /\ failed.ended = taken.ended /\ DOMAIN failed = DOMAIN h
            /\ failed.compiler = taken.compiler /\ failed.unsaved = taken.unsaved
            /\ failed.link = taken.link /\ failed.lane = [taken.lane EXCEPT !.bytes = b]
        BY <2>3, <2>5 DEF IsHost
      <3> HIDE DEF b
      <3> DEFINE m == failed.lane
      <3>2. /\ DOMAIN m = DOMAIN l /\ m = [f \in DOMAIN m |-> m[f]]
            /\ m.pending = l.pending /\ m.flight = None /\ m.ready = l.ready
            /\ m.awaiting = l.awaiting /\ m.ticket = l.ticket /\ m.bytes = b
        BY <2>5, <3>1 DEF IsHost
      <3> HIDE DEF m, failed
      <3>3. LaneFits(m)
        BY <2>1, <3>2, StoreCompleted DEF Fits, b
      <3>4. Fits(failed)
        BY <2>3, <2>4, <3>1, <3>3 DEF Fits, m
      <3>5. IsHost(failed)
        BY <2>3, <2>4, <3>1, <3>2 DEF IsHost, LinkType, m
      <3> QED BY <3>4, <3>5
    <2> HIDE DEF stored, failed
    <2>8. Fits(FailStore(failed, r))
      BY <2>1, <2>7, FailStoreFits
    <2> QED BY <2>2, <2>6, <2>8
  <1> QED BY <1>1, <1>2

\* reject_program_request.
LEMMA RejectRequestFits ==
  ASSUME NEW h, IsHost(h), Fits(h), NEW s, NEW n
  PROVE  Fits(RejectRequest(h, s, n))
PROOF
  <1> DEFINE g == SetProgram(h, s, [h.program[s] EXCEPT !.diagnostic = n, !.request = None,
                                                        !.inFlight = FALSE])
  <1>1. RejectRequest(h, s, n) \in {g, Dispatch(g)}
    BY DEF RejectRequest, SetProgram
  <1>2. IsHost(g) /\ Fits(g)
    BY SetProgramFits
  <1> HIDE DEF g
  <1> QED BY <1>1, <1>2, DispatchFits

\* schedule_requests.
LEMMA ScheduleFits ==
  ASSUME NEW h, IsHost(h), Fits(h), NEW s \in Sessions, NEW id \in Identity
  PROVE  Fits(Schedule(h, s, id))
PROOF
  <1> DEFINE p == IF h.program[s] = None THEN NewProgram ELSE h.program[s]
             found == SetProgram(h, s, p)
             current == SetProgram(h, s, [p EXCEPT !.current = id])
             settled == [current.program[s] EXCEPT !.diagnostic = NoDiagnostic, !.inFlight = FALSE]
             asked == [current.program[s] EXCEPT !.requested = id.revision, !.request = id,
                                                 !.inFlight = TRUE, !.diagnostic = NoDiagnostic]
             sent == [current EXCEPT !.program[s] = asked, !.compiler.pending[s] = id]
  <1>1. \/ Schedule(h, s, id) = RejectRequest(found, s, <<id.revision, p.current.revision>>)
        \/ Schedule(h, s, id) = SetProgram(current, s, settled)
        \/ Schedule(h, s, id) = current
        \/ Schedule(h, s, id) = RejectRequest(current, s, <<id.revision, p.requested>>)
        \/ Schedule(h, s, id) = sent
    BY DEF Schedule, SetProgram
  <1>2. IsHost(found) /\ Fits(found) /\ IsHost(current) /\ Fits(current)
    BY SetProgramFits
  <1> HIDE DEF p, found, current, settled, asked
  <1>3. Fits(SetProgram(current, s, settled))
    BY <1>2, SetProgramFits
  <1>4. Fits(sent)
    <2>1. /\ sent.lane = current.lane /\ sent.link = current.link
          /\ sent.ended = current.ended /\ sent.unsaved = current.unsaved
          /\ sent.compiler = [current.compiler EXCEPT !.pending[s] = id]
      BY <1>2 DEF IsHost
    <2> HIDE DEF sent
    <2>2. sent.compiler \in CompilerType
      <3>1. current.compiler \in CompilerType
        BY <1>2 DEF Fits
      <3>2. [current.compiler.pending EXCEPT ![s] = id] \in [Sessions -> Identity \cup {None}]
        BY <3>1 DEF CompilerType
      <3>3. sent.compiler = [current.compiler EXCEPT !.pending =
                               [current.compiler.pending EXCEPT ![s] = id]]
        BY <2>1, <3>1 DEF CompilerType
      <3> QED BY <3>1, <3>2, <3>3 DEF CompilerType
    <2> QED BY <1>2, <2>1, <2>2 DEF Fits
  <1>5. ASSUME NEW n PROVE Fits(RejectRequest(found, s, n)) /\ Fits(RejectRequest(current, s, n))
    BY <1>2, RejectRequestFits
  <1> HIDE DEF sent
  <1> QED BY <1>1, <1>2, <1>3, <1>4, <1>5

-----------------------------------------------------------------------------
(* The actions keep the lane within its limits *)

\* The inductive invariant that the lane's limits need: on top of
\* ArtifactsInvariant, the lane fits, and only artifacts are stored.
LimitsInvariant ==
  ArtifactsInvariant /\ Fits(HostState) /\ disk.stored \subseteq Contents

\* What a handler of the host computes is the next state.
LEMMA HostFits ==
  ASSUME NEW h, Fits(h), HostBecomes(h)
  PROVE  Fits(HostState')
PROOF
  BY HostFieldsNext DEF HostBecomes, Fits

\* A turn of the parent changes a descriptor.
LEMMA EditFits ==
  ASSUME LimitsInvariant, NEW s \in Sessions, NEW id \in Descriptors[s], Edit(s, id)
  PROVE  Fits(HostState') /\ disk'.stored \subseteq Contents
PROOF
  <1> DEFINE h == HostState
             f == Sent(h, None)
             g == Schedule(f, s, id)
  <1>1. IsHost(h) /\ Fits(h) /\ disk.stored \subseteq Contents
    BY DEF LimitsInvariant, ArtifactsInvariant, Sound
  <1>2. HostBecomes(g) /\ UNCHANGED disk
    BY DEF Edit
  <1>3. id \in Identity
    BY ConstantsAssumption DEF Identity
  <1> HIDE DEF h
  <1>4. IsHost(f) /\ Fits(f)
    BY <1>1, SentFields, SentFits
  <1> HIDE DEF f
  <1>5. Fits(g)
    BY <1>3, <1>4, ScheduleFits
  <1> HIDE DEF g
  <1> QED BY <1>1, <1>2, <1>5, HostFits

\* A turn of the parent removes a program.
LEMMA RemoveFits ==
  ASSUME LimitsInvariant, NEW s \in Sessions, Remove(s)
  PROVE  Fits(HostState') /\ disk'.stored \subseteq Contents
PROOF
  <1> DEFINE h == HostState
             f == Sent(h, None)
             g == SetProgram(f, s, None)
  <1>1. IsHost(h) /\ Fits(h) /\ disk.stored \subseteq Contents
    BY DEF LimitsInvariant, ArtifactsInvariant, Sound
  <1>2. HostBecomes(g) /\ UNCHANGED disk
    BY DEF Remove, SetProgram
  <1> HIDE DEF h
  <1>4. IsHost(f) /\ Fits(f)
    BY <1>1, SentFields, SentFits
  <1> HIDE DEF f
  <1>5. Fits(g)
    BY <1>4, SetProgramFits
  <1> HIDE DEF g
  <1> QED BY <1>1, <1>2, <1>5, HostFits

\* The host takes the outcome of a compilation.
LEMMA TakeOutcomeFits ==
  ASSUME LimitsInvariant, TakeOutcome
  PROVE  Fits(HostState') /\ disk'.stored \subseteq Contents
PROOF
  <1> DEFINE h == HostState
             c == spent.compactions
             f == [h EXCEPT !.compiler.outcomes = Tail(@)]
             r == Head(compiler.outcomes)
             g == CompleteProgram(f, r)
  <1>0. /\ Sound(h, disk, c, {}) /\ c \in Nat /\ IsHost(h) /\ Fits(h)
        /\ disk.stored \subseteq Contents
    BY DEF LimitsInvariant, ArtifactsInvariant, Counters, Sound
  <1>1. ~h.link.waiting /\ HostBecomes(g) /\ UNCHANGED disk
        /\ compiler.outcomes # <<>> /\ h.compiler = compiler
    BY HostFields DEF TakeOutcome, HostRuns
  <1>2. compiler.outcomes \in Seq(Request)
    BY <1>0, <1>1 DEF IsHost
  <1>3. r \in Request /\ Tail(compiler.outcomes) \in Seq(Request)
    BY <1>1, <1>2
  <1> HIDE DEF c, h
  <1>4. /\ f.program = h.program /\ f.lane = h.lane /\ f.link = h.link /\ f.unsaved = h.unsaved
        /\ f.ended = h.ended /\ DOMAIN f = DOMAIN h
        /\ f.compiler = [h.compiler EXCEPT !.outcomes = Tail(@)]
    BY <1>0 DEF IsHost
  <1>5. f.compiler \in CompilerType
    <2>1. h.compiler \in CompilerType
      BY <1>0 DEF Fits
    <2> HIDE DEF f
    <2> QED BY <1>1, <1>3, <1>4, <2>1 DEF CompilerType
  <1> HIDE DEF f
  <1>6. IsHost(f)
    <2>1. /\ DOMAIN f.compiler = {"pending", "outcomes"}
          /\ f.compiler.pending \in [Sessions -> Identity \cup {None}]
          /\ f.compiler.outcomes \in Seq(Request)
      BY <1>5 DEF CompilerType
    <2> QED BY <1>0, <1>4, <2>1 DEF IsHost
  <1>7. Sound(f, disk, c, {}) /\ ~f.link.waiting
    BY <1>0, <1>1, <1>4, <1>6, SameFields
  <1>8. Fits(f)
    BY <1>0, <1>4, <1>5 DEF Fits
  <1>9. Fits(g)
    BY <1>0, <1>3, <1>7, <1>8, CompleteProgramFits
  <1> HIDE DEF g
  <1> QED BY <1>0, <1>1, <1>9, HostFits

\* The host polls the lane.
LEMMA PollFits ==
  ASSUME LimitsInvariant, NEW refused \in BOOLEAN, Poll(refused)
  PROVE  Fits(HostState') /\ disk'.stored \subseteq Contents
PROOF
  <1> DEFINE h == HostState
             c == spent.compactions
             h1 == PollDurability(h)
             h2 == DriveAuthority(h1, refused)
             h3 == TakeCompletion(h2)
             h4 == DriveAuthority(h3, refused)
             h5 == PollDurability(h4)
             h6 == DriveStore(h5)
             Good(k) == Sound(k, disk, c, {}) /\ ~k.link.waiting /\ Fits(k)
             Parts(k) == IsHost(k) /\ LaneIsSound(k.lane) /\ ChannelIsSound(k, c)
  <1>0. Good(h) /\ c \in Nat /\ disk.stored \subseteq Contents
    BY HostFields DEF LimitsInvariant, ArtifactsInvariant, Counters, Poll, HostRuns
  <1>1. HostBecomes(h6) /\ UNCHANGED disk
    BY DEF Poll
  <1>2. ASSUME NEW k, Good(k) PROVE Parts(k)
    BY <1>2 DEF Sound
  <1> HIDE DEF c, h, Parts
  <1>3. Good(h1)
    BY <1>0, <1>2, PollDurabilityKeeps, PollDurabilityFits DEF Keeps, Parts
  <1> HIDE DEF h1
  <1>4. Good(h2)
    BY <1>0, <1>2, <1>3, DriveAuthorityKeeps, DriveAuthorityFits DEF Keeps, Parts
  <1> HIDE DEF h2
  <1>5. Good(h3)
    BY <1>0, <1>2, <1>4, TakeCompletionKeeps, TakeCompletionFits DEF Keeps, Parts
  <1> HIDE DEF h3
  <1>6. Good(h4)
    BY <1>0, <1>2, <1>5, DriveAuthorityKeeps, DriveAuthorityFits DEF Keeps, Parts
  <1> HIDE DEF h4
  <1>7. Good(h5)
    BY <1>0, <1>2, <1>6, PollDurabilityKeeps, PollDurabilityFits DEF Keeps, Parts
  <1> HIDE DEF h5
  <1>8. Fits(h6)
    BY <1>2, <1>7, DriveStoreFits DEF Parts
  <1> HIDE DEF h6
  <1> QED BY <1>0, <1>1, <1>8, HostFits

\* A quiet period ends: no request enters or leaves the lane.
LEMMA QuietEndsFits ==
  ASSUME LimitsInvariant, NEW s \in Sessions, QuietEnds(s)
  PROVE  Fits(HostState') /\ disk'.stored \subseteq Contents
PROOF
  <1>0. Fits(HostState) /\ disk.stored \subseteq Contents /\ LaneFits(lane) /\ lane \in LaneType
    BY HostFields DEF LimitsInvariant, Fits, LaneFits
  <1>1. /\ lane' = [lane EXCEPT !.pending[s].quiet = TRUE]
        /\ UNCHANGED <<program, link, compiler, ended, unsaved, disk, spent>>
    BY DEF QuietEnds
  <1> DEFINE m == lane'
             e == [lane.pending[s] EXCEPT !.quiet = TRUE]
             n == 0
  <1>2. /\ DOMAIN lane = {"pending", "flight", "ready", "awaiting", "ticket", "bytes"}
        /\ lane.pending \in [Sessions -> Entry] /\ lane.pending[s] \in Entry
        /\ lane.bytes \in Int /\ lane.ticket \in Nat
        /\ {lane.flight, lane.ready, lane.awaiting} \subseteq Request \cup {None}
    BY <1>0, LaneFields
  <1>3. e \in Entry /\ e.request = lane.pending[s].request
    BY <1>2 DEF Entry
  <1> HIDE DEF e
  <1>4. /\ DOMAIN m = DOMAIN lane /\ m = [f \in DOMAIN m |-> m[f]]
        /\ m.pending = [lane.pending EXCEPT ![s] = e] /\ m.flight = lane.flight
        /\ m.ready = lane.ready /\ m.awaiting = lane.awaiting /\ m.ticket = lane.ticket
        /\ m.bytes = lane.bytes
    BY <1>1, <1>2 DEF e
  <1> HIDE DEF m
  <1>5. m \in LaneType
    <2>1. m.pending \in [Sessions -> Entry]
      BY <1>2, <1>3, <1>4
    <2> QED BY <1>2, <1>4, <2>1 DEF LaneType
  <1>6. \A t \in Sessions : m.pending[t].request = lane.pending[t].request
    BY <1>2, <1>3, <1>4
  <1>7. Places(m, s) = Places(lane, s) - n /\ m.bytes = lane.bytes - n /\ n \in Nat
    <2>1. Places(m, s) = Places(lane, s)
      BY <1>4, <1>6 DEF Places, UnderWay
    <2>2. Places(lane, s) \in Int
      BY <1>0, LaneFields, SizeOrZeroType DEF Places, UnderWay
    <2> QED BY <1>2, <1>4, <2>1, <2>2
  <1>8. Holders(m) \subseteq Holders(lane)
    BY <1>4, <1>6 DEF Holders
  <1> HIDE DEF n
  <1>9. LaneFits(m)
    BY <1>0, <1>5, <1>6, <1>7, <1>8, StoreMoved
  <1> QED BY <1>0, <1>1, <1>9, HostFields, HostFieldsNext DEF Fits, m

\* The host asks for a compaction and waits.
LEMMA CompactFits ==
  ASSUME LimitsInvariant, Compact
  PROVE  Fits(HostState') /\ disk'.stored \subseteq Contents
PROOF
  <1>0. Fits(HostState) /\ disk.stored \subseteq Contents /\ link \in LinkType
    BY HostFields DEF LimitsInvariant, Fits
  <1> DEFINE q == Append(link.channel, Msg("compact", None))
  <1>1. /\ link' = [link EXCEPT !.waiting = TRUE, !.channel = q]
        /\ UNCHANGED <<program, lane, compiler, ended, unsaved, disk>>
    BY DEF Compact
  <1>2. q \in Seq(Message)
    <2>1. Msg("compact", None) \in Message /\ link.channel \in Seq(Message)
      BY <1>0 DEF Msg, Message, LinkType
    <2> QED BY <2>1, AppendFacts
  <1> HIDE DEF q
  <1>3. link' \in LinkType
    BY <1>0, <1>1, <1>2 DEF LinkType
  <1> QED BY <1>0, <1>1, <1>3, HostFields, HostFieldsNext DEF Fits

\* The compile worker takes a request.
LEMMA CompileFits ==
  ASSUME LimitsInvariant, NEW s \in Sessions, Compile(s)
  PROVE  Fits(HostState') /\ disk'.stored \subseteq Contents
PROOF
  <1>0. Fits(HostState) /\ disk.stored \subseteq Contents /\ compiler \in CompilerType
    BY HostFields DEF LimitsInvariant, Fits
  <1> DEFINE r == [session |-> s, id |-> compiler.pending[s]]
             q == Append(compiler.outcomes, r)
             p == [compiler.pending EXCEPT ![s] = None]
  <1>1. /\ compiler' = [pending |-> p, outcomes |-> q] /\ compiler.pending[s] # None
        /\ UNCHANGED <<program, lane, link, ended, unsaved, disk>>
    BY DEF Compile
  <1>2. q \in Seq(Request) /\ p \in [Sessions -> Identity \cup {None}]
    <2>1. r \in Request /\ compiler.outcomes \in Seq(Request)
      BY <1>0, <1>1 DEF Request, CompilerType
    <2>2. p \in [Sessions -> Identity \cup {None}]
      BY <1>0 DEF CompilerType
    <2> HIDE DEF r
    <2> QED BY <2>1, <2>2
  <1> HIDE DEF q, p
  <1>3. compiler' \in CompilerType
    BY <1>1, <1>2 DEF CompilerType
  <1> QED BY <1>0, <1>1, <1>3, HostFields, HostFieldsNext DEF Fits

\* The persistence worker changes the link and the database only.
LEMMA WorkerFits ==
  ASSUME LimitsInvariant, link' \in LinkType, disk'.stored \subseteq Contents,
         UNCHANGED <<program, lane, compiler, ended, unsaved>>
  PROVE  Fits(HostState') /\ disk'.stored \subseteq Contents
PROOF
  <1>1. Fits(HostState)
    BY DEF LimitsInvariant
  <1> QED BY <1>1, HostFields, HostFieldsNext DEF Fits

\* The facts the worker's steps start from.
LEMMA WorkerFacts ==
  ASSUME LimitsInvariant
  PROVE  /\ link \in LinkType /\ link.channel \in Seq(Message)
         /\ link.sent \in Nat /\ link.durable \in Nat
         /\ disk.stored \subseteq Contents
         /\ DOMAIN disk = {"stored", "manifest", "batch"}
         /\ disk.batch \in Seq(Message) /\ Len(disk.batch) \in Nat
PROOF
  <1>1. Fits(HostState) /\ DiskIsSound(disk) /\ IsHost(HostState)
    BY DEF LimitsInvariant, ArtifactsInvariant, Sound
  <1>2. disk.batch \in Seq(Message)
    BY <1>1 DEF DiskIsSound
  <1>3. Len(disk.batch) \in Nat
    BY <1>2
  <1> QED BY <1>1, <1>2, <1>3, HostFields DEF LimitsInvariant, Fits, DiskIsSound, IsHost

\* The worker collects turns, and commits them or not.
LEMMA TurnsFit ==
  ASSUME LimitsInvariant, NEW n, NEW fail \in BOOLEAN, WorkerTurns(n, fail)
  PROVE  Fits(HostState') /\ disk'.stored \subseteq Contents
PROOF
  <1> DEFINE b == disk.batch \o SubSeq(link.channel, 1, n)
             q == SubSeq(link.channel, n + 1, Len(link.channel))
  <1>1. /\ n \in 1 .. Len(link.channel) /\ disk'.stored = disk.stored
        /\ UNCHANGED <<program, lane, compiler, ended, unsaved>>
    BY WorkerFacts DEF WorkerTurns
  <1>2. \/ link' = [link EXCEPT !.channel = q, !.durable = @ + Len(b)]
        \/ link' = [link EXCEPT !.channel = q]
    BY DEF WorkerTurns
  <1>3. q \in Seq(Message) /\ b \in Seq(Message)
    BY <1>1, WorkerFacts, SubSeqFacts
  <1>4. Len(b) \in Nat
    BY <1>3
  <1> HIDE DEF q, b
  <1>5. link' \in LinkType
    <2> DEFINE k == link.durable + Len(b)
    <2>1. k \in Nat
      BY <1>4, WorkerFacts
    <2>2. \/ link' = [link EXCEPT !.channel = q, !.durable = k]
          \/ link' = [link EXCEPT !.channel = q]
      BY <1>2
    <2> HIDE DEF k
    <2> QED BY <1>3, <2>1, <2>2, WorkerFacts DEF LinkType
  <1> QED BY <1>1, <1>5, WorkerFacts, WorkerFits

\* The worker puts an artifact.
LEMMA PutFits ==
  ASSUME LimitsInvariant, NEW fail \in BOOLEAN, WorkerPut(fail)
  PROVE  Fits(HostState') /\ disk'.stored \subseteq Contents
PROOF
  <1> DEFINE q == link.channel
             r == Head(q).request
             stored == disk.stored \cup {Content(r)}
             ok == ~fail /\ StorageIsValid(disk.manifest, stored)
  <1>1. /\ q # <<>> /\ Head(q).kind = "put"
        /\ disk' = [disk EXCEPT !.stored = IF ok THEN stored ELSE @]
        /\ link' = [link EXCEPT !.channel = Tail(@), !.completion = IF ok THEN "ok" ELSE "err"]
        /\ UNCHANGED <<program, lane, compiler, ended, unsaved>>
    BY DEF WorkerPut
  <1>2. Tail(q) \in Seq(Message) /\ 1 \in DOMAIN q /\ Head(q) = q[1] /\ q[1] \in Message
    BY <1>1, WorkerFacts, TailFacts
  <1>3. r \in Request
    <2>1. ChannelIsSound(HostState, spent.compactions)
      BY DEF LimitsInvariant, ArtifactsInvariant, Sound
    <2>2. r # None
      BY <1>1, <1>2, <2>1, HostFields DEF ChannelIsSound
    <2> QED BY <1>2, <2>2 DEF Message
  <1>4. stored \subseteq Contents
    BY <1>3, WorkerFacts DEF Content, Contents, Request, Identity
  <1> DEFINE x == IF ok THEN "ok" ELSE "err"
             t == Tail(q)
  <1>5. x \in {"none", "ok", "err"} /\ link' = [link EXCEPT !.channel = t, !.completion = x]
    BY <1>1
  <1> HIDE DEF x, ok, stored, t, r
  <1>6. link' \in LinkType
    BY <1>2, <1>5, WorkerFacts DEF LinkType, t
  <1>7. disk'.stored \subseteq Contents
    BY <1>1, <1>4, WorkerFacts
  <1> QED BY <1>1, <1>6, <1>7, WorkerFits

\* The worker compacts.
LEMMA WorkerCompactFits ==
  ASSUME LimitsInvariant, NEW fail \in {"nothing", "flush", "compact"}, WorkerCompact(fail)
  PROVE  Fits(HostState') /\ disk'.stored \subseteq Contents
PROOF
  <1> DEFINE flushed == fail # "flush" /\ Committable(disk.batch)
             n == IF flushed THEN link.durable + Len(disk.batch) ELSE link.durable
             t == Tail(link.channel)
  <1>1. /\ link.channel # <<>>
        /\ link' = [link EXCEPT !.channel = t, !.waiting = FALSE, !.durable = n]
        /\ disk'.stored \subseteq disk.stored
        /\ UNCHANGED <<program, lane, compiler, ended, unsaved>>
    BY DEF WorkerCompact
  <1>2. t \in Seq(Message)
    BY <1>1, WorkerFacts, TailFacts
  <1>3. n \in Nat
    BY WorkerFacts
  <1> HIDE DEF n, t
  <1>4. link' \in LinkType
    BY <1>1, <1>2, <1>3, WorkerFacts DEF LinkType
  <1> QED BY <1>1, <1>4, WorkerFacts, WorkerFits

\* The lane is empty at first.
LEMMA InitFits ==
  Init => LimitsInvariant
PROOF
  <1> SUFFICES ASSUME Init PROVE LimitsInvariant
    OBVIOUS
  <1>1. ArtifactsInvariant
    BY InitSound
  <1>2. /\ lane = [pending |-> [s \in Sessions |-> NoStore], flight |-> None, ready |-> None,
                   awaiting |-> None, ticket |-> 0, bytes |-> 0]
        /\ link = [channel |-> <<>>, sent |-> 0, durable |-> 0, completion |-> "none",
                   waiting |-> FALSE]
        /\ compiler = [pending |-> Mounted, outcomes |-> <<>>]
        /\ ended = FALSE /\ unsaved = {} /\ disk.stored = {}
    BY DEF Init
  <1>3. lane \in LaneType
    <2>1. [s \in Sessions |-> NoStore] \in [Sessions -> Entry]
      BY NoStoreFields
    <2> QED BY <1>2, <2>1 DEF LaneType
  <1>4. Queued(lane) = {} /\ Holders(lane) = {}
    BY <1>2, NoStoreFields DEF Queued, Holders
  <1>5. lane.bytes = UnderWay(lane) + PendingBytes(lane)
    <2>1. UnderWay(lane) = 0 + 0 + 0
      BY <1>2, SizeOrZeroType DEF UnderWay
    <2>2. PendingBytes(lane) = 0
      BY <1>4, SumEmpty DEF PendingBytes
    <2>3. lane.bytes = 0
      BY <1>2
    <2> QED BY <2>1, <2>2, <2>3
  <1>6. HoldersFit(lane) /\ IsFiniteSet(Queued(lane)) /\ lane.bytes <= MaxStoreBytes
    <2>1. /\ IsFiniteSet(Holders(lane)) /\ Cardinality(Holders(lane)) = 0
          /\ IsFiniteSet(Queued(lane))
      BY <1>4, FS_EmptySet
    <2>2. lane.bytes = 0 /\ 0 <= MaxStoreBytes /\ 0 <= MaxStoreSessions
      BY <1>2, ConstantsAssumption
    <2> QED BY <2>1, <2>2 DEF HoldersFit
  <1>7. LaneFits(lane)
    BY <1>3, <1>5, <1>6 DEF LaneFits
  <1>8. link \in LinkType /\ compiler \in CompilerType
    <2>1. Mounted \in [Sessions -> Identity \cup {None}]
      BY ConstantsAssumption DEF Identity
    <2> QED BY <1>2, <2>1 DEF LinkType, CompilerType
  <1> QED BY <1>1, <1>2, <1>7, <1>8, HostFields DEF LimitsInvariant, Fits

\* Every step keeps the lane within its limits.
LEMMA NextFits ==
  LimitsInvariant /\ [Next]_vars => LimitsInvariant'
PROOF
  <1> SUFFICES ASSUME LimitsInvariant, [Next]_vars PROVE LimitsInvariant'
    OBVIOUS
  <1> DEFINE Good == Fits(HostState') /\ disk'.stored \subseteq Contents
  <1>1. ArtifactsInvariant'
    BY NextSound DEF LimitsInvariant
  <1>2. ASSUME NEW s \in Sessions, NEW id \in Descriptors[s], Edit(s, id) PROVE Good
    BY <1>2, EditFits
  <1>3. ASSUME NEW s \in Sessions, Remove(s) \/ QuietEnds(s) \/ Compile(s) PROVE Good
    BY <1>3, RemoveFits, QuietEndsFits, CompileFits
  <1>4. ASSUME TakeOutcome \/ Compact PROVE Good
    BY <1>4, TakeOutcomeFits, CompactFits
  <1>5. ASSUME Worker PROVE Good
    <2>1. ASSUME NEW n, NEW fail \in BOOLEAN, WorkerTurns(n, fail) PROVE Good
      BY <2>1, TurnsFit
    <2>2. ASSUME NEW fail \in BOOLEAN, WorkerPut(fail) PROVE Good
      BY <2>2, PutFits
    <2>3. ASSUME NEW fail \in {"nothing", "flush", "compact"}, WorkerCompact(fail) PROVE Good
      BY <2>3, WorkerCompactFits
    <2> QED BY <1>5, <2>1, <2>2, <2>3 DEF Worker
  <1>6. ASSUME UNCHANGED vars PROVE Good
    <2>1. HostState' = HostState /\ disk' = disk
      BY <1>6 DEF vars, HostState
    <2> QED BY <2>1 DEF LimitsInvariant
  <1>7. ASSUME NEW refused \in BOOLEAN, Poll(refused) PROVE Good
    BY <1>7, PollFits
  <1>8. Good
    BY <1>2, <1>3, <1>4, <1>5, <1>6, <1>7 DEF Next, LimitsInvariant
  <1> QED BY <1>1, <1>8 DEF LimitsInvariant

\* What the inductive invariant says of the lane's limits.
LEMMA LimitsHold ==
  LimitsInvariant => LaneInvariant
PROOF
  <1> SUFFICES ASSUME LimitsInvariant PROVE LaneInvariant
    OBVIOUS
  <1> DEFINE h == HostState
  <1>1. /\ IsHost(h) /\ ProgramsRise(program) /\ LaneIsSound(lane) /\ DiskIsSound(disk)
        /\ spent \in Counters
    BY HostFields DEF LimitsInvariant, ArtifactsInvariant, Sound
  <1>2. /\ link \in LinkType /\ compiler \in CompilerType /\ ended \in BOOLEAN
        /\ unsaved \subseteq Request /\ LaneFits(lane) /\ disk.stored \subseteq Contents
    BY HostFields DEF LimitsInvariant, Fits
  <1>3. lane \in LaneType /\ lane.bytes = UnderWay(lane) + PendingBytes(lane)
        /\ lane.bytes <= MaxStoreBytes /\ Cardinality(Holders(lane)) <= MaxStoreSessions
    BY <1>2 DEF LaneFits, HoldersFit
  <1>4. DOMAIN disk.manifest \subseteq Owners /\ disk.batch \in Seq(Message)
    <2>1. \A r \in Request : Owner(r) \in Owners
      BY DEF Owner, Owners, Request
    <2> QED BY <1>1, <2>1 DEF DiskIsSound
  <1>5. TypeOK
    BY <1>1, <1>2, <1>3, <1>4
       DEF TypeOK, ProgramsRise, LaneType, LinkType, CompilerType, Counters
  <1>6. BytesBalance
    BY <1>3 DEF BytesBalance, UnderWay, PendingBytes, Sizes
  <1>7. Cardinality(StoreSessions(h)) <= MaxStoreSessions
    <2>1. StoreSessions(h) = Holders(lane)
      BY <1>1, <1>3, HostFields, StoreSessionsAreHolders
    <2> QED BY <1>3, <2>1
  <1> QED BY <1>3, <1>5, <1>6, <1>7 DEF LaneInvariant

\* The lane keeps to its limits of sessions and of bytes, and its counter is
\* exactly the bytes it holds, whatever is replaced, joined, dropped or fails:
\* no store is refused for bytes that nobody holds (enqueue_store, finish_store).
THEOREM LaneKeepsItsLimits ==
  Spec => []LaneInvariant
PROOF
  BY InitFits, NextFits, LimitsHold, PTL DEF Spec
=============================================================================
