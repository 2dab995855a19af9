-------------------------- MODULE SessionRegistry --------------------------
(***************************************************************************)
(* The Session registry of boon_server_runtime/src/distributed_sessions.rs *)
(* with what it moves messages between: each Session's runtime             *)
(* (boon_distributed_runtime: session.rs, endpoint.rs, message.rs) and the *)
(* Server authority (boon_server_runtime/src/router.rs).                   *)
(*                                                                         *)
(* The program is the one of tests/distributed_session_loopback.rs.  A     *)
(* press in the tab is an event of the Session, which counts it, sends it  *)
(* on to the Server and calls a Server function of the count; the Server   *)
(* counts the presses of all Sessions and publishes the total.  Three      *)
(* things are added so that every kind of message occurs: the function     *)
(* also reads the total, a second event of the tab drops or restores the   *)
(* Session's call, and a third makes the Session invoke the Server once.   *)
(*                                                                         *)
(* The registry is owned by one thread: a method is a step, and `Poll' is  *)
(* one round of the loop in poll().  The handshake that admits and resumes *)
(* a tab is SessionResume's, the frames between tab and Session are        *)
(* ClientSessionTransport's; here a tab is a source of frames in order and *)
(* of acknowledgements, and an operation for it occupies the Session's     *)
(* queue until it is acknowledged.                                         *)
(***************************************************************************)
EXTENDS Naturals, Sequences, SequencesExt, FiniteSetsExt

CONSTANTS
  MaxSessions,    \* max_sessions: the slots are 1 .. MaxSessions
  MaxMessages,    \* session_queue_limits.max_messages
  MaxBytes,       \* session_queue_limits.max_bytes
  MaxGlobalBytes, \* max_global_queued_bytes
  ClientRoom,     \* operations a Session keeps for its tab
  Responsive,     \* the slots whose tab acknowledges; the others have stalled
  MaxFrames,      \* bound: events the tabs send
  MaxDisconnects, \* bound: connections lost or revoked
  MaxResumes      \* bound: Sessions resumed

Slots == 1 .. MaxSessions

ASSUME ConstantsAssumption ==
  /\ {MaxSessions, MaxMessages, MaxBytes, MaxGlobalBytes, ClientRoom}
       \subseteq Nat \ {0}
  /\ {MaxFrames, MaxDisconnects, MaxResumes} \subseteq Nat
  /\ Responsive \subseteq Slots

VARIABLES
  slots,          \* the registry's SessionSlots
  sessions,       \* each slot's DistributedSessionRuntime
  origins,        \* the Server's OriginState of each slot's Session
  shared,         \* the Server's total, published to every Session
  globalBytes,    \* global_queued_bytes
  cursor,         \* round_robin_cursor, 0 for None
  poisoned,       \* the PoisonedDistributedSessions reported so far
  spent           \* how much of each bound is used

vars == <<slots, sessions, origins, shared, globalBytes, cursor, poisoned, spent>>

-----------------------------------------------------------------------------
(* Messages *)

Kinds == {"event", "request", "detach", "invoke", "shared", "result", "answer"}

\* A value is the tuple of the numbers it is computed from.
Message == [kind : Kinds, rev : Nat, result : Nat, value : Seq(Nat)]
Msg(kind, rev, result, value) ==
  [kind |-> kind, rev |-> rev, result |-> result, value |-> value]

\* A frame of the tab: an event, or an acknowledgement by itself.  `ack' is
\* how much further its ack_through is than that of the frame before.
Frame == [kind : {"press", "toggle", "ask", "ack"}, ack : Nat]

\* The messages of some kinds, in their order.
OfKinds(q, kinds) ==
  LET kept[n \in 0 .. Len(q)] ==
        IF n = 0 THEN << >>
        ELSE IF q[n].kind \in kinds THEN Append(kept[n - 1], q[n]) ELSE kept[n - 1]
  IN kept[Len(q)]

\* estimated_bytes: what carries a value is longer than what does not.
HasValue(kind) == kind \in {"shared", "request", "result", "answer"}
FrameBytes == 1
SumBytes(q) == Len(q) + Len(OfKinds(q, {k \in Kinds : HasValue(k)}))
Bytes(m) == SumBytes(<<m>>)

\* A faulty variant: every kind of message is latest-wins.
ReplacesSameKind(kind, queued) ==
  queued = kind \/ {kind, queued} \subseteq {"request", "detach"}

ReplacesPending(kind, queued) ==
  \/ kind \in {"shared", "result"} /\ queued = kind
  \/ {kind, queued} \subseteq {"request", "detach"}

\* A faulty variant: nothing crosses a disconnected interval.
IsNoSnapshot(kind) == FALSE

IsSessionResumeSnapshot(kind) == kind = "shared"
Snapshots(q) == OfKinds(q, {k \in Kinds : IsSessionResumeSnapshot(k)})

\* TypedMessageQueue::push of the messages in turn.
PushedAll(q, ms) ==
  OfKinds(q, {k \in Kinds : \A i \in DOMAIN ms : ~ReplacesPending(ms[i].kind, k)}) \o ms
Pushed(q, m) == PushedAll(q, <<m>>)
Fits(q) == Len(q) <= MaxMessages /\ SumBytes(q) <= MaxBytes

-----------------------------------------------------------------------------
(* State *)

SlotState == [state : {"free", "connected", "stale", "expired", "removing"},
              inbound : Seq(Frame),   \* inbound_frame_sizes and the frames
              pending : Seq(Message), \* pending_server_messages
              bytes : Nat,            \* pending_server_bytes
              lane : 0 .. 2]          \* next_lane
FreeSlot == [state |-> "free", inbound |-> << >>, pending |-> << >>,
             bytes |-> 0, lane |-> 0]

\* `demand' is the revision the call was last sent with, `got' the result
\* revision accepted for it, 0 for none.
SessionState == [count : Nat, live : BOOLEAN, events : Nat, demand : Nat,
                 asked : Nat, answered : Nat, got : Nat, value : Seq(Nat), total : Seq(Nat),
                 out : Seq(Message),  \* outbound_server
                 unacked : Nat,       \* operations kept for the tab
                 generation : Nat]
NoSession == [count |-> 0, live |-> FALSE, events |-> 0, demand |-> 0,
              asked |-> 0, answered |-> 0, got |-> 0, value |-> << >>, total |-> << >>, out |-> << >>, unacked |-> 0,
              generation |-> 0]

OriginState == [attached : BOOLEAN,
                events : Nat,         \* accepted_events
                asked : Nat,          \* accepted_invocation_requests
                demand : Nat,         \* accepted_current_call_revisions
                active : BOOLEAN,     \* the call is in accepted_current_calls
                result : Nat,
                argument : Nat,
                value : Seq(Nat)]
NoOrigin == [attached |-> FALSE, events |-> 0, asked |-> 0, demand |-> 0, active |-> FALSE,
             result |-> 0, argument |-> 0, value |-> << >>]

Init ==
  /\ slots = [s \in Slots |-> FreeSlot]
  /\ sessions = [s \in Slots |-> NoSession]
  /\ origins = [s \in Slots |-> NoOrigin]
  /\ shared = 0
  /\ globalBytes = 0
  /\ cursor = 0
  /\ poisoned = {}
  /\ spent = [frames |-> 0, disconnects |-> 0, resumes |-> 0]

Spend(what) == spent' = [spent EXCEPT ![what] = @ + 1]

\* The value the Server's function has now for an origin's argument.
Current(argument, total) == <<argument, total>>

-----------------------------------------------------------------------------
(* The Session's endpoint *)

\* The Session's turn for an event of the tab.  A press or a toggle changes a
\* value that is published to the tab.
Turn(ss, kind) ==
  LET pressed == kind = "press"
      live == IF kind = "toggle" THEN ~ss.live ELSE ss.live
      count == IF pressed THEN ss.count + 1 ELSE ss.count
      event == IF pressed THEN <<Msg("event", ss.events + 1, 0, << >>)>> ELSE << >>
      ask == IF kind = "ask" THEN <<Msg("invoke", ss.asked + 1, 0, << >>)>> ELSE << >>
      call == IF live /\ kind # "ask" THEN <<Msg("request", ss.demand + 1, 0, <<count>>)>>
              ELSE IF ss.live /\ ~live THEN <<Msg("detach", ss.demand + 1, 0, << >>)>>
              ELSE << >>
  IN [ss EXCEPT !.count = count, !.live = live, !.events = @ + Len(event),
                !.asked = @ + Len(ask), !.demand = @ + Len(call),
                !.got = IF call = << >> THEN @ ELSE 0,
                !.out = PushedAll(@, event \o ask \o call),
                !.unacked = IF kind = "ask" THEN @ ELSE @ + 1]

HasClientRoom(ss) == ss.unacked <= ClientRoom

\* prepare_accept of a message of the Server: "ignored" leaves the protocol
\* as it is, an error poisons the Session.
Acceptance(ss, m) ==
  IF m.kind = "shared"
  THEN IF ss.total # << >> /\ m.rev <= ss.total[1] + 1 THEN "sequence" ELSE "accepted"
  ELSE IF m.kind = "answer"
  THEN IF m.rev > ss.asked THEN "sequence"
       ELSE IF m.rev <= ss.answered THEN "ignored" ELSE "accepted"
  ELSE IF m.rev > ss.demand THEN "sequence"
  ELSE IF ~ss.live \/ m.rev < ss.demand \/ m.result < ss.got THEN "ignored"
  ELSE IF m.result = ss.got
       THEN IF m.value = ss.value THEN "ignored" ELSE "frame"
  ELSE "accepted"

\* The accepted value is published to the tab while it is connected.
Accepted(ss, m, connected) ==
  LET ps == [ss EXCEPT !.unacked = IF connected THEN @ + 1 ELSE @]
  IN IF Acceptance(ss, m) # "accepted" THEN ss
     ELSE CASE m.kind = "shared" -> [ps EXCEPT !.total = m.value]
            [] m.kind = "answer" -> [ps EXCEPT !.answered = m.rev]
            [] OTHER -> [ps EXCEPT !.got = m.result, !.value = m.value]

-----------------------------------------------------------------------------
(* The Server authority *)

\* A Session's message as the Server answers it: an error, or its turn.
Verdict(os, m) ==
  CASE m.kind = "event" -> IF m.rev = os.events + 1 THEN "ok" ELSE "sequence"
    [] m.kind = "invoke" -> IF m.rev = os.asked + 1 THEN "ok" ELSE "sequence"
    [] m.kind = "request" -> IF m.rev > os.demand THEN "ok" ELSE "sequence"
    [] OTHER -> IF m.rev <= os.demand THEN "sequence"
                ELSE IF os.active THEN "ok" ELSE "lease"

\* collect_producer_call_results of one origin.
Refreshed(os, total) ==
  IF os.active /\ os.value # Current(os.argument, total)
  THEN [os EXCEPT !.result = @ + 1, !.value = Current(os.argument, total)]
  ELSE os

Result(os) == Msg("result", os.demand, os.result, os.value)
Shared(total) == Msg("shared", total + 1, 0, <<total>>)

\* The origin after the message and after finish_origin_turn.
Answered(os, m, total) ==
  CASE m.kind = "event" -> Refreshed([os EXCEPT !.events = m.rev], total)
    [] m.kind = "invoke" -> Refreshed([os EXCEPT !.asked = m.rev], total)
    [] m.kind = "request" ->
         [os EXCEPT !.demand = m.rev, !.active = TRUE, !.result = 1,
                    !.argument = m.value[1], !.value = Current(m.value[1], total)]
    [] OTHER -> [os EXCEPT !.demand = m.rev, !.active = FALSE]

\* prepare_deliveries: a message for the slots in `targets', into their
\* pending queues; a stale slot keeps only what it may be resumed with.
Delivered(ps, m, targets) ==
  [s \in Slots |->
     IF \/ s \notin targets \/ ps[s].state = "free"
        \/ ps[s].state # "connected" /\ ~IsSessionResumeSnapshot(m.kind)
     THEN ps[s]
     ELSE LET q == Pushed(ps[s].pending, m)
          IN [ps[s] EXCEPT !.pending = q, !.bytes = SumBytes(q)]]

SumOfSlots(f) == SumFunctionOnSet(f, Slots)
PendingBytes(ps) == SumOfSlots([s \in Slots |-> ps[s].bytes])
GlobalAfter(ps) == (globalBytes - PendingBytes(slots)) + PendingBytes(ps)
DeliveryFits(ps) ==
  (\A s \in Slots : Fits(ps[s].pending)) /\ GlobalAfter(ps) <= MaxGlobalBytes

-----------------------------------------------------------------------------
(* Connections *)

QueueReservation == 4 * MaxBytes
Used == {s \in Slots : slots[s].state # "free"}

\* commit_fresh, with the deliveries of set_origin_status(Current).  If these
\* do not fit, the slot is removed again.
CommitFresh(s) ==
  /\ s \notin Used /\ \A r \in Slots \ Used : s <= r
  /\ (Cardinality(Used) + 1) * QueueReservation <= MaxGlobalBytes
  /\ sessions' = [sessions EXCEPT ![s] =
       [NoSession EXCEPT !.live = TRUE, !.demand = 1, !.unacked = 1,
                         !.generation = 1,
                         !.out = <<Msg("request", 1, 0, <<0>>)>>]]
  /\ origins' = [origins EXCEPT ![s] = [NoOrigin EXCEPT !.attached = TRUE]]
  /\ LET ps == Delivered([slots EXCEPT ![s] = [FreeSlot EXCEPT !.state = "connected"]],
                         Shared(shared), {s})
     IN DeliveryFits(ps) /\ slots' = ps /\ globalBytes' = GlobalAfter(ps)
  /\ UNCHANGED <<shared, cursor, poisoned, spent>>

\* commit_resume: the tab's queue starts again with every value the Session
\* exports; the calls whose value changed are collected while the slot is
\* still stale.
CommitResume(s) ==
  /\ slots[s].state = "stale"
  /\ spent.resumes < MaxResumes
  /\ LET ss == sessions[s]
         exports == 1 + Len(ss.total) + (IF ss.live /\ ss.got > 0 THEN 1 ELSE 0)
     IN sessions' = [sessions EXCEPT ![s] =
          [ss EXCEPT !.unacked = exports, !.generation = @ + 1]]
  /\ origins' = [origins EXCEPT ![s] = Refreshed(@, shared)]
  /\ slots' = [slots EXCEPT ![s].state = "connected"]
  /\ Spend("resumes")
  /\ UNCHANGED <<shared, globalBytes, cursor, poisoned>>

\* begin_stale_cleanup of slot s: what the resumed tab may not see is
\* dropped on both sides, and the Server settles the origin as stale.
Stale(slot, state) ==
  LET q == Snapshots(slot.pending)
  IN [slot EXCEPT !.state = state, !.inbound = << >>, !.pending = q,
                  !.bytes = SumBytes(q)]
\* A faulty variant: the frames of the tab are not given back.
ReleasedPending(slot) == slot.bytes - Stale(slot, slot.state).bytes

Released(slot) ==
  Len(slot.inbound) * FrameBytes + (slot.bytes - Stale(slot, slot.state).bytes)
StaleSession(ss) == [ss EXCEPT !.out = Snapshots(@)]

\* drive_cleanup delivers what begin_stale_cleanup kept, in order.
Drained(ss, q) ==
  LET drained[n \in 0 .. Len(q)] ==
        IF n = 0 THEN ss ELSE Accepted(drained[n - 1], q[n], FALSE)
  IN drained[Len(q)]

\* remove_slot: the slot is detached, the origin expires.
Removed(s) ==
  /\ slots' = [slots EXCEPT ![s] = FreeSlot]
  /\ sessions' = [sessions EXCEPT ![s] = NoSession]
  /\ origins' = [origins EXCEPT ![s] = NoOrigin]
  /\ globalBytes' = globalBytes - (Len(slots[s].inbound) * FrameBytes + slots[s].bytes)
  /\ UNCHANGED shared

Disconnect(s) ==
  /\ slots[s].state = "connected"
  /\ spent.disconnects < MaxDisconnects
  /\ LET slot == Stale(slots[s], "stale")
     IN /\ slots' = [slots EXCEPT ![s] = [slot EXCEPT !.pending = << >>, !.bytes = 0]]
        /\ sessions' = [sessions EXCEPT ![s] = Drained(StaleSession(@), slot.pending)]
        /\ globalBytes' = globalBytes - Released(slots[s]) - slot.bytes
  /\ origins' = [origins EXCEPT ![s] = Refreshed(@, shared)]
  /\ Spend("disconnects")
  /\ UNCHANGED <<shared, cursor, poisoned>>

Revoke(s) ==
  /\ slots[s].state = "connected"
  /\ spent.disconnects < MaxDisconnects
  /\ Removed(s)
  /\ cursor' = IF cursor = s THEN 0 ELSE cursor
  /\ Spend("disconnects")
  /\ UNCHANGED poisoned

\* The resume window of a stale Session ends.
Expire(s) ==
  /\ slots[s].state = "stale"
  /\ slots' = [slots EXCEPT ![s].state = "expired"]
  /\ UNCHANGED <<sessions, origins, shared, globalBytes, cursor, poisoned, spent>>

\* What the tab has been sent and no frame of it has acknowledged yet.
AckedBy(q) == SumFunction([i \in DOMAIN q |-> q[i].ack])
Unseen(s) == sessions[s].unacked - AckedBy(slots[s].inbound)

\* admit_client_frame.
Admit(s, kind, ack) ==
  /\ slots[s].state = "connected"
  /\ globalBytes + FrameBytes <= MaxGlobalBytes
  /\ Len(slots[s].inbound) < MaxMessages
  /\ (Len(slots[s].inbound) + 1) * FrameBytes <= MaxBytes
  /\ slots' = [slots EXCEPT ![s].inbound = Append(@, [kind |-> kind, ack |-> ack])]
  /\ globalBytes' = globalBytes + FrameBytes
  /\ UNCHANGED <<sessions, origins, shared, cursor, poisoned>>

\* A frame acknowledges what its tab has applied: nothing new, or all.
Send(s) ==
  \E kind \in {"press", "toggle", "ask"}, ack \in {0, Unseen(s)} :
    /\ s \notin Responsive => ack = 0
    /\ spent.frames < MaxFrames
    /\ Admit(s, kind, ack)
    /\ Spend("frames")

Acknowledge(s) ==
  /\ s \in Responsive
  /\ slots[s].state = "connected"
  /\ Unseen(s) > 0
  /\ Admit(s, "ack", Unseen(s))
  /\ UNCHANGED spent

-----------------------------------------------------------------------------
(* poll *)

Available(s, lane) ==
  CASE lane = 0 -> slots[s].pending # << >>
    [] lane = 1 -> slots[s].state = "connected" /\ slots[s].inbound # << >>
    [] OTHER -> sessions[s].out # << >>

HasRunnableWork(s) ==
  /\ slots[s].state # "free"
  /\ \/ slots[s].state \in {"expired", "removing"}
     \/ \E lane \in 0 .. 2 : Available(s, lane)

Runnable == {s \in Slots : HasRunnableWork(s)}
NextRunnableSlot ==
  LET after == {s \in Runnable : s > cursor}
  IN Min(IF after # {} THEN after ELSE Runnable)

NextLane(s) ==
  LET first == slots[s].lane
      second == (first + 1) % 3
  IN IF Available(s, first) THEN first
     ELSE IF Available(s, second) THEN second ELSE (first + 2) % 3

\* What a round leaves behind whether or not it made progress.
LaneAfter(s) ==
  IF slots[s].state = "removing" THEN slots[s].lane ELSE (NextLane(s) + 1) % 3

\* A faulty variant: a round without progress is tried again.
BackpressuredAgain(s) == UNCHANGED vars

Backpressured(s) ==
  /\ slots' = [slots EXCEPT ![s].lane = LaneAfter(s)]
  /\ cursor' = s
  /\ UNCHANGED <<sessions, origins, shared, globalBytes, poisoned, spent>>

Poisoned(s, error) ==
  /\ Removed(s)
  /\ cursor' = 0
  /\ poisoned' = poisoned \cup
       {[error |-> error, resumed |-> sessions[s].generation > 1]}
  /\ UNCHANGED spent

\* poll_server_delivery of a message the Session accepts as `ss'.
ServerDelivery(s, ss) ==
  /\ sessions' = [sessions EXCEPT ![s] = ss]
  /\ slots' = [slots EXCEPT ![s].pending = Tail(@), ![s].lane = LaneAfter(s),
                            ![s].bytes = @ - Bytes(Head(slots[s].pending))]
  /\ globalBytes' = globalBytes - Bytes(Head(slots[s].pending))
  /\ cursor' = s
  /\ UNCHANGED <<origins, shared, poisoned, spent>>

\* Lane 0.
PollServerDelivery(s) ==
  \E ss \in {Accepted(sessions[s], Head(slots[s].pending), slots[s].state = "connected")} :
    \/ ~HasClientRoom(ss) /\ Backpressured(s)
    \/ HasClientRoom(ss) /\ ServerDelivery(s, ss)

\* Lane 1: poll_client_admission.
PollClientAdmission(s) ==
  LET f == Head(slots[s].inbound)
      as == [sessions[s] EXCEPT !.unacked = @ - f.ack]
  IN \E ss \in {IF f.kind = "ack" THEN as ELSE Turn(as, f.kind)} :
       LET fits == f.kind = "ack" \/ (HasClientRoom(ss) /\ Fits(ss.out))
       IN \/ ~fits /\ Backpressured(s)
          \/ /\ fits
             /\ sessions' = [sessions EXCEPT ![s] = ss]
             /\ slots' = [slots EXCEPT ![s].inbound = Tail(@), ![s].lane = LaneAfter(s)]
             /\ globalBytes' = globalBytes - FrameBytes
             /\ cursor' = s
             /\ UNCHANGED <<origins, shared, poisoned, spent>>

\* What the Server's answer to a message leaves in the pending queues.
Deliveries(s, os, total) ==
  LET old == origins[s]
      answered == IF os.asked = old.asked THEN slots
                  ELSE Delivered(slots, Msg("answer", os.asked, 0, << >>), {s})
      changed == os.active /\ <<os.demand, os.result>> # <<old.demand, old.result>>
      resulted == IF changed THEN Delivered(answered, Result(os), {s}) ELSE answered
  IN IF total = shared THEN resulted ELSE Delivered(resulted, Shared(total), Slots)

\* Lane 2: poll_session_delivery.  The message leaves the Session's queue in
\* the transaction that queues what the Server answers.
PollSessionDelivery(s) ==
  LET m == Head(sessions[s].out)
      total == IF m.kind = "event" THEN shared + 1 ELSE shared
  IN \E os \in {Answered(origins[s], m, total)} :
     \E ps \in {Deliveries(s, os, total)} :
       \/ ~DeliveryFits(ps) /\ Backpressured(s)
       \/ /\ DeliveryFits(ps)
          /\ origins' = [origins EXCEPT ![s] = os]
          /\ shared' = total
          /\ slots' = [ps EXCEPT ![s].lane = LaneAfter(s)]
          /\ globalBytes' = GlobalAfter(ps)
          /\ sessions' = [sessions EXCEPT ![s].out = Tail(@)]
          /\ cursor' = s
          /\ UNCHANGED <<poisoned, spent>>

\* A stale Session whose deadline has passed starts its removal; the rounds
\* that follow deliver what is left and then detach it.
BeginRemoval(s) ==
  /\ slots' = [slots EXCEPT ![s] = Stale(@, "removing")]
  /\ sessions' = [sessions EXCEPT ![s] = StaleSession(@)]
  /\ origins' = [origins EXCEPT ![s] = Refreshed(@, shared)]
  /\ globalBytes' = globalBytes - Released(slots[s])
  /\ cursor' = s
  /\ UNCHANGED <<shared, poisoned, spent>>

CleanupStep(s) ==
  \/ /\ slots[s].pending # << >>
     /\ ServerDelivery(s, Accepted(sessions[s], Head(slots[s].pending), FALSE))
  \/ /\ slots[s].pending = << >>
     /\ Removed(s)
     /\ cursor' = s
     /\ UNCHANGED <<poisoned, spent>>

\* The error a round on slot s ends in, "ok" for none.
PollError(s) ==
  LET acceptance == Acceptance(sessions[s], Head(slots[s].pending))
      delivers == IF slots[s].state = "removing" THEN slots[s].pending # << >>
                  ELSE slots[s].state # "expired" /\ NextLane(s) = 0
  IN IF delivers
     THEN IF acceptance \in {"accepted", "ignored"} THEN "ok" ELSE acceptance
     ELSE IF slots[s].state \in {"connected", "stale"} /\ NextLane(s) = 2
          THEN Verdict(origins[s], Head(sessions[s].out)) ELSE "ok"

Poll ==
  \E s \in Runnable :
    /\ s = NextRunnableSlot
    /\ \E error \in {PollError(s)}, lane \in {NextLane(s)} :
         \/ error # "ok" /\ Poisoned(s, error)
         \/ /\ error = "ok"
            /\ \/ slots[s].state = "expired" /\ BeginRemoval(s)
               \/ slots[s].state = "removing" /\ CleanupStep(s)
               \/ /\ slots[s].state \in {"connected", "stale"}
                  /\ \/ lane = 0 /\ PollServerDelivery(s)
                     \/ lane = 1 /\ PollClientAdmission(s)
                     \/ lane = 2 /\ PollSessionDelivery(s)

Next ==
  \/ Poll
  \/ \E s \in Slots :
       \/ CommitFresh(s)
       \/ CommitResume(s)
       \/ Disconnect(s)
       \/ Revoke(s)
       \/ Expire(s)
       \/ Send(s)
       \/ Acknowledge(s)

Spec == Init /\ [][Next]_vars

\* The host polls the registry on every turn of its loop; a responsive tab
\* acknowledges what it has applied.
FairSpec == Spec /\ WF_vars(Poll) /\ \A s \in Responsive : WF_vars(Acknowledge(s))

-----------------------------------------------------------------------------
(* Properties *)

\* Every variable has its type.
TypeOK ==
  /\ slots \in [Slots -> SlotState]
  /\ sessions \in [Slots -> SessionState]
  /\ origins \in [Slots -> OriginState]
  /\ shared \in Nat
  /\ globalBytes \in Nat
  /\ cursor \in 0 .. MaxSessions
  /\ poisoned \subseteq [error : {"sequence", "frame", "lease"}, resumed : BOOLEAN]
  /\ spent \in [{"frames", "disconnects", "resumes"} -> Nat]

\* Safety: the registry's byte counters, kept by additions and subtractions
\* in admission, delivery, polling, cleanup and removal, are at all times the
\* bytes that are really queued, so the checked subtractions that would shut
\* down every Session never fail; and no more is queued than each Session
\* reserved.
BytesBalance ==
  /\ \A s \in Slots : slots[s].bytes = SumBytes(slots[s].pending)
  /\ globalBytes = SumOfSlots(
       [s \in Slots |-> Len(slots[s].inbound) * FrameBytes + slots[s].bytes])
  /\ globalBytes <= Cardinality(Used) * QueueReservation

\* Safety: the registry's state is well formed and its accounts are true.
AccountingInvariant == TypeOK /\ BytesBalance

\* A Session that has never been resumed is removed for an error only
\* where the Server is asked to drop a call it was never told of; no revision
\* or sequence number is ever out of order for it.
SequencesHoldUntilResume ==
  \A p \in poisoned : p.error = "lease" \/ (p.error = "sequence" /\ p.resumed)

\* Safety: until a Session is first resumed, nothing it has said to the
\* Server and nothing the Server has answered is lost between them: an event
\* or an invocation is accepted or queued, its answer is accepted or pending,
\* the call the Server evaluates is the one the Session
\* last sent unless a newer one is queued, and the result the Session has
\* accepted is the Server's last unless a newer one is pending.  Numbers stay in
\* order throughout.
NothingIsLost ==
  /\ SequencesHoldUntilResume
  /\ \A s \in Slots : (sessions[s].generation = 1 /\ slots[s].state = "connected") =>
       LET ss == sessions[s]  os == origins[s]
           calls == OfKinds(ss.out, {"request", "detach"})
       IN /\ ss.events = os.events + Len(OfKinds(ss.out, {"event"}))
          /\ ss.asked = os.asked + Len(OfKinds(ss.out, {"invoke"}))
          /\ os.asked = ss.answered + Len(OfKinds(slots[s].pending, {"answer"}))
          /\ IF calls # << >> THEN Last(calls).rev = ss.demand
             ELSE /\ os.demand = ss.demand /\ os.active = ss.live
                  /\ os.active => os.argument = ss.count
                  /\ os.active /\ OfKinds(slots[s].pending, {"result"}) = << >>
                       => ss.got = os.result /\ ss.value = os.value

\* Safety: the total, the one value that crosses a disconnected interval, is
\* never lost: every Session, connected, stale or resumed, has accepted the
\* Server's current total or has it pending, and never has an older one
\* pending than it has accepted.
TotalIsOnItsWay ==
  \A s \in Used :
    LET queued == OfKinds(slots[s].pending, {"shared"})
        known == IF sessions[s].total = << >> THEN 0 ELSE sessions[s].total[1] + 1
    IN IF queued = << >> THEN known = shared + 1
       ELSE queued = <<Shared(shared)>> /\ known < shared + 1

HasWork(s) == slots[s].state = "connected" /\ HasRunnableWork(s)

\* The event at the head of a Session's inbound queue finds no room, and the
\* acknowledgement that would make some is in that frame or behind it.
WaitsForItself(s) ==
  /\ slots[s].inbound # << >>
  /\ LET f == Head(slots[s].inbound)
         ss == Turn([sessions[s] EXCEPT !.unacked = @ - f.ack], f.kind)
     IN f.kind # "ack" /\ ~(HasClientRoom(ss) /\ Fits(ss.out))

\* The new total does not fit the queue of a Session whose tab has stalled:
\* prepare_deliveries refuses it for all.
WaitsForStalledTab(s) ==
  /\ sessions[s].out # << >>
  /\ Head(sessions[s].out).kind = "event"
  /\ \E t \in Used \ Responsive : ~Fits(Pushed(slots[t].pending, Shared(shared + 1)))

\* Liveness: a Session whose tab acknowledges what it is sent has its lanes
\* emptied again and again.  It can stop in two ways only: an event of its
\* tab waits for the acknowledgement it carries or that came after it, or an
\* event for all waits for the full queue of a Session whose tab has stalled.
ServedUnlessQueuesAreFull ==
  \A s \in Responsive :
    <>[]HasWork(s) => <>[](WaitsForItself(s) \/ WaitsForStalledTab(s))

\* Safety, as the plan has it: a reconnected Session has its demand restored
\* and a fresh snapshot.  It does not hold.
ResumeRestoresDemand ==
  \A s \in Slots :
    /\ slots[s].state = "connected"
    /\ sessions[s].generation > 1
    /\ ~HasRunnableWork(s)
    => /\ origins[s].active = sessions[s].live
       /\ origins[s].active => sessions[s].value = origins[s].value

=============================================================================
