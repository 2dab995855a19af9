-------------------------- MODULE PersistenceWorker --------------------------
(***************************************************************************)
(* The native persistence coordinator (boon_persistence/src/worker.rs) on  *)
(* its driver (native.rs).  Threads of the host reserve a slot, enqueue an *)
(* authority turn, make control requests and queue artifact work; one      *)
(* worker thread takes their messages from one bounded channel, collects   *)
(* turns into a batch and commits it in one transaction of the database.   *)
(*                                                                         *)
(* Each critical section of the admission mutex is one step; so is each    *)
(* command the worker gives its driver, and each message it takes.  Turns  *)
(* are a sequence number and a payload; checksums, schema hashes and       *)
(* timings are left out.  The asynchronous artifact store and load are one *)
(* kind of message: they share the channel and touch no turn.              *)
(***************************************************************************)
EXTENDS Naturals, Sequences, FiniteSets

CONSTANTS
  Callers,        \* threads that use the coordinator
  Payloads,       \* what a turn writes
  None,           \* no payload, no caller
  Capacity,       \* queue_capacity
  MaxBatchTurns,  \* max_batch_turns
  MaxTurns,       \* bound: turns ever accepted
  MaxControls,    \* bound: control requests
  MaxTickets,     \* bound: artifact requests
  MaxFailures,    \* bound: commands the database fails
  MaxRestarts     \* bound: crashes of the process

ASSUME ConstantsAssumption ==
  /\ None \notin Callers \cup Payloads
  /\ IsFiniteSet(Callers)
  /\ Capacity \in Nat \ {0}
  /\ MaxBatchTurns \in Nat \ {0}
  /\ {MaxTurns, MaxControls, MaxTickets, MaxFailures, MaxRestarts} \subseteq Nat

VARIABLES
  admission,      \* AdmissionState, behind the mutex, and the worker_alive flag
  channel,        \* the bounded channel to the worker
  caller,         \* where each thread is in a call of the coordinator
  worker,         \* the worker thread: its local variables and durable cursor
  store,          \* the database: the turns committed, the epoch, is it open
  durableTurn,    \* SharedState::durable_turn, what status() reports
  artifacts,      \* artifact requests [issued, completed]
  spent           \* how much of each bound is used

vars == <<admission, channel, caller, worker, store, durableTurn, artifacts, spent>>

-----------------------------------------------------------------------------
(* Messages *)

Query == "query"       \* Load, Barrier, Inspect, Compact, Export, Put/LoadContentArtifact
Immediate == "immediate"   \* ImmediateTurn
Activate == "activate"    \* Activate, ResetApplication
Shutdown == "shutdown"
Disconnect == "disconnect"  \* recv() fails: every sender is gone
Control == {Query, Immediate, Activate, Shutdown, Disconnect}

Kind == Control \cup {"turn", "artifact", "none"}

\* seq is the turn sequence of a turn, the expected base epoch of an activation.
Message == [kind : Kind, seq : Nat, payload : Payloads \cup {None}, from : Callers \cup {None}]

Msg(k, n, p, c) == [kind |-> k, seq |-> n, payload |-> p, from |-> c]
NoMessage == Msg("none", 0, None, None)
Artifact == Msg("artifact", 0, None, None)
Turn(n, p) == Msg("turn", n, p, None)

-----------------------------------------------------------------------------
(* State *)

CallerPc == {"idle", "reserved", "draining", "awaiting", "sending", "dropped"}
WorkerPc == {"recv", "collect", "flush", "mark", "artifacts", "control",
             "acknowledge", "exiting", "gone"}

AdmissionState ==
  [accepting : BOOLEAN, closed : BOOLEAN, alive : BOOLEAN, reservations : Nat,
   next : Nat, pending : Seq(Nat)]

CallerState ==
  [pc : CallerPc, request : Message, reply : {"none", "ok", "err"}, covers : Nat]

WorkerState ==
  [pc : WorkerPc, pending : Seq(Message), artifacts : Nat,
   deferred : Message, current : Message, through : Nat, epoch : Nat]

\* Every variable has its type.
TypeOK ==
  /\ admission \in AdmissionState
  /\ channel \in Seq(Message)
  /\ caller \in [Callers -> CallerState]
  /\ worker \in WorkerState
  /\ store \in [log : Seq(Payloads), epoch : Nat, open : BOOLEAN]
  /\ durableTurn \in Nat
  /\ artifacts \in [issued : Nat, completed : Nat]
  /\ spent \in [controls : Nat, failures : Nat, restarts : Nat]

Idle == [pc |-> "idle", request |-> NoMessage, reply |-> "none", covers |-> 0]

\* SharedState::finish_startup, on the image the driver loaded.
Started(n) ==
  [accepting |-> TRUE, closed |-> FALSE, alive |-> TRUE, reservations |-> 0,
   next |-> n + 1, pending |-> <<>>]

\* DurableCursor::from_image, and the empty locals of worker_main.
Working(n, e) ==
  [pc |-> "recv", pending |-> <<>>, artifacts |-> 0, deferred |-> NoMessage,
   current |-> NoMessage, through |-> n, epoch |-> e]

Init ==
  /\ admission = Started(0)
  /\ channel = <<>>
  /\ caller = [c \in Callers |-> Idle]
  /\ worker = Working(0, 0)
  /\ store = [log |-> <<>>, epoch |-> 0, open |-> TRUE]
  /\ durableTurn = 0
  /\ artifacts = [issued |-> 0, completed |-> 0]
  /\ spent = [controls |-> 0, failures |-> 0, restarts |-> 0]

-----------------------------------------------------------------------------
(* The threads of the host *)

Open == ~admission.closed /\ admission.alive
HasRoom == Len(channel) < Capacity
ReceiverGone == worker.pc = "gone"

\* mark_worker_exited, and the same assignments in enqueue.
Exited(a) == [a EXCEPT !.alive = FALSE, !.closed = TRUE, !.accepting = FALSE]

\* try_reserve_turn.  A refusal changes nothing.
Reserve(c) ==
  /\ caller[c].pc = "idle"
  /\ Open
  /\ admission.accepting
  /\ Len(admission.pending) + admission.reservations < Capacity
  /\ admission' = [admission EXCEPT !.reservations = @ + 1]
  /\ caller' = [caller EXCEPT ![c].pc = "reserved"]
  /\ UNCHANGED <<channel, worker, store, durableTurn, artifacts, spent>>

\* The reservation is given back, by enqueue or by Drop.
Released == [admission EXCEPT !.reservations = IF @ = 0 THEN 0 ELSE @ - 1]

\* AuthorityTurnReservation::enqueue: the turn is admitted and sent.
Enqueue(c, p) ==
  /\ caller[c].pc = "reserved"
  /\ Open /\ ~ReceiverGone /\ HasRoom
  /\ admission.next <= MaxTurns
  /\ admission' = [Released EXCEPT !.pending = Append(@, admission.next),
                                   !.next = @ + 1]
  /\ channel' = Append(channel, Turn(admission.next, p))
  /\ caller' = [caller EXCEPT ![c] = Idle]
  /\ UNCHANGED <<worker, store, durableTurn, artifacts, spent>>

\* enqueue refuses the turn (closed, not the next sequence number, or the
\* channel is full, which rolls the admission back), or the reservation is
\* dropped unused.
Release(c) ==
  /\ caller[c].pc = "reserved"
  /\ admission' = Released
  /\ caller' = [caller EXCEPT ![c] = Idle]
  /\ UNCHANGED <<channel, worker, store, durableTurn, artifacts, spent>>

\* control_request takes the control lock, and stops new reservations.
BeginControl(c, k, n, p) ==
  /\ caller[c].pc = "idle"
  /\ \A d \in Callers : caller[d].pc \notin {"draining", "awaiting"}
  /\ Open
  /\ spent.controls < MaxControls
  /\ spent' = [spent EXCEPT !.controls = @ + 1]
  /\ admission' = [admission EXCEPT !.accepting = FALSE]
  /\ caller' = [caller EXCEPT ![c] = [Idle EXCEPT !.pc = "draining",
                                                  !.request = Msg(k, n, p, c)]]
  /\ UNCHANGED <<channel, worker, store, durableTurn, artifacts>>

\* A faulty variant: the request does not wait for the reservations.
SendControlAtOnce(c) ==
  /\ caller[c].pc = "draining"
  /\ ~ReceiverGone /\ HasRoom
  /\ channel' = Append(channel, caller[c].request)
  /\ caller' = [caller EXCEPT ![c].pc = "awaiting", ![c].covers = admission.next - 1]
  /\ UNCHANGED <<admission, worker, store, durableTurn, artifacts, spent>>

\* Once no reservation is held the request is sent, as soon as there is room.
SendControl(c) ==
  /\ caller[c].pc = "draining"
  /\ admission.reservations = 0
  /\ ~ReceiverGone /\ HasRoom
  /\ channel' = Append(channel, caller[c].request)
  /\ caller' = [caller EXCEPT ![c].pc = "awaiting", ![c].covers = admission.next - 1]
  /\ UNCHANGED <<admission, worker, store, durableTurn, artifacts, spent>>

\* The reply arrives: a successful shutdown closes the coordinator, anything
\* else opens it to turns again.
EndControl(c) ==
  /\ caller[c].pc = "awaiting"
  /\ caller[c].reply # "none"
  /\ admission' =
       IF caller[c].request.kind = Shutdown /\ caller[c].reply = "ok"
         THEN [admission EXCEPT !.closed = TRUE, !.accepting = FALSE]
         ELSE [admission EXCEPT !.accepting = @ \/ Open]
  /\ caller' = [caller EXCEPT ![c] = Idle]
  /\ UNCHANGED <<channel, worker, store, durableTurn, artifacts, spent>>

\* Drop: the shutdown it asked for has failed, and the last sender goes.
DropCoordinator(c) ==
  /\ caller[c].pc = "awaiting"
  /\ caller[c].request.kind = Shutdown
  /\ caller[c].reply = "err"
  /\ \A d \in Callers \ {c} : caller[d].pc = "idle"
  /\ caller' = [d \in Callers |-> [Idle EXCEPT !.pc = "dropped"]]
  /\ UNCHANGED <<admission, channel, worker, store, durableTurn, artifacts, spent>>

\* try_put_content_artifact and try_load_content_artifact check the admission
\* and release its lock before they send.
BeginArtifact(c) ==
  /\ caller[c].pc = "idle"
  /\ Open
  /\ artifacts.issued + Cardinality({d \in Callers : caller[d].pc = "sending"}) < MaxTickets
  /\ caller' = [caller EXCEPT ![c].pc = "sending"]
  /\ UNCHANGED <<admission, channel, worker, store, durableTurn, artifacts, spent>>

SendArtifact(c) ==
  /\ caller[c].pc = "sending"
  /\ ~ReceiverGone
  /\ IF HasRoom
       THEN /\ channel' = Append(channel, Artifact)
            /\ artifacts' = [artifacts EXCEPT !.issued = @ + 1]
       ELSE UNCHANGED <<channel, artifacts>>
  /\ caller' = [caller EXCEPT ![c] = Idle]
  /\ UNCHANGED <<admission, worker, store, durableTurn, spent>>

\* The receiver is gone: the artifact is refused.  Turns and control requests
\* cannot come this far: they see the closed admission first.
FindWorkerGone(c) ==
  /\ caller[c].pc = "sending"
  /\ ReceiverGone
  /\ admission' = Exited(admission)
  /\ caller' = [caller EXCEPT ![c] = Idle]
  /\ UNCHANGED <<channel, worker, store, durableTurn, artifacts, spent>>

-----------------------------------------------------------------------------
(* The worker thread *)

\* What the driver answers: an open database may fail a command, a closed one
\* fails them all.
DriverSucceeds == store.open /\ UNCHANGED spent
DriverFails ==
  \/ ~store.open /\ UNCHANGED spent
  \/ /\ store.open
     /\ spent.failures < MaxFailures
     /\ spent' = [spent EXCEPT !.failures = @ + 1]

\* A faulty variant: a request is answered without its sender.
AnsweredNobody(r) == caller

\* A control request is answered.
Answered(r) ==
  [c \in Callers |-> IF c = worker.current.from THEN [caller[c] EXCEPT !.reply = r]
                                                ELSE caller[c]]

\* worker_main takes the deferred control message before the channel.
TakesFromChannel(k) ==
  /\ worker.pc = "recv"
  /\ worker.deferred = NoMessage
  /\ channel # <<>>
  /\ Head(channel).kind = k
  /\ channel' = Tail(channel)

RecvTurn ==
  /\ TakesFromChannel("turn")
  /\ worker' = [worker EXCEPT !.pc = "collect", !.pending = Append(@, Head(channel))]
  /\ UNCHANGED <<admission, caller, store, durableTurn, artifacts, spent>>

\* handle_async_artifact: no checkpoint comes first.
RecvArtifact ==
  /\ TakesFromChannel("artifact")
  /\ artifacts' = [artifacts EXCEPT !.completed = @ + 1]
  /\ UNCHANGED <<admission, caller, worker, store, durableTurn, spent>>

\* A faulty variant: a request overtakes the batch a failed commit left.
RecvControlAtOnce ==
  /\ \E k \in Control : TakesFromChannel(k)
  /\ worker' = [worker EXCEPT !.pc = "control", !.current = Head(channel)]
  /\ UNCHANGED <<admission, caller, store, durableTurn, artifacts, spent>>

RecvControl ==
  /\ \E k \in Control : TakesFromChannel(k)
  /\ worker' = [worker EXCEPT !.pc = "flush", !.current = Head(channel)]
  /\ UNCHANGED <<admission, caller, store, durableTurn, artifacts, spent>>

RecvDeferred ==
  /\ worker.pc = "recv"
  /\ worker.deferred # NoMessage
  /\ worker' = [worker EXCEPT !.pc = "flush", !.current = worker.deferred,
                              !.deferred = NoMessage]
  /\ UNCHANGED <<admission, channel, caller, store, durableTurn, artifacts, spent>>

\* collect_batch, one received message at a time.
Collect ==
  /\ worker.pc = "collect"
  /\ Len(worker.pending) < MaxBatchTurns
  /\ channel # <<>>
  /\ channel' = Tail(channel)
  /\ worker' =
       CASE Head(channel).kind = "turn" ->
              [worker EXCEPT !.pending = Append(@, Head(channel))]
         [] Head(channel).kind = "artifact" ->
              [worker EXCEPT !.artifacts = @ + 1]
         [] OTHER ->
              [worker EXCEPT !.deferred = Head(channel), !.pc = "flush"]
  /\ UNCHANGED <<admission, caller, store, durableTurn, artifacts, spent>>

\* A faulty variant: the batch waits for the next message.
EndCollectLate ==
  /\ worker.pc = "collect"
  /\ worker' = [worker EXCEPT !.pc = "recv"]
  /\ UNCHANGED <<admission, channel, caller, store, durableTurn, artifacts, spent>>

\* The batch is full, the channel is empty or the delay is over.
EndCollect ==
  /\ worker.pc = "collect"
  /\ worker' = [worker EXCEPT !.pc = "flush"]
  /\ UNCHANGED <<admission, channel, caller, store, durableTurn, artifacts, spent>>

\* flush_pending's own check of the batch against the durable cursor.
Contiguous(batch) ==
  \A i \in DOMAIN batch : batch[i].seq = worker.through + i

\* What follows a flush that succeeded.
AfterFlush == IF worker.current = NoMessage THEN "artifacts" ELSE "control"

\* flush_pending with nothing pending.
FlushNothing ==
  /\ worker.pc = "flush"
  /\ worker.pending = <<>>
  /\ worker' = [worker EXCEPT !.pc = AfterFlush]
  /\ UNCHANGED <<admission, channel, caller, store, durableTurn, artifacts, spent>>

\* A faulty variant: the batch is written last turn first.
CommitReversed ==
  /\ worker.pc = "flush"
  /\ worker.pending # <<>>
  /\ Contiguous(worker.pending)
  /\ store.epoch = worker.epoch
  /\ worker.pending[1].seq = Len(store.log) + 1
  /\ DriverSucceeds
  /\ store' = [store EXCEPT
       !.log = @ \o [i \in DOMAIN worker.pending |->
                      worker.pending[Len(worker.pending) + 1 - i].payload],
       !.epoch = @ + 1]
  /\ worker' = [worker EXCEPT !.pc = "mark"]
  /\ UNCHANGED <<admission, channel, caller, durableTurn, artifacts>>

\* native commit: the header must continue the stored epoch and turn sequence.
Commit ==
  /\ worker.pc = "flush"
  /\ worker.pending # <<>>
  /\ Contiguous(worker.pending)
  /\ store.epoch = worker.epoch
  /\ worker.pending[1].seq = Len(store.log) + 1
  /\ DriverSucceeds
  /\ store' = [store EXCEPT
       !.log = @ \o [i \in DOMAIN worker.pending |-> worker.pending[i].payload],
       !.epoch = @ + 1]
  /\ worker' = [worker EXCEPT !.pc = "mark"]
  /\ UNCHANGED <<admission, channel, caller, durableTurn, artifacts>>

\* How many pending turns mark_durable pops from the front: those up to `through'.
Popped(through) ==
  CHOOSE n \in 0 .. Len(admission.pending) :
    /\ \A i \in 1 .. n : admission.pending[i] <= through
    /\ n < Len(admission.pending) => admission.pending[n + 1] > through

\* SharedState::mark_durable accepts the acknowledgement only if it starts at
\* the first pending turn and does not split the pending turns.
MarkDurableAccepts(through) ==
  /\ admission.pending # <<>>
  /\ admission.pending[1] = durableTurn + 1
  /\ admission.pending[1] <= through
  /\ Popped(through) < Len(admission.pending) =>
       admission.pending[Popped(through) + 1] = through + 1

MarkDurable ==
  LET through == worker.pending[Len(worker.pending)].seq IN
  /\ worker.pc = "mark"
  /\ MarkDurableAccepts(through)
  /\ admission' = [admission EXCEPT !.pending = SubSeq(@, Popped(through) + 1, Len(@))]
  /\ durableTurn' = through
  /\ worker' = [worker EXCEPT !.pc = AfterFlush, !.through = through,
                              !.epoch = @ + 1, !.pending = <<>>]
  /\ UNCHANGED <<channel, caller, store, artifacts, spent>>

\* The commit fails: the batch stays pending in the worker.  A batch just
\* collected is left for a later message; a control request gets the error.
FlushFails ==
  /\ worker.pc = "flush"
  /\ worker.pending # <<>>
  /\ DriverFails
  /\ worker' = [worker EXCEPT
       !.pc = CASE worker.current = NoMessage -> "artifacts"
                [] worker.current.kind = Disconnect -> "control"
                [] OTHER -> "recv",
       !.current = IF @.kind = Disconnect THEN @ ELSE NoMessage]
  /\ caller' = Answered("err")
  /\ UNCHANGED <<admission, channel, store, durableTurn, artifacts>>

\* The artifact requests collected with the batch, after it.
CompleteArtifacts ==
  /\ worker.pc = "artifacts"
  /\ artifacts' = [artifacts EXCEPT !.completed = @ + worker.artifacts]
  /\ worker' = [worker EXCEPT !.pc = "recv", !.artifacts = 0]
  /\ UNCHANGED <<admission, channel, caller, store, durableTurn, spent>>

-----------------------------------------------------------------------------
(* handle_control, once everything pending is durable *)

Handling(k) == worker.pc = "control" /\ worker.current.kind = k
Handled == [worker EXCEPT !.pc = "recv", !.current = NoMessage]

AnswerQuery ==
  /\ Handling(Query)
  /\ \/ DriverSucceeds /\ caller' = Answered("ok")
     \/ DriverFails /\ caller' = Answered("err")
  /\ worker' = Handled
  /\ UNCHANGED <<admission, channel, store, durableTurn, artifacts>>

\* commit_immediate_turn takes the next turn only; Activate and
\* ResetApplication take the stored epoch only, and zero or one turn.
Refused ==
  \/ Handling(Immediate) /\ worker.current.seq # worker.through + 1
  \/ Handling(Activate) /\ worker.current.seq # store.epoch

RefuseControl ==
  /\ Refused
  /\ caller' = Answered("err")
  /\ worker' = Handled
  /\ UNCHANGED <<admission, channel, store, durableTurn, artifacts, spent>>

CommitControl ==
  /\ Handling(Immediate) \/ Handling(Activate)
  /\ ~Refused
  /\ DriverSucceeds
  /\ store' = [store EXCEPT
       !.log = IF worker.current.payload = None THEN @ ELSE Append(@, worker.current.payload),
       !.epoch = @ + 1]
  /\ worker' = [worker EXCEPT !.pc = "acknowledge"]
  /\ UNCHANGED <<admission, channel, caller, durableTurn, artifacts>>

FailControl ==
  /\ Handling(Immediate) \/ Handling(Activate)
  /\ ~Refused
  /\ DriverFails
  /\ caller' = Answered("err")
  /\ worker' = Handled
  /\ UNCHANGED <<admission, channel, store, durableTurn, artifacts>>

\* The cursor moves, mark_activation sets the next turn, the caller is told.
AcknowledgeControl ==
  /\ worker.pc = "acknowledge"
  /\ LET through == worker.through + (IF worker.current.payload = None THEN 0 ELSE 1) IN
       /\ worker' = [Handled EXCEPT !.through = through, !.epoch = @ + 1]
       /\ durableTurn' = through
       /\ admission' = [admission EXCEPT !.next = through + 1]
  /\ caller' = Answered("ok")
  /\ UNCHANGED <<channel, store, artifacts, spent>>

\* The driver gives up its database even when marking the shutdown fails.
ShutDown ==
  /\ Handling(Shutdown)
  /\ store' = [store EXCEPT !.open = FALSE]
  /\ \/ /\ DriverSucceeds
        /\ caller' = Answered("ok")
        /\ worker' = [Handled EXCEPT !.pc = "exiting"]
     \/ /\ DriverFails
        /\ caller' = Answered("err")
        /\ worker' = Handled
  /\ UNCHANGED <<admission, channel, durableTurn, artifacts>>

\* Every sender is gone: recv() fails once the channel is empty, and the
\* worker flushes and shuts the driver down, whatever either returns.
RecvDisconnected ==
  /\ worker.pc = "recv"
  /\ worker.deferred = NoMessage
  /\ channel = <<>>
  /\ \A c \in Callers : caller[c].pc = "dropped"
  /\ worker' = [worker EXCEPT !.pc = "flush", !.current = Msg(Disconnect, 0, None, None)]
  /\ UNCHANGED <<admission, channel, caller, store, durableTurn, artifacts, spent>>

ShutDownDropped ==
  /\ Handling(Disconnect)
  /\ store' = [store EXCEPT !.open = FALSE]
  /\ worker' = [Handled EXCEPT !.pc = "exiting"]
  /\ UNCHANGED <<admission, channel, caller, durableTurn, artifacts, spent>>

\* The loop is left: worker_alive and the admission say so, then the receiver
\* is dropped with whatever is still in the channel.
ExitLoop ==
  /\ worker.pc = "exiting"
  /\ \/ /\ admission.alive
        /\ admission' = Exited(admission)
        /\ UNCHANGED <<channel, worker>>
     \/ /\ ~admission.alive
        /\ channel' = <<>>
        /\ worker' = [worker EXCEPT !.pc = "gone", !.pending = <<>>]
        /\ UNCHANGED admission
  /\ UNCHANGED <<caller, store, durableTurn, artifacts, spent>>

-----------------------------------------------------------------------------
\* The process ends, at any point, and a new one starts on the same database:
\* start_driver loads the image, finish_startup opens the admission.
Restart ==
  /\ spent.restarts < MaxRestarts
  /\ spent' = [spent EXCEPT !.restarts = @ + 1]
  /\ admission' = Started(Len(store.log))
  /\ channel' = <<>>
  /\ caller' = [c \in Callers |-> Idle]
  /\ worker' = Working(Len(store.log), store.epoch)
  /\ store' = [store EXCEPT !.open = TRUE]
  /\ durableTurn' = Len(store.log)
  /\ artifacts' = [issued |-> 0, completed |-> 0]

Worker ==
  \/ RecvTurn \/ RecvArtifact \/ RecvControl \/ RecvDeferred \/ RecvDisconnected
  \/ Collect \/ EndCollect
  \/ FlushNothing \/ Commit \/ MarkDurable \/ FlushFails \/ CompleteArtifacts
  \/ AnswerQuery \/ RefuseControl \/ CommitControl \/ FailControl
  \/ AcknowledgeControl \/ ShutDown \/ ShutDownDropped \/ ExitLoop

\* The requests a host makes: a turn is the next one as it sees it, an
\* activation is built on the image as it was loaded.
Request(c) ==
  \/ BeginControl(c, Query, 0, None)
  \/ \E p \in Payloads : BeginControl(c, Immediate, admission.next, p)
  \/ \E p \in Payloads \cup {None} : BeginControl(c, Activate, worker.epoch, p)
  \/ BeginControl(c, Shutdown, 0, None)

\* What a thread does on its own, once it is in a call.
Proceed(c) ==
  \/ Release(c)
  \/ SendControl(c) \/ EndControl(c) \/ DropCoordinator(c)
  \/ SendArtifact(c) \/ FindWorkerGone(c)

Caller(c) ==
  \/ Reserve(c)
  \/ \E p \in Payloads : Enqueue(c, p)
  \/ Request(c)
  \/ BeginArtifact(c)
  \/ Proceed(c)

Next ==
  \/ \E c \in Callers : Caller(c)
  \/ Worker
  \/ Restart

Spec == Init /\ [][Next]_vars

\* The worker thread runs, and no thread stays for ever in a call or keeps a
\* reservation for ever.
FairSpec == Spec /\ WF_vars(Worker) /\ \A c \in Callers : WF_vars(Proceed(c))

-----------------------------------------------------------------------------
(* Properties *)

\* The turns among the messages s, in order.
TurnsAt(s) == {i \in DOMAIN s : s[i].kind = "turn"}
Rank(s, i) == Cardinality({j \in TurnsAt(s) : j <= i})
Turns(s) ==
  [n \in 1 .. Cardinality(TurnsAt(s)) |-> s[CHOOSE i \in TurnsAt(s) : Rank(s, i) = n]]

\* The turns accepted and not yet committed, in order: those the worker has
\* taken, unless it has just committed them, then those in the channel.
InFlight ==
  (IF worker.pc = "mark" THEN <<>> ELSE worker.pending) \o Turns(channel)

Payload(s) == [i \in DOMAIN s |-> s[i].payload]

\* The worker implements the promise of DurableTurns: whatever is batched,
\* retried, refused or lost in a crash, the database holds a prefix of the
\* turns accepted, in the order they were accepted.
Promise == INSTANCE DurableTurns
             WITH log <- store.log \o Payload(InFlight), durable <- Len(store.log)
KeepsItsPromise == Promise!Spec

\* The turns the admission counts as pending are exactly those under way, in
\* order, without a gap from what is reported durable to the next turn, for as
\* long as the worker has them.
Tracked == (IF worker.pc = "mark" THEN worker.pending ELSE <<>>) \o InFlight
PendingMatchesQueue ==
  ~ReceiverGone =>
  /\ admission.pending = [i \in DOMAIN Tracked |-> Tracked[i].seq]
  /\ \A i \in DOMAIN Tracked : Tracked[i].seq = durableTurn + i

\* mark_durable never refuses what the driver has committed, so the cursor
\* never falls behind the database (which would fail every later checkpoint).
CommittedIsAcknowledged ==
  /\ worker.pc = "mark" =>
       MarkDurableAccepts(worker.pending[Len(worker.pending)].seq)
  /\ worker.pc \notin {"mark", "acknowledge"} =>
       worker.through = Len(store.log) /\ worker.epoch = store.epoch

\* A request answered with success covers every turn accepted before it was
\* sent, and its own turn: they are in the database, and reported so.
AnswerCoversTurns ==
  \A c \in Callers : caller[c].reply = "ok" =>
    /\ caller[c].covers <= Len(store.log) /\ caller[c].covers <= durableTurn
    /\ caller[c].request.kind = Immediate =>
         store.log[caller[c].request.seq] = caller[c].request.payload

\* No turn is accepted while a control request runs, so mark_activation can
\* never give the next turn a number that is already taken.
ControlRunsAlone ==
  /\ worker.pc = "acknowledge" => admission.reservations = 0 /\ Tracked = <<>>
  /\ ~ReceiverGone => admission.next = durableTurn + Len(Tracked) + 1

\* The shared admission state, the worker and the database agree: on which turns
\* are pending, that none is while a control request runs, and on what is durable.
AdmissionInvariant ==
  TypeOK /\ PendingMatchesQueue /\ ControlRunsAlone /\ CommittedIsAcknowledged

\* Every control request is answered, although it waits for reservations, for
\* room and for its reply; every artifact request is completed, unless the worker
\* ends.
RequestsAreAnswered ==
  /\ \A c \in Callers :
       caller[c].pc = "draining" ~> caller[c].pc # "draining" /\ caller[c].pc # "awaiting"
  /\ artifacts.completed < artifacts.issued
       ~> artifacts.completed = artifacts.issued \/ ReceiverGone

\* As long as the database fails no command, every accepted turn becomes
\* durable without another request.
TurnsSettle ==
  admission.pending # <<>> /\ spent.failures = 0
    ~> admission.pending = <<>> \/ spent.failures > 0

\* The policy of the persistence plan: an accepted turn is checkpointed within
\* a bounded interval, whatever the host does next.
AcceptedBecomesDurable ==
  admission.pending # <<>> ~> admission.pending = <<>>
=============================================================================
