# Formal models of Boon's Sessions and persistent hosts

Boon Circuit compiles a program into a plan and runs it, on the desktop or as three
cooperating *islands*: a **Client** island in a browser tab, one **Session** island per
tab on the server, and one **Server** island. The islands exchange values, events and
calls; a host keeps a program's state durable, performs its effects and runs its timers.
This directory holds TLA+ models of the parts where concurrency, failure and recovery
meet: the transport between a tab and its Session, the way a tab gets its Session back,
the server's registry of Sessions, the persistence worker, the durable outbox of
effects, the artifacts of embedded programs and the timers. TLC configurations check the
models on small instances, and TLAPS proofs establish the main invariants for all
instances.

All source paths below are under `src/crates/`.

## 1. Inventory

### Components, their state and their operations

| Component | Where | State | Operations |
|---|---|---|---|
| Client/Session link | `boon_distributed_runtime/src/link.rs` | generation, next number to send, number acknowledged by the peer, number applied, fingerprints of the last 256 operations, pending Ack and Resync | new, rebind, rebase, allocate, classify and accept a reception, accept an acknowledgement, encode control |
| Outbound queue | `boon_distributed_runtime/src/client_session.rs` | numbered operations not yet acknowledged, each sent or not in a generation | push (a newer value replaces an unsent one), encode next, mark sent, acknowledge through, resend from |
| Client runtime | `client.rs` | endpoint, link, queue, one leased frame, connected flag | bind, mark current, mark stale, dispatch, accept a Session frame, lease and acknowledge a frame |
| Session runtime | `session.rs` | the same, an inbound queue and a queue to the Server | instantiate, rebind, mark stale, admit and poll a Client frame, lease and acknowledge a frame |
| Endpoint protocol | `endpoint.rs` | revisions sent and accepted per edge, pending calls, call demand, tombstones, replays | accept a message, publish what a turn exported |
| Browser handshake | `boon_web_host/src/distributed_session.rs` | token journal (in sessionStorage), handshake state, socket epoch, browser queues | start, accept a server frame, revoke, connect, disconnect, abort |
| Server transport | `boon_server_runtime/src/lib.rs` | phase of each host connection, outstanding send | open, close, Hello, Commit, data, Revoke, poll |
| Session registry | `boon_server_runtime/src/distributed_sessions.rs` | slots, resume index, pending handshakes, connections, byte counters, round-robin cursor | begin and commit a handshake, disconnect, revoke, admit, poll, clean up, expire |
| Server router | `boon_server_runtime/src/router.rs` | Server endpoint with one origin per Session: accepted revisions, calls leased, results | attach, settle and expire an origin; accept an event, an invocation, a call or its detachment; publish to all |
| Wire format | `boon_wire` | none | encode and decode |
| Persistence worker | `boon_persistence/src/worker.rs`, `native.rs` | admission (accepting, closed, reservations, pending turns, next turn), channel, batch, durable cursor, database | reserve, enqueue, control request, artifact request; collect, commit, mark durable, activate, shut down, restart |
| Durable effects | `boon_persistence/src/lib.rs`, `boon_host_runtime/src/persistent.rs`, `effects.rs` | outbox items, the host's index of them, turns waiting to be durable, actions ready, the effect in flight | a turn that starts an effect, poll, activate, restart |
| Timers | `boon_host_services/src/scheduler.rs` | state and slot of each timer, one-event channels, command channel, the worker's tasks and heap | schedule, receive, cancel, drop, shut down; fire, renew |
| Embedded programs | `boon_program_runtime/src/program_host.rs`, `boon_host_runtime/src/persistent.rs`, `boon_native_playground/src/compile.rs` | per program its latest request, whether it is under way, the active program; the store lane (candidates, one flight, one waiting for authority or durability, bytes); pending compilations; stored artifacts and their owners | mount, reconcile and request, complete, enqueue, drive, poll; compile; put, commit ownership, compact |
| Program runtime and executor | `boon_program_runtime`, `boon_plan_executor`, `boon_runtime` | cells and lists of one program | one turn |
| Compiler, documents, native and browser front ends, tools | remaining crates | | |

### How they interact

A source event makes the Client's program run a turn. What the turn exports to the
Session is numbered by the link and queued; the browser host leases one frame at a
time, hands it to the socket and acknowledges the lease. On the server the frame is
admitted to the Session's inbound queue; `poll` of the registry later gives it to the
Session runtime, whose link classifies it as next, duplicate, gap or conflict. Taking
the next operation, running the program's turn and queueing what it publishes are one
transaction: under back-pressure nothing happens and the frame stays. Every data frame
acknowledges cumulatively; a receiver that sees a gap asks for a resend.

A socket belongs to one transport *generation*. When it ends, each side notices in its
own time. The tab reconnects with `ClientHello`, carrying a resume token from
sessionStorage and the number it has applied; the server offers the next generation, a
new token and the number the Session has applied; the tab journals the new token and
commits; the server rebinds the Session and answers `ServerReady`. Both ends empty
their queues, number from what the other has applied, and publish their values again.
Events and calls of the old generation are dropped by design.

The registry gives each slot three lanes: what the Server has for the Session, what the
tab has sent, and what the Session has for the Server. `poll` takes one message of one
lane of one slot at a time, round robin over slots and over lanes; a lane that finds a
queue full is left as it is. What a Session tells the Server, and what the Server
answers to it and to all other Sessions, is one transaction.

A host's turns are accepted at once and written later. Threads reserve a slot, enqueue
a turn, or make a control request that first waits for all reservations; one worker
thread collects turns into a batch, commits it and reports what is durable. An effect
is a record in the durable outbox: it is claimed in a turn, leaves only when that turn
is durable, and its outcome is another turn; after a crash a claimed effect is
reconciled, not repeated.

A document may embed programs whose text the user edits. Every change of a descriptor is
a request to a compile worker, of which only the latest per program counts. What it
returns is stored in two steps, because the database does not take an artifact and its
owner together: the artifact is put first, a turn of the parent then makes it owned, and
a compaction deletes what nobody owns. A *replaceable* program (a draft) is activated
before it is stored and stored after a quiet period; an *archived* one (a publication)
is activated when its owner is durable. Timers belong to one worker thread and are
shared with the threads that own and cancel them through atomics, one lock each and
channels.

### What is hard

Two ends that disagree about whether the socket exists; numbers handed over through a
handshake that takes several steps; a leased frame that is neither sent nor unsent; a
tab that reloads or a server that restarts between any two steps; a token that is
rotated on two machines without a common commit; limits on every queue, with
back-pressure that must not turn into a deadlock; failures half-way through giving up a
connection; a crash between an effect and its record; two steps that belong together and
that another command can separate; a thread that checks a flag and acts after the flag
has changed. `PROJECT.json` lists these hazards with the line where each one bites.

### What makes the components correct

* Link and queue: the watermarks of the two ends agree, and what is not acknowledged can
  be resent.
* Runtimes: on the socket in use no frame is ever refused; values converge; events are
  delivered in order, once, in their generation only; calls are answered.
* Handshake and registry: a tab can always name its Session; offers can be kept; both
  ends agree on the binding; a revoked Session is gone; an abandoned one is reclaimed.
* Registry and Server: the byte counters are exact; nothing is lost between a Session and
  the Server; a shared value reaches every Session, also one that was away; every Session
  is served.
* Persistence: the database holds a prefix of the accepted turns, in order; success means
  durable; every request is answered.
* Effects: nothing leaves before its record is durable; nothing happens twice; everything
  recorded is completed.
* Embedded programs: a late result never replaces a newer program; an archived program
  runs only when the database owns it; a checkpoint never names an artifact that is not
  there; the lane's limits are kept by exact counters; every request settles.
* Timers: slots are counted exactly; cancellation is final; intervals stay on their grid;
  deadlines fire; nobody waits for ever.

## 2. Modules

| Module | Models |
|---|---|
| `ClientSessionLink` | `link.rs`. A link is a record, each method an operator; the conditions under which a method fails are operators of their own. |
| `OutboundQueue` | The queue of `client_session.rs`, as a set of entries ordered by number. |
| `GenerationChannel` | Abstract: what the transport promises the events of one direction. |
| `ClientSessionTransport` | Both runtimes, the socket between them, and the resume of a Session as far as it moves numbers. Extends the two modules above, and states refinement of `GenerationChannel` in both directions. |
| `SessionResume` | Handshake, token journal and socket life cycle of the tabs; connection phases, pending handshakes and slots of the server. |
| `SessionRegistry` | The registry's lanes, accounting and service, each Session's protocol state towards the Server, and the Server's origins. |
| `DurableTurns` | Abstract: what persistence promises its host. |
| `PersistenceWorker` | Coordinator, worker thread and native driver. States refinement of `DurableTurns`. |
| `HostEffects` | The durable effect lane on top of what `DurableTurns` promises. |
| `ProgramArtifacts` | The programs embedded in a document, the lane that stores their artifacts, the compile worker, and the artifact tables of the database. |
| `HostScheduler` | `SystemScheduler`, its timers and its worker thread. |
| `MC...` | Instances for TLC. |
| `ClientSessionTransportProofs`, `SessionResumeProofs`, `SessionRegistryProofs`, `PersistenceWorkerProofs`, `HostEffectsProofs`, `HostSchedulerProofs`, `ProgramArtifactsProofs` | Proofs. |
| `Sums` | Proofs about sums over finite sets (`SumFunctionOnSet`) and `Max`. |

### ClientSessionTransport

`link`, `outbound` and `lease` are the fields of the two runtimes; `phase` combines
`connected` with what the host does after an error; `sent`, `accepted` and `pending`
are the endpoint's protocol state for one value export, one event export and one call
site per direction; `wire` is the socket together with the Session's inbound queue;
`offer` is the pending handshake. `base` is a history variable for the refinement.

| Action | Code |
|---|---|
| `Publish` | `route_prepared_with_transport` of a turn that was not caused by a frame |
| `LeaseFrame` | `next_session_frame`, `next_client_frame`: Resync, then data, then a bare Ack |
| `TransmitLeased` | the host sends the leased bytes and acknowledges the lease; a send that fails is the absence of this step |
| `ReceiveNext`, `ReceiveOutOfOrder`, `ReceiveControl`, `ReceiveRefused` | `accept_session_frame`, `poll_client_frame` by classification; `ReceiveNext` includes the program's turn, its reply and its publications |
| `ClientOverflow` | the Client cannot queue what a reception makes it publish; its host stops |
| `ClientBind`, `ClientDisconnect`, `SessionDisconnect` | `bind` and `mark_current`, `mark_stale` of either runtime |
| `BeginResume`, `CommitResume`, `DropOffer` | the registry's part of a resume |
| `Reload` | a new page with a new Client runtime |
| `LoseFrame`, `RepeatFrame` | faults of a transport worse than a WebSocket; the link's Resync and fingerprints exist for them |

Messages are abstracted to kind and revision; a fingerprint is the message itself.
Byte limits are left out (they cause the same `QueueFull` as the message limit), and
so is overflow of `u64` numbers.

### SessionResume

A socket carries at most one offer, so a socket's number also names the token offered
on it and the Session first offered on it. `refused` is a history variable. Time is
abstracted: a handshake may expire at any moment and a stale slot too. Frames sent to
an end that has left are lost. Queue pressure (`is_queue_pressure`) is a choice that
may strike each registry operation that writes to a queue, bounded by `MaxPressure`;
the outcomes are those of the code's error paths, including a slot that stays
`Connected` because giving it up could not begin.

The actions are named after the handlers: `BeginConnect`, `Receive*`, `Revoke`,
`SocketDisconnected` and `Reload` for the tab; `BeginFresh`, `BeginResume`,
`RejectHello`, `CommitFresh`, `CommitResume`, `CommitFails`, `CloseConnection`,
`RevokeSession`, `Poison`, `SendData`, `ExpireHandshake`, `ExpireSession`,
`ContinueCleanup` and `ServerRestart` for the server.

### SessionRegistry

The registry is owned by one thread, so a method is a step and `Poll` is one round of
the loop. The program is that of `tests/distributed_session_loopback.rs`, with a call
that can be dropped and one invocation added so that every kind of message occurs.
`slots` holds a slot's connection state, its inbound frames, `pending_server_messages`
with the byte counter, and `next_lane`; `sessions` the protocol state of the Session's
endpoint and `outbound_server`; `origins` the Server's `OriginState`. A tab is a source of
frames and of acknowledgements; what it is sent occupies the Session's queue until it
is acknowledged. Tabs outside `Responsive` have stalled: they never acknowledge.

| Action | Code |
|---|---|
| `CommitFresh`, `CommitResume` | `commit_fresh`, `commit_resume` with `attach` or `set_origin_status(Current)` |
| `Disconnect`, `Revoke`, `Expire` | `begin_stale_cleanup` and `drive_cleanup`, `revoke`, the end of the resume window |
| `Send`, `Acknowledge` | `admit_client_frame` |
| `Poll` | `poll`: choice of slot and lane, then `poll_server_delivery`, `poll_client_admission`, `poll_session_delivery`, `drive_cleanup`, or the removal of a Session whose message was refused |

Only what can be told apart is kept of a value: the numbers it is computed from. A
message counts one byte, or two with a value. Handshakes are those of `SessionResume`.

### DurableTurns and PersistenceWorker

`admission` is `AdmissionState` with `worker_alive`; `caller` is where each thread stands in
a call; `worker` has the locals of `worker_main` and the durable cursor; `store` is the
database. Each critical section of the admission mutex is one step, each command to
the driver another, so a crash (`Restart`) can come between any two. Any command may
fail, `MaxFailures` times; a database given up fails them all. Control messages are
abstracted to four kinds by what they do to turns: queries, an immediate turn, an
activation or reset, and shutdown; the asynchronous artifact store and load are one
kind. A thread's actions are `Reserve`, `Enqueue`, `Release`, `BeginControl`, `SendControl`,
`EndControl`, `DropCoordinator`, `BeginArtifact`, `SendArtifact`, `FindWorkerGone`; the
worker's follow `worker_main`, `collect_batch`, `flush_pending` and `handle_control`.

The refinement maps the abstract log to the turns in the database followed by those
collected and those in the channel, and `durable` to the length of the database's log.

### HostEffects

The persistence layer is what `DurableTurns` says it is: `tail` is accepted and not
durable, `outbox` is what the durable prefix amounts to. Items go from absent through
pending, dispatching and perhaps reconcile to completed. `effectWork` and `durableWork`
are the host's two indexes, `pending` the turns that wait to be durable with the action
each releases, `ready` the actions released, `lane` the effect worker. What a log of
turns makes of an outbox is `After`: of the turns that touch an item the last one
decides; and promotion pops the longest durable prefix of `pending` (`Acknowledged`).
The actions are the host's methods (`Dispatch`, `DispatchDurably`, the four outcomes of
`poll_effect_worker`, `Activate`), `Checkpoint`, the worker's `Perform`, `Return` and
`Fail`, and `Crash`. A poll that fails, because a question about an effect failed or no
turn could be reserved, ends the host's loop (`preview.rs:2210`): `ended`, until a
`Crash` starts it again. That the outside world performs an action while the driver is
in its call, and can say later whether it did, is assumed: it is the driver's contract.

### ProgramArtifacts

The host runs on one thread, so each of its handlers is one step. The code's functions
call one another with the lanes, the document host and the coordinator in hand; the
operators do the same with a record `h` of what the host thread may change, and the
first error that would leave the host's loop (`ended`) stops them.

| Action | Code |
|---|---|
| `Edit`, `Remove` | a turn of the parent, then `reconcile` and `schedule_requests` |
| `TakeOutcome` | `complete_program_observed`: `complete_program` with `finish_host_completion`, `enqueue_store`, `drive_store` |
| `Poll` | `poll` of the lanes: `poll_durability`, `drive_authority`, the completed stores with `finish_store`, and again, then `drive_store` |
| `QuietEnds` | 34 ms pass |
| `Compact` | the user's maintenance command; the host waits for the answer |
| `Compile` | `program_compile_loop` |
| `WorkerTurns`, `WorkerPut`, `WorkerCompact` | the persistence worker with `commit`, `put_content_artifact` and `compact` of the native driver |

A plan names the application of its session, so two sessions never share an artifact: a
flight has one waiter, and the lane has at most one entry waiting for authority or
durability at a time. `pending` is `pending_by_session`; of a candidate's number only
its place among those still pending is kept. A compiled program is what its source makes
of it: fine, broken (it does not compile) or unstartable. The worker's protocol is that
of `PersistenceWorker`, reduced to the order of its commands; it gathers any number of
the turns at the head of its channel. `unsaved` is a history variable: the requests
whose store ended in a diagnostic (`FailStore`, which `finish_host_completion` follows
for every retention). `Poll(refused)` covers the errors of `drive_authority` that are
neither back-pressure nor admission, one compiled route too many or too few and a turn
that is refused: the entry leaves the lane without an owner. Left out: programs given by
a stored artifact and the load lane, bootstraps, ephemeral programs, remounting the
document, a coordinator that is closed, a parent whose lifecycle turns change its own
descriptors at once, and the byte limits of the database beside its limits on numbers.

### HostScheduler

A step is one access to something shared: an atomic, a channel, or what happens under a
timer's delivery lock; storing `Completed` and sending the event are two steps under
that lock, since receivers take none. A timer stands for the thread that schedules and
owns it too. `late` and `last` are history variables. Time is a small number that moves on
at any moment, so a task may be found any number of periods late.

### Faulty variants

Definitions introduced by "A faulty variant" are not part of any specification: each
is a plausible bug in one definition, and each property has one that breaks it.

## 3. Runs

| Run | Bounds | Checks |
|---|---|---|
| `transport_reliable` | Session value, Client events and calls; queue 2, socket buffer 2, two publications per kind, three generations | `TypeOK`, `NeverFails`, `LeaseIsQueued`, `SessionValueConverges` |
| `transport_faulty` | Session value and events, three generations, two faults | `UnacknowledgedIsQueued`, `WatermarksAgree`, `EventsKeepToTheirGeneration` |
| `transport_live` | events and calls both ways, one of each, queue 2, two generations, one reload | `HandoverInvariant` (the inductive invariant of the proof), `EventsAreDelivered`, `CallsAreAnswered` |
| `resume_safety` | two tabs, one slot, two pending handshakes, four sockets, one revocation, one pressure failure | `RegistryInvariant` (`TypeOK`, `ResumeHasItsSlot`, `OffersAreHonoured`, `BindingAgrees`), `TokenIsJournaled`, `RevokedIsGone`, `OnlyRevocationFails` |
| `resume_live` | one tab, three sockets, one reload, one restart, one revocation, one pressure failure | `SlotsAreReclaimed`, `HandshakeEnds` |
| `registry` | two Sessions, one of them with a stalled tab; queues of two messages and four bytes; two frames, one disconnection, one resume | `AccountingInvariant` (`TypeOK`, `BytesBalance`), `NothingIsLost` (with `SequencesHoldUntilResume`), `TotalIsOnItsWay`, `ServedUnlessQueuesAreFull` |
| `persistence` | two threads, two payloads, capacity 2, batches of 2, two turns, two control requests, one artifact, one failure, one crash | `AdmissionInvariant` (`TypeOK`, `PendingMatchesQueue`, `ControlRunsAlone`, `CommittedIsAcknowledged`), `AnswerCoversTurns`, `KeepsItsPromise` (refinement of `DurableTurns`), `RequestsAreAnswered`, `TurnsSettle` |
| `effects` | two items, capacity 2, one turn without effect, two driver errors, one activation, one crash | `OutboxInvariant` (`TypeOK`, `IndexFollowsStore`, `ResultFindsItem`, `OneEffectAtATime`), `DispatchedIsDurable`, `AppliedAtMostOnce`, `EffectsComplete` |
| `artifacts` | a draft and a publication, two edits or removals, three revisions of four sources; turns and channel of two, one staged and two owned artifacts, three units of bytes in the lane; one compaction, failing command or refused ownership turn | `LaneInvariant` (`TypeOK`, `BytesBalance`, the lane's limits), `ActiveIsOwned`, `CheckpointsAreAdmissible`, `ActiveNeverGoesBack`, `ProgramsSettle` |
| `scheduler` | one deadline and one interval, one slot, four instants | `TimerInvariant` (`TypeOK`, `SlotsBalance`, `ActiveIsScheduled`, `CompletedHasItsEvent`, `ShutdownClosesTimers`), `CancelIsFinal`, `EventsKeepTheGrid`, `DeadlinesFire`, `ReceiveEnds`, `SlotsReturn` |

The comment before each property in its module says what it means for the code.

Why the bounds are enough. Transport: a queue and a buffer of two hold a sent and an
unsent operation at once and fill up; two values make one replace the other; the replay
window of two is exceeded by three operations; a second generation is the first resume,
and a third lets a resume meet what an earlier resume left behind. Resume: in
`resume_safety` four sockets let one tab connect, lose a resume after journalling its
token, have that token refused, and fall back to the older one. Registry: a stalled and
a responsive Session fill their queues at different times, two frames make a call
replace a call and an event follow an event, and one disconnection with one resume
covers becoming stale with anything queued. Persistence: a batch of two is full or not,
the channel is full with a turn and an artifact, and a failure and a crash can each hit
any step of a batch or a request. Effects: an item can be started by the other's
completion, two errors make a dispatch fail and its reconciliation fail as well.
Artifacts: two edits let a program be replaced while it is compiled, while it waits,
while it is stored and while its owner waits to be durable; the limits are small enough
for each to be met: a lane full of bytes, a second staged artifact, a third owned one,
no room for a turn. Scheduler: the timers compete for one slot, so that one is refused
while the other lives; four instants let an interval be up to three periods late.
Deadlock checking is off everywhere, because a system that has used up a bound, or whose
tab is closed, may stop.

### Disagreements between code and documents

Two runs are expected to violate their property; `PROJECT.json` quotes the line that
states it.

* `persistence_stall`: a batch whose commit failed stays in the worker until another
  message arrives; accepted turns may never be written.
* `registry_demand`: a call request still queued when the socket ends is dropped and not
  sent again after the resume.

Eleven more were met while modelling and have no run of their own. The models contain the
behaviour; the properties that hold are stated so as to except it.

* Dropping a call whose first request is still queued replaces that request by a
  detachment (`boon_distributed_runtime/src/message.rs:154`), which the Server refuses as
  an invalid lease, and the Session is removed. The test at `message.rs:379` calls current
  calls latest-wins. `SequencesHoldUntilResume` excepts the error `lease`.
* The Client, unlike the Session, publishes while a frame is leased
  (`boon_distributed_runtime/src/client.rs:592`). After a failed send, the retry of the old
  bytes marks the newer value as sent, and it is never transmitted. `SessionValueConverges`
  is stated for the Session's value only.
* A reloaded page resumes its Session with revisions that start at 1
  (`endpoint.rs:1553`); the Session refuses its first event and is removed. `NeverFails` is
  checked without reloads.
* A fresh attempt after a refused token still carries the old `applied_server_through` and
  is refused although there is room (`distributed_sessions.rs:609`).
* A token refused for a passing reason is discarded by the tab
  (`boon_web_host/src/distributed_session.rs:303`), which then cannot name its Session.
  `TokenIsJournaled` excepts tokens the server has refused.
* One `QueueFull` while a connection is given up leaves a slot connected for ever
  (`boon_server_runtime/src/lib.rs:1934`). `SlotsAreReclaimed` names it: a slot is
  abandoned only by a step that meets that failure, and every other one is reclaimed.
* A timer whose `Add` is sent behind `Shutdown`, because `reserve_slot` had seen a running
  scheduler, stays active with its slot, while the test
  `production_shutdown_joins_worker_and_marks_pending_timers` has every pending timer
  marked. `ShutdownClosesTimers` excepts such timers, and only them.

* A compaction between the Put of an artifact and the commit of its owner deletes the
  artifact (`boon_persistence/src/native.rs:1126`); the checkpoint is then refused as a
  dangling binding each time it is tried, and with it every later turn. The limit on owned
  artifacts has the same effect, since it is checked at the commit and not at the Put.
  `CheckpointsAreAdmissible` is stated without compaction and without that limit, and
  `ProgramsSettle` excepts a stalled worker.
* Replaceable programs run before they are stored, while the comment at
  `boon_host_runtime/src/persistent.rs:1545` says that the caller "must not activate the
  corresponding child program until `durability_ticket_is_acknowledged` returns true". Only
  archived programs keep to it; `ActiveIsOwned` says so.
* A valid draft that is followed by an invalid edit before its owner is committed is
  dropped as no longer current (`persistent.rs:3758`), although it stays active: the last
  valid artifact is not the one the database owns. `ActiveIsOwned` speaks of the current
  request only.
* A replaceable program whose store is refused, fails, or is left without an owner stays
  active, and its parent is not told: the request is no longer in flight
  (`program_host.rs:1334`), so the diagnostic counts as superseded. If the draft was removed
  and added again meanwhile, the request is in flight again, and the old store's failure
  rejects it with a turn; the program compiled for it is then superseded.
  `ActiveIsOwned` excepts requests whose store ended in a diagnostic, and only those.

`ServedUnlessQueuesAreFull` names the two ways in which a Session with a responsive tab
can stop being served: an event of its tab waits for the acknowledgement behind it, or
the Server's delivery to all Sessions waits for the full queue of a stalled one.

### Fairness

`ClientSessionTransport` assumes weak fairness of leasing, transmitting and receiving at
each end: the browser pumps its socket on every message and timer, and the server polls
while a slot has runnable work. A Client without room for a reply ends
(`ClientOverflow`) rather than wait, so receiving is fair for it even then; a Session
that waits for room (`WaitsForRoom`) is not assumed to get any. `SessionResume` assumes
that both hosts deliver what has arrived, that the server's host learns at some time
that the peer of a socket has gone (the operating system reports it or a send times
out), and that `poll` goes on cleaning up. `SessionRegistry` assumes that the host
polls, and that a responsive tab acknowledges. `PersistenceWorker` assumes that the
worker's thread runs and that a thread inside a call goes on, which includes that nobody
keeps a reservation for ever: it is held for the length of one turn. `HostEffects`
assumes that the host polls while it has effect work and no poll has failed, that the
effect worker's thread runs, and that accepted turns are checkpointed, which
`persistence_stall` shows to need a database that does not fail, or further messages.
`ProgramArtifacts` assumes that the compile and persistence workers run, that a quiet
period ends, and that the host's loop takes compile outcomes and polls the lane on its
ticks, which it schedules while the lane holds something; it assumes nothing of edits,
compactions and failures. `HostScheduler` assumes that the worker and the clock go on,
that a blocked receiver is woken, and that a cancellation is finished. No fairness is
assumed of reconnecting, publishing, scheduling, cancelling, expiry or faults; the
liveness properties hold, or are released, without them.

`EventsAreDelivered` and `CallsAreAnswered` state the case in which the queue limit stops
them: a request whose reply needs room stays at the head of the Session's inbound queue
(`session.rs:261`), in front of the acknowledgement that would make room, and for ever
(`[]WaitsForRoom`). With the limit of two the case is met, and the properties fail without
the exception; the deployed limit is 64 messages. In the same way `EffectsComplete` excepts
a host that a failed poll has ended and nobody starts again.

## 4. Proofs

Twenty-eight theorems, for every value of the constants (four of them for a page that is not
reloaded or a transport without faults, as said below): numbers of tabs, threads, timers,
effects and sessions, limits, capacities, and how often things are published, fail,
restart, reload or compact. What is assumed of the constants are the named `ASSUME`s of the
modules, which TLC evaluates on every run: limits are natural numbers, those the code
never sets to 0 are not 0, the sets of threads and timers are finite, and the value that
stands for `Option::None` is none of the values it is told from.

None of the properties is inductive as it stands. Every proof module opens with the
strengthening it proves instead, as a conjunction of named parts. Where TLC can evaluate
it, it was checked on the module's instance before it was proved (`Counted` and `Moving`
claim that a number or a function exists, and are beyond TLC). Under it there is a lemma
for each action and in it a step for each part the action can disturb.

**The Client/Session transport.** `ClientSessionTransportProofs` opens with the lemmas on the
queue: pushing, acknowledging and marking keep the numbers it holds an interval.

* `TypeCorrect`: `Spec => []TypeOK`, over lemmas on the
  types of links, frames, queues and wires.
* `WatermarksAlwaysAgree`, `HandoverAlwaysHolds` (same module).
  `WatermarksAgree` speaks of two links, and the numbers travel between them in frames, in
  the server's offer and in Ready. `HandoverInvariant` adds that every frame still able to
  arrive numbers and acknowledges no more than its sender's link (`FramesAgree`), that
  nothing is under way to an end without a socket (`ClosedWiresAreEmpty`), that an offer
  still holds what the waiting tab has applied (`OfferIsFresh`), that Ready holds what the
  Session has applied while the Session started from what the tab has applied
  (`ReadyIsFresh`), and that the tab is never ahead of the Session's generation
  (`GenerationsAgree`). The actions are grouped by what they do to these numbers: quiet
  steps, receptions, rebinding steps.
* `UnacknowledgedAlwaysQueued` (same module). The queue of a connected end holds exactly the
  numbers between acknowledged and last numbered, each once. A rebound end starts with an
  empty queue and numbers from what the peer has applied, so the interval starts empty.
* `EventsStayInGeneration` (same module, invariant `EventsInvariant`): both
  directions implement `GenerationChannel`, with lost and repeated frames, on a page that is
  not reloaded; with a reload the revisions of the page start again, so the old page's
  channel ends with it. No end remembers which operation number carried which event. But
  an operation, once numbered, never changes between event and no event, so there is a
  count c of the events at or below each number (`Counted`): every entry of the queue, every
  lease and every frame of the generation agrees with c, repeated frames too (`Tallies`),
  and c at the last operation applied is the last event delivered. Delivering the next
  operation therefore delivers the next event or none. `FramesAreOld` keeps the frames of
  earlier generations out, `EventsBounded` starts the count of the next one.
* `NoFrameIsRefused`, `LeaseIsAlwaysQueued` (same module, invariant
  `ReliableInvariant`), assuming no faults and no reloads. There is a last operation t that an
  end has sent (`Carried`): the queue's marks reach exactly to t, a lease is for t + 1, and the
  socket carries the operations after the applied one up to t, in order, each once. Among
  what is queued, leased or under way and not applied, revisions of one kind grow with the
  operation numbers, and each is one the endpoint of the other end will accept: a request
  whose call is pending, a result of a call that is waiting for it (`Orderly`). Since a
  queue entry that was sent is never replaced, a push does not disturb what is under way.
* `SessionValueAlwaysConverges` (same module, invariant `ValueInvariant`). What is under way
  from the Session is what its queue holds under that number (`Matches`), because the
  Session does not push while a frame is leased; and its last value is accepted by the tab
  or queued under a number that is not applied yet (`Latest`). An empty queue leaves the first.

  TLC shows that the assumptions are needed for `NeverFails`, with a lost or repeated frame as
  well as with a reload, and for `LeaseIsQueued` with faults; with a reload `LeaseIsQueued` and
  `SessionValueConverges` still hold on the instance of `transport_reliable`, but not the
  invariant they are proved from, which includes that nothing is refused.

**SessionResume** (`SessionResumeProofs`, invariant `ResumeInvariant`).

* `RegistryKeepsItsBooks`, `TokensAreJournaled`, `RevocationIsFinal` and the action property
  `NothingElseFails`. The invariant says which frames may be on their way to a tab in each
  of its phases (`WiresSuit`), that sockets go from hello over commit and current to
  closed and never back, and what the two tokens of a journal are: the one in use is not
  being offered any more, no slot has one while another has the other, and a handshake
  for the pending one resumes the Session of the current one (`JournalsSuit`,
  `OffersSuit`, `ReadySuits`). A token is safe because of the order in which the journal is
  written, the commit sent and the slot taken over.

**SessionRegistry** (`SessionRegistryProofs`, invariant `SlotsInvariant`).

* `AccountsAreTrue`, `NothingIsEverLost`, `TotalAlwaysOnItsWay`. What the invariant says of a
  slot, its Session and its origin (`Suits`) does not mention other slots; only the total is
  common to all. So a step on one slot has to restore `Suits` for that slot, and a delivery to
  all is for every other slot the arrival of one message. `Suits` adds to the properties: which
  kinds of message are in which queue, and that a slot without its tab holds the total only
  (`QueuesSuit`); that at most one call is queued, with the Session's last revision, which
  is news to the Server (`CallsSuit`); that at most one result is pending, and is the
  Server's last unless the call was dropped (`ResultsSuit`); what a result that was accepted
  says of the Server's call (`GotSuits`); and that, until the Session is resumed, queued events, invocations and
  answers are numbered on from what the receiving end has accepted, without a gap
  (`Numbered` in `FirstSuits`). From these no message is refused before a resumption, except the
  detachment of a call the Server was never told of. After a resumption only the total and
  the bytes are claimed, and `registry_demand` shows why. The global counter is a sum over
  the slots, and each step says what it adds to or takes from one term of it (`LoadsChange`,
  `GlobalAfterIsSum`).
* A queue is filtered by the kinds of its messages (`OfKinds`, a recursive function of the
  length). What filtering does to an appended, a concatenated, a shortened or an already
  filtered queue is proved by taking the shortest queue for which it would fail
  (`EverySequence`).

**PersistenceWorker** (`PersistenceWorkerProofs`, invariant `CoordinatorInvariant`).

* `AdmissionAlwaysAgrees`, `AnswersAlwaysCover`: a request is in one place at a time, and
  behind it the channel has only artifact commands (`RequestIsLast`), which takes the
  control lock (one thread asks at a time) and the count of reservations (none is left
  when the request is sent, `CallersSuit`, `ReservationsAreHeld`). The turns under way are
  numbered on from the cursor without a gap (`TurnsAreNumbered`), and the cursor is behind
  the database exactly between a commit and its acknowledgement (`CursorSuits`).
* `KeepsPromise`: the worker implements `DurableTurns`. Initial states map to initial
  states; a reservation that is enqueued maps to `Accept`, a commit to `Persist`, an
  immediate turn to `AcceptDurably`, the end of a worker with turns in hand or a restart to
  `Lose`, and every other step is a stutter. `Turns`, the turns of a channel in their order, is
  defined by position (`TurnsAt`, `Rank`), so that what a send and a receive do to it can be
  proved.

**HostEffects** (`HostEffectsProofs`, invariant `EffectsInv`).

* `DispatchIsDurable`, `EffectsHappenOnce`, `OutboxAgrees`. The host's index is the durable
  outbox with the accepted turns applied, and so is the index kept with each entry of
  `pending`, up to that entry's turn (`PendingFollows`, `LastIsIndex`). An action that waits,
  is ready or is in the worker's hands finds its item as its claim left it, and no accepted
  turn behind the claim touches the item (`ClaimsWait`, `ReadyClaims`, `LaneInv`): so when the
  claim's turn is durable the outbox has what the action says. One action is under way
  (`Single`), which is why a result needs no search. For at most once: an item whose effect
  has happened is started in the outbox and in the index, and no turn in between enqueues
  or begins it (`StartedSays`), so a restart finds it to ask about; an item is completed only
  if its effect happened (`CompletedSays`). Every turn of the lane that is not durable has its
  entry in `pending` (`TailWaits`), so when nothing is pending the lane may ask about an item
  without waiting for a turn.

**HostScheduler** (`HostSchedulerProofs`, invariant `SchedulerInvariant`).

* `TimersAlwaysAgree`, `CancellationIsFinal`, `ReceivedOnTheGrid`. The task of a timer is in
  one place: on its way to the worker, in the worker's hands, or among its tasks with the
  timer's only entry of the heap (`OnePlace`); a timer that keeps its slot has its task
  somewhere (`SlotHasTask`); what the worker does not take from the channel was sent
  behind the Shutdown (`StopsOnce`). For the grid: the next occasion of an interval comes
  a whole number of periods behind every event its owner has received or may still
  receive (`OnTheGrid`), which integer division in the renewal keeps.

**ProgramArtifacts** (`ProgramArtifactsProofs`, invariant `ArtifactsInvariant`).

* `ProgramsNeverGoBack`, `ActiveIsAlwaysOwned`, `CheckpointsStayAdmissible`. A handler is a
  composition of operators on the record of the host's state, so the invariant `Sound` is
  an operator on that record, and each operator (`EnqueueStore`, `DriveStore`,
  `DriveAuthority`, ...) has a lemma that it keeps it; while `CompleteProgram` is between
  activating a draft and queueing it, that one request is exempt. At its heart is where
  the turn is that gives an artifact its owner: the lane has one store under way
  (`LaneIsSound`), the number of turns sent is the number durable, collected or in the
  channel (`TurnsAreCounted`), so the ticket's turn is found by counting, and no other turn
  on its way changes an owner (`OwnerIsOnItsWay`). Hence no later commit takes an owner
  away from a program that relies on it, a durable ticket means the owner is in the
  manifest, and what will be owned once everything is committed is the manifest with at
  most one more owner, whose artifact is stored as long as nobody compacts
  (`PutsAreStored`).
* `LaneKeepsItsLimits` (same module, invariant `LimitsInvariant`): the byte counter of the lane
  is exactly what its pending stores and the one under way hold, and the numbers of stores,
  sessions and bytes stay within their limits. The counter is a sum over the sessions with a
  pending store, so each operator on the lane comes with what it adds to or takes from that
  sum (`PendingChange`, `LaneChange`). The limit on sessions is checked against the sessions
  that hold a program or a store (`Holders`), which a store never leaves while it is queued
  or under way. It extends `ArtifactsInvariant`, which says that a ticket waits for a store.

**Sums.** The sum over a finite set, and the greatest element of one, are defined by a choice
of the order. `Sums` proves that the order does not matter and what adding or removing an
element does, by taking the smallest set for which it would fail: the least number of a
non-empty set of numbers exists by the well-foundedness of `Nat`, a fact without an operator
as a parameter.

Only model-checked:

* the liveness properties and anything that needs `ENABLED`, which the prover does not handle;
  every safety property that a passing run checks is also a theorem, `NeverFails`,
  `LeaseIsQueued` and `SessionValueConverges` under the assumptions named above.

## 5. Not modelled

* Pruning of call tombstones and invocation replays: it takes more than a thousand calls.
* Transient effects of Sessions and of the Server; the artifact load lane of the host,
  bootstraps and remounting; prepared turns that are rolled back.
* Migration of stored schemas, the codec, the browser's IndexedDB driver; HTTP.
* Storage errors of the browser, an unreadable journal, two tabs that share a copied
  sessionStorage, `u64` exhaustion.
* The compiler, type checker, plan executor, list indexes, documents and rendering, which
  are nine tenths of the repository's lines. They are sequential functions over syntax
  trees, plans and values of unbounded shape: a model small enough for TLC would keep none of
  what could be wrong in them, and one that kept it would be their text over again. The
  models take what a program's turn computes as a choice or as the numbers it depends on.

## 6. Plan

1. `LeaseIsQueued` and `SessionValueConverges` with reloads, from an invariant that leaves out
   what the Session refuses of a new page.
2. The artifact load lane with bootstraps, and the transient effects of a Session.
