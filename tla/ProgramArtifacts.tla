--------------------------- MODULE ProgramArtifacts ---------------------------
(***************************************************************************)
(* The programs embedded in a document, and the lane that stores the       *)
(* artifacts compiled for them.  The host thread reconciles the parent's   *)
(* descriptors (boon_program_runtime/src/program_host.rs), takes compile   *)
(* outcomes and polls the store lane (boon_host_runtime/src/persistent.rs, *)
(* ProgramArtifactLanes); a compile worker and the persistence worker run  *)
(* beside it.  An artifact is put into the database first, a turn of the   *)
(* parent then makes it owned, and a compaction deletes what nobody owns.  *)
(*                                                                         *)
(* A handler of the host is one step, a transformation of the record of    *)
(* what the host thread may change.  Programs are given by their source:   *)
(* stored artifacts, bootstraps and the load lane are left out, and so are *)
(* ephemeral programs, which are never stored.  The worker's protocol is   *)
(* PersistenceWorker's, reduced to the order of its commands.              *)
(***************************************************************************)
EXTENDS Integers, Sequences, FiniteSets, FiniteSetsExt

CONSTANTS
  Sessions,          \* logical program sessions of the document
  Archives,          \* the sessions whose programs are archived; others are replaceable
  Sources,           \* program sources
  Broken,            \* sources that do not compile
  Unstartable,       \* sources whose compiled program does not start
  Bytes,             \* the size of the artifact of each source
  Mounted,           \* the program of each session when the document is mounted
  Descriptors,       \* the programs the parent may ask for later
  None,
  MaxStoreSessions,  \* MAX_PROGRAM_ARTIFACT_STORE_SESSIONS
  MaxStoreBytes,     \* MAX_PROGRAM_ARTIFACT_STORE_BYTES
  QueueCapacity,     \* turns not yet durable, and messages to the worker
  MaxRetained,       \* MAX_RETAINED_CONTENT_ARTIFACTS
  MaxStaged,         \* MAX_STAGED_CONTENT_ARTIFACTS
  MaxRevision,       \* bound: revisions of a program
  MaxEdits,          \* bound: changes of the parent's document
  MaxMishaps         \* bound: compactions, and what the database or the parent refuses

ASSUME ConstantsAssumption ==
  /\ Archives \subseteq Sessions
  /\ Broken \subseteq Sources /\ Unstartable \subseteq Sources
  /\ Bytes \in [Sources -> Nat \ {0}]
  /\ Mounted \in [Sessions -> [revision : 1 .. MaxRevision, source : Sources]]
  /\ Descriptors \in
       [Sessions -> SUBSET [revision : 1 .. MaxRevision, source : Sources]]
  /\ {MaxStoreSessions, MaxStoreBytes, QueueCapacity, MaxRetained, MaxStaged} \subseteq Nat \ {0}
  /\ {MaxRevision, MaxEdits, MaxMishaps} \subseteq Nat

VARIABLES
  program,     \* ProgramDocumentHost::programs
  lane,        \* ProgramArtifactStoreLane
  link,        \* the coordinator as the host sees it: messages, turns, completions
  compiler,    \* ProgramCompileWorker: pending requests and their outcomes
  ended,       \* an error has left the host's loop
  unsaved,     \* history: the requests whose store has ended in a diagnostic
  disk,        \* the database, and the batch the persistence worker holds
  spent        \* how much of each bound is used

vars == <<program, lane, link, compiler, ended, unsaved, disk, spent>>

-----------------------------------------------------------------------------
(* Programs and artifacts *)

\* PreparedProgramRevisionIdentity; with the session it is the request id.
Identity == [revision : 1 .. MaxRevision, source : Sources]
Request == [session : Sessions, id : Identity]

\* The plan in an artifact names its session's application, so two sessions
\* never share one; the revision is not in it.
Content(r) == <<r.session, r.id.source>>
Size(r) == Bytes[r.id.source]

\* program_artifact_ownership: a replaceable program has one slot for its
\* session, an archived one an owner for each request.
Owner(r) == <<r.session, IF r.session \in Archives THEN r.id ELSE None>>

\* HostedProgram: the last current identity, the latest request, is it under
\* way, the active program and the diagnostic of a refused request.
HostedProgram ==
  [current : Identity \cup {None}, requested : 0 .. MaxRevision,
   request : Identity \cup {None}, inFlight : BOOLEAN,
   active : Identity \cup {None}, diagnostic : Nat \X Nat]

NoDiagnostic == <<0, 0>>

NewProgram ==
  [current |-> None, requested |-> 0, request |-> None, inFlight |-> FALSE,
   active |-> None, diagnostic |-> NoDiagnostic]

\* None stands for Option::None: it is none of the values it is told from.
ASSUME NoneAssumption == None \notin Identity /\ None \notin Request /\ None \notin HostedProgram

\* A session's pending store: its place in the order of the pending stores, and
\* whether its quiet period is over.
Pending(n, r) == [sequence |-> n, request |-> r, quiet |-> r.session \in Archives]
NoStore == [sequence |-> 0, request |-> None, quiet |-> FALSE]
Entry == [sequence : Nat, request : Request \cup {None}, quiet : BOOLEAN]

\* Messages to the worker: a turn with its ownership change, an artifact to
\* put, a compaction.
Msg(k, r) == [kind |-> k, request |-> r]
Message == [kind : {"turn", "put", "compact"}, request : Request \cup {None}]

Owners == Sessions \X (Identity \cup {None})
Contents == Sessions \X Sources

\* Every variable has its type.
TypeOK ==
  /\ program \in [Sessions -> HostedProgram \cup {None}]
  /\ lane \in [pending : [Sessions -> Entry], flight : Request \cup {None},
               ready : Request \cup {None}, awaiting : Request \cup {None},
               ticket : Nat, bytes : Int]
  /\ link \in [channel : Seq(Message), sent : Nat, durable : Nat,
               completion : {"none", "ok", "err"}, waiting : BOOLEAN]
  /\ compiler \in [pending : [Sessions -> Identity \cup {None}], outcomes : Seq(Request)]
  /\ ended \in BOOLEAN
  /\ unsaved \subseteq Request
  /\ disk.stored \subseteq Contents
  /\ DOMAIN disk.manifest \subseteq Owners
  /\ disk.batch \in Seq(Message)
  /\ spent \in [edits : Nat, compactions : Nat, failures : Nat]

\* ProgramDocumentHost::mount: every program of the document is requested.
Init ==
  /\ program = [s \in Sessions |->
       [NewProgram EXCEPT !.current = Mounted[s], !.requested = Mounted[s].revision,
                          !.request = Mounted[s], !.inFlight = TRUE]]
  /\ lane = [pending |-> [s \in Sessions |-> NoStore], flight |-> None, ready |-> None,
             awaiting |-> None, ticket |-> 0, bytes |-> 0]
  /\ link = [channel |-> <<>>, sent |-> 0, durable |-> 0, completion |-> "none",
             waiting |-> FALSE]
  /\ compiler = [pending |-> Mounted, outcomes |-> <<>>]
  /\ ended = FALSE
  /\ unsaved = {}
  /\ disk = [stored |-> {}, manifest |-> [o \in {} |-> None], batch |-> <<>>]
  /\ spent = [edits |-> 0, compactions |-> 0, failures |-> 0]

-----------------------------------------------------------------------------
(* What the host's handlers are made of: each maps the record h of the      *)
(* host's state to the next one, and does nothing once an error is raised.  *)

HostState ==
  [program |-> program, lane |-> lane, link |-> link, compiler |-> compiler,
   ended |-> ended, unsaved |-> unsaved]

HostBecomes(h) ==
  /\ program' = h.program
  /\ lane' = h.lane
  /\ link' = h.link
  /\ compiler' = h.compiler
  /\ ended' = h.ended
  /\ unsaved' = h.unsaved

\* try_reserve_turn and enqueue, and the channel they send on.
HasRoom(h) ==
  /\ h.link.sent - h.link.durable < QueueCapacity
  /\ Len(h.link.channel) < QueueCapacity

Sent(h, owned) ==
  [h EXCEPT !.link.sent = @ + 1, !.link.channel = Append(@, Msg("turn", owned))]

\* dispatch_lifecycle of a rejection: a turn of the parent.  Without room for
\* it the error leaves the host's loop.
Dispatch(h) == IF HasRoom(h) THEN Sent(h, None) ELSE [h EXCEPT !.ended = TRUE]

IsCurrent(h, r) ==
  LET p == h.program[r.session] IN p # None /\ p.request = r.id

\* validate_completion_artifact, and the first checks of complete.
IsAwaited(h, r) == IsCurrent(h, r) /\ h.program[r.session].inFlight

\* ProgramDocumentHost::complete and finish_host_completion with an artifact,
\* whose lifecycle turn has been or will be dispatched on its own.
Activate(h, r) ==
  LET p == h.program[r.session] IN
  IF ~IsAwaited(h, r) THEN h
  ELSE [h EXCEPT !.program[r.session] =
          [p EXCEPT !.inFlight = FALSE,
                    !.active = IF r.id.source \in Unstartable THEN @ ELSE r.id]]

\* The same with a diagnostic: the parent is told.
Reject(h, r) ==
  IF ~IsAwaited(h, r) THEN h
  ELSE Dispatch([h EXCEPT !.program[r.session].inFlight = FALSE])

\* A store ends in a diagnostic (enqueue_store's limits, drive_authority,
\* finish_store).  Whatever the retention, the request is rejected if it is
\* awaited: an archived one, and a draft that was removed and added again since.
\* A draft that is active by now keeps running, and nobody is told.
FailStore(h, r) == Reject([h EXCEPT !.unsaved = @ \cup {r}], r)

-----------------------------------------------------------------------------
(* The store lane *)

\* pending_by_session: the sessions with a pending store.
Queued(l) == {s \in Sessions : l.pending[s].request # None}

InLane(h) ==
  ({h.lane.flight, h.lane.ready, h.lane.awaiting} \ {None})
    \cup {h.lane.pending[s].request : s \in Queued(h.lane)}

StoreSessions(h) == {r.session : r \in InLane(h)}

\* next_sequence: of the numbers given to the candidates only the order counts.
NextSequence(l) == 1 + Max({0} \cup {l.pending[s].sequence : s \in Queued(l)})

\* The oldest candidate whose quiet period is over.
Oldest(l) ==
  LET eligible == {s \in Queued(l) : l.pending[s].quiet} IN
  {s \in eligible : \A t \in eligible : l.pending[s].sequence <= l.pending[t].sequence}

\* drive_store: it is put, unless another store is under way or the channel is full.
DriveStore(h) ==
  IF \/ h.ended
     \/ {h.lane.flight, h.lane.ready, h.lane.awaiting} # {None}
     \/ Oldest(h.lane) = {}
     \/ Len(h.link.channel) >= QueueCapacity
    THEN h
    ELSE LET s == CHOOSE t \in Oldest(h.lane) : TRUE
             r == h.lane.pending[s].request
         IN [h EXCEPT !.lane = [h.lane EXCEPT !.flight = r, !.pending[s] = NoStore],
                      !.link.channel = Append(@, Msg("put", r))]

\* A faulty variant: the bytes of the entry it takes the place of are not freed.
EnqueueStoreLeaking(h, r) ==
  LET l == h.lane
      joins == l.flight # None /\ Content(l.flight) = Content(r)
      projected == l.bytes + Size(r)
  IN IF \/ r.session \notin StoreSessions(h)
             /\ Cardinality(StoreSessions(h)) >= MaxStoreSessions
        \/ projected > MaxStoreBytes
       THEN FailStore(h, r)
       ELSE DriveStore([h EXCEPT !.lane =
              [l EXCEPT !.flight = IF joins THEN r ELSE @,
                        !.pending[r.session] = IF joins THEN NoStore
                                               ELSE Pending(NextSequence(l), r),
                        !.bytes = projected]])

\* pending_store and enqueue_store: a candidate gets its number, then takes the
\* place of the session's older one or joins the flight of the same content.
EnqueueStore(h, r) ==
  LET l == h.lane
      joins == l.flight # None /\ Content(l.flight) = Content(r)
      freed == (IF r.session \in Queued(l) THEN Size(l.pending[r.session].request) ELSE 0)
                 + (IF joins THEN Size(l.flight) ELSE 0)
      projected == l.bytes - freed + Size(r)
  IN IF \/ r.session \notin StoreSessions(h)
             /\ Cardinality(StoreSessions(h)) >= MaxStoreSessions
        \/ projected > MaxStoreBytes
       THEN FailStore(h, r)
       ELSE DriveStore([h EXCEPT !.lane =
              [l EXCEPT !.flight = IF joins THEN r ELSE @,
                        !.pending[r.session] = IF joins THEN NoStore
                                               ELSE Pending(NextSequence(l), r),
                        !.bytes = projected]])

\* A faulty variant: every program is activated before it is stored.
CompleteProgramAtOnce(h, r) ==
  LET activated == Activate(h, r) IN
  IF ~IsAwaited(h, r) THEN h
  ELSE IF r.id.source \in Broken THEN Reject(h, r)
  ELSE IF r.id.source \in Unstartable THEN activated
  ELSE EnqueueStore(activated, r)

\* complete_program, for the outcome of a compilation.  A replaceable program
\* is activated before it is stored, an archived one once its ownership is durable.
CompleteProgram(h, r) ==
  LET activated == Activate(h, r) IN
  IF ~IsAwaited(h, r) THEN h
  ELSE IF r.id.source \in Broken THEN Reject(h, r)
  ELSE IF r.session \in Archives THEN EnqueueStore(h, r)
  ELSE IF r.id.source \in Unstartable THEN activated
  ELSE EnqueueStore(activated, r)

\* poll_durability and finish_store: the ownership is durable.
PollDurability(h) ==
  LET r == h.lane.awaiting
      done == [h EXCEPT !.lane = [h.lane EXCEPT !.awaiting = None, !.ticket = 0,
                                                !.bytes = @ - Size(r)]]
  IN IF h.ended \/ r = None \/ h.link.durable < h.lane.ticket THEN h
     ELSE IF r.session \in Archives THEN Activate(done, r) ELSE done

\* A faulty variant: a request that is no longer current stays where it is.
DriveAuthorityInPlace(h, refused) ==
  LET r == h.lane.ready IN
  IF h.ended \/ r = None \/ ~IsCurrent(h, r) \/ ~HasRoom(h) THEN h
  ELSE [Sent(h, r) EXCEPT !.lane = [h.lane EXCEPT !.ready = None, !.awaiting = r,
                                                  !.ticket = h.link.sent + 1]]

\* drive_authority: the stored artifact gets its owner in a turn of the
\* parent, unless the request is no longer current; without room it waits.  The
\* turn is refused when the document has not exactly one route for it, or when
\* the parent fails it, for example as it would start an effect.
DriveAuthority(h, refused) ==
  LET r == h.lane.ready
      dropped == [h EXCEPT !.lane = [h.lane EXCEPT !.ready = None, !.bytes = @ - Size(r)]]
  IN IF h.ended \/ r = None THEN h
     ELSE IF ~IsCurrent(h, r) THEN dropped
     ELSE IF refused THEN FailStore(dropped, r)
     ELSE IF ~HasRoom(h) THEN h
     ELSE [Sent(h, r) EXCEPT !.lane = [h.lane EXCEPT !.ready = None, !.awaiting = r,
                                                     !.ticket = h.link.sent + 1]]

\* A faulty variant: the result of the store is not looked at.
TakeAnyCompletion(h) ==
  IF h.ended \/ h.link.completion = "none" THEN h
  ELSE [h EXCEPT !.lane.flight = None, !.lane.ready = h.lane.flight,
                 !.link.completion = "none"]

\* poll's own loop over the completed stores.
TakeCompletion(h) ==
  LET r == h.lane.flight
      taken == [h EXCEPT !.lane.flight = None, !.link.completion = "none"]
  IN IF h.ended \/ h.link.completion = "none" THEN h
     ELSE IF h.link.completion = "ok" THEN [taken EXCEPT !.lane.ready = r]
     ELSE FailStore([taken EXCEPT !.lane.bytes = @ - Size(r)], r)

-----------------------------------------------------------------------------
(* The host thread *)

HostRuns == ~ended /\ ~link.waiting
MayDisturb == spent.compactions + spent.failures < MaxMishaps
Fails(fail) ==
  /\ fail => MayDisturb
  /\ spent' = [spent EXCEPT !.failures = IF fail THEN @ + 1 ELSE @]

\* reject_program_request: the parent is told once of each diagnostic.
RejectRequest(h, s, diagnostic) ==
  LET p == h.program[s]
      refused == [h EXCEPT !.program[s] = [p EXCEPT !.diagnostic = diagnostic,
                                                    !.request = None, !.inFlight = FALSE]]
  IN IF p.diagnostic = diagnostic THEN refused ELSE Dispatch(refused)

\* A faulty variant: a descriptor is requested whatever came before it.
ScheduleAny(h, s, id) ==
  LET p == IF h.program[s] = None THEN NewProgram ELSE h.program[s] IN
  [h EXCEPT !.program[s] = [p EXCEPT !.current = id, !.requested = id.revision,
                                     !.request = id, !.inFlight = TRUE,
                                     !.diagnostic = NoDiagnostic],
            !.compiler.pending[s] = id]

\* schedule_requests, for the session whose descriptor has changed; it leaves
\* the others as they are.
Schedule(h, s, id) ==
  LET p == IF h.program[s] = None THEN NewProgram ELSE h.program[s]
      older == /\ p.current # None
               /\ \/ id.revision < p.current.revision
                  \/ id.revision = p.current.revision /\ id # p.current
      found == [h EXCEPT !.program[s] = p]
      current == [h EXCEPT !.program[s] = [p EXCEPT !.current = id]]
  IN IF older THEN RejectRequest(found, s, <<id.revision, p.current.revision>>)
     ELSE IF p.active = id
       THEN [current EXCEPT !.program[s] = [@ EXCEPT !.diagnostic = NoDiagnostic,
                                                     !.inFlight = FALSE]]
     ELSE IF p.request = id THEN current
     ELSE IF id.revision <= p.requested
       THEN RejectRequest(current, s, <<id.revision, p.requested>>)
     ELSE [current EXCEPT !.program[s] = [@ EXCEPT !.requested = id.revision,
                                                   !.request = id,
                                                   !.inFlight = TRUE,
                                                   !.diagnostic = NoDiagnostic],
                          !.compiler.pending[s] = id]

\* A turn of the parent changes or removes the descriptor of a program.
Edit(s, id) ==
  /\ HostRuns
  /\ HasRoom(HostState)
  /\ spent.edits < MaxEdits
  /\ spent' = [spent EXCEPT !.edits = @ + 1]
  /\ \E h \in {Schedule(Sent(HostState, None), s, id)} : HostBecomes(h)
  /\ UNCHANGED disk

Remove(s) ==
  /\ HostRuns
  /\ HasRoom(HostState)
  /\ program[s] # None
  /\ spent.edits < MaxEdits
  /\ spent' = [spent EXCEPT !.edits = @ + 1]
  /\ HostBecomes([Sent(HostState, None) EXCEPT !.program[s] = None])
  /\ UNCHANGED disk

\* complete_program_observed.
TakeOutcome ==
  /\ HostRuns
  /\ compiler.outcomes # <<>>
  /\ \E h \in {[HostState EXCEPT !.compiler.outcomes = Tail(@)]} :
       \E h1 \in {CompleteProgram(h, Head(compiler.outcomes))} : HostBecomes(h1)
  /\ UNCHANGED <<disk, spent>>

\* poll_program_artifacts and ProgramArtifactLanes::poll, on every tick while
\* the lane holds something.
Poll(refused) ==
  /\ HostRuns
  /\ InLane(HostState) # {}
  /\ refused => lane.ready # None \/ link.completion = "ok"
  /\ Fails(refused)
  /\ \E h1 \in {PollDurability(HostState)} :
     \E h2 \in {DriveAuthority(h1, refused)} :
     \E h3 \in {TakeCompletion(h2)} :
     \E h4 \in {DriveAuthority(h3, refused)} :
     \E h5 \in {PollDurability(h4)} :
     \E h6 \in {DriveStore(h5)} : HostBecomes(h6)
  /\ UNCHANGED disk

\* A quiet period ends.
QuietEnds(s) ==
  /\ s \in Queued(lane)
  /\ ~lane.pending[s].quiet
  /\ lane' = [lane EXCEPT !.pending[s].quiet = TRUE]
  /\ UNCHANGED <<program, link, compiler, ended, unsaved, disk, spent>>

\* The user asks for a compaction; the host thread waits for the answer.
Compact ==
  /\ HostRuns
  /\ Len(link.channel) < QueueCapacity
  /\ MayDisturb
  /\ spent' = [spent EXCEPT !.compactions = @ + 1]
  /\ link' = [link EXCEPT !.waiting = TRUE, !.channel = Append(@, Msg("compact", None))]
  /\ UNCHANGED <<program, lane, compiler, ended, unsaved, disk>>

-----------------------------------------------------------------------------
(* The compile worker *)

\* program_compile_loop takes the latest request of a session.
Compile(s) ==
  /\ compiler.pending[s] # None
  /\ compiler' = [pending |-> [compiler.pending EXCEPT ![s] = None],
                  outcomes |-> Append(compiler.outcomes,
                                      [session |-> s, id |-> compiler.pending[s]])]
  /\ UNCHANGED <<program, lane, link, ended, unsaved, disk, spent>>

-----------------------------------------------------------------------------
(* The persistence worker *)

\* apply_durable_content_artifact_changes, for the turns of a batch.
Changes(batch) == {batch[i].request : i \in DOMAIN batch} \ {None}

LastChange(batch, o) ==
  CHOOSE i \in DOMAIN batch :
    /\ batch[i].request # None /\ Owner(batch[i].request) = o
    /\ \A j \in DOMAIN batch :
         (batch[j].request # None /\ Owner(batch[j].request) = o) => j <= i

Owning(manifest, batch) ==
  [o \in DOMAIN manifest \cup {Owner(r) : r \in Changes(batch)} |->
     IF \E r \in Changes(batch) : Owner(r) = o
       THEN Content(batch[LastChange(batch, o)].request) ELSE manifest[o]]

Owned(manifest) == {manifest[o] : o \in DOMAIN manifest}

\* validate_content_artifact_storage: no dangling binding, and neither the
\* owned nor the staged artifacts are too many.
StorageIsValid(manifest, stored) ==
  /\ Owned(manifest) \subseteq stored
  /\ Cardinality(Owned(manifest)) <= MaxRetained
  /\ Cardinality(stored \ Owned(manifest)) <= MaxStaged

\* flush_pending and the native commit: a batch without changes of ownership
\* does not look at the artifacts; one that fails stays with the worker.
Committable(batch) ==
  Changes(batch) = {} \/ StorageIsValid(Owning(disk.manifest, batch), disk.stored)

\* The worker collects some of the turns at the head of its channel.
WorkerTurns(n, fail) ==
  LET batch == disk.batch \o SubSeq(link.channel, 1, n) IN
  /\ n \in 1 .. Len(link.channel)
  /\ \A i \in 1 .. n : link.channel[i].kind = "turn"
  /\ Fails(fail)
  /\ IF ~fail /\ Committable(batch)
       THEN /\ disk' = [disk EXCEPT !.manifest = Owning(@, batch), !.batch = <<>>]
            /\ link' = [link EXCEPT !.channel = SubSeq(@, n + 1, Len(@)),
                                    !.durable = @ + Len(batch)]
       ELSE /\ disk' = [disk EXCEPT !.batch = batch]
            /\ link' = [link EXCEPT !.channel = SubSeq(@, n + 1, Len(@))]
  /\ UNCHANGED <<program, lane, compiler, ended, unsaved>>

\* handle_async_artifact and put_content_artifact: no checkpoint comes first.
WorkerPut(fail) ==
  /\ link.channel # <<>>
  /\ Head(link.channel).kind = "put"
  /\ Fails(fail)
  /\ LET stored == disk.stored \cup {Content(Head(link.channel).request)}
         ok == ~fail /\ StorageIsValid(disk.manifest, stored)
     IN /\ disk' = [disk EXCEPT !.stored = IF ok THEN stored ELSE @]
        /\ link' = [link EXCEPT !.channel = Tail(@),
                                !.completion = IF ok THEN "ok" ELSE "err"]
  /\ UNCHANGED <<program, lane, compiler, ended, unsaved>>

\* The batch is flushed, then native compact deletes the artifacts that
\* nobody owns; either may fail.  The caller is answered in any case.
WorkerCompact(fail) ==
  LET flushed == fail # "flush" /\ Committable(disk.batch)
      manifest == IF flushed THEN Owning(disk.manifest, disk.batch) ELSE disk.manifest
  IN
  /\ link.channel # <<>>
  /\ Head(link.channel).kind = "compact"
  /\ fail = "flush" => disk.batch # <<>>
  /\ Fails(fail # "nothing")
  /\ disk' = [stored |-> IF flushed /\ fail = "nothing"
                           THEN disk.stored \cap Owned(manifest) ELSE disk.stored,
              manifest |-> manifest,
              batch |-> IF flushed THEN <<>> ELSE disk.batch]
  /\ link' = [link EXCEPT !.channel = Tail(@), !.waiting = FALSE,
                          !.durable = IF flushed THEN @ + Len(disk.batch) ELSE @]
  /\ UNCHANGED <<program, lane, compiler, ended, unsaved>>

Worker ==
  \/ \E n \in 1 .. QueueCapacity, fail \in BOOLEAN : WorkerTurns(n, fail)
  \/ \E fail \in BOOLEAN : WorkerPut(fail)
  \/ \E fail \in {"nothing", "flush", "compact"} : WorkerCompact(fail)

Next ==
  \/ \E s \in Sessions : \E id \in Descriptors[s] : Edit(s, id)
  \/ \E s \in Sessions : Remove(s) \/ QuietEnds(s) \/ Compile(s)
  \/ \E refused \in BOOLEAN : Poll(refused)
  \/ TakeOutcome \/ Compact
  \/ Worker

Spec == Init /\ [][Next]_vars

\* The two workers run, time passes, and the host's loop takes compile outcomes
\* and polls the lane: none of them stops while there is something to do.
Progress ==
  \/ \E s \in Sessions : QuietEnds(s) \/ Compile(s)
  \/ \E refused \in BOOLEAN : Poll(refused)
  \/ TakeOutcome \/ Worker

FairSpec == Spec /\ WF_vars(Progress)

-----------------------------------------------------------------------------
(* Properties *)

SizeOrZero(r) == IF r = None THEN 0 ELSE Size(r)

\* queued_bytes is exactly what the lane holds.
BytesBalance ==
  lane.bytes = SizeOrZero(lane.flight) + SizeOrZero(lane.ready) + SizeOrZero(lane.awaiting)
                 + SumFunctionOnSet([s \in Sessions |-> SizeOrZero(lane.pending[s].request)],
                                    Queued(lane))

\* The lane keeps to its limits, and its counter of bytes is exact: a leak
\* would refuse every later store (enqueue_store, remove_waiter_bytes).
LaneInvariant ==
  /\ TypeOK
  /\ BytesBalance
  /\ lane.bytes <= MaxStoreBytes
  /\ Cardinality(StoreSessions(HostState)) <= MaxStoreSessions

IsOwned(r) ==
  Owner(r) \in DOMAIN disk.manifest /\ disk.manifest[Owner(r)] = Content(r)

\* An archived program runs only when the database owns its artifact, whatever
\* failed or was compacted on the way.  A replaceable one runs before that, in
\* spite of what dispatch_with_content_artifact_changes asks of its caller; while
\* it is the current request it is owned or on its way through the lane, unless
\* its store has ended in a diagnostic: no request, outcome, failure or
\* compaction that comes in between makes it miss its owner without one.
ActiveIsOwned ==
  \A s \in Sessions :
    (program[s] # None /\ program[s].active # None) =>
      LET r == [session |-> s, id |-> program[s].active] IN
      IF s \in Archives THEN IsOwned(r)
      ELSE IsCurrent(HostState, r) => IsOwned(r) \/ r \in unsaved \cup InLane(HostState)

\* What waits to be committed: the worker's batch, then the messages on their
\* way, of which only a turn changes an owner.
Uncommitted ==
  LET q == disk.batch \o link.channel IN
  [i \in DOMAIN q |-> IF q[i].kind = "turn" THEN q[i] ELSE Msg("turn", None)]

\* What is owned is stored.  As long as nobody compacts, no checkpoint is refused
\* for an artifact that is not stored or for the number of staged artifacts: one
\* refused checkpoint would hold back every later turn.
CheckpointsAreAdmissible ==
  LET manifest == Owning(disk.manifest, Uncommitted) IN
  /\ Owned(disk.manifest) \subseteq disk.stored
  /\ spent.compactions = 0 =>
       /\ Owned(manifest) \subseteq disk.stored
       /\ Cardinality(disk.stored \ Owned(manifest)) <= MaxStaged

\* A program in the document never goes back to an older revision: late compile
\* outcomes and late stores do not replace a newer program.
ActiveNeverGoesBack ==
  [][\A s \in Sessions :
       (program[s] # None /\ program'[s] # None /\ program[s].active # None) =>
         /\ program'[s].active # None
         /\ program'[s].active.revision >= program[s].active.revision]_vars

\* A checkpoint has failed and nothing makes the worker try again.
Stalled == disk.batch # <<>> /\ link.channel = <<>>

\* Every request for a program is settled and its store leaves the lane, unless
\* an error has ended the host or the persistence worker is stalled.
ProgramsSettle ==
  \A s \in Sessions :
    (\/ s \in StoreSessions(HostState)
     \/ program[s] # None /\ program[s].inFlight)
    ~> (\/ ended \/ Stalled
        \/ /\ s \notin StoreSessions(HostState)
           /\ program[s] # None => ~program[s].inFlight)

==============================================================================
