---------------------------- MODULE HostEffects ----------------------------
(***************************************************************************)
(* The durable effect lane: the outbox transitions of                      *)
(* boon_persistence/src/lib.rs, PersistentRuntime's poll_effect_worker and *)
(* the turns around it (boon_host_runtime/src/persistent.rs), and the      *)
(* HostEffectWorker thread (effects.rs).  Below it is the persistence      *)
(* layer as DurableTurns promises it: `tail' is the part of its log that   *)
(* is accepted and not durable, `outbox' what its durable prefix amounts   *)
(* to, `durableTurn' the length of that prefix.                            *)
(*                                                                         *)
(* A method of PersistentRuntime is one step: one thread owns it.  The     *)
(* checkpoint, the effect worker and a crash of the process come in        *)
(* between.  An item's revision is left out: it is 2 * attempt, less one   *)
(* while the item is dispatching.                                          *)
(***************************************************************************)
EXTENDS Integers, Sequences, FiniteSetsExt

CONSTANTS
  Items,          \* outbox items, numbers: the index is ordered by item id
  NoItem,
  Capacity,       \* queue_capacity of the persistence worker
  MaxPending,     \* MAX_PENDING_EFFECT_DURABILITY
  MaxPlain,       \* bound: turns that start no effect
  MaxErrors,      \* bound: calls the effect driver fails
  MaxActivations, \* bound: plan activations
  MaxCrashes      \* bound: crashes of the process

ASSUME ConstantsAssumption ==
  /\ Items \subseteq Nat
  /\ NoItem \notin Items
  /\ {Capacity, MaxPending} \subseteq Nat \ {0}
  /\ {MaxPlain, MaxErrors, MaxActivations, MaxCrashes} \subseteq Nat

VARIABLES
  outbox,         \* the durable outbox
  tail,           \* the changes of the turns accepted and not durable
  durableTurn,    \* durable_through_turn_sequence
  effectWork,     \* effect_work: the outbox with the tail applied
  durableWork,    \* durable_effect_work: the outbox as far as acknowledged
  pending,        \* pending_effect_durability
  ready,          \* ready_effect_actions
  lane,           \* the HostEffectWorker: what is in flight, and its result
  applied,        \* external: how often each item's action has happened
  ended,          \* a poll returned an error: the host's loop left with it
  spent           \* how much of each bound is used

vars == <<outbox, tail, durableTurn, effectWork, durableWork, pending, ready,
          lane, applied, ended, spent>>

-----------------------------------------------------------------------------
(* The outbox *)

\* A completed item is removed from the outbox by the checkpoint that stores
\* its outcome in the authority state.
ItemState == [state : {"absent", "pending", "dispatching", "reconcile", "completed"},
              attempt : Nat]
Absent == [state |-> "absent", attempt |-> 0]

Change == [op : {"enqueue", "begin", "reconcile", "complete", "none"},
           item : Items \cup {NoItem}, attempt : Nat, next : Items \cup {NoItem}]
Plain == [op |-> "none", item |-> NoItem, attempt |-> 0, next |-> NoItem]

Enqueues(i) == [op |-> "enqueue", item |-> i, attempt |-> 0, next |-> NoItem]

\* transition_outbox_item: from which states each change may go.
Allowed(box, ch) ==
  LET now == box[ch.item] IN
  CASE ch.op = "enqueue"   -> now = Absent
    [] ch.op = "begin"     -> \/ now.state = "pending" /\ ch.attempt = 1
                              \/ now.state = "reconcile" /\ ch.attempt = now.attempt + 1
    [] ch.op = "reconcile" -> now.state = "dispatching" /\ ch.attempt = now.attempt
    [] ch.op = "complete"  -> /\ now.state \in {"dispatching", "reconcile"}
                              /\ ch.attempt = now.attempt
    [] OTHER -> TRUE

NewState(op) ==
  CASE op = "enqueue" -> "pending"
    [] op = "begin" -> "dispatching"
    [] op = "reconcile" -> "reconcile"
    [] OTHER -> "completed"

\* apply_durable_outbox_changes on one turn: the change itself, and the item
\* the completed effect starts in the same turn.
Touches(ch, i) == i \in {ch.item, ch.next}
Written(ch, i) ==
  IF i = ch.item THEN [state |-> NewState(ch.op), attempt |-> ch.attempt]
                 ELSE [state |-> "pending", attempt |-> 0]
Apply(box, ch) == [i \in Items |-> IF Touches(ch, i) THEN Written(ch, i) ELSE box[i]]

\* The outbox `box' becomes when the first n changes of a log are applied in
\* turn: of those that touch an item, the last one decides.
After(box, log, n) ==
  [i \in Items |->
     LET hits == {k \in 1..n : Touches(log[k], i)}
     IN  IF hits = {} THEN box[i] ELSE Written(log[Max(hits)], i)]

Unfinished(s) == s.state \in {"pending", "dispatching", "reconcile"}

\* A faulty variant: only items that were never started are looked for.
HasPendingWork(box) == \E i \in Items : box[i].state = "pending"

\* EffectWorkIndex::next_work: the first unfinished item.
HasWork(box) == \E i \in Items : Unfinished(box[i])
NextWork(box) ==
  CHOOSE i \in Items : Unfinished(box[i]) /\ \A j \in Items : Unfinished(box[j]) => i <= j

-----------------------------------------------------------------------------
(* State *)

Operation == {"dispatch", "reconcile", "none"}
Action == [op : Operation, item : Items \cup {NoItem}, attempt : Nat]
NoAction == [op |-> "none", item |-> NoItem, attempt |-> 0]

\* What the driver answered: done (dispatched, or reconciled as applied),
\* notApplied (reconciled), failed.
Outcome == {"none", "done", "notApplied", "failed"}

Entry == [turn : Nat, work : [Items -> ItemState], action : Action]

Busy == lane.request # NoAction
IdleLane == [request |-> NoAction, performed |-> FALSE, result |-> "none"]

\* Every variable has its type.
TypeOK ==
  /\ outbox \in [Items -> ItemState]
  /\ tail \in Seq(Change)
  /\ durableTurn \in Nat
  /\ effectWork \in [Items -> ItemState]
  /\ durableWork \in [Items -> ItemState]
  /\ pending \in Seq(Entry)
  /\ ready \in Seq(Action)
  /\ lane \in [request : Action, performed : BOOLEAN, result : Outcome]
  /\ applied \in [Items -> Nat]
  /\ ended \in BOOLEAN
  /\ spent \in [plain : Nat, errors : Nat, activations : Nat, crashes : Nat]

NoItems == [i \in Items |-> Absent]

Init ==
  /\ outbox = NoItems
  /\ tail = <<>>
  /\ durableTurn = 0
  /\ effectWork = NoItems
  /\ durableWork = NoItems
  /\ pending = <<>>
  /\ ready = <<>>
  /\ lane = IdleLane
  /\ applied = [i \in Items |-> 0]
  /\ ended = FALSE
  /\ spent = [plain |-> 0, errors |-> 0, activations |-> 0, crashes |-> 0]

-----------------------------------------------------------------------------
(* Turns *)

\* try_reserve_turn and, for an effect turn, the limit of the lane.
CanAccept == Len(tail) < Capacity
CanAcceptEffect == CanAccept /\ Len(pending) < MaxPending

NextTurn == durableTurn + Len(tail) + 1

\* A source turn that starts no effect.
DispatchPlain ==
  /\ ~ended /\ CanAccept
  /\ spent.plain < MaxPlain
  /\ spent' = [spent EXCEPT !.plain = @ + 1]
  /\ tail' = Append(tail, Plain)
  /\ UNCHANGED <<outbox, durableTurn, effectWork, durableWork, pending, ready, lane, applied,
                 ended>>

\* admit_buffered_turn: a source turn that starts an effect.
Dispatch(i) ==
  /\ ~ended /\ CanAcceptEffect
  /\ effectWork[i] = Absent
  /\ tail' = Append(tail, Enqueues(i))
  /\ effectWork' = Apply(effectWork, Enqueues(i))
  /\ pending' = Append(pending, [turn |-> NextTurn, work |-> effectWork', action |-> NoAction])
  /\ UNCHANGED <<outbox, durableTurn, durableWork, ready, lane, applied, ended, spent>>

\* A checkpoint: the turns become durable in order.
Checkpoint ==
  /\ tail # <<>>
  /\ outbox' = Apply(outbox, Head(tail))
  /\ durableTurn' = durableTurn + 1
  /\ tail' = Tail(tail)
  /\ UNCHANGED <<effectWork, durableWork, pending, ready, lane, applied, ended, spent>>

\* A faulty variant: what is accepted counts as acknowledged.
AcknowledgedAll(n) == Len(pending)

\* promote_effect_durability pops what is durable through turn n off the front
\* of `pending': how many entries, what is left, the index as the last one has
\* it, and the actions they release, in their order.
Acknowledged(n) == Max({k \in 0..Len(pending) : \A j \in 1..k : pending[j].turn <= n})
StillPending(n) == SubSeq(pending, Acknowledged(n) + 1, Len(pending))

\* A faulty variant: the first entry that is durable, not the last.
PromotedFirst(n) == IF Acknowledged(n) = 0 THEN durableWork ELSE pending[1].work

PromotedWork(n) == IF Acknowledged(n) = 0 THEN durableWork ELSE pending[Acknowledged(n)].work

Released(n) == {k \in 1..Acknowledged(n) : pending[k].action # NoAction}
InOrder(S) ==
  [r \in 1..Cardinality(S) |-> CHOOSE k \in S : Cardinality({l \in S : l < k}) = r - 1]
PromotedReady(n) ==
  ready \o [r \in 1..Cardinality(Released(n)) |-> pending[InOrder(Released(n))[r]].action]

\* commit_unsettled_immediate: the tail and the turn itself become durable
\* before the call returns.  A call that fails is a Checkpoint or nothing.
DispatchDurably(i) ==
  /\ ~ended /\ effectWork[i] = Absent
  /\ LET box == Apply(effectWork, Enqueues(i)) IN
       /\ outbox' = box
       /\ effectWork' = box
       /\ durableWork' = box
  /\ tail' = <<>>
  /\ durableTurn' = NextTurn
  /\ pending' = <<>>
  /\ ready' = PromotedReady(NextTurn)
  /\ UNCHANGED <<lane, applied, ended, spent>>

-----------------------------------------------------------------------------
(* poll_effect_worker *)

Begins(i) ==
  [op |-> "begin", item |-> i, attempt |-> effectWork[i].attempt + 1, next |-> NoItem]
Reconciles(i) ==
  [op |-> "reconcile", item |-> i, attempt |-> effectWork[i].attempt, next |-> NoItem]
Completes(i, j) ==
  [op |-> "complete", item |-> i, attempt |-> effectWork[i].attempt, next |-> j]

\* enqueue_effect_turn_async: the turn is accepted, and `action' waits for it
\* to be durable.
EnqueueEffectTurn(ch, action) ==
  /\ CanAccept
  /\ Len(StillPending(durableTurn)) < MaxPending
  /\ Allowed(effectWork, ch)
  /\ tail' = Append(tail, ch)
  /\ effectWork' = Apply(effectWork, ch)
  /\ pending' = Append(StillPending(durableTurn),
                       [turn |-> NextTurn, work |-> effectWork', action |-> action])
  /\ UNCHANGED ended

\* claim_effect_for_dispatch_async and mark_effect_reconciliation_async.
ClaimForDispatch(i) ==
  EnqueueEffectTurn(Begins(i), [op |-> "dispatch", item |-> i, attempt |-> Begins(i).attempt])
MarkReconciliation(i) ==
  EnqueueEffectTurn(Reconciles(i), [op |-> "reconcile", item |-> i, attempt |-> Reconciles(i).attempt])

\* Every poll promotes first.
Promote ==
  /\ durableWork' = PromotedWork(durableTurn)
  /\ UNCHANGED <<outbox, durableTurn, applied, spent>>

\* The lane has a result, and it calls for a turn.  When a reconciliation has
\* failed, or no slot can be reserved for the turn, the poll returns an error:
\* the result is gone, the item stays as it was, and the loop of the host ends
\* (poll_host_effects and the preview's loop pass the error on).
TakeResult ==
  LET i == lane.request.item IN
  /\ ~ended /\ lane.result # "none"
  /\ Promote
  /\ ready' = PromotedReady(durableTurn)
  /\ lane' = IdleLane
  /\ \/ /\ lane.result = "done"
        /\ \E j \in {k \in Items : effectWork[k] = Absent} \cup {NoItem} :
             EnqueueEffectTurn(Completes(i, j), NoAction)
     \/ /\ lane.result = "failed" /\ lane.request.op = "dispatch"
        /\ MarkReconciliation(i)
     \/ /\ lane.result = "notApplied"
        /\ ClaimForDispatch(i)
     \/ /\ \/ lane.result = "failed" /\ lane.request.op = "reconcile"
           \/ ~CanAccept
           \/ Len(StillPending(durableTurn)) >= MaxPending
        /\ ended' = TRUE
        /\ pending' = StillPending(durableTurn)
        /\ UNCHANGED <<tail, effectWork>>

\* try_submit to an idle lane.
Submit(action) == lane' = [request |-> action, performed |-> FALSE, result |-> "none"]

SubmitReady ==
  /\ ~ended /\ lane.result = "none" /\ ~Busy
  /\ Promote
  /\ PromotedReady(durableTurn) # <<>>
  /\ Submit(Head(PromotedReady(durableTurn)))
  /\ ready' = Tail(PromotedReady(durableTurn))
  /\ pending' = StillPending(durableTurn)
  /\ UNCHANGED <<tail, effectWork, ended>>

\* A faulty variant: an item found dispatching is dispatched again.
StartWorkAgain ==
  LET work == PromotedWork(durableTurn)
      i == NextWork(work)
  IN
  /\ ~ended /\ lane.result = "none" /\ ~Busy
  /\ Promote
  /\ PromotedReady(durableTurn) = <<>>
  /\ ready' = <<>>
  /\ StillPending(durableTurn) = <<>>
  /\ HasWork(work)
  /\ \/ /\ work[i].state = "pending"
        /\ ClaimForDispatch(i)
        /\ UNCHANGED lane
     \/ /\ work[i].state = "dispatching"
        /\ Submit([op |-> "dispatch", item |-> i, attempt |-> work[i].attempt])
        /\ pending' = <<>>
        /\ UNCHANGED <<tail, effectWork, ended>>
     \/ /\ work[i].state = "reconcile"
        /\ Submit([op |-> "reconcile", item |-> i, attempt |-> work[i].attempt])
        /\ pending' = <<>>
        /\ UNCHANGED <<tail, effectWork, ended>>

\* With nothing else under way, the next item of the durable index.  Here as
\* well the host ends when it cannot reserve the turn.
StartWork ==
  LET work == PromotedWork(durableTurn)
      i == NextWork(work)
  IN
  /\ ~ended /\ lane.result = "none" /\ ~Busy
  /\ Promote
  /\ PromotedReady(durableTurn) = <<>>
  /\ ready' = <<>>
  /\ StillPending(durableTurn) = <<>>
  /\ HasWork(work)
  /\ \/ /\ work[i].state = "pending"
        /\ ClaimForDispatch(i)
        /\ UNCHANGED lane
     \/ /\ work[i].state = "dispatching"
        /\ MarkReconciliation(i)
        /\ UNCHANGED lane
     \/ /\ work[i].state \in {"pending", "dispatching"} /\ ~CanAccept
        /\ ended' = TRUE
        /\ pending' = <<>>
        /\ UNCHANGED <<tail, effectWork, lane>>
     \/ /\ work[i].state = "reconcile"
        /\ Submit([op |-> "reconcile", item |-> i, attempt |-> work[i].attempt])
        /\ pending' = <<>>
        /\ UNCHANGED <<tail, effectWork, ended>>

\* A poll that finds nothing more to do: it has promoted.
PollOnly ==
  /\ ~ended /\ lane.result = "none"
  /\ Acknowledged(durableTurn) > 0
  /\ Busy \/ (PromotedReady(durableTurn) = <<>> /\ StillPending(durableTurn) # <<>>)
  /\ Promote
  /\ ready' = PromotedReady(durableTurn)
  /\ pending' = StillPending(durableTurn)
  /\ UNCHANGED <<tail, effectWork, lane, ended>>

Poll == TakeResult \/ SubmitReady \/ StartWork \/ PollOnly

-----------------------------------------------------------------------------
(* The effect worker's thread, and the driver it calls (external) *)

\* The action happens in the outside world.  It happens while the driver is in
\* the call, never after the process that called it has ended.
Perform ==
  /\ lane.request.op = "dispatch" /\ lane.result = "none" /\ ~lane.performed
  /\ lane' = [lane EXCEPT !.performed = TRUE]
  /\ applied' = [applied EXCEPT ![lane.request.item] = @ + 1]
  /\ UNCHANGED <<outbox, tail, durableTurn, effectWork, durableWork, pending, ready, ended,
                 spent>>

\* The driver returns: a dispatch that was performed is done, a reconciliation
\* tells whether it was.
Return ==
  /\ Busy /\ lane.result = "none"
  /\ lane.request.op = "dispatch" => lane.performed
  /\ lane' = [lane EXCEPT !.result =
                IF applied[lane.request.item] > 0 THEN "done" ELSE "notApplied"]
  /\ UNCHANGED <<outbox, tail, durableTurn, effectWork, durableWork, pending, ready, applied,
                 ended, spent>>

\* The driver fails, and whether the action happened is not known.
Fail ==
  /\ Busy /\ lane.result = "none"
  /\ spent.errors < MaxErrors
  /\ spent' = [spent EXCEPT !.errors = @ + 1]
  /\ lane' = [lane EXCEPT !.result = "failed"]
  /\ UNCHANGED <<outbox, tail, durableTurn, effectWork, durableWork, pending, ready, applied,
                 ended>>

-----------------------------------------------------------------------------
(* Activation and crashes *)

FlushedOutbox == After(outbox, tail, Len(tail))

\* activate_settled_candidate, activate_prepared_machine_plan and
\* start_over_machine_plan: everything is flushed, the new runtime may start
\* an effect of its own, and the lane's queues are cleared; the effect worker
\* goes on with what it has.
Activate(j) ==
  LET box == IF j = NoItem THEN FlushedOutbox ELSE Apply(FlushedOutbox, Enqueues(j)) IN
  /\ ~ended /\ spent.activations < MaxActivations
  /\ spent' = [spent EXCEPT !.activations = @ + 1]
  /\ j # NoItem => FlushedOutbox[j] = Absent
  /\ outbox' = box
  /\ tail' = <<>>
  /\ durableTurn' = durableTurn + Len(tail) + (IF j = NoItem THEN 0 ELSE 1)
  /\ effectWork' = box
  /\ durableWork' = box
  /\ pending' = <<>>
  /\ ready' = <<>>
  /\ UNCHANGED <<lane, applied, ended>>

\* The process ends, by itself or after its loop has, and starts again: the
\* index is the durable outbox.
Crash ==
  /\ spent.crashes < MaxCrashes
  /\ spent' = [spent EXCEPT !.crashes = @ + 1]
  /\ tail' = <<>>
  /\ effectWork' = outbox
  /\ durableWork' = outbox
  /\ pending' = <<>>
  /\ ready' = <<>>
  /\ lane' = IdleLane
  /\ ended' = FALSE
  /\ UNCHANGED <<outbox, durableTurn, applied>>

EffectWorker == Perform \/ Return

Next ==
  \/ DispatchPlain
  \/ \E i \in Items : Dispatch(i) \/ DispatchDurably(i)
  \/ Checkpoint
  \/ Poll
  \/ EffectWorker \/ Fail
  \/ \E j \in Items \cup {NoItem} : Activate(j)
  \/ Crash

Spec == Init /\ [][Next]_vars

\* The host polls while has_effect_work and until a poll fails, the effect
\* worker's thread runs, and the persistence worker checkpoints what it has
\* accepted.
FairSpec == Spec /\ WF_vars(Poll) /\ WF_vars(EffectWorker) /\ WF_vars(Checkpoint)

-----------------------------------------------------------------------------
(* Properties *)

\* "Dispatch never occurs before the required acknowledgement": while an
\* action is under way, the claim for this very attempt is durable.
DispatchedIsDurable ==
  lane.request.op = "dispatch" =>
    outbox[lane.request.item] = [state |-> "dispatching", attempt |-> lane.request.attempt]

\* Whatever fails or crashes, an action happens at most once, and the outcome
\* a program sees belongs to an action that did happen.
AppliedAtMostOnce ==
  \A i \in Items :
    /\ applied[i] <= 1
    /\ effectWork[i].state = "completed" => applied[i] = 1

\* The lane's result always finds its item as the request left it, so no
\* result is refused as missing or as an invalid transition.
ResultFindsItem ==
  Busy =>
    effectWork[lane.request.item] =
      [state |-> IF lane.request.op = "dispatch" THEN "dispatching" ELSE "reconcile",
       attempt |-> lane.request.attempt]

\* The local index follows the store without reading it: it is the durable
\* outbox with the accepted turns applied, each entry of the pending queue is
\* that index at its own turn, and what is acknowledged is durable.
IndexFollowsStore ==
  /\ effectWork = FlushedOutbox
  /\ \A k \in DOMAIN pending :
       pending[k].turn > durableTurn =>
         pending[k].work = After(outbox, tail, pending[k].turn - durableTurn)
  /\ StillPending(durableTurn) = <<>> => PromotedWork(durableTurn) = FlushedOutbox

\* One effect at a time: with an operation in flight nothing else is claimed.
OneEffectAtATime ==
  LET waiting == {k \in DOMAIN pending : pending[k].action # NoAction} IN
  Len(ready) + Cardinality(waiting) + (IF Busy THEN 1 ELSE 0) <= 1

\* The host, its one lane and the durable outbox agree, through promotions,
\* activations, driver errors and crashes.
OutboxInvariant ==
  TypeOK /\ IndexFollowsStore /\ ResultFindsItem /\ OneEffectAtATime

\* Every effect that is durably requested is completed in the end, also when
\* the process has crashed or its host has ended in between, unless a host that
\* a failed reconciliation or a full persistence queue has ended is never
\* started again (poll_effect_worker).
EffectsComplete ==
  \A i \in Items :
    outbox[i].state = "pending" ~> (outbox[i].state = "completed" \/ []ended)
=============================================================================
