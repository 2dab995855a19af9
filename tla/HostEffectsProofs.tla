------------------------- MODULE HostEffectsProofs -------------------------
(***************************************************************************)
(* Proofs about the durable effect lane, for every set of items and every  *)
(* bound: nothing leaves the process before its claim is durable, an       *)
(* action happens at most once, and the host's index, its one lane and the *)
(* durable outbox agree.                                                   *)
(*                                                                         *)
(* The argument.  The index has the outbox of the store with the accepted  *)
(* turns applied, and the last entry of the pending queue carries it.  An  *)
(* action that waits, is ready or is in flight finds its item in the index *)
(* as its own claim left it, and no accepted turn behind that claim        *)
(* touches the item: once the claim is durable, the outbox therefore says  *)
(* the same.  What has happened outside is tied to the outbox by the turns *)
(* that may still touch such an item: it is never started again.           *)
(***************************************************************************)
EXTENDS HostEffects, FiniteSetTheorems, WellFoundedInduction, TLAPS

-----------------------------------------------------------------------------
(* Numbers *)

Less(a, b) == a < b

\* A nonempty set of numbers has a least one: what NextWork, the first item of
\* the index, chooses.
LEMMA LeastNumber ==
  ASSUME NEW S \in SUBSET Nat, S # {}
  PROVE  \E x \in S : \A y \in S : x <= y
<1>1. IsWellFoundedOn(OpToRel(Less, Nat), Nat)
  BY Zenon, NatLessThanWellFounded DEF Less, OpToRel
<1>2. PICK x \in S : \A y \in S : ~(<<y, x>> \in OpToRel(Less, Nat))
  BY <1>1, WFMin
<1>3. \A y \in S : ~(y < x)
  BY <1>2 DEF OpToRel, Less
<1> QED BY <1>3

\* A nonempty set of numbers up to n has a greatest one, and Max returns it.
LEMMA MaxIsGreatest ==
  ASSUME NEW n \in Nat, NEW S \in SUBSET (0..n), S # {}
  PROVE  Max(S) \in S /\ \A y \in S : y <= Max(S)
<1> DEFINE T == {m \in 0..n : n - m \in S}
<1>1. T \in SUBSET Nat /\ T # {}
  <2>1. PICK y \in S : TRUE
    OBVIOUS
  <2>2. y \in 0..n
    OBVIOUS
  <2>3. n - y \in 0..n /\ n - (n - y) = y
    BY <2>2
  <2>4. n - y \in T
    BY <2>3
  <2>5. T \in SUBSET Nat
    OBVIOUS
  <2> HIDE DEF T
  <2> QED BY <2>4, <2>5
<1>2. PICK m \in T : \A l \in T : m <= l
  <2> HIDE DEF T
  <2> QED BY <1>1, LeastNumber
<1>3. n - m \in S
  BY <1>2
<1>4. \A y \in S : y <= n - m
  <2> TAKE y \in S
  <2>0. y \in 0..n /\ m \in 0..n
    BY <1>2
  <2>1. n - y \in 0..n /\ n - (n - y) = y
    BY <2>0
  <2>2. n - y \in T
    BY <2>1
  <2>3. m <= n - y
    BY <1>2, <2>2
  <2> HIDE DEF T
  <2> QED BY <2>0, <2>3
<1> QED BY <1>3, <1>4 DEF Max

\* Max is what its two conditions say.
LEMMA MaxIs ==
  ASSUME NEW S \in SUBSET Int, NEW m \in S, \A y \in S : y <= m
  PROVE  Max(S) = m
<1> DEFINE z == Max(S)
<1>1. z \in S /\ \A y \in S : y <= z
  BY DEF Max
<1>2. z \in Int /\ m \in Int /\ z <= m /\ m <= z
  BY <1>1
<1> HIDE DEF z
<1>3. z = m
  BY <1>2
<1> QED BY <1>3 DEF z

-----------------------------------------------------------------------------
(* The outbox after a log of changes *)

Boxes == [Items -> ItemState]

\* A change writes a state of an item.
LEMMA WrittenType ==
  ASSUME NEW ch \in Change, NEW i \in Items
  PROVE  Written(ch, i) \in ItemState
<1>1. NewState(ch.op) \in {"pending", "dispatching", "reconcile", "completed"}
  BY DEF NewState
<1>2. ch.attempt \in Nat
  BY DEF Change
<1> QED BY <1>1, <1>2 DEF Written, ItemState

\* One turn leaves an outbox.
LEMMA ApplyType ==
  ASSUME NEW box \in Boxes, NEW ch \in Change
  PROVE  Apply(box, ch) \in Boxes
BY WrittenType DEF Apply, Boxes

\* No turn leaves the outbox as it is.
LEMMA AfterNone ==
  ASSUME NEW box \in Boxes, NEW log
  PROVE  After(box, log, 0) = box
<1>1. \A i \in Items : {k \in 1..0 : Touches(log[k], i)} = {}
  OBVIOUS
<1> QED BY <1>1 DEF After, Boxes

\* A turn that starts no effect leaves the outbox as it is.
LEMMA ApplyPlain ==
  ASSUME NEW box \in Boxes
  PROVE  Apply(box, Plain) = box
BY ConstantsAssumption DEF Apply, Plain, Touches, Boxes

\* An item that no turn touches is as it was.
LEMMA AfterUntouched ==
  ASSUME NEW box, NEW log, NEW n, NEW i \in Items,
         \A k \in 1..n : ~Touches(log[k], i)
  PROVE  After(box, log, n)[i] = box[i]
<1>1. {k \in 1..n : Touches(log[k], i)} = {}
  OBVIOUS
<1> QED BY <1>1 DEF After

\* A turn accepted at the end leaves what the turns before it amount to.
LEMMA AfterPrefix ==
  ASSUME NEW box, NEW log \in Seq(Change), NEW ch \in Change, NEW n \in 0..Len(log)
  PROVE  After(box, Append(log, ch), n) = After(box, log, n)
<1>1. \A k \in 1..n : Append(log, ch)[k] = log[k]
  OBVIOUS
<1> DEFINE h(i) == {k \in 1..n : Touches(log[k], i)}
           g(i) == {k \in 1..n : Touches(Append(log, ch)[k], i)}
<1>2. \A i \in Items : g(i) = h(i)
  BY <1>1
<1>3. \A i \in Items : h(i) # {} => Max(h(i)) \in 1..n
  <2> TAKE i \in Items
  <2> HAVE h(i) # {}
  <2>1. h(i) \in SUBSET (0..n) /\ n \in Nat
    OBVIOUS
  <2>2. Max(h(i)) \in h(i)
    <3> HIDE DEF h
    <3> QED BY <2>1, MaxIsGreatest
  <2> QED BY <2>2
<1>4. \A i \in Items : h(i) # {} => Append(log, ch)[Max(g(i))] = log[Max(h(i))]
  <2> HIDE DEF g, h
  <2> QED BY <1>1, <1>2, <1>3
<1>5. \A i \in Items :
        (IF g(i) = {} THEN box[i] ELSE Written(Append(log, ch)[Max(g(i))], i))
          = (IF h(i) = {} THEN box[i] ELSE Written(log[Max(h(i))], i))
  <2> HIDE DEF g, h
  <2> QED BY <1>2, <1>4
<1> QED BY <1>5, Zenon DEF After

\* ... and is itself applied last.
LEMMA AfterAppend ==
  ASSUME NEW box, NEW log \in Seq(Change), NEW ch \in Change
  PROVE  After(box, Append(log, ch), Len(log) + 1) = Apply(After(box, log, Len(log)), ch)
<1> DEFINE n == Len(log)
           l == Append(log, ch)
           h(i) == {k \in 1..(n + 1) : Touches(l[k], i)}
<1>0. n \in Nat /\ l[n + 1] = ch /\ \A k \in 1..n : l[k] = log[k]
  OBVIOUS
<1>1. ASSUME NEW i \in Items
      PROVE  After(box, l, n + 1)[i] = Apply(After(box, log, n), ch)[i]
  <2>0. After(box, l, n + 1)[i] = IF h(i) = {} THEN box[i] ELSE Written(l[Max(h(i))], i)
    BY DEF After
  <2>1. CASE Touches(ch, i)
    <3>1. n + 1 \in h(i) /\ h(i) \in SUBSET Int /\ \A y \in h(i) : y <= n + 1
      BY <1>0, <2>1
    <3>2. Max(h(i)) = n + 1
      <4> HIDE DEF h
      <4> QED BY <3>1, MaxIs
    <3>3. After(box, l, n + 1)[i] = Written(ch, i)
      <4> HIDE DEF h
      <4> QED BY <2>0, <3>1, <3>2, <1>0
    <3> QED BY <3>3, <2>1 DEF Apply
  <2>2. CASE ~Touches(ch, i)
    <3>1. h(i) = {k \in 1..n : Touches(l[k], i)}
      BY <1>0, <2>2
    <3>2. After(box, l, n + 1)[i] = After(box, l, n)[i]
      BY <3>1, <2>0 DEF After
    <3>3. After(box, l, n) = After(box, log, n)
      BY <1>0, AfterPrefix
    <3> QED BY <3>2, <3>3, <2>2 DEF Apply
  <2> QED BY <2>1, <2>2
<1>2. After(box, l, n + 1) = [i \in Items |-> After(box, l, n + 1)[i]]
  BY DEF After
<1>3. Apply(After(box, log, n), ch) = [i \in Items |-> Apply(After(box, log, n), ch)[i]]
  BY DEF Apply
<1> QED
  <2> HIDE DEF n, l
  <2>1. After(box, l, n + 1) = Apply(After(box, log, n), ch)
    BY <1>1, <1>2, <1>3
  <2> QED BY <2>1 DEF n, l

\* A checkpoint moves the first turn from the log to the outbox: what the log
\* amounts to is the same.
LEMMA AfterCheckpoint ==
  ASSUME NEW box, NEW log \in Seq(Change), log # <<>>, NEW n \in 0..(Len(log) - 1)
  PROVE  After(Apply(box, Head(log)), Tail(log), n) = After(box, log, n + 1)
<1> DEFINE t == Tail(log)
           b == Apply(box, Head(log))
           h(i) == {k \in 1..n : Touches(t[k], i)}
           g(i) == {k \in 1..(n + 1) : Touches(log[k], i)}
<1>0. n \in Nat /\ Head(log) = log[1] /\ \A k \in 1..n : t[k] = log[k + 1]
  OBVIOUS
<1>1. ASSUME NEW i \in Items
      PROVE  After(b, t, n)[i] = After(box, log, n + 1)[i]
  <2>0. /\ After(b, t, n)[i] = IF h(i) = {} THEN b[i] ELSE Written(t[Max(h(i))], i)
        /\ After(box, log, n + 1)[i] = IF g(i) = {} THEN box[i] ELSE Written(log[Max(g(i))], i)
    BY DEF After
  <2>1. CASE h(i) # {}
    <3>1. h(i) \in SUBSET (0..n)
      OBVIOUS
    <3>2. Max(h(i)) \in h(i) /\ \A y \in h(i) : y <= Max(h(i))
      <4> HIDE DEF h
      <4> QED BY <3>1, <2>1, <1>0, MaxIsGreatest
    <3> DEFINE m == Max(h(i))
    <3>3. m \in 1..n /\ Touches(t[m], i) /\ \A y \in h(i) : y <= m
      BY <3>2
    <3>4. m + 1 \in g(i) /\ g(i) \in SUBSET Int
      <4> HIDE DEF m
      <4> QED BY <3>3, <1>0
    <3>5. \A y \in g(i) : y <= m + 1
      <4> HIDE DEF m
      <4> TAKE y \in g(i)
      <4>1. CASE y = 1
        BY <4>1, <3>3, <1>0
      <4>2. CASE y # 1
        <5>1. y - 1 \in 1..n /\ (y - 1) + 1 = y
          BY <4>2, <1>0
        <5>2. y - 1 \in h(i)
          BY <5>1, <1>0
        <5>3. y - 1 <= m
          BY <5>2, <3>3
        <5> QED BY <5>1, <5>3, <3>3
      <4> QED BY <4>1, <4>2
    <3>6. Max(g(i)) = m + 1
      <4> HIDE DEF m, g
      <4> QED BY <3>4, <3>5, MaxIs
    <3>7. log[m + 1] = t[m]
      <4> HIDE DEF m
      <4> QED BY <3>3, <1>0
    <3>8. g(i) # {}
      BY <3>4
    <3> HIDE DEF g, h
    <3> QED BY <2>0, <2>1, <3>6, <3>7, <3>8
  <2>2. CASE h(i) = {} /\ Touches(Head(log), i)
    <3>1. 1 \in g(i) /\ g(i) \in SUBSET Int
      BY <2>2, <1>0
    <3>2. \A y \in g(i) : y <= 1
      <4> TAKE y \in g(i)
      <4>1. ASSUME y # 1 PROVE FALSE
        <5>1. y - 1 \in 1..n /\ (y - 1) + 1 = y
          BY <4>1, <1>0
        <5>2. y - 1 \in h(i)
          BY <5>1, <1>0
        <5> QED BY <5>2, <2>2
      <4> QED BY <4>1
    <3>3. Max(g(i)) = 1
      <4> HIDE DEF g
      <4> QED BY <3>1, <3>2, MaxIs
    <3>4. b[i] = Written(log[1], i)
      BY <2>2, <1>0 DEF Apply
    <3>5. g(i) # {}
      BY <3>1
    <3> HIDE DEF g, h, b
    <3> QED BY <2>0, <2>2, <3>3, <3>4, <3>5
  <2>3. CASE h(i) = {} /\ ~Touches(Head(log), i)
    <3>1. g(i) = {}
      <4>1. ASSUME NEW y \in g(i) PROVE FALSE
        <5>1. y # 1
          BY <2>3, <1>0
        <5>2. y - 1 \in 1..n /\ (y - 1) + 1 = y
          BY <5>1, <1>0
        <5>3. y - 1 \in h(i)
          BY <5>2, <1>0
        <5> QED BY <5>3, <2>3
      <4> QED BY <4>1
    <3>2. b[i] = box[i]
      BY <2>3 DEF Apply
    <3> HIDE DEF g, h, b
    <3> QED BY <2>0, <2>3, <3>1, <3>2
  <2> QED BY <2>1, <2>2, <2>3
<1>2. After(b, t, n) = [i \in Items |-> After(b, t, n)[i]]
  BY DEF After
<1>3. After(box, log, n + 1) = [i \in Items |-> After(box, log, n + 1)[i]]
  BY DEF After
<1> QED
  <2> HIDE DEF b, t
  <2>1. After(b, t, n) = After(box, log, n + 1)
    BY <1>1, <1>2, <1>3
  <2> QED BY <2>1 DEF b, t

-----------------------------------------------------------------------------
(* The inductive invariant *)

(* What the claim of an action leaves its item as.                         *)
Working(act) ==
  [state |-> IF act.op = "dispatch" THEN "dispatching" ELSE "reconcile", attempt |-> act.attempt]

RealAction(act) == act.op \in {"dispatch", "reconcile"} /\ act.item \in Items

(* No accepted turn touches the item any more.                             *)
Settled(i) == \A l \in DOMAIN tail : ~Touches(tail[l], i)

(* The index has the item as the claim left it, and an action still to be  *)
(* dispatched has not happened yet.                                        *)
Claimed(act) ==
  /\ RealAction(act)
  /\ effectWork[act.item] = Working(act)
  /\ act.op = "dispatch" => applied[act.item] = 0

Waits(p, k) == p[k].action # NoAction

(* Each entry of the pending queue has the index at its own turn, and the  *)
(* last one has the index as it is.                                        *)
PendingFollows(p) ==
  \A k \in DOMAIN p :
    /\ p[k].turn <= durableTurn + Len(tail)
    /\ p[k].turn > durableTurn => p[k].work = After(outbox, tail, p[k].turn - durableTurn)
LastIsIndex(dw, p) == effectWork = IF p = <<>> THEN dw ELSE p[Len(p)].work

(* A waiting action is claimed, and no turn behind its own touches it.     *)
ClaimsWait(p) ==
  \A k \in DOMAIN p :
    Waits(p, k) =>
      /\ Claimed(p[k].action)
      /\ \A l \in DOMAIN tail :
           Touches(tail[l], p[k].action.item) => durableTurn + l <= p[k].turn
ReadyClaims(r) == \A k \in DOMAIN r : Claimed(r[k]) /\ Settled(r[k].item)

Single(p, r) ==
  /\ \A k, l \in DOMAIN p : Waits(p, k) /\ Waits(p, l) => k = l
  /\ r # <<>> => Len(r) = 1 /\ ~Busy /\ \A k \in DOMAIN p : ~Waits(p, k)
  /\ Busy => \A k \in DOMAIN p : ~Waits(p, k)

(* A turn of the lane that is not durable has its entry in the queue.       *)
TailWaits(p) ==
  \A l \in DOMAIN tail : tail[l] = Plain \/ \E k \in DOMAIN p : p[k].turn = durableTurn + l

QueueTypes(dw, p, r) == dw \in Boxes /\ p \in Seq(Entry) /\ r \in Seq(Action)

(* The acknowledged index, the pending queue and the ready queue, stated   *)
(* of any three such values: a poll promotes before it does anything else. *)
QueueInv(dw, p, r) ==
  /\ QueueTypes(dw, p, r)
  /\ PendingFollows(p)
  /\ LastIsIndex(dw, p)
  /\ ClaimsWait(p)
  /\ ReadyClaims(r)
  /\ Single(p, r)
  /\ TailWaits(p)

Lanes == [request : Action, performed : BOOLEAN, result : Outcome]
Spendings == [plain : Nat, errors : Nat, activations : Nat, crashes : Nat]

StoreTypes ==
  /\ outbox \in Boxes
  /\ tail \in Seq(Change)
  /\ durableTurn \in Nat
  /\ effectWork \in Boxes
  /\ applied \in [Items -> Nat]
  /\ spent \in Spendings

(* What is in flight is claimed and settled, and the result tells what     *)
(* happened.                                                               *)
LaneInv ==
  /\ lane \in Lanes
  /\ Busy => /\ RealAction(lane.request)
             /\ effectWork[lane.request.item] = Working(lane.request)
             /\ Settled(lane.request.item)
  /\ lane.result # "none" => Busy
  /\ lane.request.op = "dispatch" /\ ~lane.performed => applied[lane.request.item] = 0
  /\ lane.result = "done" => applied[lane.request.item] = 1
  /\ lane.result = "notApplied" => applied[lane.request.item] = 0

Started(s) == s.state \in {"dispatching", "reconcile", "completed"}

(* An item whose action has happened is started in the outbox and in the   *)
(* index, and the turns in between neither enqueue nor begin it; an item   *)
(* is completed only once its action has happened.                         *)
StartedSays ==
  \A i \in Items :
    applied[i] > 0 =>
      /\ Started(outbox[i])
      /\ Started(effectWork[i])
      /\ \A k \in DOMAIN tail :
           Touches(tail[k], i) => tail[k].item = i /\ tail[k].op \in {"reconcile", "complete"}
CompletedSays ==
  /\ \A i \in Items : outbox[i].state = "completed" => applied[i] = 1
  /\ \A i \in Items : effectWork[i].state = "completed" => applied[i] = 1
  /\ \A k \in DOMAIN tail :
       /\ tail[k].op = "none" => tail[k] = Plain
       /\ tail[k].op = "complete" => tail[k].item \in Items /\ applied[tail[k].item] = 1
HappensOnce == \A i \in Items : applied[i] <= 1
History == StartedSays /\ CompletedSays /\ HappensOnce

EffectsInv ==
  /\ StoreTypes
  /\ effectWork = FlushedOutbox
  /\ LaneInv
  /\ History
  /\ QueueInv(durableWork, pending, ready)

-----------------------------------------------------------------------------
(* What the invariant says *)

\* An item that no accepted turn touches is in the outbox as the index has it.
LEMMA SettledIsDurable ==
  ASSUME StoreTypes, effectWork = FlushedOutbox, NEW i \in Items, Settled(i)
  PROVE  outbox[i] = effectWork[i]
<1>1. tail \in Seq(Change) /\ DOMAIN tail = 1..Len(tail)
  BY DEF StoreTypes
<1>2. \A k \in 1..Len(tail) : ~Touches(tail[k], i)
  BY <1>1 DEF Settled
<1>3. After(outbox, tail, Len(tail))[i] = outbox[i]
  BY <1>2, AfterUntouched
<1> QED BY <1>3 DEF FlushedOutbox

\* How much promote_effect_durability pops: a prefix that is durable.
LEMMA AcknowledgedFacts ==
  ASSUME pending \in Seq(Entry), NEW n
  PROVE  /\ Acknowledged(n) \in 0..Len(pending)
         /\ \A j \in 1..Acknowledged(n) : pending[j].turn <= n
<1> DEFINE S == {k \in 0..Len(pending) : \A j \in 1..k : pending[j].turn <= n}
<1>1. Len(pending) \in Nat
  OBVIOUS
<1>2. S \in SUBSET (0..Len(pending)) /\ 0 \in S
  BY <1>1
<1>3. Max(S) \in S
  <2> HIDE DEF S
  <2> QED BY <1>1, <1>2, MaxIsGreatest
<1>4. Acknowledged(n) = Max(S)
  BY DEF Acknowledged
<1>5. Acknowledged(n) \in S
  BY <1>3, <1>4
<1> QED BY <1>5

\* What it leaves: the rest of the queue.
LEMMA StillPendingFacts ==
  ASSUME pending \in Seq(Entry), NEW n
  PROVE  /\ StillPending(n) \in Seq(Entry)
         /\ Len(StillPending(n)) = Len(pending) - Acknowledged(n)
         /\ DOMAIN StillPending(n) = 1..(Len(pending) - Acknowledged(n))
         /\ \A k \in 1..(Len(pending) - Acknowledged(n)) :
              StillPending(n)[k] = pending[Acknowledged(n) + k]
<1> DEFINE a == Acknowledged(n)
<1>1. a \in 0..Len(pending)
  BY AcknowledgedFacts
<1>2. StillPending(n) = SubSeq(pending, a + 1, Len(pending))
  BY DEF StillPending
<1> HIDE DEF a
<1>3. SubSeq(pending, a + 1, Len(pending)) \in Seq(Entry)
  BY <1>1
<1>4. Len(SubSeq(pending, a + 1, Len(pending))) = Len(pending) - a
  BY <1>1
<1>5. \A k \in 1..(Len(pending) - a) : SubSeq(pending, a + 1, Len(pending))[k] = pending[a + k]
  BY <1>1
<1>6. DOMAIN SubSeq(pending, a + 1, Len(pending)) = 1..(Len(pending) - a)
  BY <1>3, <1>4
<1>7. /\ StillPending(n) \in Seq(Entry)
      /\ Len(StillPending(n)) = Len(pending) - a
      /\ DOMAIN StillPending(n) = 1..(Len(pending) - a)
      /\ \A k \in 1..(Len(pending) - a) : StillPending(n)[k] = pending[a + k]
  BY <1>2, <1>3, <1>4, <1>5, <1>6
<1> QED BY <1>7 DEF a

\* What it releases: at most one action waits, so the ready queue stays as it
\* is, or was empty and gets that action.
LEMMA PromotedReadyCases ==
  ASSUME QueueInv(durableWork, pending, ready), NEW n
  PROVE  /\ PromotedReady(n) \in Seq(Action)
         /\ \/ PromotedReady(n) = ready /\ Released(n) = {}
            \/ /\ ready = <<>>
               /\ \E k \in 1..Acknowledged(n) :
                    /\ k \in DOMAIN pending
                    /\ Waits(pending, k)
                    /\ PromotedReady(n) = <<pending[k].action>>
<1>0. pending \in Seq(Entry) /\ ready \in Seq(Action) /\ Single(pending, ready)
  BY DEF QueueInv, QueueTypes
<1>1. Acknowledged(n) \in 0..Len(pending)
  BY <1>0, AcknowledgedFacts
<1>2. \A k \in Released(n) : k \in 1..Acknowledged(n) /\ k \in DOMAIN pending /\ Waits(pending, k)
  BY <1>0, <1>1 DEF Released, Waits
<1> DEFINE f == [r \in 1..Cardinality(Released(n)) |-> pending[InOrder(Released(n))[r]].action]
<1>3. PromotedReady(n) = ready \o f
  BY DEF PromotedReady
<1>4. CASE Released(n) = {}
  <2>1. Cardinality(Released(n)) = 0
    BY <1>4, FS_EmptySet
  <2>2. f = <<>>
    BY <2>1
  <2>3. ready \o <<>> = ready
    BY <1>0
  <2> HIDE DEF f
  <2> QED BY <1>0, <1>3, <1>4, <2>2, <2>3
<1>5. CASE Released(n) # {}
  <2>1. PICK k \in Released(n) : TRUE
    BY <1>5
  <2>2. Released(n) = {k}
    BY <1>0, <1>2, <2>1 DEF Single
  <2>3. Cardinality({k}) = 1
    BY FS_Singleton
  <2>4. k \in Int
    BY <1>1, <1>2
  <2>5. {l \in {k} : l < k} = {}
    BY <2>4
  <2>6. Cardinality({l \in {k} : l < k}) = 1 - 1
    BY <2>5, FS_EmptySet
  <2>7. (CHOOSE m \in {k} : Cardinality({l \in {k} : l < m}) = 1 - 1) = k
    BY <2>6
  <2>8. InOrder({k})[1] = k
    BY <2>3, <2>7 DEF InOrder
  <2>9. f = [r \in 1..1 |-> pending[k].action]
    <3>1. \A r \in 1..1 : pending[InOrder({k})[r]].action = pending[k].action
      BY <2>8
    <3> QED BY <2>2, <2>3, <3>1
  <2>10. f = <<pending[k].action>>
    BY <2>9
  <2>11. pending[k] \in Entry
    BY <1>0, <1>2
  <2>12. pending[k].action \in Action
    BY <2>11 DEF Entry
  <2>13. ready = <<>>
    BY <1>0, <1>2 DEF Single
  <2> HIDE DEF f
  <2>14. ready \o f = <<pending[k].action>>
    BY <2>10, <2>13, <2>12
  <2>15. PromotedReady(n) = <<pending[k].action>> /\ PromotedReady(n) \in Seq(Action)
    BY <1>3, <2>14, <2>12
  <2> QED BY <1>2, <2>13, <2>15
<1> QED BY <1>4, <1>5

\* A queue that waits for nothing but what is still to be durable is in the
\* same relation to the store as the one it is the rest of: promotion keeps
\* the invariant.
LEMMA Promotion ==
  ASSUME EffectsInv
  PROVE  QueueInv(PromotedWork(durableTurn), StillPending(durableTurn), PromotedReady(durableTurn))
<1> DEFINE n == durableTurn
           a == Acknowledged(n)
           p == StillPending(n)
           r == PromotedReady(n)
           dw == PromotedWork(n)
<1>0. /\ StoreTypes
      /\ QueueInv(durableWork, pending, ready)
      /\ QueueTypes(durableWork, pending, ready)
      /\ PendingFollows(pending)
      /\ LastIsIndex(durableWork, pending)
      /\ ClaimsWait(pending)
      /\ ReadyClaims(ready)
      /\ Single(pending, ready)
      /\ TailWaits(pending)
  BY DEF EffectsInv, QueueInv
<1>1. /\ durableWork \in Boxes
      /\ pending \in Seq(Entry) /\ DOMAIN pending = 1..Len(pending) /\ Len(pending) \in Nat
      /\ ready \in Seq(Action)
      /\ tail \in Seq(Change) /\ DOMAIN tail = 1..Len(tail)
      /\ durableTurn \in Nat
  BY <1>0 DEF QueueTypes, StoreTypes
<1>2. a \in 0..Len(pending) /\ \A j \in 1..a : pending[j].turn <= durableTurn
  BY <1>1, AcknowledgedFacts
<1>3. /\ p \in Seq(Entry)
      /\ Len(p) = Len(pending) - a
      /\ DOMAIN p = 1..(Len(pending) - a)
      /\ \A k \in 1..(Len(pending) - a) : p[k] = pending[a + k]
  BY <1>1, StillPendingFacts
<1>4. /\ r \in Seq(Action)
      /\ \/ r = ready /\ Released(n) = {}
         \/ /\ ready = <<>>
            /\ \E k \in 1..a : k \in DOMAIN pending /\ Waits(pending, k) /\ r = <<pending[k].action>>
  BY <1>0, PromotedReadyCases
<1>5. dw = IF a = 0 THEN durableWork ELSE pending[a].work
  BY DEF PromotedWork
<1>6. \A k \in 1..Len(pending) : pending[k] \in Entry /\ pending[k].work \in Boxes
  <2>1. \A k \in 1..Len(pending) : pending[k] \in Entry
    BY <1>1
  <2>2. \A e \in Entry : e.work \in Boxes
    BY DEF Entry, Boxes
  <2> QED BY <2>1, <2>2
<1> HIDE DEF n, a, p, r, dw
<1>7. \A k \in DOMAIN p : a + k \in DOMAIN pending /\ p[k] = pending[a + k]
  <2>1. \A l \in Nat : \A c \in 0..l : \A k \in 1..(l - c) : c + k \in 1..l
    OBVIOUS
  <2> QED BY <1>1, <1>2, <1>3, <2>1
<1>8. dw \in Boxes
  BY <1>1, <1>2, <1>5, <1>6
<1>9. QueueTypes(dw, p, r)
  BY <1>3, <1>4, <1>8 DEF QueueTypes
<1>10. PendingFollows(p)
  BY <1>0, <1>7 DEF PendingFollows
<1>11. LastIsIndex(dw, p)
  <2>1. CASE p = <<>>
    <3>1. a = Len(pending)
      <4>1. Len(p) = 0
        BY <2>1
      <4>2. Len(pending) - a = 0
        BY <4>1, <1>3
      <4> QED BY <4>2, <1>1, <1>2
    <3>2. CASE a = 0
      <4>1. pending = <<>>
        BY <3>1, <3>2, <1>1
      <4> QED BY <4>1, <3>2, <1>5, <1>0, <2>1 DEF LastIsIndex
    <3>3. CASE a # 0
      <4>1. pending # <<>>
        BY <3>1, <3>3, <1>1
      <4> QED BY <4>1, <3>1, <3>3, <1>5, <1>0, <2>1 DEF LastIsIndex
    <3> QED BY <3>2, <3>3
  <2>2. CASE p # <<>>
    <3>1. Len(p) \in 1..(Len(pending) - a)
      BY <2>2, <1>1, <1>2, <1>3
    <3>2. p[Len(p)] = pending[a + Len(p)]
      BY <3>1, <1>3
    <3>3. a + Len(p) = Len(pending) /\ pending # <<>>
      BY <3>1, <1>1, <1>2, <1>3
    <3> QED BY <2>2, <3>2, <3>3, <1>0 DEF LastIsIndex
  <2> QED BY <2>1, <2>2
<1>12. ClaimsWait(p)
  <2>1. \A k \in DOMAIN p : Waits(p, k) => Waits(pending, a + k)
    BY <1>7 DEF Waits
  <2> QED BY <1>0, <1>7, <2>1 DEF ClaimsWait
<1>13. ReadyClaims(r)
  <2>1. CASE r = ready
    BY <2>1, <1>0
  <2>2. ASSUME NEW k \in 1..a, k \in DOMAIN pending, Waits(pending, k), r = <<pending[k].action>>
        PROVE  ReadyClaims(r)
    <3>1. Claimed(pending[k].action)
      BY <2>2, <1>0 DEF ClaimsWait
    <3>2. pending[k].turn <= durableTurn /\ pending[k].turn \in Nat
      BY <1>2, <1>6, <2>2, <1>1 DEF Entry
    <3>3. Settled(pending[k].action.item)
      <4>1. ASSUME NEW l \in DOMAIN tail, Touches(tail[l], pending[k].action.item)
            PROVE  FALSE
        <5>1. durableTurn + l <= pending[k].turn
          BY <4>1, <2>2, <1>0 DEF ClaimsWait
        <5> QED BY <5>1, <3>2, <1>1
      <4> QED BY <4>1 DEF Settled
    <3>4. \A j \in DOMAIN r : r[j] = pending[k].action
      BY <2>2
    <3> QED BY <3>1, <3>3, <3>4 DEF ReadyClaims
  <2> QED BY <1>4, <2>1, <2>2
<1>14. Single(p, r)
  <2>1. \A k \in DOMAIN p : Waits(p, k) => Waits(pending, a + k)
    BY <1>7 DEF Waits
  <2>2. \A k, l \in DOMAIN p : Waits(p, k) /\ Waits(p, l) => k = l
    <3>1. \A k, l \in DOMAIN p : Waits(p, k) /\ Waits(p, l) => a + k = a + l
      BY <1>0, <1>7, <2>1 DEF Single
    <3>2. \A k, l \in DOMAIN p : a + k = a + l => k = l
      BY <1>1, <1>2, <1>3
    <3> QED BY <3>1, <3>2
  <2>3. r = ready => Single(p, r)
    BY <1>0, <1>7, <2>1, <2>2 DEF Single
  <2>4. ASSUME NEW k \in 1..a, k \in DOMAIN pending, Waits(pending, k), r = <<pending[k].action>>
        PROVE  Single(p, r)
    <3>1. Len(r) = 1 /\ ~Busy
      BY <2>4, <1>0 DEF Single
    <3>2. \A l \in DOMAIN p : ~Waits(p, l)
      <4>1. ASSUME NEW l \in DOMAIN p, Waits(p, l) PROVE FALSE
        <5>1. a + l = k
          BY <4>1, <2>1, <2>4, <1>7, <1>0 DEF Single
        <5> QED BY <5>1, <4>1, <1>1, <1>2, <1>3
      <4> QED BY <4>1
    <3> QED BY <2>2, <3>1, <3>2 DEF Single
  <2> QED BY <1>4, <2>3, <2>4
<1>15. TailWaits(p)
  <2>1. ASSUME NEW l \in DOMAIN tail, tail[l] # Plain
        PROVE  \E j \in DOMAIN p : p[j].turn = durableTurn + l
    <3>1. PICK k \in DOMAIN pending : pending[k].turn = durableTurn + l
      BY <2>1, <1>0 DEF TailWaits
    <3>2. ~(k \in 1..a)
      <4>1. ASSUME k \in 1..a PROVE FALSE
        <5>1. durableTurn + l <= durableTurn
          BY <4>1, <3>1, <1>2
        <5> QED BY <5>1, <1>1
      <4> QED BY <4>1
    <3>3. k - a \in 1..(Len(pending) - a) /\ a + (k - a) = k
      BY <3>2, <1>1, <1>2
    <3>4. p[k - a] = pending[k] /\ k - a \in DOMAIN p
      BY <3>3, <1>3
    <3> QED BY <3>1, <3>4
  <2> QED BY <2>1 DEF TailWaits
<1>16. QueueInv(dw, p, r)
  BY <1>9, <1>10, <1>11, <1>12, <1>13, <1>14, <1>15 DEF QueueInv
<1> QED BY <1>16 DEF n, p, r, dw

\* The invariant gives what the run checks.
LEMMA EffectsInvMeans ==
  ASSUME EffectsInv, ended \in BOOLEAN
  PROVE  OutboxInvariant /\ DispatchedIsDurable /\ AppliedAtMostOnce
<1>0. /\ StoreTypes
      /\ effectWork = FlushedOutbox
      /\ LaneInv
      /\ History
      /\ QueueInv(durableWork, pending, ready)
      /\ QueueTypes(durableWork, pending, ready)
      /\ PendingFollows(pending)
      /\ Single(pending, ready)
  BY DEF EffectsInv, QueueInv
<1>1. TypeOK
  BY <1>0 DEF TypeOK, StoreTypes, LaneInv, QueueTypes, Boxes, Lanes, Spendings
<1>2. IndexFollowsStore
  <2>1. \A k \in DOMAIN pending :
          pending[k].turn > durableTurn =>
            pending[k].work = After(outbox, tail, pending[k].turn - durableTurn)
    BY <1>0 DEF PendingFollows
  <2>2. StillPending(durableTurn) = <<>> => PromotedWork(durableTurn) = effectWork
    BY Promotion DEF QueueInv, LastIsIndex
  <2> QED BY <1>0, <2>1, <2>2 DEF IndexFollowsStore
<1>3. ResultFindsItem
  BY <1>0 DEF ResultFindsItem, LaneInv, Working
<1>4. OneEffectAtATime
  <2> DEFINE w == {k \in DOMAIN pending : pending[k].action # NoAction}
  <2>1. w = {} \/ \E k \in w : w = {k}
    BY <1>0 DEF Single, Waits
  <2>2. Cardinality(w) = 0 \/ Cardinality(w) = 1
    <3> HIDE DEF w
    <3> QED BY <2>1, FS_EmptySet, FS_Singleton
  <2>3. (Busy \/ ready # <<>>) => w = {}
    BY <1>0 DEF Single, Waits
  <2>4. (Busy \/ ready # <<>>) => Cardinality(w) = 0
    <3> HIDE DEF w
    <3> QED BY <2>3, FS_EmptySet
  <2>5. ready # <<>> => Len(ready) = 1 /\ ~Busy
    BY <1>0 DEF Single
  <2>6. ready = <<>> => Len(ready) = 0
    OBVIOUS
  <2>7. Len(ready) + Cardinality(w) + (IF Busy THEN 1 ELSE 0) <= 1
    <3> HIDE DEF w
    <3> QED BY <2>2, <2>4, <2>5, <2>6
  <2> QED BY <2>7 DEF OneEffectAtATime
<1>5. DispatchedIsDurable
  <2>1. ASSUME lane.request.op = "dispatch"
        PROVE  outbox[lane.request.item] = [state |-> "dispatching", attempt |-> lane.request.attempt]
    <3>1. Busy
      BY <2>1 DEF Busy, NoAction
    <3>2. /\ lane.request.item \in Items
          /\ effectWork[lane.request.item] = Working(lane.request)
          /\ Settled(lane.request.item)
      BY <1>0, <3>1 DEF LaneInv, RealAction
    <3>3. outbox[lane.request.item] = effectWork[lane.request.item]
      BY <1>0, <3>2, SettledIsDurable
    <3> QED BY <2>1, <3>2, <3>3 DEF Working
  <2> QED BY <2>1 DEF DispatchedIsDurable
<1>6. AppliedAtMostOnce
  BY <1>0 DEF AppliedAtMostOnce, History, HappensOnce, CompletedSays
<1> QED BY <1>1, <1>2, <1>3, <1>4, <1>5, <1>6 DEF OutboxInvariant

\* At the start nothing is under way.
LEMMA EffectsInvInit == Init => EffectsInv
<1> SUFFICES ASSUME Init PROVE EffectsInv
  OBVIOUS
<1>1. /\ outbox = NoItems /\ effectWork = NoItems /\ durableWork = NoItems
      /\ tail = <<>> /\ pending = <<>> /\ ready = <<>>
      /\ durableTurn = 0
      /\ applied = [i \in Items |-> 0]
  BY DEF Init
<1>2. lane = IdleLane
  BY DEF Init
<1>3. spent = [plain |-> 0, errors |-> 0, activations |-> 0, crashes |-> 0]
  BY DEF Init
<1>4. NoItems \in Boxes
  BY DEF NoItems, Boxes, Absent, ItemState
<1>5. StoreTypes
  BY <1>1, <1>3, <1>4 DEF StoreTypes, Spendings
<1>6. effectWork = FlushedOutbox
  <2>1. Len(tail) = 0
    BY <1>1
  <2>2. After(NoItems, tail, 0) = NoItems
    BY <1>4, AfterNone
  <2> QED BY <1>1, <2>1, <2>2 DEF FlushedOutbox
<1>7. lane.request = NoAction /\ lane.performed = FALSE /\ lane.result = "none"
  BY <1>2 DEF IdleLane
<1>8. LaneInv
  <2>1. NoAction \in Action
    BY DEF NoAction, Action, Operation
  <2>2. lane \in Lanes
    BY <1>2, <2>1 DEF IdleLane, Lanes, Outcome
  <2> QED BY <1>7, <2>2 DEF LaneInv, Busy, NoAction
<1>9. History
  <2>1. \A i \in Items : applied[i] = 0 /\ outbox[i].state = "absent" /\ effectWork[i].state = "absent"
    BY <1>1 DEF NoItems, Absent
  <2>2. DOMAIN tail = {}
    BY <1>1
  <2> QED BY <2>1, <2>2 DEF History, StartedSays, CompletedSays, HappensOnce
<1>10. QueueInv(durableWork, pending, ready)
  <2>1. DOMAIN pending = {} /\ DOMAIN ready = {}
    BY <1>1
  <2>2. QueueTypes(durableWork, pending, ready)
    BY <1>1, <1>4 DEF QueueTypes
  <2>3. LastIsIndex(durableWork, pending)
    BY <1>1 DEF LastIsIndex
  <2>4. DOMAIN tail = {}
    BY <1>1
  <2> QED BY <2>1, <2>2, <2>3, <2>4, <1>1
          DEF QueueInv, PendingFollows, ClaimsWait, ReadyClaims, Single, TailWaits
<1> QED BY <1>5, <1>6, <1>8, <1>9, <1>10 DEF EffectsInv

-----------------------------------------------------------------------------
(* Accepting a turn *)

\* The index keeps following the store when both get the same change.
LEMMA StoreAccepts ==
  ASSUME StoreTypes, effectWork = FlushedOutbox, NEW ch \in Change,
         tail' = Append(tail, ch), effectWork' = Apply(effectWork, ch),
         outbox' = outbox
  PROVE  /\ tail' \in Seq(Change)
         /\ Len(tail') = Len(tail) + 1
         /\ DOMAIN tail' = 1..(Len(tail) + 1)
         /\ \A k \in 1..Len(tail) : tail'[k] = tail[k]
         /\ tail'[Len(tail) + 1] = ch
         /\ effectWork' \in Boxes
         /\ effectWork' = FlushedOutbox'
         /\ effectWork' = After(outbox, tail', Len(tail) + 1)
         /\ \A n \in 0..Len(tail) : After(outbox, tail', n) = After(outbox, tail, n)
<1>1. tail \in Seq(Change) /\ effectWork \in Boxes
  BY DEF StoreTypes
<1>2. /\ tail' \in Seq(Change)
      /\ Len(tail') = Len(tail) + 1
      /\ DOMAIN tail' = 1..(Len(tail) + 1)
      /\ \A k \in 1..Len(tail) : tail'[k] = tail[k]
      /\ tail'[Len(tail) + 1] = ch
  BY <1>1
<1>3. effectWork' \in Boxes
  BY <1>1, ApplyType
<1>4. effectWork' = After(outbox, tail', Len(tail) + 1)
  BY <1>1, AfterAppend DEF FlushedOutbox
<1>5. effectWork' = FlushedOutbox'
  BY <1>4, <1>2 DEF FlushedOutbox
<1>6. \A n \in 0..Len(tail) : After(outbox, tail', n) = After(outbox, tail, n)
  BY <1>1, AfterPrefix
<1> QED BY <1>2, <1>3, <1>4, <1>5, <1>6

(* Nothing waits and nothing is ready.                                     *)
Quiet(p, r) == r = <<>> /\ \A k \in DOMAIN p : ~Waits(p, k)

\* A turn of the effect lane keeps the queues: it touches no item an action is
\* claimed for, and claims at most one when there is none.
LEMMA QueueAccepts ==
  ASSUME StoreTypes, effectWork = FlushedOutbox,
         NEW dw, NEW p, NEW r, QueueInv(dw, p, r),
         NEW ch \in Change, NEW act \in Action,
         tail' = Append(tail, ch), effectWork' = Apply(effectWork, ch),
         outbox' = outbox, durableTurn' = durableTurn, applied' = applied,
         durableWork' = dw, ready' = r,
         pending' = Append(p, [turn |-> NextTurn, work |-> effectWork', action |-> act]),
         \/ Quiet(p, r)
         \/ \A i \in Items : Touches(ch, i) => effectWork[i] = Absent,
         act # NoAction => Claimed(act)' /\ Quiet(p, r) /\ ~Busy',
         Busy' => Busy
  PROVE  QueueInv(durableWork, pending, ready)'
<1> DEFINE n == Len(tail)
           e == [turn |-> NextTurn, work |-> effectWork', action |-> act]
<1>0. /\ QueueTypes(dw, p, r)
      /\ PendingFollows(p)
      /\ LastIsIndex(dw, p)
      /\ ClaimsWait(p)
      /\ ReadyClaims(r)
      /\ Single(p, r)
      /\ TailWaits(p)
  BY DEF QueueInv
<1>1. /\ dw \in Boxes
      /\ p \in Seq(Entry) /\ DOMAIN p = 1..Len(p) /\ Len(p) \in Nat
      /\ r \in Seq(Action)
      /\ durableTurn \in Nat /\ n \in Nat /\ DOMAIN tail = 1..n
  BY <1>0 DEF QueueTypes, StoreTypes
<1>2. /\ Len(tail') = n + 1
      /\ DOMAIN tail' = 1..(n + 1)
      /\ \A k \in 1..n : tail'[k] = tail[k]
      /\ tail'[n + 1] = ch
      /\ effectWork' \in Boxes
      /\ effectWork' = After(outbox, tail', n + 1)
      /\ \A k \in 0..n : After(outbox, tail', k) = After(outbox, tail, k)
  BY StoreAccepts
<1>14. \A k \in DOMAIN p : p[k].turn \in Nat /\ p[k].action \in Action
  <2>1. \A k \in 1..Len(p) : p[k] \in Entry
    BY <1>1
  <2>2. \A x \in Entry : x.turn \in Nat /\ x.action \in Action
    BY DEF Entry
  <2> QED BY <2>1, <2>2, <1>1
<1>3. NextTurn = durableTurn + n + 1
  BY DEF NextTurn
<1> HIDE DEF n
<1>4. e \in Entry /\ e.turn = durableTurn + n + 1 /\ e.work = effectWork' /\ e.action = act
  BY <1>1, <1>2, <1>3 DEF Entry, Boxes
<1> HIDE DEF e
<1>5. pending' = Append(p, e)
  BY DEF e
<1>6. /\ pending' \in Seq(Entry)
      /\ DOMAIN pending' = 1..(Len(p) + 1)
      /\ Len(pending') = Len(p) + 1
      /\ \A k \in 1..Len(p) : pending'[k] = p[k]
      /\ pending'[Len(p) + 1] = e
  BY <1>1, <1>4, <1>5
<1>7. QueueTypes(durableWork, pending, ready)'
  BY <1>1, <1>6 DEF QueueTypes
<1>8. PendingFollows(pending)'
  <2>1. ASSUME NEW k \in 1..Len(p)
        PROVE  /\ pending'[k].turn <= durableTurn + (n + 1)
               /\ pending'[k].turn > durableTurn =>
                    pending'[k].work = After(outbox, tail', pending'[k].turn - durableTurn)
    <3>1. p[k].turn \in Nat /\ p[k].turn <= durableTurn + n
      BY <1>0, <1>1, <1>14 DEF PendingFollows, n
    <3>2. p[k].turn > durableTurn => p[k].work = After(outbox, tail, p[k].turn - durableTurn)
      BY <1>0, <1>1 DEF PendingFollows
    <3>3. p[k].turn > durableTurn => p[k].turn - durableTurn \in 0..n
      BY <3>1, <1>1
    <3>4. p[k].turn > durableTurn => p[k].work = After(outbox, tail', p[k].turn - durableTurn)
      BY <3>2, <3>3, <1>2
    <3>5. p[k].turn <= durableTurn + (n + 1)
      BY <3>1, <1>1
    <3> QED BY <3>4, <3>5, <1>6
  <2>2. e.turn <= durableTurn + (n + 1) /\ e.work = After(outbox, tail', e.turn - durableTurn)
    <3>1. e.turn - durableTurn = n + 1
      BY <1>1, <1>4
    <3> QED BY <3>1, <1>1, <1>2, <1>4
  <2>3. ASSUME NEW k \in DOMAIN pending'
        PROVE  /\ pending'[k].turn <= durableTurn + (n + 1)
               /\ pending'[k].turn > durableTurn =>
                    pending'[k].work = After(outbox, tail', pending'[k].turn - durableTurn)
    <3>1. CASE k = Len(p) + 1
      BY <3>1, <2>2, <1>6
    <3>2. CASE k # Len(p) + 1
      <4>1. k \in 1..Len(p)
        BY <3>2, <1>1, <1>6
      <4> QED BY <4>1, <2>1
    <3> QED BY <3>1, <3>2
  <2>4. \A k \in DOMAIN pending' :
          /\ pending'[k].turn <= durableTurn' + Len(tail')
          /\ pending'[k].turn > durableTurn' =>
               pending'[k].work = After(outbox', tail', pending'[k].turn - durableTurn')
    BY <2>3, <1>2
  <2> QED BY <2>4 DEF PendingFollows
<1>9. LastIsIndex(durableWork, pending)'
  <2>1. pending' # <<>> /\ pending'[Len(pending')] = e
    BY SMTT(60), <1>1, <1>6
  <2> QED BY <2>1, <1>4 DEF LastIsIndex
(* The claims there are, are not disturbed. *)
<1>10. ASSUME NEW a \in Action, Claimed(a), ~Quiet(p, r)
       PROVE  Claimed(a)' /\ ~Touches(ch, a.item)
  <2>1. a.item \in Items /\ effectWork[a.item] = Working(a)
    BY <1>10 DEF Claimed, RealAction
  <2>2. Working(a) # Absent
    <3>1. Working(a).state # Absent.state
      BY DEF Working, Absent
    <3> QED BY <3>1
  <2>3. ~Touches(ch, a.item)
    BY <1>10, <2>1, <2>2
  <2>4. effectWork'[a.item] = effectWork[a.item]
    BY <2>1, <2>3 DEF Apply
  <2> QED BY <1>10, <2>3, <2>4 DEF Claimed, RealAction, Working
<1>11. ClaimsWait(pending)'
  <2> SUFFICES ASSUME NEW k \in DOMAIN pending', Waits(pending', k)
      PROVE  /\ Claimed(pending[k].action)'
             /\ \A l \in DOMAIN tail' :
                  Touches(tail'[l], pending'[k].action.item) => durableTurn + l <= pending'[k].turn
    BY Zenon DEF ClaimsWait, Waits
  <2>1. CASE k = Len(p) + 1
    <3>1. pending'[k] = e /\ act # NoAction
      BY <2>1, <1>4, <1>6 DEF Waits
    <3>2. Claimed(pending[k].action)'
      <4>1. (pending'[k]).action = act
        BY <3>1, <1>4
      <4> QED BY <3>1, <4>1 DEF Claimed, RealAction, Working
    <3>3. \A l \in DOMAIN tail' : durableTurn + l <= pending'[k].turn
      BY <3>1, <1>1, <1>2, <1>4
    <3> QED BY <3>2, <3>3
  <2>2. CASE k # Len(p) + 1
    <3>0. k \in DOMAIN p /\ pending'[k] = p[k]
      BY <2>2, <1>1, <1>6
    <3>1. k \in DOMAIN p /\ pending'[k] = p[k] /\ Waits(p, k) /\ p[k].action \in Action /\ p[k].turn \in Nat
      BY <3>0, <1>14 DEF Waits
    <3>2. Claimed(p[k].action) /\ ~Quiet(p, r)
      BY <3>1, <1>0 DEF ClaimsWait, Quiet
    <3> DEFINE a == p[k].action
    <3>3. a \in Action /\ Claimed(a)
      BY <3>1, <3>2
    <3>4. pending'[k].action = a
      BY <3>1
    <3> HIDE DEF a
    <3>5. Claimed(a)' /\ ~Touches(ch, a.item)
      BY <3>2, <3>3, <1>10
    <3>6. Claimed(pending[k].action)'
      BY <3>4, <3>5 DEF Claimed, RealAction, Working
    <3>7. \A l \in DOMAIN tail : Touches(tail[l], a.item) => durableTurn + l <= p[k].turn
      BY <3>1, <1>0 DEF ClaimsWait, a
    <3>8. \A l \in DOMAIN tail' : Touches(tail'[l], a.item) => l \in DOMAIN tail /\ tail'[l] = tail[l]
      BY <3>5, <1>1, <1>2
    <3> QED BY <3>1, <3>4, <3>6, <3>7, <3>8
  <2> QED BY <2>1, <2>2
<1>12. ReadyClaims(ready)'
  <2> SUFFICES ASSUME NEW k \in DOMAIN r
      PROVE  Claimed(ready[k])' /\ Settled(ready[k].item)'
    BY DEF ReadyClaims
  <2> DEFINE a == r[k]
  <2>1. a \in Action /\ Claimed(a) /\ Settled(a.item) /\ r # <<>>
    BY <1>0, <1>1 DEF ReadyClaims
  <2>2. ready'[k] = a
    OBVIOUS
  <2> HIDE DEF a
  <2>3. Claimed(a)' /\ ~Touches(ch, a.item)
    BY <2>1, <1>10 DEF Quiet
  <2>4. Claimed(ready[k])'
    BY <2>2, <2>3 DEF Claimed, RealAction, Working
  <2>5. \A l \in DOMAIN tail' : ~Touches(tail'[l], a.item)
    <3> TAKE l \in DOMAIN tail'
    <3>1. l = n + 1 \/ (l \in DOMAIN tail /\ tail'[l] = tail[l])
      BY <1>1, <1>2
    <3> QED BY <2>1, <2>3, <3>1, <1>2 DEF Settled
  <2>6. Settled(ready[k].item)'
    BY <2>2, <2>5 DEF Settled
  <2> QED BY <2>4, <2>6
<1>13. Single(pending, ready)'
  <2>1. \A k \in DOMAIN pending' :
          Waits(pending', k) => \/ k \in DOMAIN p /\ Waits(p, k)
                                \/ k = Len(p) + 1 /\ act # NoAction
    BY <1>1, <1>4, <1>6 DEF Waits
  <2>2. CASE act = NoAction
    BY <2>1, <2>2, <1>0 DEF Single, Waits
  <2>3. CASE act # NoAction
    BY <2>1, <2>3, <1>0 DEF Single, Quiet, Waits
  <2> QED BY <2>2, <2>3
<1>15. TailWaits(pending)'
  <2>1. ASSUME NEW l \in DOMAIN tail', tail'[l] # Plain
        PROVE  \E k \in DOMAIN pending' : pending'[k].turn = durableTurn + l
    <3>1. CASE l = n + 1
      <4>1. e.turn = durableTurn + l
        BY <3>1, <1>1, <1>4
      <4>2. Len(p) + 1 \in DOMAIN pending'
        BY <1>1, <1>6
      <4> QED BY <4>1, <4>2, <1>6
    <3>2. CASE l # n + 1
      <4>1. l \in DOMAIN tail /\ tail[l] # Plain
        BY <3>2, <2>1, <1>1, <1>2
      <4>2. PICK k \in DOMAIN p : p[k].turn = durableTurn + l
        BY <4>1, <1>0 DEF TailWaits
      <4>3. k \in DOMAIN pending' /\ pending'[k] = p[k]
        BY <1>1, <1>6
      <4> QED BY <4>2, <4>3
    <3> QED BY <3>1, <3>2
  <2> QED BY <2>1 DEF TailWaits
<1> QED BY <1>7, <1>8, <1>9, <1>11, <1>12, <1>13, <1>15 DEF QueueInv

\* What has happened outside stays true to the outbox when a turn is accepted
\* that starts nothing that has happened.
LEMMA HistoryAccepts ==
  ASSUME StoreTypes, effectWork = FlushedOutbox, History, NEW ch \in Change,
         tail' = Append(tail, ch), effectWork' = Apply(effectWork, ch),
         outbox' = outbox, applied' = applied,
         \A i \in Items : Touches(ch, i) /\ applied[i] > 0 =>
           ch.item = i /\ ch.op \in {"reconcile", "complete"},
         ch.op = "complete" => ch.item \in Items /\ applied[ch.item] = 1,
         ch.op = "none" => ch = Plain
  PROVE  History'
<1>1. /\ DOMAIN tail' = 1..(Len(tail) + 1)
      /\ \A k \in 1..Len(tail) : tail'[k] = tail[k]
      /\ tail'[Len(tail) + 1] = ch
      /\ tail \in Seq(Change)
  BY StoreAccepts DEF StoreTypes
<1>2. \A k \in DOMAIN tail' : (k \in DOMAIN tail /\ tail'[k] = tail[k]) \/ tail'[k] = ch
  <2>1. \A k \in 1..(Len(tail) + 1) : k \in 1..Len(tail) \/ k = Len(tail) + 1
    BY <1>1
  <2> QED BY <1>1, <2>1
<1>3. \A i \in Items :
        \/ effectWork'[i] = effectWork[i]
        \/ Touches(ch, i) /\ effectWork'[i] = Written(ch, i)
  BY DEF Apply
<1>4. ASSUME NEW i \in Items, applied[i] > 0, Touches(ch, i)
      PROVE  Started(Written(ch, i))
  <2>1. i = ch.item /\ ch.op \in {"reconcile", "complete"}
    BY <1>4
  <2>2. Written(ch, i).state = NewState(ch.op)
    BY <2>1 DEF Written
  <2> QED BY <2>1, <2>2 DEF Started, NewState
<1>5. ASSUME NEW i \in Items, Touches(ch, i), Written(ch, i).state = "completed"
      PROVE  applied[i] = 1
  <2>1. i = ch.item
    BY <1>5 DEF Written
  <2>2. NewState(ch.op) = "completed"
    BY <1>5, <2>1 DEF Written
  <2>3. ch.op \in {"complete", "none"}
    BY <2>2 DEF NewState, Change
  <2>4. ch.op # "none"
    BY <2>1, ConstantsAssumption DEF Plain
  <2> QED BY <2>1, <2>3, <2>4
<1>6. StartedSays'
  BY <1>2, <1>3, <1>4 DEF History, StartedSays
<1>7. CompletedSays'
  BY <1>2, <1>3, <1>5 DEF History, CompletedSays
<1>8. HappensOnce'
  BY DEF History, HappensOnce
<1> QED BY <1>6, <1>7, <1>8 DEF History

\* The lane keeps its claim when the turn does not touch its item.
LEMMA LaneAccepts ==
  ASSUME StoreTypes, effectWork = FlushedOutbox, LaneInv, NEW ch \in Change,
         tail' = Append(tail, ch), effectWork' = Apply(effectWork, ch),
         outbox' = outbox, applied' = applied, lane' = lane,
         \A i \in Items : Touches(ch, i) => effectWork[i] = Absent
  PROVE  LaneInv'
<1>1. /\ DOMAIN tail' = 1..(Len(tail) + 1)
      /\ \A k \in 1..Len(tail) : tail'[k] = tail[k]
      /\ tail'[Len(tail) + 1] = ch
      /\ tail \in Seq(Change)
  BY StoreAccepts DEF StoreTypes
<1>2. \A k \in DOMAIN tail' : (k \in DOMAIN tail /\ tail'[k] = tail[k]) \/ tail'[k] = ch
  <2>1. \A k \in 1..(Len(tail) + 1) : k \in 1..Len(tail) \/ k = Len(tail) + 1
    BY <1>1
  <2> QED BY <1>1, <2>1
<1>3. ASSUME Busy
      PROVE  /\ RealAction(lane.request)
             /\ effectWork'[lane.request.item] = Working(lane.request)
             /\ Settled(lane.request.item)'
  <2> DEFINE i == lane.request.item
  <2>1. RealAction(lane.request) /\ i \in Items /\ effectWork[i] = Working(lane.request) /\ Settled(i)
    BY <1>3 DEF LaneInv, RealAction
  <2>2. effectWork[i] # Absent
    <3>1. Working(lane.request).state # Absent.state
      BY DEF Working, Absent
    <3> QED BY <2>1, <3>1
  <2>3. ~Touches(ch, i)
    BY <2>1, <2>2
  <2>4. effectWork'[i] = effectWork[i]
    BY <2>1, <2>3 DEF Apply
  <2>5. \A l \in DOMAIN tail' : ~Touches(tail'[l], i)
    BY <1>2, <2>1, <2>3 DEF Settled
  <2>6. Settled(lane.request.item)'
    BY <2>5 DEF Settled
  <2> QED BY <2>1, <2>4, <2>6
<1>4. Busy' <=> Busy
  BY DEF Busy
<1> QED BY <1>3, <1>4 DEF LaneInv, RealAction, Working

-----------------------------------------------------------------------------
(* What leaves the store alone *)

\* The queues keep when nothing they depend on changes; an action may go into
\* the lane when no other waits.
LEMMA QueueFrame ==
  ASSUME NEW dw, NEW p, NEW r, QueueInv(dw, p, r),
         durableWork' = dw, pending' = p, ready' = r,
         UNCHANGED <<outbox, tail, durableTurn, effectWork, applied>>,
         Busy' => Busy \/ Quiet(p, r)
  PROVE  QueueInv(durableWork, pending, ready)'
<1>0. /\ QueueTypes(dw, p, r)
      /\ PendingFollows(p)
      /\ LastIsIndex(dw, p)
      /\ ClaimsWait(p)
      /\ ReadyClaims(r)
      /\ Single(p, r)
      /\ TailWaits(p)
  BY DEF QueueInv
<1>1. QueueTypes(durableWork, pending, ready)'
  BY <1>0 DEF QueueTypes
<1>2. PendingFollows(pending)'
  BY <1>0 DEF PendingFollows
<1>3. LastIsIndex(durableWork, pending)'
  BY <1>0 DEF LastIsIndex
<1>4. ClaimsWait(pending)'
  BY <1>0 DEF ClaimsWait, Waits, Claimed, RealAction, Working
<1>5. ReadyClaims(ready)'
  BY <1>0 DEF ReadyClaims, Settled, Claimed, RealAction, Working
<1>6. Single(pending, ready)'
  BY <1>0 DEF Single, Quiet, Waits
<1>7. TailWaits(pending)'
  BY <1>0 DEF TailWaits
<1> QED BY <1>1, <1>2, <1>3, <1>4, <1>5, <1>6, <1>7 DEF QueueInv

\* The ready queue may be emptied.
LEMMA QueueDrops ==
  ASSUME NEW dw, NEW p, NEW r, QueueInv(dw, p, r)
  PROVE  QueueInv(dw, p, <<>>)
<1>1. DOMAIN <<>> = {} /\ <<>> \in Seq(Action)
  OBVIOUS
<1> QED BY <1>1 DEF QueueInv, QueueTypes, ReadyClaims, Single

\* Empty queues are in order when the acknowledged index is the index.
LEMMA QueueEmpty ==
  ASSUME effectWork' \in Boxes, durableWork' = effectWork',
         tail' = <<>>, pending' = <<>>, ready' = <<>>
  PROVE  QueueInv(durableWork, pending, ready)'
<1>1. DOMAIN pending' = {} /\ DOMAIN ready' = {} /\ pending' \in Seq(Entry) /\ ready' \in Seq(Action)
  OBVIOUS
<1>2. DOMAIN tail' = {}
  OBVIOUS
<1> QED BY <1>1, <1>2 DEF QueueInv, QueueTypes, PendingFollows, LastIsIndex, ClaimsWait,
                          ReadyClaims, Single, TailWaits

\* With an action in flight, nothing waits behind it.
LEMMA BusyIsQuiet ==
  ASSUME NEW dw, NEW p, NEW r, QueueInv(dw, p, r), Busy
  PROVE  Quiet(p, r)
BY DEF QueueInv, Single, Quiet

\* A lane with nothing in flight is in order.
LEMMA LaneIdle ==
  ASSUME lane' \in Lanes, lane'.request = NoAction, lane'.result = "none"
  PROVE  LaneInv' /\ ~Busy'
BY DEF LaneInv, Busy, NoAction

\* The lane the effect worker leaves behind is idle.
LEMMA IdleLaneType == IdleLane \in Lanes /\ IdleLane.request = NoAction /\ IdleLane.result = "none"
<1>1. NoAction \in Action
  BY DEF NoAction, Action, Operation
<1> QED BY <1>1 DEF IdleLane, Lanes, Outcome

\* Where nothing of it changes, the history stays.
LEMMA HistoryFrame ==
  ASSUME History, UNCHANGED <<outbox, tail, effectWork, applied>>
  PROVE  History'
BY DEF History, StartedSays, CompletedSays, HappensOnce

\* The index keeps following the store when neither changes.
LEMMA StoreFrame ==
  ASSUME StoreTypes, effectWork = FlushedOutbox, spent' \in Spendings,
         UNCHANGED <<outbox, tail, durableTurn, effectWork, applied>>
  PROVE  StoreTypes' /\ (effectWork = FlushedOutbox)'
BY DEF StoreTypes, FlushedOutbox

\* An absent item has not happened; nor has one that is only pending.
LEMMA NotStarted ==
  ASSUME History, StoreTypes, NEW i \in Items,
         effectWork[i] = Absent \/ effectWork[i].state = "pending"
  PROVE  applied[i] = 0
<1>1. ~Started(effectWork[i])
  BY DEF Started, Absent
<1>2. applied[i] \in Nat /\ ~(applied[i] > 0)
  BY <1>1 DEF History, StartedSays, StoreTypes
<1> QED BY <1>2

-----------------------------------------------------------------------------
(* The steps *)

\* A source turn without an effect.
LEMMA DispatchPlainStep ==
  ASSUME EffectsInv, DispatchPlain
  PROVE  EffectsInv'
<1>0. /\ StoreTypes /\ effectWork = FlushedOutbox /\ LaneInv /\ History
      /\ QueueInv(durableWork, pending, ready)
  BY DEF EffectsInv
<1>1. /\ tail' = Append(tail, Plain)
      /\ UNCHANGED <<outbox, durableTurn, effectWork, durableWork, pending, ready, lane, applied>>
      /\ spent' = [spent EXCEPT !.plain = @ + 1]
  BY DEF DispatchPlain
<1>2. Plain \in Change
  BY DEF Plain, Change
<1>3. effectWork' = Apply(effectWork, Plain)
  BY <1>0, <1>1, ApplyPlain DEF StoreTypes
<1>4. \A i \in Items : ~Touches(Plain, i)
  BY ConstantsAssumption DEF Plain, Touches
<1>5. /\ tail' \in Seq(Change)
      /\ DOMAIN tail' = 1..(Len(tail) + 1)
      /\ Len(tail') = Len(tail) + 1
      /\ \A k \in 1..Len(tail) : tail'[k] = tail[k]
      /\ tail'[Len(tail) + 1] = Plain
      /\ (effectWork = FlushedOutbox)'
      /\ \A k \in 0..Len(tail) : After(outbox, tail', k) = After(outbox, tail, k)
  BY <1>0, <1>1, <1>2, <1>3, StoreAccepts
<1>6. spent' \in Spendings
  BY <1>0, <1>1 DEF StoreTypes, Spendings
<1>7. StoreTypes'
  BY <1>0, <1>1, <1>5, <1>6 DEF StoreTypes
<1>8. LaneInv'
  BY <1>0, <1>1, <1>2, <1>3, <1>4, LaneAccepts
<1>9. History'
  BY <1>0, <1>1, <1>2, <1>3, <1>4, HistoryAccepts DEF Plain
<1>10. tail \in Seq(Change) /\ DOMAIN tail = 1..Len(tail) /\ durableTurn \in Nat /\ Len(tail) \in Nat
  BY <1>0 DEF StoreTypes
<1>11. \A l \in DOMAIN tail' : (l \in DOMAIN tail /\ tail'[l] = tail[l]) \/ tail'[l] = Plain
  BY <1>5, <1>10
<1>12. QueueInv(durableWork, pending, ready)'
  <2>0. /\ QueueTypes(durableWork, pending, ready)
        /\ PendingFollows(pending)
        /\ LastIsIndex(durableWork, pending)
        /\ ClaimsWait(pending)
        /\ ReadyClaims(ready)
        /\ Single(pending, ready)
        /\ TailWaits(pending)
    BY <1>0 DEF QueueInv
  <2>1. QueueTypes(durableWork, pending, ready)' /\ LastIsIndex(durableWork, pending)'
    BY <2>0, <1>1 DEF QueueTypes, LastIsIndex
  <2>2. PendingFollows(pending)'
    <3>1. ASSUME NEW k \in DOMAIN pending
          PROVE  /\ pending[k].turn <= durableTurn + (Len(tail) + 1)
                 /\ pending[k].turn > durableTurn =>
                      pending[k].work = After(outbox, tail', pending[k].turn - durableTurn)
      <4>1. pending[k] \in Entry
        BY <2>0 DEF QueueTypes
      <4>2. pending[k].turn \in Nat
        BY <4>1 DEF Entry
      <4>3. /\ pending[k].turn <= durableTurn + Len(tail)
            /\ pending[k].turn > durableTurn =>
                 pending[k].work = After(outbox, tail, pending[k].turn - durableTurn)
        BY <2>0 DEF PendingFollows
      <4>4. pending[k].turn > durableTurn => pending[k].turn - durableTurn \in 0..Len(tail)
        BY <4>2, <4>3, <1>10
      <4> QED BY <4>2, <4>3, <4>4, <1>5, <1>10
    <3> QED BY <3>1, <1>1, <1>5 DEF PendingFollows
  <2>3. ClaimsWait(pending)'
    <3>1. ASSUME NEW k \in DOMAIN pending, Waits(pending, k)
          PROVE  /\ Claimed(pending[k].action)
                 /\ \A l \in DOMAIN tail' :
                      Touches(tail'[l], pending[k].action.item) => durableTurn + l <= pending[k].turn
      BY <2>0, <3>1, <1>4, <1>11 DEF ClaimsWait, Claimed, RealAction
    <3> QED BY <3>1, <1>1 DEF ClaimsWait, Waits, Claimed, RealAction, Working
  <2>4. ReadyClaims(ready)'
    <3>1. ASSUME NEW k \in DOMAIN ready
          PROVE  Claimed(ready[k]) /\ \A l \in DOMAIN tail' : ~Touches(tail'[l], ready[k].item)
      BY <2>0, <1>4, <1>11 DEF ReadyClaims, Settled, Claimed, RealAction
    <3> QED BY <3>1, <1>1 DEF ReadyClaims, Settled, Claimed, RealAction, Working
  <2>5. Single(pending, ready)'
    BY <2>0, <1>1 DEF Single, Waits, Busy
  <2>6. TailWaits(pending)'
    BY <2>0, <1>1, <1>11 DEF TailWaits
  <2> QED BY <2>1, <2>2, <2>3, <2>4, <2>5, <2>6 DEF QueueInv
<1> QED BY <1>5, <1>7, <1>8, <1>9, <1>12 DEF EffectsInv

\* The turn that starts an effect is a change of the outbox.
LEMMA EnqueuesFacts ==
  ASSUME NEW i \in Items
  PROVE  /\ Enqueues(i) \in Change
         /\ Enqueues(i).op = "enqueue"
         /\ \A j \in Items : Touches(Enqueues(i), j) <=> j = i
         /\ Written(Enqueues(i), i) = [state |-> "pending", attempt |-> 0]
<1>1. Enqueues(i) \in Change
  BY DEF Enqueues, Change
<1>2. \A j \in Items : Touches(Enqueues(i), j) <=> j = i
  BY ConstantsAssumption DEF Enqueues, Touches
<1>3. Written(Enqueues(i), i) = [state |-> "pending", attempt |-> 0]
  BY DEF Written, Enqueues, NewState
<1> QED BY <1>1, <1>2, <1>3 DEF Enqueues

\* A source turn with an effect.
LEMMA DispatchStep ==
  ASSUME EffectsInv, NEW i \in Items, Dispatch(i)
  PROVE  EffectsInv'
<1>0. /\ StoreTypes /\ effectWork = FlushedOutbox /\ LaneInv /\ History
      /\ QueueInv(durableWork, pending, ready)
  BY DEF EffectsInv
<1> DEFINE ch == Enqueues(i)
<1>1. /\ effectWork[i] = Absent
      /\ tail' = Append(tail, ch)
      /\ effectWork' = Apply(effectWork, ch)
      /\ pending' = Append(pending, [turn |-> NextTurn, work |-> effectWork', action |-> NoAction])
      /\ UNCHANGED <<outbox, durableTurn, durableWork, ready, lane, applied, spent>>
  BY DEF Dispatch
<1>2. /\ ch \in Change
      /\ ch.op = "enqueue"
      /\ \A j \in Items : Touches(ch, j) <=> j = i
  BY EnqueuesFacts
<1> HIDE DEF ch
<1>3. \A j \in Items : Touches(ch, j) => effectWork[j] = Absent
  BY <1>1, <1>2
<1>4. tail' \in Seq(Change) /\ effectWork' \in Boxes /\ (effectWork = FlushedOutbox)'
  BY <1>0, <1>1, <1>2, StoreAccepts
<1>5. StoreTypes'
  BY <1>0, <1>1, <1>4 DEF StoreTypes
<1>6. LaneInv'
  BY <1>0, <1>1, <1>2, <1>3, LaneAccepts
<1>7. applied[i] = 0
  BY <1>0, <1>1, NotStarted
<1>8. History'
  BY <1>0, <1>1, <1>2, <1>7, HistoryAccepts
<1>9. NoAction \in Action
  BY DEF NoAction, Action, Operation
<1>10. Busy' => Busy
  BY <1>1 DEF Busy
<1>11. QueueInv(durableWork, pending, ready)'
  BY <1>0, <1>1, <1>2, <1>3, <1>9, <1>10, QueueAccepts
<1> QED BY <1>4, <1>5, <1>6, <1>8, <1>11 DEF EffectsInv

\* A checkpoint.
LEMMA CheckpointStep ==
  ASSUME EffectsInv, Checkpoint
  PROVE  EffectsInv'
<1>0. /\ StoreTypes /\ effectWork = FlushedOutbox /\ LaneInv /\ History
      /\ QueueInv(durableWork, pending, ready)
  BY DEF EffectsInv
<1>1. /\ tail # <<>>
      /\ outbox' = Apply(outbox, Head(tail))
      /\ durableTurn' = durableTurn + 1
      /\ tail' = Tail(tail)
      /\ UNCHANGED <<effectWork, durableWork, pending, ready, lane, applied, spent>>
  BY DEF Checkpoint
<1>2. /\ outbox \in Boxes /\ tail \in Seq(Change) /\ durableTurn \in Nat /\ effectWork \in Boxes
      /\ applied \in [Items -> Nat] /\ spent \in Spendings
  BY <1>0 DEF StoreTypes
<1> DEFINE n == Len(tail)
<1>3. /\ n \in Nat \ {0} /\ DOMAIN tail = 1..n
      /\ Head(tail) = tail[1] /\ Head(tail) \in Change
      /\ tail' \in Seq(Change) /\ Len(tail') = n - 1 /\ DOMAIN tail' = 1..(n - 1)
      /\ \A k \in 1..(n - 1) : tail'[k] = tail[k + 1]
  BY <1>1, <1>2
<1>4. \A k \in 0..(n - 1) : After(outbox', tail', k) = After(outbox, tail, k + 1)
  BY <1>1, <1>2, AfterCheckpoint
<1> HIDE DEF n
<1>5. \A l \in DOMAIN tail' : l + 1 \in DOMAIN tail /\ tail'[l] = tail[l + 1]
  BY <1>3
<1>6. outbox' \in Boxes
  BY <1>1, <1>2, <1>3, ApplyType
<1>7. StoreTypes'
  BY <1>1, <1>2, <1>3, <1>6 DEF StoreTypes
<1>8. (effectWork = FlushedOutbox)'
  <2>1. After(outbox', tail', n - 1) = After(outbox, tail, n)
    <3>1. n - 1 \in 0..(n - 1) /\ (n - 1) + 1 = n
      BY <1>3
    <3> QED BY <3>1, <1>4
  <2> QED BY <2>1, <1>0, <1>1, <1>3 DEF FlushedOutbox, n
<1>9. \A i \in Items : Settled(i) => Settled(i)'
  BY <1>5 DEF Settled
<1>10. LaneInv'
  <2>1. Busy' <=> Busy
    BY <1>1 DEF Busy
  <2>2. Busy => Settled(lane.request.item)'
    <3>1. Busy => lane.request.item \in Items /\ Settled(lane.request.item)
      BY <1>0 DEF LaneInv, RealAction
    <3>2. Busy => \A l \in DOMAIN tail' : ~Touches(tail'[l], lane.request.item)
      BY <3>1, <1>5 DEF Settled
    <3> QED BY <3>2, <1>1 DEF Settled
  <2> QED BY <1>0, <1>1, <2>1, <2>2 DEF LaneInv, RealAction, Working
<1>11. History'
  <2> DEFINE ch == Head(tail)
  <2>0. /\ 1 \in DOMAIN tail /\ ch = tail[1] /\ ch \in Change
    BY <1>3
  <2>1. \A i \in Items :
          \/ outbox'[i] = outbox[i]
          \/ Touches(ch, i) /\ outbox'[i] = Written(ch, i)
    BY <1>1 DEF Apply
  <2> HIDE DEF ch
  <2>2. ASSUME NEW i \in Items, applied[i] > 0, Touches(ch, i)
        PROVE  Started(Written(ch, i))
    <3>1. i = ch.item /\ ch.op \in {"reconcile", "complete"}
      BY <2>0, <2>2, <1>0 DEF History, StartedSays
    <3>2. Written(ch, i).state = NewState(ch.op)
      BY <3>1 DEF Written
    <3> QED BY <3>1, <3>2 DEF Started, NewState
  <2>3. ASSUME NEW i \in Items, Touches(ch, i), Written(ch, i).state = "completed"
        PROVE  applied[i] = 1
    <3>1. i = ch.item
      BY <2>3 DEF Written
    <3>2. NewState(ch.op) = "completed"
      BY <2>3, <3>1 DEF Written
    <3>3. ch.op \in {"complete", "none"}
      BY <2>0, <3>2 DEF NewState, Change
    <3>4. ch.op # "none"
      <4>1. ch.op = "none" => ch = Plain
        BY <2>0, <1>0 DEF History, CompletedSays
      <4> QED BY <4>1, <3>1, ConstantsAssumption DEF Plain
    <3> QED BY <2>0, <3>1, <3>3, <3>4, <1>0 DEF History, CompletedSays
  <2>4. StartedSays'
    BY <2>1, <2>2, <1>0, <1>1, <1>5 DEF History, StartedSays
  <2>5. CompletedSays'
    BY <2>1, <2>3, <1>0, <1>1, <1>5 DEF History, CompletedSays
  <2>6. HappensOnce'
    BY <1>0, <1>1 DEF History, HappensOnce
  <2> QED BY <2>4, <2>5, <2>6 DEF History
<1>12. QueueInv(durableWork, pending, ready)'
  <2>0. /\ QueueTypes(durableWork, pending, ready)
        /\ PendingFollows(pending)
        /\ LastIsIndex(durableWork, pending)
        /\ ClaimsWait(pending)
        /\ ReadyClaims(ready)
        /\ Single(pending, ready)
        /\ TailWaits(pending)
    BY <1>0 DEF QueueInv
  <2>1. QueueTypes(durableWork, pending, ready)' /\ LastIsIndex(durableWork, pending)'
    BY <2>0, <1>1 DEF QueueTypes, LastIsIndex
  <2>2. \A k \in DOMAIN pending : pending[k].turn \in Nat
    <3>1. \A k \in DOMAIN pending : pending[k] \in Entry
      BY <2>0 DEF QueueTypes
    <3> QED BY <3>1 DEF Entry
  <2>3. PendingFollows(pending)'
    <3>1. ASSUME NEW k \in DOMAIN pending
          PROVE  /\ pending[k].turn <= (durableTurn + 1) + (n - 1)
                 /\ pending[k].turn > durableTurn + 1 =>
                      pending[k].work = After(outbox', tail', pending[k].turn - (durableTurn + 1))
      <4> DEFINE t == pending[k].turn
      <4>1. t \in Nat
        BY <2>2
      <4>2. t <= durableTurn + n /\ (t > durableTurn => pending[k].work = After(outbox, tail, t - durableTurn))
        BY <2>0 DEF PendingFollows, n
      <4> HIDE DEF t
      <4>3. t > durableTurn + 1 =>
              /\ t - (durableTurn + 1) \in 0..(n - 1)
              /\ (t - (durableTurn + 1)) + 1 = t - durableTurn
              /\ t > durableTurn
        BY <4>1, <4>2, <1>2, <1>3
      <4>4. t <= (durableTurn + 1) + (n - 1)
        BY <4>1, <4>2, <1>2, <1>3
      <4>5. t > durableTurn + 1 => pending[k].work = After(outbox', tail', t - (durableTurn + 1))
        BY <4>2, <4>3, <1>4
      <4> QED BY <4>4, <4>5 DEF t
    <3> QED BY <3>1, <1>1, <1>3 DEF PendingFollows
  <2>4. ClaimsWait(pending)'
    <3>1. ASSUME NEW k \in DOMAIN pending, Waits(pending, k)
          PROVE  /\ Claimed(pending[k].action)
                 /\ \A l \in DOMAIN tail' :
                      Touches(tail'[l], pending[k].action.item) => (durableTurn + 1) + l <= pending[k].turn
      <4>1. Claimed(pending[k].action)
        BY <2>0, <3>1 DEF ClaimsWait
      <4>2. ASSUME NEW l \in DOMAIN tail', Touches(tail'[l], pending[k].action.item)
            PROVE  (durableTurn + 1) + l <= pending[k].turn
        <5>1. durableTurn + (l + 1) <= pending[k].turn
          BY <2>0, <3>1, <4>2, <1>5 DEF ClaimsWait
        <5>2. l \in Nat
          BY <1>3
        <5> QED BY <5>1, <5>2, <2>2, <1>2
      <4> QED BY <4>1, <4>2
    <3> QED BY <3>1, <1>1 DEF ClaimsWait, Waits, Claimed, RealAction, Working
  <2>5. ReadyClaims(ready)'
    <3>1. ASSUME NEW k \in DOMAIN ready
          PROVE  Claimed(ready[k]) /\ \A l \in DOMAIN tail' : ~Touches(tail'[l], ready[k].item)
      BY <2>0, <1>5 DEF ReadyClaims, Settled
    <3> QED BY <3>1, <1>1 DEF ReadyClaims, Settled, Claimed, RealAction, Working
  <2>6. Single(pending, ready)'
    BY <2>0, <1>1 DEF Single, Waits, Busy
  <2>7. TailWaits(pending)'
    <3>1. ASSUME NEW l \in DOMAIN tail', tail'[l] # Plain
          PROVE  \E k \in DOMAIN pending : pending[k].turn = (durableTurn + 1) + l
      <4>1. PICK k \in DOMAIN pending : pending[k].turn = durableTurn + (l + 1)
        BY <2>0, <3>1, <1>5 DEF TailWaits
      <4>2. durableTurn + (l + 1) = (durableTurn + 1) + l
        BY <1>2, <1>3
      <4> QED BY <4>1, <4>2
    <3> QED BY <3>1, <1>1 DEF TailWaits
  <2> QED BY <2>1, <2>3, <2>4, <2>5, <2>6, <2>7 DEF QueueInv
<1> QED BY <1>7, <1>8, <1>10, <1>11, <1>12 DEF EffectsInv

\* A flush followed by a durable turn of its own leaves the outbox, and the
\* index, with everything applied.
LEMMA StoreFlushed ==
  ASSUME NEW box \in Boxes,
         outbox' = box, effectWork' = box, tail' = <<>>
  PROVE  tail' \in Seq(Change) /\ DOMAIN tail' = {} /\ effectWork' = FlushedOutbox'
<1>1. Len(tail') = 0 /\ tail' \in Seq(Change) /\ DOMAIN tail' = {}
  OBVIOUS
<1>2. After(box, tail', 0) = box
  BY AfterNone
<1> QED BY <1>1, <1>2 DEF FlushedOutbox

\* The history after everything is durable: the index told it before.
LEMMA HistoryFlushed ==
  ASSUME StoreTypes, History, NEW box \in Boxes,
         outbox' = box, effectWork' = box, tail' = <<>>, applied' = applied,
         \A i \in Items : box[i] = effectWork[i] \/ (applied[i] = 0 /\ box[i].state = "pending")
  PROVE  History'
<1>1. DOMAIN tail' = {}
  OBVIOUS
<1>2. ASSUME NEW i \in Items, applied[i] > 0 PROVE Started(box[i])
  <2>1. applied[i] # 0
    BY <1>2 DEF StoreTypes
  <2> QED BY <1>2, <2>1 DEF History, StartedSays
<1>3. ASSUME NEW i \in Items, box[i].state = "completed" PROVE applied[i] = 1
  BY <1>3 DEF History, CompletedSays
<1>4. StartedSays'
  BY <1>1, <1>2 DEF StartedSays
<1>5. CompletedSays'
  BY <1>1, <1>3 DEF CompletedSays
<1>6. HappensOnce'
  BY DEF History, HappensOnce
<1> QED BY <1>4, <1>5, <1>6 DEF History

\* A claim survives a turn that starts another effect.
LEMMA ClaimSurvives ==
  ASSUME NEW a, Claimed(a), NEW j \in Items, effectWork[j] = Absent,
         effectWork' = Apply(effectWork, Enqueues(j)), applied' = applied
  PROVE  Claimed(a)'
<1>1. a.item \in Items /\ effectWork[a.item] = Working(a)
  BY DEF Claimed, RealAction
<1>2. Working(a).state # Absent.state
  BY DEF Working, Absent
<1>3. a.item # j
  BY <1>1, <1>2
<1>4. effectWork'[a.item] = effectWork[a.item]
  BY <1>1, <1>3, EnqueuesFacts DEF Apply
<1> QED BY <1>4 DEF Claimed, RealAction, Working

\* A source turn that is durable when the call returns.
LEMMA DispatchDurablyStep ==
  ASSUME EffectsInv, NEW i \in Items, DispatchDurably(i)
  PROVE  EffectsInv'
<1>0. /\ StoreTypes /\ effectWork = FlushedOutbox /\ LaneInv /\ History
      /\ QueueInv(durableWork, pending, ready)
      /\ ClaimsWait(pending) /\ ReadyClaims(ready) /\ Single(pending, ready)
  BY DEF EffectsInv, QueueInv
<1> DEFINE box == Apply(effectWork, Enqueues(i))
<1>1. /\ effectWork[i] = Absent
      /\ outbox' = box /\ effectWork' = box /\ durableWork' = box
      /\ tail' = <<>> /\ pending' = <<>>
      /\ durableTurn' = NextTurn
      /\ ready' = PromotedReady(NextTurn)
      /\ UNCHANGED <<lane, applied, spent>>
  BY DEF DispatchDurably
<1>2. effectWork \in Boxes /\ tail \in Seq(Change) /\ durableTurn \in Nat
  BY <1>0 DEF StoreTypes
<1>3. box \in Boxes
  BY <1>2, EnqueuesFacts, ApplyType
<1>4. NextTurn \in Nat
  BY <1>2 DEF NextTurn
<1>5. \A j \in Items : box[j] = IF j = i THEN [state |-> "pending", attempt |-> 0] ELSE effectWork[j]
  BY EnqueuesFacts DEF Apply
<1>6. applied[i] = 0
  BY <1>0, <1>1, NotStarted
<1>7. effectWork' = Apply(effectWork, Enqueues(i))
  BY <1>1
<1> HIDE DEF box
<1>8. tail' \in Seq(Change) /\ DOMAIN tail' = {} /\ (effectWork = FlushedOutbox)'
  BY <1>1, <1>3, StoreFlushed
<1>9. StoreTypes'
  BY <1>0, <1>1, <1>3, <1>4, <1>8 DEF StoreTypes
<1>10. \A j \in Items : box[j] = effectWork[j] \/ (applied[j] = 0 /\ box[j].state = "pending")
  BY <1>5, <1>6
<1>11. History'
  BY <1>0, <1>1, <1>3, <1>10, HistoryFlushed
<1>12. LaneInv'
  <2>1. Busy' <=> Busy
    BY <1>1 DEF Busy
  <2>2. Busy => effectWork'[lane.request.item] = Working(lane.request)
    <3>1. ASSUME Busy PROVE effectWork'[lane.request.item] = Working(lane.request)
      <4>1. lane.request.item \in Items /\ effectWork[lane.request.item] = Working(lane.request)
        BY <1>0, <3>1 DEF LaneInv, RealAction
      <4>2. Working(lane.request).state # Absent.state
        BY DEF Working, Absent
      <4>3. lane.request.item # i
        BY <4>1, <4>2, <1>1
      <4> QED BY <4>1, <4>3, <1>1, <1>5
    <3> QED BY <3>1
  <2>3. Settled(lane.request.item)'
    BY <1>8 DEF Settled
  <2> QED BY <1>0, <1>1, <2>1, <2>2, <2>3 DEF LaneInv, RealAction, Working
<1>13. QueueInv(durableWork, pending, ready)'
  <2>1. /\ PromotedReady(NextTurn) \in Seq(Action)
        /\ \/ PromotedReady(NextTurn) = ready
           \/ /\ ready = <<>>
              /\ \E k \in DOMAIN pending :
                   Waits(pending, k) /\ PromotedReady(NextTurn) = <<pending[k].action>>
    BY <1>0, PromotedReadyCases
  <2>2. DOMAIN pending' = {} /\ pending' \in Seq(Entry)
    BY <1>1
  <2>3. QueueTypes(durableWork, pending, ready)'
    BY <1>1, <1>3, <2>1, <2>2 DEF QueueTypes
  <2>4. PendingFollows(pending)' /\ LastIsIndex(durableWork, pending)' /\ ClaimsWait(pending)'
    BY <1>1, <2>2 DEF PendingFollows, LastIsIndex, ClaimsWait
  <2>5. \A k \in DOMAIN ready' : Claimed(ready'[k])
    BY <2>1, <1>0, <1>1 DEF ReadyClaims, ClaimsWait
  <2>6. ReadyClaims(ready)'
    <3>1. ASSUME NEW k \in DOMAIN ready' PROVE Claimed(ready[k])'
      <4>1. PICK a : a = ready'[k]
        OBVIOUS
      <4>2. Claimed(a)
        BY <2>5, <4>1
      <4>3. Claimed(a)'
        BY <4>2, <1>1, <1>7, ClaimSurvives
      <4> QED BY <4>1, <4>3 DEF Claimed, RealAction, Working
    <3>2. \A k \in DOMAIN ready' : Settled(ready[k].item)'
      BY <1>8 DEF Settled
    <3> QED BY <3>1, <3>2 DEF ReadyClaims
  <2>7. Single(pending, ready)'
    <3>1. ready' # <<>> => Len(ready') = 1 /\ ~Busy
      BY <2>1, <1>0, <1>1 DEF Single
    <3> QED BY <3>1, <1>1, <2>2 DEF Single, Busy
  <2>8. TailWaits(pending)'
    BY <1>8 DEF TailWaits
  <2> QED BY <2>3, <2>4, <2>6, <2>7, <2>8 DEF QueueInv
<1> QED BY <1>8, <1>9, <1>11, <1>12, <1>13 DEF EffectsInv

\* A turn of the effect lane: with nothing else under way, the change is
\* accepted and the action it claims waits for it.
LEMMA EffectTurn ==
  ASSUME EffectsInv, Promote, ready' = PromotedReady(durableTurn),
         Quiet(StillPending(durableTurn), PromotedReady(durableTurn)),
         NEW ch \in Change, NEW act \in Action, EnqueueEffectTurn(ch, act),
         LaneInv', ~Busy',
         act # NoAction => Claimed(act)',
         \A i \in Items : Touches(ch, i) /\ applied[i] > 0 =>
           ch.item = i /\ ch.op \in {"reconcile", "complete"},
         ch.op = "complete" => ch.item \in Items /\ applied[ch.item] = 1,
         ch.op # "none"
  PROVE  EffectsInv'
<1>0. StoreTypes /\ effectWork = FlushedOutbox /\ History
  BY DEF EffectsInv
<1>1. /\ durableWork' = PromotedWork(durableTurn)
      /\ UNCHANGED <<outbox, durableTurn, applied, spent>>
      /\ tail' = Append(tail, ch)
      /\ effectWork' = Apply(effectWork, ch)
      /\ pending' = Append(StillPending(durableTurn),
                           [turn |-> NextTurn, work |-> effectWork', action |-> act])
  BY DEF Promote, EnqueueEffectTurn
<1>2. QueueInv(PromotedWork(durableTurn), StillPending(durableTurn), PromotedReady(durableTurn))
  BY Promotion
<1>3. tail' \in Seq(Change) /\ effectWork' \in Boxes /\ (effectWork = FlushedOutbox)'
  BY <1>0, <1>1, StoreAccepts
<1>4. StoreTypes'
  BY <1>0, <1>1, <1>3 DEF StoreTypes
<1>5. History'
  BY <1>0, <1>1, HistoryAccepts
<1>6. QueueInv(durableWork, pending, ready)'
  <2>1. PICK dw, p, r : /\ dw = PromotedWork(durableTurn)
                        /\ p = StillPending(durableTurn)
                        /\ r = PromotedReady(durableTurn)
    OBVIOUS
  <2>2. QueueInv(dw, p, r) /\ Quiet(p, r)
    BY <1>2, <2>1
  <2>3. /\ durableWork' = dw /\ ready' = r
        /\ pending' = Append(p, [turn |-> NextTurn, work |-> effectWork', action |-> act])
    BY <1>1, <2>1
  <2> QED BY <1>0, <1>1, <2>2, <2>3, QueueAccepts
<1> QED BY <1>3, <1>4, <1>5, <1>6 DEF EffectsInv

\* A poll that changes no turn: the queues are promoted, and an action may go
\* into the lane when no other waits.
LEMMA PollFrame ==
  ASSUME EffectsInv, Promote, pending' = StillPending(durableTurn),
         UNCHANGED <<tail, effectWork>>,
         ready' = PromotedReady(durableTurn) \/ ready' = <<>>,
         LaneInv', Busy' => Busy \/ Quiet(StillPending(durableTurn), ready')
  PROVE  EffectsInv'
<1>0. StoreTypes /\ effectWork = FlushedOutbox /\ History
  BY DEF EffectsInv
<1>1. /\ durableWork' = PromotedWork(durableTurn)
      /\ UNCHANGED <<outbox, durableTurn, applied, spent>>
  BY DEF Promote
<1>2. QueueInv(PromotedWork(durableTurn), StillPending(durableTurn), PromotedReady(durableTurn))
  BY Promotion
<1>3. spent' \in Spendings
  BY <1>0, <1>1 DEF StoreTypes
<1>4. StoreTypes' /\ (effectWork = FlushedOutbox)'
  BY <1>0, <1>1, <1>3, StoreFrame
<1>5. History'
  BY <1>0, <1>1, HistoryFrame
<1>6. QueueInv(durableWork, pending, ready)'
  <2>1. PICK dw, p, r : /\ dw = PromotedWork(durableTurn)
                        /\ p = StillPending(durableTurn)
                        /\ r = ready'
    OBVIOUS
  <2>2. QueueInv(dw, p, r)
    BY <1>2, <2>1, QueueDrops
  <2>3. durableWork' = dw /\ pending' = p /\ ready' = r
    BY <1>1, <2>1
  <2>4. Busy' => Busy \/ Quiet(p, r)
    BY <2>1
  <2> QED BY <1>1, <2>2, <2>3, <2>4, QueueFrame
<1> QED BY <1>4, <1>5, <1>6 DEF EffectsInv

\* The two claims a turn can make leave the item as the action wants it.
LEMMA BeginsClaims ==
  ASSUME StoreTypes, NEW i \in Items, applied[i] = 0,
         NEW act, act = [op |-> "dispatch", item |-> i, attempt |-> Begins(i).attempt],
         effectWork' = Apply(effectWork, Begins(i)), applied' = applied
  PROVE  Claimed(act)'
<1>1. Touches(Begins(i), i)
  BY DEF Touches, Begins
<1>2. Written(Begins(i), i) = [state |-> "dispatching", attempt |-> Begins(i).attempt]
  <2>1. Begins(i).item = i /\ Begins(i).op = "begin"
    BY DEF Begins
  <2> QED BY <2>1 DEF Written, NewState
<1>3. effectWork'[i] = [state |-> "dispatching", attempt |-> Begins(i).attempt]
  BY <1>1, <1>2 DEF Apply
<1>4. act.op = "dispatch" /\ act.item = i /\ act.attempt = Begins(i).attempt
  OBVIOUS
<1>5. effectWork'[act.item] = Working(act)
  BY <1>3, <1>4 DEF Working
<1> QED BY <1>4, <1>5 DEF Claimed, RealAction, Working

\* The same for a reconciliation.
LEMMA ReconcilesClaims ==
  ASSUME StoreTypes, NEW i \in Items,
         NEW act, act = [op |-> "reconcile", item |-> i, attempt |-> Reconciles(i).attempt],
         effectWork' = Apply(effectWork, Reconciles(i)), applied' = applied
  PROVE  Claimed(act)'
<1>1. Touches(Reconciles(i), i)
  BY DEF Touches, Reconciles
<1>2. Written(Reconciles(i), i) = [state |-> "reconcile", attempt |-> Reconciles(i).attempt]
  <2>1. Reconciles(i).item = i /\ Reconciles(i).op = "reconcile"
    BY DEF Reconciles
  <2> QED BY <2>1 DEF Written, NewState
<1>3. effectWork'[i] = [state |-> "reconcile", attempt |-> Reconciles(i).attempt]
  BY <1>1, <1>2 DEF Apply
<1>4. act.op = "reconcile" /\ act.item = i /\ act.attempt = Reconciles(i).attempt
  OBVIOUS
<1>5. effectWork'[act.item] = Working(act)
  BY <1>3, <1>4 DEF Working
<1> QED BY <1>4, <1>5 DEF Claimed, RealAction, Working

\* The changes the lane's turns make.
LEMMA ChangeTypes ==
  ASSUME StoreTypes, NEW i \in Items
  PROVE  /\ Begins(i) \in Change /\ Begins(i).attempt \in Nat
         /\ Begins(i).op = "begin" /\ \A k \in Items : Touches(Begins(i), k) <=> k = i
         /\ Reconciles(i) \in Change /\ Reconciles(i).attempt \in Nat
         /\ Reconciles(i).op = "reconcile" /\ Reconciles(i).item = i
         /\ \A k \in Items : Touches(Reconciles(i), k) <=> k = i
         /\ \A j \in Items \cup {NoItem} :
              /\ Completes(i, j) \in Change
              /\ Completes(i, j).op = "complete" /\ Completes(i, j).item = i
              /\ \A k \in Items : Touches(Completes(i, j), k) <=> k \in {i, j}
<1>1. effectWork[i].attempt \in Nat
  <2>1. effectWork[i] \in ItemState
    BY DEF StoreTypes, Boxes
  <2> QED BY <2>1 DEF ItemState
<1>2. Begins(i) \in Change /\ Begins(i).attempt \in Nat /\ Begins(i).op = "begin"
  BY <1>1 DEF Begins, Change
<1>3. Reconciles(i) \in Change /\ Reconciles(i).attempt \in Nat
  BY <1>1 DEF Reconciles, Change
<1>4. \A j \in Items \cup {NoItem} : Completes(i, j) \in Change
  BY <1>1 DEF Completes, Change
<1>5. \A k \in Items : Touches(Begins(i), k) <=> k = i
  BY ConstantsAssumption DEF Begins, Touches
<1>6. Reconciles(i).op = "reconcile" /\ Reconciles(i).item = i
  BY DEF Reconciles
<1>7. \A k \in Items : Touches(Reconciles(i), k) <=> k = i
  BY ConstantsAssumption DEF Reconciles, Touches
<1>8. \A j \in Items \cup {NoItem} :
        /\ Completes(i, j).op = "complete" /\ Completes(i, j).item = i
        /\ \A k \in Items : Touches(Completes(i, j), k) <=> k \in {i, j}
  BY DEF Completes, Touches
<1> QED BY <1>2, <1>3, <1>4, <1>5, <1>6, <1>7, <1>8

\* claim_effect_for_dispatch_async, with nothing else under way and the action
\* known not to have happened.
LEMMA ClaimForDispatchStep ==
  ASSUME EffectsInv, Promote, ready' = PromotedReady(durableTurn),
         Quiet(StillPending(durableTurn), PromotedReady(durableTurn)),
         NEW i \in Items, ClaimForDispatch(i), LaneInv', ~Busy', applied[i] = 0
  PROVE  EffectsInv'
<1>0. StoreTypes
  BY DEF EffectsInv
<1> DEFINE ch == Begins(i)
<1>1. PICK act : act = [op |-> "dispatch", item |-> i, attempt |-> ch.attempt]
  OBVIOUS
<1>2. EnqueueEffectTurn(ch, act)
  BY <1>1 DEF ClaimForDispatch
<1>3. ch \in Change /\ ch.attempt \in Nat /\ ch.op = "begin" /\ \A k \in Items : Touches(ch, k) <=> k = i
  BY <1>0, ChangeTypes
<1>4. act \in Action
  BY <1>1, <1>3 DEF Action, Operation
<1>5. effectWork' = Apply(effectWork, Begins(i)) /\ applied' = applied
  BY <1>2 DEF EnqueueEffectTurn, Promote
<1>6. Claimed(act)'
  BY <1>0, <1>1, <1>5, BeginsClaims
<1> HIDE DEF ch
<1>7. \A k \in Items : Touches(ch, k) /\ applied[k] > 0 => ch.item = k /\ ch.op \in {"reconcile", "complete"}
  BY <1>3
<1> QED BY <1>2, <1>3, <1>4, <1>6, <1>7, EffectTurn

\* mark_effect_reconciliation_async, with nothing else under way.
LEMMA MarkReconciliationStep ==
  ASSUME EffectsInv, Promote, ready' = PromotedReady(durableTurn),
         Quiet(StillPending(durableTurn), PromotedReady(durableTurn)),
         NEW i \in Items, MarkReconciliation(i), LaneInv', ~Busy'
  PROVE  EffectsInv'
<1>0. StoreTypes
  BY DEF EffectsInv
<1> DEFINE ch == Reconciles(i)
<1>1. PICK act : act = [op |-> "reconcile", item |-> i, attempt |-> ch.attempt]
  OBVIOUS
<1>2. EnqueueEffectTurn(ch, act)
  BY <1>1 DEF MarkReconciliation
<1>3. /\ ch \in Change /\ ch.attempt \in Nat /\ ch.op = "reconcile" /\ ch.item = i
      /\ \A k \in Items : Touches(ch, k) <=> k = i
  BY <1>0, ChangeTypes
<1>4. act \in Action
  BY <1>1, <1>3 DEF Action, Operation
<1>5. effectWork' = Apply(effectWork, Reconciles(i)) /\ applied' = applied
  BY <1>2 DEF EnqueueEffectTurn, Promote
<1>6. Claimed(act)'
  BY <1>0, <1>1, <1>5, ReconcilesClaims
<1> HIDE DEF ch
<1>7. \A k \in Items : Touches(ch, k) /\ applied[k] > 0 => ch.item = k /\ ch.op \in {"reconcile", "complete"}
  BY <1>3
<1> QED BY <1>2, <1>3, <1>4, <1>6, <1>7, EffectTurn

\* The lane has a result.
LEMMA TakeResultStep ==
  ASSUME EffectsInv, TakeResult
  PROVE  EffectsInv'
<1>0. StoreTypes /\ LaneInv /\ History
  BY DEF EffectsInv
<1> DEFINE i == lane.request.item
<1>1. /\ lane.result # "none"
      /\ Promote
      /\ ready' = PromotedReady(durableTurn)
      /\ lane' = IdleLane
      /\ \/ /\ lane.result = "done"
            /\ \E j \in {k \in Items : effectWork[k] = Absent} \cup {NoItem} :
                 EnqueueEffectTurn(Completes(i, j), NoAction)
         \/ /\ lane.result = "failed" /\ lane.request.op = "dispatch"
            /\ MarkReconciliation(i)
         \/ /\ lane.result = "notApplied"
            /\ ClaimForDispatch(i)
         \/ /\ pending' = StillPending(durableTurn)
            /\ UNCHANGED <<tail, effectWork>>
  BY DEF TakeResult
<1>2. Busy /\ i \in Items
  BY <1>0, <1>1 DEF LaneInv, RealAction
<1>3. Quiet(StillPending(durableTurn), PromotedReady(durableTurn))
  BY <1>2, Promotion, BusyIsQuiet
<1>4. LaneInv' /\ ~Busy'
  BY <1>1, IdleLaneType, LaneIdle
<1>5. lane.result = "done" => applied[i] = 1
  BY <1>0 DEF LaneInv
<1>6. lane.result = "notApplied" => applied[i] = 0
  BY <1>0 DEF LaneInv
<1> HIDE DEF i
<1>7. ASSUME lane.result = "done",
             NEW j \in {k \in Items : effectWork[k] = Absent} \cup {NoItem},
             EnqueueEffectTurn(Completes(i, j), NoAction)
      PROVE  EffectsInv'
  <2> DEFINE ch == Completes(i, j)
  <2>1. /\ ch \in Change /\ ch.op = "complete" /\ ch.item = i
        /\ \A k \in Items : Touches(ch, k) <=> k \in {i, j}
    BY <1>0, <1>2, ChangeTypes
  <2>2. j \in Items => applied[j] = 0
    BY <1>0, NotStarted, ConstantsAssumption
  <2>3. NoAction \in Action
    BY DEF NoAction, Action, Operation
  <2>4. EnqueueEffectTurn(ch, NoAction)
    BY <1>7
  <2> HIDE DEF ch
  <2>5. \A k \in Items : Touches(ch, k) /\ applied[k] > 0 => ch.item = k /\ ch.op \in {"reconcile", "complete"}
    BY <2>1, <2>2
  <2> QED BY <1>1, <1>2, <1>3, <1>4, <1>5, <1>7, <2>1, <2>3, <2>4, <2>5, EffectTurn
<1>8. ASSUME MarkReconciliation(i)
      PROVE  EffectsInv'
  BY <1>1, <1>2, <1>3, <1>4, <1>8, MarkReconciliationStep
<1>9. ASSUME lane.result = "notApplied", ClaimForDispatch(i)
      PROVE  EffectsInv'
  BY <1>1, <1>2, <1>3, <1>4, <1>6, <1>9, ClaimForDispatchStep
<1>10. ASSUME pending' = StillPending(durableTurn), UNCHANGED <<tail, effectWork>>
       PROVE  EffectsInv'
  BY <1>1, <1>4, <1>10, PollFrame
<1> QED BY <1>1, <1>7, <1>8, <1>9, <1>10

\* An action goes into the idle lane.
LEMMA LaneSubmits ==
  ASSUME NEW act \in Action, Claimed(act), Settled(act.item), Submit(act),
         UNCHANGED <<outbox, tail, effectWork, applied>>
  PROVE  LaneInv' /\ Busy'
<1>1. lane' = [request |-> act, performed |-> FALSE, result |-> "none"]
  BY DEF Submit
<1>2. lane'.request = act /\ lane'.performed = FALSE /\ lane'.result = "none"
  BY <1>1
<1>3. lane' \in Lanes
  BY <1>1 DEF Lanes, Outcome
<1>4. Settled(act.item)'
  BY DEF Settled
<1>5. RealAction(act) /\ act # NoAction /\ effectWork'[act.item] = Working(act)
  BY DEF Claimed, RealAction, NoAction
<1>6. \A l \in DOMAIN tail' : ~Touches(tail'[l], lane'.request.item)
  BY <1>2 DEF Settled
<1>7. Settled(lane.request.item)'
  BY <1>6 DEF Settled
<1>8. act.op = "dispatch" => applied'[act.item] = 0
  BY DEF Claimed
<1> QED BY <1>2, <1>3, <1>5, <1>7, <1>8 DEF LaneInv, Busy, RealAction, Working

\* A poll that submits the action whose claim is durable.
LEMMA SubmitReadyStep ==
  ASSUME EffectsInv, SubmitReady
  PROVE  EffectsInv'
<1> DEFINE r == PromotedReady(durableTurn)
           p == StillPending(durableTurn)
<1>1. /\ ~Busy /\ Promote
      /\ r # <<>>
      /\ Submit(Head(r))
      /\ ready' = Tail(r)
      /\ pending' = p
      /\ UNCHANGED <<tail, effectWork>>
  BY DEF SubmitReady
<1>2. QueueInv(PromotedWork(durableTurn), p, r)
  BY Promotion
<1>3. /\ r \in Seq(Action) /\ ReadyClaims(r)
      /\ Len(r) = 1 /\ \A k \in DOMAIN p : ~Waits(p, k)
  BY <1>1, <1>2 DEF QueueInv, QueueTypes, Single
<1> HIDE DEF r
<1>4. Head(r) = r[1] /\ 1 \in DOMAIN r /\ Head(r) \in Action /\ Tail(r) = <<>>
  BY <1>1, <1>3
<1>5. Claimed(Head(r)) /\ Settled(Head(r).item)
  BY <1>3, <1>4 DEF ReadyClaims
<1>6. UNCHANGED <<outbox, tail, effectWork, applied>>
  BY <1>1 DEF Promote
<1>7. PICK act \in Action : act = Head(r)
  BY <1>4
<1>8. Claimed(act) /\ Settled(act.item) /\ Submit(act)
  BY <1>1, <1>5, <1>7
<1>9. LaneInv'
  BY <1>6, <1>8, LaneSubmits
<1>10. ready' = <<>> /\ Quiet(p, ready')
  BY <1>1, <1>3, <1>4 DEF Quiet
<1> QED BY <1>1, <1>9, <1>10, PollFrame

\* The first unfinished item is an item, and is unfinished.
LEMMA NextWorkFacts ==
  ASSUME NEW box, HasWork(box)
  PROVE  NextWork(box) \in Items /\ Unfinished(box[NextWork(box)])
<1> DEFINE S == {i \in Items : Unfinished(box[i])}
<1>1. S \in SUBSET Nat /\ S # {}
  BY ConstantsAssumption DEF HasWork
<1>2. \E i \in S : \A j \in S : i <= j
  <2> HIDE DEF S
  <2> QED BY <1>1, LeastNumber
<1>3. \E i \in Items : Unfinished(box[i]) /\ \A j \in Items : Unfinished(box[j]) => i <= j
  BY <1>2
<1> QED BY <1>3 DEF NextWork

\* A poll that starts the next item of the durable index: as nothing of the
\* lane is accepted and not durable, that index is the outbox.
LEMMA StartWorkStep ==
  ASSUME EffectsInv, StartWork
  PROVE  EffectsInv'
<1>0. StoreTypes /\ LaneInv /\ History /\ effectWork = FlushedOutbox
  BY DEF EffectsInv
<1> DEFINE r == PromotedReady(durableTurn)
           p == StillPending(durableTurn)
           work == PromotedWork(durableTurn)
           i == NextWork(work)
<1>1. /\ lane.result = "none" /\ ~Busy /\ Promote
      /\ r = <<>> /\ ready' = <<>> /\ p = <<>>
      /\ HasWork(work)
      /\ \/ /\ work[i].state = "pending"
            /\ ClaimForDispatch(i)
            /\ UNCHANGED lane
         \/ /\ work[i].state = "dispatching"
            /\ MarkReconciliation(i)
            /\ UNCHANGED lane
         \/ /\ pending' = <<>>
            /\ UNCHANGED <<tail, effectWork, lane>>
         \/ /\ work[i].state = "reconcile"
            /\ Submit([op |-> "reconcile", item |-> i, attempt |-> work[i].attempt])
            /\ pending' = <<>>
            /\ UNCHANGED <<tail, effectWork>>
  BY DEF StartWork
<1>2. QueueInv(work, p, r)
  BY Promotion
<1>3. work = effectWork /\ TailWaits(p)
  BY <1>1, <1>2 DEF QueueInv, LastIsIndex
<1>4. i \in Items
  BY <1>1, NextWorkFacts
<1>5. Quiet(p, r)
  <2>1. DOMAIN p = {}
    BY <1>1
  <2> QED BY <1>1, <2>1 DEF Quiet
<1>6. ready' = r
  BY <1>1
<1> HIDE DEF r, p, work, i
<1>7. UNCHANGED lane => LaneInv' /\ ~Busy'
  <2>1. lane \in Lanes /\ lane.request = NoAction
    BY <1>0, <1>1 DEF LaneInv, Busy
  <2> QED BY <2>1, <1>1, LaneIdle
<1>8. ASSUME work[i].state = "pending", ClaimForDispatch(i), UNCHANGED lane
      PROVE  EffectsInv'
  <2>1. applied[i] = 0
    BY <1>0, <1>3, <1>4, <1>8, NotStarted
  <2> QED BY <1>1, <1>4, <1>5, <1>6, <1>7, <1>8, <2>1, ClaimForDispatchStep DEF r, p
<1>9. ASSUME MarkReconciliation(i), UNCHANGED lane
      PROVE  EffectsInv'
  BY <1>1, <1>4, <1>5, <1>6, <1>7, <1>9, MarkReconciliationStep DEF r, p
<1>10. ASSUME work[i].state = "reconcile",
              Submit([op |-> "reconcile", item |-> i, attempt |-> work[i].attempt]),
              pending' = <<>>, UNCHANGED <<tail, effectWork>>
       PROVE  EffectsInv'
  <2>1. effectWork[i] \in ItemState
    BY <1>0, <1>4 DEF StoreTypes, Boxes
  <2>2. PICK act : act = [op |-> "reconcile", item |-> i, attempt |-> effectWork[i].attempt]
    OBVIOUS
  <2>3. act.op = "reconcile" /\ act.item = i /\ act.attempt = effectWork[i].attempt
    BY <2>2
  <2>4. act \in Action
    BY <2>1, <2>2, <1>4 DEF Action, Operation, ItemState
  <2>5. effectWork[i] = [state |-> "reconcile", attempt |-> effectWork[i].attempt]
    BY <2>1, <1>3, <1>10 DEF ItemState
  <2>6. Claimed(act)
    BY <2>3, <2>5, <1>4 DEF Claimed, RealAction, Working
  <2>7. Settled(act.item)
    <3>1. DOMAIN p = {}
      BY <1>1
    <3>2. \A l \in DOMAIN tail : tail[l] = Plain
      BY <3>1, <1>3 DEF TailWaits
    <3>3. ~Touches(Plain, i)
      BY <1>4, ConstantsAssumption DEF Plain, Touches
    <3> QED BY <2>3, <3>2, <3>3 DEF Settled
  <2>8. Submit(act)
    BY <2>2, <1>3, <1>10
  <2>9. UNCHANGED <<outbox, tail, effectWork, applied>>
    BY <1>1, <1>10 DEF Promote
  <2>10. LaneInv'
    BY <2>4, <2>6, <2>7, <2>8, <2>9, LaneSubmits
  <2>11. pending' = StillPending(durableTurn) /\ Quiet(StillPending(durableTurn), ready')
    BY <1>1, <1>5, <1>6, <1>10 DEF p, r
  <2> QED BY <1>1, <1>10, <2>10, <2>11, PollFrame
<1>11. ASSUME pending' = <<>>, UNCHANGED <<tail, effectWork, lane>>
       PROVE  EffectsInv'
  <2>1. pending' = StillPending(durableTurn)
    BY <1>1, <1>11 DEF p
  <2> QED BY <1>1, <1>7, <1>11, <2>1, PollFrame
<1> QED BY <1>1, <1>8, <1>9, <1>10, <1>11

\* A poll that only promotes.
LEMMA PollOnlyStep ==
  ASSUME EffectsInv, PollOnly
  PROVE  EffectsInv'
<1>1. /\ Promote
      /\ ready' = PromotedReady(durableTurn)
      /\ pending' = StillPending(durableTurn)
      /\ UNCHANGED <<tail, effectWork, lane>>
  BY DEF PollOnly
<1>2. UNCHANGED applied
  BY <1>1 DEF Promote
<1>3. LaneInv'
  BY <1>1, <1>2 DEF EffectsInv, LaneInv, Busy, RealAction, Working, Settled
<1>4. Busy' => Busy
  BY <1>1 DEF Busy
<1> QED BY <1>1, <1>3, <1>4, PollFrame

\* The action happens.
LEMMA PerformStep ==
  ASSUME EffectsInv, Perform
  PROVE  EffectsInv'
<1>0. /\ StoreTypes /\ LaneInv /\ History /\ effectWork = FlushedOutbox
      /\ QueueInv(durableWork, pending, ready)
  BY DEF EffectsInv
<1> DEFINE i == lane.request.item
<1>1. /\ lane.request.op = "dispatch" /\ lane.result = "none" /\ ~lane.performed
      /\ lane' = [lane EXCEPT !.performed = TRUE]
      /\ applied' = [applied EXCEPT ![i] = applied[i] + 1]
      /\ UNCHANGED <<outbox, tail, durableTurn, effectWork, durableWork, pending, ready, spent>>
  BY DEF Perform
<1>2. lane \in Lanes
  BY <1>0 DEF LaneInv
<1>3. lane'.request = lane.request /\ lane'.performed = TRUE /\ lane'.result = lane.result /\ lane' \in Lanes
  BY <1>1, <1>2 DEF Lanes
<1>4. Busy /\ Busy'
  BY <1>1, <1>3 DEF Busy, NoAction
<1>5. /\ RealAction(lane.request) /\ i \in Items
      /\ effectWork[i] = Working(lane.request) /\ Settled(i) /\ applied[i] = 0
  BY <1>0, <1>1, <1>4 DEF LaneInv, RealAction
<1>6. applied \in [Items -> Nat]
  BY <1>0 DEF StoreTypes
<1>7. /\ applied' \in [Items -> Nat] /\ applied'[i] = 1
      /\ \A j \in Items : j # i => applied'[j] = applied[j]
  BY <1>1, <1>5, <1>6
<1>8. StoreTypes' /\ (effectWork = FlushedOutbox)'
  BY <1>0, <1>1, <1>7 DEF StoreTypes, FlushedOutbox
<1>9. LaneInv'
  <2>1. \A l \in DOMAIN tail' : ~Touches(tail'[l], lane'.request.item)
    BY <1>1, <1>3, <1>5 DEF Settled
  <2>2. Settled(lane.request.item)'
    BY <2>1 DEF Settled
  <2>3. lane'.result = "none"
    BY <1>1, <1>3
  <2>4. RealAction(lane.request)' /\ (effectWork[lane.request.item] = Working(lane.request))'
    BY <1>1, <1>3, <1>5 DEF RealAction, Working
  <2> QED BY <1>3, <1>4, <2>2, <2>3, <2>4 DEF LaneInv
<1>10. History'
  <2>1. outbox[i] = effectWork[i]
    BY <1>0, <1>5, SettledIsDurable
  <2>2. Started(effectWork[i])
    BY <1>5 DEF Started, Working
  <2>3. StartedSays'
    <3>1. ASSUME NEW j \in Items, applied'[j] > 0
          PROVE  /\ Started(outbox[j])
                 /\ Started(effectWork[j])
                 /\ \A k \in DOMAIN tail :
                      Touches(tail[k], j) => tail[k].item = j /\ tail[k].op \in {"reconcile", "complete"}
      <4>1. CASE j = i
        BY <4>1, <2>1, <2>2, <1>5 DEF Settled
      <4>2. CASE j # i
        BY <4>2, <3>1, <1>0, <1>7 DEF History, StartedSays
      <4> QED BY <4>1, <4>2
    <3> QED BY <3>1, <1>1 DEF StartedSays
  <2>4. CompletedSays'
    <3>1. \A j \in Items : applied[j] = 1 => applied'[j] = 1
      BY <1>7
    <3> QED BY <3>1, <1>0, <1>1 DEF History, CompletedSays
  <2>5. HappensOnce'
    BY <1>0, <1>7 DEF History, HappensOnce
  <2> QED BY <2>3, <2>4, <2>5 DEF History
<1>11. QueueInv(durableWork, pending, ready)'
  <2>0. /\ QueueTypes(durableWork, pending, ready)
        /\ PendingFollows(pending)
        /\ LastIsIndex(durableWork, pending)
        /\ Single(pending, ready)
        /\ TailWaits(pending)
    BY <1>0 DEF QueueInv
  <2>1. Quiet(pending, ready)
    BY <1>0, <1>4, BusyIsQuiet
  <2>2. DOMAIN ready' = {} /\ \A k \in DOMAIN pending' : ~Waits(pending', k)
    BY <2>1, <1>1 DEF Quiet, Waits
  <2>3. QueueTypes(durableWork, pending, ready)' /\ PendingFollows(pending)'
        /\ LastIsIndex(durableWork, pending)' /\ TailWaits(pending)'
    BY <2>0, <1>1 DEF QueueTypes, PendingFollows, LastIsIndex, TailWaits
  <2>4. ClaimsWait(pending)' /\ ReadyClaims(ready)'
    BY <2>2 DEF ClaimsWait, ReadyClaims, Waits
  <2>5. Single(pending, ready)'
    BY <2>0, <2>1, <1>1 DEF Single, Quiet, Waits
  <2> QED BY <2>3, <2>4, <2>5 DEF QueueInv
<1> QED BY <1>8, <1>9, <1>10, <1>11 DEF EffectsInv

\* The driver answers or fails: only the lane's result changes.
LEMMA ResultStep ==
  ASSUME EffectsInv, NEW res \in Outcome, res # "none", Busy,
         lane' = [lane EXCEPT !.result = res],
         UNCHANGED <<outbox, tail, durableTurn, effectWork, durableWork, pending, ready, applied>>,
         spent' \in Spendings,
         res = "done" => applied[lane.request.item] = 1,
         res = "notApplied" => applied[lane.request.item] = 0
  PROVE  EffectsInv'
<1>0. /\ StoreTypes /\ LaneInv /\ History /\ effectWork = FlushedOutbox
      /\ QueueInv(durableWork, pending, ready)
  BY DEF EffectsInv
<1>1. lane \in Lanes
  BY <1>0 DEF LaneInv
<1>2. lane'.request = lane.request /\ lane'.performed = lane.performed /\ lane'.result = res /\ lane' \in Lanes
  BY <1>1 DEF Lanes
<1>3. Busy'
  BY <1>2 DEF Busy
<1>4. LaneInv'
  BY <1>0, <1>2, <1>3 DEF LaneInv, RealAction, Working, Settled
<1>5. StoreTypes' /\ (effectWork = FlushedOutbox)'
  BY <1>0, StoreFrame
<1>6. History'
  BY <1>0, HistoryFrame
<1>7. QueueInv(durableWork, pending, ready)'
  <2>1. PICK dw, p, r : dw = durableWork /\ p = pending /\ r = ready
    OBVIOUS
  <2>2. QueueInv(dw, p, r) /\ durableWork' = dw /\ pending' = p /\ ready' = r
    BY <1>0, <2>1
  <2> QED BY <2>2, QueueFrame
<1> QED BY <1>4, <1>5, <1>6, <1>7 DEF EffectsInv

\* The driver returns.
LEMMA ReturnStep ==
  ASSUME EffectsInv, Return
  PROVE  EffectsInv'
<1>0. StoreTypes /\ LaneInv /\ History
  BY DEF EffectsInv
<1> DEFINE i == lane.request.item
           res == IF applied[i] > 0 THEN "done" ELSE "notApplied"
<1>1. /\ Busy
      /\ lane' = [lane EXCEPT !.result = res]
      /\ UNCHANGED <<outbox, tail, durableTurn, effectWork, durableWork, pending, ready, applied, spent>>
  BY DEF Return
<1>2. i \in Items
  BY <1>0, <1>1 DEF LaneInv, RealAction
<1>3. applied[i] \in Nat /\ applied[i] <= 1
  BY <1>0, <1>2 DEF StoreTypes, History, HappensOnce
<1>4. res \in Outcome /\ res # "none"
  BY DEF Outcome
<1>5. (res = "done" => applied[i] = 1) /\ (res = "notApplied" => applied[i] = 0)
  BY <1>3
<1>6. spent' \in Spendings
  BY <1>0, <1>1 DEF StoreTypes
<1>7. PICK x \in Outcome : x = res
  BY <1>4
<1> HIDE DEF res
<1>8. lane' = [lane EXCEPT !.result = x] /\ x # "none"
  BY <1>1, <1>4, <1>7
<1>9. (x = "done" => applied[lane.request.item] = 1) /\ (x = "notApplied" => applied[lane.request.item] = 0)
  BY <1>5, <1>7
<1> QED BY <1>1, <1>6, <1>8, <1>9, ResultStep

\* The driver fails.
LEMMA FailStep ==
  ASSUME EffectsInv, Fail
  PROVE  EffectsInv'
<1>0. StoreTypes
  BY DEF EffectsInv
<1>1. /\ Busy
      /\ spent' = [spent EXCEPT !.errors = @ + 1]
      /\ lane' = [lane EXCEPT !.result = "failed"]
      /\ UNCHANGED <<outbox, tail, durableTurn, effectWork, durableWork, pending, ready, applied>>
  BY DEF Fail
<1>2. spent' \in Spendings
  BY <1>0, <1>1 DEF StoreTypes, Spendings
<1>3. "failed" \in Outcome
  BY DEF Outcome
<1> QED BY <1>1, <1>2, <1>3, ResultStep

\* An activation.
LEMMA ActivateStep ==
  ASSUME EffectsInv, NEW j \in Items \cup {NoItem}, Activate(j)
  PROVE  EffectsInv'
<1>0. StoreTypes /\ LaneInv /\ History /\ effectWork = FlushedOutbox
  BY DEF EffectsInv
<1> DEFINE box == IF j = NoItem THEN effectWork ELSE Apply(effectWork, Enqueues(j))
<1>1. /\ spent' = [spent EXCEPT !.activations = @ + 1]
      /\ j # NoItem => effectWork[j] = Absent
      /\ outbox' = box /\ effectWork' = box /\ durableWork' = box
      /\ tail' = <<>> /\ pending' = <<>> /\ ready' = <<>>
      /\ durableTurn' = durableTurn + Len(tail) + (IF j = NoItem THEN 0 ELSE 1)
      /\ UNCHANGED <<lane, applied>>
  BY <1>0 DEF Activate
<1>2. /\ effectWork \in Boxes /\ tail \in Seq(Change) /\ durableTurn \in Nat /\ spent \in Spendings
      /\ applied \in [Items -> Nat]
  BY <1>0 DEF StoreTypes
<1>3. box \in Boxes
  BY <1>2, EnqueuesFacts, ApplyType
<1>4. spent' \in Spendings /\ durableTurn' \in Nat
  BY <1>1, <1>2 DEF Spendings
<1>5. ASSUME NEW k \in Items
      PROVE  box[k] = effectWork[k] \/ (effectWork[k] = Absent /\ box[k].state = "pending")
  <2>1. CASE j = NoItem
    BY <2>1
  <2>2. CASE j # NoItem
    <3>1. j \in Items
      BY <2>2
    <3> QED BY <2>2, <3>1, <1>1, EnqueuesFacts DEF Apply
  <2> QED BY <2>1, <2>2
<1> HIDE DEF box
<1>6. tail' \in Seq(Change) /\ DOMAIN tail' = {} /\ (effectWork = FlushedOutbox)'
  BY <1>1, <1>3, StoreFlushed
<1>7. StoreTypes'
  BY <1>1, <1>2, <1>3, <1>4, <1>6 DEF StoreTypes
<1>8. History'
  <2>1. \A k \in Items : box[k] = effectWork[k] \/ (applied[k] = 0 /\ box[k].state = "pending")
    BY <1>0, <1>5, NotStarted
  <2> QED BY <2>1, <1>0, <1>1, <1>3, HistoryFlushed
<1>9. LaneInv'
  <2>1. Busy' <=> Busy
    BY <1>1 DEF Busy
  <2>2. ASSUME Busy PROVE effectWork'[lane.request.item] = Working(lane.request)
    <3>1. lane.request.item \in Items /\ effectWork[lane.request.item] = Working(lane.request)
      BY <1>0, <2>2 DEF LaneInv, RealAction
    <3>2. Working(lane.request).state # Absent.state
      BY DEF Working, Absent
    <3> QED BY <3>1, <3>2, <1>1, <1>5
  <2>3. Settled(lane.request.item)'
    BY <1>6 DEF Settled
  <2> QED BY <1>0, <1>1, <2>1, <2>2, <2>3 DEF LaneInv, RealAction, Working
<1>10. QueueInv(durableWork, pending, ready)'
  BY <1>1, <1>3, QueueEmpty
<1> QED BY <1>6, <1>7, <1>8, <1>9, <1>10 DEF EffectsInv

\* A crash: what is not durable is gone, and what has happened is in the
\* outbox.
LEMMA CrashStep ==
  ASSUME EffectsInv, Crash
  PROVE  EffectsInv'
<1>0. StoreTypes /\ History
  BY DEF EffectsInv
<1>1. /\ spent' = [spent EXCEPT !.crashes = @ + 1]
      /\ tail' = <<>> /\ pending' = <<>> /\ ready' = <<>>
      /\ effectWork' = outbox /\ durableWork' = outbox /\ outbox' = outbox
      /\ lane' = IdleLane
      /\ UNCHANGED <<durableTurn, applied>>
  BY DEF Crash
<1>2. outbox \in Boxes /\ spent' \in Spendings
  BY <1>0, <1>1 DEF StoreTypes, Spendings
<1>3. tail' \in Seq(Change) /\ DOMAIN tail' = {} /\ (effectWork = FlushedOutbox)'
  BY <1>1, <1>2, StoreFlushed
<1>4. StoreTypes'
  BY <1>0, <1>1, <1>2, <1>3 DEF StoreTypes
<1>5. History'
  BY <1>0, <1>1, <1>3 DEF History, StartedSays, CompletedSays, HappensOnce
<1>6. LaneInv'
  BY <1>1, IdleLaneType, LaneIdle
<1>7. QueueInv(durableWork, pending, ready)'
  BY <1>1, <1>2, QueueEmpty
<1> QED BY <1>3, <1>4, <1>5, <1>6, <1>7 DEF EffectsInv

\* Every step keeps the invariant.
LEMMA EffectsInvNext == EffectsInv /\ [Next]_vars => EffectsInv'
<1> SUFFICES ASSUME EffectsInv, [Next]_vars PROVE EffectsInv'
  OBVIOUS
<1>1. CASE DispatchPlain
  BY <1>1, DispatchPlainStep
<1>2. ASSUME NEW i \in Items, Dispatch(i) PROVE EffectsInv'
  BY <1>2, DispatchStep
<1>3. ASSUME NEW i \in Items, DispatchDurably(i) PROVE EffectsInv'
  BY <1>3, DispatchDurablyStep
<1>4. CASE Checkpoint
  BY <1>4, CheckpointStep
<1>5. CASE Poll
  BY <1>5, TakeResultStep, SubmitReadyStep, StartWorkStep, PollOnlyStep DEF Poll
<1>6. CASE EffectWorker
  BY <1>6, PerformStep, ReturnStep DEF EffectWorker
<1>7. CASE Fail
  BY <1>7, FailStep
<1>8. ASSUME NEW j \in Items \cup {NoItem}, Activate(j) PROVE EffectsInv'
  BY <1>8, ActivateStep
<1>9. CASE Crash
  BY <1>9, CrashStep
<1>10. CASE UNCHANGED vars
  <2>1. /\ UNCHANGED <<outbox, tail, durableTurn, effectWork, applied>>
        /\ UNCHANGED <<durableWork, pending, ready, lane, spent>>
    BY <1>10 DEF vars
  <2>0. /\ StoreTypes /\ LaneInv /\ History /\ effectWork = FlushedOutbox
        /\ QueueInv(durableWork, pending, ready)
    BY DEF EffectsInv
  <2>2. spent' \in Spendings
    BY <2>0, <2>1 DEF StoreTypes
  <2>3. StoreTypes' /\ (effectWork = FlushedOutbox)'
    BY <2>0, <2>1, <2>2, StoreFrame
  <2>4. LaneInv'
    BY <2>0, <2>1 DEF LaneInv, Busy, RealAction, Working, Settled
  <2>5. History'
    BY <2>0, <2>1, HistoryFrame
  <2>6. QueueInv(durableWork, pending, ready)'
    <3>1. PICK dw, p, r : dw = durableWork /\ p = pending /\ r = ready
      OBVIOUS
    <3>2. QueueInv(dw, p, r) /\ durableWork' = dw /\ pending' = p /\ ready' = r
      BY <2>0, <2>1, <3>1
    <3>3. Busy' => Busy
      BY <2>1 DEF Busy
    <3> QED BY <2>1, <3>2, <3>3, QueueFrame
  <2> QED BY <2>3, <2>4, <2>5, <2>6 DEF EffectsInv
<1> QED BY <1>1, <1>2, <1>3, <1>4, <1>5, <1>6, <1>7, <1>8, <1>9, <1>10 DEF Next

\* Whether the host has ended is known at every step.
LEMMA EndedNext == ended \in BOOLEAN /\ [Next]_vars => (ended \in BOOLEAN)'
<1> SUFFICES ASSUME ended \in BOOLEAN, [Next]_vars PROVE ended' \in BOOLEAN
  OBVIOUS
<1>1. CASE DispatchPlain \/ Checkpoint \/ EffectWorker \/ Fail \/ Crash
  BY <1>1 DEF DispatchPlain, Checkpoint, EffectWorker, Perform, Return, Fail, Crash
<1>2. ASSUME NEW i \in Items, Dispatch(i) \/ DispatchDurably(i) PROVE ended' \in BOOLEAN
  BY <1>2 DEF Dispatch, DispatchDurably
<1>3. ASSUME NEW j \in Items \cup {NoItem}, Activate(j) PROVE ended' \in BOOLEAN
  BY <1>3 DEF Activate
<1>4. CASE Poll
  <2>1. CASE TakeResult
    BY <2>1 DEF TakeResult, MarkReconciliation, ClaimForDispatch, EnqueueEffectTurn
  <2>2. CASE SubmitReady
    BY <2>2 DEF SubmitReady
  <2>3. CASE StartWork
    BY <2>3 DEF StartWork, MarkReconciliation, ClaimForDispatch, EnqueueEffectTurn
  <2>4. CASE PollOnly
    BY <2>4 DEF PollOnly
  <2> QED BY <1>4, <2>1, <2>2, <2>3, <2>4 DEF Poll
<1>5. CASE UNCHANGED vars
  BY <1>5 DEF vars
<1> QED BY <1>1, <1>2, <1>3, <1>4, <1>5 DEF Next

-----------------------------------------------------------------------------
(* The theorems *)

\* "Dispatch never occurs before the required acknowledgement": whatever the
\* items, the capacities and the crashes, an action in flight has its claim,
\* for this very attempt, in the durable outbox (promote_effect_durability and
\* poll_effect_worker).
THEOREM DispatchIsDurable == Spec => []DispatchedIsDurable
<1>1. EffectsInv /\ ended \in BOOLEAN => DispatchedIsDurable
  BY EffectsInvMeans
<1>2. Init => ended \in BOOLEAN
  BY DEF Init
<1> QED BY <1>1, <1>2, EffectsInvInit, EffectsInvNext, EndedNext, PTL DEF Spec

\* An effect's action happens at most once, through driver errors,
\* reconciliations, activations and crashes, and a program sees an effect
\* completed only when its action has happened.
THEOREM EffectsHappenOnce == Spec => []AppliedAtMostOnce
<1>1. EffectsInv /\ ended \in BOOLEAN => AppliedAtMostOnce
  BY EffectsInvMeans
<1>2. Init => ended \in BOOLEAN
  BY DEF Init
<1> QED BY <1>1, <1>2, EffectsInvInit, EffectsInvNext, EndedNext, PTL DEF Spec

\* The host's index of effect work follows the store it never reads back, the
\* lane's result finds its item as the request left it, and one effect is
\* under way at a time.
THEOREM OutboxAgrees == Spec => []OutboxInvariant
<1>1. EffectsInv /\ ended \in BOOLEAN => OutboxInvariant
  BY EffectsInvMeans
<1>2. Init => ended \in BOOLEAN
  BY DEF Init
<1> QED BY <1>1, <1>2, EffectsInvInit, EffectsInvNext, EndedNext, PTL DEF Spec
=============================================================================
