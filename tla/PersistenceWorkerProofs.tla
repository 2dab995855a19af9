----------------------- MODULE PersistenceWorkerProofs -----------------------
(***************************************************************************)
(* Proofs about PersistenceWorker, for any number of threads, any channel  *)
(* capacity and batch size, and any number of turns, requests, failures    *)
(* and restarts: the admission state, the worker and the database agree, a *)
(* request answered with success covers the turns before it, and the       *)
(* worker implements DurableTurns.                                         *)
(*                                                                         *)
(* A request is found in at most one place, and once it is sent no turn    *)
(* follows it: that is what the proofs rest on, and it takes the control   *)
(* lock, the count of the reservations and the order of the channel.       *)
(***************************************************************************)
EXTENDS PersistenceWorker, FiniteSetTheorems, WellFoundedInduction,
        NaturalsInduction, SequenceTheorems, TLAPS

-----------------------------------------------------------------------------
(* The inductive invariant *)

\* What a thread may ask of the worker.
Requests == {Query, Immediate, Activate, Shutdown}

\* The turns under way, as far as they can be told: turns with a payload.
Entry(m) == m.kind = "turn" /\ m.payload \in Payloads

\* m is what its sender, in state cs[m.from], is waiting to be answered.
Unanswered(m, cs) ==
  /\ m.kind \in Requests
  /\ m.from \in Callers
  /\ cs[m.from].pc = "awaiting"
  /\ cs[m.from].reply = "none"
  /\ cs[m.from].request = m

\* What the worker and its channel may hold.
MessagesSuit ==
  /\ \A i \in DOMAIN channel :
       Entry(channel[i]) \/ channel[i] = Artifact \/ Unanswered(channel[i], caller)
  /\ \A i \in DOMAIN worker.pending : Entry(worker.pending[i])
  /\ worker.deferred = NoMessage \/ Unanswered(worker.deferred, caller)
  /\ \/ worker.current = NoMessage
     \/ Unanswered(worker.current, caller)
     \/ worker.current.kind = Disconnect /\ worker.current.from = None

\* A request is the last thing but artifacts that the worker has to take.
RequestIsLast ==
  /\ \A i, j \in DOMAIN channel :
       i < j /\ channel[i].kind \in Requests => channel[j] = Artifact
  /\ worker.deferred # NoMessage \/ worker.current # NoMessage =>
       \A i \in DOMAIN channel : channel[i] = Artifact
  /\ worker.deferred = NoMessage \/ worker.current = NoMessage

\* What the worker holds at each of its steps.
StepsSuit ==
  /\ worker.pc \in {"recv", "collect", "artifacts", "exiting", "gone"} =>
       worker.current = NoMessage
  /\ worker.pc \in {"collect", "exiting", "gone"} => worker.deferred = NoMessage
  /\ worker.pc \in {"control", "acknowledge"} => worker.current # NoMessage
  /\ worker.pc \in {"control", "acknowledge"} /\ worker.current.kind # Disconnect =>
       worker.pending = <<>>
  /\ worker.pc = "acknowledge" => worker.current.kind \in {Immediate, Activate}
  /\ worker.pc = "mark" => worker.pending # <<>>
  /\ worker.pc = "gone" =>
       ~admission.alive /\ channel = <<>> /\ worker.pending = <<>>
  /\ worker.current.kind = Disconnect =>
       channel = <<>> /\ \A c \in Callers : caller[c].pc = "dropped"

\* Where the cursor is, between a commit and its acknowledgement as well.
CursorSuits ==
  /\ durableTurn = worker.through
  /\ worker.pc \notin {"mark", "acknowledge"} =>
       worker.through = Len(store.log) /\ worker.epoch = store.epoch
  /\ worker.pc = "mark" =>
       Len(store.log) = worker.through + Len(worker.pending)
         /\ store.epoch = worker.epoch + 1
  /\ worker.pc = "acknowledge" =>
       /\ Len(store.log) =
            worker.through + (IF worker.current.payload = None THEN 0 ELSE 1)
       /\ store.epoch = worker.epoch + 1
       /\ worker.current.kind = Immediate =>
            /\ worker.current.seq = Len(store.log)
            /\ store.log[Len(store.log)] = worker.current.payload

\* The threads in a call: what they ask for, one of them at a time, with no
\* reservation left once the request is sent.
Asking(c) == caller[c].pc \in {"draining", "awaiting"}
CallersSuit ==
  /\ \A c \in Callers : Asking(c) =>
       /\ caller[c].request.kind \in Requests
       /\ caller[c].request.from = c
       /\ caller[c].request.kind = Immediate => caller[c].request.payload \in Payloads
       /\ ~admission.accepting
  /\ \A c, d \in Callers : Asking(c) /\ Asking(d) => c = d
  /\ \A c \in Callers : caller[c].pc = "awaiting" => admission.reservations = 0
  /\ \A c \in Callers : caller[c].pc # "awaiting" => caller[c].reply = "none"

Reserved == {c \in Callers : caller[c].pc = "reserved"}
ReservationsAreHeld == admission.reservations = Cardinality(Reserved)

\* The turns that a request covers are numbered below the next one, and when
\* it has succeeded they are in the database.
CoversAccepted ==
  \A c \in Callers :
    /\ caller[c].pc = "awaiting" /\ caller[c].reply = "none" /\ ~ReceiverGone =>
         caller[c].covers < admission.next
    /\ caller[c].reply = "ok" =>
         /\ caller[c].covers <= durableTurn
         /\ caller[c].request.kind = Immediate =>
              /\ caller[c].request.seq \in 1 .. Len(store.log)
              /\ store.log[caller[c].request.seq] = caller[c].request.payload

\* The turns under way are numbered on from the cursor, without a gap.
UnderWay == worker.pending \o Turns(channel)
TurnsAreNumbered ==
  ~ReceiverGone =>
    /\ admission.pending = [i \in 1 .. Len(UnderWay) |-> durableTurn + i]
    /\ \A i \in 1 .. Len(UnderWay) : UnderWay[i].seq = durableTurn + i
    /\ admission.next = durableTurn + Len(UnderWay) + 1

CoordinatorInvariant ==
  /\ TypeOK
  /\ MessagesSuit
  /\ RequestIsLast
  /\ StepsSuit
  /\ CursorSuits
  /\ CallersSuit
  /\ ReservationsAreHeld
  /\ CoversAccepted
  /\ TurnsAreNumbered

-----------------------------------------------------------------------------
(* The turns among the messages of a channel *)

Less == {p \in Nat \X Nat : p[1] < p[2]}

\* A nonempty set of numbers has a least one.
LEMMA LeastNumber ==
  ASSUME NEW S, S \subseteq Nat, S # {}
  PROVE  \E x \in S : \A y \in S : x <= y
<1>1. IsWellFoundedOn(Less, Nat)
  BY Zenon, NatLessThanWellFounded DEF Less, OpToRel
<1>2. PICK x \in S : \A y \in S : <<y, x>> \notin Less
  BY <1>1, WFMin
<1>3. ASSUME NEW y \in S PROVE x <= y
  <2>1. x \in Nat /\ y \in Nat /\ <<y, x>> \in Nat \X Nat
    OBVIOUS
  <2>2. ~(y < x)
    BY <1>2, <2>1 DEF Less
  <2> QED BY <2>1, <2>2
<1> QED BY <1>3

\* How the rank grows along a sequence.
LEMMA RankGrows ==
  ASSUME NEW s \in Seq(Message)
  PROVE  /\ IsFiniteSet(TurnsAt(s))
         /\ TurnsAt(s) \subseteq 1 .. Len(s)
         /\ \A i \in 0 .. Len(s) : Rank(s, i) \in Nat
         /\ Rank(s, 0) = 0
         /\ Rank(s, Len(s)) = Cardinality(TurnsAt(s))
         /\ \A i \in 1 .. Len(s) :
              Rank(s, i) = Rank(s, i - 1) + (IF s[i].kind = "turn" THEN 1 ELSE 0)
         /\ \A i, j \in 0 .. Len(s) : i <= j => Rank(s, i) <= Rank(s, j)
<1> DEFINE T == TurnsAt(s)
           U(i) == {j \in T : j <= i}
<1>1. T \subseteq 1 .. Len(s) /\ T = {i \in 1 .. Len(s) : s[i].kind = "turn"}
  BY DEF TurnsAt
<1>2. IsFiniteSet(T)
  <2>1. IsFiniteSet(1 .. Len(s))
    BY FS_Interval
  <2> QED BY <1>1, <2>1, FS_Subset
<1> HIDE DEF T
<1>3. \A i : IsFiniteSet(U(i)) /\ Cardinality(U(i)) \in Nat
  <2> TAKE i
  <2>1. U(i) \subseteq T
    OBVIOUS
  <2> QED BY <1>2, <2>1, FS_Subset, FS_CardinalityType
<1>4. U(0) = {} /\ U(Len(s)) = T
  BY <1>1
<1>5. ASSUME NEW i \in 1 .. Len(s)
      PROVE  Cardinality(U(i)) = Cardinality(U(i - 1)) + (IF s[i].kind = "turn" THEN 1 ELSE 0)
  <2>1. CASE s[i].kind = "turn"
    <3>1. i \in T /\ U(i) = U(i - 1) \cup {i} /\ i \notin U(i - 1)
      BY <1>1, <2>1
    <3>2. Cardinality(U(i - 1) \cup {i}) = Cardinality(U(i - 1)) + 1
      BY ZenonT(60), <3>1, <1>3, FS_AddElement
    <3> QED BY <2>1, <3>1, <3>2
  <2>2. CASE s[i].kind # "turn"
    <3>1. U(i) = U(i - 1)
      BY <1>1, <2>2
    <3>2. Cardinality(U(i)) = Cardinality(U(i - 1)) /\ Cardinality(U(i - 1)) \in Nat
      BY <3>1, <1>3
    <3> QED BY <2>2, <3>2
  <2> QED BY <2>1, <2>2
<1>6. ASSUME NEW i \in 0 .. Len(s), NEW j \in 0 .. Len(s), i <= j
      PROVE  Cardinality(U(i)) <= Cardinality(U(j))
  <2>1. U(i) \subseteq U(j)
    BY <1>1, <1>6
  <2> QED BY <2>1, <1>3, FS_Subset
<1>7. Cardinality({}) = 0
  BY FS_EmptySet
<1>8. \A i : Rank(s, i) = Cardinality(U(i))
  BY DEF Rank, T
<1> HIDE DEF U
<1>9. T = TurnsAt(s)
  BY DEF T
<1>10. /\ \A i \in 0 .. Len(s) : Rank(s, i) \in Nat
       /\ Rank(s, 0) = 0 /\ Rank(s, Len(s)) = Cardinality(T)
  BY <1>3, <1>4, <1>7, <1>8
<1>11. \A i \in 1 .. Len(s) :
         Rank(s, i) = Rank(s, i - 1) + (IF s[i].kind = "turn" THEN 1 ELSE 0)
  BY <1>5, <1>8
<1>12. \A i, j \in 0 .. Len(s) : i <= j => Rank(s, i) <= Rank(s, j)
  BY <1>6, <1>8
<1> QED BY <1>1, <1>2, <1>9, <1>10, <1>11, <1>12

\* Every rank is the rank of one turn.
LEMMA RankIsOneToOne ==
  ASSUME NEW s \in Seq(Message)
  PROVE  /\ \A i \in TurnsAt(s) : Rank(s, i) \in 1 .. Cardinality(TurnsAt(s))
         /\ \A i, j \in TurnsAt(s) : Rank(s, i) = Rank(s, j) => i = j
         /\ \A n \in 1 .. Cardinality(TurnsAt(s)) : \E i \in TurnsAt(s) : Rank(s, i) = n
<1> DEFINE N == Cardinality(TurnsAt(s))
           R(i) == Rank(s, i)
<1>1. TurnsAt(s) = {i \in 1 .. Len(s) : s[i].kind = "turn"} /\ Len(s) \in Nat
  BY DEF TurnsAt
<1>2. /\ \A i \in 0 .. Len(s) : R(i) \in Nat
      /\ R(0) = 0 /\ R(Len(s)) = N
      /\ \A i \in 1 .. Len(s) : R(i) = R(i - 1) + (IF s[i].kind = "turn" THEN 1 ELSE 0)
      /\ \A i, j \in 0 .. Len(s) : i <= j => R(i) <= R(j)
  BY RankGrows
<1>3. N \in Nat
  BY <1>1, <1>2
<1> HIDE DEF R, N
<1>4. ASSUME NEW i \in TurnsAt(s) PROVE R(i) \in 1 .. N
  <2>1. i \in 1 .. Len(s) /\ i - 1 \in 0 .. Len(s) /\ i \in 0 .. Len(s) /\ Len(s) \in 0 .. Len(s)
    BY <1>1
  <2>2. R(i) = R(i - 1) + 1 /\ R(i) <= R(Len(s)) /\ R(i - 1) \in Nat /\ R(i) \in Nat
    BY <1>1, <1>2, <2>1
  <2> QED BY <1>2, <1>3, <2>2
<1>5. ASSUME NEW i \in TurnsAt(s), NEW j \in TurnsAt(s), i < j PROVE R(i) < R(j)
  <2>1. i \in 0 .. Len(s) /\ j \in 1 .. Len(s) /\ j - 1 \in 0 .. Len(s) /\ i <= j - 1
    BY <1>1, <1>5
  <2>2. R(j) = R(j - 1) + 1 /\ R(i) <= R(j - 1) /\ R(i) \in Nat /\ R(j - 1) \in Nat
    BY <1>1, <1>2, <2>1
  <2> QED BY <2>2
<1>6. ASSUME NEW i \in TurnsAt(s), NEW j \in TurnsAt(s), R(i) = R(j) PROVE i = j
  <2>1. i \in Nat /\ j \in Nat /\ R(i) \in Nat
    BY <1>1, <1>4
  <2> QED BY <1>5, <1>6, <2>1
<1>7. ASSUME NEW n \in 1 .. N PROVE \E i \in TurnsAt(s) : R(i) = n
  <2> DEFINE S == {i \in 0 .. Len(s) : n <= R(i)}
  <2>1. S \subseteq Nat /\ Len(s) \in S
    BY <1>1, <1>2, <1>7
  <2>2. PICK i \in S : \A j \in S : i <= j
    <3> HIDE DEF S
    <3> QED BY <2>1, LeastNumber
  <2>3. i \in 1 .. Len(s)
    BY <1>1, <1>2, <2>2
  <2>4. i - 1 \in 0 .. Len(s) /\ i - 1 \notin S
    BY <1>1, <2>2, <2>3
  <2>5. R(i - 1) < n /\ n <= R(i) /\ R(i - 1) \in Nat
    BY <1>2, <2>2, <2>4
  <2>6. R(i) = R(i - 1) + (IF s[i].kind = "turn" THEN 1 ELSE 0)
    BY <1>2, <2>3
  <2>7. s[i].kind = "turn" /\ R(i) = n
    BY <2>5, <2>6
  <2> QED BY <1>1, <2>3, <2>7
<1> QED BY <1>4, <1>6, <1>7 DEF R, N

\* The turn at position i comes at its rank; nothing else is in Turns.
LEMMA TurnsAtRank ==
  ASSUME NEW s \in Seq(Message)
  PROVE  /\ Turns(s) \in Seq(Message)
         /\ Len(Turns(s)) = Cardinality(TurnsAt(s))
         /\ \A i \in TurnsAt(s) : Turns(s)[Rank(s, i)] = s[i]
         /\ \A n \in 1 .. Len(Turns(s)) : \E i \in TurnsAt(s) : n = Rank(s, i) /\ Turns(s)[n] = s[i]
<1> DEFINE N == Cardinality(TurnsAt(s))
           C(n) == CHOOSE i \in TurnsAt(s) : Rank(s, i) = n
<1>1. ASSUME NEW n \in 1 .. N PROVE C(n) \in TurnsAt(s) /\ Rank(s, C(n)) = n
  BY RankIsOneToOne
<1>2. Turns(s) = [n \in 1 .. N |-> s[C(n)]]
  BY DEF Turns
<1>3. N \in Nat /\ \A i \in TurnsAt(s) : s[i] \in Message
  BY RankGrows, FS_CardinalityType DEF TurnsAt
<1> HIDE DEF C, N
<1>4. Turns(s) \in Seq(Message) /\ Len(Turns(s)) = N /\ \A n \in 1 .. N : Turns(s)[n] = s[C(n)]
  <2>1. Turns(s) \in [1 .. N -> Message]
    BY <1>1, <1>2, <1>3
  <2> QED BY <1>2, <1>3, <2>1
<1>5. ASSUME NEW i \in TurnsAt(s) PROVE Turns(s)[Rank(s, i)] = s[i]
  <2>1. Rank(s, i) \in 1 .. N
    BY RankIsOneToOne DEF N
  <2>2. C(Rank(s, i)) = i
    BY <1>1, <2>1, RankIsOneToOne
  <2> QED BY <1>4, <2>1, <2>2
<1> QED BY <1>1, <1>4, <1>5 DEF N

\* A sequence that has every turn at its rank is Turns.
LEMMA TurnsIs ==
  ASSUME NEW s \in Seq(Message), NEW t \in Seq(Message),
         Len(t) = Cardinality(TurnsAt(s)),
         \A i \in TurnsAt(s) : t[Rank(s, i)] = s[i]
  PROVE  Turns(s) = t
<1>1. Turns(s) \in Seq(Message) /\ Len(Turns(s)) = Len(t)
  BY TurnsAtRank
<1>2. ASSUME NEW n \in 1 .. Len(t) PROVE Turns(s)[n] = t[n]
  BY <1>1, TurnsAtRank
<1> QED BY <1>1, <1>2, SeqEqual

\* Turns are turns, and there are none where no message is one.
LEMMA TurnsHold ==
  ASSUME NEW s \in Seq(Message)
  PROVE  /\ \A n \in 1 .. Len(Turns(s)) : \E i \in DOMAIN s : s[i].kind = "turn" /\ Turns(s)[n] = s[i]
         /\ (\A i \in DOMAIN s : s[i].kind # "turn") => Turns(s) = <<>>
<1>1. \A n \in 1 .. Len(Turns(s)) : \E i \in DOMAIN s : s[i].kind = "turn" /\ Turns(s)[n] = s[i]
  BY TurnsAtRank DEF TurnsAt
<1>2. ASSUME \A i \in DOMAIN s : s[i].kind # "turn" PROVE Turns(s) = <<>>
  <2>1. TurnsAt(s) = {}
    BY <1>2 DEF TurnsAt
  <2>2. Len(Turns(s)) = 0 /\ Turns(s) \in Seq(Message)
    BY <2>1, TurnsAtRank, FS_EmptySet
  <2> QED BY <2>2
<1> QED BY <1>1, <1>2

\* Sending a message adds it to the turns if it is one.
LEMMA TurnsOfAppend ==
  ASSUME NEW s \in Seq(Message), NEW m \in Message
  PROVE  Turns(Append(s, m)) = IF m.kind = "turn" THEN Append(Turns(s), m) ELSE Turns(s)
<1> DEFINE a == Append(s, m)
           t == IF m.kind = "turn" THEN Append(Turns(s), m) ELSE Turns(s)
           n == Len(s)
<1>1. /\ a \in Seq(Message) /\ Len(a) = n + 1 /\ n \in Nat /\ DOMAIN a = 1 .. (n + 1)
      /\ a[n + 1] = m /\ \A i \in 1 .. n : a[i] = s[i]
  OBVIOUS
<1>2. TurnsAt(a) = TurnsAt(s) \cup (IF m.kind = "turn" THEN {n + 1} ELSE {})
  BY <1>1 DEF TurnsAt
<1>3. TurnsAt(s) \subseteq 1 .. n /\ n + 1 \notin TurnsAt(s) /\ IsFiniteSet(TurnsAt(s))
  BY RankGrows
<1>4. /\ Turns(s) \in Seq(Message) /\ Len(Turns(s)) = Cardinality(TurnsAt(s))
      /\ \A i \in TurnsAt(s) : Turns(s)[Rank(s, i)] = s[i]
  BY TurnsAtRank
<1>5. \A i \in TurnsAt(s) : Rank(s, i) \in 1 .. Len(Turns(s))
  BY <1>4, RankIsOneToOne
<1> HIDE DEF a
<1>6. ASSUME NEW i \in 1 .. n PROVE Rank(a, i) = Rank(s, i)
  <2>1. {j \in TurnsAt(a) : j <= i} = {j \in TurnsAt(s) : j <= i}
    BY <1>1, <1>2, <1>3
  <2> QED BY <2>1 DEF Rank
<1>7. Cardinality(TurnsAt(a)) = Cardinality(TurnsAt(s)) + (IF m.kind = "turn" THEN 1 ELSE 0)
  <2>1. Cardinality(TurnsAt(s)) \in Nat
    BY <1>3, FS_CardinalityType
  <2>2. Cardinality(TurnsAt(s) \cup {n + 1}) = Cardinality(TurnsAt(s)) + 1
    BY <1>3, FS_AddElement
  <2>3. TurnsAt(s) \cup {} = TurnsAt(s)
    OBVIOUS
  <2>4. CASE m.kind = "turn"
    BY <1>2, <2>2, <2>4
  <2>5. CASE m.kind # "turn"
    BY <1>2, <2>1, <2>3, <2>5
  <2> QED BY <2>4, <2>5
<1>8. t \in Seq(Message) /\ Len(t) = Cardinality(TurnsAt(a))
  BY <1>4, <1>7
<1>9. ASSUME NEW i \in TurnsAt(a) PROVE t[Rank(a, i)] = a[i]
  <2>1. CASE i \in TurnsAt(s)
    <3>1. Rank(a, i) = Rank(s, i) /\ a[i] = s[i] /\ Rank(s, i) \in 1 .. Len(Turns(s))
      BY <1>1, <1>3, <1>5, <1>6, <2>1
    <3> QED BY <1>4, <2>1, <3>1
  <2>2. CASE i \notin TurnsAt(s)
    <3>1. m.kind = "turn" /\ i = n + 1
      BY <1>2, <2>2
    <3>2. Rank(a, i) = Cardinality(TurnsAt(a))
      BY <1>1, <3>1, RankGrows
    <3>3. Rank(a, i) = Len(Turns(s)) + 1
      BY <1>4, <1>7, <3>1, <3>2
    <3> QED BY <1>1, <1>4, <3>1, <3>3
  <2> QED BY <2>1, <2>2
<1> HIDE DEF t
<1>10. Turns(a) = t
  BY <1>1, <1>8, <1>9, TurnsIs
<1> QED BY <1>10 DEF a, t

\* The rank in the channel once its first message is taken.
LEMMA RankOfTail ==
  ASSUME NEW s \in Seq(Message), s # <<>>
  PROVE  \A i \in 0 .. Len(s) - 1 : Rank(s, i + 1) = Rank(Tail(s), i) + Rank(s, 1)
<1> DEFINE u == Tail(s)
<1>1. /\ u \in Seq(Message) /\ Len(s) \in Nat \ {0} /\ Len(u) = Len(s) - 1
      /\ \A i \in 1 .. Len(u) : u[i] = s[i + 1]
  OBVIOUS
<1> HIDE DEF u
<1> DEFINE R(i) == Rank(s, i)
           Q(i) == Rank(u, i)
<1>2. /\ \A i \in 0 .. Len(s) : R(i) \in Nat
      /\ \A i \in 1 .. Len(s) : R(i) = R(i - 1) + (IF s[i].kind = "turn" THEN 1 ELSE 0)
  BY RankGrows
<1>3. /\ \A i \in 0 .. Len(u) : Q(i) \in Nat
      /\ Q(0) = 0
      /\ \A i \in 1 .. Len(u) : Q(i) = Q(i - 1) + (IF u[i].kind = "turn" THEN 1 ELSE 0)
  BY <1>1, RankGrows
<1> HIDE DEF R, Q
<1> DEFINE S == {i \in 0 .. Len(s) - 1 : R(i + 1) # Q(i) + R(1)}
<1>4. ASSUME S # {} PROVE FALSE
  <2>1. PICK i \in S : \A j \in S : i <= j
    <3>1. S \subseteq Nat
      OBVIOUS
    <3> HIDE DEF S
    <3> QED BY <1>4, <3>1, LeastNumber
  <2>2. i # 0
    <3>1. R(1) \in Nat
      BY <1>1, <1>2
    <3> QED BY <1>3, <2>1, <3>1
  <2>3. i \in 1 .. Len(u) /\ i + 1 \in 1 .. Len(s) /\ i - 1 \in 0 .. Len(s) - 1 /\ (i + 1) - 1 = i
    BY <1>1, <2>1, <2>2
  <2>4. R((i - 1) + 1) = Q(i - 1) + R(1)
    BY <2>1, <2>3
  <2>5. R(i) = Q(i - 1) + R(1) /\ R(1) \in Nat /\ Q(i - 1) \in Nat
    BY <1>1, <1>2, <1>3, <2>3, <2>4
  <2>6. R(i + 1) = R(i) + (IF s[i + 1].kind = "turn" THEN 1 ELSE 0)
    BY <1>2, <2>3
  <2>7. Q(i) = Q(i - 1) + (IF s[i + 1].kind = "turn" THEN 1 ELSE 0)
    BY <1>1, <1>3, <2>3
  <2> QED BY <2>1, <2>5, <2>6, <2>7
<1> QED BY <1>4 DEF R, Q, u

\* Taking a message takes the first of the turns, or none.
LEMMA TurnsOfTail ==
  ASSUME NEW s \in Seq(Message), s # <<>>
  PROVE  Turns(s) = IF Head(s).kind = "turn" THEN <<Head(s)>> \o Turns(Tail(s))
                                             ELSE Turns(Tail(s))
<1> DEFINE u == Tail(s)
           h == Head(s)
           d == IF h.kind = "turn" THEN 1 ELSE 0
           t == IF h.kind = "turn" THEN <<h>> \o Turns(u) ELSE Turns(u)
<1>1. /\ u \in Seq(Message) /\ Len(s) \in Nat \ {0} /\ Len(u) = Len(s) - 1
      /\ \A i \in 1 .. Len(u) : u[i] = s[i + 1]
      /\ h \in Message /\ h = s[1]
  OBVIOUS
<1> HIDE DEF u, h
<1>2. /\ Turns(u) \in Seq(Message) /\ Len(Turns(u)) = Cardinality(TurnsAt(u))
      /\ \A i \in TurnsAt(u) : Turns(u)[Rank(u, i)] = u[i]
      /\ \A i \in TurnsAt(u) : Rank(u, i) \in 1 .. Len(Turns(u))
  BY <1>1, TurnsAtRank, RankIsOneToOne
<1>3. Rank(s, 1) = d
  BY <1>1, RankGrows
<1>4. \A i \in 0 .. Len(u) : Rank(s, i + 1) = Rank(u, i) + d
  BY <1>1, <1>3, RankOfTail DEF u
<1>5. Cardinality(TurnsAt(s)) = Len(Turns(u)) + d
  <2>1. Rank(s, Len(u) + 1) = Rank(u, Len(u)) + d
    BY <1>1, <1>4
  <2>2. Rank(u, Len(u)) = Len(Turns(u))
    BY <1>1, <1>2, RankGrows
  <2>3. Rank(s, Len(s)) = Cardinality(TurnsAt(s)) /\ Len(u) + 1 = Len(s)
    BY <1>1, RankGrows
  <2> QED BY <2>1, <2>2, <2>3
<1>6. t \in Seq(Message) /\ Len(t) = Len(Turns(u)) + d
  <2>1. CASE h.kind = "turn"
    <3>1. <<h>> \in Seq(Message) /\ Len(<<h>>) = 1
      BY <1>1
    <3>2. Len(Turns(u)) \in Nat /\ 1 + Len(Turns(u)) = Len(Turns(u)) + 1
      BY <1>2
    <3> QED BY <1>2, <2>1, <3>1, <3>2, ConcatProperties
  <2>2. CASE h.kind # "turn"
    BY <1>2, <2>2
  <2> QED BY <2>1, <2>2
<1>7. \A n \in 1 .. Len(Turns(u)) : t[n + d] = Turns(u)[n]
  BY <1>1, <1>2
<1>8. ASSUME NEW i \in TurnsAt(s) PROVE t[Rank(s, i)] = s[i]
  <2>1. i \in 1 .. Len(s) /\ s[i].kind = "turn"
    BY DEF TurnsAt
  <2>2. CASE i = 1
    BY <1>1, <1>2, <1>3, <2>1, <2>2
  <2>3. CASE i # 1
    <3> DEFINE k == i - 1
    <3>1. k \in 1 .. Len(u) /\ i = k + 1 /\ u[k] = s[i]
      BY <1>1, <2>1, <2>3
    <3>2. k \in TurnsAt(u)
      BY <1>1, <2>1, <3>1 DEF TurnsAt
    <3> HIDE DEF k
    <3>3. Rank(s, i) = Rank(u, k) + d
      BY <1>4, <3>1
    <3> QED BY <1>2, <1>7, <3>1, <3>2, <3>3
  <2> QED BY <2>2, <2>3
<1> HIDE DEF t
<1>9. Turns(s) = t
  BY <1>5, <1>6, <1>8, TurnsIs
<1> QED BY <1>9 DEF t, u, h

-----------------------------------------------------------------------------
(* Types *)

\* The messages the threads and the worker make.
LEMMA MessageTypes ==
  /\ NoMessage \in Message /\ Artifact \in Message
  /\ \A n \in Nat, p \in Payloads : Turn(n, p) \in Message
  /\ \A k \in Control, n \in Nat, p \in Payloads \cup {None}, c \in Callers \cup {None} :
       Msg(k, n, p, c) \in Message
  /\ Idle \in CallerState
BY DEF NoMessage, Artifact, Turn, Msg, Message, Kind, Idle, CallerState, CallerPc

\* Types hold initially.
LEMMA TypesInit == Init => TypeOK
BY ConstantsAssumption, MessageTypes
   DEF Init, TypeOK, Started, Working, AdmissionState, WorkerState, WorkerPc

\* The fields of the variables.
LEMMA Fields ==
  ASSUME TypeOK
  PROVE  /\ admission.reservations \in Nat /\ admission.next \in Nat
         /\ admission.pending \in Seq(Nat)
         /\ worker.pending \in Seq(Message) /\ worker.through \in Nat /\ worker.epoch \in Nat
         /\ worker.current \in Message /\ worker.deferred \in Message
         /\ store.log \in Seq(Payloads) /\ store.epoch \in Nat
         /\ channel \in Seq(Message) /\ durableTurn \in Nat
         /\ \A c \in Callers : caller[c].covers \in Nat /\ caller[c].request \in Message
         /\ \A m \in Message : /\ m.seq \in Nat /\ m.kind \in Kind
                               /\ m.payload \in Payloads \cup {None}
                               /\ m.from \in Callers \cup {None}
BY DEF TypeOK, AdmissionState, WorkerState, CallerState, Message

\* A message moved from the head of one sequence to the end of another.
LEMMA AppendConcat ==
  ASSUME NEW S, NEW s \in Seq(S), NEW t \in Seq(S), NEW e \in S
  PROVE  /\ s \o Append(t, e) = Append(s \o t, e)
         /\ Append(s, e) \o t = s \o (<<e>> \o t)
<1>1. <<e>> \in Seq(S) /\ s \o t \in Seq(S)
  BY ConcatProperties
<1>2. /\ Append(t, e) = t \o <<e>> /\ Append(s, e) = s \o <<e>>
      /\ Append(s \o t, e) = (s \o t) \o <<e>>
  BY <1>1, AppendIsConcat
<1> QED BY <1>1, <1>2, ConcatAssociative

\* The turns under way are messages.
LEMMA UnderWayType ==
  ASSUME TypeOK
  PROVE  /\ UnderWay \in Seq(Message)
         /\ Turns(channel) \in Seq(Message)
         /\ Len(UnderWay) = Len(worker.pending) + Len(Turns(channel))
         /\ \A i \in 1 .. Len(worker.pending) : UnderWay[i] = worker.pending[i]
         /\ \A i \in 1 .. Len(Turns(channel)) :
              UnderWay[Len(worker.pending) + i] = Turns(channel)[i]
BY Fields, TurnsAtRank DEF UnderWay

\* The messages are no bigger than the sequences they come from.
LEMMA HeadAndTail ==
  ASSUME TypeOK, channel # <<>>
  PROVE  Head(channel) \in Message /\ Tail(channel) \in Seq(Message)
BY DEF TypeOK

\* A step of a thread keeps the types.
LEMMA CallerTypes ==
  ASSUME TypeOK, TurnsAreNumbered, NEW c \in Callers, Caller(c)
  PROVE  TypeOK'
<1> USE ConstantsAssumption DEF AdmissionState
<1>1. caller[c] \in CallerState /\ admission \in AdmissionState /\ channel \in Seq(Message)
  BY DEF TypeOK
<1>2. ASSUME Reserve(c) PROVE TypeOK'
  <2>1. admission' \in AdmissionState
    <3>1. admission' = [admission EXCEPT !.reservations = @ + 1]
      BY <1>2 DEF Reserve
    <3>2. admission.reservations + 1 \in Nat
      BY SMTT(60), Fields
    <3> QED BY <1>1, <3>1, <3>2
  <2>2. [caller[c] EXCEPT !.pc = "reserved"] \in CallerState
    BY <1>1 DEF CallerState, CallerPc
  <2>3. caller' \in [Callers -> CallerState]
    BY <1>2, <2>2 DEF TypeOK, Reserve
  <2> QED BY <1>2, <2>1, <2>3 DEF TypeOK, Reserve
<1>11. Released \in AdmissionState
  <2>1. (IF admission.reservations = 0 THEN 0 ELSE admission.reservations - 1) \in Nat
    BY SMTT(60), Fields
  <2> QED BY <1>1, <2>1 DEF Released
<1>12. ASSUME Release(c) PROVE TypeOK'
  BY <1>11, <1>12, MessageTypes DEF TypeOK, Release
<1>3. ASSUME NEW p \in Payloads, Enqueue(c, p) PROVE TypeOK'
  <2>1. admission' \in AdmissionState
    <3>1. admission' = [Released EXCEPT !.pending = Append(@, admission.next), !.next = @ + 1]
      BY <1>3 DEF Enqueue
    <3>2. Append(admission.pending, admission.next) \in Seq(Nat) /\ admission.next + 1 \in Nat
      BY Fields
    <3>3. Released.pending = admission.pending /\ Released.next = admission.next
      BY <1>1 DEF Released
    <3> QED BY <1>11, <3>1, <3>2, <3>3
  <2>2. caller' \in [Callers -> CallerState]
    BY <1>3, MessageTypes DEF TypeOK, Enqueue
  <2>3. channel' \in Seq(Message)
    BY <1>1, <1>3, MessageTypes DEF Enqueue
  <2> QED BY <1>3, <2>1, <2>2, <2>3 DEF TypeOK, Enqueue
<1>4. ASSUME NEW k \in Requests, NEW n \in Nat, NEW p \in Payloads \cup {None},
             BeginControl(c, k, n, p)
      PROVE  TypeOK'
  <2>1. admission' \in AdmissionState
    BY <1>1, <1>4 DEF BeginControl
  <2>2. caller' \in [Callers -> CallerState]
    <3>1. [Idle EXCEPT !.pc = "draining", !.request = Msg(k, n, p, c)] \in CallerState
      BY MessageTypes DEF CallerState, CallerPc, Idle, Requests, Control
    <3> QED BY <1>4, <3>1 DEF TypeOK, BeginControl
  <2>3. spent' \in [controls : Nat, failures : Nat, restarts : Nat]
    <3>1. spent' = [spent EXCEPT !.controls = @ + 1]
      BY <1>4 DEF BeginControl
    <3>2. spent.controls + 1 \in Nat
      BY DEF TypeOK
    <3> QED BY <3>1, <3>2 DEF TypeOK
  <2> QED BY <1>4, <2>1, <2>2, <2>3 DEF TypeOK, BeginControl
<1>5. ASSUME Request(c) PROVE TypeOK'
  <2>1. admission.next \in Nat /\ worker.epoch \in Nat
    BY Fields
  <2> QED BY <1>4, <1>5, <2>1 DEF Request, Requests
<1>6. ASSUME SendControl(c) PROVE TypeOK'
  <2>1. [caller[c] EXCEPT !.pc = "awaiting", !.covers = admission.next - 1] \in CallerState
    <3>1. admission.next - 1 \in Nat
      <4>1. /\ admission.next = durableTurn + Len(UnderWay) + 1
            /\ durableTurn \in Nat /\ Len(UnderWay) \in Nat
        BY <1>6, UnderWayType, Fields DEF TurnsAreNumbered, SendControl
      <4> QED BY <4>1
    <3> QED BY <1>1, <3>1 DEF CallerState, CallerPc
  <2>2. channel' \in Seq(Message)
    BY <1>1, <1>6 DEF SendControl, CallerState
  <2> QED BY <1>6, <2>1, <2>2 DEF TypeOK, SendControl
<1>7. ASSUME EndControl(c) PROVE TypeOK'
  <2>1. admission' \in AdmissionState
    BY <1>1, <1>7 DEF EndControl, Open
  <2> QED BY <1>7, <2>1, MessageTypes DEF TypeOK, EndControl
<1>8. ASSUME DropCoordinator(c) PROVE TypeOK'
  <2>1. [Idle EXCEPT !.pc = "dropped"] \in CallerState
    BY MessageTypes DEF CallerState, CallerPc, Idle
  <2> QED BY <1>8, <2>1 DEF TypeOK, DropCoordinator
<1>9. ASSUME BeginArtifact(c) PROVE TypeOK'
  <2>1. [caller[c] EXCEPT !.pc = "sending"] \in CallerState
    BY <1>1 DEF CallerState, CallerPc
  <2> QED BY <1>9, <2>1 DEF TypeOK, BeginArtifact
<1>10. ASSUME SendArtifact(c) PROVE TypeOK'
  <2>1. channel' \in Seq(Message)
    <3>1. channel' = Append(channel, Artifact) \/ channel' = channel
      BY <1>10 DEF SendArtifact
    <3>2. Append(channel, Artifact) \in Seq(Message)
      BY <1>1, MessageTypes
    <3> QED BY <1>1, <3>1, <3>2
  <2>2. artifacts' \in [issued : Nat, completed : Nat]
    <3>1. artifacts' = [artifacts EXCEPT !.issued = @ + 1] \/ artifacts' = artifacts
      BY <1>10 DEF SendArtifact
    <3>2. artifacts.issued + 1 \in Nat
      BY DEF TypeOK
    <3> QED BY <3>1, <3>2 DEF TypeOK
  <2>3. caller' \in [Callers -> CallerState]
    BY <1>10, MessageTypes DEF SendArtifact, TypeOK
  <2> QED BY <1>10, <2>1, <2>2, <2>3 DEF TypeOK, SendArtifact
<1>13. ASSUME FindWorkerGone(c) PROVE TypeOK'
  <2>1. admission' \in AdmissionState
    BY <1>1, <1>13 DEF FindWorkerGone, Exited
  <2> QED BY <1>13, <2>1, MessageTypes DEF TypeOK, FindWorkerGone
<1> QED BY <1>2, <1>3, <1>5, <1>6, <1>7, <1>8, <1>9, <1>10, <1>12, <1>13 DEF Caller, Proceed

\* A request is answered within the types.
LEMMA AnsweredTypes ==
  ASSUME TypeOK, NEW r \in {"none", "ok", "err"}
  PROVE  Answered(r) \in [Callers -> CallerState]
<1>1. \A c \in Callers : [caller[c] EXCEPT !.reply = r] \in CallerState
  BY DEF TypeOK, CallerState
<1> QED BY <1>1 DEF Answered, TypeOK

\* A driver's failure is counted within the types.
LEMMA DriverTypes ==
  ASSUME TypeOK, DriverSucceeds \/ DriverFails
  PROVE  spent' \in [controls : Nat, failures : Nat, restarts : Nat]
<1>1. spent.failures + 1 \in Nat
  BY DEF TypeOK
<1>2. spent' = spent \/ spent' = [spent EXCEPT !.failures = @ + 1]
  BY DEF DriverSucceeds, DriverFails
<1> QED BY <1>1, <1>2 DEF TypeOK

\* Taking and batching messages keeps the types.
LEMMA TakingTypes ==
  ASSUME TypeOK,
         RecvTurn \/ RecvArtifact \/ RecvControl \/ RecvDeferred \/ RecvDisconnected
           \/ Collect \/ EndCollect \/ FlushNothing \/ CompleteArtifacts
  PROVE  TypeOK'
<1> USE DEF WorkerState
<1>1. worker \in WorkerState /\ worker.artifacts + 1 \in Nat
  BY DEF TypeOK
<1>2. ASSUME NEW k, TakesFromChannel(k)
      PROVE  /\ Head(channel) \in Message /\ channel' \in Seq(Message)
             /\ Append(worker.pending, Head(channel)) \in Seq(Message)
  BY <1>2, HeadAndTail, Fields DEF TakesFromChannel
<1>3. CASE RecvTurn
  <2>1. worker' \in WorkerState
    BY <1>1, <1>2, <1>3 DEF RecvTurn, WorkerPc
  <2> QED BY <1>2, <1>3, <2>1 DEF RecvTurn, TypeOK
<1>4. CASE RecvArtifact
  <2>1. artifacts.completed + 1 \in Nat
    BY DEF TypeOK
  <2>2. artifacts' \in [issued : Nat, completed : Nat]
    BY <1>4, <2>1 DEF RecvArtifact, TypeOK
  <2> QED BY <1>2, <1>4, <2>2 DEF RecvArtifact, TypeOK
<1>5. CASE RecvControl
  <2>1. worker' \in WorkerState
    BY <1>1, <1>2, <1>5 DEF RecvControl, WorkerPc
  <2> QED BY <1>2, <1>5, <2>1 DEF RecvControl, TypeOK
<1>6. CASE RecvDeferred
  <2>1. worker' \in WorkerState
    BY <1>1, <1>6, MessageTypes DEF RecvDeferred, WorkerPc
  <2> QED BY <1>6, <2>1 DEF RecvDeferred, TypeOK
<1>7. CASE RecvDisconnected
  <2>1. Msg(Disconnect, 0, None, None) \in Message
    BY MessageTypes DEF Control
  <2>2. worker' \in WorkerState
    BY <1>1, <1>7, <2>1 DEF RecvDisconnected, WorkerPc
  <2> QED BY <1>7, <2>2 DEF RecvDisconnected, TypeOK
<1>8. CASE Collect
  <2>1. /\ Head(channel) \in Message /\ channel' \in Seq(Message)
        /\ Append(worker.pending, Head(channel)) \in Seq(Message)
    BY <1>8, HeadAndTail, Fields DEF Collect
  <2>2. worker' \in WorkerState
    <3>1. \/ worker' = [worker EXCEPT !.pending = Append(@, Head(channel))]
          \/ worker' = [worker EXCEPT !.artifacts = @ + 1]
          \/ worker' = [worker EXCEPT !.deferred = Head(channel), !.pc = "flush"]
      BY <1>8 DEF Collect
    <3> QED BY <1>1, <2>1, <3>1 DEF WorkerPc
  <2> QED BY <1>8, <2>1, <2>2 DEF Collect, TypeOK
<1>9. CASE EndCollect
  <2>1. worker' \in WorkerState
    BY <1>1, <1>9 DEF EndCollect, WorkerPc
  <2> QED BY <1>9, <2>1 DEF EndCollect, TypeOK
<1>10. CASE FlushNothing
  <2>1. worker' \in WorkerState
    BY <1>1, <1>10 DEF FlushNothing, WorkerPc, AfterFlush
  <2> QED BY <1>10, <2>1 DEF FlushNothing, TypeOK
<1>11. CASE CompleteArtifacts
  <2>1. artifacts.completed + worker.artifacts \in Nat
    BY <1>1 DEF TypeOK
  <2>2. artifacts' \in [issued : Nat, completed : Nat]
    BY <1>11, <2>1 DEF CompleteArtifacts, TypeOK
  <2>3. worker' \in WorkerState
    BY <1>1, <1>11 DEF CompleteArtifacts, WorkerPc
  <2> QED BY <1>11, <2>2, <2>3 DEF CompleteArtifacts, TypeOK
<1> QED BY <1>3, <1>4, <1>5, <1>6, <1>7, <1>8, <1>9, <1>10, <1>11

\* mark_durable pops as many turns as it is told of.
LEMMA PoppedOnes ==
  ASSUME NEW L \in Nat, NEW d \in Nat, NEW n \in 0 .. L,
         admission.pending = [i \in 1 .. L |-> d + i]
  PROVE  Popped(d + n) = n
<1> DEFINE P(k) == /\ \A i \in 1 .. k : admission.pending[i] <= d + n
                   /\ k < Len(admission.pending) => admission.pending[k + 1] > d + n
<1>1. Len(admission.pending) = L /\ \A i \in 1 .. L : admission.pending[i] = d + i
  OBVIOUS
<1>2. P(n)
  BY <1>1
<1>3. ASSUME NEW k \in 0 .. L, P(k) PROVE k = n
  <2>1. ASSUME k < n PROVE FALSE
    <3>1. k + 1 \in 1 .. L
      BY <2>1
    <3>2. admission.pending[k + 1] = d + (k + 1)
      BY <1>1, <3>1
    <3> QED BY <1>1, <1>3, <2>1, <3>1, <3>2
  <2>2. ASSUME n < k PROVE FALSE
    <3>1. k \in 1 .. L
      BY <2>2
    <3>2. admission.pending[k] = d + k
      BY <1>1, <3>1
    <3>3. admission.pending[k] <= d + n
      <4>1. k \in 1 .. k
        BY <3>1
      <4>2. \A i \in 1 .. k : admission.pending[i] <= d + n
        BY <1>3, Zenon
      <4> QED BY <4>1, <4>2
    <3> QED BY <2>2, <3>2, <3>3
  <2> QED BY <2>1, <2>2
<1>4. Popped(d + n) = CHOOSE k \in 0 .. L : P(k)
  BY <1>1 DEF Popped
<1> HIDE DEF P
<1> QED BY <1>2, <1>3, <1>4

\* The batch just committed is the first of what the admission has pending.
LEMMA MarkedBatch ==
  ASSUME TypeOK, StepsSuit, TurnsAreNumbered, worker.pc = "mark"
  PROVE  /\ Len(worker.pending) \in 1 .. Len(UnderWay)
         /\ Len(admission.pending) = Len(UnderWay)
         /\ worker.pending[Len(worker.pending)].seq = durableTurn + Len(worker.pending)
         /\ Popped(worker.pending[Len(worker.pending)].seq) = Len(worker.pending)
<1> DEFINE n == Len(worker.pending)
           L == Len(UnderWay)
<1>1. worker.pending \in Seq(Message) /\ worker.pending # <<>> /\ durableTurn \in Nat
  BY Fields DEF StepsSuit
<1>2. n \in 1 .. L /\ L \in Nat /\ n \in 0 .. L /\ UnderWay[n] = worker.pending[n]
  <2>1. n \in Nat \ {0} /\ n \in 1 .. n
    BY <1>1
  <2>2. L = n + Len(Turns(channel)) /\ Len(Turns(channel)) \in Nat
    BY UnderWayType
  <2>3. \A i \in 1 .. n : UnderWay[i] = worker.pending[i]
    BY UnderWayType
  <2> QED BY <2>1, <2>2, <2>3
<1>3. /\ admission.pending = [i \in 1 .. L |-> durableTurn + i]
      /\ UnderWay[n].seq = durableTurn + n
  BY <1>2 DEF TurnsAreNumbered, ReceiverGone
<1> HIDE DEF n, L
<1>4. Popped(durableTurn + n) = n
  BY <1>1, <1>2, <1>3, PoppedOnes
<1>5. Len(admission.pending) = L
  BY <1>2, <1>3
<1> QED BY <1>2, <1>3, <1>4, <1>5 DEF n, L

\* Commits and their acknowledgement keep the types.
LEMMA CommitTypes ==
  ASSUME TypeOK, MessagesSuit, StepsSuit, TurnsAreNumbered,
         Commit \/ MarkDurable \/ FlushFails
  PROVE  TypeOK'
<1> USE DEF WorkerState
<1>1. worker \in WorkerState /\ worker.epoch + 1 \in Nat /\ store.epoch + 1 \in Nat
  BY DEF TypeOK
<1>2. CASE Commit
  <2> DEFINE t == [i \in DOMAIN worker.pending |-> worker.pending[i].payload]
  <2>1. t \in Seq(Payloads)
    <3>1. \A i \in DOMAIN worker.pending : worker.pending[i].payload \in Payloads
      BY DEF MessagesSuit, Entry
    <3>2. DOMAIN worker.pending = 1 .. Len(worker.pending) /\ Len(worker.pending) \in Nat
      BY Fields
    <3> QED BY <3>1, <3>2
  <2>2. store.log \o t \in Seq(Payloads)
    BY <2>1, Fields
  <2> HIDE DEF t
  <2>3. store' = [store EXCEPT !.log = @ \o t, !.epoch = @ + 1]
    BY <1>2 DEF Commit, t
  <2>4. store' \in [log : Seq(Payloads), epoch : Nat, open : BOOLEAN]
    BY <1>1, <2>2, <2>3 DEF TypeOK
  <2>5. worker' \in WorkerState
    BY <1>1, <1>2 DEF Commit, WorkerPc
  <2> QED BY <1>2, <2>4, <2>5, DriverTypes DEF Commit, TypeOK
<1>3. CASE MarkDurable
  <2> DEFINE through == worker.pending[Len(worker.pending)].seq
             n == Popped(through)
             rest == SubSeq(admission.pending, n + 1, Len(admission.pending))
  <2>1. through \in Nat
    <3>1. worker.pending # <<>> /\ worker.pending \in Seq(Message)
      BY <1>3, Fields DEF MarkDurable, StepsSuit
    <3>2. worker.pending[Len(worker.pending)] \in Message
      BY <3>1
    <3> QED BY <3>2, Fields
  <2>2. rest \in Seq(Nat)
    <3>0. worker.pc = "mark"
      BY <1>3 DEF MarkDurable
    <3>1. n \in 0 .. Len(admission.pending) /\ admission.pending \in Seq(Nat)
      BY SMTT(60), <3>0, MarkedBatch, Fields
    <3> HIDE DEF n
    <3>2. n + 1 \in 1 .. Len(admission.pending) + 1 /\ Len(admission.pending) \in Nat
      BY <3>1
    <3> QED BY <3>1, <3>2
  <2> HIDE DEF through, rest
  <2>3. admission' \in AdmissionState
    <3>1. admission' = [admission EXCEPT !.pending = rest] /\ admission \in AdmissionState
      BY <1>3 DEF MarkDurable, rest, through, TypeOK
    <3> QED BY <2>2, <3>1 DEF AdmissionState
  <2>4. worker' \in WorkerState
    <3>1. worker' = [worker EXCEPT !.pc = AfterFlush, !.through = through,
                                   !.epoch = @ + 1, !.pending = <<>>]
      BY <1>3 DEF MarkDurable, through
    <3>2. AfterFlush \in WorkerPc /\ <<>> \in Seq(Message)
      BY DEF AfterFlush, WorkerPc
    <3> QED BY <1>1, <2>1, <3>1, <3>2
  <2>5. durableTurn' \in Nat
    BY <1>3, <2>1 DEF MarkDurable, through
  <2> QED BY <1>3, <2>3, <2>4, <2>5 DEF MarkDurable, TypeOK
<1>4. CASE FlushFails
  <2>1. worker' \in WorkerState
    <3> DEFINE x == CASE worker.current = NoMessage -> "artifacts"
                      [] worker.current.kind = Disconnect -> "control"
                      [] OTHER -> "recv"
               m == IF worker.current.kind = Disconnect THEN worker.current ELSE NoMessage
    <3>1. x \in WorkerPc /\ m \in Message
      BY <1>1, MessageTypes DEF WorkerPc
    <3>2. worker' = [worker EXCEPT !.pc = x, !.current = m]
      BY <1>4 DEF FlushFails
    <3> QED BY <1>1, <3>1, <3>2
  <2> QED BY <1>4, <2>1, DriverTypes, AnsweredTypes DEF FlushFails, TypeOK
<1> QED BY <1>2, <1>3, <1>4

\* Control requests, the end of the worker and a restart keep the types.
LEMMA ControlTypes ==
  ASSUME TypeOK, CallersSuit, MessagesSuit, StepsSuit,
         AnswerQuery \/ RefuseControl \/ CommitControl \/ FailControl
           \/ AcknowledgeControl \/ ShutDown \/ ShutDownDropped \/ ExitLoop \/ Restart
  PROVE  TypeOK'
<1> USE DEF WorkerState
<1>1. worker \in WorkerState /\ Handled \in WorkerState /\ [Handled EXCEPT !.pc = "exiting"] \in WorkerState
  BY MessageTypes DEF TypeOK, Handled, WorkerPc
<1>2. admission \in AdmissionState /\ store \in [log : Seq(Payloads), epoch : Nat, open : BOOLEAN]
  BY DEF TypeOK
<1>3. \A r \in {"none", "ok", "err"} : Answered(r) \in [Callers -> CallerState]
  BY AnsweredTypes
<1>4. CASE AnswerQuery
  BY <1>1, <1>3, <1>4, DriverTypes DEF AnswerQuery, TypeOK
<1>5. CASE RefuseControl \/ FailControl
  BY <1>1, <1>3, <1>5, DriverTypes DEF RefuseControl, FailControl, TypeOK
<1>6. CASE CommitControl
  <2>1. worker.current.payload = None \/ Append(store.log, worker.current.payload) \in Seq(Payloads)
    BY Fields
  <2>2. store.epoch + 1 \in Nat
    BY Fields
  <2>3. store' \in [log : Seq(Payloads), epoch : Nat, open : BOOLEAN]
    BY <1>2, <1>6, <2>1, <2>2 DEF CommitControl
  <2>4. worker' \in WorkerState
    BY <1>1, <1>6 DEF CommitControl, WorkerPc
  <2> QED BY <1>6, <2>3, <2>4, DriverTypes DEF CommitControl, TypeOK
<1>7. CASE AcknowledgeControl
  <2> DEFINE through == worker.through + (IF worker.current.payload = None THEN 0 ELSE 1)
  <2>1. through \in Nat /\ through + 1 \in Nat /\ worker.epoch + 1 \in Nat
    BY SMTT(60), Fields
  <2> HIDE DEF through
  <2>2. /\ worker' = [Handled EXCEPT !.through = through, !.epoch = @ + 1]
        /\ durableTurn' = through
        /\ admission' = [admission EXCEPT !.next = through + 1]
    BY <1>7 DEF AcknowledgeControl, through
  <2>3. Handled.epoch = worker.epoch
    BY <1>1 DEF Handled
  <2>4. worker' \in WorkerState
    BY <1>1, <2>1, <2>2, <2>3
  <2>5. admission' \in AdmissionState
    BY <1>2, <2>1, <2>2 DEF AdmissionState
  <2> QED BY <1>3, <1>7, <2>1, <2>2, <2>4, <2>5 DEF AcknowledgeControl, TypeOK
<1>8. CASE ShutDown
  <2>1. store' \in [log : Seq(Payloads), epoch : Nat, open : BOOLEAN]
    BY <1>2, <1>8 DEF ShutDown
  <2>2. worker' \in WorkerState /\ caller' \in [Callers -> CallerState]
    BY <1>1, <1>3, <1>8 DEF ShutDown
  <2> QED BY <1>8, <2>1, <2>2, DriverTypes DEF ShutDown, TypeOK
<1>9. CASE ShutDownDropped
  <2>1. store' \in [log : Seq(Payloads), epoch : Nat, open : BOOLEAN]
    BY <1>2, <1>9 DEF ShutDownDropped
  <2> QED BY <1>1, <1>9, <2>1 DEF ShutDownDropped, TypeOK
<1>10. CASE ExitLoop
  <2>0. <<>> \in Seq(Message)
    OBVIOUS
  <2>1. Exited(admission) \in AdmissionState
    BY <1>2 DEF Exited, AdmissionState
  <2>2. [worker EXCEPT !.pc = "gone", !.pending = <<>>] \in WorkerState
    BY <1>1, <2>0 DEF WorkerPc
  <2> QED BY <1>10, <2>0, <2>1, <2>2 DEF ExitLoop, TypeOK
<1>11. CASE Restart
  <2>1. Len(store.log) \in Nat /\ Len(store.log) + 1 \in Nat /\ store.epoch \in Nat
        /\ <<>> \in Seq(Nat) /\ <<>> \in Seq(Message) /\ spent.restarts + 1 \in Nat
    BY SMTT(60), Fields DEF TypeOK
  <2>2. Started(Len(store.log)) \in AdmissionState
    BY <2>1 DEF Started, AdmissionState
  <2>3. Working(Len(store.log), store.epoch) \in WorkerState
    BY <2>1, MessageTypes DEF Working, WorkerPc
  <2>4. spent' \in [controls : Nat, failures : Nat, restarts : Nat]
    BY <1>11, <2>1 DEF Restart, TypeOK
  <2>5. store' \in [log : Seq(Payloads), epoch : Nat, open : BOOLEAN]
    BY <1>2, <1>11 DEF Restart
  <2> QED BY <1>11, <2>1, <2>2, <2>3, <2>4, <2>5, MessageTypes DEF Restart, TypeOK
<1> QED BY <1>4, <1>5, <1>6, <1>7, <1>8, <1>9, <1>10, <1>11

\* Every step keeps the types.
LEMMA TypesStep ==
  ASSUME CoordinatorInvariant, [Next]_vars
  PROVE  TypeOK'
<1>1. /\ TypeOK /\ MessagesSuit /\ StepsSuit /\ CallersSuit /\ TurnsAreNumbered
  BY DEF CoordinatorInvariant
<1>2. CASE UNCHANGED vars
  BY <1>1, <1>2 DEF vars, TypeOK
<1> QED BY <1>1, <1>2, CallerTypes, TakingTypes, CommitTypes, ControlTypes DEF Next, Worker

-----------------------------------------------------------------------------
(* Steps of the threads *)

\* What is unanswered stays so while the thread that waits for it does.
LEMMA StillUnanswered ==
  ASSUME NEW cs, NEW ds, NEW m, Unanswered(m, cs),
         \A d \in Callers : cs[d].pc = "awaiting" => ds[d] = cs[d]
  PROVE  Unanswered(m, ds)
BY DEF Unanswered

\* The kinds of message tell what they are.
LEMMA KindsDiffer ==
  /\ Artifact.kind = "artifact" /\ NoMessage.kind = "none"
  /\ NoMessage.from = None /\ NoMessage.payload = None
  /\ \A n, p : /\ Turn(n, p).kind = "turn" /\ Turn(n, p).seq = n /\ Turn(n, p).payload = p
  /\ \A k, n, p, c : /\ Msg(k, n, p, c).kind = k /\ Msg(k, n, p, c).seq = n
                     /\ Msg(k, n, p, c).payload = p /\ Msg(k, n, p, c).from = c
  /\ \A m : Entry(m) => m.kind = "turn"
  /\ \A m, cs : Unanswered(m, cs) => m.kind \in Requests
  /\ "turn" \notin Requests /\ "artifact" \notin Requests /\ "none" \notin Requests
  /\ Disconnect \notin Requests /\ Disconnect \notin {"turn", "artifact", "none"}
BY DEF Artifact, NoMessage, Turn, Msg, Entry, Unanswered, Requests, Query, Immediate,
       Activate, Shutdown, Disconnect

\* A thread takes or gives back a reservation, or queues artifact work: no
\* request and no turn is touched.
QuietPc == {"idle", "reserved", "sending"}
QuietCall(c) ==
  /\ caller[c].pc \in QuietPc /\ caller'[c].pc \in QuietPc
  /\ caller'[c].reply = "none"
  /\ \A d \in Callers \ {c} : caller'[d] = caller[d]
  /\ UNCHANGED <<worker, store, durableTurn>>
  /\ channel' = channel \/ (channel' = Append(channel, Artifact) /\ worker.pc # "gone")
  /\ admission'.next = admission.next /\ admission'.pending = admission.pending
  /\ admission'.alive => admission.alive
  /\ admission'.accepting => admission.accepting
  /\ admission'.reservations = Cardinality(Reserved')
  /\ (\E d \in Callers : caller[d].pc = "awaiting") => admission'.reservations = 0

\* Such a step leaves every part of the invariant as it is.
LEMMA QuietCallKeeps ==
  ASSUME CoordinatorInvariant, TypeOK', NEW c \in Callers, QuietCall(c)
  PROVE  CoordinatorInvariant'
<1>1. /\ TypeOK /\ MessagesSuit /\ RequestIsLast /\ StepsSuit /\ CursorSuits /\ CallersSuit
      /\ ReservationsAreHeld /\ CoversAccepted /\ TurnsAreNumbered
  BY DEF CoordinatorInvariant
<1>2. /\ worker' = worker /\ store' = store /\ durableTurn' = durableTurn
      /\ admission'.next = admission.next /\ admission'.pending = admission.pending
      /\ admission'.alive => admission.alive
      /\ admission'.accepting => admission.accepting
  BY DEF QuietCall
<1>3. /\ \A d \in Callers : caller[d].pc \in {"awaiting", "draining", "dropped"} => caller'[d] = caller[d]
      /\ \A d \in Callers : caller'[d].pc \in {"awaiting", "draining", "dropped"} => caller'[d] = caller[d]
      /\ \A d \in Callers : caller'[d].pc # "awaiting" => caller'[d].reply = "none"
      /\ caller[c].pc # "dropped" /\ caller'[c].pc # "dropped"
  BY <1>1 DEF QuietCall, QuietPc, CallersSuit
<1>4. \A m : Unanswered(m, caller) => Unanswered(m, caller')
  BY <1>3, StillUnanswered
<1>5. channel' \in Seq(Message) /\ channel \in Seq(Message) /\ Artifact \in Message
  BY <1>1, MessageTypes DEF TypeOK
<1>6. \/ channel' = channel
      \/ /\ worker.pc # "gone" /\ channel' = Append(channel, Artifact)
         /\ DOMAIN channel' = 1 .. Len(channel) + 1 /\ DOMAIN channel = 1 .. Len(channel)
         /\ Len(channel) \in Nat
         /\ channel'[Len(channel) + 1] = Artifact
         /\ \A i \in 1 .. Len(channel) : channel'[i] = channel[i]
  BY <1>5 DEF QuietCall
<1>7. MessagesSuit'
  <2>1. \A i \in DOMAIN channel' :
          Entry(channel'[i]) \/ channel'[i] = Artifact \/ Unanswered(channel'[i], caller')
    BY <1>1, <1>4, <1>6 DEF MessagesSuit
  <2> QED BY <1>1, <1>2, <1>4, <2>1 DEF MessagesSuit
<1>8. RequestIsLast'
  <2>1. \A i, j \in DOMAIN channel' :
          i < j /\ channel'[i].kind \in Requests => channel'[j] = Artifact
    BY <1>1, <1>6, KindsDiffer DEF RequestIsLast
  <2>2. (\A i \in DOMAIN channel : channel[i] = Artifact)
          => \A i \in DOMAIN channel' : channel'[i] = Artifact
    BY <1>6
  <2> QED BY <1>1, <1>2, <2>1, <2>2 DEF RequestIsLast
<1>9. StepsSuit'
  <2>1. worker.current.kind # Disconnect
    BY <1>1, <1>3 DEF StepsSuit
  <2>2. worker.pc = "gone" => channel' = channel
    BY <1>6
  <2> QED BY <1>1, <1>2, <2>1, <2>2 DEF StepsSuit
<1>10. CursorSuits'
  BY <1>1, <1>2 DEF CursorSuits
<1>11. CallersSuit'
  <2>1. \A d \in Callers : Asking(d)' => Asking(d) /\ caller'[d] = caller[d]
    BY <1>3 DEF Asking
  <2>2. \A d \in Callers : caller'[d].pc = "awaiting" => admission'.reservations = 0
    BY <1>3 DEF QuietCall
  <2> QED BY <1>1, <1>2, <1>3, <2>1, <2>2 DEF CallersSuit
<1>12. ReservationsAreHeld'
  BY DEF QuietCall, ReservationsAreHeld
<1>13. CoversAccepted'
  BY <1>1, <1>2, <1>3 DEF CoversAccepted, ReceiverGone
<1>14. TurnsAreNumbered'
  <2>1. Turns(channel') = Turns(channel)
    <3>1. Turns(Append(channel, Artifact)) = Turns(channel)
      BY <1>5, TurnsOfAppend, KindsDiffer
    <3> QED BY <1>6, <3>1
  <2>2. UnderWay' = UnderWay
    BY <1>2, <2>1 DEF UnderWay
  <2> QED BY <1>1, <1>2, <2>2 DEF TurnsAreNumbered, ReceiverGone
<1> QED BY <1>7, <1>8, <1>9, <1>10, <1>11, <1>12, <1>13, <1>14 DEF CoordinatorInvariant

\* The set of the threads with a reservation is finite.
LEMMA ReservedFinite == IsFiniteSet(Reserved) /\ Cardinality(Reserved) \in Nat
<1>1. Reserved \subseteq Callers
  BY DEF Reserved
<1> QED BY <1>1, ConstantsAssumption, FS_Subset, FS_CardinalityType

\* A thread that holds a reservation gives one back.
LEMMA ReservedShrinks ==
  ASSUME TypeOK, ReservationsAreHeld, NEW c \in Callers, caller[c].pc = "reserved",
         caller' = [caller EXCEPT ![c] = Idle]
  PROVE  /\ Cardinality(Reserved') = admission.reservations - 1
         /\ admission.reservations \in Nat \ {0}
<1>1. c \in Reserved /\ Reserved' = Reserved \ {c}
  BY DEF Reserved, Idle, TypeOK
<1>2. IsFiniteSet(Reserved) /\ Cardinality(Reserved) \in Nat /\ Reserved # {}
  BY <1>1, ReservedFinite
<1>3. Cardinality(Reserved \ {c}) = Cardinality(Reserved) - 1
  BY <1>1, <1>2, FS_RemoveElement
<1>4. Cardinality(Reserved) # 0
  BY <1>2, FS_EmptySet
<1> QED BY <1>1, <1>2, <1>3, <1>4 DEF ReservationsAreHeld

\* A thread that holds none changes nothing about the reservations.
LEMMA ReservedSame ==
  ASSUME TypeOK, NEW c \in Callers, NEW x, caller[c].pc # "reserved", x.pc # "reserved",
         caller' = [caller EXCEPT ![c] = x]
  PROVE  Reserved' = Reserved
BY DEF Reserved, TypeOK

\* No thread that holds a reservation does so while another awaits an answer.
LEMMA ReservedExcludes ==
  ASSUME CallersSuit, ReservationsAreHeld, NEW c \in Callers, caller[c].pc = "reserved"
  PROVE  \A d \in Callers : caller[d].pc # "awaiting"
<1>1. c \in Reserved
  BY DEF Reserved
<1>2. Cardinality(Reserved) # 0
  BY <1>1, ReservedFinite, FS_EmptySet
<1> QED BY <1>2 DEF CallersSuit, ReservationsAreHeld

\* Reservations and artifact requests are quiet.
LEMMA QuietCalls ==
  ASSUME TypeOK, CallersSuit, ReservationsAreHeld, NEW c \in Callers,
         Reserve(c) \/ Release(c) \/ BeginArtifact(c) \/ SendArtifact(c) \/ FindWorkerGone(c)
  PROVE  QuietCall(c)
<1> USE DEF QuietPc
<1>1. caller[c] \in CallerState /\ admission \in AdmissionState /\ Idle.pc = "idle" /\ Idle.reply = "none"
  BY DEF TypeOK, Idle
<1>2. admission.reservations = Cardinality(Reserved)
  BY DEF ReservationsAreHeld
<1>3. CASE Reserve(c)
  <2>1. \A d \in Callers : caller[d].pc # "awaiting"
    BY <1>3 DEF Reserve, CallersSuit, Asking
  <2>2. Reserved' = Reserved \cup {c} /\ c \notin Reserved
    BY <1>1, <1>3 DEF Reserve, Reserved, TypeOK, CallerState
  <2>3. Cardinality(Reserved') = admission.reservations + 1
    BY <1>2, <2>2, ReservedFinite, FS_AddElement
  <2>4. caller[c].reply = "none"
    BY <1>3 DEF CallersSuit, Reserve
  <2>5. /\ caller'[c].pc = "reserved" /\ caller'[c].reply = caller[c].reply
        /\ \A d \in Callers \ {c} : caller'[d] = caller[d]
    BY <1>1, <1>3 DEF Reserve, TypeOK, CallerState
  <2>6. admission' = [admission EXCEPT !.reservations = admission.reservations + 1]
    BY <1>3 DEF Reserve
  <2>7. /\ admission'.next = admission.next /\ admission'.pending = admission.pending
        /\ admission'.alive => admission.alive
        /\ admission'.accepting => admission.accepting
        /\ admission'.reservations = admission.reservations + 1
    BY <1>1, <2>6 DEF AdmissionState
  <2>8. caller[c].pc = "idle" /\ channel' = channel /\ UNCHANGED <<worker, store, durableTurn>>
    BY <1>3 DEF Reserve
  <2>9. caller[c].pc \in QuietPc /\ caller'[c].pc \in QuietPc /\ caller'[c].reply = "none"
    BY <2>4, <2>5, <2>8
  <2> HIDE DEF QuietPc
  <2> QED BY <2>1, <2>3, <2>5, <2>7, <2>8, <2>9 DEF QuietCall
<1>4. CASE Release(c)
  <2>1. caller[c].pc = "reserved" /\ caller' = [caller EXCEPT ![c] = Idle]
    BY <1>4 DEF Release
  <2>2. \A d \in Callers : caller[d].pc # "awaiting"
    BY <2>1, ReservedExcludes
  <2>3. /\ Cardinality(Reserved') = admission.reservations - 1
        /\ admission.reservations \in Nat \ {0}
    BY <2>1, ReservedShrinks
  <2>4. admission' = [admission EXCEPT !.reservations = admission.reservations - 1]
    BY <1>4, <2>3 DEF Release, Released
  <2>5. /\ admission'.next = admission.next /\ admission'.pending = admission.pending
        /\ admission'.alive => admission.alive
        /\ admission'.accepting => admission.accepting
        /\ admission'.reservations = admission.reservations - 1
    BY <1>1, <2>4 DEF AdmissionState
  <2>6. caller'[c] = Idle /\ \A d \in Callers \ {c} : caller'[d] = caller[d]
    BY <2>1 DEF TypeOK
  <2>7. channel' = channel /\ UNCHANGED <<worker, store, durableTurn>>
    BY <1>4 DEF Release
  <2>8. caller[c].pc \in QuietPc /\ caller'[c].pc \in QuietPc /\ caller'[c].reply = "none"
    BY <1>1, <2>1, <2>6
  <2> HIDE DEF QuietPc
  <2> QED BY <2>2, <2>3, <2>5, <2>6, <2>7, <2>8 DEF QuietCall
<1> DEFINE Simple(x) ==
             /\ caller[c].pc \in {"idle", "sending"} /\ x.pc \in {"idle", "sending"}
             /\ x.reply = "none" /\ caller' = [caller EXCEPT ![c] = x]
             /\ admission' = admission \/ admission' = Exited(admission)
             /\ UNCHANGED <<worker, store, durableTurn>>
             /\ channel' = channel \/ (channel' = Append(channel, Artifact) /\ worker.pc # "gone")
<1>5. ASSUME NEW x, Simple(x) PROVE QuietCall(c)
  <2>1. Reserved' = Reserved
    BY <1>5, ReservedSame
  <2>2. /\ admission'.next = admission.next /\ admission'.pending = admission.pending
        /\ admission'.reservations = admission.reservations
        /\ admission'.alive => admission.alive
        /\ admission'.accepting => admission.accepting
    BY <1>1, <1>5 DEF Exited, AdmissionState
  <2>3. caller'[c] = x /\ \A d \in Callers \ {c} : caller'[d] = caller[d]
    BY <1>5 DEF TypeOK
  <2>4. (\E d \in Callers : caller[d].pc = "awaiting") => admission'.reservations = 0
    BY <2>2 DEF CallersSuit
  <2> QED BY <1>2, <1>5, <2>1, <2>2, <2>3, <2>4 DEF QuietCall
<1>6. CASE BeginArtifact(c)
  <2> DEFINE x == [caller[c] EXCEPT !.pc = "sending"]
  <2>1. x.pc = "sending" /\ x.reply = "none"
    BY <1>1, <1>6 DEF CallersSuit, BeginArtifact, CallerState
  <2>2. caller' = [caller EXCEPT ![c] = x]
    BY <1>6 DEF BeginArtifact, TypeOK
  <2> HIDE DEF x
  <2>3. Simple(x)
    BY <1>6, <2>1, <2>2 DEF BeginArtifact
  <2> HIDE DEF Simple
  <2> QED BY <1>5, <2>3
<1>7. CASE SendArtifact(c)
  <2>1. Simple(Idle)
    BY <1>1, <1>7 DEF SendArtifact, ReceiverGone
  <2> HIDE DEF Simple
  <2> QED BY <1>5, <2>1
<1>8. CASE FindWorkerGone(c)
  <2>1. Simple(Idle)
    BY <1>1, <1>8 DEF FindWorkerGone
  <2> HIDE DEF Simple
  <2> QED BY <1>5, <2>1
<1> QED BY <1>3, <1>4, <1>6, <1>7, <1>8

\* A turn is accepted: the next in number, at the end of those under way.
LEMMA EnqueueKeeps ==
  ASSUME CoordinatorInvariant, TypeOK', NEW c \in Callers, NEW p \in Payloads, Enqueue(c, p)
  PROVE  CoordinatorInvariant'
<1> DEFINE m == Turn(admission.next, p)
<1>1. /\ TypeOK /\ MessagesSuit /\ RequestIsLast /\ StepsSuit /\ CursorSuits /\ CallersSuit
      /\ ReservationsAreHeld /\ CoversAccepted /\ TurnsAreNumbered
  BY DEF CoordinatorInvariant
<1>2. /\ worker' = worker /\ store' = store /\ durableTurn' = durableTurn
      /\ channel' = Append(channel, m) /\ worker.pc # "gone"
      /\ caller[c].pc = "reserved" /\ caller' = [caller EXCEPT ![c] = Idle]
  BY DEF Enqueue, ReceiverGone
<1>3. /\ m \in Message /\ m.kind = "turn" /\ m.seq = admission.next /\ Entry(m)
  BY <1>1, MessageTypes, KindsDiffer, Fields DEF Entry
<1>4. \A d \in Callers : caller[d].pc # "awaiting"
  BY <1>1, <1>2, ReservedExcludes
<1>5. /\ Cardinality(Reserved') = admission.reservations - 1
      /\ admission.reservations \in Nat \ {0}
  BY <1>1, <1>2, ReservedShrinks
<1>6. /\ admission'.next = admission.next + 1
      /\ admission'.pending = Append(admission.pending, admission.next)
      /\ admission'.accepting = admission.accepting
      /\ admission'.reservations = admission.reservations - 1
  <2>1. admission' = [admission EXCEPT !.reservations = admission.reservations - 1,
                                       !.pending = Append(admission.pending, admission.next),
                                       !.next = admission.next + 1]
    BY <1>1, <1>5 DEF Enqueue, Released, TypeOK, AdmissionState
  <2> QED BY <1>1, <2>1 DEF TypeOK, AdmissionState
<1>7. /\ caller'[c] = Idle /\ Idle.pc = "idle" /\ Idle.reply = "none"
      /\ \A d \in Callers \ {c} : caller'[d] = caller[d]
      /\ \A d \in Callers : caller[d].reply = "none" /\ caller'[d].reply = "none"
                            /\ caller'[d].pc # "awaiting"
  BY <1>1, <1>2, <1>4 DEF TypeOK, Idle, CallersSuit
<1>8. \A n : ~ Unanswered(n, caller)
  BY <1>4 DEF Unanswered
<1> HIDE DEF m
<1>9. /\ channel \in Seq(Message) /\ Len(channel) \in Nat
      /\ DOMAIN channel' = 1 .. Len(channel) + 1 /\ DOMAIN channel = 1 .. Len(channel)
      /\ channel'[Len(channel) + 1] = m
      /\ \A i \in 1 .. Len(channel) : channel'[i] = channel[i]
  BY <1>1, <1>2, <1>3, Fields
<1>10. worker.deferred = NoMessage /\ worker.current = NoMessage
  <2>1. worker.current.kind # Disconnect
    BY <1>1, <1>2 DEF StepsSuit
  <2> QED BY <1>1, <1>8, <2>1 DEF MessagesSuit
<1>11. \A i \in DOMAIN channel' : Entry(channel'[i]) \/ channel'[i] = Artifact
  BY <1>1, <1>3, <1>8, <1>9 DEF MessagesSuit
<1>12. MessagesSuit'
  BY <1>1, <1>2, <1>10, <1>11 DEF MessagesSuit
<1>13. RequestIsLast'
  <2>1. \A i \in DOMAIN channel' : channel'[i].kind \notin Requests
    BY <1>11, KindsDiffer
  <2> QED BY <1>2, <1>10, <2>1 DEF RequestIsLast
<1>14. StepsSuit'
  <2>1. worker.current.kind # Disconnect
    BY <1>10, KindsDiffer
  <2> QED BY <1>1, <1>2, <2>1 DEF StepsSuit
<1>15. CursorSuits'
  BY <1>1, <1>2 DEF CursorSuits
<1>16. CallersSuit'
  <2>1. \A d \in Callers : Asking(d)' => Asking(d) /\ caller'[d] = caller[d]
    BY <1>7 DEF Asking
  <2> QED BY <1>1, <1>6, <1>7, <2>1 DEF CallersSuit
<1>17. ReservationsAreHeld'
  BY <1>5, <1>6 DEF ReservationsAreHeld
<1>18. CoversAccepted'
  BY <1>7 DEF CoversAccepted
<1>19. TurnsAreNumbered'
  <2> DEFINE L == Len(UnderWay)
  <2>1. UnderWay \in Seq(Message) /\ L \in Nat /\ durableTurn \in Nat
    BY <1>1, UnderWayType, Fields
  <2>2. UnderWay' = Append(UnderWay, m)
    <3>1. Turns(channel') = Append(Turns(channel), m)
      BY <1>2, <1>3, <1>9, TurnsOfAppend
    <3>2. worker.pending \in Seq(Message) /\ Turns(channel) \in Seq(Message)
      BY <1>1, Fields, UnderWayType
    <3>3. worker.pending \o Append(Turns(channel), m) = Append(worker.pending \o Turns(channel), m)
      <4>1. \A s, t \in Seq(Message) : s \o Append(t, m) = Append(s \o t, m)
        BY <1>3, AppendConcat
      <4> QED BY <3>2, <4>1
    <3> QED BY <1>2, <3>1, <3>3 DEF UnderWay
  <2>3. /\ admission.pending = [i \in 1 .. L |-> durableTurn + i]
        /\ \A i \in 1 .. L : UnderWay[i].seq = durableTurn + i
        /\ admission.next = durableTurn + L + 1
    BY <1>1, <1>2 DEF TurnsAreNumbered, ReceiverGone
  <2>4. /\ Len(UnderWay') = L + 1 /\ UnderWay'[L + 1] = m
        /\ \A i \in 1 .. L : UnderWay'[i] = UnderWay[i]
    BY <1>3, <2>1, <2>2
  <2> HIDE DEF L
  <2>5. admission'.pending = [i \in 1 .. L + 1 |-> durableTurn + i]
    <3>1. admission.pending \in Seq(Nat) /\ Len(admission.pending) = L
      BY <2>1, <2>3
    <3> QED BY <1>6, <2>1, <2>3, <3>1
  <2>6. ASSUME NEW i \in 1 .. L + 1 PROVE UnderWay'[i].seq = durableTurn + i
    <3>1. CASE i \in 1 .. L
      BY <2>3, <2>4, <3>1
    <3>2. CASE i = L + 1
      BY <1>3, <2>1, <2>3, <2>4, <3>2
    <3> QED BY <2>1, <3>1, <3>2
  <2>7. admission'.next = durableTurn + (L + 1) + 1
    BY <1>6, <2>1, <2>3
  <2> QED BY <1>2, <2>4, <2>5, <2>6, <2>7 DEF TurnsAreNumbered
<1> QED BY <1>12, <1>13, <1>14, <1>15, <1>16, <1>17, <1>18, <1>19 DEF CoordinatorInvariant

\* A thread that is not dropped shows that the worker was not told to end.
LEMMA NotDisconnected ==
  ASSUME StepsSuit, NEW c \in Callers, caller[c].pc # "dropped"
  PROVE  worker.current.kind # Disconnect
BY DEF StepsSuit

\* A request begins: it is the only one, and no thread may reserve.
LEMMA BeginControlKeeps ==
  ASSUME CoordinatorInvariant, TypeOK', NEW c \in Callers, NEW k \in Requests, NEW n, NEW p,
         k = Immediate => p \in Payloads, BeginControl(c, k, n, p)
  PROVE  CoordinatorInvariant'
<1> DEFINE x == [Idle EXCEPT !.pc = "draining", !.request = Msg(k, n, p, c)]
<1>1. /\ TypeOK /\ MessagesSuit /\ RequestIsLast /\ StepsSuit /\ CursorSuits /\ CallersSuit
      /\ ReservationsAreHeld /\ CoversAccepted /\ TurnsAreNumbered
  BY DEF CoordinatorInvariant
<1>2. /\ worker' = worker /\ store' = store /\ durableTurn' = durableTurn /\ channel' = channel
      /\ caller[c].pc = "idle" /\ \A d \in Callers : ~ Asking(d)
      /\ caller' = [caller EXCEPT ![c] = x]
      /\ admission' = [admission EXCEPT !.accepting = FALSE]
  BY DEF BeginControl, Asking
<1>3. /\ x.pc = "draining" /\ x.reply = "none" /\ x.request = Msg(k, n, p, c)
  BY DEF Idle
<1> HIDE DEF x
<1>4. /\ caller'[c] = x /\ \A d \in Callers \ {c} : caller'[d] = caller[d]
      /\ \A d \in Callers : caller[d].pc # "awaiting" /\ caller'[d].pc # "awaiting"
      /\ \A d \in Callers : caller'[d].reply = "none"
  BY SMTT(60), <1>1, <1>2, <1>3 DEF TypeOK, Asking, CallersSuit
<1>5. /\ admission'.next = admission.next /\ admission'.pending = admission.pending
      /\ admission'.reservations = admission.reservations
      /\ ~ admission'.accepting
      /\ admission'.alive => admission.alive
  BY <1>1, <1>2 DEF TypeOK, AdmissionState
<1>6. \A m : ~ Unanswered(m, caller)
  BY <1>4 DEF Unanswered
<1>7. MessagesSuit'
  BY <1>1, <1>2, <1>6 DEF MessagesSuit
<1>8. RequestIsLast'
  BY <1>1, <1>2 DEF RequestIsLast
<1>9. StepsSuit'
  <2>1. worker.current.kind # Disconnect
    BY <1>1, <1>2, NotDisconnected
  <2> QED BY <1>1, <1>2, <1>5, <2>1 DEF StepsSuit
<1>10. CursorSuits'
  BY <1>1, <1>2 DEF CursorSuits
<1>11. CallersSuit'
  <2>1. \A d \in Callers : Asking(d)' => d = c
    BY <1>2, <1>4 DEF Asking
  <2>2. /\ x.request.kind = k /\ x.request.from = c /\ x.request.payload = p
    BY <1>3, KindsDiffer
  <2> QED BY <1>3, <1>4, <1>5, <2>1, <2>2 DEF CallersSuit
<1>12. ReservationsAreHeld'
  <2>1. Reserved' = Reserved
    BY <1>1, <1>2, <1>3, ReservedSame
  <2> QED BY <1>1, <1>5, <2>1 DEF ReservationsAreHeld
<1>13. CoversAccepted'
  BY <1>4 DEF CoversAccepted
<1>14. TurnsAreNumbered'
  <2>1. UnderWay' = UnderWay
    BY <1>2 DEF UnderWay
  <2> QED BY <1>1, <1>2, <1>5, <2>1 DEF TurnsAreNumbered, ReceiverGone
<1> QED BY <1>7, <1>8, <1>9, <1>10, <1>11, <1>12, <1>13, <1>14 DEF CoordinatorInvariant

\* The request is sent: it is the last message but artifacts.
LEMMA SendControlKeeps ==
  ASSUME CoordinatorInvariant, TypeOK', NEW c \in Callers, SendControl(c)
  PROVE  CoordinatorInvariant'
<1> DEFINE m == caller[c].request
           x == [caller[c] EXCEPT !.pc = "awaiting", !.covers = admission.next - 1]
<1>1. /\ TypeOK /\ MessagesSuit /\ RequestIsLast /\ StepsSuit /\ CursorSuits /\ CallersSuit
      /\ ReservationsAreHeld /\ CoversAccepted /\ TurnsAreNumbered
  BY DEF CoordinatorInvariant
<1>2. /\ worker' = worker /\ store' = store /\ durableTurn' = durableTurn
      /\ admission' = admission /\ channel' = Append(channel, m) /\ worker.pc # "gone"
      /\ caller[c].pc = "draining" /\ admission.reservations = 0
      /\ caller' = [caller EXCEPT ![c] = x]
  BY <1>1 DEF SendControl, ReceiverGone, TypeOK
<1>3. /\ x.pc = "awaiting" /\ x.reply = caller[c].reply /\ x.request = m
      /\ x.covers = admission.next - 1
  BY <1>1 DEF TypeOK, CallerState
<1>4. /\ m.kind \in Requests /\ m.from = c /\ caller[c].reply = "none"
      /\ \A d \in Callers \ {c} : ~ Asking(d)
      /\ \A d \in Callers : caller[d].pc # "awaiting"
  BY <1>1, <1>2 DEF CallersSuit, Asking
<1>5. m \in Message
  BY <1>1, Fields
<1> HIDE DEF x, m
<1>6. /\ caller'[c] = x /\ \A d \in Callers \ {c} : caller'[d] = caller[d]
      /\ \A d \in Callers : caller'[d].reply = "none"
      /\ \A d \in Callers \ {c} : caller'[d].pc # "awaiting"
  BY <1>1, <1>2, <1>3, <1>4 DEF TypeOK, CallersSuit
<1>7. \A n : ~ Unanswered(n, caller)
  BY <1>4 DEF Unanswered
<1>8. Unanswered(m, caller')
  BY <1>3, <1>4, <1>6 DEF Unanswered
<1>9. /\ channel \in Seq(Message) /\ Len(channel) \in Nat
      /\ DOMAIN channel' = 1 .. Len(channel) + 1 /\ DOMAIN channel = 1 .. Len(channel)
      /\ channel'[Len(channel) + 1] = m
      /\ \A i \in 1 .. Len(channel) : channel'[i] = channel[i]
  BY <1>1, <1>2, <1>5, Fields
<1>10. worker.deferred = NoMessage /\ worker.current = NoMessage
  <2>1. worker.current.kind # Disconnect
    BY <1>1, <1>2, NotDisconnected
  <2> QED BY <1>1, <1>7, <2>1 DEF MessagesSuit
<1>11. \A i \in 1 .. Len(channel) : Entry(channel'[i]) \/ channel'[i] = Artifact
  BY <1>1, <1>7, <1>9 DEF MessagesSuit
<1>12. MessagesSuit'
  <2>1. \A i \in DOMAIN channel' :
          Entry(channel'[i]) \/ channel'[i] = Artifact \/ Unanswered(channel'[i], caller')
    BY <1>8, <1>9, <1>11
  <2> QED BY <1>1, <1>2, <1>10, <2>1 DEF MessagesSuit
<1>13. RequestIsLast'
  <2>1. \A i \in 1 .. Len(channel) : channel'[i].kind \notin Requests
    BY <1>11, KindsDiffer
  <2>2. ASSUME NEW i \in DOMAIN channel', NEW j \in DOMAIN channel', i < j
        PROVE  channel'[i].kind \notin Requests
    BY <1>9, <2>1, <2>2
  <2> QED BY <1>2, <1>10, <2>2 DEF RequestIsLast
<1>14. StepsSuit'
  <2>1. worker.current.kind # Disconnect
    BY <1>10, KindsDiffer
  <2> QED BY <1>1, <1>2, <2>1 DEF StepsSuit
<1>15. CursorSuits'
  BY <1>1, <1>2 DEF CursorSuits
<1>16. CallersSuit'
  <2>1. \A d \in Callers : Asking(d)' => d = c
    BY <1>4, <1>6 DEF Asking
  <2>2. /\ ~ admission.accepting
        /\ m.kind = Immediate => m.payload \in Payloads
    BY <1>1, <1>2 DEF CallersSuit, Asking, m
  <2> QED BY <1>2, <1>3, <1>4, <1>6, <2>1, <2>2 DEF CallersSuit
<1>17. ReservationsAreHeld'
  <2>1. Reserved' = Reserved
    BY <1>1, <1>2, <1>3, ReservedSame
  <2> QED BY <1>1, <1>2, <2>1 DEF ReservationsAreHeld
<1>18. CoversAccepted'
  <2>1. admission.next \in Nat
    BY <1>1, Fields
  <2> QED BY <1>2, <1>3, <1>6, <2>1 DEF CoversAccepted
<1>19. TurnsAreNumbered'
  <2>1. Turns(channel') = Turns(channel)
    BY <1>2, <1>4, <1>5, <1>9, TurnsOfAppend, KindsDiffer
  <2>2. UnderWay' = UnderWay
    BY <1>2, <2>1 DEF UnderWay
  <2> QED BY <1>1, <1>2, <2>2 DEF TurnsAreNumbered, ReceiverGone
<1> QED BY <1>12, <1>13, <1>14, <1>15, <1>16, <1>17, <1>18, <1>19 DEF CoordinatorInvariant

\* The answer is taken: nothing is asked any more.
LEMMA EndControlKeeps ==
  ASSUME CoordinatorInvariant, TypeOK', NEW c \in Callers, EndControl(c) \/ DropCoordinator(c)
  PROVE  CoordinatorInvariant'
<1>1. /\ TypeOK /\ MessagesSuit /\ RequestIsLast /\ StepsSuit /\ CursorSuits /\ CallersSuit
      /\ ReservationsAreHeld /\ CoversAccepted /\ TurnsAreNumbered
  BY DEF CoordinatorInvariant
<1>2. /\ worker' = worker /\ store' = store /\ durableTurn' = durableTurn /\ channel' = channel
      /\ caller[c].pc = "awaiting" /\ caller[c].reply # "none"
  BY DEF EndControl, DropCoordinator
<1>3. /\ admission'.next = admission.next /\ admission'.pending = admission.pending
      /\ admission'.reservations = admission.reservations
      /\ admission'.alive => admission.alive
  <2>1. CASE EndControl(c)
    <3>1. \/ admission' = [admission EXCEPT !.closed = TRUE, !.accepting = FALSE]
          \/ admission' = [admission EXCEPT !.accepting = @ \/ Open]
      BY <2>1 DEF EndControl
    <3> QED BY <1>1, <3>1 DEF TypeOK, AdmissionState
  <2>2. CASE DropCoordinator(c)
    BY <2>2 DEF DropCoordinator
  <2> QED BY <2>1, <2>2
<1>4. \A d \in Callers \ {c} : ~ Asking(d)
  BY <1>1, <1>2 DEF CallersSuit, Asking
<1>5. \A m : ~ Unanswered(m, caller)
  BY <1>2, <1>4 DEF Unanswered, Asking
<1>6. /\ \A d \in Callers : ~ Asking(d)' /\ caller'[d].pc # "awaiting"
      /\ \A d \in Callers : caller'[d].reply = "none"
      /\ Reserved' = Reserved
  <2>1. CASE EndControl(c)
    <3>1. caller' = [caller EXCEPT ![c] = Idle] /\ Idle.pc = "idle" /\ Idle.reply = "none"
      BY <2>1 DEF EndControl, Idle
    <3>2. Reserved' = Reserved
      BY <1>1, <1>2, <3>1, ReservedSame
    <3>3. /\ caller'[c] = Idle /\ \A d \in Callers \ {c} : caller'[d] = caller[d]
      BY <1>1, <3>1 DEF TypeOK
    <3>4. \A d \in Callers : ~ Asking(d)'
      BY <1>4, <3>1, <3>3 DEF Asking
    <3>5. \A d \in Callers \ {c} : caller[d].reply = "none"
      BY <1>1, <1>4 DEF CallersSuit, Asking
    <3> QED BY <3>1, <3>2, <3>3, <3>4, <3>5 DEF Asking
  <2>2. CASE DropCoordinator(c)
    <3>1. /\ \A d \in Callers : caller'[d].pc = "dropped" /\ caller'[d].reply = "none"
          /\ \A d \in Callers \ {c} : caller[d].pc = "idle"
      BY <2>2 DEF DropCoordinator, Idle
    <3>2. Reserved = {} /\ Reserved' = {}
      BY <1>2, <3>1 DEF Reserved
    <3> QED BY <3>1, <3>2 DEF Asking
  <2> QED BY <2>1, <2>2
<1>7. MessagesSuit'
  BY <1>1, <1>2, <1>5 DEF MessagesSuit
<1>8. RequestIsLast'
  BY <1>1, <1>2 DEF RequestIsLast
<1>9. StepsSuit'
  <2>1. worker.current.kind # Disconnect
    BY <1>1, <1>2, NotDisconnected
  <2> QED BY <1>1, <1>2, <1>3, <2>1 DEF StepsSuit
<1>10. CursorSuits'
  BY <1>1, <1>2 DEF CursorSuits
<1>11. CallersSuit'
  BY <1>6 DEF CallersSuit
<1>12. ReservationsAreHeld'
  BY <1>1, <1>3, <1>6 DEF ReservationsAreHeld
<1>13. CoversAccepted'
  BY <1>6 DEF CoversAccepted
<1>14. TurnsAreNumbered'
  <2>1. UnderWay' = UnderWay
    BY <1>2 DEF UnderWay
  <2> QED BY <1>1, <1>2, <1>3, <2>1 DEF TurnsAreNumbered, ReceiverGone
<1> QED BY <1>7, <1>8, <1>9, <1>10, <1>11, <1>12, <1>13, <1>14 DEF CoordinatorInvariant

\* Every step of a thread keeps the invariant.
LEMMA CallerKeeps ==
  ASSUME CoordinatorInvariant, TypeOK', NEW c \in Callers, Caller(c)
  PROVE  CoordinatorInvariant'
<1>1. TypeOK /\ CallersSuit /\ ReservationsAreHeld
  BY DEF CoordinatorInvariant
<1>2. ASSUME Request(c) PROVE CoordinatorInvariant'
  <2>1. /\ Query \in Requests /\ Immediate \in Requests /\ Activate \in Requests /\ Shutdown \in Requests
        /\ Query # Immediate /\ Activate # Immediate /\ Shutdown # Immediate
    BY DEF Requests, Query, Immediate, Activate, Shutdown
  <2> QED BY <1>2, <2>1, BeginControlKeeps DEF Request
<1>3. ASSUME Reserve(c) \/ Release(c) \/ BeginArtifact(c) \/ SendArtifact(c) \/ FindWorkerGone(c)
      PROVE  CoordinatorInvariant'
  BY <1>1, <1>3, QuietCalls, QuietCallKeeps
<1> QED BY <1>2, <1>3, EnqueueKeeps, SendControlKeeps, EndControlKeeps DEF Caller, Proceed

-----------------------------------------------------------------------------
(* The worker takes and batches messages *)

\* The worker moves messages about and commits nothing.
OutsideCommit == {"recv", "collect", "flush", "artifacts", "control", "exiting"}
WorkerMoves ==
  /\ UNCHANGED <<admission, caller, durableTurn>>
  /\ store'.log = store.log /\ store'.epoch = store.epoch
  /\ worker'.through = worker.through /\ worker'.epoch = worker.epoch
  /\ worker.pc \in OutsideCommit /\ worker'.pc \in OutsideCommit
  /\ UnderWay' = UnderWay

\* Then only the parts about the messages have anything to show.
LEMMA MovesKeep ==
  ASSUME CoordinatorInvariant, TypeOK', WorkerMoves, MessagesSuit', RequestIsLast', StepsSuit'
  PROVE  CoordinatorInvariant'
<1>1. /\ CursorSuits /\ CallersSuit /\ ReservationsAreHeld /\ CoversAccepted /\ TurnsAreNumbered
  BY DEF CoordinatorInvariant
<1>2. /\ admission' = admission /\ caller' = caller /\ durableTurn' = durableTurn
      /\ store'.log = store.log /\ store'.epoch = store.epoch
      /\ worker'.through = worker.through /\ worker'.epoch = worker.epoch
      /\ worker.pc \notin {"mark", "acknowledge", "gone"}
      /\ worker'.pc \notin {"mark", "acknowledge", "gone"}
      /\ UnderWay' = UnderWay
  BY DEF WorkerMoves, OutsideCommit
<1>3. CursorSuits'
  BY <1>1, <1>2 DEF CursorSuits
<1>4. CallersSuit'
  BY <1>1, <1>2 DEF CallersSuit, Asking
<1>5. ReservationsAreHeld'
  BY <1>1, <1>2 DEF ReservationsAreHeld, Reserved
<1>6. CoversAccepted'
  BY <1>1, <1>2 DEF CoversAccepted, ReceiverGone
<1>7. TurnsAreNumbered'
  BY <1>1, <1>2 DEF TurnsAreNumbered, ReceiverGone
<1> QED BY <1>3, <1>4, <1>5, <1>6, <1>7 DEF CoordinatorInvariant

\* What is left in the channel when its first message is taken.
LEMMA TakenMessage ==
  ASSUME TypeOK, MessagesSuit, RequestIsLast, channel # <<>>, channel' = Tail(channel)
  PROVE  /\ Head(channel) \in Message /\ Head(channel) = channel[1] /\ 1 \in DOMAIN channel
         /\ channel' \in Seq(Message)
         /\ \A i \in DOMAIN channel' : i + 1 \in DOMAIN channel /\ channel'[i] = channel[i + 1]
         /\ \A i, j \in DOMAIN channel' :
              i < j /\ channel'[i].kind \in Requests => channel'[j] = Artifact
         /\ \A i \in DOMAIN channel' : Entry(channel'[i]) \/ channel'[i] = Artifact
                                         \/ Unanswered(channel'[i], caller)
         /\ Head(channel).kind \in Requests => \A i \in DOMAIN channel' : channel'[i] = Artifact
         /\ Entry(Head(channel)) \/ Head(channel) = Artifact \/ Unanswered(Head(channel), caller)
<1>1. /\ channel \in Seq(Message) /\ channel' \in Seq(Message) /\ Len(channel) \in Nat \ {0}
      /\ DOMAIN channel = 1 .. Len(channel) /\ DOMAIN channel' = 1 .. Len(channel) - 1
      /\ \A i \in 1 .. Len(channel) - 1 : channel'[i] = channel[i + 1]
      /\ Head(channel) = channel[1] /\ Head(channel) \in Message
  BY DEF TypeOK
<1>2. \A i \in DOMAIN channel' : i + 1 \in DOMAIN channel /\ channel'[i] = channel[i + 1] /\ 1 < i + 1
  BY <1>1
<1>3. 1 \in DOMAIN channel
  BY <1>1
<1>4. \A i, j \in DOMAIN channel' :
        i < j /\ channel'[i].kind \in Requests => channel'[j] = Artifact
  <2> SUFFICES ASSUME NEW i \in DOMAIN channel', NEW j \in DOMAIN channel', i < j,
                      channel'[i].kind \in Requests
               PROVE  channel'[j] = Artifact
    OBVIOUS
  <2>1. i + 1 < j + 1
    BY <1>1
  <2> QED BY <1>2, <2>1 DEF RequestIsLast
<1>5. \A i \in DOMAIN channel : Entry(channel[i]) \/ channel[i] = Artifact
                                  \/ Unanswered(channel[i], caller)
  BY DEF MessagesSuit
<1>6. Head(channel).kind \in Requests => \A i \in DOMAIN channel' : channel'[i] = Artifact
  BY <1>1, <1>2, <1>3 DEF RequestIsLast
<1> QED BY <1>1, <1>2, <1>3, <1>4, <1>5, <1>6

\* A turn is taken into the batch.
LEMMA TurnTaken ==
  ASSUME CoordinatorInvariant, TypeOK', UNCHANGED <<admission, caller, store, durableTurn>>,
         worker.pc \in {"recv", "collect"}, worker.deferred = NoMessage,
         channel # <<>>, channel' = Tail(channel), Head(channel).kind = "turn",
         worker' = [worker EXCEPT !.pc = "collect", !.pending = Append(@, Head(channel))]
  PROVE  CoordinatorInvariant'
<1> DEFINE h == Head(channel)
<1>1. /\ TypeOK /\ MessagesSuit /\ RequestIsLast /\ StepsSuit
  BY DEF CoordinatorInvariant
<1>2. /\ h \in Message /\ h.kind = "turn" /\ Entry(h)
      /\ \A i, j \in DOMAIN channel' :
              i < j /\ channel'[i].kind \in Requests => channel'[j] = Artifact
      /\ \A i \in DOMAIN channel' : Entry(channel'[i]) \/ channel'[i] = Artifact
                                         \/ Unanswered(channel'[i], caller)
  BY <1>1, TakenMessage, KindsDiffer
<1> HIDE DEF h
<1>3. /\ worker'.pc = "collect" /\ worker'.pending = Append(worker.pending, h)
      /\ worker'.deferred = NoMessage /\ worker'.current = worker.current
      /\ worker'.through = worker.through /\ worker'.epoch = worker.epoch
  BY <1>1 DEF TypeOK, WorkerState, h
<1>4. worker.current = NoMessage
  BY <1>1 DEF StepsSuit
<1>5. worker.pending \in Seq(Message) /\ channel \in Seq(Message)
  BY <1>1, Fields
<1>6. UnderWay' = UnderWay
  <2>1. Turns(channel) = <<h>> \o Turns(channel')
    BY <1>2, <1>5, TurnsOfTail DEF h
  <2>2. Turns(channel') \in Seq(Message)
    BY TurnsAtRank DEF TypeOK
  <2>3. \A s, t \in Seq(Message) : Append(s, h) \o t = s \o (<<h>> \o t)
    BY <1>2, AppendConcat
  <2> QED BY <1>3, <1>5, <2>1, <2>2, <2>3 DEF UnderWay
<1>7. WorkerMoves
  BY <1>3, <1>6 DEF WorkerMoves, OutsideCommit
<1>8. MessagesSuit'
  <2>1. \A i \in DOMAIN worker'.pending : Entry(worker'.pending[i])
    <3>1. \A i \in DOMAIN worker.pending : Entry(worker.pending[i])
      BY <1>1 DEF MessagesSuit
    <3>2. /\ DOMAIN worker.pending = 1 .. Len(worker.pending) /\ Len(worker.pending) \in Nat
          /\ DOMAIN worker'.pending = 1 .. Len(worker.pending) + 1
          /\ \A i \in 1 .. Len(worker.pending) : worker'.pending[i] = worker.pending[i]
          /\ worker'.pending[Len(worker.pending) + 1] = h
      BY <1>2, <1>3, <1>5
    <3> QED BY <1>2, <3>1, <3>2
  <2> QED BY <1>2, <1>3, <1>4, <2>1 DEF MessagesSuit
<1>9. RequestIsLast'
  BY <1>2, <1>3, <1>4 DEF RequestIsLast
<1>10. StepsSuit'
  <2>1. NoMessage.kind # Disconnect
    BY KindsDiffer
  <2> QED BY <1>3, <1>4, <2>1 DEF StepsSuit
<1> QED BY <1>7, <1>8, <1>9, <1>10, MovesKeep

\* An artifact request is taken, at once or with the batch.
LEMMA ArtifactTaken ==
  ASSUME CoordinatorInvariant, TypeOK', UNCHANGED <<admission, caller, store, durableTurn>>,
         worker.pc \in {"recv", "collect"}, worker.deferred = NoMessage,
         channel # <<>>, channel' = Tail(channel), Head(channel).kind = "artifact",
         worker' = worker \/ worker' = [worker EXCEPT !.artifacts = @ + 1]
  PROVE  CoordinatorInvariant'
<1>1. /\ TypeOK /\ MessagesSuit /\ RequestIsLast /\ StepsSuit
  BY DEF CoordinatorInvariant
<1>2. /\ \A i, j \in DOMAIN channel' :
              i < j /\ channel'[i].kind \in Requests => channel'[j] = Artifact
      /\ \A i \in DOMAIN channel' : Entry(channel'[i]) \/ channel'[i] = Artifact
                                         \/ Unanswered(channel'[i], caller)
  BY <1>1, TakenMessage
<1>3. /\ worker'.pc = worker.pc /\ worker'.pending = worker.pending
      /\ worker'.deferred = worker.deferred /\ worker'.current = worker.current
      /\ worker'.through = worker.through /\ worker'.epoch = worker.epoch
  BY <1>1 DEF TypeOK, WorkerState
<1>4. worker.current = NoMessage /\ NoMessage.kind # Disconnect
  BY <1>1, KindsDiffer DEF StepsSuit
<1>5. UnderWay' = UnderWay
  <2>1. Turns(channel) = Turns(channel')
    BY <1>1, TurnsOfTail, Fields
  <2> QED BY <1>3, <2>1 DEF UnderWay
<1>6. WorkerMoves
  BY <1>3, <1>5 DEF WorkerMoves, OutsideCommit
<1>7. MessagesSuit'
  BY <1>1, <1>2, <1>3 DEF MessagesSuit
<1>8. RequestIsLast'
  BY <1>2, <1>3, <1>4 DEF RequestIsLast
<1>9. StepsSuit'
  BY <1>1, <1>3, <1>4 DEF StepsSuit
<1> QED BY <1>6, <1>7, <1>8, <1>9, MovesKeep

\* A request is taken: only artifacts are left behind it.
LEMMA RequestTaken ==
  ASSUME CoordinatorInvariant, TypeOK', UNCHANGED <<admission, caller, store, durableTurn>>,
         worker.pc \in {"recv", "collect"}, worker.deferred = NoMessage,
         channel # <<>>, channel' = Tail(channel), Head(channel).kind \notin {"turn", "artifact"},
         \/ worker' = [worker EXCEPT !.pc = "flush", !.current = Head(channel)]
         \/ worker' = [worker EXCEPT !.deferred = Head(channel), !.pc = "flush"]
  PROVE  CoordinatorInvariant'
<1> DEFINE h == Head(channel)
<1>1. /\ TypeOK /\ MessagesSuit /\ RequestIsLast /\ StepsSuit
  BY DEF CoordinatorInvariant
<1>2. /\ Unanswered(h, caller) /\ h.kind \in Requests
      /\ \A i \in DOMAIN channel' : channel'[i] = Artifact
  BY <1>1, TakenMessage, KindsDiffer
<1>3. worker.current = NoMessage /\ NoMessage.kind # Disconnect /\ Disconnect \notin Requests
  BY <1>1, KindsDiffer DEF StepsSuit
<1>4. /\ worker'.pc = "flush" /\ worker'.pending = worker.pending
      /\ \/ worker'.deferred = NoMessage /\ worker'.current = h
         \/ worker'.deferred = h /\ worker'.current = NoMessage
      /\ worker'.through = worker.through /\ worker'.epoch = worker.epoch
  <2>1. CASE worker' = [worker EXCEPT !.pc = "flush", !.current = h]
    BY <1>1, <1>3, <2>1 DEF TypeOK, WorkerState
  <2>2. CASE worker' = [worker EXCEPT !.deferred = h, !.pc = "flush"]
    BY <1>1, <1>3, <2>2 DEF TypeOK, WorkerState
  <2> QED BY <2>1, <2>2
<1>5. UnderWay' = UnderWay
  <2>1. Turns(channel) = Turns(channel')
    BY <1>1, TurnsOfTail, Fields
  <2> QED BY <1>4, <2>1 DEF UnderWay
<1> HIDE DEF h
<1>6. WorkerMoves
  BY <1>4, <1>5 DEF WorkerMoves, OutsideCommit
<1>7. MessagesSuit'
  BY <1>1, <1>2, <1>4 DEF MessagesSuit
<1>8. RequestIsLast'
  <2>1. \A i \in DOMAIN channel' : channel'[i].kind \notin Requests
    BY <1>2, KindsDiffer
  <2> QED BY <1>2, <1>4, <2>1 DEF RequestIsLast
<1>9. StepsSuit'
  BY <1>2, <1>3, <1>4 DEF StepsSuit
<1> QED BY <1>6, <1>7, <1>8, <1>9, MovesKeep

\* The worker goes on to its next step, with what it holds.
LEMMA OnlyMoves ==
  ASSUME CoordinatorInvariant, TypeOK', UNCHANGED <<admission, caller, channel, store, durableTurn>>,
         worker.pc \in OutsideCommit, worker'.pc \in OutsideCommit, worker'.pending = worker.pending,
         worker'.through = worker.through, worker'.epoch = worker.epoch,
         \/ worker'.current = worker.current /\ worker'.deferred = worker.deferred
         \/ worker'.current = worker.deferred /\ worker'.deferred = NoMessage
              /\ worker.current = NoMessage,
         StepsSuit'
  PROVE  CoordinatorInvariant'
<1>1. /\ TypeOK /\ MessagesSuit /\ RequestIsLast
  BY DEF CoordinatorInvariant
<1>2. WorkerMoves
  BY DEF WorkerMoves, UnderWay
<1>3. MessagesSuit'
  BY <1>1 DEF MessagesSuit
<1>4. RequestIsLast'
  BY <1>1 DEF RequestIsLast
<1> QED BY <1>2, <1>3, <1>4, MovesKeep

\* Taking and batching messages keeps the invariant.
LEMMA TakingKeeps ==
  ASSUME CoordinatorInvariant, TypeOK',
         RecvTurn \/ RecvArtifact \/ RecvControl \/ RecvDeferred \/ Collect \/ EndCollect
           \/ FlushNothing \/ CompleteArtifacts
  PROVE  CoordinatorInvariant'
<1>1. /\ TypeOK /\ MessagesSuit /\ RequestIsLast /\ StepsSuit
  BY DEF CoordinatorInvariant
<1>2. CASE RecvTurn
  BY <1>2, TurnTaken DEF RecvTurn, TakesFromChannel
<1>3. CASE RecvArtifact
  BY <1>3, ArtifactTaken DEF RecvArtifact, TakesFromChannel
<1>4. CASE RecvControl
  <2>1. Head(channel).kind \notin {"turn", "artifact"}
    BY <1>4 DEF RecvControl, TakesFromChannel, Control, Query, Immediate, Activate, Shutdown, Disconnect
  <2> QED BY <1>4, <2>1, RequestTaken DEF RecvControl, TakesFromChannel
<1>5. CASE Collect
  <2>1. worker.deferred = NoMessage /\ worker.pc = "collect"
    BY <1>1, <1>5 DEF Collect, StepsSuit
  <2>2. CASE Head(channel).kind = "turn"
    <3>1. worker' = [worker EXCEPT !.pc = "collect", !.pending = Append(@, Head(channel))]
      BY <1>1, <1>5, <2>1, <2>2 DEF Collect, TypeOK, WorkerState
    <3> QED BY <1>5, <2>1, <2>2, <3>1, TurnTaken DEF Collect
  <2>3. CASE Head(channel).kind = "artifact"
    <3>1. worker' = [worker EXCEPT !.artifacts = @ + 1]
      BY <1>5, <2>3 DEF Collect
    <3> QED BY <1>5, <2>1, <2>3, <3>1, ArtifactTaken DEF Collect
  <2>4. CASE Head(channel).kind \notin {"turn", "artifact"}
    <3>1. worker' = [worker EXCEPT !.deferred = Head(channel), !.pc = "flush"]
      BY <1>5, <2>4 DEF Collect
    <3> QED BY <1>5, <2>1, <2>4, <3>1, RequestTaken DEF Collect
  <2> QED BY <2>2, <2>3, <2>4
<1> USE DEF OutsideCommit
<1>6. CASE RecvDeferred
  <2>1. /\ worker.pc = "recv" /\ worker'.pc = "flush" /\ worker'.pending = worker.pending
        /\ worker'.through = worker.through /\ worker'.epoch = worker.epoch
        /\ worker'.current = worker.deferred /\ worker'.deferred = NoMessage
        /\ worker.deferred # NoMessage
    BY <1>1, <1>6 DEF RecvDeferred, TypeOK, WorkerState
  <2>2. worker.current = NoMessage
    BY <1>1, <2>1 DEF StepsSuit
  <2>3. worker.deferred.kind # Disconnect
    BY <1>1, <2>1, KindsDiffer DEF MessagesSuit
  <2>4. StepsSuit'
    BY <2>1, <2>3 DEF StepsSuit
  <2> QED BY <1>6, <2>1, <2>2, <2>4, OnlyMoves DEF RecvDeferred
<1>7. CASE EndCollect
  <2>1. /\ worker.pc = "collect" /\ worker'.pc = "flush" /\ worker'.pending = worker.pending
        /\ worker'.through = worker.through /\ worker'.epoch = worker.epoch
        /\ worker'.current = worker.current /\ worker'.deferred = worker.deferred
    BY <1>1, <1>7 DEF EndCollect, TypeOK, WorkerState
  <2>2. StepsSuit'
    BY <1>1, <1>7, <2>1 DEF StepsSuit, EndCollect
  <2> QED BY <1>7, <2>1, <2>2, OnlyMoves DEF EndCollect
<1>8. CASE FlushNothing
  <2>1. /\ worker.pc = "flush" /\ worker'.pc = AfterFlush /\ worker'.pending = worker.pending
        /\ worker'.through = worker.through /\ worker'.epoch = worker.epoch
        /\ worker'.current = worker.current /\ worker'.deferred = worker.deferred
        /\ worker.pending = <<>>
    BY <1>1, <1>8 DEF FlushNothing, TypeOK, WorkerState
  <2>2. StepsSuit'
    BY <1>1, <1>8, <2>1 DEF StepsSuit, FlushNothing, AfterFlush
  <2>3. worker'.pc \in OutsideCommit
    BY <2>1 DEF AfterFlush
  <2> QED BY <1>8, <2>1, <2>2, <2>3, OnlyMoves DEF FlushNothing
<1>9. CASE CompleteArtifacts
  <2>1. /\ worker.pc = "artifacts" /\ worker'.pc = "recv" /\ worker'.pending = worker.pending
        /\ worker'.through = worker.through /\ worker'.epoch = worker.epoch
        /\ worker'.current = worker.current /\ worker'.deferred = worker.deferred
    BY <1>1, <1>9 DEF CompleteArtifacts, TypeOK, WorkerState
  <2>2. StepsSuit'
    BY <1>1, <1>9, <2>1 DEF StepsSuit, CompleteArtifacts
  <2> QED BY <1>9, <2>1, <2>2, OnlyMoves DEF CompleteArtifacts
<1> QED BY <1>2, <1>3, <1>4, <1>5, <1>6, <1>7, <1>8, <1>9

-----------------------------------------------------------------------------
(* The worker commits, answers and ends *)

\* Behind a request that the worker has taken, no turn is left in the channel.
LEMMA NoTurnBehind ==
  ASSUME TypeOK, RequestIsLast, worker.current # NoMessage
  PROVE  Turns(channel) = <<>>
<1>1. \A i \in DOMAIN channel : channel[i].kind # "turn"
  BY KindsDiffer DEF RequestIsLast
<1> QED BY <1>1, TurnsHold, Fields

\* A database that only grows keeps what the answers said of it.
LEMMA CoversStay ==
  ASSUME CoversAccepted, TypeOK, TypeOK', caller' = caller, admission'.next = admission.next,
         worker.pc # "gone", durableTurn <= durableTurn', Len(store.log) <= Len(store'.log),
         \A i \in 1 .. Len(store.log) : store'.log[i] = store.log[i]
  PROVE  CoversAccepted'
<1>1. /\ durableTurn \in Nat /\ durableTurn' \in Nat
      /\ Len(store.log) \in Nat /\ Len(store'.log) \in Nat
      /\ \A c \in Callers : caller[c].covers \in Nat /\ caller[c].request.seq \in Nat
  <2>1. durableTurn' \in Nat /\ store'.log \in Seq(Payloads)
    BY DEF TypeOK
  <2> QED BY <2>1, Fields
<1>2. \A c \in Callers : caller[c].covers <= durableTurn => caller[c].covers <= durableTurn'
  BY <1>1
<1>3. ASSUME NEW n \in 1 .. Len(store.log) PROVE n \in 1 .. Len(store'.log) /\ store'.log[n] = store.log[n]
  BY <1>1
<1> QED BY <1>2, <1>3 DEF CoversAccepted, ReceiverGone

\* What a log extended by more turns has.
LEMMA LogExtended ==
  ASSUME NEW a \in Seq(Payloads), NEW b \in Seq(Payloads)
  PROVE  /\ Len(a \o b) = Len(a) + Len(b) /\ Len(a) <= Len(a \o b)
         /\ \A i \in 1 .. Len(a) : (a \o b)[i] = a[i]
OBVIOUS

\* The batch is committed: the database is ahead of the cursor by it.
LEMMA CommitKeeps ==
  ASSUME CoordinatorInvariant, TypeOK', Commit
  PROVE  CoordinatorInvariant'
<1> DEFINE t == [i \in DOMAIN worker.pending |-> worker.pending[i].payload]
<1>1. /\ TypeOK /\ MessagesSuit /\ RequestIsLast /\ StepsSuit /\ CursorSuits /\ CallersSuit
      /\ ReservationsAreHeld /\ CoversAccepted /\ TurnsAreNumbered
  BY DEF CoordinatorInvariant
<1>2. /\ admission' = admission /\ caller' = caller /\ channel' = channel
      /\ durableTurn' = durableTurn /\ worker.pc = "flush" /\ worker.pending # <<>>
  BY DEF Commit
<1>3. /\ worker'.pc = "mark" /\ worker'.pending = worker.pending
      /\ worker'.through = worker.through /\ worker'.epoch = worker.epoch
      /\ worker'.current = worker.current /\ worker'.deferred = worker.deferred
  BY <1>1 DEF Commit, TypeOK, WorkerState
<1>4. store'.log = store.log \o t /\ store'.epoch = store.epoch + 1
  BY <1>1 DEF Commit, TypeOK
<1>5. /\ store.log \in Seq(Payloads) /\ Len(store.log) \in Nat
      /\ worker.pending \in Seq(Message) /\ Len(worker.pending) \in Nat
      /\ durableTurn \in Nat
  BY <1>1, Fields
<1>6. t \in Seq(Payloads) /\ Len(t) = Len(worker.pending)
  <2>1. \A i \in DOMAIN worker.pending : worker.pending[i].payload \in Payloads
    BY <1>1 DEF MessagesSuit, Entry
  <2> QED BY <1>5, <2>1
<1> HIDE DEF t
<1>7. /\ Len(store'.log) = Len(store.log) + Len(worker.pending)
      /\ \A i \in 1 .. Len(store.log) : store'.log[i] = store.log[i]
      /\ Len(store.log) <= Len(store'.log)
  <2>1. store.log \in Seq(Payloads) /\ t \in Seq(Payloads) /\ Len(t) = Len(worker.pending)
        /\ store'.log = store.log \o t
    BY <1>4, <1>5, <1>6
  <2>2. /\ Len(store.log \o t) = Len(store.log) + Len(t) /\ Len(store.log) <= Len(store.log \o t)
        /\ \A i \in 1 .. Len(store.log) : (store.log \o t)[i] = store.log[i]
    BY <2>1, LogExtended, Zenon
  <2> QED BY <2>1, <2>2, Zenon
<1>8. MessagesSuit'
  BY <1>1, <1>2, <1>3 DEF MessagesSuit
<1>9. RequestIsLast'
  BY <1>1, <1>2, <1>3 DEF RequestIsLast
<1>10. StepsSuit'
  BY <1>1, <1>2, <1>3 DEF StepsSuit
<1>11. CursorSuits'
  BY <1>1, <1>2, <1>3, <1>4, <1>7 DEF CursorSuits
<1>12. CallersSuit'
  BY <1>1, <1>2 DEF CallersSuit, Asking
<1>13. ReservationsAreHeld'
  BY <1>1, <1>2 DEF ReservationsAreHeld, Reserved
<1>14. CoversAccepted'
  <2>1. durableTurn <= durableTurn
    BY <1>5
  <2> QED BY <1>1, <1>2, <1>7, <2>1, CoversStay
<1>15. TurnsAreNumbered'
  <2>1. UnderWay' = UnderWay
    BY <1>2, <1>3 DEF UnderWay
  <2> QED BY <1>1, <1>2, <1>3, <2>1 DEF TurnsAreNumbered, ReceiverGone
<1> QED BY <1>8, <1>9, <1>10, <1>11, <1>12, <1>13, <1>14, <1>15 DEF CoordinatorInvariant

\* The batch is acknowledged: the cursor passes it, and the admission forgets it.
LEMMA MarkDurableKeeps ==
  ASSUME CoordinatorInvariant, TypeOK', MarkDurable
  PROVE  CoordinatorInvariant'
<1> DEFINE n == Len(worker.pending)
           L == Len(UnderWay)
           T == Turns(channel)
<1>1. /\ TypeOK /\ MessagesSuit /\ RequestIsLast /\ StepsSuit /\ CursorSuits /\ CallersSuit
      /\ ReservationsAreHeld /\ CoversAccepted /\ TurnsAreNumbered
  BY DEF CoordinatorInvariant
<1>2. /\ caller' = caller /\ channel' = channel /\ store' = store /\ worker.pc = "mark"
  BY DEF MarkDurable
<1>3. /\ n \in 1 .. L /\ Len(admission.pending) = L
      /\ worker.pending[n].seq = durableTurn + n /\ Popped(worker.pending[n].seq) = n
  BY <1>1, <1>2, MarkedBatch
<1>4. /\ L \in Nat /\ durableTurn \in Nat /\ Len(store.log) \in Nat /\ worker.epoch \in Nat
      /\ T \in Seq(Message) /\ L = n + Len(T) /\ Len(T) \in Nat /\ n \in Nat
      /\ \A i \in 1 .. Len(T) : UnderWay[n + i] = T[i]
  BY SMTT(60), <1>1, UnderWayType, Fields
<1>5. /\ worker'.pc = AfterFlush /\ worker'.pending = <<>>
      /\ worker'.through = durableTurn + n /\ worker'.epoch = worker.epoch + 1
      /\ worker'.current = worker.current /\ worker'.deferred = worker.deferred
      /\ durableTurn' = durableTurn + n
  BY <1>1, <1>3 DEF MarkDurable, TypeOK, WorkerState
<1>6. /\ admission'.pending = SubSeq(admission.pending, n + 1, L)
      /\ admission'.next = admission.next /\ admission'.reservations = admission.reservations
      /\ admission'.alive => admission.alive
      /\ admission'.accepting => admission.accepting
  <2>1. admission' = [admission EXCEPT !.pending = SubSeq(admission.pending, n + 1, L)]
    BY <1>3 DEF MarkDurable
  <2> QED BY <1>1, <2>1 DEF TypeOK, AdmissionState
<1>7. worker'.pc \in {"artifacts", "control"} /\ (worker'.pc = "artifacts" <=> worker.current = NoMessage)
  BY <1>5 DEF AfterFlush
<1> HIDE DEF n, L, T
<1>8. MessagesSuit'
  BY <1>1, <1>2, <1>5 DEF MessagesSuit
<1>9. RequestIsLast'
  BY <1>1, <1>2, <1>5 DEF RequestIsLast
<1>10. StepsSuit'
  BY <1>1, <1>2, <1>5, <1>7 DEF StepsSuit
<1>11. CursorSuits'
  BY <1>1, <1>2, <1>4, <1>5, <1>7 DEF CursorSuits, n
<1>12. CallersSuit'
  BY <1>1, <1>2, <1>6 DEF CallersSuit, Asking
<1>13. ReservationsAreHeld'
  BY <1>1, <1>2, <1>6 DEF ReservationsAreHeld, Reserved
<1>14. CoversAccepted'
  <2>1. Len(store.log) <= Len(store'.log) /\ durableTurn <= durableTurn'
    BY <1>2, <1>4, <1>5
  <2> QED BY <1>1, <1>2, <1>6, <2>1, CoversStay
<1>15. TurnsAreNumbered'
  <2>1. UnderWay' = T
    BY <1>2, <1>4, <1>5 DEF UnderWay, T
  <2>2. /\ admission.pending = [i \in 1 .. L |-> durableTurn + i]
        /\ \A i \in 1 .. L : UnderWay[i].seq = durableTurn + i
        /\ admission.next = durableTurn + L + 1
    BY <1>1, <1>2 DEF TurnsAreNumbered, ReceiverGone, L
  <2>3. admission'.pending = [i \in 1 .. Len(T) |-> (durableTurn + n) + i]
    <3> DEFINE s == SubSeq(admission.pending, n + 1, L)
    <3>1. \A i \in n + 1 .. L : admission.pending[i] \in Nat
      BY <1>3, <1>4, <2>2
    <3>2. /\ s \in Seq(Nat) /\ Len(s) = Len(T)
          /\ \A i \in 1 .. Len(T) : s[i] = admission.pending[(n + 1 + i) - 1]
      <4>1. n + 1 \in Int /\ L \in Int /\ (IF n + 1 <= L THEN L - (n + 1) + 1 ELSE 0) = Len(T)
            /\ L - (n + 1) + 1 = Len(T)
        BY <1>3, <1>4
      <4> QED BY <3>1, <4>1, SubSeqProperties
    <3> HIDE DEF s
    <3>3. \A i \in 1 .. Len(T) : s[i] = (durableTurn + n) + i
      <4> TAKE i \in 1 .. Len(T)
      <4>1. (n + 1 + i) - 1 = n + i /\ n + i \in 1 .. L
        BY <1>3, <1>4
      <4>2. s[i] = admission.pending[n + i]
        BY <3>2, <4>1
      <4>3. admission.pending[n + i] = durableTurn + (n + i)
        BY <2>2, <4>1
      <4> QED BY <1>3, <1>4, <4>2, <4>3
    <3>4. s = [i \in 1 .. Len(T) |-> (durableTurn + n) + i]
      BY <3>2, <3>3
    <3> QED BY <1>6, <3>4 DEF s
  <2>4. \A i \in 1 .. Len(T) : T[i].seq = (durableTurn + n) + i
    <3> TAKE i \in 1 .. Len(T)
    <3>1. n + i \in 1 .. L
      BY <1>3, <1>4
    <3>2. UnderWay[n + i].seq = durableTurn + (n + i) /\ UnderWay[n + i] = T[i]
      BY <1>4, <2>2, <3>1
    <3> QED BY <1>3, <1>4, <3>2
  <2>5. admission'.next = (durableTurn + n) + Len(T) + 1
    BY <1>3, <1>4, <1>6, <2>2
  <2> QED BY <1>5, <2>1, <2>3, <2>4, <2>5 DEF TurnsAreNumbered
<1> QED BY <1>8, <1>9, <1>10, <1>11, <1>12, <1>13, <1>14, <1>15 DEF CoordinatorInvariant

\* What an answer changes: the reply of the thread that waits for it.
LEMMA AnswerReaches ==
  ASSUME TypeOK, NEW r, Unanswered(worker.current, caller), caller' = Answered(r)
  PROVE  /\ worker.current.from \in Callers
         /\ caller'[worker.current.from].pc = "awaiting"
         /\ caller'[worker.current.from].reply = r
         /\ caller'[worker.current.from].request = worker.current
         /\ caller'[worker.current.from].covers = caller[worker.current.from].covers
         /\ \A d \in Callers \ {worker.current.from} : caller'[d] = caller[d]
         /\ \A d \in Callers : caller'[d].pc = caller[d].pc /\ caller'[d].request = caller[d].request
         /\ Reserved' = Reserved
<1> DEFINE f == worker.current.from
<1>1. /\ f \in Callers /\ caller[f].pc = "awaiting" /\ caller[f].request = worker.current
      /\ caller[f] \in CallerState
  BY DEF Unanswered, TypeOK
<1>2. /\ caller'[f] = [caller[f] EXCEPT !.reply = r]
      /\ \A d \in Callers \ {f} : caller'[d] = caller[d]
  BY <1>1 DEF Answered
<1>3. /\ caller'[f].pc = "awaiting" /\ caller'[f].reply = r
      /\ caller'[f].request = worker.current /\ caller'[f].covers = caller[f].covers
  BY <1>1, <1>2 DEF CallerState
<1>4. \A d \in Callers : caller'[d].pc = caller[d].pc /\ caller'[d].request = caller[d].request
  BY <1>1, <1>2, <1>3
<1>5. Reserved' = Reserved
  BY <1>4 DEF Reserved
<1> QED BY <1>1, <1>2, <1>3, <1>4, <1>5

\* An answer to nobody changes nothing.
LEMMA AnswerToNobody ==
  ASSUME TypeOK, NEW r, worker.current.from = None
  PROVE  Answered(r) = caller
<1>1. \A c \in Callers : c # None
  BY ConstantsAssumption
<1>2. Answered(r) = [c \in Callers |-> caller[c]]
  BY <1>1 DEF Answered
<1> QED BY <1>2 DEF TypeOK

\* What the callers' part of the invariant needs of an answer.
LEMMA AnswerSuits ==
  ASSUME TypeOK, CallersSuit, NEW r, Unanswered(worker.current, caller), caller' = Answered(r),
         admission'.accepting => admission.accepting,
         admission'.reservations = admission.reservations
  PROVE  CallersSuit'
<1>1. /\ \A d \in Callers : caller'[d].pc = caller[d].pc /\ caller'[d].request = caller[d].request
      /\ \A d \in Callers \ {worker.current.from} : caller'[d] = caller[d]
      /\ caller'[worker.current.from].pc = "awaiting"
  BY AnswerReaches
<1>2. \A d \in Callers : Asking(d)' = Asking(d)
  BY <1>1 DEF Asking
<1>3. \A d \in Callers : caller'[d].pc # "awaiting" => caller'[d].reply = "none"
  BY <1>1 DEF CallersSuit
<1> QED BY <1>1, <1>2, <1>3 DEF CallersSuit

\* Other threads than the one answered wait for nothing.
LEMMA OthersWaitNot ==
  ASSUME CallersSuit, Unanswered(worker.current, caller)
  PROVE  \A d \in Callers \ {worker.current.from} :
           caller[d].pc # "awaiting" /\ caller[d].reply = "none"
BY DEF CallersSuit, Asking, Unanswered

\* A request is answered without a commit of its own: with success only when
\* all before it is durable.
LEMMA AnswerKeeps ==
  ASSUME CoordinatorInvariant, TypeOK', NEW r \in {"ok", "err"},
         Unanswered(worker.current, caller), caller' = Answered(r),
         r = "ok" => worker.pc = "control" /\ worker.current.kind # Immediate,
         worker.pc \in {"flush", "control"}, worker'.pc \in {"recv", "exiting"},
         worker'.current = NoMessage, worker'.deferred = worker.deferred,
         worker'.pending = worker.pending, worker'.through = worker.through,
         worker'.epoch = worker.epoch, store'.log = store.log, store'.epoch = store.epoch,
         UNCHANGED <<admission, channel, durableTurn>>
  PROVE  CoordinatorInvariant'
<1> DEFINE f == worker.current.from
<1>1. /\ TypeOK /\ MessagesSuit /\ RequestIsLast /\ StepsSuit /\ CursorSuits /\ CallersSuit
      /\ ReservationsAreHeld /\ CoversAccepted /\ TurnsAreNumbered
  BY DEF CoordinatorInvariant
<1>2. /\ admission' = admission /\ channel' = channel /\ durableTurn' = durableTurn
  OBVIOUS
<1>3. worker.current # NoMessage /\ worker.current.kind # Disconnect
  BY KindsDiffer
<1>4. worker.deferred = NoMessage /\ \A i \in DOMAIN channel : channel[i] = Artifact
  BY <1>1, <1>3 DEF RequestIsLast
<1>5. /\ f \in Callers /\ caller'[f].reply = r /\ caller'[f].request = worker.current
      /\ caller'[f].covers = caller[f].covers /\ caller'[f].pc = "awaiting"
      /\ \A d \in Callers \ {f} : caller'[d] = caller[d]
      /\ Reserved' = Reserved
  BY <1>1, AnswerReaches
<1>6. MessagesSuit'
  BY <1>1, <1>2, <1>4 DEF MessagesSuit
<1>7. RequestIsLast'
  <2>1. \A i \in DOMAIN channel : channel[i].kind \notin Requests
    BY <1>4, KindsDiffer
  <2> QED BY <1>2, <1>4, <2>1 DEF RequestIsLast
<1>8. StepsSuit'
  <2>1. NoMessage.kind # Disconnect
    BY KindsDiffer
  <2> QED BY <1>4, <2>1 DEF StepsSuit
<1>9. CursorSuits'
  BY <1>1, <1>2 DEF CursorSuits
<1>10. CallersSuit'
  BY <1>1, <1>2, AnswerSuits
<1>11. ReservationsAreHeld'
  BY <1>1, <1>2, <1>5 DEF ReservationsAreHeld
<1>12. UnderWay' = UnderWay
  BY <1>2 DEF UnderWay
<1>13. TurnsAreNumbered'
  BY <1>1, <1>2, <1>12 DEF TurnsAreNumbered, ReceiverGone
<1>14. CoversAccepted'
  <2>1. ASSUME NEW d \in Callers \ {f} PROVE caller'[d].pc # "awaiting" /\ caller'[d].reply = "none"
    BY <1>1, <1>5, OthersWaitNot
  <2>2. ASSUME r = "ok" PROVE caller'[f].covers <= durableTurn
    <3>1. worker.pending = <<>> /\ Turns(channel) = <<>>
      BY <1>1, <1>3, <2>2, NoTurnBehind DEF StepsSuit
    <3>2. Len(UnderWay) = 0
      BY <3>1 DEF UnderWay
    <3>3. durableTurn \in Nat /\ caller[f].covers \in Nat
      BY <1>1, <1>5, Fields
    <3>4. admission.next = durableTurn + 1
      BY <1>1, <3>2, <3>3 DEF TurnsAreNumbered, ReceiverGone
    <3>5. caller[f].covers < admission.next
      BY <1>1, <1>5 DEF CoversAccepted, ReceiverGone, Unanswered
    <3> QED BY <1>5, <3>3, <3>4, <3>5
  <2> QED BY <1>2, <1>5, <2>1, <2>2 DEF CoversAccepted
<1> QED BY <1>6, <1>7, <1>8, <1>9, <1>10, <1>11, <1>13, <1>14 DEF CoordinatorInvariant

\* A request the worker handles is one that is waited for.
LEMMA HandledIsUnanswered ==
  ASSUME MessagesSuit, worker.current.kind \in Requests
  PROVE  Unanswered(worker.current, caller)
BY KindsDiffer DEF MessagesSuit

\* A commit that fails keeps the batch, and the request gets the error.
LEMMA FlushFailsKeeps ==
  ASSUME CoordinatorInvariant, TypeOK', FlushFails
  PROVE  CoordinatorInvariant'
<1>1. /\ TypeOK /\ MessagesSuit /\ RequestIsLast /\ StepsSuit
  BY DEF CoordinatorInvariant
<1>2. /\ worker.pc = "flush" /\ worker.pending # <<>> /\ caller' = Answered("err")
      /\ UNCHANGED <<admission, channel, store, durableTurn>>
  BY DEF FlushFails
<1>3. /\ worker'.pending = worker.pending /\ worker'.through = worker.through
      /\ worker'.epoch = worker.epoch /\ worker'.deferred = worker.deferred
      /\ worker'.pc = CASE worker.current = NoMessage -> "artifacts"
                        [] worker.current.kind = Disconnect -> "control"
                        [] OTHER -> "recv"
      /\ worker'.current = IF worker.current.kind = Disconnect THEN worker.current ELSE NoMessage
  BY <1>1 DEF FlushFails, TypeOK, WorkerState
<1>4. CASE worker.current = NoMessage
  <2>1. worker'.pc = "artifacts" /\ worker'.current = NoMessage
    BY <1>3, <1>4, KindsDiffer
  <2>2. caller' = caller
    BY <1>1, <1>2, <1>4, AnswerToNobody, KindsDiffer
  <2>3. StepsSuit'
    BY <2>1, KindsDiffer DEF StepsSuit
  <2> QED BY <1>2, <1>3, <1>4, <2>1, <2>2, <2>3, OnlyMoves DEF OutsideCommit
<1>5. CASE worker.current.kind = Disconnect
  <2>0. worker.current # NoMessage
    BY <1>5, KindsDiffer
  <2>1. worker'.pc = "control" /\ worker'.current = worker.current
    BY <1>3, <1>5, <2>0
  <2>2. caller' = caller
    <3>1. worker.current.from = None
      BY <1>1, <1>5, KindsDiffer DEF MessagesSuit
    <3> QED BY <1>1, <1>2, <3>1, AnswerToNobody
  <2>3. StepsSuit'
    BY <1>1, <1>2, <1>5, <2>0, <2>1, <2>2 DEF StepsSuit
  <2> QED BY <1>2, <1>3, <2>1, <2>2, <2>3, OnlyMoves DEF OutsideCommit
<1>6. CASE worker.current # NoMessage /\ worker.current.kind # Disconnect
  <2>1. worker'.pc = "recv" /\ worker'.current = NoMessage
    BY <1>3, <1>6
  <2>2. Unanswered(worker.current, caller)
    BY <1>1, <1>6 DEF MessagesSuit
  <2> QED BY <1>2, <1>3, <2>1, <2>2, AnswerKeeps
<1> QED BY <1>4, <1>5, <1>6

\* Queries, refusals, failures and the shutdown are answers of this kind.
LEMMA AnswersKeep ==
  ASSUME CoordinatorInvariant, TypeOK', AnswerQuery \/ RefuseControl \/ FailControl \/ ShutDown
  PROVE  CoordinatorInvariant'
<1>1. /\ TypeOK /\ MessagesSuit /\ RequestIsLast /\ StepsSuit
  BY DEF CoordinatorInvariant
<1>2. /\ worker.pc = "control" /\ worker.current.kind \in Requests
      /\ UNCHANGED <<admission, channel, durableTurn>>
  BY DEF AnswerQuery, RefuseControl, FailControl, ShutDown, Handling, Refused, Requests
<1>3. Unanswered(worker.current, caller)
  BY <1>1, <1>2, HandledIsUnanswered
<1>4. store'.log = store.log /\ store'.epoch = store.epoch
  BY <1>1 DEF AnswerQuery, RefuseControl, FailControl, ShutDown, TypeOK
<1>5. worker' = Handled \/ worker' = [Handled EXCEPT !.pc = "exiting"]
  BY DEF AnswerQuery, RefuseControl, FailControl, ShutDown
<1>6. /\ worker'.pc \in {"recv", "exiting"} /\ worker'.current = NoMessage
      /\ worker'.deferred = worker.deferred /\ worker'.pending = worker.pending
      /\ worker'.through = worker.through /\ worker'.epoch = worker.epoch
  BY <1>1, <1>5 DEF Handled, TypeOK, WorkerState
<1>7. \/ caller' = Answered("err")
      \/ caller' = Answered("ok") /\ worker.current.kind # Immediate
  BY DEF AnswerQuery, RefuseControl, FailControl, ShutDown, Handling, Query, Shutdown, Immediate
<1> QED BY <1>2, <1>3, <1>4, <1>6, <1>7, AnswerKeeps

\* A request commits: the database is ahead of the cursor by its turn, if any.
LEMMA CommitControlKeeps ==
  ASSUME CoordinatorInvariant, TypeOK', CommitControl
  PROVE  CoordinatorInvariant'
<1> DEFINE p == worker.current.payload
<1>1. /\ TypeOK /\ MessagesSuit /\ RequestIsLast /\ StepsSuit /\ CursorSuits /\ CallersSuit
      /\ ReservationsAreHeld /\ CoversAccepted /\ TurnsAreNumbered
  BY DEF CoordinatorInvariant
<1>2. /\ admission' = admission /\ caller' = caller /\ channel' = channel
      /\ durableTurn' = durableTurn /\ worker.pc = "control"
      /\ worker.current.kind \in {Immediate, Activate}
      /\ worker.current.kind = Immediate => worker.current.seq = worker.through + 1
  BY DEF CommitControl, Refused, Handling
<1>3. /\ worker'.pc = "acknowledge" /\ worker'.pending = worker.pending
      /\ worker'.through = worker.through /\ worker'.epoch = worker.epoch
      /\ worker'.current = worker.current /\ worker'.deferred = worker.deferred
  BY <1>1 DEF CommitControl, TypeOK, WorkerState
<1>4. /\ store'.log = IF p = None THEN store.log ELSE Append(store.log, p)
      /\ store'.epoch = store.epoch + 1
  BY <1>1 DEF CommitControl, TypeOK
<1>5. worker.current.kind \in Requests /\ worker.current.kind # Disconnect
  BY <1>2 DEF Requests, Query, Immediate, Activate, Shutdown, Disconnect
<1>6. Unanswered(worker.current, caller)
  BY <1>1, <1>5, HandledIsUnanswered
<1>7. worker.current.kind = Immediate => p \in Payloads
  BY <1>1, <1>6 DEF CallersSuit, Asking, Unanswered
<1>8. /\ store.log \in Seq(Payloads) /\ p \in Payloads \cup {None} /\ None \notin Payloads
      /\ durableTurn \in Nat /\ Len(store.log) \in Nat /\ store.epoch \in Nat
  BY <1>1, Fields, ConstantsAssumption
<1>9. worker.through = Len(store.log) /\ worker.epoch = store.epoch /\ durableTurn = worker.through
  BY <1>1, <1>2 DEF CursorSuits
<1> HIDE DEF p
<1>10. /\ p = None => store'.log = store.log
       /\ p # None => /\ Len(store'.log) = Len(store.log) + 1
                      /\ store'.log[Len(store.log) + 1] = p
                      /\ \A i \in 1 .. Len(store.log) : store'.log[i] = store.log[i]
  BY <1>4, <1>8
<1>11. MessagesSuit'
  BY <1>1, <1>2, <1>3 DEF MessagesSuit
<1>12. RequestIsLast'
  BY <1>1, <1>2, <1>3 DEF RequestIsLast
<1>13. StepsSuit'
  BY <1>1, <1>2, <1>3, <1>5 DEF StepsSuit
<1>14. CursorSuits'
  <2>1. Len(store'.log) = worker.through + (IF p = None THEN 0 ELSE 1)
    <3>1. CASE p = None
      BY <1>8, <1>9, <1>10, <3>1
    <3>2. CASE p # None
      BY <1>9, <1>10, <3>2
    <3> QED BY <3>1, <3>2
  <2>2. worker.current.kind = Immediate =>
          /\ worker.current.seq = Len(store'.log)
          /\ store'.log[Len(store'.log)] = p
    <3>1. worker.current.kind = Immediate => p # None
      BY <1>7, <1>8
    <3> QED BY <1>2, <1>9, <1>10, <3>1
  <2> QED BY <1>2, <1>3, <1>4, <1>9, <2>1, <2>2 DEF CursorSuits, p
<1>15. CallersSuit'
  BY <1>1, <1>2 DEF CallersSuit, Asking
<1>16. ReservationsAreHeld'
  BY <1>1, <1>2 DEF ReservationsAreHeld, Reserved
<1>17. CoversAccepted'
  <2>1. /\ Len(store.log) <= Len(store'.log)
        /\ \A i \in 1 .. Len(store.log) : store'.log[i] = store.log[i]
    <3>1. CASE p = None
      BY <1>8, <1>10, <3>1
    <3>2. CASE p # None
      BY <1>8, <1>10, <3>2
    <3> QED BY <3>1, <3>2
  <2>2. durableTurn <= durableTurn' /\ worker.pc # "gone"
    BY <1>2, <1>8
  <2> QED BY <1>1, <1>2, <2>1, <2>2, CoversStay
<1>18. TurnsAreNumbered'
  <2>1. UnderWay' = UnderWay
    BY <1>2, <1>3 DEF UnderWay
  <2> QED BY <1>1, <1>2, <1>3, <2>1 DEF TurnsAreNumbered, ReceiverGone
<1> QED BY <1>11, <1>12, <1>13, <1>14, <1>15, <1>16, <1>17, <1>18 DEF CoordinatorInvariant

\* Nothing is under way when a request's commit is acknowledged.
LEMMA NothingUnderWay ==
  ASSUME CoordinatorInvariant, worker.pc = "acknowledge"
  PROVE  /\ worker.pending = <<>> /\ Turns(channel) = <<>> /\ UnderWay = <<>>
         /\ Unanswered(worker.current, caller)
         /\ worker.current # NoMessage
<1>1. TypeOK /\ MessagesSuit /\ RequestIsLast /\ StepsSuit
  BY DEF CoordinatorInvariant
<1>2. /\ worker.current # NoMessage /\ worker.current.kind \in Requests
      /\ worker.current.kind # Disconnect
  BY <1>1 DEF StepsSuit, Requests, Query, Immediate, Activate, Shutdown, Disconnect
<1>3. worker.pending = <<>>
  BY <1>1, <1>2 DEF StepsSuit
<1>4. Turns(channel) = <<>>
  BY <1>1, <1>2, NoTurnBehind
<1> QED BY <1>1, <1>2, <1>3, <1>4, HandledIsUnanswered DEF UnderWay

\* The cursor passes the request's turn, and the next turn comes after it.
LEMMA AcknowledgeControlKeeps ==
  ASSUME CoordinatorInvariant, TypeOK', AcknowledgeControl
  PROVE  CoordinatorInvariant'
<1> DEFINE f == worker.current.from
           n == worker.through + (IF worker.current.payload = None THEN 0 ELSE 1)
<1>1. /\ TypeOK /\ MessagesSuit /\ RequestIsLast /\ StepsSuit /\ CursorSuits /\ CallersSuit
      /\ ReservationsAreHeld /\ CoversAccepted /\ TurnsAreNumbered
  BY DEF CoordinatorInvariant
<1>2. /\ worker.pc = "acknowledge" /\ caller' = Answered("ok")
      /\ channel' = channel /\ store' = store /\ durableTurn' = n
      /\ admission' = [admission EXCEPT !.next = n + 1]
  BY DEF AcknowledgeControl
<1>3. /\ worker'.pc = "recv" /\ worker'.pending = worker.pending
      /\ worker'.through = n /\ worker'.epoch = worker.epoch + 1
      /\ worker'.current = NoMessage /\ worker'.deferred = worker.deferred
  BY <1>1 DEF AcknowledgeControl, Handled, TypeOK, WorkerState
<1>4. /\ admission'.next = n + 1 /\ admission'.pending = admission.pending
      /\ admission'.reservations = admission.reservations
      /\ admission'.accepting => admission.accepting
  BY <1>1, <1>2 DEF TypeOK, AdmissionState
<1>5. /\ worker.pending = <<>> /\ Turns(channel) = <<>> /\ UnderWay = <<>>
      /\ Unanswered(worker.current, caller) /\ worker.current # NoMessage
  BY <1>2, NothingUnderWay
<1>6. /\ n = Len(store.log) /\ store.epoch = worker.epoch + 1 /\ durableTurn = worker.through
      /\ worker.current.kind = Immediate =>
            /\ worker.current.seq = Len(store.log)
            /\ store.log[Len(store.log)] = worker.current.payload
  BY <1>1, <1>2 DEF CursorSuits
<1>7. durableTurn \in Nat /\ n \in Nat /\ durableTurn <= n
  BY <1>1, <1>6, Fields
<1>8. worker.deferred = NoMessage /\ \A i \in DOMAIN channel : channel[i] = Artifact
  BY <1>1, <1>5 DEF RequestIsLast
<1>9. /\ f \in Callers /\ caller'[f].reply = "ok" /\ caller'[f].request = worker.current
      /\ caller'[f].covers = caller[f].covers /\ caller'[f].pc = "awaiting"
      /\ \A d \in Callers \ {f} : caller'[d] = caller[d]
      /\ Reserved' = Reserved
  BY <1>1, <1>2, <1>5, AnswerReaches
<1>10. worker.current.kind = Immediate => Len(store.log) \in 1 .. Len(store.log)
  <2>1. worker.current.kind = Immediate => worker.current.payload # None
    BY <1>1, <1>5, ConstantsAssumption DEF CallersSuit, Asking, Unanswered
  <2>2. worker.through \in Nat
    BY <1>6, <1>7
  <2> QED BY <1>6, <2>1, <2>2
<1> HIDE DEF n, f
<1>11. MessagesSuit'
  BY <1>1, <1>2, <1>3, <1>8 DEF MessagesSuit
<1>12. RequestIsLast'
  <2>1. \A i \in DOMAIN channel : channel[i].kind \notin Requests
    BY <1>8, KindsDiffer
  <2> QED BY <1>2, <1>3, <1>8, <2>1 DEF RequestIsLast
<1>13. StepsSuit'
  <2>1. NoMessage.kind # Disconnect
    BY KindsDiffer
  <2> QED BY <1>3, <2>1 DEF StepsSuit
<1>14. CursorSuits'
  BY <1>2, <1>3, <1>6 DEF CursorSuits
<1>15. CallersSuit'
  BY <1>1, <1>2, <1>4, <1>5, AnswerSuits
<1>16. ReservationsAreHeld'
  BY <1>1, <1>4, <1>9 DEF ReservationsAreHeld
<1>17. CoversAccepted'
  <2>1. ASSUME NEW d \in Callers \ {f} PROVE caller'[d].pc # "awaiting" /\ caller'[d].reply = "none"
    BY <1>1, <1>5, <1>9, OthersWaitNot DEF f
  <2>2. caller'[f].covers <= durableTurn'
    <3>1. Len(UnderWay) = 0
      BY <1>5
    <3>2. caller[f].covers \in Nat
      BY <1>1, <1>9, Fields
    <3>3. admission.next = durableTurn + 1
      BY <1>1, <1>2, <1>7, <3>1 DEF TurnsAreNumbered, ReceiverGone
    <3>4. caller[f].covers < admission.next
      BY <1>1, <1>2, <1>5, <1>9 DEF CoversAccepted, ReceiverGone, Unanswered, f
    <3>5. caller[f].covers <= n
      BY <1>7, <3>2, <3>3, <3>4
    <3> QED BY <1>2, <1>9, <3>5
  <2> QED BY <1>2, <1>6, <1>9, <1>10, <2>1, <2>2 DEF CoversAccepted
<1>18. TurnsAreNumbered'
  <2>1. UnderWay' = <<>>
    BY <1>2, <1>3, <1>5 DEF UnderWay
  <2>2. admission.pending = [i \in 1 .. 0 |-> durableTurn + i]
    BY <1>1, <1>2, <1>5 DEF TurnsAreNumbered, ReceiverGone
  <2>3. [i \in 1 .. 0 |-> durableTurn + i] = [i \in 1 .. 0 |-> n + i]
    OBVIOUS
  <2>4. Len(<<>>) = 0 /\ n + 0 + 1 = n + 1
    BY <1>7
  <2>5. \A i \in 1 .. 0 : FALSE
    OBVIOUS
  <2> QED BY <1>2, <1>4, <2>1, <2>2, <2>3, <2>4, <2>5 DEF TurnsAreNumbered
<1> QED BY <1>11, <1>12, <1>13, <1>14, <1>15, <1>16, <1>17, <1>18 DEF CoordinatorInvariant

\* The worker is told to end, and ends.
LEMMA EndingKeeps ==
  ASSUME CoordinatorInvariant, TypeOK', RecvDisconnected \/ ShutDownDropped \/ ExitLoop
  PROVE  CoordinatorInvariant'
<1>1. /\ TypeOK /\ MessagesSuit /\ RequestIsLast /\ StepsSuit /\ CursorSuits /\ CallersSuit
      /\ ReservationsAreHeld /\ CoversAccepted /\ TurnsAreNumbered
  BY DEF CoordinatorInvariant
<1>2. CASE RecvDisconnected
  <2> DEFINE m == Msg(Disconnect, 0, None, None)
  <2>1. m.kind = Disconnect /\ m.from = None
    BY KindsDiffer
  <2> HIDE DEF m
  <2>2. /\ worker.pc = "recv" /\ worker.deferred = NoMessage /\ channel = <<>>
        /\ \A c \in Callers : caller[c].pc = "dropped"
        /\ UNCHANGED <<admission, channel, caller, store, durableTurn>>
    BY <1>2 DEF RecvDisconnected
  <2>3. /\ worker'.pc = "flush" /\ worker'.current = m /\ worker'.deferred = worker.deferred
        /\ worker'.pending = worker.pending /\ worker'.through = worker.through
        /\ worker'.epoch = worker.epoch
    BY <1>1, <1>2 DEF RecvDisconnected, TypeOK, WorkerState, m
  <2>4. DOMAIN channel = {}
    BY <2>2
  <2>5. WorkerMoves
    BY <2>2, <2>3 DEF WorkerMoves, OutsideCommit, UnderWay
  <2>6. MessagesSuit'
    BY <1>1, <2>1, <2>2, <2>3 DEF MessagesSuit
  <2>7. RequestIsLast'
    BY <2>2, <2>3, <2>4 DEF RequestIsLast
  <2>8. StepsSuit'
    BY <1>1, <2>1, <2>2, <2>3 DEF StepsSuit
  <2> QED BY <2>5, <2>6, <2>7, <2>8, MovesKeep
<1>3. CASE ShutDownDropped
  <2>1. /\ worker.pc = "control" /\ worker.current.kind = Disconnect
        /\ UNCHANGED <<admission, channel, caller, durableTurn>>
    BY <1>3 DEF ShutDownDropped, Handling
  <2>2. /\ worker'.pc = "exiting" /\ worker'.current = NoMessage /\ worker'.deferred = worker.deferred
        /\ worker'.pending = worker.pending /\ worker'.through = worker.through
        /\ worker'.epoch = worker.epoch /\ store'.log = store.log /\ store'.epoch = store.epoch
    BY <1>1, <1>3 DEF ShutDownDropped, Handled, TypeOK, WorkerState
  <2>3. worker.deferred = NoMessage /\ NoMessage.kind # Disconnect
    BY <1>1, <2>1, KindsDiffer DEF RequestIsLast
  <2>4. WorkerMoves
    BY <2>1, <2>2 DEF WorkerMoves, OutsideCommit, UnderWay
  <2>5. MessagesSuit'
    BY <1>1, <2>1, <2>2 DEF MessagesSuit
  <2>6. RequestIsLast'
    BY <1>1, <2>1, <2>2, <2>3 DEF RequestIsLast
  <2>7. StepsSuit'
    BY <2>2, <2>3 DEF StepsSuit
  <2> QED BY <2>4, <2>5, <2>6, <2>7, MovesKeep
<1>4. CASE ExitLoop /\ admission.alive
  <2>1. /\ worker.pc = "exiting" /\ UNCHANGED <<channel, worker, caller, store, durableTurn>>
        /\ admission' = Exited(admission)
    BY <1>4 DEF ExitLoop
  <2>2. /\ admission'.next = admission.next /\ admission'.pending = admission.pending
        /\ admission'.reservations = admission.reservations
        /\ ~ admission'.accepting
    BY <1>1, <2>1 DEF Exited, TypeOK, AdmissionState
  <2>3. MessagesSuit' /\ RequestIsLast'
    BY <1>1, <2>1 DEF MessagesSuit, RequestIsLast
  <2>4. StepsSuit'
    BY <1>1, <2>1 DEF StepsSuit
  <2>5. CursorSuits'
    BY <1>1, <2>1 DEF CursorSuits
  <2>6. CallersSuit'
    BY <1>1, <2>1, <2>2 DEF CallersSuit, Asking
  <2>7. ReservationsAreHeld'
    BY <1>1, <2>1, <2>2 DEF ReservationsAreHeld, Reserved
  <2>8. CoversAccepted'
    BY <1>1, <2>1, <2>2 DEF CoversAccepted, ReceiverGone
  <2>9. TurnsAreNumbered'
    BY <1>1, <2>1, <2>2 DEF TurnsAreNumbered, ReceiverGone, UnderWay
  <2> QED BY <2>3, <2>4, <2>5, <2>6, <2>7, <2>8, <2>9 DEF CoordinatorInvariant
<1>5. CASE ExitLoop /\ ~ admission.alive
  <2>1. /\ worker.pc = "exiting" /\ UNCHANGED <<admission, caller, store, durableTurn>>
        /\ channel' = <<>>
    BY <1>5 DEF ExitLoop
  <2>2. /\ worker'.pc = "gone" /\ worker'.pending = <<>> /\ worker'.current = worker.current
        /\ worker'.deferred = worker.deferred /\ worker'.through = worker.through
        /\ worker'.epoch = worker.epoch
    BY <1>1, <1>5 DEF ExitLoop, TypeOK, WorkerState
  <2>3. /\ worker.current = NoMessage /\ worker.deferred = NoMessage /\ NoMessage.kind # Disconnect
        /\ ~ admission'.alive
    BY <1>1, <1>5, <2>1, KindsDiffer DEF StepsSuit
  <2>4. DOMAIN channel' = {} /\ DOMAIN worker'.pending = {}
    BY <2>1, <2>2
  <2>5. MessagesSuit' /\ RequestIsLast'
    BY <2>2, <2>3, <2>4 DEF MessagesSuit, RequestIsLast
  <2>6. StepsSuit'
    BY <2>1, <2>2, <2>3 DEF StepsSuit
  <2>7. CursorSuits'
    BY <1>1, <2>1, <2>2 DEF CursorSuits
  <2>8. CallersSuit'
    BY <1>1, <2>1 DEF CallersSuit, Asking
  <2>9. ReservationsAreHeld'
    BY <1>1, <2>1 DEF ReservationsAreHeld, Reserved
  <2>10. CoversAccepted' /\ TurnsAreNumbered'
    BY <1>1, <2>1, <2>2 DEF CoversAccepted, TurnsAreNumbered, ReceiverGone
  <2> QED BY <2>5, <2>6, <2>7, <2>8, <2>9, <2>10 DEF CoordinatorInvariant
<1> QED BY <1>2, <1>3, <1>4, <1>5 DEF ExitLoop

\* A process that has just started on a database of n turns.
JustStarted(ad, ch, cs, wo, n, e) ==
  ad = Started(n) /\ ch = <<>> /\ cs = [c \in Callers |-> Idle] /\ wo = Working(n, e)

\* It has nothing under way, and its cursor is at the end of the database.
LEMMA StartedSuits ==
  ASSUME TypeOK, JustStarted(admission, channel, caller, worker, Len(store.log), store.epoch),
         durableTurn = Len(store.log)
  PROVE  CoordinatorInvariant
<1> DEFINE n == Len(store.log)
<1>1. n \in Nat /\ store.log \in Seq(Payloads)
  BY Fields
<1>2. /\ admission.next = n + 1 /\ admission.pending = <<>> /\ admission.reservations = 0
  BY DEF JustStarted, Started
<1>3. /\ worker.pc = "recv" /\ worker.pending = <<>> /\ worker.deferred = NoMessage
      /\ worker.current = NoMessage /\ worker.through = n /\ worker.epoch = store.epoch
  BY DEF JustStarted, Working
<1>4. /\ channel = <<>>
      /\ \A c \in Callers : caller[c].pc = "idle" /\ caller[c].reply = "none"
  BY DEF JustStarted, Idle
<1>5. DOMAIN channel = {} /\ DOMAIN worker.pending = {} /\ NoMessage.kind # Disconnect
  BY <1>3, <1>4, KindsDiffer
<1>6. Turns(channel) = <<>>
  BY <1>5, TurnsHold, Fields
<1>7. UnderWay = <<>> /\ Len(UnderWay) = 0
  BY <1>3, <1>6 DEF UnderWay
<1>8. Reserved = {}
  BY <1>4 DEF Reserved
<1> HIDE DEF n
<1>9. MessagesSuit /\ RequestIsLast
  BY <1>3, <1>5 DEF MessagesSuit, RequestIsLast
<1>10. StepsSuit
  BY <1>3, <1>5 DEF StepsSuit
<1>11. CursorSuits
  BY <1>3 DEF CursorSuits, n
<1>12. CallersSuit /\ CoversAccepted
  BY <1>4 DEF CallersSuit, CoversAccepted, Asking
<1>13. ReservationsAreHeld
  BY <1>2, <1>8, FS_EmptySet DEF ReservationsAreHeld
<1>14. TurnsAreNumbered
  <2>1. <<>> = [i \in 1 .. 0 |-> durableTurn + i]
    OBVIOUS
  <2>2. durableTurn = n /\ n + 0 + 1 = n + 1 /\ \A i \in 1 .. 0 : FALSE
    BY <1>1 DEF n
  <2> QED BY <1>2, <1>7, <2>1, <2>2 DEF TurnsAreNumbered
<1> QED BY <1>9, <1>10, <1>11, <1>12, <1>13, <1>14 DEF CoordinatorInvariant

\* The invariant holds initially, and again after a restart.
LEMMA CoordinatorInit == Init => CoordinatorInvariant
<1> SUFFICES ASSUME Init PROVE CoordinatorInvariant
  OBVIOUS
<1>1. TypeOK
  BY TypesInit
<1>2. Len(store.log) = 0 /\ store.epoch = 0 /\ durableTurn = 0
  BY DEF Init
<1>3. JustStarted(admission, channel, caller, worker, 0, 0)
  BY DEF Init, JustStarted
<1> QED BY <1>1, <1>2, <1>3, StartedSuits

\* A restart forgets all but the database.
LEMMA RestartKeeps ==
  ASSUME CoordinatorInvariant, TypeOK', Restart
  PROVE  CoordinatorInvariant'
<1>1. store'.log = store.log /\ store'.epoch = store.epoch /\ durableTurn' = Len(store.log)
  BY DEF Restart, CoordinatorInvariant, TypeOK
<1>2. JustStarted(admission, channel, caller, worker, Len(store.log), store.epoch)'
  BY <1>1 DEF Restart, JustStarted
<1>3. (durableTurn = Len(store.log))'
  BY <1>1
<1>4. (TypeOK /\ JustStarted(admission, channel, caller, worker, Len(store.log), store.epoch)
         /\ durableTurn = Len(store.log) => CoordinatorInvariant)'
  BY StartedSuits, PTL
<1> QED BY <1>2, <1>3, <1>4

\* Every step keeps the invariant.
LEMMA CoordinatorStep == CoordinatorInvariant /\ [Next]_vars => CoordinatorInvariant'
<1> SUFFICES ASSUME CoordinatorInvariant, [Next]_vars PROVE CoordinatorInvariant'
  OBVIOUS
<1>1. TypeOK'
  BY TypesStep
<1>2. CASE UNCHANGED vars
  BY <1>2 DEF vars, CoordinatorInvariant, TypeOK, MessagesSuit, RequestIsLast, StepsSuit, CursorSuits,
      CallersSuit, ReservationsAreHeld, CoversAccepted, TurnsAreNumbered, UnderWay, Reserved, Asking,
      ReceiverGone
<1>3. ASSUME NEW c \in Callers, Caller(c) PROVE CoordinatorInvariant'
  BY <1>1, <1>3, CallerKeeps
<1>4. CASE Worker
  BY <1>1, <1>4, TakingKeeps, CommitKeeps, MarkDurableKeeps, FlushFailsKeeps, AnswersKeep,
     CommitControlKeeps, AcknowledgeControlKeeps, EndingKeeps DEF Worker
<1>5. CASE Restart
  BY <1>1, <1>5, RestartKeeps
<1> QED BY <1>2, <1>3, <1>4, <1>5 DEF Next

-----------------------------------------------------------------------------
(* What the coordinator keeps *)

\* The turns under way, as the model's properties name them.
LEMMA TrackedIsUnderWay ==
  ASSUME TypeOK
  PROVE  Tracked = UnderWay
<1>1. worker.pending \in Seq(Message) /\ Turns(channel) \in Seq(Message)
  BY UnderWayType, Fields
<1>2. \A s \in Seq(Message) : <<>> \o s = s
  BY ConcatEmptySeq
<1>3. worker.pending \o Turns(channel) \in Seq(Message)
  BY <1>1
<1>4. CASE worker.pc = "mark"
  BY <1>1, <1>2, <1>4 DEF Tracked, InFlight, UnderWay
<1>5. CASE worker.pc # "mark"
  BY <1>2, <1>3, <1>5 DEF Tracked, InFlight, UnderWay
<1> QED BY <1>4, <1>5

\* The inductive invariant implies the one the runs check.
LEMMA CoordinatorSuits == CoordinatorInvariant => AdmissionInvariant
<1> SUFFICES ASSUME CoordinatorInvariant PROVE AdmissionInvariant
  OBVIOUS
<1>1. /\ TypeOK /\ MessagesSuit /\ RequestIsLast /\ StepsSuit /\ CursorSuits /\ CallersSuit
      /\ ReservationsAreHeld /\ CoversAccepted /\ TurnsAreNumbered
  BY DEF CoordinatorInvariant
<1>2. Tracked = UnderWay /\ UnderWay \in Seq(Message) /\ durableTurn \in Nat
  BY <1>1, TrackedIsUnderWay, UnderWayType, Fields
<1>3. PendingMatchesQueue
  <2> SUFFICES ASSUME ~ ReceiverGone
               PROVE  /\ admission.pending = [i \in DOMAIN Tracked |-> Tracked[i].seq]
                      /\ \A i \in DOMAIN Tracked : Tracked[i].seq = durableTurn + i
    BY DEF PendingMatchesQueue
  <2>1. DOMAIN Tracked = 1 .. Len(UnderWay)
    BY <1>2
  <2>2. /\ admission.pending = [i \in 1 .. Len(UnderWay) |-> durableTurn + i]
        /\ \A i \in 1 .. Len(UnderWay) : UnderWay[i].seq = durableTurn + i
    BY <1>1 DEF TurnsAreNumbered
  <2>3. [i \in 1 .. Len(UnderWay) |-> durableTurn + i] = [i \in 1 .. Len(UnderWay) |-> UnderWay[i].seq]
    BY <2>2
  <2> QED BY <1>2, <2>1, <2>2, <2>3
<1>4. ControlRunsAlone
  <2>1. worker.pc = "acknowledge" => admission.reservations = 0 /\ Tracked = <<>>
    <3> SUFFICES ASSUME worker.pc = "acknowledge" PROVE admission.reservations = 0 /\ Tracked = <<>>
      OBVIOUS
    <3>1. UnderWay = <<>> /\ Unanswered(worker.current, caller)
      BY NothingUnderWay
    <3> QED BY <1>1, <1>2, <3>1 DEF CallersSuit, Unanswered
  <2>2. ~ ReceiverGone => admission.next = durableTurn + Len(Tracked) + 1
    BY <1>1, <1>2 DEF TurnsAreNumbered
  <2> QED BY <2>1, <2>2 DEF ControlRunsAlone
<1>5. CommittedIsAcknowledged
  <2>1. ASSUME worker.pc = "mark"
        PROVE  MarkDurableAccepts(worker.pending[Len(worker.pending)].seq)
    <3> DEFINE n == Len(worker.pending)
               L == Len(UnderWay)
    <3>1. /\ n \in 1 .. L /\ Len(admission.pending) = L
          /\ worker.pending[n].seq = durableTurn + n /\ Popped(worker.pending[n].seq) = n
      BY <1>1, <2>1, MarkedBatch
    <3>2. admission.pending = [i \in 1 .. L |-> durableTurn + i]
      BY <1>1, <2>1 DEF TurnsAreNumbered, ReceiverGone
    <3>3. L \in Nat \ {0} /\ n \in Nat \ {0}
      BY <1>2, <3>1
    <3> HIDE DEF n, L
    <3>4. admission.pending # <<>> /\ admission.pending[1] = durableTurn + 1
      BY <3>2, <3>3
    <3>5. durableTurn + 1 <= durableTurn + n
      BY <1>2, <3>3
    <3>6. n < L => admission.pending[n + 1] = (durableTurn + n) + 1
      <4>1. n < L => n + 1 \in 1 .. L
        BY <3>3
      <4> QED BY <1>2, <3>2, <3>3, <4>1
    <3> QED BY <3>1, <3>4, <3>5, <3>6 DEF MarkDurableAccepts, n
  <2> QED BY <1>1, <2>1 DEF CommittedIsAcknowledged, CursorSuits
<1> QED BY <1>1, <1>3, <1>4, <1>5 DEF AdmissionInvariant

\* An answer covers what the inductive invariant says it does.
LEMMA AnswersCover == CoordinatorInvariant => AnswerCoversTurns
<1> SUFFICES ASSUME CoordinatorInvariant, NEW c \in Callers, caller[c].reply = "ok"
             PROVE  /\ caller[c].covers <= Len(store.log) /\ caller[c].covers <= durableTurn
                    /\ caller[c].request.kind = Immediate =>
                         store.log[caller[c].request.seq] = caller[c].request.payload
  BY DEF AnswerCoversTurns
<1>1. TypeOK /\ CursorSuits /\ CoversAccepted
  BY DEF CoordinatorInvariant
<1>2. caller[c].covers <= durableTurn
  BY <1>1 DEF CoversAccepted
<1>3. durableTurn <= Len(store.log)
  <2>1. /\ durableTurn \in Nat /\ durableTurn = worker.through /\ Len(worker.pending) \in Nat
    BY <1>1, Fields DEF CursorSuits
  <2>2. \E k \in Nat : Len(store.log) = durableTurn + k
    <3>1. CASE worker.pc = "mark"
      BY <1>1, <2>1, <3>1 DEF CursorSuits
    <3>2. CASE worker.pc = "acknowledge"
      BY <1>1, <2>1, <3>2 DEF CursorSuits
    <3>3. CASE worker.pc \notin {"mark", "acknowledge"}
      <4>1. Len(store.log) = durableTurn /\ durableTurn + 0 = durableTurn
        BY <1>1, <2>1, <3>3 DEF CursorSuits
      <4> QED BY <4>1
    <3> QED BY <3>1, <3>2, <3>3
  <2>3. \A d, k \in Nat : d <= d + k
    OBVIOUS
  <2> QED BY <2>1, <2>2, <2>3
<1>4. caller[c].covers <= Len(store.log)
  <2>1. durableTurn \in Nat /\ caller[c].covers \in Nat /\ Len(store.log) \in Nat
    BY <1>1, Fields
  <2> QED BY <1>2, <1>3, <2>1
<1> QED BY <1>1, <1>2, <1>4 DEF CoversAccepted

\* The admission, the worker and the database always agree, for any number of
\* threads, turns, failed commits and restarts: mark_durable never refuses what
\* was committed, and mark_activation never gives out a number that is taken.
THEOREM AdmissionAlwaysAgrees == Spec => []AdmissionInvariant
BY CoordinatorInit, CoordinatorStep, CoordinatorSuits, PTL DEF Spec

\* A request is never answered with success before every turn accepted ahead
\* of it, and its own, is in the database and reported durable.
THEOREM AnswersAlwaysCover == Spec => []AnswerCoversTurns
BY CoordinatorInit, CoordinatorStep, AnswersCover, PTL DEF Spec

-----------------------------------------------------------------------------
(* The coordinator implements DurableTurns *)

\* The log of DurableTurns: what is committed, then what is under way.
Accepted == store.log \o Payload(InFlight)

\* The steps of DurableTurns, in terms of the coordinator's variables.
AcceptsTurn == \E p \in Payloads : Accepted' = Append(Accepted, p) /\ Len(store'.log) = Len(store.log)
PersistsTurns ==
  /\ Accepted' = Accepted
  /\ Len(store'.log) \in Len(store.log) + 1 .. Len(Accepted)
AcceptsDurably ==
  \E p \in Payloads : /\ Len(store.log) = Len(Accepted)
                      /\ Accepted' = Append(Accepted, p)
                      /\ Len(store'.log) = Len(Accepted) + 1
LosesTail ==
  /\ Len(store.log) < Len(Accepted)
  /\ Accepted' = SubSeq(Accepted, 1, Len(store.log))
  /\ Len(store'.log) = Len(store.log)
Stutters == Accepted' = Accepted /\ Len(store'.log) = Len(store.log)

\* They are its steps.
LEMMA PromisedSteps ==
  ASSUME AcceptsTurn \/ PersistsTurns \/ AcceptsDurably \/ LosesTail \/ Stutters
  PROVE  [Promise!Next]_(Promise!vars)
<1>1. CASE AcceptsTurn
  BY <1>1 DEF AcceptsTurn, Accepted, Promise!Next, Promise!Accept
<1>2. CASE PersistsTurns
  BY <1>2 DEF PersistsTurns, Accepted, Promise!Next, Promise!Persist
<1>3. CASE AcceptsDurably
  BY <1>3 DEF AcceptsDurably, Accepted, Promise!Next, Promise!AcceptDurably
<1>4. CASE LosesTail
  BY <1>4 DEF LosesTail, Accepted, Promise!Next, Promise!Lose
<1>5. CASE Stutters
  BY <1>5 DEF Stutters, Accepted, Promise!vars
<1> QED BY <1>1, <1>2, <1>3, <1>4, <1>5

\* The payloads of messages put together.
LEMMA PayloadOf ==
  /\ \A s \in Seq(Message) : (\A i \in DOMAIN s : Entry(s[i])) =>
       Payload(s) \in Seq(Payloads) /\ Len(Payload(s)) = Len(s)
  /\ \A s, t \in Seq(Message) : Payload(s \o t) = Payload(s) \o Payload(t)
  /\ \A s \in Seq(Message), m \in Message : Payload(Append(s, m)) = Append(Payload(s), m.payload)
  /\ Payload(<<>>) = <<>>
<1>1. ASSUME NEW s \in Seq(Message), \A i \in DOMAIN s : Entry(s[i])
      PROVE  Payload(s) \in Seq(Payloads) /\ Len(Payload(s)) = Len(s)
  <2>1. \A i \in 1 .. Len(s) : s[i].payload \in Payloads
    BY <1>1 DEF Entry
  <2> QED BY <2>1 DEF Payload
<1> DEFINE P == {m.payload : m \in Message}
<1>2. ASSUME NEW s \in Seq(Message)
      PROVE  /\ Payload(s) \in Seq(P) /\ Len(Payload(s)) = Len(s)
             /\ \A i \in 1 .. Len(s) : Payload(s)[i] = s[i].payload
  BY DEF Payload
<1>3. ASSUME NEW s \in Seq(Message), NEW t \in Seq(Message)
      PROVE  Payload(s \o t) = Payload(s) \o Payload(t)
  <2>1. /\ s \o t \in Seq(Message) /\ Len(s \o t) = Len(s) + Len(t)
        /\ Len(s) \in Nat /\ Len(t) \in Nat
        /\ \A i \in 1 .. Len(s) + Len(t) :
             (s \o t)[i] = IF i <= Len(s) THEN s[i] ELSE t[i - Len(s)]
    OBVIOUS
  <2> HIDE DEF P
  <2>2. /\ Payload(s) \o Payload(t) \in Seq(P)
        /\ Len(Payload(s) \o Payload(t)) = Len(s) + Len(t)
        /\ \A i \in 1 .. Len(s) + Len(t) : (Payload(s) \o Payload(t))[i] =
             IF i <= Len(s) THEN Payload(s)[i] ELSE Payload(t)[i - Len(s)]
    <3>1. \A a, b \in Seq(P) :
            /\ a \o b \in Seq(P) /\ Len(a \o b) = Len(a) + Len(b)
            /\ \A i \in 1 .. Len(a) + Len(b) :
                 (a \o b)[i] = IF i <= Len(a) THEN a[i] ELSE b[i - Len(a)]
      OBVIOUS
    <3>2. /\ Payload(s) \in Seq(P) /\ Len(Payload(s)) = Len(s)
          /\ Payload(t) \in Seq(P) /\ Len(Payload(t)) = Len(t)
      BY <1>2
    <3> DEFINE a == Payload(s)
               b == Payload(t)
    <3>3. a \in Seq(P) /\ b \in Seq(P) /\ Len(a) = Len(s) /\ Len(b) = Len(t)
      BY <3>2
    <3> SUFFICES /\ a \o b \in Seq(P) /\ Len(a \o b) = Len(s) + Len(t)
                 /\ \A i \in 1 .. Len(s) + Len(t) :
                      (a \o b)[i] = IF i <= Len(s) THEN a[i] ELSE b[i - Len(s)]
      OBVIOUS
    <3> HIDE DEF a, b
    <3>4. /\ a \o b \in Seq(P) /\ Len(a \o b) = Len(a) + Len(b)
          /\ \A i \in 1 .. Len(a) + Len(b) :
               (a \o b)[i] = IF i <= Len(a) THEN a[i] ELSE b[i - Len(a)]
      BY <3>1, <3>3, Zenon
    <3> DEFINE ab == a \o b
    <3> HIDE DEF ab
    <3>5. /\ ab \in Seq(P) /\ Len(ab) = Len(s) + Len(t)
          /\ \A i \in 1 .. Len(s) + Len(t) :
               ab[i] = IF i <= Len(s) THEN a[i] ELSE b[i - Len(s)]
      <4>1. /\ ab \in Seq(P) /\ Len(ab) = Len(a) + Len(b)
            /\ \A i \in 1 .. Len(a) + Len(b) :
                 ab[i] = IF i <= Len(a) THEN a[i] ELSE b[i - Len(a)]
        BY <3>4 DEF ab
      <4> QED BY <3>3, <4>1
    <3> QED BY <3>5 DEF ab
  <2>3. \A i \in 1 .. Len(s) + Len(t) : Payload(s \o t)[i] = (s \o t)[i].payload
    BY <1>2, <2>1
  <2>4. ASSUME NEW i \in 1 .. Len(s) + Len(t)
        PROVE  (s \o t)[i].payload = (Payload(s) \o Payload(t))[i]
    <3>1. CASE i <= Len(s)
      <4>1. i \in 1 .. Len(s)
        BY <2>1, <3>1
      <4> QED BY <1>2, <2>1, <2>2, <3>1, <4>1
    <3>2. CASE ~(i <= Len(s))
      <4>1. i - Len(s) \in 1 .. Len(t)
        BY <2>1, <3>2
      <4>2. Payload(t)[i - Len(s)] = t[i - Len(s)].payload
        BY <1>2, <4>1
      <4>3. (s \o t)[i] = t[i - Len(s)] /\ (Payload(s) \o Payload(t))[i] = Payload(t)[i - Len(s)]
        BY <2>1, <2>2, <3>2
      <4> QED BY <4>2, <4>3
    <3> QED BY <3>1, <3>2
  <2>5. Payload(s \o t) \in Seq(P) /\ Len(Payload(s \o t)) = Len(s) + Len(t)
    BY <1>2, <2>1
  <2> QED BY <2>2, <2>3, <2>4, <2>5, SeqEqual
<1>4. ASSUME NEW s \in Seq(Message), NEW m \in Message
      PROVE  Payload(Append(s, m)) = Append(Payload(s), m.payload)
  <2>1. Payload(<<m>>) = <<m.payload>>
    BY DEF Payload
  <2>2. <<m>> \in Seq(Message) /\ m.payload \in P
    OBVIOUS
  <2> HIDE DEF P
  <2>3. Append(s, m) = s \o <<m>> /\ Append(Payload(s), m.payload) = Payload(s) \o <<m.payload>>
    BY <1>2, <2>2, AppendIsConcat
  <2> QED BY <1>3, <2>1, <2>2, <2>3
<1>5. Payload(<<>>) = <<>>
  BY DEF Payload
<1> QED BY <1>1, <1>3, <1>4, <1>5

\* What is in flight: messages that are turns.
LEMMA InFlightIs ==
  ASSUME TypeOK, MessagesSuit
  PROVE  /\ worker.pc # "mark" => InFlight = UnderWay
         /\ worker.pc = "mark" => InFlight = Turns(channel)
         /\ InFlight \in Seq(Message)
         /\ \A i \in DOMAIN InFlight : Entry(InFlight[i])
         /\ Accepted \in Seq(Payloads)
         /\ Len(Accepted) = Len(store.log) + Len(InFlight)
<1>1. /\ Turns(channel) \in Seq(Message) /\ UnderWay \in Seq(Message)
      /\ worker.pending \in Seq(Message) /\ channel \in Seq(Message) /\ store.log \in Seq(Payloads)
  BY UnderWayType, Fields
<1>2. /\ worker.pc # "mark" => InFlight = UnderWay
      /\ worker.pc = "mark" => InFlight = Turns(channel)
  <2>1. <<>> \o Turns(channel) = Turns(channel)
    BY <1>1, ConcatEmptySeq
  <2> QED BY <2>1 DEF InFlight, UnderWay
<1>3. \A n \in 1 .. Len(Turns(channel)) : Entry(Turns(channel)[n])
  <2>1. \A i \in DOMAIN channel : channel[i].kind = "turn" => Entry(channel[i])
    BY KindsDiffer DEF MessagesSuit
  <2> QED BY <1>1, <2>1, TurnsHold
<1>4. \A i \in DOMAIN UnderWay : Entry(UnderWay[i])
  <2>1. \A i \in 1 .. Len(worker.pending) : Entry(worker.pending[i])
    BY <1>1 DEF MessagesSuit
  <2> DEFINE n == Len(worker.pending)
             T == Turns(channel)
  <2>2. n \in Nat /\ Len(T) \in Nat /\ DOMAIN UnderWay = 1 .. n + Len(T)
    <3>1. Len(UnderWay) = n + Len(T)
      BY UnderWayType
    <3>2. DOMAIN UnderWay = 1 .. Len(UnderWay)
      BY <1>1
    <3> QED BY <1>1, <3>1, <3>2
  <2>3. /\ \A i \in 1 .. n : UnderWay[i] = worker.pending[i]
        /\ \A i \in 1 .. Len(T) : UnderWay[n + i] = T[i]
    BY UnderWayType
  <2> HIDE DEF n, T
  <2>4. ASSUME NEW i \in 1 .. n + Len(T), ~(i \in 1 .. n)
        PROVE  Entry(UnderWay[i])
    <3>1. i - n \in 1 .. Len(T) /\ n + (i - n) = i
      BY <2>2, <2>4
    <3>2. UnderWay[n + (i - n)] = T[i - n]
      BY <2>3, <3>1
    <3> QED BY <1>3, <3>1, <3>2 DEF T
  <2> QED BY <2>1, <2>2, <2>3, <2>4 DEF n
<1>5. InFlight \in Seq(Message) /\ \A i \in DOMAIN InFlight : Entry(InFlight[i])
  <2>1. CASE worker.pc = "mark"
    BY <1>1, <1>2, <1>3, <2>1
  <2>2. CASE worker.pc # "mark"
    BY <1>1, <1>2, <1>4, <2>2
  <2> QED BY <2>1, <2>2
<1>6. Payload(InFlight) \in Seq(Payloads) /\ Len(Payload(InFlight)) = Len(InFlight)
  BY <1>5, PayloadOf
<1>7. /\ Accepted \in Seq(Payloads)
      /\ Len(Accepted) = Len(store.log) + Len(InFlight)
  <2>1. \A a, b \in Seq(Payloads) : a \o b \in Seq(Payloads) /\ Len(a \o b) = Len(a) + Len(b)
    OBVIOUS
  <2> QED BY <1>1, <1>6, <2>1, Zenon DEF Accepted
<1> QED BY <1>2, <1>5, <1>7

\* An empty channel holds no turn.
LEMMA NoTurns == Turns(<<>>) = <<>>
<1>1. <<>> \in Seq(Message) /\ DOMAIN <<>> = {}
  OBVIOUS
<1> QED BY <1>1, TurnsHold, Zenon

\* A step that leaves the database and what is in flight alone.
LEMMA NothingMoves ==
  ASSUME store'.log = store.log, Turns(channel') = Turns(channel),
         (IF worker'.pc = "mark" THEN <<>> ELSE worker'.pending) =
           (IF worker.pc = "mark" THEN <<>> ELSE worker.pending)
  PROVE  Stutters
<1>1. InFlight' = InFlight
  BY DEF InFlight
<1> QED BY <1>1 DEF Stutters, Accepted

\* An accepted turn ends the log.
LEMMA EnqueueAccepts ==
  ASSUME CoordinatorInvariant, NEW c \in Callers, NEW p \in Payloads, Enqueue(c, p)
  PROVE  AcceptsTurn
<1>1. TypeOK /\ MessagesSuit
  BY DEF CoordinatorInvariant
<1> DEFINE m == Turn(admission.next, p)
           w == IF worker.pc = "mark" THEN <<>> ELSE worker.pending
<1>2. /\ m \in Message /\ m.kind = "turn" /\ m.payload = p
      /\ channel \in Seq(Message) /\ w \in Seq(Message) /\ Turns(channel) \in Seq(Message)
      /\ store.log \in Seq(Payloads)
  BY <1>1, Fields, UnderWayType, MessageTypes DEF Turn, Msg
<1>3. channel' = Append(channel, m) /\ worker' = worker /\ store' = store
  BY DEF Enqueue
<1> HIDE DEF m
<1>4. Turns(channel') = Append(Turns(channel), m)
  BY <1>2, <1>3, TurnsOfAppend
<1>5. InFlight' = w \o Append(Turns(channel), m) /\ InFlight = w \o Turns(channel)
  BY <1>3, <1>4 DEF InFlight
<1> HIDE DEF w
<1>6. InFlight' = Append(InFlight, m)
  BY <1>2, <1>5, AppendConcat
<1>7. InFlight \in Seq(Message) /\ Payload(InFlight) \in Seq(Payloads)
  BY <1>1, InFlightIs, PayloadOf
<1>8. Payload(InFlight') = Append(Payload(InFlight), p)
  BY <1>2, <1>6, <1>7, PayloadOf
<1>9. store.log \o Append(Payload(InFlight), p) = Append(store.log \o Payload(InFlight), p)
  <2>1. \A a, b \in Seq(Payloads) : a \o Append(b, p) = Append(a \o b, p)
    BY AppendConcat
  <2> QED BY <1>2, <1>7, <2>1, Zenon
<1> QED BY <1>3, <1>8, <1>9 DEF AcceptsTurn, Accepted

\* The other steps of a thread accept no turn.
LEMMA CallerPromises ==
  ASSUME CoordinatorInvariant, NEW c \in Callers, Caller(c)
  PROVE  AcceptsTurn \/ Stutters
<1>1. TypeOK /\ CallersSuit /\ channel \in Seq(Message)
  BY Fields DEF CoordinatorInvariant
<1>2. CASE \E p \in Payloads : Enqueue(c, p)
  BY <1>2, EnqueueAccepts
<1>3. ASSUME channel' = channel, worker' = worker, store' = store
      PROVE  Stutters
  BY <1>3, NothingMoves
<1>4. ASSUME NEW m \in Message, m.kind # "turn", channel' = Append(channel, m),
             worker' = worker, store' = store
      PROVE  Stutters
  <2>1. Turns(channel') = Turns(channel)
    BY <1>1, <1>4, TurnsOfAppend
  <2> QED BY <1>4, <2>1, NothingMoves
<1>5. CASE SendControl(c)
  <2>1. caller[c].request \in Message /\ caller[c].request.kind # "turn"
    BY <1>1, <1>5, Fields, KindsDiffer DEF CallersSuit, SendControl, Asking
  <2> QED BY <1>4, <1>5, <2>1 DEF SendControl
<1>6. CASE SendArtifact(c)
  <2>1. Artifact \in Message /\ Artifact.kind # "turn"
    BY MessageTypes DEF Artifact, Msg
  <2>2. CASE channel' = channel
    BY <1>3, <1>6, <2>2 DEF SendArtifact
  <2>3. CASE channel' = Append(channel, Artifact)
    BY <1>4, <1>6, <2>1, <2>3 DEF SendArtifact
  <2> QED BY <1>6, <2>2, <2>3 DEF SendArtifact
<1>7. CASE Reserve(c) \/ Request(c) \/ BeginArtifact(c) \/ Release(c) \/ EndControl(c)
             \/ DropCoordinator(c) \/ FindWorkerGone(c)
  BY <1>3, <1>7 DEF Reserve, Request, BeginControl, BeginArtifact, Release, EndControl,
     DropCoordinator, FindWorkerGone
<1> QED BY <1>2, <1>5, <1>6, <1>7 DEF Caller, Proceed

\* Messages the worker takes stay in flight.
LEMMA TakingPromises ==
  ASSUME CoordinatorInvariant,
         RecvTurn \/ RecvArtifact \/ RecvControl \/ RecvDeferred \/ Collect \/ EndCollect
           \/ FlushNothing \/ CompleteArtifacts \/ RecvDisconnected
  PROVE  Stutters
<1>1. /\ TypeOK /\ worker \in WorkerState /\ worker.pending \in Seq(Message)
      /\ channel \in Seq(Message) /\ Turns(channel) \in Seq(Message)
  BY Fields, UnderWayType DEF CoordinatorInvariant, TypeOK
<1>2. store' = store
  BY DEF RecvTurn, RecvArtifact, RecvControl, RecvDeferred, Collect, EndCollect, FlushNothing,
     CompleteArtifacts, RecvDisconnected
<1>3. ASSUME channel # <<>>, channel' = Tail(channel), Head(channel).kind = "turn",
             worker.pc # "mark", worker'.pc # "mark",
             worker'.pending = Append(worker.pending, Head(channel))
      PROVE  Stutters
  <2>1. Head(channel) \in Message /\ Tail(channel) \in Seq(Message)
    BY <1>1, <1>3, HeadAndTail
  <2>2. Turns(channel) = <<Head(channel)>> \o Turns(channel')
    BY <1>1, <1>3, TurnsOfTail
  <2>3. Turns(channel') \in Seq(Message)
    BY <1>3, <2>1, TurnsAtRank
  <2>4. \A s, t \in Seq(Message), h \in Message : Append(s, h) \o t = s \o (<<h>> \o t)
    BY AppendConcat
  <2>5. InFlight' = Append(worker.pending, Head(channel)) \o Turns(channel')
    BY <1>3 DEF InFlight
  <2>6. InFlight = worker.pending \o (<<Head(channel)>> \o Turns(channel'))
    BY <1>3, <2>2 DEF InFlight
  <2>7. InFlight' = InFlight
    BY <1>1, <2>1, <2>3, <2>4, <2>5, <2>6, Zenon
  <2> QED BY <1>2, <2>7 DEF Stutters, Accepted
<1>4. ASSUME channel # <<>>, channel' = Tail(channel), Head(channel).kind # "turn",
             worker.pc # "mark", worker'.pc # "mark", worker'.pending = worker.pending
      PROVE  Stutters
  <2>1. Turns(channel') = Turns(channel)
    BY <1>1, <1>4, TurnsOfTail
  <2> QED BY <1>2, <1>4, <2>1, NothingMoves
<1>5. ASSUME channel' = channel, worker.pc # "mark", worker'.pc # "mark",
             worker'.pending = worker.pending
      PROVE  Stutters
  BY <1>2, <1>5, NothingMoves
<1>6. CASE RecvTurn
  <2>1. /\ channel # <<>> /\ channel' = Tail(channel) /\ Head(channel).kind = "turn"
        /\ worker.pc # "mark" /\ worker'.pc # "mark"
        /\ worker'.pending = Append(worker.pending, Head(channel))
    BY <1>1, <1>6 DEF RecvTurn, TakesFromChannel, WorkerState
  <2> QED BY <1>3, <2>1
<1>7. CASE RecvArtifact
  <2>1. /\ channel # <<>> /\ channel' = Tail(channel) /\ Head(channel).kind # "turn"
        /\ worker.pc # "mark" /\ worker' = worker
    BY <1>7 DEF RecvArtifact, TakesFromChannel
  <2> QED BY <1>4, <2>1
<1>8. CASE RecvControl
  <2>1. /\ channel # <<>> /\ channel' = Tail(channel) /\ Head(channel).kind \in Control
        /\ worker.pc # "mark" /\ worker'.pc # "mark" /\ worker'.pending = worker.pending
    BY <1>1, <1>8 DEF RecvControl, TakesFromChannel, WorkerState
  <2>2. "turn" \notin Control
    BY DEF Control, Query, Immediate, Activate, Shutdown, Disconnect
  <2> QED BY <1>4, <2>1, <2>2
<1>9. CASE Collect
  <2>1. /\ channel # <<>> /\ channel' = Tail(channel) /\ worker.pc # "mark"
    BY <1>9 DEF Collect
  <2>2. CASE Head(channel).kind = "turn"
    <3>1. worker'.pc # "mark" /\ worker'.pending = Append(worker.pending, Head(channel))
      BY <1>1, <1>9, <2>1, <2>2 DEF Collect, WorkerState
    <3> QED BY <1>3, <2>1, <2>2, <3>1
  <2>3. CASE Head(channel).kind # "turn"
    <3>1. worker'.pc # "mark" /\ worker'.pending = worker.pending
      <4>1. CASE Head(channel).kind = "artifact"
        BY <1>1, <1>9, <2>1, <2>3, <4>1 DEF Collect, WorkerState
      <4>2. CASE Head(channel).kind # "artifact"
        BY <1>1, <1>9, <2>1, <2>3, <4>2 DEF Collect, WorkerState
      <4> QED BY <4>1, <4>2
    <3> QED BY <1>4, <2>1, <2>3, <3>1
  <2> QED BY <2>2, <2>3
<1>10. CASE RecvDeferred \/ EndCollect \/ FlushNothing \/ CompleteArtifacts \/ RecvDisconnected
  <2>1. /\ channel' = channel /\ worker.pc # "mark" /\ worker'.pc # "mark"
        /\ worker'.pending = worker.pending
    BY <1>1, <1>10 DEF RecvDeferred, EndCollect, FlushNothing, CompleteArtifacts, RecvDisconnected,
       AfterFlush, WorkerState
  <2> QED BY <1>5, <2>1
<1> QED BY <1>6, <1>7, <1>8, <1>9, <1>10

\* A commit makes the batch durable, and its acknowledgement is not seen.
LEMMA CommitPromises ==
  ASSUME CoordinatorInvariant, Commit \/ MarkDurable
  PROVE  PersistsTurns \/ Stutters
<1>1. /\ TypeOK /\ MessagesSuit /\ worker \in WorkerState
      /\ worker.pending \in Seq(Message) /\ store.log \in Seq(Payloads)
      /\ channel \in Seq(Message) /\ Turns(channel) \in Seq(Message)
  BY Fields, UnderWayType DEF CoordinatorInvariant, TypeOK
<1>2. \A s \in Seq(Message) : <<>> \o s = s
  BY ConcatEmptySeq
<1>3. CASE MarkDurable
  <2>1. /\ channel' = channel /\ store' = store /\ worker.pc = "mark" /\ worker'.pc # "mark"
        /\ worker'.pending = <<>>
    BY <1>1, <1>3 DEF MarkDurable, AfterFlush, WorkerState
  <2> QED BY <2>1, NothingMoves
<1>4. CASE Commit
  <2> DEFINE b == Payload(worker.pending)
             r == Payload(Turns(channel))
  <2>1. /\ worker.pc = "flush" /\ worker'.pc = "mark" /\ channel' = channel
        /\ worker.pending # <<>> /\ store'.log = store.log \o b
    BY <1>1, <1>4 DEF Commit, WorkerState, TypeOK, Payload
  <2>2. InFlight = worker.pending \o Turns(channel) /\ InFlight' = Turns(channel)
    BY <1>1, <1>2, <2>1 DEF InFlight
  <2>3. b \in Seq(Payloads) /\ r \in Seq(Payloads) /\ Len(b) = Len(worker.pending)
    <3>1. \A i \in DOMAIN worker.pending : Entry(worker.pending[i])
      BY <1>1 DEF MessagesSuit
    <3>2. \A n \in DOMAIN Turns(channel) : Entry(Turns(channel)[n])
      <4>1. \A i \in DOMAIN channel : channel[i].kind = "turn" => Entry(channel[i])
        BY <1>1, KindsDiffer DEF MessagesSuit
      <4> QED BY <1>1, <4>1, TurnsHold
    <3> QED BY <1>1, <3>1, <3>2, PayloadOf
  <2>4. Payload(InFlight) = b \o r /\ Payload(InFlight') = r
    BY <1>1, <2>2, PayloadOf
  <2>5. Len(b) \in Nat \ {0}
    BY <1>1, <2>1, <2>3
  <2> HIDE DEF b, r
  <2>6. /\ \A x, y, z \in Seq(Payloads) : (x \o y) \o z = x \o (y \o z)
        /\ \A x, y, z \in Seq(Payloads) :
             Len(y) # 0 => Len(x \o y) \in Len(x) + 1 .. Len(x \o (y \o z))
    <3>1. ASSUME NEW x \in Seq(Payloads), NEW y \in Seq(Payloads), NEW z \in Seq(Payloads)
          PROVE  Len(x \o y) = Len(x) + Len(y) /\ Len(x \o (y \o z)) = Len(x) + (Len(y) + Len(z))
      OBVIOUS
    <3>2. \A x \in Seq(Payloads) : Len(x) \in Nat
      OBVIOUS
    <3>3. \A l, m, n \in Nat : m # 0 => l + m \in l + 1 .. l + (m + n)
      OBVIOUS
    <3> QED BY SMTT(60), <3>1, <3>2, <3>3, ConcatAssociative
  <2>7. Accepted' = (store.log \o b) \o r /\ Accepted = store.log \o (b \o r)
    BY <2>1, <2>4 DEF Accepted
  <2>8. Accepted' = Accepted
    BY <1>1, <2>3, <2>6, <2>7, Zenon
  <2>9. Len(store.log \o b) \in Len(store.log) + 1 .. Len(store.log \o (b \o r))
    BY <1>1, <2>3, <2>5, <2>6
  <2> QED BY <2>1, <2>7, <2>8, <2>9 DEF PersistsTurns
<1> QED BY <1>3, <1>4

\* A request that commits writes nothing or one turn, after all the others.
LEMMA ControlPromises ==
  ASSUME CoordinatorInvariant,
         FlushFails \/ AnswerQuery \/ RefuseControl \/ FailControl \/ CommitControl
           \/ AcknowledgeControl \/ ShutDown \/ ShutDownDropped
  PROVE  AcceptsDurably \/ Stutters
<1>1. /\ TypeOK /\ MessagesSuit /\ StepsSuit /\ RequestIsLast /\ worker \in WorkerState
      /\ worker.pending \in Seq(Message) /\ store.log \in Seq(Payloads)
      /\ store \in [log : Seq(Payloads), epoch : Nat, open : BOOLEAN]
      /\ worker.current.payload \in Payloads \cup {None}
  BY Fields DEF CoordinatorInvariant, TypeOK
<1>2. ASSUME channel' = channel, worker.pc # "mark", worker'.pc # "mark",
             worker'.pending = worker.pending, store'.log = store.log
      PROVE  Stutters
  BY <1>2, NothingMoves
<1>3. CASE CommitControl
  <2>1. /\ channel' = channel /\ worker.pc = "control" /\ worker'.pc # "mark"
        /\ worker'.pending = worker.pending /\ worker.current.kind \in {Immediate, Activate}
    BY <1>1, <1>3 DEF CommitControl, Handling, WorkerState
  <2>2. worker.current # NoMessage /\ worker.pending = <<>>
    BY <1>1, <2>1 DEF StepsSuit, Immediate, Activate, Disconnect
  <2>3. Turns(channel) = <<>>
    BY <1>1, <2>2, NoTurnBehind
  <2>4. CASE worker.current.payload = None
    <3>1. store'.log = store.log
      BY <1>1, <1>3, <2>4 DEF CommitControl
    <3> QED BY <1>2, <2>1, <3>1
  <2>5. CASE worker.current.payload # None
    <3> DEFINE p == worker.current.payload
    <3>1. store'.log = Append(store.log, p) /\ p \in Payloads
      BY <1>1, <1>3, <2>5 DEF CommitControl
    <3>2. InFlight = <<>> \o <<>> /\ InFlight' = <<>> \o <<>>
      BY <2>1, <2>2, <2>3 DEF InFlight
    <3>3. InFlight = <<>> /\ InFlight' = <<>>
      BY <3>2
    <3>4. Accepted = store.log \o <<>> /\ Accepted' = Append(store.log, p) \o <<>>
      BY <3>1, <3>3, PayloadOf DEF Accepted
    <3> HIDE DEF p
    <3>5. \A s \in Seq(Payloads) : s \o <<>> = s
      BY ConcatEmptySeq
    <3>6. Append(store.log, p) \in Seq(Payloads)
      BY <1>1, <3>1
    <3>7. Accepted = store.log /\ Accepted' = Append(store.log, p)
      BY <1>1, <3>4, <3>5, <3>6, Zenon
    <3>8. Len(store'.log) = Len(store.log) + 1
      BY <1>1, <3>1
    <3> QED BY <3>1, <3>7, <3>8 DEF AcceptsDurably
  <2> QED BY <2>4, <2>5
<1>4. CASE FlushFails
  <2>1. /\ channel' = channel /\ worker.pc # "mark" /\ worker'.pc # "mark"
        /\ worker'.pending = worker.pending /\ store' = store
    BY <1>1, <1>4 DEF FlushFails, WorkerState
  <2> QED BY <1>2, <2>1
<1>5. CASE AnswerQuery \/ RefuseControl \/ FailControl \/ AcknowledgeControl
  <2>1. /\ channel' = channel /\ worker.pc # "mark" /\ worker'.pc # "mark"
        /\ worker'.pending = worker.pending /\ store' = store
    BY <1>1, <1>5 DEF AnswerQuery, RefuseControl, FailControl, AcknowledgeControl, Refused,
       Handling, Handled, WorkerState
  <2> QED BY <1>2, <2>1
<1>6. CASE ShutDown \/ ShutDownDropped
  <2>1. /\ channel' = channel /\ worker.pc # "mark" /\ worker'.pc # "mark"
        /\ worker'.pending = worker.pending /\ store'.log = store.log
    BY <1>1, <1>6 DEF ShutDown, ShutDownDropped, Handling, Handled, WorkerState
  <2> QED BY <1>2, <2>1
<1> QED BY <1>3, <1>4, <1>5, <1>6

\* What is in flight, and nothing else, is lost when the worker ends or the
\* process does.
LEMMA EndPromises ==
  ASSUME CoordinatorInvariant, ExitLoop \/ Restart
  PROVE  LosesTail \/ Stutters
<1>1. /\ TypeOK /\ MessagesSuit /\ worker \in WorkerState /\ store.log \in Seq(Payloads)
      /\ store \in [log : Seq(Payloads), epoch : Nat, open : BOOLEAN]
      /\ InFlight \in Seq(Message) /\ Payload(InFlight) \in Seq(Payloads)
      /\ Len(Payload(InFlight)) = Len(InFlight)
  BY Fields, InFlightIs, PayloadOf DEF CoordinatorInvariant, TypeOK
<1>2. ASSUME channel' = <<>>, worker'.pc # "mark", worker'.pending = <<>>, store'.log = store.log
      PROVE  LosesTail \/ Stutters
  <2> DEFINE r == Payload(InFlight)
  <2>1. Turns(channel') = <<>>
    BY <1>2, NoTurns
  <2>2. InFlight' = <<>>
    BY <1>2, <2>1 DEF InFlight
  <2>3. \A s \in Seq(Payloads) : s \o <<>> = s
    BY ConcatEmptySeq
  <2>4. Accepted' = store.log
    BY <1>1, <1>2, <2>2, <2>3, PayloadOf DEF Accepted
  <2>5. Accepted = store.log \o r /\ r \in Seq(Payloads)
    BY <1>1 DEF Accepted
  <2> HIDE DEF r
  <2>6. \A s, t \in Seq(Payloads) :
          IF t = <<>> THEN s \o t = s
                      ELSE Len(s) < Len(s \o t) /\ SubSeq(s \o t, 1, Len(s)) = s
    <3> SUFFICES ASSUME NEW s \in Seq(Payloads), NEW t \in Seq(Payloads), t # <<>>
                 PROVE  Len(s) < Len(s \o t) /\ SubSeq(s \o t, 1, Len(s)) = s
      BY <2>3
    <3> DEFINE u == s \o t
    <3>1. /\ u \in Seq(Payloads) /\ Len(u) = Len(s) + Len(t) /\ Len(s) \in Nat
          /\ Len(t) \in Nat \ {0} /\ \A i \in 1 .. Len(s) : u[i] = s[i]
      OBVIOUS
    <3> HIDE DEF u
    <3>2. SubSeq(u, 1, Len(s)) = s
      BY <3>1
    <3>3. Len(s) < Len(u)
      BY <3>1
    <3> QED BY <3>2, <3>3 DEF u
  <2>7. CASE r = <<>>
    <3>1. Accepted = store.log
      BY <1>1, <2>5, <2>6, <2>7
    <3> QED BY <1>2, <2>4, <3>1 DEF Stutters
  <2>8. CASE r # <<>>
    <3>1. Len(store.log) < Len(Accepted) /\ SubSeq(Accepted, 1, Len(store.log)) = store.log
      BY <1>1, <2>5, <2>6, <2>8
    <3> QED BY <1>2, <2>4, <3>1 DEF LosesTail
  <2> QED BY <2>7, <2>8
<1>3. CASE Restart
  <2>1. /\ channel' = <<>> /\ worker'.pc # "mark" /\ worker'.pending = <<>>
        /\ store'.log = store.log
    BY <1>1, <1>3 DEF Restart, Working
  <2> QED BY <1>2, <2>1
<1>4. CASE ExitLoop /\ admission.alive
  <2>1. channel' = channel /\ worker' = worker /\ store' = store
    BY <1>4 DEF ExitLoop
  <2> QED BY <2>1, NothingMoves
<1>5. CASE ExitLoop /\ ~admission.alive
  <2>1. /\ channel' = <<>> /\ worker'.pc # "mark" /\ worker'.pending = <<>> /\ store' = store
    BY <1>1, <1>5 DEF ExitLoop, WorkerState
  <2> QED BY <1>2, <2>1
<1> QED BY <1>3, <1>4, <1>5

\* The initial state of the coordinator is one of DurableTurns.
LEMMA PromiseInit == Init => Promise!Init
<1> SUFFICES ASSUME Init PROVE Accepted = <<>> /\ Len(store.log) = 0
  BY DEF Promise!Init, Accepted
<1>1. /\ channel = <<>> /\ worker.pc # "mark" /\ worker.pending = <<>> /\ store.log = <<>>
  BY DEF Init, Working
<1>2. Turns(channel) = <<>>
  BY <1>1, NoTurns
<1>3. InFlight = <<>>
  BY <1>1, <1>2 DEF InFlight
<1> QED BY <1>1, <1>3, PayloadOf DEF Accepted

\* Every step is one of DurableTurns or changes none of its variables.
LEMMA PromiseStep ==
  CoordinatorInvariant /\ [Next]_vars => [Promise!Next]_(Promise!vars)
<1> SUFFICES ASSUME CoordinatorInvariant, [Next]_vars
             PROVE  AcceptsTurn \/ PersistsTurns \/ AcceptsDurably \/ LosesTail \/ Stutters
  BY PromisedSteps
<1>1. CASE UNCHANGED vars
  BY <1>1, NothingMoves DEF vars
<1>2. ASSUME NEW c \in Callers, Caller(c) PROVE AcceptsTurn \/ Stutters
  BY <1>2, CallerPromises
<1>3. CASE Worker
  BY <1>3, TakingPromises, CommitPromises, ControlPromises, EndPromises DEF Worker
<1>4. CASE Restart
  BY <1>4, EndPromises
<1> QED BY <1>1, <1>2, <1>3, <1>4 DEF Next

\* The coordinator implements DurableTurns: whatever is batched, retried,
\* refused or lost, the database holds a prefix of the turns accepted, in the
\* order they were accepted.
THEOREM KeepsPromise == Spec => KeepsItsPromise
<1>1. Init => Promise!Init
  BY PromiseInit
<1>2. CoordinatorInvariant /\ [Next]_vars => [Promise!Next]_(Promise!vars)
  BY PromiseStep
<1> QED BY <1>1, <1>2, CoordinatorInit, CoordinatorStep, PTL DEF Spec, KeepsItsPromise, Promise!Spec
=============================================================================
