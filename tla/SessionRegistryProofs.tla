----------------------- MODULE SessionRegistryProofs -----------------------
(***************************************************************************)
(* Proofs about SessionRegistry: the accounts of the registry are true,    *)
(* nothing is lost between a Session and the Server until the Session is   *)
(* resumed, and the total reaches every Session.                           *)
(***************************************************************************)
EXTENDS SessionRegistry, Sums, SequenceTheorems

-----------------------------------------------------------------------------
(* The invariant, of one slot with its Session and its origin *)

CallKinds == {"request", "detach"}
OutKinds == CallKinds \cup {"event", "invoke"}
PendingKinds == {"shared", "result", "answer"}

\* The revisions of q are those after a up to b, in order.
Numbered(q, a, b) ==
  /\ a + Len(q) = b
  /\ \A i \in 1 .. Len(q) : q[i].rev = a + i

\* The slot's counter is true, and it holds no more than it reserved.
LoadSuits(sl) ==
  /\ sl.bytes = SumBytes(sl.pending)
  /\ sl.bytes <= MaxBytes
  /\ Len(sl.inbound) <= MaxBytes
  /\ sl.state = "free" => sl.inbound = << >> /\ sl.bytes = 0

\* What is queued in which direction; a Session without a tab has nothing
\* to say, and only the total waits for it.
QueuesSuit(sl, ss) ==
  /\ \A i \in 1 .. Len(sl.pending) : sl.pending[i].kind \in PendingKinds
  /\ \A i \in 1 .. Len(ss.out) : ss.out[i].kind \in OutKinds
  /\ AckedBy(sl.inbound) <= ss.unacked
  /\ sl.state # "connected" =>
       /\ sl.inbound = << >> /\ ss.out = << >>
       /\ \A i \in 1 .. Len(sl.pending) : sl.pending[i].kind = "shared"
  /\ sl.state # "free" => ss.generation >= 1

\* The queued call is the Session's last, and news to the Server.
CallsSuit(ss, os) ==
  LET calls == OfKinds(ss.out, CallKinds)
  IN /\ os.demand <= ss.demand
     /\ Len(calls) <= 1
     /\ Len(calls) = 1 =>
          /\ calls[1].rev = ss.demand /\ os.demand < ss.demand
          /\ calls[1].kind = "request" => ss.live /\ calls[1].value = <<ss.count>>
          /\ calls[1].kind = "detach" => ~ss.live

\* The pending result is the Server's last, or of a call it has dropped.
ResultsSuit(sl, os) ==
  LET results == OfKinds(sl.pending, {"result"})
  IN /\ os.active => os.result >= 1
     /\ Len(results) <= 1
     /\ Len(results) = 1 =>
          IF os.active THEN results[1] = Result(os) ELSE results[1].rev < os.demand

\* A result the Session has accepted for its current call.
GotSuits(ss, os) ==
  ss.got > 0 => /\ os.active /\ os.demand = ss.demand /\ ss.got <= os.result
                /\ ss.got = os.result => ss.value = os.value

\* The total is accepted or pending.
TotalSuits(sl, ss, total) ==
  LET queued == OfKinds(sl.pending, {"shared"})
      known == IF ss.total = << >> THEN 0 ELSE ss.total[1] + 1
  IN sl.state # "free" =>
       IF queued = << >> THEN known = total + 1
       ELSE queued = <<Shared(total)>> /\ known < total + 1

\* Nothing is lost before the first resumption.
FirstSuits(sl, ss, os) ==
  (ss.generation = 1 /\ sl.state = "connected") =>
     /\ Numbered(OfKinds(ss.out, {"event"}), os.events, ss.events)
     /\ Numbered(OfKinds(ss.out, {"invoke"}), os.asked, ss.asked)
     /\ Numbered(OfKinds(sl.pending, {"answer"}), ss.answered, os.asked)
     /\ OfKinds(ss.out, CallKinds) = << >> =>
          /\ os.demand = ss.demand /\ os.active = ss.live
          /\ os.active => os.argument = ss.count
          /\ os.active /\ OfKinds(sl.pending, {"result"}) = << >>
               => ss.got = os.result /\ ss.value = os.value

Suits(sl, ss, os, total) ==
  /\ sl \in SlotState /\ ss \in SessionState /\ os \in OriginState
  /\ LoadSuits(sl) /\ QueuesSuit(sl, ss)
  /\ CallsSuit(ss, os) /\ ResultsSuit(sl, os) /\ GotSuits(ss, os)
  /\ TotalSuits(sl, ss, total) /\ FirstSuits(sl, ss, os)

\* What each slot has queued, as the registry counts it.
Loads(ps) == [s \in Slots |-> Len(ps[s].inbound) * FrameBytes + ps[s].bytes]

SlotsInvariant ==
  /\ TypeOK
  /\ globalBytes = SumOfSlots(Loads(slots))
  /\ SequencesHoldUntilResume
  /\ \A s \in Slots : Suits(slots[s], sessions[s], origins[s], shared)

-----------------------------------------------------------------------------
(* Sequences and their messages of some kinds *)

\* Induction over sequences: by the least length of one that is missing.
LEMMA EverySequence ==
  ASSUME NEW T, NEW G, << >> \in G, \A q \in Seq(T), x \in T : q \in G => Append(q, x) \in G
  PROVE  \A q \in Seq(T) : q \in G
<1> DEFINE Bad == {n \in Nat : \E q \in Seq(T) : Len(q) = n /\ q \notin G}
<1>1. Bad = {}
  <2> SUFFICES ASSUME NEW m \in Bad, \A k \in Bad : m <= k PROVE FALSE
    <3>1. Bad \in SUBSET Nat
      OBVIOUS
    <3> HIDE DEF Bad
    <3> QED BY <3>1, LeastNumber
  <2>1. PICK q \in Seq(T) : Len(q) = m /\ q \notin G
    OBVIOUS
  <2>2. PICK p \in Seq(T), x \in T : q = Append(p, x)
    BY <2>1, SequenceEmptyOrAppend
  <2>3. Len(q) = Len(p) + 1 /\ Len(p) \in Nat
    BY <2>2
  <2>4. p \notin G
    BY <2>1, <2>2
  <2>5. Len(p) \in Bad
    BY <2>3, <2>4
  <2>6. m <= Len(p)
    <3> HIDE DEF Bad
    <3> QED BY <2>5
  <2> QED BY <2>1, <2>3, <2>6
<1> QED
  <2> SUFFICES ASSUME NEW q \in Seq(T), q \notin G PROVE FALSE
    OBVIOUS
  <2>1. Len(q) \in Nat
    OBVIOUS
  <2>2. Len(q) \in Bad
    BY <2>1
  <2> HIDE DEF Bad
  <2> QED BY <1>1, <2>2

IsKept(g, q, K, D) ==
  g = [n \in D |-> IF n = 0 THEN << >>
                   ELSE IF q[n].kind \in K THEN Append(g[n - 1], q[n]) ELSE g[n - 1]]

\* What OfKinds counts up exists: by the least length for which it would not.
LEMMA KeptExists ==
  ASSUME NEW q, NEW K, NEW N \in Nat
  PROVE  \E g : IsKept(g, q, K, 0 .. N)
<1> DEFINE Bad == {n \in Nat : ~ \E g : IsKept(g, q, K, 0 .. n)}
<1>1. Bad = {}
  <2> SUFFICES ASSUME NEW m \in Bad, \A k \in Bad : m <= k PROVE FALSE
    <3>1. Bad \in SUBSET Nat
      OBVIOUS
    <3> HIDE DEF Bad
    <3> QED BY <3>1, LeastNumber
  <2>1. m \in Nat /\ ~ \E g : IsKept(g, q, K, 0 .. m)
    OBVIOUS
  <2>2. CASE m = 0
    <3> DEFINE g == [n \in 0 .. 0 |-> << >>]
    <3>1. IsKept(g, q, K, 0 .. 0)
      BY DEF IsKept
    <3> QED BY <2>1, <2>2, <3>1
  <2>3. CASE m # 0
    <3>1. m - 1 \in Nat /\ m - 1 \notin Bad
      <4>1. m - 1 \in Nat /\ ~ (m <= m - 1)
        BY <2>1, <2>3
      <4> HIDE DEF Bad
      <4> QED BY <4>1
    <3>2. PICK k : IsKept(k, q, K, 0 .. m - 1)
      BY <3>1
    <3> DEFINE Next1(h, n) == IF n = 0 THEN << >>
                              ELSE IF q[n].kind \in K THEN Append(h[n - 1], q[n]) ELSE h[n - 1]
               g == [n \in 0 .. m |-> Next1(k, n)]
    <3>3. ASSUME NEW n \in 0 .. m - 1 PROVE k[n] = g[n]
      <4>1. n \in 0 .. m
        BY <2>1
      <4>2. k[n] = Next1(k, n)
        BY <3>2 DEF IsKept
      <4> QED BY <4>1, <4>2
    <3>4. ASSUME NEW n \in 0 .. m PROVE g[n] = Next1(g, n)
      <4>1. CASE n = 0
        BY <4>1
      <4>2. CASE n # 0
        <5>1. n - 1 \in 0 .. m - 1
          BY <2>1, <4>2
        <5>2. k[n - 1] = g[n - 1]
          BY <3>3, <5>1
        <5>3. g[n] = Next1(k, n)
          OBVIOUS
        <5> HIDE DEF g
        <5> QED BY <5>2, <5>3
      <4> QED BY <4>1, <4>2
    <3>5. g = [n \in 0 .. m |-> g[n]]
      OBVIOUS
    <3> HIDE DEF g
    <3>6. IsKept(g, q, K, 0 .. m)
      BY <3>4, <3>5 DEF IsKept
    <3> QED BY <2>1, <3>6
  <2> QED BY <2>2, <2>3
<1> QED BY <1>1

\* OfKinds takes one of those functions.
LEMMA OfKindsIsKept ==
  ASSUME NEW q, NEW K, Len(q) \in Nat
  PROVE  \E g : IsKept(g, q, K, 0 .. Len(q)) /\ OfKinds(q, K) = g[Len(q)]
<1> DEFINE g == CHOOSE h : IsKept(h, q, K, 0 .. Len(q))
<1>1. \E h : IsKept(h, q, K, 0 .. Len(q))
  BY KeptExists
<1>2. IsKept(g, q, K, 0 .. Len(q))
  BY <1>1, Zenon
<1>3. OfKinds(q, K) = g[Len(q)]
  BY DEF OfKinds, IsKept
<1> QED BY <1>2, <1>3

\* Nothing of nothing.
LEMMA OfKindsEmpty ==
  ASSUME NEW K PROVE OfKinds(<< >>, K) = << >>
<1>1. Len(<< >>) = 0
  OBVIOUS
<1>2. PICK g : IsKept(g, << >>, K, 0 .. 0) /\ OfKinds(<< >>, K) = g[0]
  BY <1>1, OfKindsIsKept
<1> QED BY <1>2 DEF IsKept

\* One message more.
LEMMA OfKindsAppend ==
  ASSUME NEW T, NEW q \in Seq(T), NEW x \in T, NEW K
  PROVE  OfKinds(Append(q, x), K)
           = IF x.kind \in K THEN Append(OfKinds(q, K), x) ELSE OfKinds(q, K)
<1> DEFINE r == Append(q, x)
           N == Len(q)
<1>1. N \in Nat /\ Len(r) = N + 1 /\ r[N + 1] = x /\ \A i \in 1 .. N : r[i] = q[i]
  OBVIOUS
<1>2. PICK g : IsKept(g, q, K, 0 .. N) /\ OfKinds(q, K) = g[N]
  BY <1>1, OfKindsIsKept
<1>3. PICK h : IsKept(h, r, K, 0 .. N + 1) /\ OfKinds(r, K) = h[N + 1]
  <2>1. Len(r) = N + 1 /\ Len(r) \in Nat
    BY <1>1
  <2> HIDE DEF r, N
  <2> QED BY <2>1, OfKindsIsKept
<1> HIDE DEF r, N
<1>g. \A n \in 0 .. N : g[n] = IF n = 0 THEN << >>
                   ELSE IF q[n].kind \in K THEN Append(g[n - 1], q[n]) ELSE g[n - 1]
  BY <1>2 DEF IsKept
<1>h. \A n \in 0 .. N + 1 : h[n] = IF n = 0 THEN << >>
                   ELSE IF r[n].kind \in K THEN Append(h[n - 1], r[n]) ELSE h[n - 1]
  BY <1>3 DEF IsKept
<1> DEFINE Bad == {n \in Nat : n <= N /\ g[n] # h[n]}
<1>4. Bad = {}
  <2> SUFFICES ASSUME NEW m \in Bad, \A k \in Bad : m <= k PROVE FALSE
    <3>1. Bad \in SUBSET Nat
      OBVIOUS
    <3> HIDE DEF Bad
    <3> QED BY <3>1, LeastNumber
  <2>1. m \in Nat /\ m <= N /\ g[m] # h[m]
    OBVIOUS
  <2>2. CASE m = 0
    <3>1. 0 \in 0 .. N /\ 0 \in 0 .. N + 1
      BY <1>1
    <3> QED BY <2>1, <2>2, <3>1, <1>g, <1>h
  <2>3. CASE m # 0
    <3>1. m - 1 \in Nat /\ m - 1 <= N /\ m - 1 \notin Bad
      <4>1. m - 1 \in Nat /\ m - 1 <= N /\ ~ (m <= m - 1)
        BY <1>1, <2>1, <2>3
      <4> HIDE DEF Bad
      <4> QED BY <4>1
    <3>2. g[m - 1] = h[m - 1]
      BY <3>1
    <3>3. m \in 0 .. N /\ m \in 0 .. N + 1 /\ r[m] = q[m]
      BY <1>1, <2>1, <2>3
    <3> QED BY <2>1, <2>3, <3>2, <3>3, <1>g, <1>h
  <2> QED BY <2>2, <2>3
<1>5. g[N] = h[N]
  BY <1>1, <1>4
<1>6. h[N + 1] = IF r[N + 1].kind \in K THEN Append(h[N], r[N + 1]) ELSE h[N]
  <2>1. N + 1 \in 0 .. N + 1 /\ N + 1 # 0 /\ (N + 1) - 1 = N
    BY <1>1
  <2> QED BY <1>h, <2>1
<1> QED BY <1>1, <1>2, <1>3, <1>5, <1>6 DEF r

\* The messages kept are messages of the queue, of those kinds, no more than
\* there were.
LEMMA OfKindsType ==
  ASSUME NEW T, NEW q \in Seq(T), NEW K
  PROVE  /\ OfKinds(q, K) \in Seq(T)
         /\ Len(OfKinds(q, K)) <= Len(q)
         /\ \A i \in 1 .. Len(OfKinds(q, K)) :
              /\ OfKinds(q, K)[i].kind \in K
              /\ \E j \in 1 .. Len(q) : OfKinds(q, K)[i] = q[j]
<1> DEFINE Good(p) ==
      /\ OfKinds(p, K) \in Seq(T)
      /\ Len(OfKinds(p, K)) <= Len(p)
      /\ \A i \in 1 .. Len(OfKinds(p, K)) :
           /\ OfKinds(p, K)[i].kind \in K
           /\ \E j \in 1 .. Len(p) : OfKinds(p, K)[i] = p[j]
    G == {p \in Seq(T) : Good(p)}
<1>1. << >> \in G
  <2>1. OfKinds(<< >>, K) = << >> /\ << >> \in Seq(T) /\ Len(<< >>) = 0
    BY OfKindsEmpty
  <2>2. 1 .. Len(OfKinds(<< >>, K)) = {}
    BY <2>1
  <2>0. 0 <= 0
    OBVIOUS
  <2>3. OfKinds(<< >>, K) \in Seq(T) /\ Len(OfKinds(<< >>, K)) <= Len(<< >>)
    BY <2>0, <2>1, Zenon
  <2>4. \A i \in 1 .. Len(OfKinds(<< >>, K)) : FALSE
    BY <2>2
  <2> QED BY <2>1, <2>3, <2>4, Zenon
<1>2. ASSUME NEW p \in Seq(T), NEW x \in T, p \in G PROVE Append(p, x) \in G
  <2> DEFINE o == OfKinds(p, K)
             r == Append(p, x)
  <2>1. Good(p)
    BY <1>2
  <2>2. OfKinds(r, K) = IF x.kind \in K THEN Append(o, x) ELSE o
    BY OfKindsAppend
  <2>3. r \in Seq(T) /\ Len(r) = Len(p) + 1 /\ r[Len(p) + 1] = x /\ Len(p) \in Nat
        /\ \A i \in 1 .. Len(p) : r[i] = p[i]
    OBVIOUS
  <2>4. \A i \in 1 .. Len(p) : i \in 1 .. Len(r)
    BY <2>3
  <2>5. Len(p) + 1 \in 1 .. Len(r)
    BY <2>3
  <2>6. o \in Seq(T) /\ Len(o) <= Len(p) /\ Len(o) \in Nat
    BY <2>1
  <2>7. \A i \in 1 .. Len(o) : o[i].kind \in K /\ \E j \in 1 .. Len(r) : o[i] = r[j]
    BY <2>1, <2>3, <2>4
  <2> HIDE DEF r, o
  <2>8. CASE x.kind \in K
    <3> DEFINE a == Append(o, x)
    <3>1. a \in Seq(T) /\ Len(a) = Len(o) + 1 /\ a[Len(o) + 1] = x
          /\ \A i \in 1 .. Len(o) : a[i] = o[i]
      BY <2>6
    <3> HIDE DEF a
    <3>2. Len(a) <= Len(r)
      BY <2>3, <2>6, <3>1
    <3>3. ASSUME NEW i \in 1 .. Len(a) PROVE a[i].kind \in K /\ \E j \in 1 .. Len(r) : a[i] = r[j]
      <4>1. i \in 1 .. Len(o) \/ i = Len(o) + 1
        BY <2>6, <3>1
      <4> QED BY <4>1, <3>1, <2>7, <2>3, <2>5, <2>8
    <3>4. OfKinds(r, K) = a
      BY <2>2, <2>8 DEF a
    <3>5. Good(r)
      BY <3>1, <3>2, <3>3, <3>4
    <3> QED BY <2>3, <3>5 DEF r
  <2>9. CASE x.kind \notin K
    <3>1. OfKinds(r, K) = o
      BY <2>2, <2>9
    <3>2. Len(o) <= Len(r)
      BY <2>3, <2>6
    <3>3. Good(r)
      BY <2>6, <2>7, <3>1, <3>2
    <3> QED BY <2>3, <3>3 DEF r
  <2> QED BY <2>8, <2>9
<1> HIDE DEF G
<1>3. \A p \in Seq(T) : p \in G
  BY <1>1, <1>2, EverySequence
<1> QED BY <1>3 DEF G

\* Of the messages of some kinds those of other kinds.
LEMMA OfKindsTwice ==
  ASSUME NEW T, NEW q \in Seq(T), NEW K, NEW L
  PROVE  OfKinds(OfKinds(q, K), L) = OfKinds(q, K \cap L)
<1> DEFINE G == {p \in Seq(T) : OfKinds(OfKinds(p, K), L) = OfKinds(p, K \cap L)}
<1>1. << >> \in G
  BY OfKindsEmpty
<1>2. ASSUME NEW p \in Seq(T), NEW x \in T, p \in G PROVE Append(p, x) \in G
  <2> DEFINE o == OfKinds(p, K)
             M == K \cap L
  <2>1. OfKinds(o, L) = OfKinds(p, M) /\ o \in Seq(T)
    BY <1>2, OfKindsType
  <2>2. OfKinds(Append(p, x), K) = IF x.kind \in K THEN Append(o, x) ELSE o
    BY OfKindsAppend
  <2>3. OfKinds(Append(p, x), M) = IF x.kind \in M THEN Append(OfKinds(p, M), x) ELSE OfKinds(p, M)
    BY OfKindsAppend
  <2> HIDE DEF o
  <2>4. OfKinds(Append(o, x), L) = IF x.kind \in L THEN Append(OfKinds(o, L), x) ELSE OfKinds(o, L)
    BY <2>1, OfKindsAppend, ZenonT(60)
  <2>5. OfKinds(OfKinds(Append(p, x), K), L) = OfKinds(Append(p, x), M)
    <3>1. CASE x.kind \in K /\ x.kind \in L
      BY <2>1, <2>2, <2>3, <2>4, <3>1
    <3>2. CASE x.kind \in K /\ x.kind \notin L
      BY <2>1, <2>2, <2>3, <2>4, <3>2
    <3>3. CASE x.kind \notin K
      BY <2>1, <2>2, <2>3, <3>3
    <3> QED BY <3>1, <3>2, <3>3
  <2> QED BY <2>5
<1> HIDE DEF G
<1>3. \A p \in Seq(T) : p \in G
  BY <1>1, <1>2, EverySequence
<1> QED BY <1>3 DEF G

\* One queue behind another.
LEMMA OfKindsConcat ==
  ASSUME NEW T, NEW p \in Seq(T), NEW q \in Seq(T), NEW K
  PROVE  OfKinds(p \o q, K) = OfKinds(p, K) \o OfKinds(q, K)
<1> DEFINE o == OfKinds(p, K)
           G == {r \in Seq(T) : OfKinds(p \o r, K) = o \o OfKinds(r, K)}
<1>0. o \in Seq(T)
  BY OfKindsType
<1>1. << >> \in G
  <2>1. p \o << >> = p /\ o \o << >> = o
    BY <1>0, ConcatEmptySeq
  <2>2. << >> \in Seq(T)
    OBVIOUS
  <2> HIDE DEF o
  <2> QED BY <2>1, <2>2, OfKindsEmpty DEF o
<1>2. ASSUME NEW r \in Seq(T), NEW x \in T, r \in G PROVE Append(r, x) \in G
  <2>1. OfKinds(p \o r, K) = o \o OfKinds(r, K) /\ p \o r \in Seq(T) /\ OfKinds(r, K) \in Seq(T)
    BY <1>2, OfKindsType
  <2>2. p \o Append(r, x) = Append(p \o r, x)
    OBVIOUS
  <2>3. OfKinds(Append(p \o r, x), K)
          = IF x.kind \in K THEN Append(OfKinds(p \o r, K), x) ELSE OfKinds(p \o r, K)
    BY <2>1, OfKindsAppend, ZenonT(60)
  <2>4. OfKinds(Append(r, x), K) = IF x.kind \in K THEN Append(OfKinds(r, K), x) ELSE OfKinds(r, K)
    BY OfKindsAppend
  <2> HIDE DEF o
  <2>5. o \o Append(OfKinds(r, K), x) = Append(o \o OfKinds(r, K), x)
    <3> DEFINE k == OfKinds(r, K)
    <3>1. k \in Seq(T)
      BY <2>1
    <3> HIDE DEF k
    <3>2. o \o Append(k, x) = Append(o \o k, x)
      BY <1>0, <3>1
    <3> QED BY <3>2 DEF k
  <2>6. OfKinds(p \o Append(r, x), K) = o \o OfKinds(Append(r, x), K)
    BY <2>1, <2>2, <2>3, <2>4, <2>5, Zenon
  <2>7. Append(r, x) \in Seq(T)
    OBVIOUS
  <2> QED BY <2>6, <2>7
<1> HIDE DEF G
<1>3. \A r \in Seq(T) : r \in G
  BY <1>1, <1>2, EverySequence
<1> QED BY <1>3 DEF G

\* One message.
LEMMA OfKindsOne ==
  ASSUME NEW x, NEW K
  PROVE  OfKinds(<<x>>, K) = IF x.kind \in K THEN <<x>> ELSE << >>
<1>1. << >> \in Seq({x}) /\ x \in {x}
  OBVIOUS
<1>2. Append(<< >>, x) = <<x>>
  OBVIOUS
<1>3. OfKinds(Append(<< >>, x), K)
        = IF x.kind \in K THEN Append(OfKinds(<< >>, K), x) ELSE OfKinds(<< >>, K)
  BY <1>1, OfKindsAppend
<1> QED BY <1>2, <1>3, OfKindsEmpty

\* What is left when the head of a queue is taken.
LEMMA OfKindsTail ==
  ASSUME NEW T, NEW q \in Seq(T), q # << >>, NEW K
  PROVE  /\ Head(q).kind \in K =>
              /\ OfKinds(q, K) # << >>
              /\ OfKinds(q, K)[1] = Head(q)
              /\ OfKinds(Tail(q), K) = Tail(OfKinds(q, K))
         /\ Head(q).kind \notin K => OfKinds(Tail(q), K) = OfKinds(q, K)
<1> DEFINE h == <<Head(q)>>
           t == Tail(q)
           o == OfKinds(t, K)
<1>1. h \in Seq(T) /\ t \in Seq(T) /\ q = h \o t
  OBVIOUS
<1>2. OfKinds(q, K) = OfKinds(h, K) \o o
  <2> HIDE DEF h, t
  <2> QED BY <1>1, OfKindsConcat
<1>3. OfKinds(h, K) = IF Head(q).kind \in K THEN h ELSE << >>
  BY OfKindsOne
<1>4. o \in Seq(T)
  BY <1>1, OfKindsType
<1>5. CASE Head(q).kind \in K
  <2>1. OfKinds(q, K) = h \o o
    BY <1>2, <1>3, <1>5
  <2> HIDE DEF o
  <2>2. h \o o # << >> /\ (h \o o)[1] = Head(q) /\ Tail(h \o o) = o
    BY <1>1, <1>4
  <2> QED BY <1>5, <2>1, <2>2 DEF o
<1>6. CASE Head(q).kind \notin K
  <2>1. OfKinds(q, K) = << >> \o o
    BY <1>2, <1>3, <1>6
  <2> HIDE DEF o
  <2>2. << >> \o o = o
    BY <1>4, ConcatEmptySeq
  <2> QED BY <1>6, <2>1, <2>2 DEF o
<1> QED BY <1>5, <1>6

\* All messages are of those kinds, or none is.
LEMMA OfKindsAllOrNone ==
  ASSUME NEW T, NEW q \in Seq(T), NEW K
  PROVE  /\ (\A i \in 1 .. Len(q) : q[i].kind \in K) => OfKinds(q, K) = q
         /\ (\A i \in 1 .. Len(q) : q[i].kind \notin K) => OfKinds(q, K) = << >>
<1> DEFINE All(p) == \A i \in 1 .. Len(p) : p[i].kind \in K
           None(p) == \A i \in 1 .. Len(p) : p[i].kind \notin K
           G == {p \in Seq(T) : /\ All(p) => OfKinds(p, K) = p
                                /\ None(p) => OfKinds(p, K) = << >>}
<1>1. << >> \in G
  BY OfKindsEmpty
<1>2. ASSUME NEW p \in Seq(T), NEW x \in T, p \in G PROVE Append(p, x) \in G
  <2> DEFINE r == Append(p, x)
  <2>1. OfKinds(r, K) = IF x.kind \in K THEN Append(OfKinds(p, K), x) ELSE OfKinds(p, K)
    BY OfKindsAppend
  <2>2. r \in Seq(T) /\ Len(r) = Len(p) + 1 /\ r[Len(p) + 1] = x /\ Len(p) \in Nat
        /\ \A i \in 1 .. Len(p) : r[i] = p[i]
    OBVIOUS
  <2>3. (\A i \in 1 .. Len(p) : i \in 1 .. Len(r)) /\ Len(p) + 1 \in 1 .. Len(r)
    BY <2>2
  <2>4. (All(p) => OfKinds(p, K) = p) /\ (None(p) => OfKinds(p, K) = << >>)
    BY <1>2
  <2>5. ASSUME All(r) PROVE OfKinds(r, K) = r
    <3>1. x.kind \in K /\ All(p)
      BY <2>2, <2>3, <2>5
    <3> QED BY <2>1, <2>4, <3>1
  <2>6. ASSUME None(r) PROVE OfKinds(r, K) = << >>
    <3>1. x.kind \notin K /\ None(p)
      BY <2>2, <2>3, <2>6
    <3> QED BY <2>1, <2>4, <3>1
  <2> QED BY <2>2, <2>5, <2>6
<1> HIDE DEF G
<1>3. \A p \in Seq(T) : p \in G
  BY <1>1, <1>2, EverySequence
<1> QED BY <1>3 DEF G

-----------------------------------------------------------------------------
(* Bytes and acknowledgements *)

\* The bytes of a queue are a number, and fewer when messages are taken out.
LEMMA SumBytesType ==
  ASSUME NEW T, NEW q \in Seq(T), NEW K
  PROVE  /\ SumBytes(q) \in Nat
         /\ SumBytes(OfKinds(q, K)) \in Nat
         /\ SumBytes(OfKinds(q, K)) <= SumBytes(q)
<1> DEFINE V == {k \in Kinds : HasValue(k)}
           o == OfKinds(q, K)
           v == OfKinds(q, V)
<1>1. o \in Seq(T) /\ Len(o) <= Len(q)
  BY OfKindsType
<1>2. v \in Seq(T)
  BY OfKindsType
<1> HIDE DEF V
<1>3. OfKinds(o, V) = OfKinds(v, K)
  <2>1. OfKinds(o, V) = OfKinds(q, K \cap V)
    BY OfKindsTwice
  <2>2. OfKinds(v, K) = OfKinds(q, V \cap K)
    BY OfKindsTwice
  <2>3. V \cap K = K \cap V
    OBVIOUS
  <2> QED BY <2>1, <2>2, <2>3
<1>4. OfKinds(v, K) \in Seq(T) /\ Len(OfKinds(v, K)) <= Len(v)
  BY <1>2, OfKindsType
<1>5. SumBytes(q) = Len(q) + Len(v) /\ SumBytes(o) = Len(o) + Len(OfKinds(v, K))
  BY <1>3 DEF SumBytes, V
<1>6. Len(q) \in Nat /\ Len(v) \in Nat /\ Len(o) \in Nat /\ Len(OfKinds(v, K)) \in Nat
  BY <1>1, <1>2, <1>4, LenProperties
<1> QED BY <1>1, <1>4, <1>5, <1>6

\* The bytes of the head and of the rest are those of the queue.
LEMMA SumBytesTail ==
  ASSUME NEW T, NEW q \in Seq(T), q # << >>
  PROVE  /\ SumBytes(q) = Bytes(Head(q)) + SumBytes(Tail(q))
         /\ Bytes(Head(q)) \in Nat /\ SumBytes(Tail(q)) \in Nat
<1> DEFINE V == {k \in Kinds : HasValue(k)}
           x == Head(q)
           t == Tail(q)
           h == <<x>>
           v == OfKinds(t, V)
<1>1. t \in Seq(T) /\ q = h \o t /\ h \in Seq(T) /\ Len(q) = 1 + Len(t) /\ Len(h) = 1
  OBVIOUS
<1> HIDE DEF V, h, t
<1>2. OfKinds(q, V) = OfKinds(h, V) \o v
  BY <1>1, OfKindsConcat
<1>3. OfKinds(h, V) \in Seq(T) /\ v \in Seq(T)
  BY <1>1, OfKindsType
<1>4. Len(OfKinds(q, V)) = Len(OfKinds(h, V)) + Len(v)
  BY <1>2, <1>3, ConcatProperties
<1>5. /\ SumBytes(q) = Len(q) + Len(OfKinds(q, V))
      /\ SumBytes(t) = Len(t) + Len(v)
      /\ Bytes(x) = Len(h) + Len(OfKinds(h, V))
  BY DEF SumBytes, Bytes, V, h
<1>6. /\ Len(t) \in Nat /\ Len(v) \in Nat /\ Len(OfKinds(h, V)) \in Nat /\ Len(h) = 1
  BY <1>1, <1>3, LenProperties
<1>7. SumBytes(q) = Bytes(x) + SumBytes(t) /\ Bytes(x) \in Nat /\ SumBytes(t) \in Nat
  BY <1>1, <1>4, <1>5, <1>6
<1> QED BY <1>7 DEF t

\* Nothing has no bytes, and one message has its own.
LEMMA SumBytesSmall ==
  /\ SumBytes(<< >>) = 0
  /\ \A x : Bytes(x) = SumBytes(<<x>>)
<1>1. SumBytes(<< >>) = 0
  BY OfKindsEmpty DEF SumBytes
<1> QED BY <1>1 DEF Bytes

\* No frames acknowledge nothing.
LEMMA AckedEmpty ==
  AckedBy(<< >>) = 0
<1>1. DOMAIN << >> = {}
  OBVIOUS
<1> DEFINE f == [i \in DOMAIN << >> |-> << >>[i].ack]
<1>2. DOMAIN f = {}
  BY <1>1
<1>3. SumFunction(f) = SumFunctionOnSet(f, DOMAIN f)
  BY DEF SumFunction
<1> HIDE DEF f
<1>4. SumFunction(f) = 0
  BY <1>2, <1>3, SumEmpty
<1> QED BY <1>4 DEF f, AckedBy

\* One frame more acknowledges that much more.
LEMMA AckedAppend ==
  ASSUME NEW q \in Seq(Frame), NEW x \in Frame
  PROVE  AckedBy(Append(q, x)) = AckedBy(q) + x.ack /\ AckedBy(q) \in Int
<1> DEFINE r == Append(q, x)
           N == Len(q)
           f == [i \in DOMAIN q |-> q[i].ack]
           e == [i \in DOMAIN r |-> r[i].ack]
           D == 1 .. N
<1>1. N \in Nat /\ DOMAIN q = D /\ DOMAIN r = D \cup {N + 1} /\ N + 1 \notin D
  OBVIOUS
<1>2. r[N + 1] = x /\ \A i \in D : r[i] = q[i]
  OBVIOUS
<1>3. \A i \in D : q[i].ack \in Int
  <2>1. \A i \in D : q[i] \in Frame
    BY ElementOfSeq
  <2> QED BY <2>1 DEF Frame
<1>4. x.ack \in Int
  BY DEF Frame
<1>5. AckedBy(q) = SumFunctionOnSet(f, D) /\ AckedBy(r) = SumFunctionOnSet(e, D \cup {N + 1})
  BY <1>1 DEF AckedBy, SumFunction
<1>6. IsFiniteSet(D)
  BY <1>1, FS_Interval
<1>7. e[N + 1] = x.ack /\ \A i \in D : f[i] = e[i] /\ f[i] \in Int
  BY <1>1, <1>2, <1>3
<1>8. \A i \in D \cup {N + 1} : e[i] \in Int
  BY <1>4, <1>7
<1> HIDE DEF f, e, D, N, r
<1>9. SumFunctionOnSet(e, D \cup {N + 1}) = e[N + 1] + SumFunctionOnSet(e, D)
  BY <1>1, <1>6, <1>8, SumAdd
<1>10. SumFunctionOnSet(f, D) = SumFunctionOnSet(e, D) /\ SumFunctionOnSet(f, D) \in Int
  BY <1>6, <1>7, SumSame
<1>11. AckedBy(r) = AckedBy(q) + x.ack /\ AckedBy(q) \in Int
  BY <1>4, <1>5, <1>7, <1>9, <1>10
<1> QED BY <1>11 DEF r

\* The head of the frames acknowledges its part.
LEMMA AckedTail ==
  ASSUME NEW q \in Seq(Frame)
  PROVE  /\ AckedBy(q) \in Nat
         /\ q # << >> => /\ AckedBy(q) = Head(q).ack + AckedBy(Tail(q))
                         /\ AckedBy(Tail(q)) \in Nat
<1> DEFINE Good(p) == /\ AckedBy(p) \in Nat
                      /\ p # << >> => /\ AckedBy(p) = Head(p).ack + AckedBy(Tail(p))
                                      /\ AckedBy(Tail(p)) \in Nat
           G == {p \in Seq(Frame) : Good(p)}
<1>1. << >> \in G
  BY AckedEmpty
<1>2. ASSUME NEW p \in Seq(Frame), NEW x \in Frame, p \in G PROVE Append(p, x) \in G
  <2> DEFINE r == Append(p, x)
  <2>0. Good(p)
    BY <1>2
  <2>1. r \in Seq(Frame) /\ x.ack \in Nat
    BY DEF Frame
  <2>2. AckedBy(r) = AckedBy(p) + x.ack
    BY AckedAppend
  <2>3. /\ Head(r) = IF p = << >> THEN x ELSE Head(p)
        /\ Tail(r) = IF p = << >> THEN << >> ELSE Append(Tail(p), x)
    BY HeadTailAppend
  <2> HIDE DEF r
  <2>4. CASE p = << >>
    <3>1. Head(r) = x /\ AckedBy(Tail(r)) = 0 /\ AckedBy(p) = 0
      BY <2>3, <2>4, AckedEmpty
    <3>2. Good(r)
      BY <2>1, <2>2, <3>1
    <3> QED BY <2>1, <3>2 DEF r
  <2>5. CASE p # << >>
    <3>1. Tail(p) \in Seq(Frame) /\ Head(p) \in Frame
      BY <2>5
    <3>2. AckedBy(Append(Tail(p), x)) = AckedBy(Tail(p)) + x.ack
      BY <3>1, AckedAppend
    <3>3. Head(r) = Head(p) /\ AckedBy(Tail(r)) = AckedBy(Tail(p)) + x.ack
      BY <2>3, <2>5, <3>2
    <3>4. Head(p).ack \in Nat
      BY <3>1 DEF Frame
    <3>5. AckedBy(p) \in Nat /\ AckedBy(Tail(p)) \in Nat
          /\ AckedBy(p) = Head(p).ack + AckedBy(Tail(p))
      BY <2>0, <2>5
    <3>6. AckedBy(r) \in Nat /\ AckedBy(Tail(r)) \in Nat
          /\ AckedBy(r) = Head(r).ack + AckedBy(Tail(r))
      <4> DEFINE a == Head(p).ack
                 b == AckedBy(Tail(p))
                 c == AckedBy(p)
      <4>1. Head(r).ack = a
        BY <3>3
      <4>2. a \in Nat /\ b \in Nat /\ c = a + b
        BY <3>4, <3>5
      <4>3. AckedBy(r) = c + x.ack /\ AckedBy(Tail(r)) = b + x.ack
        BY <2>2, <3>3
      <4> HIDE DEF a, b, c
      <4> QED BY <2>1, <4>1, <4>2, <4>3
    <3>7. Good(r)
      BY <3>6
    <3> QED BY <2>1, <3>7 DEF r
  <2> QED BY <2>4, <2>5
<1> HIDE DEF G
<1>3. \A p \in Seq(Frame) : p \in G
  BY <1>1, <1>2, EverySequence
<1> QED BY <1>3 DEF G

-----------------------------------------------------------------------------
(* Fields and pushes *)

\* The kinds that pushing ms leaves in a queue.
KindsKept(ms) == {k \in Kinds : \A i \in DOMAIN ms : ~ReplacesPending(ms[i].kind, k)}

\* The fields of a slot.
LEMMA SlotFields ==
  ASSUME NEW sl \in SlotState
  PROVE  /\ sl.state \in {"free", "connected", "stale", "expired", "removing"}
         /\ sl.inbound \in Seq(Frame) /\ sl.pending \in Seq(Message)
         /\ sl.bytes \in Nat /\ sl.lane \in 0 .. 2
BY DEF SlotState

\* The fields of a Session.
LEMMA SessionFields ==
  ASSUME NEW ss \in SessionState
  PROVE  /\ ss.count \in Nat /\ ss.live \in BOOLEAN /\ ss.events \in Nat /\ ss.demand \in Nat
         /\ ss.asked \in Nat /\ ss.answered \in Nat /\ ss.got \in Nat
         /\ ss.value \in Seq(Nat) /\ ss.total \in Seq(Nat) /\ ss.out \in Seq(Message)
         /\ ss.unacked \in Nat /\ ss.generation \in Nat
BY DEF SessionState

\* The fields of an origin.
LEMMA OriginFields ==
  ASSUME NEW os \in OriginState
  PROVE  /\ os.attached \in BOOLEAN /\ os.events \in Nat /\ os.asked \in Nat /\ os.demand \in Nat
         /\ os.active \in BOOLEAN /\ os.result \in Nat /\ os.argument \in Nat
         /\ os.value \in Seq(Nat)
BY DEF OriginState

\* The fields of a message.
LEMMA MessageFields ==
  ASSUME NEW m \in Message
  PROVE  m.kind \in Kinds /\ m.rev \in Nat /\ m.result \in Nat /\ m.value \in Seq(Nat)
BY DEF Message

\* A message made of its fields.
LEMMA MsgFields ==
  ASSUME NEW kind \in Kinds, NEW rev \in Nat, NEW result \in Nat, NEW value \in Seq(Nat)
  PROVE  /\ Msg(kind, rev, result, value) \in Message
         /\ Msg(kind, rev, result, value).kind = kind
         /\ Msg(kind, rev, result, value).rev = rev
         /\ Msg(kind, rev, result, value).result = result
         /\ Msg(kind, rev, result, value).value = value
BY DEF Msg, Message

\* No messages of no kinds.
LEMMA OfNoKinds ==
  ASSUME NEW T, NEW q \in Seq(T) PROVE OfKinds(q, {}) = << >>
<1>1. \A i \in 1 .. Len(q) : q[i].kind \notin {}
  OBVIOUS
<1> QED BY <1>1, OfKindsAllOrNone

\* What a push leaves of some kinds.
LEMMA PushedAllOf ==
  ASSUME NEW q \in Seq(Message), NEW ms \in Seq(Message), NEW L
  PROVE  /\ PushedAll(q, ms) \in Seq(Message)
         /\ OfKinds(PushedAll(q, ms), L) = OfKinds(q, KindsKept(ms) \cap L) \o OfKinds(ms, L)
<1> DEFINE K == KindsKept(ms)
           o == OfKinds(q, K)
<1>1. PushedAll(q, ms) = o \o ms
  BY DEF PushedAll, KindsKept
<1>2. o \in Seq(Message)
  BY OfKindsType
<1>3. OfKinds(o, L) = OfKinds(q, K \cap L)
  BY OfKindsTwice
<1> HIDE DEF o, K
<1>4. OfKinds(o \o ms, L) = OfKinds(o, L) \o OfKinds(ms, L)
  BY <1>2, OfKindsConcat
<1>5. o \o ms \in Seq(Message)
  BY <1>2, ConcatProperties
<1>6. OfKinds(PushedAll(q, ms), L) = OfKinds(q, K \cap L) \o OfKinds(ms, L)
  BY <1>1, <1>3, <1>4
<1>7. PushedAll(q, ms) \in Seq(Message)
  BY <1>1, <1>5
<1> QED BY <1>6, <1>7 DEF K

\* What is in a queue after a push was in it or was pushed.
LEMMA PushedAllKinds ==
  ASSUME NEW q \in Seq(Message), NEW ms \in Seq(Message), NEW S,
         \A i \in 1 .. Len(q) : q[i].kind \in S,
         \A i \in 1 .. Len(ms) : ms[i].kind \in S
  PROVE  \A i \in 1 .. Len(PushedAll(q, ms)) : PushedAll(q, ms)[i].kind \in S
<1> DEFINE K == KindsKept(ms)
           o == OfKinds(q, K)
<1>1. PushedAll(q, ms) = o \o ms
  BY DEF PushedAll, KindsKept
<1>2. o \in Seq(Message) /\ \A i \in 1 .. Len(o) : \E j \in 1 .. Len(q) : o[i] = q[j]
  BY OfKindsType
<1>3. \A i \in 1 .. Len(o) : o[i].kind \in S
  BY <1>2
<1> HIDE DEF o
<1>4. /\ Len(o \o ms) = Len(o) + Len(ms) /\ Len(o) \in Nat /\ Len(ms) \in Nat
      /\ \A i \in 1 .. Len(o) + Len(ms) : (o \o ms)[i] = IF i <= Len(o) THEN o[i] ELSE ms[i - Len(o)]
  BY <1>2, ConcatProperties, LenProperties
<1>5. ASSUME NEW i \in 1 .. Len(o) + Len(ms) PROVE (o \o ms)[i].kind \in S
  <2>1. CASE i <= Len(o)
    BY <1>3, <1>4, <2>1
  <2>2. CASE ~ (i <= Len(o))
    <3>1. i - Len(o) \in 1 .. Len(ms)
      BY <1>4, <2>2
    <3> QED BY <1>4, <2>2, <3>1
  <2> QED BY <2>1, <2>2
<1> QED BY <1>1, <1>4, <1>5

\* What a push of one message leaves of one kind.
LEMMA PushedOf ==
  ASSUME NEW q \in Seq(Message), NEW m \in Message, NEW k \in Kinds
  PROVE  /\ Pushed(q, m) \in Seq(Message)
         /\ OfKinds(Pushed(q, m), {k}) =
              IF m.kind # k
              THEN IF ReplacesPending(m.kind, k) THEN << >> ELSE OfKinds(q, {k})
              ELSE IF ReplacesPending(k, k) THEN <<m>> ELSE Append(OfKinds(q, {k}), m)
<1> DEFINE ms == <<m>>
           C == KindsKept(ms) \cap {k}
           o == OfKinds(q, C)
           p == OfKinds(q, {k})
<1>1. ms \in Seq(Message) /\ Pushed(q, m) = PushedAll(q, ms)
  BY DEF Pushed
<1>2. OfKinds(ms, {k}) = IF m.kind = k THEN ms ELSE << >>
  BY OfKindsOne
<1>3. C = IF ReplacesPending(m.kind, k) THEN {} ELSE {k}
  <2>1. DOMAIN ms = {1} /\ ms[1] = m
    OBVIOUS
  <2> HIDE DEF ms
  <2> QED BY <2>1 DEF KindsKept
<1>4. o = IF ReplacesPending(m.kind, k) THEN << >> ELSE p
  BY <1>3, OfNoKinds
<1>5. p \in Seq(Message)
  BY OfKindsType
<1> HIDE DEF ms
<1>6. /\ PushedAll(q, ms) \in Seq(Message)
      /\ OfKinds(PushedAll(q, ms), {k}) = o \o OfKinds(ms, {k})
  BY <1>1, PushedAllOf
<1> HIDE DEF o, p, C
<1>7. << >> \o ms = ms /\ p \o << >> = p /\ << >> \o << >> = << >> /\ p \o ms = Append(p, m)
  BY <1>1, <1>5, ConcatEmptySeq, AppendIsConcat DEF ms
<1>8. CASE m.kind = k
  BY <1>1, <1>2, <1>4, <1>6, <1>7, <1>8 DEF p, ms
<1>9. CASE m.kind # k
  BY <1>1, <1>2, <1>4, <1>6, <1>7, <1>9 DEF p
<1> QED BY <1>8, <1>9

\* Pushing the total.
LEMMA PushedShared ==
  ASSUME NEW q \in Seq(Message), NEW m \in Message, m.kind = "shared"
  PROVE  /\ Pushed(q, m) \in Seq(Message)
         /\ OfKinds(Pushed(q, m), {"shared"}) = <<m>>
         /\ OfKinds(Pushed(q, m), {"result"}) = OfKinds(q, {"result"})
         /\ OfKinds(Pushed(q, m), {"answer"}) = OfKinds(q, {"answer"})
<1>1. "shared" \in Kinds /\ "result" \in Kinds /\ "answer" \in Kinds
  BY DEF Kinds
<1>2. /\ ReplacesPending("shared", "shared")
      /\ ~ ReplacesPending("shared", "result") /\ ~ ReplacesPending("shared", "answer")
  BY DEF ReplacesPending
<1> QED BY <1>1, <1>2, PushedOf, ZenonT(60)

\* Pushing a result.
LEMMA PushedResult ==
  ASSUME NEW q \in Seq(Message), NEW m \in Message, m.kind = "result"
  PROVE  /\ Pushed(q, m) \in Seq(Message)
         /\ OfKinds(Pushed(q, m), {"result"}) = <<m>>
         /\ OfKinds(Pushed(q, m), {"shared"}) = OfKinds(q, {"shared"})
         /\ OfKinds(Pushed(q, m), {"answer"}) = OfKinds(q, {"answer"})
<1>1. "shared" \in Kinds /\ "result" \in Kinds /\ "answer" \in Kinds
  BY DEF Kinds
<1>2. /\ ReplacesPending("result", "result")
      /\ ~ ReplacesPending("result", "shared") /\ ~ ReplacesPending("result", "answer")
  BY DEF ReplacesPending
<1> QED BY <1>1, <1>2, PushedOf, ZenonT(60)

\* Pushing the answer of an invocation.
LEMMA PushedAnswer ==
  ASSUME NEW q \in Seq(Message), NEW m \in Message, m.kind = "answer"
  PROVE  /\ Pushed(q, m) \in Seq(Message)
         /\ OfKinds(Pushed(q, m), {"answer"}) = Append(OfKinds(q, {"answer"}), m)
         /\ OfKinds(Pushed(q, m), {"result"}) = OfKinds(q, {"result"})
         /\ OfKinds(Pushed(q, m), {"shared"}) = OfKinds(q, {"shared"})
<1>1. "shared" \in Kinds /\ "result" \in Kinds /\ "answer" \in Kinds
  BY DEF Kinds
<1>2. /\ ~ ReplacesPending("answer", "answer")
      /\ ~ ReplacesPending("answer", "shared") /\ ~ ReplacesPending("answer", "result")
  BY DEF ReplacesPending
<1> QED BY <1>1, <1>2, PushedOf

\* The kinds in a queue after a push of one message.
LEMMA PushedKinds ==
  ASSUME NEW q \in Seq(Message), NEW m \in Message, NEW S, m.kind \in S,
         \A i \in 1 .. Len(q) : q[i].kind \in S
  PROVE  \A i \in 1 .. Len(Pushed(q, m)) : Pushed(q, m)[i].kind \in S
<1> DEFINE ms == <<m>>
<1>1. ms \in Seq(Message) /\ \A i \in 1 .. Len(ms) : ms[i].kind \in S
  OBVIOUS
<1>2. Pushed(q, m) = PushedAll(q, ms)
  BY DEF Pushed
<1> HIDE DEF ms
<1> QED BY <1>1, <1>2, PushedAllKinds

\* The Server's messages are messages.
LEMMA ServerMessages ==
  /\ \A t \in Nat : Shared(t) \in Message /\ Shared(t).kind = "shared"
                    /\ Shared(t).rev = t + 1 /\ Shared(t).value = <<t>>
  /\ \A os \in OriginState : Result(os) \in Message /\ Result(os).kind = "result"
                    /\ Result(os).rev = os.demand /\ Result(os).result = os.result
                    /\ Result(os).value = os.value
<1>1. "shared" \in Kinds /\ "result" \in Kinds
  BY DEF Kinds
<1>2. ASSUME NEW t \in Nat
      PROVE  Shared(t) \in Message /\ Shared(t).kind = "shared"
                    /\ Shared(t).rev = t + 1 /\ Shared(t).value = <<t>>
  <2> DEFINE v == <<t>>
             z == 0
             n == t + 1
  <2>1. n \in Nat /\ z \in Nat /\ v \in Seq(Nat) /\ Shared(t) = Msg("shared", n, z, v)
    BY DEF Shared
  <2> HIDE DEF v, z, n
  <2>2. LET m == Msg("shared", n, z, v)
        IN  m \in Message /\ m.kind = "shared" /\ m.rev = n /\ m.value = v
    BY <1>1, <2>1, MsgFields
  <2> QED BY <2>1, <2>2 DEF v, n
<1>3. ASSUME NEW os \in OriginState
      PROVE  Result(os) \in Message /\ Result(os).kind = "result"
                    /\ Result(os).rev = os.demand /\ Result(os).result = os.result
                    /\ Result(os).value = os.value
  BY <1>1, OriginFields, MsgFields DEF Result
<1> QED BY <1>2, <1>3

-----------------------------------------------------------------------------
(* Slots that come, go and wait *)

\* A free slot.
LEMMA FreeSuits ==
  ASSUME NEW total
  PROVE  Suits(FreeSlot, NoSession, NoOrigin, total)
<1>1. FreeSlot \in SlotState /\ NoSession \in SessionState /\ NoOrigin \in OriginState
  BY DEF FreeSlot, SlotState, NoSession, SessionState, NoOrigin, OriginState
<1>2. FreeSlot.inbound = << >> /\ FreeSlot.pending = << >> /\ NoSession.out = << >>
      /\ FreeSlot.state = "free" /\ FreeSlot.bytes = 0 /\ NoSession.unacked = 0
      /\ NoSession.demand = 0 /\ NoOrigin.demand = 0 /\ NoOrigin.active = FALSE /\ NoSession.got = 0
  BY DEF FreeSlot, NoSession, NoOrigin
<1>3. MaxBytes \in Nat
  BY ConstantsAssumption
<1>4. LoadSuits(FreeSlot)
  BY <1>2, <1>3, SumBytesSmall DEF LoadSuits
<1>5. QueuesSuit(FreeSlot, NoSession)
  <2>1. AckedBy(FreeSlot.inbound) <= NoSession.unacked
    BY <1>2, AckedEmpty
  <2> QED BY <1>2, <2>1 DEF QueuesSuit
<1>6. CallsSuit(NoSession, NoOrigin)
  <2>1. OfKinds(NoSession.out, CallKinds) = << >>
    BY <1>2, OfKindsEmpty
  <2>2. Len(OfKinds(NoSession.out, CallKinds)) = 0
    BY <2>1
  <2>3. ~ (Len(OfKinds(NoSession.out, CallKinds)) = 1) /\ Len(OfKinds(NoSession.out, CallKinds)) <= 1
    BY <2>2
  <2>4. NoOrigin.demand <= NoSession.demand
    BY <1>2
  <2> QED BY <2>3, <2>4, Zenon DEF CallsSuit
<1>7. ResultsSuit(FreeSlot, NoOrigin)
  BY <1>2, OfKindsEmpty DEF ResultsSuit
<1>8. GotSuits(NoSession, NoOrigin)
  BY <1>2 DEF GotSuits
<1>9. TotalSuits(FreeSlot, NoSession, total) /\ FirstSuits(FreeSlot, NoSession, NoOrigin)
  BY <1>2 DEF TotalSuits, FirstSuits
<1> QED BY <1>1, <1>4, <1>5, <1>6, <1>7, <1>8, <1>9 DEF Suits

FreshSession == [NoSession EXCEPT !.live = TRUE, !.demand = 1, !.unacked = 1, !.generation = 1,
                                  !.out = <<Msg("request", 1, 0, <<0>>)>>]
FreshOrigin == [NoOrigin EXCEPT !.attached = TRUE]

\* A Session just admitted: its first call is queued, and the total waits.
LEMMA FreshSuits ==
  ASSUME NEW total \in Nat, NEW sl \in SlotState,
         sl.state = "connected", sl.inbound = << >>,
         sl.pending = Pushed(<< >>, Shared(total)), sl.bytes = SumBytes(sl.pending),
         sl.bytes <= MaxBytes
  PROVE  Suits(sl, FreshSession, FreshOrigin, total) /\ sl.pending = <<Shared(total)>>
<1> DEFINE m == Msg("request", 1, 0, <<0>>)
           ss == FreshSession
           os == FreshOrigin
           x == Shared(total)
<1>1. m \in Message /\ m.kind = "request" /\ m.rev = 1 /\ m.value = <<0>>
  <2> DEFINE v == <<0>>
             z == 0
             n == 1
  <2>1. "request" \in Kinds /\ n \in Nat /\ z \in Nat /\ v \in Seq(Nat)
    BY DEF Kinds
  <2> HIDE DEF v, z, n
  <2>2. LET k == Msg("request", n, z, v)
        IN  k \in Message /\ k.kind = "request" /\ k.rev = n /\ k.value = v
    BY <2>1, MsgFields
  <2> QED BY <2>2 DEF v, z, n
<1>2. /\ ss \in SessionState /\ ss.live = TRUE /\ ss.demand = 1 /\ ss.unacked = 1
      /\ ss.generation = 1 /\ ss.out = <<m>> /\ ss.count = 0 /\ ss.events = 0 /\ ss.asked = 0
      /\ ss.answered = 0 /\ ss.got = 0 /\ ss.total = << >>
  <2> DEFINE o == <<m>>
  <2>1. o \in Seq(Message)
    BY <1>1
  <2>2. ss = [NoSession EXCEPT !.live = TRUE, !.demand = 1, !.unacked = 1, !.generation = 1, !.out = o]
    BY DEF FreshSession
  <2> HIDE DEF o, ss
  <2>3. ss = [count |-> 0, live |-> TRUE, events |-> 0, demand |-> 1,
              asked |-> 0, answered |-> 0, got |-> 0, value |-> << >>, total |-> << >>,
              out |-> o, unacked |-> 1, generation |-> 1]
    BY <2>2 DEF NoSession
  <2>4. ss \in SessionState
    BY <2>1, <2>3 DEF SessionState
  <2> QED BY <2>3, <2>4 DEF o
<1>3. /\ os \in OriginState /\ os.events = 0 /\ os.asked = 0 /\ os.demand = 0 /\ os.active = FALSE
  <2> DEFINE no == NoOrigin
  <2>1. no \in OriginState
    BY FreeSuits, Zenon DEF Suits
  <2>2. no.events = 0 /\ no.asked = 0 /\ no.demand = 0 /\ no.active = FALSE
    BY DEF NoOrigin
  <2> HIDE DEF no
  <2>3. [no EXCEPT !.attached = TRUE] \in OriginState
    BY <2>1 DEF OriginState
  <2>4. LET o == [no EXCEPT !.attached = TRUE]
        IN  o.events = 0 /\ o.asked = 0 /\ o.demand = 0 /\ o.active = FALSE
    BY <2>1, <2>2 DEF OriginState
  <2> QED BY <2>3, <2>4 DEF no, FreshOrigin
<1>4. x \in Message /\ x.kind = "shared"
  BY ServerMessages
<1>5. sl.pending = <<x>>
  <2>1. OfKinds(<< >>, KindsKept(<<x>>)) = << >>
    BY OfKindsEmpty
  <2>2. << >> \o <<x>> = <<x>>
    BY ConcatEmptySeq
  <2> QED BY <2>1, <2>2 DEF Pushed, PushedAll, KindsKept
<1> HIDE DEF m, x, ss, os
<1>6. LoadSuits(sl)
  <2>1. MaxBytes \in Nat
    BY ConstantsAssumption
  <2>2. Len(sl.inbound) = 0
    OBVIOUS
  <2> QED BY <2>1, <2>2 DEF LoadSuits
<1>7. QueuesSuit(sl, ss)
  <2>1. AckedBy(sl.inbound) <= ss.unacked
    BY <1>2, AckedEmpty
  <2>2. \A i \in 1 .. Len(sl.pending) : sl.pending[i].kind \in PendingKinds
    BY <1>4, <1>5 DEF PendingKinds
  <2>3. \A i \in 1 .. Len(ss.out) : ss.out[i].kind \in OutKinds
    BY <1>1, <1>2 DEF OutKinds, CallKinds
  <2> QED BY <1>2, <2>1, <2>2, <2>3 DEF QueuesSuit
<1>8. OfKinds(ss.out, CallKinds) = <<m>> /\ OfKinds(ss.out, {"event"}) = << >>
      /\ OfKinds(ss.out, {"invoke"}) = << >>
  BY <1>1, <1>2, OfKindsOne DEF CallKinds
<1>9. OfKinds(sl.pending, {"shared"}) = <<x>> /\ OfKinds(sl.pending, {"result"}) = << >>
      /\ OfKinds(sl.pending, {"answer"}) = << >>
  BY <1>4, <1>5, OfKindsOne
<1>10. CallsSuit(ss, os)
  <2>1. /\ Len(OfKinds(ss.out, CallKinds)) = 1 /\ OfKinds(ss.out, CallKinds)[1] = m
    BY <1>8
  <2>2. os.demand < ss.demand /\ os.demand <= ss.demand /\ 1 <= 1
    BY <1>2, <1>3
  <2>3. m.value = <<ss.count>> /\ m.rev = ss.demand /\ m.kind # "detach" /\ ss.live
    BY <1>1, <1>2
  <2> QED BY <2>1, <2>2, <2>3, Zenon DEF CallsSuit
<1>11. ResultsSuit(sl, os)
  BY <1>3, <1>9 DEF ResultsSuit
<1>12. GotSuits(ss, os)
  BY <1>2 DEF GotSuits
<1>13. TotalSuits(sl, ss, total)
  <2>1. <<x>> # << >> /\ 0 < total + 1
    OBVIOUS
  <2>2. OfKinds(sl.pending, {"shared"}) = <<Shared(total)>>
    BY <1>9 DEF x
  <2> QED BY <1>2, <1>9, <2>1, <2>2 DEF TotalSuits
<1>14. FirstSuits(sl, ss, os)
  <2>1. Numbered(<< >>, 0, 0)
    BY DEF Numbered
  <2>2. <<m>> # << >>
    OBVIOUS
  <2> QED BY <1>2, <1>3, <1>8, <1>9, <2>1, <2>2, Zenon DEF FirstSuits
<1>15. Suits(sl, ss, os, total)
  BY <1>2, <1>3, <1>6, <1>7, <1>10, <1>11, <1>12, <1>13, <1>14 DEF Suits
<1> QED BY <1>5, <1>15 DEF x, ss, os

-----------------------------------------------------------------------------
(* A message of the Server is taken *)

\* What a Session keeps of what it was, whatever it accepts.
SameSession(ss, ns) ==
  /\ ns.count = ss.count /\ ns.live = ss.live /\ ns.events = ss.events
  /\ ns.demand = ss.demand /\ ns.asked = ss.asked /\ ns.out = ss.out
  /\ ns.generation = ss.generation

\* What accepting a message changes.
LEMMA AcceptedFields ==
  ASSUME NEW ss \in SessionState, NEW m \in Message, NEW c \in BOOLEAN
  PROVE  LET ns == Accepted(ss, m, c)
         IN  /\ Acceptance(ss, m) # "accepted" => ns = ss
             /\ ns \in SessionState /\ SameSession(ss, ns) /\ ns.unacked >= ss.unacked
             /\ Acceptance(ss, m) = "accepted" =>
                  /\ ns.total = IF m.kind = "shared" THEN m.value ELSE ss.total
                  /\ ns.answered = IF m.kind = "answer" THEN m.rev ELSE ss.answered
                  /\ ns.got = IF m.kind \in {"shared", "answer"} THEN ss.got ELSE m.result
                  /\ ns.value = IF m.kind \in {"shared", "answer"} THEN ss.value ELSE m.value
<1> DEFINE ns == Accepted(ss, m, c)
           u == IF c THEN ss.unacked + 1 ELSE ss.unacked
           ps == [ss EXCEPT !.unacked = IF c THEN @ + 1 ELSE @]
<1>0. ss.unacked \in Nat /\ u \in Nat /\ u >= ss.unacked
  BY SessionFields
<1>1. m.rev \in Nat /\ m.result \in Nat /\ m.value \in Seq(Nat)
  BY MessageFields
<1>2. ps = [ss EXCEPT !.unacked = u]
  BY DEF SessionState
<1> HIDE DEF u
<1>3. CASE Acceptance(ss, m) # "accepted"
  <2>1. ns = ss
    BY <1>3 DEF Accepted
  <2> HIDE DEF ns
  <2> QED BY <1>3, <2>1, <1>0 DEF SameSession, ns
<1>4. CASE Acceptance(ss, m) = "accepted" /\ m.kind = "shared"
  <2> DEFINE v == m.value
  <2>1. ns = [ps EXCEPT !.total = v]
    BY <1>4 DEF Accepted
  <2> HIDE DEF ns, ps, v
  <2>2. ns = [ss EXCEPT !.unacked = u, !.total = v]
    BY <1>2, <2>1 DEF SessionState
  <2>3. v \in Seq(Nat)
    BY <1>1 DEF v
  <2>4. ns \in SessionState /\ SameSession(ss, ns) /\ ns.unacked = u /\ ns.total = v
        /\ ns.answered = ss.answered /\ ns.got = ss.got /\ ns.value = ss.value
    BY <1>0, <2>2, <2>3 DEF SessionState, SameSession
  <2> QED BY <1>0, <1>4, <2>4 DEF ns, v
<1>5. CASE Acceptance(ss, m) = "accepted" /\ m.kind = "answer"
  <2> DEFINE v == m.rev
  <2>1. ns = [ps EXCEPT !.answered = v]
    BY <1>5 DEF Accepted
  <2> HIDE DEF ns, ps, v
  <2>2. ns = [ss EXCEPT !.unacked = u, !.answered = v]
    BY <1>2, <2>1 DEF SessionState
  <2>3. v \in Nat
    BY <1>1 DEF v
  <2>4. ns \in SessionState /\ SameSession(ss, ns) /\ ns.unacked = u /\ ns.answered = v
        /\ ns.total = ss.total /\ ns.got = ss.got /\ ns.value = ss.value
    BY <1>0, <2>2, <2>3 DEF SessionState, SameSession
  <2> QED BY <1>0, <1>5, <2>4 DEF ns, v
<1>6. CASE Acceptance(ss, m) = "accepted" /\ m.kind \notin {"shared", "answer"}
  <2> DEFINE v == m.value
             w == m.result
  <2>1. ns = [ps EXCEPT !.got = w, !.value = v]
    BY <1>6 DEF Accepted
  <2> HIDE DEF ns, ps, v, w
  <2>2. ns = [ss EXCEPT !.unacked = u, !.got = w, !.value = v]
    BY <1>2, <2>1 DEF SessionState
  <2>3. v \in Seq(Nat) /\ w \in Nat
    BY <1>1 DEF v, w
  <2>4. ns \in SessionState /\ SameSession(ss, ns) /\ ns.unacked = u /\ ns.got = w /\ ns.value = v
        /\ ns.answered = ss.answered /\ ns.total = ss.total
    BY <1>0, <2>2, <2>3 DEF SessionState, SameSession
  <2> QED BY <1>0, <1>6, <2>4 DEF ns, v, w
<1> QED BY <1>3, <1>4, <1>5, <1>6

\* The head of what is pending, by its kind.
LEMMA HeadPending ==
  ASSUME NEW sl, NEW ss, NEW os, NEW total \in Nat, Suits(sl, ss, os, total),
         sl.pending # << >>, sl.state # "free"
  PROVE  LET m == Head(sl.pending)
         IN  /\ m \in Message /\ m.kind \in PendingKinds
             /\ m.kind # "shared" => sl.state = "connected"
             /\ m.kind = "shared" =>
                  /\ m = Shared(total) /\ OfKinds(Tail(sl.pending), {"shared"}) = << >>
                  /\ ss.total = << >> \/ ss.total[1] + 1 < total + 1
             /\ m.kind = "result" =>
                  /\ OfKinds(Tail(sl.pending), {"result"}) = << >>
                  /\ IF os.active THEN m = Result(os) ELSE m.rev < os.demand
<1> DEFINE q == sl.pending
           m == Head(q)
<1>0. sl \in SlotState /\ q \in Seq(Message) /\ ss \in SessionState
  BY SlotFields DEF Suits
<1>1. m \in Message /\ m = q[1] /\ 1 \in 1 .. Len(q)
  BY <1>0
<1>2. m.kind \in PendingKinds /\ (m.kind # "shared" => sl.state = "connected")
  BY <1>1 DEF Suits, QueuesSuit
<1>3. ASSUME m.kind = "shared"
      PROVE  /\ m = Shared(total) /\ OfKinds(Tail(q), {"shared"}) = << >>
             /\ ss.total = << >> \/ ss.total[1] + 1 < total + 1
  <2> DEFINE o == OfKinds(q, {"shared"})
             x == Shared(total)
             known == IF ss.total = << >> THEN 0 ELSE ss.total[1] + 1
  <2>1. o # << >> /\ o[1] = m /\ OfKinds(Tail(q), {"shared"}) = Tail(o)
    BY <1>0, <1>3, OfKindsTail
  <2>2. o = <<x>> /\ known < total + 1
    <3>1. TotalSuits(sl, ss, total)
      BY DEF Suits
    <3> QED BY <2>1, <3>1 DEF TotalSuits
  <2> HIDE DEF o, x
  <2>3. o[1] = x /\ Tail(o) = << >>
    BY <2>2
  <2> QED BY <2>1, <2>2, <2>3 DEF x
<1>4. ASSUME m.kind = "result"
      PROVE  /\ OfKinds(Tail(q), {"result"}) = << >>
             /\ IF os.active THEN m = Result(os) ELSE m.rev < os.demand
  <2> DEFINE o == OfKinds(q, {"result"})
  <2>1. o # << >> /\ o[1] = m /\ OfKinds(Tail(q), {"result"}) = Tail(o)
    BY <1>0, <1>4, OfKindsTail
  <2>2. o \in Seq(Message)
    BY <1>0, OfKindsType
  <2>5. Len(o) <= 1
    BY DEF Suits, ResultsSuit
  <2>3. (Len(o) = 1 => IF os.active THEN o[1] = Result(os) ELSE o[1].rev < os.demand)
    BY DEF Suits, ResultsSuit
  <2> HIDE DEF o
  <2>4. Len(o) = 1 /\ Tail(o) = << >>
    <3>1. Len(o) \in Nat /\ Len(o) # 0
      BY <2>1, <2>2, EmptySeq
    <3>2. Len(o) = 1
      BY <2>5, <3>1
    <3>3. Tail(o) \in Seq(Message) /\ Len(Tail(o)) = 0
      BY <2>1, <2>2, <3>2, HeadTailProperties
    <3> QED BY <3>2, <3>3, EmptySeq
  <2> QED BY <2>1, <2>3, <2>4
<1> QED BY <1>1, <1>2, <1>3, <1>4

\* A Session refuses what the Server sends only once it has been resumed, and
\* never for a result that differs from one it has.
LEMMA NothingIsRefused ==
  ASSUME NEW sl, NEW ss, NEW os, NEW total \in Nat, Suits(sl, ss, os, total),
         sl.pending # << >>, sl.state # "free"
  PROVE  LET a == Acceptance(ss, Head(sl.pending))
         IN  a \in {"accepted", "ignored", "sequence"} /\ (a = "sequence" => ss.generation > 1)
<1> DEFINE m == Head(sl.pending)
           a == Acceptance(ss, m)
<1>0. /\ sl \in SlotState /\ ss \in SessionState /\ os \in OriginState
      /\ CallsSuit(ss, os) /\ ResultsSuit(sl, os) /\ GotSuits(ss, os) /\ FirstSuits(sl, ss, os)
      /\ ss.generation >= 1
  BY DEF Suits, QueuesSuit
<1>1. /\ m \in Message /\ m.kind \in PendingKinds
      /\ m.kind # "shared" => sl.state = "connected"
      /\ m.kind = "shared" =>
           m = Shared(total) /\ (ss.total = << >> \/ ss.total[1] + 1 < total + 1)
      /\ m.kind = "result" => IF os.active THEN m = Result(os) ELSE m.rev < os.demand
  BY HeadPending
<1>f. /\ ss.demand \in Nat /\ ss.got \in Nat /\ ss.asked \in Nat /\ ss.answered \in Nat
      /\ ss.generation \in Nat /\ os.demand \in Nat /\ os.result \in Nat /\ os.asked \in Nat
      /\ m.rev \in Nat /\ m.result \in Nat
  BY <1>0, <1>1, SessionFields, OriginFields, MessageFields
<1>2. CASE m.kind = "shared"
  <2>1. m.rev = total + 1
    BY <1>1, <1>2, ServerMessages
  <2>2. ss.total # << >> => ~ (m.rev <= ss.total[1] + 1)
    <3> SUFFICES ASSUME ss.total # << >> PROVE ~ (m.rev <= ss.total[1] + 1)
      OBVIOUS
    <3>1. ss.total[1] \in Nat
      BY <1>0, SessionFields
    <3>2. ss.total[1] + 1 < total + 1
      BY <1>1, <1>2
    <3> QED BY <2>1, <3>1, <3>2
  <2>3. a = "accepted"
    BY <1>2, <2>2 DEF Acceptance
  <2> QED BY <2>3
<1>3. CASE m.kind = "answer"
  <2>1. a \in {"accepted", "ignored", "sequence"} /\ (a = "sequence" => m.rev > ss.asked)
    BY <1>3 DEF Acceptance
  <2>2. ASSUME ss.generation = 1 PROVE ~ (m.rev > ss.asked)
    <3> DEFINE o == OfKinds(sl.pending, {"answer"})
               e == OfKinds(ss.out, {"invoke"})
    <3>1. sl.state = "connected"
      BY <1>1, <1>3
    <3>2. Numbered(o, ss.answered, os.asked) /\ Numbered(e, os.asked, ss.asked)
      BY <1>0, <2>2, <3>1 DEF FirstSuits
    <3>3. o # << >> /\ o[1] = m
      BY <1>0, <1>3, SlotFields, OfKindsTail
    <3>4. o \in Seq(Message) /\ e \in Seq(Message)
      BY <1>0, SlotFields, SessionFields, OfKindsType
    <3> HIDE DEF o, e
    <3>5. Len(o) \in Nat /\ Len(o) >= 1 /\ Len(e) \in Nat
      BY <3>3, <3>4
    <3>6. m.rev = ss.answered + 1
      BY <3>2, <3>3, <3>5 DEF Numbered
    <3>7. ss.answered + Len(o) = os.asked /\ os.asked + Len(e) = ss.asked
      BY <3>2 DEF Numbered
    <3> QED BY <1>f, <3>5, <3>6, <3>7
  <2>3. a = "sequence" => ss.generation > 1
    BY <1>0, <1>f, <2>1, <2>2
  <2> QED BY <2>1, <2>3
<1>4. CASE m.kind = "result"
  <2>1. os.demand <= ss.demand
    BY <1>0 DEF CallsSuit
  <2>2. m.rev <= os.demand
    <3>1. CASE os.active
      <4>1. m.rev = os.demand
        BY <1>0, <1>1, <1>4, <3>1, ServerMessages
      <4> QED BY <1>f, <4>1
    <3>2. CASE ~ os.active
      BY <1>1, <1>f, <1>4, <3>2
    <3> QED BY <3>1, <3>2
  <2>3. ~ (m.rev > ss.demand)
    BY <1>f, <2>1, <2>2
  <2>4. ASSUME ~ (m.rev < ss.demand), m.result = ss.got PROVE m.value = ss.value
    <3>1. m.rev = ss.demand /\ os.demand = ss.demand
      BY <1>f, <2>1, <2>2, <2>4
    <3>2. os.active /\ m = Result(os)
      BY <1>1, <1>4, <1>f, <3>1
    <3>3. m.result = os.result /\ m.value = os.value /\ os.result >= 1
      BY <1>0, <3>2, ServerMessages DEF ResultsSuit
    <3>4. ss.got > 0 /\ ss.got = os.result
      BY <1>f, <2>4, <3>3
    <3> QED BY <1>0, <3>3, <3>4 DEF GotSuits
  <2>5. a \in {"accepted", "ignored"}
    BY <1>4, <2>3, <2>4 DEF Acceptance
  <2> QED BY <2>5
<1> QED BY <1>1, <1>2, <1>3, <1>4 DEF PendingKinds

\* Numbered messages of which the first is taken, and to which one is added.
LEMMA NumberedTail ==
  ASSUME NEW q \in Seq(Message), q # << >>, NEW a \in Nat, NEW b \in Nat, Numbered(q, a, b)
  PROVE  /\ q[1].rev = a + 1
         /\ Numbered(Tail(q), a + 1, b)
<1>1. Len(q) \in Nat /\ Len(q) >= 1 /\ Len(Tail(q)) = Len(q) - 1
      /\ \A i \in 1 .. Len(Tail(q)) : Tail(q)[i] = q[i + 1]
  BY HeadTailProperties, EmptySeq
<1>2. a + Len(q) = b /\ \A i \in 1 .. Len(q) : q[i].rev = a + i
  BY DEF Numbered
<1>3. q[1].rev = a + 1
  <2>1. 1 \in 1 .. Len(q)
    BY <1>1
  <2> QED BY <1>2, <2>1
<1>4. (a + 1) + Len(Tail(q)) = b
  <2> DEFINE n == Len(q)
             k == Len(Tail(q))
  <2>1. n \in Nat /\ k = n - 1 /\ a + n = b
    BY <1>1, <1>2
  <2> HIDE DEF n, k
  <2>2. (a + 1) + k = b
    BY <2>1
  <2> QED BY <2>2 DEF k
<1>5. ASSUME NEW i \in 1 .. Len(Tail(q)) PROVE Tail(q)[i].rev = (a + 1) + i
  <2>1. i + 1 \in 1 .. Len(q) /\ Tail(q)[i] = q[i + 1] /\ i \in Nat
    BY <1>1
  <2>2. q[i + 1].rev = a + (i + 1)
    BY <1>2, <2>1
  <2> QED BY <2>1, <2>2
<1> QED BY <1>3, <1>4, <1>5 DEF Numbered

\* A numbered message more.
LEMMA NumberedAppend ==
  ASSUME NEW q \in Seq(Message), NEW m \in Message, NEW a \in Nat, NEW b \in Nat,
         Numbered(q, a, b), m.rev = b + 1
  PROVE  Numbered(Append(q, m), a, b + 1)
<1> DEFINE r == Append(q, m)
<1>1. Len(q) \in Nat /\ Len(r) = Len(q) + 1 /\ r[Len(q) + 1] = m
      /\ \A i \in 1 .. Len(q) : r[i] = q[i]
  OBVIOUS
<1>2. a + Len(q) = b /\ \A i \in 1 .. Len(q) : q[i].rev = a + i
  BY DEF Numbered
<1> HIDE DEF r
<1>3. a + Len(r) = b + 1
  BY <1>1, <1>2
<1>4. ASSUME NEW i \in 1 .. Len(r) PROVE r[i].rev = a + i
  <2>1. CASE i \in 1 .. Len(q)
    BY <1>1, <1>2, <2>1
  <2>2. CASE i = Len(q) + 1
    <3>1. r[i].rev = b + 1
      BY <1>1, <2>2
    <3>2. a + i = b + 1
      BY <1>1, <1>2, <2>2, SMTT(60)
    <3> QED BY <3>1, <3>2
  <2> QED BY <1>1, <2>1, <2>2
<1> QED BY <1>3, <1>4 DEF Numbered, r

\* The slot and the Session after a message of the Server has been taken.
LEMMA TakenSuits ==
  ASSUME NEW sl, NEW ss, NEW os, NEW total \in Nat, Suits(sl, ss, os, total),
         sl.pending # << >>, sl.state # "free",
         Acceptance(ss, Head(sl.pending)) \in {"accepted", "ignored"},
         NEW c \in BOOLEAN, NEW ns, ns = Accepted(ss, Head(sl.pending), c),
         NEW nl \in SlotState, nl.state = sl.state, nl.inbound = sl.inbound,
         nl.pending = Tail(sl.pending), nl.bytes = sl.bytes - Bytes(Head(sl.pending))
  PROVE  Suits(nl, ns, os, total)
<1> DEFINE q == sl.pending
           m == Head(q)
           a == Acceptance(ss, m)
<1>0. /\ sl \in SlotState /\ ss \in SessionState /\ os \in OriginState
      /\ LoadSuits(sl) /\ QueuesSuit(sl, ss) /\ CallsSuit(ss, os) /\ ResultsSuit(sl, os)
      /\ GotSuits(ss, os) /\ TotalSuits(sl, ss, total) /\ FirstSuits(sl, ss, os)
  BY DEF Suits
<1>1. /\ m \in Message /\ m.kind \in PendingKinds
      /\ m.kind # "shared" => sl.state = "connected"
      /\ m.kind = "shared" =>
           m = Shared(total) /\ OfKinds(Tail(q), {"shared"}) = << >>
      /\ m.kind = "result" =>
           /\ OfKinds(Tail(q), {"result"}) = << >>
           /\ IF os.active THEN m = Result(os) ELSE m.rev < os.demand
  BY HeadPending
<1>2. /\ a # "accepted" => ns = ss
      /\ ns \in SessionState /\ SameSession(ss, ns) /\ ns.unacked >= ss.unacked
      /\ a = "accepted" =>
           /\ ns.total = IF m.kind = "shared" THEN m.value ELSE ss.total
           /\ ns.answered = IF m.kind = "answer" THEN m.rev ELSE ss.answered
           /\ ns.got = IF m.kind \in {"shared", "answer"} THEN ss.got ELSE m.result
           /\ ns.value = IF m.kind \in {"shared", "answer"} THEN ss.value ELSE m.value
  BY <1>0, <1>1, AcceptedFields
<1>3. q \in Seq(Message) /\ Len(q) \in Nat /\ Len(Tail(q)) = Len(q) - 1
      /\ \A i \in 1 .. Len(Tail(q)) : Tail(q)[i] = q[i + 1] /\ i + 1 \in 1 .. Len(q)
  BY <1>0, SlotFields
<1>f. /\ ss.demand \in Nat /\ ss.got \in Nat /\ ss.asked \in Nat /\ ss.answered \in Nat
      /\ ss.unacked \in Nat /\ ns.unacked \in Nat
      /\ os.demand \in Nat /\ os.result \in Nat /\ os.asked \in Nat
      /\ m.rev \in Nat /\ m.result \in Nat
  BY <1>0, <1>1, <1>2, SessionFields, OriginFields, MessageFields
<1>s. /\ ns.count = ss.count /\ ns.live = ss.live /\ ns.events = ss.events
      /\ ns.demand = ss.demand /\ ns.asked = ss.asked /\ ns.out = ss.out
      /\ ns.generation = ss.generation
  BY <1>2 DEF SameSession
<1>4. LoadSuits(nl)
  <2>1. SumBytes(q) = Bytes(m) + SumBytes(Tail(q)) /\ Bytes(m) \in Nat /\ SumBytes(Tail(q)) \in Nat
    BY <1>3, SumBytesTail
  <2>2. sl.bytes = SumBytes(q) /\ sl.bytes <= MaxBytes /\ Len(sl.inbound) <= MaxBytes
    BY <1>0 DEF LoadSuits
  <2>3. MaxBytes \in Nat
    BY ConstantsAssumption
  <2>4. nl.bytes = SumBytes(nl.pending) /\ nl.bytes <= MaxBytes
    BY <2>1, <2>2, <2>3
  <2> QED BY <2>2, <2>4 DEF LoadSuits
<1>5. QueuesSuit(nl, ns)
  <2>1. AckedBy(nl.inbound) <= ns.unacked
    <3>1. AckedBy(sl.inbound) <= ss.unacked /\ AckedBy(sl.inbound) \in Nat
      BY <1>0, SlotFields, AckedTail DEF QueuesSuit
    <3> QED BY <1>2, <1>f, <3>1
  <2> QED BY <1>0, <1>3, <1>s, <2>1 DEF QueuesSuit
<1>6. CallsSuit(ns, os)
  BY <1>0, <1>s DEF CallsSuit
<1>7. /\ m.kind # "result" => OfKinds(Tail(q), {"result"}) = OfKinds(q, {"result"})
      /\ m.kind # "shared" => OfKinds(Tail(q), {"shared"}) = OfKinds(q, {"shared"})
      /\ m.kind # "answer" => OfKinds(Tail(q), {"answer"}) = OfKinds(q, {"answer"})
  BY <1>3, OfKindsTail
<1>8. ResultsSuit(nl, os)
  <2>1. CASE m.kind = "result"
    <3>1. Len(OfKinds(nl.pending, {"result"})) = 0
      BY <1>1, <2>1
    <3>2. os.active => os.result >= 1
      BY <1>0 DEF ResultsSuit
    <3> QED BY <3>1, <3>2 DEF ResultsSuit
  <2>2. CASE m.kind # "result"
    BY <1>0, <1>7, <2>2 DEF ResultsSuit
  <2> QED BY <2>1, <2>2
<1>9. ASSUME a = "accepted", m.kind = "result"
      PROVE  os.active /\ m = Result(os) /\ os.demand = ss.demand /\ ns.got = os.result /\ ns.value = os.value
  <2>1. ~ (m.rev > ss.demand) /\ ~ (m.rev < ss.demand)
    BY <1>9 DEF Acceptance
  <2>2. os.demand <= ss.demand
    BY <1>0 DEF CallsSuit
  <2>3. os.active
    <3>1. ~ os.active => m.rev < os.demand
      BY <1>1, <1>9
    <3> QED BY <1>f, <2>1, <2>2, <3>1
  <2>4. m = Result(os)
    BY <1>1, <1>9, <2>3
  <2>5. m.rev = os.demand /\ m.result = os.result /\ m.value = os.value
    BY <1>0, <2>4, ServerMessages
  <2>6. ns.got = m.result /\ ns.value = m.value
    BY <1>2, <1>9
  <2> QED BY <1>f, <2>1, <2>3, <2>4, <2>5, <2>6
<1>10. GotSuits(ns, os)
  <2>1. CASE a = "accepted" /\ m.kind = "result"
    BY <1>9, <1>f, <1>s, <2>1 DEF GotSuits
  <2>2. CASE ~ (a = "accepted" /\ m.kind = "result")
    <3>1. ns.got = ss.got /\ ns.value = ss.value
      BY <1>1, <1>2, <2>2 DEF PendingKinds
    <3> QED BY <1>0, <1>s, <3>1 DEF GotSuits
  <2> QED BY <2>1, <2>2
<1>11. TotalSuits(nl, ns, total)
  <2>1. CASE m.kind = "shared"
    <3>1. a = "accepted"
      <4>1. a \in {"sequence", "accepted"}
        BY <2>1 DEF Acceptance
      <4> QED BY <4>1
    <3> DEFINE v == <<total>>
    <3>2. ns.total = v
      BY <1>1, <1>2, <2>1, <3>1, ServerMessages
    <3>3. v # << >> /\ v[1] + 1 = total + 1
      OBVIOUS
    <3>4. OfKinds(nl.pending, {"shared"}) = << >>
      BY <1>1, <2>1
    <3> HIDE DEF v
    <3> QED BY <3>2, <3>3, <3>4 DEF TotalSuits
  <2>2. CASE m.kind # "shared"
    <3>1. ns.total = ss.total
      BY <1>2, <2>2
    <3>2. OfKinds(nl.pending, {"shared"}) = OfKinds(q, {"shared"})
      BY <1>7, <2>2
    <3> QED BY <1>0, <3>1, <3>2 DEF TotalSuits
  <2> QED BY <2>1, <2>2
<1>12. FirstSuits(nl, ns, os)
  <2> SUFFICES ASSUME ss.generation = 1, sl.state = "connected"
               PROVE  /\ Numbered(OfKinds(ns.out, {"event"}), os.events, ns.events)
                      /\ Numbered(OfKinds(ns.out, {"invoke"}), os.asked, ns.asked)
                      /\ Numbered(OfKinds(nl.pending, {"answer"}), ns.answered, os.asked)
                      /\ OfKinds(ns.out, CallKinds) = << >> =>
                          /\ os.demand = ns.demand /\ os.active = ns.live
                          /\ os.active => os.argument = ns.count
                          /\ os.active /\ OfKinds(nl.pending, {"result"}) = << >>
                               => ns.got = os.result /\ ns.value = os.value
    BY <1>s DEF FirstSuits
  <2>1. /\ Numbered(OfKinds(ss.out, {"event"}), os.events, ss.events)
        /\ Numbered(OfKinds(ss.out, {"invoke"}), os.asked, ss.asked)
        /\ Numbered(OfKinds(q, {"answer"}), ss.answered, os.asked)
        /\ OfKinds(ss.out, CallKinds) = << >> =>
             /\ os.demand = ss.demand /\ os.active = ss.live
             /\ os.active => os.argument = ss.count
             /\ os.active /\ OfKinds(q, {"result"}) = << >>
                 => ss.got = os.result /\ ss.value = os.value
    BY <1>0 DEF FirstSuits
  <2>2. Numbered(OfKinds(nl.pending, {"answer"}), ns.answered, os.asked)
    <3>1. CASE m.kind = "answer"
      <4> DEFINE o == OfKinds(q, {"answer"})
      <4>1. o # << >> /\ o[1] = m /\ OfKinds(Tail(q), {"answer"}) = Tail(o)
        BY <1>3, <3>1, OfKindsTail
      <4>2. o \in Seq(Message)
        BY <1>3, OfKindsType
      <4>3. Numbered(o, ss.answered, os.asked)
        BY <2>1
      <4> HIDE DEF o
      <4>4. m.rev = ss.answered + 1 /\ Numbered(Tail(o), ss.answered + 1, os.asked)
        BY <1>f, <4>1, <4>2, <4>3, NumberedTail
      <4>5. a = "accepted"
        <5>1. ~ (m.rev <= ss.answered)
          BY <1>f, <4>4
        <5>2. a \in {"sequence", "accepted"}
          BY <3>1, <5>1 DEF Acceptance
        <5> QED BY <5>2
      <4>6. ns.answered = m.rev
        BY <1>2, <3>1, <4>5
      <4> QED BY <4>1, <4>4, <4>6
    <3>2. CASE m.kind # "answer"
      <4>1. ns.answered = ss.answered
        BY <1>2, <3>2
      <4> QED BY <1>7, <2>1, <3>2, <4>1
    <3> QED BY <3>1, <3>2
  <2>3. ASSUME OfKinds(ss.out, CallKinds) = << >>, os.active, OfKinds(nl.pending, {"result"}) = << >>
        PROVE  ns.got = os.result /\ ns.value = os.value
    <3>1. CASE m.kind # "result"
      <4>1. ns.got = ss.got /\ ns.value = ss.value
        BY <1>1, <1>2, <3>1 DEF PendingKinds
      <4> QED BY <1>7, <2>1, <2>3, <3>1, <4>1
    <3>2. CASE m.kind = "result" /\ a = "accepted"
      BY <1>9, <3>2
    <3>3. CASE m.kind = "result" /\ a = "ignored"
      <4>1. ns = ss
        BY <1>2, <3>3
      <4>2. m = Result(os)
        BY <1>1, <2>3, <3>3
      <4>3. m.rev = os.demand /\ m.result = os.result /\ m.value = os.value
        BY <1>0, <4>2, ServerMessages
      <4>4. os.demand = ss.demand /\ ss.live
        BY <2>1, <2>3
      <4>5. m.result < ss.got \/ m.result = ss.got
        BY <1>f, <3>3, <4>3, <4>4 DEF Acceptance
      <4>6. os.result >= 1
        BY <1>0, <2>3 DEF ResultsSuit
      <4>7. ss.got > 0
        BY <1>f, <4>3, <4>5, <4>6
      <4>8. ss.got <= os.result /\ (ss.got = os.result => ss.value = os.value)
        BY <1>0, <4>7 DEF GotSuits
      <4>9. ss.got = os.result
        BY <1>f, <4>3, <4>5, <4>8
      <4> QED BY <4>1, <4>8, <4>9
    <3> QED BY <3>1, <3>2, <3>3
  <2> QED BY <1>s, <2>1, <2>2, <2>3
<1> QED BY <1>0, <1>2, <1>4, <1>5, <1>6, <1>8, <1>10, <1>11, <1>12 DEF Suits

-----------------------------------------------------------------------------
(* Sessions that lose their tab or get it back *)

\* What an origin keeps when its result is collected.
SameOrigin(os, no) ==
  /\ no.events = os.events /\ no.asked = os.asked /\ no.demand = os.demand
  /\ no.active = os.active /\ no.argument = os.argument

\* A result collected has a new number if it has a new value.
LEMMA RefreshedFields ==
  ASSUME NEW os \in OriginState, NEW total \in Nat
  PROVE  LET no == Refreshed(os, total)
         IN  /\ no \in OriginState /\ SameOrigin(os, no)
             /\ no.result >= os.result
             /\ no.result = os.result => no = os
             /\ no.active => no.value = Current(no.argument, total)
<1> DEFINE no == Refreshed(os, total)
           v == Current(os.argument, total)
           changed == os.active /\ os.value # v
<1>0. os.argument \in Nat /\ os.result \in Nat
  BY OriginFields
<1>1. v \in Seq(Nat)
  BY <1>0 DEF Current
<1>2. CASE changed
  <2> DEFINE n == os.result + 1
  <2>1. no = [os EXCEPT !.result = n, !.value = v]
    BY <1>2 DEF Refreshed, OriginState
  <2>2. n \in Nat /\ n > os.result
    BY <1>0
  <2>v. v = Current(os.argument, total)
    OBVIOUS
  <2> HIDE DEF no, v, n
  <2>3. no \in OriginState /\ SameOrigin(os, no) /\ no.result = n /\ no.value = v
    BY <1>1, <2>1, <2>2 DEF OriginState, SameOrigin
  <2>4. no.result >= os.result /\ no.result # os.result
    BY <1>0, <2>2, <2>3
  <2>5. no.argument = os.argument
    BY <2>3 DEF SameOrigin
  <2> QED BY <2>3, <2>4, <2>5, <2>v DEF no
<1>3. CASE ~ changed
  <2>1. no = os
    BY <1>3 DEF Refreshed
  <2>2. os.active => os.value = v
    BY <1>3
  <2>3. os.result >= os.result
    BY <1>0
  <2> HIDE DEF no
  <2> QED BY <2>1, <2>2, <2>3 DEF SameOrigin, no
<1> QED BY <1>2, <1>3

\* The snapshots of a queue are its totals.
LEMMA SnapshotsAreTotals ==
  ASSUME NEW q \in Seq(Message)
  PROVE  Snapshots(q) = OfKinds(q, {"shared"}) /\ Snapshots(q) \in Seq(Message)
<1>1. {k \in Kinds : IsSessionResumeSnapshot(k)} = {"shared"}
  BY DEF Kinds, IsSessionResumeSnapshot
<1> QED BY <1>1, OfKindsType DEF Snapshots

\* A slot without its tab: what it had queued is dropped but for the total.
LEMMA StaleSuits ==
  ASSUME NEW sl, NEW ss, NEW os, NEW total \in Nat, Suits(sl, ss, os, total),
         sl.state # "free", NEW state \in {"stale", "removing"}
  PROVE  /\ Suits(Stale(sl, state), StaleSession(ss), Refreshed(os, total), total)
         /\ Stale(sl, state).state = state /\ Stale(sl, state).inbound = << >>
         /\ Stale(sl, state).pending = OfKinds(sl.pending, {"shared"})
         /\ Stale(sl, state).bytes \in Nat /\ Stale(sl, state).bytes <= sl.bytes
         /\ Stale(sl, state).bytes = SumBytes(OfKinds(sl.pending, {"shared"}))
<1> DEFINE nl == Stale(sl, state)
           ns == StaleSession(ss)
           no == Refreshed(os, total)
           p == OfKinds(sl.pending, {"shared"})
           b == SumBytes(p)
<1>0. /\ sl \in SlotState /\ ss \in SessionState /\ os \in OriginState
      /\ LoadSuits(sl) /\ QueuesSuit(sl, ss) /\ CallsSuit(ss, os) /\ ResultsSuit(sl, os)
      /\ GotSuits(ss, os) /\ TotalSuits(sl, ss, total) /\ FirstSuits(sl, ss, os)
  BY DEF Suits
<1>1. no \in OriginState /\ SameOrigin(os, no) /\ no.result >= os.result
      /\ (no.result = os.result => no = os)
  BY <1>0, RefreshedFields
<1>f. /\ sl.pending \in Seq(Message) /\ sl.bytes \in Nat /\ ss.out \in Seq(Message)
      /\ ss.unacked \in Nat /\ ss.got \in Nat /\ os.result \in Nat /\ no.result \in Nat
  BY <1>0, <1>1, SlotFields, SessionFields, OriginFields
<1>2. Snapshots(sl.pending) = p /\ p \in Seq(Message) /\ b \in Nat /\ b <= SumBytes(sl.pending)
      /\ \A i \in 1 .. Len(p) : p[i].kind \in {"shared"}
  BY <1>f, SnapshotsAreTotals, OfKindsType, SumBytesType
<1>3. Snapshots(ss.out) = << >>
  <2>1. \A i \in 1 .. Len(ss.out) : ss.out[i].kind \notin {"shared"}
    BY <1>0 DEF QueuesSuit, OutKinds, CallKinds
  <2>2. OfKinds(ss.out, {"shared"}) = << >>
    BY <1>f, <2>1, OfKindsAllOrNone
  <2> QED BY <1>f, <2>2, SnapshotsAreTotals
<1>4. nl = [sl EXCEPT !.state = state, !.inbound = << >>, !.pending = p, !.bytes = b]
  BY <1>2 DEF Stale
<1>5. ns = [ss EXCEPT !.out = << >>]
  BY <1>0, <1>3 DEF StaleSession, SessionState
<1>6. OfKinds(p, {"shared"}) = p /\ OfKinds(p, {"result"}) = << >>
  <2>1. \A i \in 1 .. Len(p) : p[i].kind \notin {"result"}
    BY <1>2
  <2> HIDE DEF p
  <2> QED BY <1>2, <2>1, OfKindsAllOrNone
<1> HIDE DEF nl, ns, no, b
<1>7. /\ nl \in SlotState /\ nl.state = state /\ nl.inbound = << >> /\ nl.pending = p /\ nl.bytes = b
  <2> DEFINE e == << >>
  <2>1. e \in Seq(Frame) /\ nl = [sl EXCEPT !.state = state, !.inbound = e, !.pending = p, !.bytes = b]
    BY <1>4
  <2> HIDE DEF p, e
  <2>2. nl \in SlotState /\ nl.state = state /\ nl.inbound = e /\ nl.pending = p /\ nl.bytes = b
    BY <1>0, <1>2, <2>1 DEF SlotState
  <2> QED BY <2>2 DEF e
<1>8. /\ ns \in SessionState /\ ns.out = << >> /\ ns.unacked = ss.unacked /\ ns.demand = ss.demand
      /\ ns.got = ss.got /\ ns.value = ss.value /\ ns.total = ss.total
      /\ ns.generation = ss.generation
  <2> DEFINE e == << >>
  <2>1. e \in Seq(Message) /\ ns = [ss EXCEPT !.out = e]
    BY <1>5
  <2> HIDE DEF e
  <2>2. /\ ns \in SessionState /\ ns.out = e /\ ns.unacked = ss.unacked /\ ns.demand = ss.demand
        /\ ns.got = ss.got /\ ns.value = ss.value /\ ns.total = ss.total
        /\ ns.generation = ss.generation
    BY <1>0, <2>1 DEF SessionState
  <2> QED BY <2>2 DEF e
<1>9. sl.bytes = SumBytes(sl.pending) /\ sl.bytes <= MaxBytes /\ MaxBytes \in Nat
  BY <1>0, ConstantsAssumption DEF LoadSuits
<1>10. b <= sl.bytes
  BY <1>2, <1>9
<1>11. LoadSuits(nl)
  <2>1. Len(nl.inbound) = 0 /\ nl.state # "free" /\ b = SumBytes(p)
    BY <1>7 DEF b
  <2>2. b <= MaxBytes /\ 0 <= MaxBytes
    BY <1>2, <1>9, <1>f, <1>10
  <2> HIDE DEF p
  <2> QED BY <1>7, <2>1, <2>2 DEF LoadSuits
<1>12. QueuesSuit(nl, ns)
  <2>1. AckedBy(nl.inbound) <= ns.unacked
    BY <1>7, <1>8, <1>f, AckedEmpty
  <2>2. ns.generation >= 1
    BY <1>0, <1>8 DEF QueuesSuit
  <2>3. \A i \in 1 .. Len(nl.pending) : nl.pending[i].kind = "shared"
    BY <1>2, <1>7
  <2>4. \A i \in 1 .. Len(ns.out) : FALSE
    BY <1>8
  <2> HIDE DEF p
  <2> QED BY <1>7, <1>8, <2>1, <2>2, <2>3, <2>4 DEF QueuesSuit, PendingKinds
<1>s. no.demand = os.demand /\ no.active = os.active
  BY <1>1 DEF SameOrigin
<1>13. CallsSuit(ns, no)
  <2>1. OfKinds(ns.out, CallKinds) = << >>
    BY <1>8, OfKindsEmpty
  <2>2. ~ (Len(OfKinds(ns.out, CallKinds)) = 1) /\ Len(OfKinds(ns.out, CallKinds)) <= 1
    BY <2>1
  <2>3. no.demand <= ns.demand
    BY <1>0, <1>8, <1>s DEF CallsSuit
  <2> QED BY <2>2, <2>3, Zenon DEF CallsSuit
<1>14. ResultsSuit(nl, no)
  <2>1. Len(OfKinds(nl.pending, {"result"})) = 0
    BY <1>6, <1>7
  <2>2. no.active => no.result >= 1
    <3>1. os.active => os.result >= 1
      BY <1>0 DEF ResultsSuit
    <3> QED BY <1>1, <1>f, <1>s, <3>1
  <2> QED BY <2>1, <2>2 DEF ResultsSuit
<1>15. GotSuits(ns, no)
  <2> SUFFICES ASSUME ss.got > 0
               PROVE  /\ no.active /\ no.demand = ss.demand /\ ss.got <= no.result
                      /\ ss.got = no.result => ss.value = no.value
    BY <1>8 DEF GotSuits
  <2>1. /\ os.active /\ os.demand = ss.demand /\ ss.got <= os.result
        /\ ss.got = os.result => ss.value = os.value
    BY <1>0 DEF GotSuits
  <2>2. ss.got <= no.result
    BY <1>1, <1>f, <2>1
  <2>3. ASSUME ss.got = no.result PROVE ss.value = no.value
    <3>1. no.result = os.result
      BY <1>1, <1>f, <2>1, <2>3
    <3>2. no = os
      BY <1>1, <3>1
    <3> QED BY <2>1, <2>3, <3>1, <3>2
  <2> QED BY <1>s, <2>1, <2>2, <2>3
<1>16. TotalSuits(nl, ns, total)
  <2>1. OfKinds(nl.pending, {"shared"}) = OfKinds(sl.pending, {"shared"})
    BY <1>6, <1>7
  <2> QED BY <1>0, <1>7, <1>8, <2>1 DEF TotalSuits
<1>17. FirstSuits(nl, ns, no)
  BY <1>7 DEF FirstSuits
<1>18. Suits(nl, ns, no, total)
  BY <1>1, <1>7, <1>8, <1>11, <1>12, <1>13, <1>14, <1>15, <1>16, <1>17 DEF Suits
<1> QED BY <1>2, <1>7, <1>10, <1>18 DEF nl, ns, no, b

IsDrained(g, ss, q, D) ==
  g = [n \in D |-> IF n = 0 THEN ss ELSE Accepted(g[n - 1], q[n], FALSE)]

\* Nothing to deliver, or one message.
LEMMA DrainedSmall ==
  ASSUME NEW ss, NEW m
  PROVE  Drained(ss, << >>) = ss /\ Drained(ss, <<m>>) = Accepted(ss, m, FALSE)
<1>1. Drained(ss, << >>) = ss
  <2> DEFINE q == << >>
             h == [n \in 0 .. 0 |-> ss]
             g == CHOOSE k : IsDrained(k, ss, q, 0 .. Len(q))
  <2>1. Len(q) = 0
    OBVIOUS
  <2>2. \A n \in 0 .. 0 : n = 0
    OBVIOUS
  <2>3. IsDrained(h, ss, q, 0 .. Len(q))
    BY <2>1, <2>2 DEF IsDrained
  <2>4. IsDrained(g, ss, q, 0 .. Len(q))
    <3> HIDE DEF q, h
    <3> QED BY <2>3, Zenon
  <2>5. Drained(ss, q) = g[Len(q)]
    BY DEF Drained, IsDrained
  <2> HIDE DEF g, q
  <2>6. g[0] = ss
    BY <2>1, <2>4 DEF IsDrained
  <2> QED BY <2>1, <2>5, <2>6 DEF q
<1>2. Drained(ss, <<m>>) = Accepted(ss, m, FALSE)
  <2> DEFINE q == <<m>>
             a == Accepted(ss, m, FALSE)
             h == [n \in 0 .. 1 |-> IF n = 0 THEN ss ELSE a]
             g == CHOOSE k : IsDrained(k, ss, q, 0 .. Len(q))
  <2>1. Len(q) = 1 /\ q[1] = m
    OBVIOUS
  <2>2. \A n \in 0 .. 1 : n = 0 \/ n = 1
    OBVIOUS
  <2>3. h[0] = ss /\ h[1] = a
    OBVIOUS
  <2>4. ASSUME NEW n \in 0 .. 1 PROVE h[n] = IF n = 0 THEN ss ELSE Accepted(h[n - 1], q[n], FALSE)
    <3>1. CASE n = 0
      BY <2>3, <3>1
    <3>2. CASE n = 1
      <4>1. n - 1 = 0
        BY <3>2
      <4> HIDE DEF h, q
      <4> QED BY <2>1, <2>3, <3>2, <4>1
    <3> QED BY <2>2, <3>1, <3>2
  <2>5. h = [n \in 0 .. 1 |-> h[n]]
    OBVIOUS
  <2> HIDE DEF h
  <2>6. IsDrained(h, ss, q, 0 .. 1)
    BY <2>4, <2>5 DEF IsDrained
  <2>7. IsDrained(h, ss, q, 0 .. Len(q))
    BY <2>1, <2>6
  <2>8. IsDrained(g, ss, q, 0 .. Len(q))
    <3> HIDE DEF q
    <3> QED BY <2>7, Zenon
  <2>9. Drained(ss, q) = g[Len(q)]
    BY DEF Drained, IsDrained
  <2> HIDE DEF g, q
  <2>10. \A n \in 0 .. 1 : g[n] = IF n = 0 THEN ss ELSE Accepted(g[n - 1], q[n], FALSE)
    BY <2>1, <2>8 DEF IsDrained
  <2>11. g[0] = ss /\ g[1] = Accepted(g[0], q[1], FALSE)
    <3>1. 0 \in 0 .. 1 /\ 1 \in 0 .. 1 /\ 1 - 1 = 0 /\ 1 # 0
      OBVIOUS
    <3>2. g[0] = ss
      BY <2>10, <3>1
    <3>3. g[1] = Accepted(g[1 - 1], q[1], FALSE)
      BY <2>10, <3>1, Zenon
    <3> QED BY <3>1, <3>2, <3>3, Zenon
  <2> QED BY <2>1, <2>9, <2>11 DEF q
<1> QED BY <1>1, <1>2

\* A slot of which nothing that matters is changed: not its state, or from one
\* without a tab to another.
LEMMA SameSuits ==
  ASSUME NEW sl, NEW ss, NEW os, NEW total, Suits(sl, ss, os, total),
         NEW nl \in SlotState, nl.inbound = sl.inbound, nl.pending = sl.pending, nl.bytes = sl.bytes,
         \/ nl.state = sl.state
         \/ {nl.state, sl.state} \subseteq {"stale", "expired", "removing"}
  PROVE  Suits(nl, ss, os, total)
<1>1. LoadSuits(nl) /\ ResultsSuit(nl, os)
  BY DEF Suits, LoadSuits, ResultsSuit
<1>2. QueuesSuit(nl, ss)
  BY DEF Suits, QueuesSuit
<1>3. TotalSuits(nl, ss, total)
  BY DEF Suits, TotalSuits
<1>4. FirstSuits(nl, ss, os)
  BY DEF Suits, FirstSuits
<1> QED BY <1>1, <1>2, <1>3, <1>4 DEF Suits

\* A Session without a tab that has been given the total that was pending.
LEMMA DrainedSuits ==
  ASSUME NEW sl, NEW ss, NEW os, NEW total \in Nat, Suits(sl, ss, os, total),
         sl.state = "stale", NEW nl \in SlotState, nl.state = "stale",
         nl.inbound = << >>, nl.pending = << >>, nl.bytes = 0
  PROVE  Suits(nl, Drained(ss, sl.pending), os, total)
<1> DEFINE q == sl.pending
           x == Shared(total)
<1>0. /\ sl \in SlotState /\ ss \in SessionState /\ LoadSuits(sl) /\ QueuesSuit(sl, ss)
      /\ TotalSuits(sl, ss, total)
  BY DEF Suits
<1>1. q \in Seq(Message) /\ sl.inbound = << >> /\ \A i \in 1 .. Len(q) : q[i].kind \in {"shared"}
  BY <1>0, SlotFields DEF QueuesSuit
<1>2. OfKinds(q, {"shared"}) = q
  BY <1>1, OfKindsAllOrNone
<1>3. q = << >> \/ q = <<x>>
  BY <1>0, <1>2 DEF TotalSuits
<1>4. sl.bytes = SumBytes(q)
  BY <1>0 DEF LoadSuits
<1>5. CASE q = << >>
  <2>1. Drained(ss, q) = ss
    BY <1>5, DrainedSmall
  <2>2. sl.bytes = 0
    BY <1>4, <1>5, SumBytesSmall
  <2> QED BY <1>1, <1>5, <2>1, <2>2, SameSuits
<1>6. CASE q = <<x>>
  <2> HIDE DEF x
  <2>1. q # << >> /\ Head(q) = x /\ Tail(q) = << >>
    BY <1>6
  <2>2. Drained(ss, q) = Accepted(ss, x, FALSE)
    BY <1>6, DrainedSmall
  <2>3. Acceptance(ss, x) \in {"accepted", "ignored"}
    <3>1. Acceptance(ss, x) \in {"accepted", "ignored", "sequence"}
      BY <2>1, NothingIsRefused
    <3>2. ss.total = << >> \/ ss.total[1] + 1 < total + 1
      BY <1>1, <2>1, HeadPending, ServerMessages DEF x
    <3>3. x.kind = "shared" /\ x.rev = total + 1
      BY ServerMessages DEF x
    <3>4. ~ (ss.total # << >> /\ x.rev <= ss.total[1] + 1)
      <4> SUFFICES ASSUME ss.total # << >>, x.rev <= ss.total[1] + 1 PROVE FALSE
        OBVIOUS
      <4>1. ss.total[1] \in Nat
        BY <1>0, SessionFields
      <4> QED BY <3>2, <3>3, <4>1
    <3> QED BY <3>3, <3>4 DEF Acceptance
  <2>4. nl.bytes = sl.bytes - Bytes(x)
    <3>1. Bytes(x) = SumBytes(<<x>>)
      BY SumBytesSmall
    <3>2. sl.bytes \in Nat /\ sl.bytes = Bytes(x)
      BY <1>0, <1>4, <1>6, <3>1, SlotFields
    <3> QED BY <3>2
  <2> QED BY <1>1, <2>1, <2>2, <2>3, <2>4, TakenSuits
<1> QED BY <1>3, <1>5, <1>6

\* A resumed Session starts again with all it exports.
LEMMA ResumedSuits ==
  ASSUME NEW sl, NEW ss, NEW os, NEW total \in Nat, Suits(sl, ss, os, total), sl.state = "stale",
         NEW nl \in SlotState, nl.state = "connected", nl.inbound = sl.inbound,
         nl.pending = sl.pending, nl.bytes = sl.bytes,
         NEW u \in Nat, NEW ns, ns = [ss EXCEPT !.unacked = u, !.generation = @ + 1]
  PROVE  Suits(nl, ns, Refreshed(os, total), total)
<1>0. sl.state # "free" /\ "removing" \in {"stale", "removing"}
  OBVIOUS
<1> DEFINE no == Refreshed(os, total)
           rl == Stale(sl, "removing")
           rs == StaleSession(ss)
<1>1. /\ sl \in SlotState /\ ss \in SessionState /\ LoadSuits(sl) /\ QueuesSuit(sl, ss)
      /\ TotalSuits(sl, ss, total)
  BY DEF Suits
<1>2. Suits(rl, rs, no, total) /\ rl.pending = OfKinds(sl.pending, {"shared"})
  BY <1>0, StaleSuits
<1>f. sl.pending \in Seq(Message) /\ ss.generation \in Nat /\ ss.generation >= 1
      /\ sl.inbound = << >> /\ ss.out = << >>
      /\ \A i \in 1 .. Len(sl.pending) : sl.pending[i].kind \in {"shared"}
  BY <1>1, SlotFields, SessionFields DEF QueuesSuit
<1>3. rl.pending = sl.pending
  BY <1>2, <1>f, OfKindsAllOrNone
<1>4. rs.out = << >> /\ rs.demand = ss.demand /\ rs.got = ss.got /\ rs.value = ss.value
      /\ rs.live = ss.live /\ rs.count = ss.count
  <2> DEFINE e == Snapshots(ss.out)
  <2>1. rs = [ss EXCEPT !.out = e]
    BY <1>1 DEF StaleSession, SessionState
  <2>2. e = << >>
    BY <1>f, OfKindsEmpty DEF Snapshots
  <2> HIDE DEF e, rs
  <2>3. rs.out = e /\ rs.demand = ss.demand /\ rs.got = ss.got /\ rs.value = ss.value
        /\ rs.live = ss.live /\ rs.count = ss.count
    BY <1>1, <2>1 DEF SessionState
  <2> QED BY <2>2, <2>3 DEF rs
<1>5. /\ ns \in SessionState /\ ns.out = << >> /\ ns.demand = ss.demand /\ ns.got = ss.got
      /\ ns.value = ss.value /\ ns.live = ss.live /\ ns.count = ss.count /\ ns.total = ss.total
      /\ ns.unacked = u /\ ns.generation = ss.generation + 1
  <2> DEFINE g == ss.generation + 1
  <2>1. g \in Nat /\ ns = [ss EXCEPT !.unacked = u, !.generation = g]
    BY <1>1, <1>f DEF SessionState
  <2>e. ss.out = << >>
    BY <1>f
  <2> HIDE DEF g
  <2>2. /\ ns \in SessionState /\ ns.out = ss.out /\ ns.demand = ss.demand /\ ns.got = ss.got
        /\ ns.value = ss.value /\ ns.live = ss.live /\ ns.count = ss.count /\ ns.total = ss.total
        /\ ns.unacked = u /\ ns.generation = g
    BY <1>1, <2>1 DEF SessionState
  <2> QED BY <2>e, <2>2 DEF g
<1> HIDE DEF no, rl, rs
<1>6. CallsSuit(ns, no)
  BY <1>2, <1>4, <1>5 DEF Suits, CallsSuit
<1>7. ResultsSuit(nl, no)
  BY <1>2, <1>3 DEF Suits, ResultsSuit
<1>8. GotSuits(ns, no)
  BY <1>2, <1>4, <1>5 DEF Suits, GotSuits
<1>9. TotalSuits(nl, ns, total)
  BY <1>1, <1>5 DEF TotalSuits
<1>10. LoadSuits(nl)
  BY <1>1 DEF LoadSuits
<1>11. QueuesSuit(nl, ns)
  <2>1. AckedBy(nl.inbound) <= ns.unacked
    BY <1>f, <1>5, AckedEmpty
  <2>2. ns.generation >= 1
    BY <1>5, <1>f
  <2>3. \A i \in 1 .. Len(ns.out) : FALSE
    BY <1>5
  <2> QED BY <1>1, <2>1, <2>2, <2>3 DEF QueuesSuit
<1>12. FirstSuits(nl, ns, no)
  <2>1. ns.generation # 1
    BY <1>5, <1>f
  <2> QED BY <2>1 DEF FirstSuits
<1> QED BY <1>2, <1>5, <1>6, <1>7, <1>8, <1>9, <1>10, <1>11, <1>12 DEF Suits, no

-----------------------------------------------------------------------------
(* Frames of the tab *)

\* A frame is admitted: it acknowledges no more than the tab was sent.
LEMMA AdmittedSuits ==
  ASSUME NEW sl, NEW ss, NEW os, NEW total, Suits(sl, ss, os, total), sl.state = "connected",
         NEW f \in Frame, AckedBy(sl.inbound) + f.ack <= ss.unacked,
         Len(sl.inbound) + 1 <= MaxBytes,
         NEW nl \in SlotState, nl.state = sl.state, nl.inbound = Append(sl.inbound, f),
         nl.pending = sl.pending, nl.bytes = sl.bytes
  PROVE  Suits(nl, ss, os, total)
<1>0. sl \in SlotState /\ LoadSuits(sl) /\ QueuesSuit(sl, ss)
  BY DEF Suits
<1>f. sl.inbound \in Seq(Frame)
  BY <1>0, SlotFields
<1>1. LoadSuits(nl)
  <2>1. Len(nl.inbound) = Len(sl.inbound) + 1
    BY <1>f
  <2> QED BY <1>0, <2>1 DEF LoadSuits
<1>2. QueuesSuit(nl, ss)
  <2>1. AckedBy(nl.inbound) <= ss.unacked
    BY <1>f, AckedAppend
  <2> QED BY <1>0, <2>1 DEF QueuesSuit
<1>3. ResultsSuit(nl, os) /\ TotalSuits(nl, ss, total)
  BY DEF Suits, ResultsSuit, TotalSuits
<1>4. FirstSuits(nl, ss, os)
  BY DEF Suits, FirstSuits
<1> QED BY <1>1, <1>2, <1>3, <1>4 DEF Suits

\* A frame is taken: what it acknowledges is forgotten.
LEMMA AcknowledgedSuits ==
  ASSUME NEW sl, NEW ss, NEW os, NEW total, Suits(sl, ss, os, total), sl.state = "connected",
         sl.inbound # << >>, NEW ns, ns = [ss EXCEPT !.unacked = @ - Head(sl.inbound).ack],
         NEW nl \in SlotState, nl.state = sl.state, nl.inbound = Tail(sl.inbound),
         nl.pending = sl.pending, nl.bytes = sl.bytes
  PROVE  Suits(nl, ns, os, total)
<1>0. sl \in SlotState /\ ss \in SessionState /\ LoadSuits(sl) /\ QueuesSuit(sl, ss)
  BY DEF Suits
<1> DEFINE q == sl.inbound
           a == Head(q).ack
           u == ss.unacked - a
<1>f. q \in Seq(Frame) /\ ss.unacked \in Nat
  BY <1>0, SlotFields, SessionFields
<1>1. AckedBy(q) \in Nat /\ AckedBy(q) = a + AckedBy(Tail(q)) /\ AckedBy(Tail(q)) \in Nat
  BY <1>f, AckedTail
<1>2. a \in Nat
  <2>1. Head(q) \in Frame
    BY <1>f, HeadTailProperties
  <2> QED BY <2>1 DEF Frame
<1>3. u \in Nat /\ AckedBy(Tail(q)) <= u
  <2>1. AckedBy(q) <= ss.unacked
    BY <1>0 DEF QueuesSuit
  <2> QED BY <1>f, <1>1, <1>2, <2>1
<1>4. ns = [ss EXCEPT !.unacked = u]
  BY <1>0 DEF SessionState
<1> HIDE DEF u
<1>5. /\ ns \in SessionState /\ ns.unacked = u /\ SameSession(ss, ns) /\ ns.answered = ss.answered
      /\ ns.got = ss.got /\ ns.value = ss.value /\ ns.total = ss.total
  BY <1>0, <1>3, <1>4 DEF SessionState, SameSession
<1>s. /\ ns.count = ss.count /\ ns.live = ss.live /\ ns.events = ss.events
      /\ ns.demand = ss.demand /\ ns.asked = ss.asked /\ ns.out = ss.out
      /\ ns.generation = ss.generation
  BY <1>5 DEF SameSession
<1>6. LoadSuits(nl)
  <2>1. Len(Tail(q)) <= MaxBytes
    <3>1. Len(q) \in Nat /\ Len(Tail(q)) = Len(q) - 1 /\ MaxBytes \in Nat
      BY <1>f, ConstantsAssumption
    <3>2. Len(q) <= MaxBytes
      BY <1>0 DEF LoadSuits
    <3> QED BY <3>1, <3>2
  <2> QED BY <1>0, <2>1 DEF LoadSuits
<1>7. QueuesSuit(nl, ns)
  <2>1. AckedBy(nl.inbound) <= ns.unacked
    BY <1>3, <1>5
  <2> QED BY <1>0, <1>s, <2>1 DEF QueuesSuit
<1>8. CallsSuit(ns, os) /\ GotSuits(ns, os) /\ ResultsSuit(nl, os)
  BY <1>5, <1>s DEF Suits, CallsSuit, GotSuits, ResultsSuit
<1>9. TotalSuits(nl, ns, total)
  BY <1>5, <1>s DEF Suits, TotalSuits
<1>10. FirstSuits(nl, ns, os)
  BY <1>5, <1>s DEF Suits, FirstSuits
<1> QED BY <1>5, <1>6, <1>7, <1>8, <1>9, <1>10 DEF Suits

\* What a turn sends.
LiveAfter(ss, kind) == IF kind = "toggle" THEN ~ss.live ELSE ss.live
CountAfter(ss, kind) == IF kind = "press" THEN ss.count + 1 ELSE ss.count
EventOf(ss, kind) == IF kind = "press" THEN <<Msg("event", ss.events + 1, 0, << >>)>> ELSE << >>
AskOf(ss, kind) == IF kind = "ask" THEN <<Msg("invoke", ss.asked + 1, 0, << >>)>> ELSE << >>
CallOf(ss, kind) ==
  IF LiveAfter(ss, kind) /\ kind # "ask"
  THEN <<Msg("request", ss.demand + 1, 0, <<CountAfter(ss, kind)>>)>>
  ELSE IF ss.live /\ ~LiveAfter(ss, kind) THEN <<Msg("detach", ss.demand + 1, 0, << >>)>>
  ELSE << >>
SentBy(ss, kind) == EventOf(ss, kind) \o AskOf(ss, kind) \o CallOf(ss, kind)

\* One message or none, of its kind and with the next number.
IsNext(q, kinds, n) ==
  \/ q = << >>
  \/ \E m \in Message : q = <<m>> /\ m.kind \in kinds /\ m.rev = n

\* One message or none is a sequence of messages.
LEMMA NextIsSequence ==
  ASSUME NEW q, NEW kinds, NEW n, IsNext(q, kinds, n)
  PROVE  q \in Seq(Message) /\ \A i \in 1 .. Len(q) : q[i].kind \in kinds /\ q[i].rev = n
<1>1. CASE q = << >>
  BY <1>1
<1>2. CASE q # << >>
  <2>1. PICK m \in Message : q = <<m>> /\ m.kind \in kinds /\ m.rev = n
    BY <1>2 DEF IsNext
  <2> QED BY <2>1
<1> QED BY <1>1, <1>2

\* What a turn sends are messages with the next numbers.
LEMMA SentByTurn ==
  ASSUME NEW ss \in SessionState, NEW kind \in {"press", "toggle", "ask"}
  PROVE  /\ IsNext(EventOf(ss, kind), {"event"}, ss.events + 1)
         /\ IsNext(AskOf(ss, kind), {"invoke"}, ss.asked + 1)
         /\ IsNext(CallOf(ss, kind), CallKinds, ss.demand + 1)
<1>f. ss.count \in Nat /\ ss.events \in Nat /\ ss.asked \in Nat /\ ss.demand \in Nat
  BY SessionFields
<1> DEFINE z == 0
           e == << >>
<1>1. z \in Nat /\ e \in Seq(Nat) /\ {"event", "invoke", "request", "detach"} \subseteq Kinds
  BY DEF Kinds
<1>2. IsNext(EventOf(ss, kind), {"event"}, ss.events + 1)
  <2> DEFINE n == ss.events + 1
             m == Msg("event", n, z, e)
  <2>1. n \in Nat
    BY <1>f
  <2>2. EventOf(ss, kind) = IF kind = "press" THEN <<m>> ELSE << >>
    BY DEF EventOf
  <2> HIDE DEF z, e, n
  <2>3. m \in Message /\ m.kind = "event" /\ m.rev = n
    BY <1>1, <2>1, MsgFields
  <2> HIDE DEF m
  <2>4. IsNext(EventOf(ss, kind), {"event"}, n)
    BY <2>2, <2>3 DEF IsNext
  <2> QED BY <2>4 DEF n
<1>3. IsNext(AskOf(ss, kind), {"invoke"}, ss.asked + 1)
  <2> DEFINE n == ss.asked + 1
             m == Msg("invoke", n, z, e)
  <2>1. n \in Nat
    BY <1>f
  <2>2. AskOf(ss, kind) = IF kind = "ask" THEN <<m>> ELSE << >>
    BY DEF AskOf
  <2> HIDE DEF z, e, n
  <2>3. m \in Message /\ m.kind = "invoke" /\ m.rev = n
    BY <1>1, <2>1, MsgFields
  <2> HIDE DEF m
  <2>4. IsNext(AskOf(ss, kind), {"invoke"}, n)
    BY <2>2, <2>3 DEF IsNext
  <2> QED BY <2>4 DEF n
<1>4. IsNext(CallOf(ss, kind), CallKinds, ss.demand + 1)
  <2> DEFINE n == ss.demand + 1
             v == <<CountAfter(ss, kind)>>
             m == Msg("request", n, z, v)
             d == Msg("detach", n, z, e)
  <2>1. n \in Nat /\ v \in Seq(Nat)
    BY <1>f DEF CountAfter
  <2>2. CallOf(ss, kind) \in {<<m>>, <<d>>, << >>}
    BY DEF CallOf
  <2> HIDE DEF z, e, n, v
  <2>3. m \in Message /\ m.kind \in CallKinds /\ m.rev = n
    BY <1>1, <2>1, MsgFields DEF CallKinds
  <2>4. d \in Message /\ d.kind \in CallKinds /\ d.rev = n
    BY <1>1, <2>1, MsgFields DEF CallKinds
  <2> HIDE DEF m, d
  <2>5. IsNext(CallOf(ss, kind), CallKinds, n)
    BY <2>2, <2>3, <2>4 DEF IsNext
  <2> QED BY <2>5 DEF n
<1> QED BY <1>2, <1>3, <1>4

\* What a turn makes of the Session.
LEMMA TurnFields ==
  ASSUME NEW ss \in SessionState, NEW kind \in {"press", "toggle", "ask"}
  PROVE  LET ns == Turn(ss, kind)
         IN  /\ ns \in SessionState
             /\ ns.count = CountAfter(ss, kind) /\ ns.live = LiveAfter(ss, kind)
             /\ ns.events = ss.events + Len(EventOf(ss, kind))
             /\ ns.asked = ss.asked + Len(AskOf(ss, kind))
             /\ ns.demand = ss.demand + Len(CallOf(ss, kind))
             /\ ns.got = IF CallOf(ss, kind) = << >> THEN ss.got ELSE 0
             /\ ns.out = PushedAll(ss.out, SentBy(ss, kind))
             /\ ns.unacked >= ss.unacked /\ ns.answered = ss.answered /\ ns.value = ss.value
             /\ ns.total = ss.total /\ ns.generation = ss.generation
<1> DEFINE ns == Turn(ss, kind)
           n1 == CountAfter(ss, kind)
           n2 == LiveAfter(ss, kind)
           n3 == ss.events + Len(EventOf(ss, kind))
           n4 == ss.asked + Len(AskOf(ss, kind))
           n5 == ss.demand + Len(CallOf(ss, kind))
           n6 == IF CallOf(ss, kind) = << >> THEN ss.got ELSE 0
           n7 == PushedAll(ss.out, SentBy(ss, kind))
           n8 == IF kind = "ask" THEN ss.unacked ELSE ss.unacked + 1
<1>f. /\ ss.count \in Nat /\ ss.events \in Nat /\ ss.asked \in Nat /\ ss.demand \in Nat
      /\ ss.got \in Nat /\ ss.unacked \in Nat /\ ss.live \in BOOLEAN /\ ss.out \in Seq(Message)
  BY SessionFields
<1>1. /\ EventOf(ss, kind) \in Seq(Message) /\ AskOf(ss, kind) \in Seq(Message)
      /\ CallOf(ss, kind) \in Seq(Message)
  BY SentByTurn, NextIsSequence
<1>2. SentBy(ss, kind) \in Seq(Message)
  BY <1>1 DEF SentBy
<1>3. n7 \in Seq(Message)
  BY <1>f, <1>2, PushedAllOf
<1>4. n1 \in Nat /\ n2 \in BOOLEAN
  <2>1. n1 \in Nat
    BY <1>f DEF CountAfter
  <2>2. CASE kind = "toggle"
    BY <2>1, <2>2, Zenon DEF LiveAfter
  <2>3. CASE kind # "toggle"
    BY <1>f, <2>1, <2>3, Zenon DEF LiveAfter
  <2> QED BY <2>2, <2>3
<1>5. n3 \in Nat /\ n4 \in Nat /\ n5 \in Nat
  BY <1>f, <1>1, LenProperties, SMTT(60)
<1>6. n6 \in Nat /\ n8 \in Nat /\ n8 >= ss.unacked
  BY <1>f
<1>7. ns = [ss EXCEPT !.count = n1, !.live = n2, !.events = n3, !.asked = n4, !.demand = n5,
                      !.got = n6, !.out = n7, !.unacked = n8]
  BY DEF Turn, CountAfter, LiveAfter, EventOf, AskOf, CallOf, SentBy, SessionState
<1> HIDE DEF ns, n1, n2, n3, n4, n5, n6, n7, n8
<1>8. /\ ns \in SessionState /\ ns.count = n1 /\ ns.live = n2 /\ ns.events = n3 /\ ns.asked = n4
      /\ ns.demand = n5 /\ ns.got = n6 /\ ns.out = n7 /\ ns.unacked = n8
      /\ ns.answered = ss.answered /\ ns.value = ss.value
      /\ ns.total = ss.total /\ ns.generation = ss.generation
  BY <1>3, <1>4, <1>5, <1>6, <1>7 DEF SessionState
<1> QED BY <1>6, <1>8 DEF ns, n1, n2, n3, n4, n5, n6, n7

\* Which kinds pushing what a Session sends leaves: events and invocations
\* always, calls unless there is a new one.
LEMMA KeptBySent ==
  ASSUME NEW ms \in Seq(Message), \A i \in 1 .. Len(ms) : ms[i].kind \in OutKinds
  PROVE  /\ KindsKept(ms) \cap {"event"} = {"event"}
         /\ KindsKept(ms) \cap {"invoke"} = {"invoke"}
         /\ (\A i \in 1 .. Len(ms) : ms[i].kind \notin CallKinds)
              => KindsKept(ms) \cap CallKinds = CallKinds
         /\ (\E i \in 1 .. Len(ms) : ms[i].kind \in CallKinds)
              => KindsKept(ms) \cap CallKinds = {}
<1>1. DOMAIN ms = 1 .. Len(ms)
  BY LenProperties
<1>2. \A k : ~ ReplacesPending(k, "event") /\ ~ ReplacesPending(k, "invoke")
  <2> SUFFICES ASSUME NEW k PROVE ~ ReplacesPending(k, "event") /\ ~ ReplacesPending(k, "invoke")
    OBVIOUS
  <2>1. CASE k \in {"shared", "result"}
    BY <2>1 DEF ReplacesPending
  <2>2. CASE k \notin {"shared", "result"}
    BY <2>2 DEF ReplacesPending
  <2> QED BY <2>1, <2>2
<1>3. "event" \in Kinds /\ "invoke" \in Kinds /\ CallKinds \subseteq Kinds
  BY DEF Kinds, CallKinds
<1>4. "event" \in KindsKept(ms) /\ "invoke" \in KindsKept(ms)
  BY <1>2, <1>3, Zenon DEF KindsKept
<1>5. ASSUME \A i \in 1 .. Len(ms) : ms[i].kind \notin CallKinds
      PROVE  CallKinds \subseteq KindsKept(ms)
  <2>1. ASSUME NEW k \in CallKinds, NEW i \in 1 .. Len(ms) PROVE ~ ReplacesPending(ms[i].kind, k)
    <3>1. ms[i].kind \in {"event", "invoke"}
      BY <1>5 DEF OutKinds
    <3> QED BY <3>1 DEF ReplacesPending, CallKinds
  <2> QED BY <1>1, <1>3, <2>1 DEF KindsKept
<1>6. ASSUME NEW i \in 1 .. Len(ms), ms[i].kind \in CallKinds
      PROVE  KindsKept(ms) \cap CallKinds = {}
  <2>1. ASSUME NEW k \in CallKinds PROVE ReplacesPending(ms[i].kind, k)
    BY <1>6 DEF ReplacesPending, CallKinds
  <2> QED BY <1>1, <2>1 DEF KindsKept
<1> QED BY <1>4, <1>5, <1>6

\* The queue q after an event, an invocation and a call, or none of them.
Joined(e, a, c) == e \o a \o c
HoldsNext(p, q, e, a, c) ==
  /\ p \in Seq(Message)
  /\ OfKinds(p, {"event"}) = OfKinds(q, {"event"}) \o e
  /\ OfKinds(p, {"invoke"}) = OfKinds(q, {"invoke"}) \o a
  /\ OfKinds(p, CallKinds) = IF c = << >> THEN OfKinds(q, CallKinds) ELSE c
  /\ (\A i \in 1 .. Len(q) : q[i].kind \in OutKinds)
       => \A i \in 1 .. Len(p) : p[i].kind \in OutKinds

\* What the Session's queue holds after a turn.
LEMMA TurnPushes ==
  ASSUME NEW q \in Seq(Message), NEW e, NEW a, NEW c, NEW n1, NEW n2, NEW n3,
         IsNext(e, {"event"}, n1), IsNext(a, {"invoke"}, n2), IsNext(c, CallKinds, n3),
         NEW p, p = PushedAll(q, Joined(e, a, c))
  PROVE  HoldsNext(p, q, e, a, c)
<1> DEFINE ea == e \o a
           ms == ea \o c
<1>0. p = PushedAll(q, ms)
  BY DEF Joined
<1>1. /\ e \in Seq(Message) /\ \A i \in 1 .. Len(e) : e[i].kind \in {"event"}
      /\ a \in Seq(Message) /\ \A i \in 1 .. Len(a) : a[i].kind \in {"invoke"}
      /\ c \in Seq(Message) /\ \A i \in 1 .. Len(c) : c[i].kind \in CallKinds
  BY NextIsSequence
<1>2. ea \in Seq(Message) /\ ms \in Seq(Message)
  BY <1>1, ConcatProperties
<1>3. /\ OfKinds(e, {"event"}) = e /\ OfKinds(e, {"invoke"}) = << >> /\ OfKinds(e, CallKinds) = << >>
  <2>1. /\ \A i \in 1 .. Len(e) : e[i].kind \notin {"invoke"}
        /\ \A i \in 1 .. Len(e) : e[i].kind \notin CallKinds
    BY <1>1 DEF CallKinds
  <2> QED BY <1>1, <2>1, OfKindsAllOrNone
<1>4. /\ OfKinds(a, {"event"}) = << >> /\ OfKinds(a, {"invoke"}) = a /\ OfKinds(a, CallKinds) = << >>
  <2>1. /\ \A i \in 1 .. Len(a) : a[i].kind \notin {"event"}
        /\ \A i \in 1 .. Len(a) : a[i].kind \notin CallKinds
    BY <1>1 DEF CallKinds
  <2> QED BY <1>1, <2>1, OfKindsAllOrNone
<1>5. /\ OfKinds(c, {"event"}) = << >> /\ OfKinds(c, {"invoke"}) = << >> /\ OfKinds(c, CallKinds) = c
  <2>1. /\ \A i \in 1 .. Len(c) : c[i].kind \notin {"event"}
        /\ \A i \in 1 .. Len(c) : c[i].kind \notin {"invoke"}
    BY <1>1 DEF CallKinds
  <2> QED BY <1>1, <2>1, OfKindsAllOrNone
<1>6. \A K : OfKinds(ms, K) = (OfKinds(e, K) \o OfKinds(a, K)) \o OfKinds(c, K)
  <2> SUFFICES ASSUME NEW K
               PROVE  OfKinds(ms, K) = (OfKinds(e, K) \o OfKinds(a, K)) \o OfKinds(c, K)
    OBVIOUS
  <2>1. OfKinds(ea, K) = OfKinds(e, K) \o OfKinds(a, K)
    BY <1>1, OfKindsConcat, SMTT(60)
  <2>3. ea \in Seq(Message) /\ c \in Seq(Message)
    BY <1>1, <1>2
  <2> HIDE DEF ea
  <2>2. OfKinds(ea \o c, K) = OfKinds(ea, K) \o OfKinds(c, K)
    BY ONLY <2>3, OfKindsConcat
  <2> QED BY <2>1, <2>2
<1>7. OfKinds(ms, {"event"}) = e /\ OfKinds(ms, {"invoke"}) = a /\ OfKinds(ms, CallKinds) = c
  <2>1. (e \o << >>) \o << >> = e /\ (<< >> \o a) \o << >> = a /\ (<< >> \o << >>) \o c = c
    BY <1>1, ConcatEmptySeq
  <2> QED BY <1>3, <1>4, <1>5, <1>6, <2>1
<1>8. \A i \in 1 .. Len(ms) : ms[i].kind \in OutKinds
  <2>1. /\ Len(ea) = Len(e) + Len(a) /\ Len(ms) = Len(ea) + Len(c)
        /\ Len(e) \in Nat /\ Len(a) \in Nat /\ Len(c) \in Nat
        /\ \A i \in 1 .. Len(e) + Len(a) : ea[i] = IF i <= Len(e) THEN e[i] ELSE a[i - Len(e)]
    BY <1>1, ConcatProperties, LenProperties
  <2> HIDE DEF ea
  <2>2. \A i \in 1 .. Len(ea) + Len(c) : ms[i] = IF i <= Len(ea) THEN ea[i] ELSE c[i - Len(ea)]
    BY <1>1, <1>2, ConcatProperties
  <2>3. ASSUME NEW i \in 1 .. Len(ea) PROVE ea[i].kind \in OutKinds
    <3>1. CASE i <= Len(e)
      <4>1. i \in 1 .. Len(e) /\ ea[i] = e[i]
        BY <2>1, <3>1
      <4> QED BY <1>1, <4>1 DEF OutKinds
    <3>2. CASE ~ (i <= Len(e))
      <4>1. i - Len(e) \in 1 .. Len(a) /\ ea[i] = a[i - Len(e)]
        BY <2>1, <3>2
      <4> QED BY <1>1, <4>1 DEF OutKinds
    <3> QED BY <3>1, <3>2
  <2>4. ASSUME NEW i \in 1 .. Len(ms) PROVE ms[i].kind \in OutKinds
    <3>1. CASE i <= Len(ea)
      <4>1. i \in 1 .. Len(ea) /\ ms[i] = ea[i]
        BY <2>1, <2>2, <3>1
      <4> QED BY <2>3, <4>1
    <3>2. CASE ~ (i <= Len(ea))
      <4>1. i - Len(ea) \in 1 .. Len(c) /\ ms[i] = c[i - Len(ea)]
        BY <2>1, <2>2, <3>2
      <4> QED BY <1>1, <4>1 DEF OutKinds
    <3> QED BY <3>1, <3>2
  <2> QED BY <2>4
<1>9. KindsKept(ms) \cap CallKinds = IF c = << >> THEN CallKinds ELSE {}
  <2>1. CASE c = << >>
    <3>1. \A i \in 1 .. Len(ms) : ms[i].kind \notin CallKinds
      <4> SUFFICES ASSUME NEW i \in 1 .. Len(ms), ms[i].kind \in CallKinds PROVE FALSE
        OBVIOUS
      <4>1. ms = ea
        <5> HIDE DEF ea
        <5> QED BY <1>2, <2>1, ConcatEmptySeq
      <4>2. /\ Len(ea) = Len(e) + Len(a) /\ Len(e) \in Nat /\ Len(a) \in Nat
            /\ \A j \in 1 .. Len(e) + Len(a) : ea[j] = IF j <= Len(e) THEN e[j] ELSE a[j - Len(e)]
        BY <1>1, ConcatProperties, LenProperties
      <4> HIDE DEF ea, ms
      <4>3. i \in 1 .. Len(e) + Len(a) /\ ea[i].kind \in CallKinds
        BY <4>1, <4>2
      <4>4. CASE i <= Len(e)
        <5>1. i \in 1 .. Len(e) /\ ea[i] = e[i]
          BY <4>2, <4>3, <4>4
        <5> QED BY <1>1, <4>3, <5>1 DEF CallKinds
      <4>5. CASE ~ (i <= Len(e))
        <5>1. i - Len(e) \in 1 .. Len(a) /\ ea[i] = a[i - Len(e)]
          BY <4>2, <4>3, <4>5
        <5> QED BY <1>1, <4>3, <5>1 DEF CallKinds
      <4> QED BY <4>4, <4>5
    <3> HIDE DEF ms
    <3> QED BY <1>2, <1>8, <2>1, <3>1, KeptBySent
  <2>2. CASE c # << >>
    <3>1. Len(c) \in Nat /\ Len(c) > 0 /\ Len(ea) \in Nat
      BY <1>1, <1>2, <2>2, EmptySeq, LenProperties
    <3> HIDE DEF ea
    <3>2. Len(ms) = Len(ea) + Len(c)
          /\ \A i \in 1 .. Len(ea) + Len(c) : ms[i] = IF i <= Len(ea) THEN ea[i] ELSE c[i - Len(ea)]
      BY <1>1, <1>2, ConcatProperties
    <3> DEFINE j == Len(ea) + 1
    <3>3. j \in 1 .. Len(ms) /\ ~ (j <= Len(ea)) /\ j - Len(ea) = 1 /\ 1 \in 1 .. Len(c)
      BY <3>1, <3>2
    <3>4. ms[j] = c[1]
      BY <3>2, <3>3
    <3>5. ms[j].kind \in CallKinds
      BY <1>1, <3>3, <3>4
    <3> HIDE DEF j, ms
    <3> QED BY <1>2, <1>8, <2>2, <3>3, <3>5, KeptBySent
  <2> QED BY <2>1, <2>2
<1>10. KindsKept(ms) \cap {"event"} = {"event"} /\ KindsKept(ms) \cap {"invoke"} = {"invoke"}
  <2> HIDE DEF ms
  <2> QED BY <1>2, <1>8, KeptBySent
<1>11. /\ p \in Seq(Message)
       /\ OfKinds(p, {"event"}) = OfKinds(q, KindsKept(ms) \cap {"event"}) \o OfKinds(ms, {"event"})
       /\ OfKinds(p, {"invoke"}) = OfKinds(q, KindsKept(ms) \cap {"invoke"}) \o OfKinds(ms, {"invoke"})
       /\ OfKinds(p, CallKinds) = OfKinds(q, KindsKept(ms) \cap CallKinds) \o OfKinds(ms, CallKinds)
  <2> DEFINE r == PushedAll(q, ms)
  <2> HIDE DEF ms
  <2>1. /\ r \in Seq(Message)
        /\ OfKinds(r, {"event"}) = OfKinds(q, KindsKept(ms) \cap {"event"}) \o OfKinds(ms, {"event"})
        /\ OfKinds(r, {"invoke"}) = OfKinds(q, KindsKept(ms) \cap {"invoke"}) \o OfKinds(ms, {"invoke"})
        /\ OfKinds(r, CallKinds) = OfKinds(q, KindsKept(ms) \cap CallKinds) \o OfKinds(ms, CallKinds)
    BY <1>2, PushedAllOf
  <2>2. p = r
    BY <1>0
  <2> HIDE DEF r
  <2> QED BY <2>1, <2>2
<1>12. OfKinds(p, CallKinds) = IF c = << >> THEN OfKinds(q, CallKinds) ELSE c
  <2>1. CASE c = << >>
    <3>1. OfKinds(q, CallKinds) \in Seq(Message)
      BY OfKindsType
    <3>2. OfKinds(q, CallKinds) \o << >> = OfKinds(q, CallKinds)
      BY <3>1, ConcatEmptySeq
    <3> HIDE DEF ms
    <3> QED BY <1>7, <1>9, <1>11, <2>1, <3>2
  <2>2. CASE c # << >>
    <3>1. << >> \o c = c
      BY <1>1, ConcatEmptySeq
    <3>2. OfKinds(q, {}) = << >>
      BY OfNoKinds
    <3> HIDE DEF ms
    <3> QED BY <1>7, <1>9, <1>11, <2>2, <3>1, <3>2
  <2> QED BY <2>1, <2>2
<1>13. (\A i \in 1 .. Len(q) : q[i].kind \in OutKinds) => \A i \in 1 .. Len(p) : p[i].kind \in OutKinds
  <2> HIDE DEF ms
  <2> QED BY <1>0, <1>2, <1>8, PushedAllKinds
<1>14. OfKinds(p, {"event"}) = OfKinds(q, {"event"}) \o e
       /\ OfKinds(p, {"invoke"}) = OfKinds(q, {"invoke"}) \o a
  <2> HIDE DEF ms
  <2> QED BY <1>7, <1>10, <1>11
<1> QED BY <1>11, <1>12, <1>13, <1>14 DEF HoldsNext

\* The next numbered message, or none, at the end of a numbered queue.
LEMMA NumberedNext ==
  ASSUME NEW q \in Seq(Message), NEW e, NEW kinds, NEW a \in Nat, NEW b \in Nat,
         Numbered(q, a, b), IsNext(e, kinds, b + 1)
  PROVE  Numbered(q \o e, a, b + Len(e))
<1>1. CASE e = << >>
  <2>1. q \o e = q
    BY <1>1, ConcatEmptySeq
  <2>2. Len(e) = 0 /\ b + 0 = b
    BY <1>1
  <2> QED BY <2>1, <2>2
<1>2. CASE e # << >>
  <2>1. PICK m \in Message : e = <<m>> /\ m.kind \in kinds /\ m.rev = b + 1
    BY <1>2 DEF IsNext
  <2>2. q \o e = Append(q, m)
    BY <2>1, AppendIsConcat
  <2>3. Len(e) = 1
    BY <2>1
  <2>4. Numbered(Append(q, m), a, b + 1)
    BY <2>1, NumberedAppend
  <2> QED BY <2>2, <2>3, <2>4
<1> QED BY <1>1, <1>2

\* The call a turn sends, if it sends one.
LEMMA CallOfTurn ==
  ASSUME NEW ss \in SessionState, NEW kind \in {"press", "toggle", "ask"},
         CallOf(ss, kind) # << >>
  PROVE  LET m == CallOf(ss, kind)[1]
         IN  /\ Len(CallOf(ss, kind)) = 1 /\ m.rev = ss.demand + 1
             /\ m.kind = "request" => LiveAfter(ss, kind) /\ m.value = <<CountAfter(ss, kind)>>
             /\ m.kind = "detach" => ~ LiveAfter(ss, kind)
<1> DEFINE n == ss.demand + 1
           z == 0
           e == << >>
           v == <<CountAfter(ss, kind)>>
           m == Msg("request", n, z, v)
           d == Msg("detach", n, z, e)
<1>1. n \in Nat /\ z \in Nat /\ e \in Seq(Nat) /\ v \in Seq(Nat)
  BY SessionFields DEF CountAfter
<1>2. \/ LiveAfter(ss, kind) /\ CallOf(ss, kind) = <<m>>
      \/ ~ LiveAfter(ss, kind) /\ CallOf(ss, kind) = <<d>>
  <2>0. CallOf(ss, kind) = IF LiveAfter(ss, kind) /\ kind # "ask" THEN <<m>>
                           ELSE IF ss.live /\ ~LiveAfter(ss, kind) THEN <<d>> ELSE << >>
    BY DEF CallOf
  <2> HIDE DEF m, d
  <2>1. CASE LiveAfter(ss, kind) /\ kind # "ask"
    BY <2>0, <2>1, Zenon
  <2>2. CASE ~ (LiveAfter(ss, kind) /\ kind # "ask") /\ ss.live /\ ~ LiveAfter(ss, kind)
    BY <2>0, <2>2, Zenon
  <2>3. CASE ~ (LiveAfter(ss, kind) /\ kind # "ask") /\ ~ (ss.live /\ ~ LiveAfter(ss, kind))
    BY <2>0, <2>3, Zenon
  <2> QED BY <2>1, <2>2, <2>3, Zenon
<1>3. m.kind = "request" /\ m.rev = n /\ m.value = v
  <2>1. "request" \in Kinds
    BY DEF Kinds
  <2> HIDE DEF n, z, e, v
  <2> QED BY <1>1, <2>1, MsgFields
<1>4. d.kind = "detach" /\ d.rev = n
  <2>1. "detach" \in Kinds
    BY DEF Kinds
  <2> HIDE DEF n, z, e, v
  <2> QED BY <1>1, <2>1, MsgFields
<1> HIDE DEF m, d
<1>5. CASE LiveAfter(ss, kind) /\ CallOf(ss, kind) = <<m>>
  <2>1. CallOf(ss, kind)[1] = m /\ Len(CallOf(ss, kind)) = 1
    BY <1>5
  <2> QED BY <1>3, <1>5, <2>1
<1>6. CASE ~ LiveAfter(ss, kind) /\ CallOf(ss, kind) = <<d>>
  <2>1. CallOf(ss, kind)[1] = d /\ Len(CallOf(ss, kind)) = 1
    BY <1>6
  <2> QED BY <1>4, <1>6, <2>1
<1> QED BY <1>2, <1>5, <1>6

\* What stays when a turn sends no call.
LEMMA NoCallOfTurn ==
  ASSUME NEW ss \in SessionState, NEW kind \in {"press", "toggle", "ask"},
         CallOf(ss, kind) = << >>
  PROVE  /\ LiveAfter(ss, kind) = ss.live
         /\ ss.live => CountAfter(ss, kind) = ss.count
<1>0. ss.live \in BOOLEAN
  BY SessionFields
<1> DEFINE m == Msg("request", ss.demand + 1, 0, <<CountAfter(ss, kind)>>)
           d == Msg("detach", ss.demand + 1, 0, << >>)
<1>1. <<m>> # << >> /\ <<d>> # << >>
  OBVIOUS
<1>2. ~ (LiveAfter(ss, kind) /\ kind # "ask") /\ ~ (ss.live /\ ~ LiveAfter(ss, kind))
  BY <1>1, Zenon DEF CallOf
<1>3. CASE kind = "toggle"
  BY <1>0, <1>2, <1>3 DEF LiveAfter
<1>4. CASE kind = "press"
  <2>1. LiveAfter(ss, kind) = ss.live
    BY <1>4 DEF LiveAfter
  <2> QED BY <1>2, <1>4, <2>1
<1>5. CASE kind = "ask"
  BY <1>5 DEF LiveAfter, CountAfter
<1> QED BY <1>3, <1>4, <1>5

\* The Session after its turn for an event of the tab.
LEMMA TurnSuits ==
  ASSUME NEW sl, NEW ss, NEW os, NEW total, Suits(sl, ss, os, total), sl.state = "connected",
         NEW kind \in {"press", "toggle", "ask"}
  PROVE  Suits(sl, Turn(ss, kind), os, total)
<1> DEFINE ns == Turn(ss, kind)
           e == EventOf(ss, kind)
           a == AskOf(ss, kind)
           c == CallOf(ss, kind)
           calls == OfKinds(ss.out, CallKinds)
           new == OfKinds(ns.out, CallKinds)
<1>0. /\ sl \in SlotState /\ ss \in SessionState /\ os \in OriginState
      /\ LoadSuits(sl) /\ QueuesSuit(sl, ss) /\ CallsSuit(ss, os) /\ ResultsSuit(sl, os)
      /\ GotSuits(ss, os) /\ TotalSuits(sl, ss, total) /\ FirstSuits(sl, ss, os)
  BY DEF Suits
<1>1. /\ ns \in SessionState
      /\ ns.count = CountAfter(ss, kind) /\ ns.live = LiveAfter(ss, kind)
      /\ ns.events = ss.events + Len(e)
      /\ ns.asked = ss.asked + Len(a)
      /\ ns.demand = ss.demand + Len(c)
      /\ ns.got = IF c = << >> THEN ss.got ELSE 0
      /\ ns.out = PushedAll(ss.out, SentBy(ss, kind))
      /\ ns.unacked >= ss.unacked /\ ns.answered = ss.answered /\ ns.value = ss.value
      /\ ns.total = ss.total /\ ns.generation = ss.generation
  BY <1>0, TurnFields
<1>2. IsNext(e, {"event"}, ss.events + 1) /\ IsNext(a, {"invoke"}, ss.asked + 1)
      /\ IsNext(c, CallKinds, ss.demand + 1)
  BY <1>0, SentByTurn
<1>f. /\ ss.out \in Seq(Message) /\ ss.events \in Nat /\ ss.asked \in Nat /\ ss.demand \in Nat
      /\ ss.unacked \in Nat /\ ns.unacked \in Nat /\ ss.got \in Nat
      /\ os.events \in Nat /\ os.asked \in Nat /\ os.demand \in Nat
  BY <1>0, <1>1, SessionFields, OriginFields
<1> HIDE DEF ns, e, a, c
<1>3. /\ OfKinds(ns.out, {"event"}) = OfKinds(ss.out, {"event"}) \o e
      /\ OfKinds(ns.out, {"invoke"}) = OfKinds(ss.out, {"invoke"}) \o a
      /\ new = IF c = << >> THEN calls ELSE c
      /\ (\A i \in 1 .. Len(ss.out) : ss.out[i].kind \in OutKinds)
           => \A i \in 1 .. Len(ns.out) : ns.out[i].kind \in OutKinds
  <2>1. ns.out = PushedAll(ss.out, Joined(e, a, c))
    BY <1>1 DEF SentBy, Joined, e, a, c
  <2> DEFINE n1 == ss.events + 1
             n2 == ss.asked + 1
             n3 == ss.demand + 1
             q == ss.out
             p == PushedAll(q, Joined(e, a, c))
  <2>2. IsNext(e, {"event"}, n1) /\ IsNext(a, {"invoke"}, n2) /\ IsNext(c, CallKinds, n3)
        /\ q \in Seq(Message) /\ p = PushedAll(q, Joined(e, a, c))
    BY <1>2, <1>f
  <2>3. ns.out = p
    BY <2>1
  <2> HIDE DEF n1, n2, n3, q, p
  <2>4. HoldsNext(p, q, e, a, c)
    BY ONLY <2>2, TurnPushes, Zenon
  <2> QED BY <2>3, <2>4 DEF q, HoldsNext
<1>4. QueuesSuit(sl, ns)
  <2>1. AckedBy(sl.inbound) <= ns.unacked
    <3>1. AckedBy(sl.inbound) <= ss.unacked /\ AckedBy(sl.inbound) \in Nat
      BY <1>0, SlotFields, AckedTail DEF QueuesSuit
    <3> QED BY <1>1, <1>f, <3>1
  <2> QED BY <1>0, <1>1, <1>3, <2>1 DEF QueuesSuit
<1>5. ASSUME c = << >>
      PROVE  /\ ns.live = ss.live /\ ns.demand = ss.demand /\ ns.got = ss.got /\ new = calls
             /\ ss.live => ns.count = ss.count
  <2>1. LiveAfter(ss, kind) = ss.live /\ (ss.live => CountAfter(ss, kind) = ss.count)
    BY <1>0, <1>5, NoCallOfTurn DEF c
  <2>2. Len(c) = 0
    BY <1>5
  <2> QED BY <1>1, <1>3, <1>5, <1>f, <2>1, <2>2
<1>6. ASSUME c # << >>
      PROVE  /\ Len(c) = 1 /\ ns.demand = ss.demand + 1 /\ ns.got = 0 /\ new = c
             /\ c[1].rev = ns.demand
             /\ c[1].kind = "request" => ns.live /\ c[1].value = <<ns.count>>
             /\ c[1].kind = "detach" => ~ ns.live
  <2>1. /\ Len(c) = 1 /\ c[1].rev = ss.demand + 1
        /\ c[1].kind = "request" => LiveAfter(ss, kind) /\ c[1].value = <<CountAfter(ss, kind)>>
        /\ c[1].kind = "detach" => ~ LiveAfter(ss, kind)
    BY <1>0, <1>6, CallOfTurn DEF c
  <2>2. ns.demand = ss.demand + 1 /\ ns.got = 0 /\ new = c
    BY <1>1, <1>3, <1>6, <2>1
  <2> QED BY <1>1, <2>1, <2>2
<1>7. CallsSuit(ns, os)
  <2>0. os.demand <= ss.demand /\ Len(calls) <= 1
    BY <1>0 DEF CallsSuit
  <2>1. CASE c = << >>
    <3>1. Len(calls) = 1 =>
            /\ calls[1].rev = ss.demand /\ os.demand < ss.demand
            /\ calls[1].kind = "request" => ss.live /\ calls[1].value = <<ss.count>>
            /\ calls[1].kind = "detach" => ~ss.live
      BY <1>0 DEF CallsSuit
    <3>2. Len(new) = 1 =>
            /\ new[1].rev = ns.demand /\ os.demand < ns.demand
            /\ new[1].kind = "request" => ns.live /\ new[1].value = <<ns.count>>
            /\ new[1].kind = "detach" => ~ns.live
      BY <1>5, <2>1, <3>1
    <3>3. os.demand <= ns.demand /\ Len(new) <= 1
      BY <1>5, <2>0, <2>1
    <3> QED BY <3>2, <3>3, Zenon DEF CallsSuit
  <2>2. CASE c # << >>
    <3>0. new = c
      <4> HIDE DEF new
      <4> QED BY <1>6, <2>2, Zenon
    <3>1. Len(new) = 1 /\ Len(new) <= 1
      <4>1. Len(c) = 1
        BY <1>6, <2>2
      <4> HIDE DEF new
      <4> QED BY <3>0, <4>1
    <3>2. /\ new[1].rev = ns.demand
          /\ new[1].kind = "request" => ns.live /\ new[1].value = <<ns.count>>
          /\ new[1].kind = "detach" => ~ns.live
      <4> HIDE DEF new
      <4> QED BY <1>6, <2>2, <3>0, Zenon
    <3>3. os.demand < ns.demand /\ os.demand <= ns.demand
      BY <1>6, <1>f, <2>0, <2>2
    <3> QED BY <3>1, <3>2, <3>3, Zenon DEF CallsSuit
  <2> QED BY <2>1, <2>2
<1>8. GotSuits(ns, os)
  <2>1. CASE c = << >>
    BY <1>0, <1>1, <1>5, <2>1 DEF GotSuits
  <2>2. CASE c # << >>
    BY <1>6, <2>2 DEF GotSuits
  <2> QED BY <2>1, <2>2
<1>9. TotalSuits(sl, ns, total)
  BY <1>0, <1>1 DEF TotalSuits
<1>10. FirstSuits(sl, ns, os)
  <2> SUFFICES ASSUME ss.generation = 1
               PROVE  /\ Numbered(OfKinds(ns.out, {"event"}), os.events, ns.events)
                      /\ Numbered(OfKinds(ns.out, {"invoke"}), os.asked, ns.asked)
                      /\ Numbered(OfKinds(sl.pending, {"answer"}), ns.answered, os.asked)
                      /\ new = << >> =>
                          /\ os.demand = ns.demand /\ os.active = ns.live
                          /\ os.active => os.argument = ns.count
                          /\ os.active /\ OfKinds(sl.pending, {"result"}) = << >>
                               => ns.got = os.result /\ ns.value = os.value
    BY <1>1 DEF FirstSuits
  <2>1. /\ Numbered(OfKinds(ss.out, {"event"}), os.events, ss.events)
        /\ Numbered(OfKinds(ss.out, {"invoke"}), os.asked, ss.asked)
        /\ Numbered(OfKinds(sl.pending, {"answer"}), ss.answered, os.asked)
        /\ calls = << >> =>
             /\ os.demand = ss.demand /\ os.active = ss.live
             /\ os.active => os.argument = ss.count
             /\ os.active /\ OfKinds(sl.pending, {"result"}) = << >>
                 => ss.got = os.result /\ ss.value = os.value
    BY <1>0 DEF FirstSuits
  <2>2. OfKinds(ss.out, {"event"}) \in Seq(Message) /\ OfKinds(ss.out, {"invoke"}) \in Seq(Message)
    BY <1>f, OfKindsType
  <2>3. Numbered(OfKinds(ns.out, {"event"}), os.events, ns.events)
    <3> DEFINE o == OfKinds(ss.out, {"event"})
    <3>1. o \in Seq(Message) /\ Numbered(o, os.events, ss.events)
      BY <2>1, <2>2
    <3> HIDE DEF o
    <3>2. Numbered(o \o e, os.events, ss.events + Len(e))
      BY <1>2, <1>f, <3>1, NumberedNext
    <3> QED BY <1>1, <1>3, <3>2 DEF o
  <2>4. Numbered(OfKinds(ns.out, {"invoke"}), os.asked, ns.asked)
    <3> DEFINE o == OfKinds(ss.out, {"invoke"})
    <3>1. o \in Seq(Message) /\ Numbered(o, os.asked, ss.asked)
      BY <2>1, <2>2
    <3> HIDE DEF o
    <3>2. Numbered(o \o a, os.asked, ss.asked + Len(a))
      BY <1>2, <1>f, <3>1, NumberedNext
    <3> QED BY <1>1, <1>3, <3>2 DEF o
  <2>5. Numbered(OfKinds(sl.pending, {"answer"}), ns.answered, os.asked)
    BY <1>1, <2>1
  <2>6. ASSUME new = << >>
        PROVE  /\ os.demand = ns.demand /\ os.active = ns.live
               /\ os.active => os.argument = ns.count
               /\ os.active /\ OfKinds(sl.pending, {"result"}) = << >>
                    => ns.got = os.result /\ ns.value = os.value
    <3>1. c = << >>
      BY <1>3, <2>6
    <3>2. calls = << >>
      BY <1>5, <2>6, <3>1
    <3> HIDE DEF calls, new
    <3>3. ns.live = ss.live /\ ns.demand = ss.demand /\ ns.got = ss.got /\ ns.value = ss.value
          /\ (ss.live => ns.count = ss.count)
      BY <1>1, <1>5, <3>1
    <3> QED BY <2>1, <3>2, <3>3
  <2> QED BY <2>3, <2>4, <2>5, <2>6
<1> QED BY <1>0, <1>1, <1>4, <1>7, <1>8, <1>9, <1>10 DEF Suits, ns

-----------------------------------------------------------------------------
(* A message of the Session is answered *)

\* The head of what a Session has to say, by its kind.
LEMMA HeadOut ==
  ASSUME NEW sl, NEW ss, NEW os, NEW total, Suits(sl, ss, os, total), ss.out # << >>
  PROVE  LET m == Head(ss.out)
         IN  /\ sl.state = "connected" /\ m \in Message /\ m.kind \in OutKinds
             /\ m.kind \notin CallKinds =>
                  OfKinds(Tail(ss.out), CallKinds) = OfKinds(ss.out, CallKinds)
             /\ m.kind \in CallKinds =>
                  /\ OfKinds(Tail(ss.out), CallKinds) = << >>
                  /\ m.rev = ss.demand /\ os.demand < ss.demand
                  /\ m.kind = "request" => ss.live /\ m.value = <<ss.count>>
                  /\ m.kind = "detach" => ~ ss.live
             /\ ss.generation = 1 =>
                  /\ m.kind = "event" => m.rev = os.events + 1
                  /\ m.kind = "invoke" => m.rev = os.asked + 1
<1> DEFINE q == ss.out
           m == Head(q)
           o == OfKinds(q, CallKinds)
<1>0. /\ ss \in SessionState /\ os \in OriginState /\ q \in Seq(Message)
      /\ QueuesSuit(sl, ss) /\ CallsSuit(ss, os) /\ FirstSuits(sl, ss, os)
      /\ os.events \in Nat /\ os.asked \in Nat /\ ss.events \in Nat /\ ss.asked \in Nat
  BY SessionFields, OriginFields DEF Suits
<1>1. m \in Message /\ m = q[1] /\ 1 \in 1 .. Len(q)
  BY <1>0
<1>2. sl.state = "connected" /\ m.kind \in OutKinds
  BY <1>0, <1>1 DEF QueuesSuit
<1>3. m.kind \notin CallKinds => OfKinds(Tail(q), CallKinds) = o
  BY <1>0, OfKindsTail
<1>4. ASSUME m.kind \in CallKinds
      PROVE  /\ OfKinds(Tail(q), CallKinds) = << >>
             /\ m.rev = ss.demand /\ os.demand < ss.demand
             /\ m.kind = "request" => ss.live /\ m.value = <<ss.count>>
             /\ m.kind = "detach" => ~ ss.live
  <2>1. o # << >> /\ o[1] = m /\ OfKinds(Tail(q), CallKinds) = Tail(o)
    BY <1>0, <1>4, OfKindsTail
  <2>2. o \in Seq(Message)
    BY <1>0, OfKindsType
  <2>3. Len(o) <= 1
    BY <1>0 DEF CallsSuit
  <2>4. Len(o) = 1 =>
          /\ o[1].rev = ss.demand /\ os.demand < ss.demand
          /\ o[1].kind = "request" => ss.live /\ o[1].value = <<ss.count>>
          /\ o[1].kind = "detach" => ~ss.live
    BY <1>0 DEF CallsSuit
  <2> HIDE DEF o
  <2>5. Len(o) = 1 /\ Tail(o) = << >>
    <3>1. Len(o) \in Nat /\ Len(o) # 0
      BY <2>1, <2>2, EmptySeq
    <3>2. Len(o) = 1
      <4> DEFINE n == Len(o)
      <4>1. n \in Nat /\ n # 0 /\ n <= 1
        BY <2>3, <3>1
      <4> HIDE DEF n
      <4>2. n = 1
        BY ONLY <4>1
      <4> QED BY <4>2 DEF n
    <3>3. Tail(o) \in Seq(Message) /\ Len(Tail(o)) = 0
      BY <2>1, <2>2, <3>2, HeadTailProperties
    <3> QED BY <3>2, <3>3, EmptySeq
  <2> HIDE DEF m
  <2> QED BY <2>1, <2>4, <2>5, Zenon
<1>5. ASSUME ss.generation = 1, m.kind = "event" PROVE m.rev = os.events + 1
  <2> DEFINE e == OfKinds(q, {"event"})
  <2>1. e # << >> /\ e[1] = m
    BY <1>0, <1>5, OfKindsTail
  <2>2. e \in Seq(Message) /\ Numbered(e, os.events, ss.events)
    BY <1>0, <1>2, <1>5, OfKindsType DEF FirstSuits
  <2> HIDE DEF e
  <2> QED BY <1>0, <2>1, <2>2, NumberedTail
<1>6. ASSUME ss.generation = 1, m.kind = "invoke" PROVE m.rev = os.asked + 1
  <2> DEFINE e == OfKinds(q, {"invoke"})
  <2>1. e # << >> /\ e[1] = m
    BY <1>0, <1>6, OfKindsTail
  <2>2. e \in Seq(Message) /\ Numbered(e, os.asked, ss.asked)
    BY <1>0, <1>2, <1>6, OfKindsType DEF FirstSuits
  <2> HIDE DEF e
  <2> QED BY <1>0, <2>1, <2>2, NumberedTail
<1> HIDE DEF m, q, o
<1>7. /\ sl.state = "connected" /\ m \in Message /\ m.kind \in OutKinds
      /\ m.kind \notin CallKinds => OfKinds(Tail(q), CallKinds) = o
      /\ m.kind \in CallKinds =>
           /\ OfKinds(Tail(q), CallKinds) = << >>
           /\ m.rev = ss.demand /\ os.demand < ss.demand
           /\ m.kind = "request" => ss.live /\ m.value = <<ss.count>>
           /\ m.kind = "detach" => ~ ss.live
      /\ ss.generation = 1 =>
           /\ m.kind = "event" => m.rev = os.events + 1
           /\ m.kind = "invoke" => m.rev = os.asked + 1
  BY <1>1, <1>2, <1>3, <1>4, <1>5, <1>6, Zenon
<1> QED BY <1>7 DEF m, q, o

\* The Server refuses what a Session says only once it has been resumed, or
\* where it is to drop a call it was not told of.
LEMMA VerdictOfHead ==
  ASSUME NEW sl, NEW ss, NEW os, NEW total, Suits(sl, ss, os, total), ss.out # << >>
  PROVE  LET v == Verdict(os, Head(ss.out))
         IN  v \in {"ok", "sequence", "lease"} /\ (v = "sequence" => ss.generation > 1)
<1> DEFINE m == Head(ss.out)
           v == Verdict(os, m)
<1>0. ss.generation \in Nat /\ os.demand \in Nat /\ ss.demand \in Nat /\ ss.generation >= 1
  <2>1. ss \in SessionState /\ os \in OriginState /\ QueuesSuit(sl, ss)
    BY DEF Suits
  <2>2. sl.state = "connected"
    BY HeadOut
  <2> QED BY <2>1, <2>2, SessionFields, OriginFields DEF QueuesSuit
<1>1. /\ m.kind \in OutKinds
      /\ m.kind \in CallKinds => m.rev = ss.demand /\ os.demand < ss.demand
      /\ ss.generation = 1 =>
           /\ m.kind = "event" => m.rev = os.events + 1
           /\ m.kind = "invoke" => m.rev = os.asked + 1
  BY HeadOut
<1> HIDE DEF m
<1>2. CASE m.kind = "event"
  <2>1. v = IF m.rev = os.events + 1 THEN "ok" ELSE "sequence"
    BY <1>2 DEF Verdict
  <2> QED BY <1>0, <1>1, <1>2, <2>1 DEF m
<1>3. CASE m.kind = "invoke"
  <2>1. v = IF m.rev = os.asked + 1 THEN "ok" ELSE "sequence"
    BY <1>3 DEF Verdict
  <2> QED BY <1>0, <1>1, <1>3, <2>1 DEF m
<1>4. CASE m.kind = "request"
  <2>1. v = IF m.rev > os.demand THEN "ok" ELSE "sequence"
    BY <1>4 DEF Verdict
  <2>2. m.rev > os.demand
    BY <1>0, <1>1, <1>4 DEF CallKinds
  <2> QED BY <2>1, <2>2 DEF m
<1>5. CASE m.kind = "detach"
  <2>1. v = IF m.rev <= os.demand THEN "sequence" ELSE IF os.active THEN "ok" ELSE "lease"
    BY <1>5 DEF Verdict
  <2>2. ~ (m.rev <= os.demand)
    BY <1>0, <1>1, <1>5 DEF CallKinds
  <2> QED BY <2>1, <2>2 DEF m
<1> QED BY <1>1, <1>2, <1>3, <1>4, <1>5 DEF OutKinds, CallKinds

\* What the Server makes of an origin when it answers.
LEMMA AnsweredFields ==
  ASSUME NEW os \in OriginState, NEW m \in Message, NEW total \in Nat, NEW n \in Nat,
         m.kind \in OutKinds, m.kind = "request" => m.value = <<n>>
  PROVE  LET no == Answered(os, m, total)
         IN  /\ no \in OriginState
             /\ no.events = IF m.kind = "event" THEN m.rev ELSE os.events
             /\ no.asked = IF m.kind = "invoke" THEN m.rev ELSE os.asked
             /\ no.demand = IF m.kind \in CallKinds THEN m.rev ELSE os.demand
             /\ m.kind \notin CallKinds =>
                  /\ no.active = os.active /\ no.argument = os.argument /\ no.result >= os.result
                  /\ no.result = os.result => no.value = os.value
             /\ m.kind = "request" => no.active /\ no.result = 1 /\ no.argument = n
             /\ m.kind = "detach" => ~ no.active
<1> DEFINE no == Answered(os, m, total)
<1>0. m.rev \in Nat
  BY MessageFields
<1>1. CASE m.kind = "event"
  <2> DEFINE x == [os EXCEPT !.events = m.rev]
  <2>1. no = Refreshed(x, total)
    BY <1>1 DEF Answered
  <2>2. /\ x \in OriginState /\ x.events = m.rev /\ x.asked = os.asked /\ x.demand = os.demand
        /\ x.active = os.active /\ x.argument = os.argument /\ x.result = os.result
        /\ x.value = os.value
    BY <1>0 DEF OriginState
  <2> HIDE DEF x, no
  <2>3. /\ no \in OriginState /\ SameOrigin(x, no)
        /\ no.result >= x.result /\ (no.result = x.result => no = x)
    BY <2>1, <2>2, RefreshedFields
  <2> QED BY <1>1, <2>2, <2>3 DEF SameOrigin, CallKinds, no
<1>2. CASE m.kind = "invoke"
  <2> DEFINE x == [os EXCEPT !.asked = m.rev]
  <2>1. no = Refreshed(x, total)
    BY <1>2 DEF Answered
  <2>2. /\ x \in OriginState /\ x.events = os.events /\ x.asked = m.rev /\ x.demand = os.demand
        /\ x.active = os.active /\ x.argument = os.argument /\ x.result = os.result
        /\ x.value = os.value
    BY <1>0 DEF OriginState
  <2> HIDE DEF x, no
  <2>3. /\ no \in OriginState /\ SameOrigin(x, no)
        /\ no.result >= x.result /\ (no.result = x.result => no = x)
    BY <2>1, <2>2, RefreshedFields
  <2> QED BY <1>2, <2>2, <2>3 DEF SameOrigin, CallKinds, no
<1>3. CASE m.kind = "request"
  <2> DEFINE a == m.value[1]
             v == Current(a, total)
  <2>1. no = [os EXCEPT !.demand = m.rev, !.active = TRUE, !.result = 1, !.argument = a, !.value = v]
    BY <1>3 DEF Answered
  <2>2. a = n
    BY <1>3
  <2>3. a \in Nat /\ v \in Seq(Nat)
    BY <2>2 DEF Current
  <2> HIDE DEF v, a, no
  <2>4. /\ no \in OriginState /\ no.events = os.events /\ no.asked = os.asked /\ no.demand = m.rev
        /\ no.active = TRUE /\ no.result = 1 /\ no.argument = a
    BY <1>0, <2>1, <2>3 DEF OriginState
  <2> QED BY <1>3, <2>2, <2>4 DEF CallKinds, no
<1>4. CASE m.kind = "detach"
  <2>1. no = [os EXCEPT !.demand = m.rev, !.active = FALSE]
    BY <1>4 DEF Answered
  <2> HIDE DEF no
  <2>2. /\ no \in OriginState /\ no.events = os.events /\ no.asked = os.asked /\ no.demand = m.rev
        /\ no.active = FALSE
    BY <1>0, <2>1 DEF OriginState
  <2> QED BY <1>4, <2>2 DEF CallKinds, no
<1> QED BY <1>1, <1>2, <1>3, <1>4 DEF OutKinds, CallKinds

\* The Server's answer makes a result of the call necessary.
HasNewResult(os, no) == no.active /\ (no.demand # os.demand \/ no.result # os.result)
Answer(n) == Msg("answer", n, 0, << >>)

\* What the answer to a message leaves pending for its Session: p after q.
HoldsAnswer(p, q, os, no, total, nt) ==
  /\ p \in Seq(Message) /\ \A i \in 1 .. Len(p) : p[i].kind \in PendingKinds
  /\ OfKinds(p, {"answer"}) =
       IF no.asked = os.asked THEN OfKinds(q, {"answer"})
       ELSE Append(OfKinds(q, {"answer"}), Answer(no.asked))
  /\ OfKinds(p, {"result"}) =
       IF HasNewResult(os, no) THEN <<Result(no)>> ELSE OfKinds(q, {"result"})
  /\ OfKinds(p, {"shared"}) = IF nt = total THEN OfKinds(q, {"shared"}) ELSE <<Shared(nt)>>

\* An answer made of its number.
LEMMA AnswerFields ==
  ASSUME NEW n \in Nat
  PROVE  Answer(n) \in Message /\ Answer(n).kind = "answer" /\ Answer(n).rev = n
<1> DEFINE z == 0
           e == << >>
<1>1. z \in Nat /\ e \in Seq(Nat) /\ "answer" \in Kinds /\ Answer(n) = Msg("answer", n, z, e)
  BY DEF Kinds, Answer
<1> HIDE DEF z, e
<1>2. LET m == Msg("answer", n, z, e) IN m \in Message /\ m.kind = "answer" /\ m.rev = n
  BY <1>1, MsgFields
<1> QED BY <1>1, <1>2

\* The total stays on its way when there is a new one.
LEMMA NewTotalSuits ==
  ASSUME NEW sl, NEW ss \in SessionState, NEW total \in Nat, TotalSuits(sl, ss, total),
         NEW nl, NEW ns, ns.total = ss.total, sl.state # "free",
         OfKinds(nl.pending, {"shared"}) = <<Shared(total + 1)>>
  PROVE  TotalSuits(nl, ns, total + 1)
<1> DEFINE known == IF ss.total = << >> THEN 0 ELSE ss.total[1] + 1
           nt == total + 1
           x == Shared(nt)
           queued == OfKinds(sl.pending, {"shared"})
<1>1. known \in Nat
  <2>1. ss.total \in Seq(Nat)
    BY SessionFields
  <2>2. CASE ss.total # << >>
    BY <2>1, <2>2
  <2> QED BY <2>2
<1>2. known <= total + 1
  <2>1. known = total + 1 \/ known < total + 1
    BY DEF TotalSuits
  <2> HIDE DEF known
  <2> QED BY <1>1, <2>1
<1>3. known < nt + 1
  <2> HIDE DEF known
  <2> QED BY <1>1, <1>2
<1>4. OfKinds(nl.pending, {"shared"}) = <<x>>
  OBVIOUS
<1> HIDE DEF x
<1>5. <<x>> # << >>
  OBVIOUS
<1> HIDE DEF nt
<1>6. TotalSuits(nl, ns, nt)
  BY <1>3, <1>4, <1>5 DEF TotalSuits, x
<1> QED BY <1>6 DEF nt

\* The slot, the Session and its origin after the Server has answered.
LEMMA DeliverySuits ==
  ASSUME NEW sl, NEW ss, NEW os, NEW total \in Nat, Suits(sl, ss, os, total), ss.out # << >>,
         Verdict(os, Head(ss.out)) = "ok",
         NEW nt, nt = IF Head(ss.out).kind = "event" THEN total + 1 ELSE total,
         NEW no, no = Answered(os, Head(ss.out), nt),
         NEW ns, ns = [ss EXCEPT !.out = Tail(@)],
         NEW nl \in SlotState, nl.state = sl.state, nl.inbound = sl.inbound,
         nl.bytes = SumBytes(nl.pending), nl.bytes <= MaxBytes,
         HoldsAnswer(nl.pending, sl.pending, os, no, total, nt)
  PROVE  Suits(nl, ns, no, nt)
<1> DEFINE m == Head(ss.out)
           calls == OfKinds(ss.out, CallKinds)
           results == OfKinds(sl.pending, {"result"})
           left == OfKinds(ns.out, CallKinds)
           new == OfKinds(nl.pending, {"result"})
<1>0. /\ sl \in SlotState /\ ss \in SessionState /\ os \in OriginState
      /\ LoadSuits(sl) /\ QueuesSuit(sl, ss) /\ CallsSuit(ss, os) /\ ResultsSuit(sl, os)
      /\ GotSuits(ss, os) /\ TotalSuits(sl, ss, total) /\ FirstSuits(sl, ss, os)
  BY DEF Suits
<1>1. /\ sl.state = "connected" /\ m \in Message /\ m.kind \in OutKinds
      /\ m.kind \notin CallKinds => OfKinds(Tail(ss.out), CallKinds) = calls
      /\ m.kind \in CallKinds =>
           /\ OfKinds(Tail(ss.out), CallKinds) = << >>
           /\ m.rev = ss.demand /\ os.demand < ss.demand
           /\ m.kind = "request" => ss.live /\ m.value = <<ss.count>>
           /\ m.kind = "detach" => ~ ss.live
      /\ ss.generation = 1 =>
           /\ m.kind = "event" => m.rev = os.events + 1
           /\ m.kind = "invoke" => m.rev = os.asked + 1
  BY HeadOut
<1>f. /\ ss.out \in Seq(Message) /\ ss.count \in Nat /\ ss.events \in Nat /\ ss.asked \in Nat
      /\ ss.demand \in Nat /\ ss.answered \in Nat /\ ss.got \in Nat /\ ss.live \in BOOLEAN
      /\ os.events \in Nat /\ os.asked \in Nat /\ os.demand \in Nat /\ os.result \in Nat
      /\ os.active \in BOOLEAN
  BY <1>0, SessionFields, OriginFields
<1>h. nt \in Nat
  OBVIOUS
<1>i. m.rev \in Nat
  BY <1>1, MessageFields
<1>t. Tail(ss.out) \in Seq(Message)
  BY <1>f
<1>s. /\ ns \in SessionState /\ ns.out = Tail(ss.out)
      /\ ns.count = ss.count /\ ns.live = ss.live /\ ns.events = ss.events
      /\ ns.demand = ss.demand /\ ns.asked = ss.asked /\ ns.answered = ss.answered
      /\ ns.got = ss.got /\ ns.value = ss.value /\ ns.total = ss.total
      /\ ns.unacked = ss.unacked /\ ns.generation = ss.generation
  BY <1>0, <1>t DEF SessionState
<1>2. /\ no \in OriginState
      /\ no.events = IF m.kind = "event" THEN m.rev ELSE os.events
      /\ no.asked = IF m.kind = "invoke" THEN m.rev ELSE os.asked
      /\ no.demand = IF m.kind \in CallKinds THEN m.rev ELSE os.demand
      /\ m.kind \notin CallKinds =>
           /\ no.active = os.active /\ no.argument = os.argument /\ no.result >= os.result
           /\ no.result = os.result => no.value = os.value
      /\ m.kind = "request" => no.active /\ no.result = 1 /\ no.argument = ss.count
      /\ m.kind = "detach" => ~ no.active
  <2>1. m.kind = "request" => m.value = <<ss.count>>
    BY <1>1 DEF CallKinds
  <2> DEFINE n == ss.count
             a == Answered(os, m, nt)
  <2>2. no = a /\ n \in Nat
    BY <1>f
  <2>3. m \in Message /\ m.kind \in OutKinds /\ (m.kind = "request" => m.value = <<n>>)
    BY <1>1, <2>1
  <2> HIDE DEF m, n
  <2>4. /\ a \in OriginState
        /\ a.events = IF m.kind = "event" THEN m.rev ELSE os.events
        /\ a.asked = IF m.kind = "invoke" THEN m.rev ELSE os.asked
        /\ a.demand = IF m.kind \in CallKinds THEN m.rev ELSE os.demand
        /\ m.kind \notin CallKinds =>
             /\ a.active = os.active /\ a.argument = os.argument /\ a.result >= os.result
             /\ a.result = os.result => a.value = os.value
        /\ m.kind = "request" => a.active /\ a.result = 1 /\ a.argument = n
        /\ m.kind = "detach" => ~ a.active
    BY <1>0, <1>h, <2>2, <2>3, AnsweredFields
  <2> HIDE DEF a
  <2> QED BY <2>2, <2>4 DEF n
<1>g. no.result \in Nat /\ no.demand \in Nat /\ no.active \in BOOLEAN
  BY <1>2, OriginFields
<1>3. /\ nl.pending \in Seq(Message) /\ \A i \in 1 .. Len(nl.pending) : nl.pending[i].kind \in PendingKinds
      /\ new = IF HasNewResult(os, no) THEN <<Result(no)>> ELSE results
  BY DEF HoldsAnswer
<1>v. m.kind = "detach" => os.active
  <2> SUFFICES ASSUME m.kind = "detach" PROVE os.active
    OBVIOUS
  <2>1. Verdict(os, m) = IF m.rev <= os.demand THEN "sequence" ELSE IF os.active THEN "ok" ELSE "lease"
    BY DEF Verdict
  <2> QED BY <2>1
<1> HIDE DEF m
<1>l. LoadSuits(nl)
  BY <1>0, <1>1 DEF LoadSuits
<1>q. QueuesSuit(nl, ns)
  <2>1. \A i \in 1 .. Len(Tail(ss.out)) : Tail(ss.out)[i].kind \in OutKinds
    <3>1. Len(ss.out) \in Nat /\ Len(Tail(ss.out)) = Len(ss.out) - 1
          /\ \A i \in 1 .. Len(Tail(ss.out)) : Tail(ss.out)[i] = ss.out[i + 1] /\ i + 1 \in 1 .. Len(ss.out)
      <4> DEFINE q == ss.out
      <4>1. q \in Seq(Message) /\ q # << >>
        BY <1>f
      <4> HIDE DEF q
      <4>2. Len(q) \in Nat /\ Len(Tail(q)) = Len(q) - 1
            /\ \A i \in 1 .. Len(Tail(q)) : Tail(q)[i] = q[i + 1] /\ i + 1 \in 1 .. Len(q)
        BY ONLY <4>1
      <4> QED BY <4>2 DEF q
    <3> QED BY <1>0, <3>1 DEF QueuesSuit
  <2>2. nl.state = "connected"
    BY <1>1
  <2> QED BY <1>0, <1>1, <1>3, <1>s, <2>1, <2>2 DEF QueuesSuit
<1>c. CallsSuit(ns, no)
  <2>0. os.demand <= ss.demand /\ Len(calls) <= 1
    BY <1>0 DEF CallsSuit
  <2>1. CASE m.kind \in CallKinds
    <3>1. left = << >>
      BY <1>1, <1>s, <2>1
    <3>2. Len(left) = 0
      BY <3>1
    <3>3. ~ (Len(left) = 1) /\ Len(left) <= 1
      <4> HIDE DEF left
      <4> QED BY <3>2
    <3>4. no.demand <= ns.demand
      BY <1>1, <1>2, <1>f, <1>s, <2>1
    <3> QED BY <3>3, <3>4, Zenon DEF CallsSuit
  <2>2. CASE m.kind \notin CallKinds
    <3>1. left = calls /\ no.demand = os.demand
      BY <1>1, <1>2, <1>s, <2>2
    <3>2. ns.demand = ss.demand /\ ns.live = ss.live /\ ns.count = ss.count
      BY <1>s
    <3> QED BY <1>0, <3>1, <3>2, Zenon DEF CallsSuit
  <2> QED BY <2>1, <2>2
<1>r. ResultsSuit(nl, no)
  <2>0. (os.active => os.result >= 1) /\ Len(results) <= 1
    BY <1>0 DEF ResultsSuit
  <2>1. Len(results) = 1 => IF os.active THEN results[1] = Result(os) ELSE results[1].rev < os.demand
    BY <1>0 DEF ResultsSuit
  <2>2. no.active => no.result >= 1
    <3>1. CASE m.kind \notin CallKinds
      BY <1>2, <1>f, <1>g, <2>0, <3>1
    <3>2. CASE m.kind = "request"
      BY <1>2, <3>2
    <3>3. CASE m.kind = "detach"
      BY <1>2, <3>3
    <3> QED BY <3>1, <3>2, <3>3 DEF CallKinds
  <2>3. CASE HasNewResult(os, no)
    <3> DEFINE x == Result(no)
    <3>1. new = <<x>>
      BY <1>3, <2>3
    <3> HIDE DEF new, x
    <3>2. Len(new) = 1 /\ new[1] = x /\ Len(new) <= 1
      BY <3>1
    <3>3. no.active
      BY <2>3 DEF HasNewResult
    <3> QED BY <2>2, <3>2, <3>3, Zenon DEF ResultsSuit, new, x
  <2>4. CASE ~ HasNewResult(os, no)
    <3>1. new = results
      BY <1>3, <2>4
    <3>2. ASSUME Len(results) = 1 PROVE IF no.active THEN results[1] = Result(no) ELSE results[1].rev < no.demand
      <4>1. CASE no.active
        <5>1. no.demand = os.demand /\ no.result = os.result
          BY <2>4, <4>1 DEF HasNewResult
        <5>2. m.kind \notin CallKinds
          BY <1>1, <1>2, <1>f, <5>1
        <5>3. os.active /\ no.value = os.value
          BY <1>2, <4>1, <5>1, <5>2
        <5>4. Result(no) = Result(os)
          BY <5>1, <5>3 DEF Result
        <5> QED BY <2>1, <3>2, <4>1, <5>3, <5>4
      <4>2. CASE ~ no.active
        <5>1. CASE m.kind \notin CallKinds
          BY <1>2, <2>1, <3>2, <4>2, <5>1
        <5>2. CASE m.kind \in CallKinds
          <6>1. m.kind = "detach"
            BY <1>2, <4>2, <5>2 DEF CallKinds
          <6>2. results[1] = Result(os)
            BY <1>v, <2>1, <3>2, <6>1
          <6>3. results[1].rev = os.demand
            BY <1>0, <6>2, ServerMessages
          <6>4. os.demand < no.demand
            BY <1>1, <1>2, <5>2
          <6> QED BY <4>2, <6>3, <6>4
        <5> QED BY <5>1, <5>2
      <4> QED BY <4>1, <4>2
    <3>3. Len(new) <= 1
      BY <2>0, <3>1
    <3>4. Len(new) = 1 => IF no.active THEN new[1] = Result(no) ELSE new[1].rev < no.demand
      BY <3>1, <3>2, Zenon
    <3> QED BY <2>2, <3>3, <3>4, Zenon DEF ResultsSuit
  <2> QED BY <2>3, <2>4
<1>d. GotSuits(ns, no)
  <2> SUFFICES ASSUME ss.got > 0
               PROVE  /\ no.active /\ no.demand = ss.demand /\ ss.got <= no.result
                      /\ ss.got = no.result => ss.value = no.value
    BY <1>s DEF GotSuits
  <2>1. /\ os.active /\ os.demand = ss.demand /\ ss.got <= os.result
        /\ ss.got = os.result => ss.value = os.value
    BY <1>0 DEF GotSuits
  <2>2. m.kind \notin CallKinds
    BY <1>1, <1>f, <2>1
  <2>3. no.active /\ no.demand = ss.demand /\ no.result >= os.result
        /\ (no.result = os.result => no.value = os.value)
    BY <1>2, <2>1, <2>2
  <2>4. ss.got <= no.result /\ (ss.got = no.result => ss.got = os.result /\ no.result = os.result)
    BY <1>f, <1>g, <2>1, <2>3
  <2> QED BY <2>1, <2>3, <2>4
<1>o. TotalSuits(nl, ns, nt)
  <2>1. CASE m.kind = "event"
    <3>1. nt = total + 1
      BY <2>1 DEF m
    <3>2. nt # total
      BY <3>1
    <3>3. OfKinds(nl.pending, {"shared"}) = <<Shared(nt)>>
      BY <3>2 DEF HoldsAnswer
    <3>4. TotalSuits(sl, ss, total) /\ ss \in SessionState /\ ns.total = ss.total /\ sl.state # "free"
      BY <1>0, <1>1, <1>s
    <3>5. OfKinds(nl.pending, {"shared"}) = <<Shared(total + 1)>>
      BY <3>1, <3>3
    <3>6. TotalSuits(nl, ns, total + 1)
      BY ONLY <3>4, <3>5, total \in Nat, NewTotalSuits, Zenon
    <3> QED BY <3>1, <3>6
  <2>2. CASE m.kind # "event"
    <3>1. nt = total
      BY <2>2 DEF m
    <3>2. OfKinds(nl.pending, {"shared"}) = OfKinds(sl.pending, {"shared"})
      BY <3>1 DEF HoldsAnswer
    <3> QED BY <1>0, <1>s, <3>1, <3>2 DEF TotalSuits
  <2> QED BY <2>1, <2>2
<1>n. FirstSuits(nl, ns, no)
  <2> SUFFICES ASSUME ss.generation = 1
               PROVE  /\ Numbered(OfKinds(ns.out, {"event"}), no.events, ns.events)
                      /\ Numbered(OfKinds(ns.out, {"invoke"}), no.asked, ns.asked)
                      /\ Numbered(OfKinds(nl.pending, {"answer"}), ns.answered, no.asked)
                      /\ left = << >> =>
                          /\ no.demand = ns.demand /\ no.active = ns.live
                          /\ no.active => no.argument = ns.count
                          /\ no.active /\ new = << >>
                               => ns.got = no.result /\ ns.value = no.value
    BY <1>s DEF FirstSuits
  <2>1. /\ Numbered(OfKinds(ss.out, {"event"}), os.events, ss.events)
        /\ Numbered(OfKinds(ss.out, {"invoke"}), os.asked, ss.asked)
        /\ Numbered(OfKinds(sl.pending, {"answer"}), ss.answered, os.asked)
        /\ calls = << >> =>
             /\ os.demand = ss.demand /\ os.active = ss.live
             /\ os.active => os.argument = ss.count
             /\ os.active /\ results = << >> => ss.got = os.result /\ ss.value = os.value
    BY <1>0, <1>1 DEF FirstSuits
  <2>2. Numbered(OfKinds(ns.out, {"event"}), no.events, ns.events)
    <3> DEFINE o == OfKinds(ss.out, {"event"})
               p == OfKinds(Tail(ss.out), {"event"})
    <3>1. /\ o \in Seq(Message) /\ Numbered(o, os.events, ss.events)
          /\ m.kind = "event" => o # << >> /\ p = Tail(o)
          /\ m.kind # "event" => p = o
      BY <1>f, <2>1, OfKindsType, OfKindsTail DEF m
    <3> HIDE DEF o, p
    <3>2. Numbered(p, no.events, ss.events)
      <4>1. CASE m.kind = "event"
        <5>1. Numbered(Tail(o), os.events + 1, ss.events)
          BY <1>f, <3>1, <4>1, NumberedTail
        <5>2. no.events = os.events + 1
          BY <1>1, <1>2, <4>1
        <5> QED BY <3>1, <4>1, <5>1, <5>2
      <4>2. CASE m.kind # "event"
        BY <1>2, <3>1, <4>2
      <4> QED BY <4>1, <4>2
    <3> QED BY <1>s, <3>2 DEF p
  <2>3. Numbered(OfKinds(ns.out, {"invoke"}), no.asked, ns.asked)
    <3> DEFINE o == OfKinds(ss.out, {"invoke"})
               p == OfKinds(Tail(ss.out), {"invoke"})
    <3>1. /\ o \in Seq(Message) /\ Numbered(o, os.asked, ss.asked)
          /\ m.kind = "invoke" => o # << >> /\ p = Tail(o)
          /\ m.kind # "invoke" => p = o
      BY <1>f, <2>1, OfKindsType, OfKindsTail DEF m
    <3> HIDE DEF o, p
    <3>2. Numbered(p, no.asked, ss.asked)
      <4>1. CASE m.kind = "invoke"
        <5>1. Numbered(Tail(o), os.asked + 1, ss.asked)
          BY <1>f, <3>1, <4>1, NumberedTail
        <5>2. no.asked = os.asked + 1
          BY <1>1, <1>2, <4>1
        <5> QED BY <3>1, <4>1, <5>1, <5>2
      <4>2. CASE m.kind # "invoke"
        BY <1>2, <3>1, <4>2
      <4> QED BY <4>1, <4>2
    <3> QED BY <1>s, <3>2 DEF p
  <2>4. Numbered(OfKinds(nl.pending, {"answer"}), ns.answered, no.asked)
    <3> DEFINE o == OfKinds(sl.pending, {"answer"})
               p == OfKinds(nl.pending, {"answer"})
               x == Answer(no.asked)
    <3>1. o \in Seq(Message) /\ Numbered(o, ss.answered, os.asked)
      BY <1>0, <2>1, OfKindsType, SlotFields
    <3>2. p = IF no.asked = os.asked THEN o ELSE Append(o, x)
      BY DEF HoldsAnswer
    <3>3. x \in Message /\ x.rev = no.asked
      BY <1>2, OriginFields, AnswerFields
    <3> HIDE DEF o, p, x
    <3>4. CASE m.kind = "invoke"
      <4>1. no.asked = os.asked + 1 /\ no.asked # os.asked
        BY <1>1, <1>2, <1>f, <3>4
      <4>2. Numbered(Append(o, x), ss.answered, os.asked + 1)
        BY <1>f, <3>1, <3>3, <4>1, NumberedAppend
      <4> QED BY <1>s, <3>2, <4>1, <4>2 DEF p
    <3>5. CASE m.kind # "invoke"
      BY <1>2, <1>s, <3>1, <3>2, <3>5 DEF p
    <3> QED BY <3>4, <3>5
  <2>5. ASSUME left = << >>
        PROVE  /\ no.demand = ss.demand /\ no.active = ss.live
               /\ no.active => no.argument = ss.count
               /\ no.active /\ new = << >> => ss.got = no.result /\ ss.value = no.value
    <3>1. CASE m.kind \notin CallKinds
      <4>1. calls = << >>
        BY <1>1, <1>s, <2>5, <3>1
      <4>2. no.demand = os.demand /\ no.active = os.active /\ no.argument = os.argument
        BY <1>2, <3>1
      <4>3. ASSUME no.active, new = << >> PROVE ss.got = no.result /\ ss.value = no.value
        <5> DEFINE x == Result(no)
        <5>0. new = IF HasNewResult(os, no) THEN <<x>> ELSE results
          BY <1>3
        <5> HIDE DEF x, new, results
        <5>1. ~ HasNewResult(os, no) /\ results = << >>
          BY <4>3, <5>0
        <5>2. no.result = os.result
          BY <4>3, <5>1 DEF HasNewResult
        <5>3. no.value = os.value
          BY <1>2, <3>1, <5>2
        <5> QED BY <2>1, <4>1, <4>2, <4>3, <5>1, <5>2, <5>3
      <4> HIDE DEF calls, new, results, left
      <4> QED BY <2>1, <4>1, <4>2, <4>3
    <3>2. CASE m.kind = "request"
      <4>1. no.demand = ss.demand /\ no.active /\ no.argument = ss.count /\ ss.live
        BY <1>1, <1>2, <3>2 DEF CallKinds
      <4>2. HasNewResult(os, no)
        <5>1. os.demand < ss.demand
          BY <1>1, <3>2 DEF CallKinds
        <5>2. no.demand # os.demand
          BY <1>f, <4>1, <5>1
        <5> QED BY <4>1, <5>2 DEF HasNewResult
      <4>3. new # << >>
        <5> DEFINE x == Result(no)
        <5>1. new = <<x>>
          BY <1>3, <4>2
        <5> HIDE DEF x, new
        <5> QED BY <5>1
      <4> QED BY <1>f, <1>g, <4>1, <4>3
    <3>3. CASE m.kind = "detach"
      <4>1. no.demand = ss.demand /\ ~ no.active /\ ~ ss.live
        BY <1>1, <1>2, <3>3 DEF CallKinds
      <4> QED BY <1>f, <1>g, <4>1
    <3> QED BY <3>1, <3>2, <3>3 DEF CallKinds
  <2> QED BY <1>s, <2>2, <2>3, <2>4, <2>5
<1> QED BY <1>2, <1>s, <1>l, <1>q, <1>c, <1>r, <1>d, <1>o, <1>n DEF Suits

\* Another slot, after a new total.
LEMMA OtherSuits ==
  ASSUME NEW sl, NEW ss, NEW os, NEW total \in Nat, Suits(sl, ss, os, total), NEW nl \in SlotState,
         \/ sl.state = "free" /\ nl = sl
         \/ /\ sl.state # "free" /\ nl.state = sl.state /\ nl.inbound = sl.inbound
            /\ nl.pending = Pushed(sl.pending, Shared(total + 1))
            /\ nl.bytes = SumBytes(nl.pending) /\ nl.bytes <= MaxBytes
  PROVE  Suits(nl, ss, os, total + 1)
<1>0. /\ sl \in SlotState /\ ss \in SessionState /\ os \in OriginState
      /\ LoadSuits(sl) /\ QueuesSuit(sl, ss) /\ CallsSuit(ss, os) /\ ResultsSuit(sl, os)
      /\ GotSuits(ss, os) /\ TotalSuits(sl, ss, total) /\ FirstSuits(sl, ss, os)
  BY DEF Suits
<1>1. CASE sl.state = "free" /\ nl = sl
  <2>1. TotalSuits(nl, ss, total + 1)
    BY <1>1 DEF TotalSuits
  <2> QED BY <1>0, <1>1, <2>1 DEF Suits
<1>2. CASE /\ sl.state # "free" /\ nl.state = sl.state /\ nl.inbound = sl.inbound
           /\ nl.pending = Pushed(sl.pending, Shared(total + 1))
           /\ nl.bytes = SumBytes(nl.pending) /\ nl.bytes <= MaxBytes
  <2> DEFINE nt == total + 1
             x == Shared(nt)
             q == sl.pending
  <2>1. x \in Message /\ x.kind = "shared" /\ q \in Seq(Message)
    <3>1. nt \in Nat
      OBVIOUS
    <3> HIDE DEF nt
    <3> QED BY <1>0, <3>1, ServerMessages, SlotFields
  <2>2. nl.pending = Pushed(q, x)
    BY <1>2
  <2> HIDE DEF x, nt, q
  <2>3. /\ OfKinds(nl.pending, {"shared"}) = <<x>>
        /\ OfKinds(nl.pending, {"result"}) = OfKinds(q, {"result"})
        /\ OfKinds(nl.pending, {"answer"}) = OfKinds(q, {"answer"})
    BY <2>1, <2>2, PushedShared
  <2>4. LoadSuits(nl)
    BY <1>0, <1>2 DEF LoadSuits
  <2>5. QueuesSuit(nl, ss)
    <3>1. \A i \in 1 .. Len(nl.pending) : nl.pending[i].kind \in PendingKinds
      <4>1. \A i \in 1 .. Len(q) : q[i].kind \in PendingKinds
        BY <1>0 DEF QueuesSuit, q
      <4> QED BY <2>1, <2>2, <4>1, PushedKinds DEF PendingKinds
    <3>2. ASSUME sl.state # "connected"
          PROVE  \A i \in 1 .. Len(nl.pending) : nl.pending[i].kind = "shared"
      <4> DEFINE S == {"shared"}
      <4>1. \A i \in 1 .. Len(q) : q[i].kind \in S
        BY <1>0, <3>2 DEF QueuesSuit, q
      <4>2. x.kind \in S
        BY <2>1
      <4> HIDE DEF S
      <4>3. \A i \in 1 .. Len(nl.pending) : nl.pending[i].kind \in S
        BY <2>1, <2>2, <4>1, <4>2, PushedKinds
      <4> QED BY <4>3 DEF S
    <3> QED BY <1>0, <1>2, <3>1, <3>2 DEF QueuesSuit
  <2>6. ResultsSuit(nl, os)
    BY <1>0, <2>3 DEF ResultsSuit, q
  <2>7. TotalSuits(nl, ss, total + 1)
    <3>1. OfKinds(nl.pending, {"shared"}) = <<Shared(total + 1)>> /\ ss.total = ss.total
      BY <2>3 DEF x, nt
    <3> QED BY ONLY <1>0, <1>2, <3>1, total \in Nat, NewTotalSuits, Zenon
  <2>8. FirstSuits(nl, ss, os)
    BY <1>0, <1>2, <2>3 DEF FirstSuits, q
  <2> QED BY <1>0, <2>4, <2>5, <2>6, <2>7, <2>8 DEF Suits
<1> QED BY <1>1, <1>2

\* The slot takes the message of a delivery to it.
Receives(sl, m) == sl.state # "free" /\ (sl.state = "connected" \/ m.kind = "shared")

\* A delivery, slot by slot.
LEMMA DeliveredFields ==
  ASSUME NEW ps \in [Slots -> SlotState], NEW m \in Message, NEW T
  PROVE  /\ Delivered(ps, m, T) \in [Slots -> SlotState]
         /\ \A r \in Slots :
              LET d == Delivered(ps, m, T)[r]
              IN  /\ d.state = ps[r].state /\ d.inbound = ps[r].inbound
                  /\ r \in T /\ Receives(ps[r], m) =>
                       d.pending = Pushed(ps[r].pending, m) /\ d.bytes = SumBytes(d.pending)
                  /\ ~ (r \in T /\ Receives(ps[r], m)) => d = ps[r]
<1> DEFINE D == Delivered(ps, m, T)
           New(r) == [ps[r] EXCEPT !.pending = Pushed(ps[r].pending, m),
                                   !.bytes = SumBytes(Pushed(ps[r].pending, m))]
<1>1. D = [r \in Slots |-> IF r \in T /\ Receives(ps[r], m) THEN New(r) ELSE ps[r]]
  BY DEF Delivered, Receives, IsSessionResumeSnapshot
<1>2. ASSUME NEW r \in Slots
      PROVE  /\ New(r) \in SlotState /\ New(r).state = ps[r].state /\ New(r).inbound = ps[r].inbound
             /\ New(r).pending = Pushed(ps[r].pending, m)
             /\ New(r).bytes = SumBytes(New(r).pending)
  <2> DEFINE sl == ps[r]
             q == Pushed(sl.pending, m)
             b == SumBytes(q)
  <2>1. sl \in SlotState
    OBVIOUS
  <2> HIDE DEF sl
  <2>2. q \in Seq(Message)
    <3>1. sl.pending \in Seq(Message) /\ "answer" \in Kinds
      BY <2>1, SlotFields DEF Kinds
    <3> QED BY <3>1, PushedOf
  <2>3. b \in Nat
    <3> HIDE DEF q
    <3> QED BY <2>2, SumBytesType
  <2>4. New(r) = [sl EXCEPT !.pending = q, !.bytes = b]
    BY DEF sl
  <2> HIDE DEF q, b, New
  <2>5. /\ New(r) \in SlotState /\ New(r).state = sl.state /\ New(r).inbound = sl.inbound
        /\ New(r).pending = q /\ New(r).bytes = b
    BY <2>1, <2>2, <2>3, <2>4 DEF SlotState
  <2> QED BY <2>5 DEF sl, q, b
<1> HIDE DEF D, New
<1>3. \A r \in Slots : D[r] = IF r \in T /\ Receives(ps[r], m) THEN New(r) ELSE ps[r]
  BY <1>1
<1>4. D \in [Slots -> SlotState]
  BY <1>1, <1>2
<1>5. ASSUME NEW r \in Slots
      PROVE  /\ D[r].state = ps[r].state /\ D[r].inbound = ps[r].inbound
             /\ r \in T /\ Receives(ps[r], m) =>
                  D[r].pending = Pushed(ps[r].pending, m) /\ D[r].bytes = SumBytes(D[r].pending)
             /\ ~ (r \in T /\ Receives(ps[r], m)) => D[r] = ps[r]
  <2>1. CASE r \in T /\ Receives(ps[r], m)
    <3>1. D[r] = New(r)
      BY <1>3, <2>1
    <3> QED BY <1>2, <2>1, <3>1
  <2>2. CASE ~ (r \in T /\ Receives(ps[r], m))
    <3>1. D[r] = ps[r]
      BY <1>3, <2>2
    <3> QED BY <2>2, <3>1
  <2> QED BY <2>1, <2>2
<1> QED BY <1>4, <1>5 DEF D

\* The pushes of an answer, one after the other.
LEMMA PushesHoldAnswer ==
  ASSUME NEW q \in Seq(Message), \A i \in 1 .. Len(q) : q[i].kind \in PendingKinds,
         NEW os, NEW no \in OriginState, NEW total \in Nat, NEW nt \in Nat,
         NEW q1, q1 = IF no.asked = os.asked THEN q ELSE Pushed(q, Answer(no.asked)),
         NEW q2, q2 = IF HasNewResult(os, no) THEN Pushed(q1, Result(no)) ELSE q1,
         NEW q3, q3 = IF nt = total THEN q2 ELSE Pushed(q2, Shared(nt))
  PROVE  HoldsAnswer(q3, q, os, no, total, nt)
<1> DEFINE a == Answer(no.asked)
           x == Result(no)
           y == Shared(nt)
           A(p) == OfKinds(p, {"answer"})
           R(p) == OfKinds(p, {"result"})
           S(p) == OfKinds(p, {"shared"})
           Fine(p) == p \in Seq(Message) /\ \A i \in 1 .. Len(p) : p[i].kind \in PendingKinds
<1>0. a \in Message /\ a.kind = "answer" /\ x \in Message /\ x.kind = "result"
      /\ y \in Message /\ y.kind = "shared"
  BY OriginFields, AnswerFields, ServerMessages
<1>p. a.kind \in PendingKinds /\ x.kind \in PendingKinds /\ y.kind \in PendingKinds
  BY <1>0 DEF PendingKinds
<1> HIDE DEF a, x, y
<1>1. /\ Fine(q1) /\ A(q1) = IF no.asked = os.asked THEN A(q) ELSE Append(A(q), a)
      /\ R(q1) = R(q) /\ S(q1) = S(q)
  <2>1. CASE no.asked = os.asked
    BY <2>1
  <2>2. CASE no.asked # os.asked
    <3>1. q1 = Pushed(q, a)
      BY <2>2 DEF a
    <3>2. q1 \in Seq(Message) /\ A(q1) = Append(A(q), a) /\ R(q1) = R(q) /\ S(q1) = S(q)
      BY <1>0, <3>1, PushedAnswer
    <3>3. \A i \in 1 .. Len(q1) : q1[i].kind \in PendingKinds
      BY <1>0, <1>p, <3>1, PushedKinds
    <3> QED BY <2>2, <3>2, <3>3
  <2> QED BY <2>1, <2>2
<1>2. /\ Fine(q2) /\ R(q2) = IF HasNewResult(os, no) THEN <<x>> ELSE R(q1)
      /\ A(q2) = A(q1) /\ S(q2) = S(q1)
  <2>0. q1 \in Seq(Message) /\ \A i \in 1 .. Len(q1) : q1[i].kind \in PendingKinds
    BY <1>1
  <2>1. CASE ~ HasNewResult(os, no)
    BY <2>0, <2>1
  <2>2. CASE HasNewResult(os, no)
    <3>1. q2 = Pushed(q1, x)
      BY <2>2 DEF x
    <3>2. q2 \in Seq(Message) /\ R(q2) = <<x>> /\ A(q2) = A(q1) /\ S(q2) = S(q1)
      BY <1>0, <2>0, <3>1, PushedResult
    <3>3. \A i \in 1 .. Len(q2) : q2[i].kind \in PendingKinds
      BY <1>0, <1>p, <2>0, <3>1, PushedKinds
    <3> QED BY <2>2, <3>2, <3>3
  <2> QED BY <2>1, <2>2
<1>3. /\ Fine(q3) /\ S(q3) = IF nt = total THEN S(q2) ELSE <<y>>
      /\ A(q3) = A(q2) /\ R(q3) = R(q2)
  <2>0. q2 \in Seq(Message) /\ \A i \in 1 .. Len(q2) : q2[i].kind \in PendingKinds
    BY <1>2
  <2>1. CASE nt = total
    BY <2>0, <2>1
  <2>2. CASE nt # total
    <3>1. q3 = Pushed(q2, y)
      BY <2>2 DEF y
    <3>2. q3 \in Seq(Message) /\ S(q3) = <<y>> /\ A(q3) = A(q2) /\ R(q3) = R(q2)
      BY <1>0, <2>0, <3>1, PushedShared
    <3>3. \A i \in 1 .. Len(q3) : q3[i].kind \in PendingKinds
      BY <1>0, <1>p, <2>0, <3>1, PushedKinds
    <3> QED BY <2>2, <3>2, <3>3
  <2> QED BY <2>1, <2>2
<1> HIDE DEF A, R, S
<1>4. /\ Fine(q3) /\ A(q3) = IF no.asked = os.asked THEN A(q) ELSE Append(A(q), a)
      /\ R(q3) = IF HasNewResult(os, no) THEN <<x>> ELSE R(q)
      /\ S(q3) = IF nt = total THEN S(q) ELSE <<y>>
  BY <1>1, <1>2, <1>3
<1> QED BY <1>4 DEF HoldsAnswer, A, R, S, a, x, y

\* What the answer to slot s leaves pending in every slot.
LEMMA DeliveriesFields ==
  ASSUME slots \in [Slots -> SlotState], NEW s \in Slots, slots[s].state = "connected",
         \A i \in 1 .. Len(slots[s].pending) : slots[s].pending[i].kind \in PendingKinds,
         slots[s].bytes = SumBytes(slots[s].pending),
         NEW no \in OriginState, shared \in Nat, NEW nt \in Nat
  PROVE  LET ps == Deliveries(s, no, nt)
         IN  /\ ps \in [Slots -> SlotState]
             /\ \A r \in Slots : ps[r].state = slots[r].state /\ ps[r].inbound = slots[r].inbound
             /\ HoldsAnswer(ps[s].pending, slots[s].pending, origins[s], no, shared, nt)
             /\ ps[s].bytes = SumBytes(ps[s].pending)
             /\ \A r \in Slots \ {s} :
                  IF nt = shared \/ slots[r].state = "free" THEN ps[r] = slots[r]
                  ELSE /\ ps[r].pending = Pushed(slots[r].pending, Shared(nt))
                       /\ ps[r].bytes = SumBytes(ps[r].pending)
<1> DEFINE old == origins[s]
           a == Answer(no.asked)
           x == Result(no)
           y == Shared(nt)
           p1 == IF no.asked = old.asked THEN slots ELSE Delivered(slots, a, {s})
           p2 == IF HasNewResult(old, no) THEN Delivered(p1, x, {s}) ELSE p1
           p3 == IF nt = shared THEN p2 ELSE Delivered(p2, y, Slots)
           ps == Deliveries(s, no, nt)
<1>0. a \in Message /\ a.kind = "answer" /\ x \in Message /\ x.kind = "result"
      /\ y \in Message /\ y.kind = "shared"
  BY OriginFields, AnswerFields, ServerMessages
<1>1. ps = p3
  <2>1. (no.active /\ <<no.demand, no.result>> # <<old.demand, old.result>>) = HasNewResult(old, no)
    BY DEF HasNewResult
  <2> HIDE DEF old
  <2> QED BY <2>1, Zenon DEF Deliveries, Answer, old
<1> HIDE DEF a, x, y, ps, old
<1>2. /\ p1 \in [Slots -> SlotState]
      /\ \A r \in Slots : p1[r].state = slots[r].state /\ p1[r].inbound = slots[r].inbound
      /\ \A r \in Slots \ {s} : p1[r] = slots[r]
      /\ p1[s].pending = IF no.asked = old.asked THEN slots[s].pending ELSE Pushed(slots[s].pending, a)
      /\ p1[s].bytes = SumBytes(p1[s].pending)
  <2>1. CASE no.asked = old.asked
    BY <2>1
  <2>2. CASE no.asked # old.asked
    <3>1. p1 = Delivered(slots, a, {s})
      BY <2>2
    <3>2. Receives(slots[s], a)
      BY DEF Receives
    <3> HIDE DEF p1
    <3>3. /\ p1 \in [Slots -> SlotState]
          /\ \A r \in Slots :
              /\ p1[r].state = slots[r].state /\ p1[r].inbound = slots[r].inbound
              /\ r \in {s} /\ Receives(slots[r], a) =>
                   p1[r].pending = Pushed(slots[r].pending, a) /\ p1[r].bytes = SumBytes(p1[r].pending)
              /\ ~ (r \in {s} /\ Receives(slots[r], a)) => p1[r] = slots[r]
      BY <1>0, <3>1, DeliveredFields
    <3> QED BY <2>2, <3>2, <3>3
  <2> QED BY <2>1, <2>2
<1> HIDE DEF p1
<1>3. /\ p2 \in [Slots -> SlotState]
      /\ \A r \in Slots : p2[r].state = slots[r].state /\ p2[r].inbound = slots[r].inbound
      /\ \A r \in Slots \ {s} : p2[r] = slots[r]
      /\ p2[s].pending = IF HasNewResult(old, no) THEN Pushed(p1[s].pending, x) ELSE p1[s].pending
      /\ p2[s].bytes = SumBytes(p2[s].pending)
  <2>1. CASE ~ HasNewResult(old, no)
    BY <1>2, <2>1
  <2>2. CASE HasNewResult(old, no)
    <3>1. p2 = Delivered(p1, x, {s})
      BY <2>2
    <3>2. Receives(p1[s], x)
      BY <1>2 DEF Receives
    <3> HIDE DEF p2
    <3>3. /\ p2 \in [Slots -> SlotState]
          /\ \A r \in Slots :
              /\ p2[r].state = p1[r].state /\ p2[r].inbound = p1[r].inbound
              /\ r \in {s} /\ Receives(p1[r], x) =>
                   p2[r].pending = Pushed(p1[r].pending, x) /\ p2[r].bytes = SumBytes(p2[r].pending)
              /\ ~ (r \in {s} /\ Receives(p1[r], x)) => p2[r] = p1[r]
      BY <1>0, <1>2, <3>1, DeliveredFields
    <3> QED BY <1>2, <2>2, <3>2, <3>3
  <2> QED BY <2>1, <2>2
<1> HIDE DEF p2
<1>4. /\ p3 \in [Slots -> SlotState]
      /\ \A r \in Slots : p3[r].state = slots[r].state /\ p3[r].inbound = slots[r].inbound
      /\ p3[s].pending = IF nt = shared THEN p2[s].pending ELSE Pushed(p2[s].pending, y)
      /\ p3[s].bytes = SumBytes(p3[s].pending)
      /\ \A r \in Slots \ {s} :
           IF nt = shared \/ slots[r].state = "free" THEN p3[r] = slots[r]
           ELSE p3[r].pending = Pushed(slots[r].pending, y) /\ p3[r].bytes = SumBytes(p3[r].pending)
  <2>1. CASE nt = shared
    BY <1>3, <2>1
  <2>2. CASE nt # shared
    <3>1. p3 = Delivered(p2, y, Slots)
      BY <2>2
    <3>2. \A r \in Slots : Receives(p2[r], y) <=> slots[r].state # "free"
      BY <1>0, <1>3 DEF Receives
    <3> HIDE DEF p3
    <3>3. /\ p3 \in [Slots -> SlotState]
          /\ \A r \in Slots :
              /\ p3[r].state = p2[r].state /\ p3[r].inbound = p2[r].inbound
              /\ r \in Slots /\ Receives(p2[r], y) =>
                   p3[r].pending = Pushed(p2[r].pending, y) /\ p3[r].bytes = SumBytes(p3[r].pending)
              /\ ~ (r \in Slots /\ Receives(p2[r], y)) => p3[r] = p2[r]
      BY <1>0, <1>3, <3>1, DeliveredFields
    <3>4. p3[s].pending = Pushed(p2[s].pending, y) /\ p3[s].bytes = SumBytes(p3[s].pending)
      BY <3>2, <3>3
    <3>5. ASSUME NEW r \in Slots \ {s}
          PROVE  IF slots[r].state = "free" THEN p3[r] = slots[r]
                 ELSE p3[r].pending = Pushed(slots[r].pending, y) /\ p3[r].bytes = SumBytes(p3[r].pending)
      BY <1>3, <3>2, <3>3
    <3> QED BY <1>3, <2>2, <3>3, <3>4, <3>5
  <2> QED BY <2>1, <2>2
<1>5. HoldsAnswer(p3[s].pending, slots[s].pending, old, no, shared, nt)
  <2> DEFINE q == slots[s].pending
             q1 == p1[s].pending
             q2 == p2[s].pending
             q3 == p3[s].pending
  <2>1. q \in Seq(Message) /\ \A i \in 1 .. Len(q) : q[i].kind \in PendingKinds
    BY SlotFields
  <2>2. /\ q1 = IF no.asked = old.asked THEN q ELSE Pushed(q, Answer(no.asked))
        /\ q2 = IF HasNewResult(old, no) THEN Pushed(q1, Result(no)) ELSE q1
        /\ q3 = IF nt = shared THEN q2 ELSE Pushed(q2, Shared(nt))
    BY <1>2, <1>3, <1>4 DEF a, x, y
  <2> HIDE DEF q, q1, q2, q3
  <2>3. HoldsAnswer(q3, q, old, no, shared, nt)
    BY <2>1, <2>2, PushesHoldAnswer
  <2> QED BY <2>3 DEF q, q3
<1> HIDE DEF p3
<1> QED BY <1>1, <1>4, <1>5 DEF ps, y, old

-----------------------------------------------------------------------------
(* Accounts *)

Load(sl) == Len(sl.inbound) * FrameBytes + sl.bytes

\* The slots are finitely many, and what each has queued is a number.
LEMMA LoadsType ==
  ASSUME NEW ps \in [Slots -> SlotState]
  PROVE  /\ IsFiniteSet(Slots)
         /\ \A s \in Slots : /\ Loads(ps)[s] = Load(ps[s])
                             /\ Load(ps[s]) = Len(ps[s].inbound) + ps[s].bytes
                             /\ Len(ps[s].inbound) \in Nat /\ ps[s].bytes \in Nat
                             /\ Load(ps[s]) \in Nat
<1>1. IsFiniteSet(Slots)
  <2>1. MaxSessions \in Nat
    BY ConstantsAssumption
  <2> QED BY <2>1, FS_Interval DEF Slots
<1>2. ASSUME NEW s \in Slots
      PROVE  /\ Loads(ps)[s] = Load(ps[s]) /\ Load(ps[s]) = Len(ps[s].inbound) + ps[s].bytes
             /\ Len(ps[s].inbound) \in Nat /\ ps[s].bytes \in Nat /\ Load(ps[s]) \in Nat
  <2>1. Len(ps[s].inbound) \in Nat /\ ps[s].bytes \in Nat
    BY SlotFields, LenProperties
  <2>2. Loads(ps)[s] = Load(ps[s])
    BY DEF Loads, Load
  <2>3. Load(ps[s]) = Len(ps[s].inbound) + ps[s].bytes
    BY <2>1 DEF Load, FrameBytes
  <2> QED BY <2>1, <2>2, <2>3
<1> QED BY <1>1, <1>2

\* What is queued when one slot changes.
LEMMA LoadsChange ==
  ASSUME NEW ps \in [Slots -> SlotState], NEW ns \in [Slots -> SlotState], NEW s \in Slots,
         \A r \in Slots \ {s} : ns[r] = ps[r]
  PROVE  /\ SumOfSlots(Loads(ns)) = (SumOfSlots(Loads(ps)) - Load(ps[s])) + Load(ns[s])
         /\ SumOfSlots(Loads(ps)) \in Int /\ SumOfSlots(Loads(ns)) \in Int
<1> DEFINE f == Loads(ps)
           e == Loads(ns)
<1>1. IsFiniteSet(Slots) /\ \A x \in Slots : f[x] \in Int /\ e[x] \in Int
  BY LoadsType
<1>2. \A x \in Slots \ {s} : f[x] = e[x]
  BY LoadsType
<1>3. f[s] = Load(ps[s]) /\ e[s] = Load(ns[s])
  BY LoadsType
<1> HIDE DEF f, e
<1>4. /\ SumFunctionOnSet(e, Slots) = (SumFunctionOnSet(f, Slots) - f[s]) + e[s]
      /\ SumFunctionOnSet(f, Slots) \in Int /\ SumFunctionOnSet(e, Slots) \in Int
  <2>1. \A x \in Slots : f[x] \in Int /\ e[x] \in Int /\ (x # s => f[x] = e[x])
    BY <1>1, <1>2
  <2>2. SumFunctionOnSet(e, Slots) = (SumFunctionOnSet(f, Slots) - f[s]) + e[s]
    BY <1>1, <2>1, SumChange
  <2>3. SumFunctionOnSet(f, Slots) \in Int
    BY <1>1, SumSame
  <2>4. SumFunctionOnSet(e, Slots) \in Int
    BY <1>1, SumSame
  <2> QED BY <2>2, <2>3, <2>4
<1> QED BY <1>3, <1>4 DEF f, e, SumOfSlots

\* What is queued when nothing is.
LEMMA LoadsSame ==
  ASSUME NEW ps \in [Slots -> SlotState], NEW ns \in [Slots -> SlotState],
         \A r \in Slots : Load(ns[r]) = Load(ps[r])
  PROVE  SumOfSlots(Loads(ns)) = SumOfSlots(Loads(ps))
<1> DEFINE f == Loads(ps)
           e == Loads(ns)
<1>1. IsFiniteSet(Slots) /\ \A x \in Slots : f[x] = e[x] /\ f[x] \in Int
  BY LoadsType
<1> HIDE DEF f, e
<1>2. SumFunctionOnSet(f, Slots) = SumFunctionOnSet(e, Slots)
  BY <1>1, SumSame
<1> QED BY <1>2 DEF f, e, SumOfSlots

\* The registry's sum when only what is pending changes.
LEMMA GlobalAfterIsSum ==
  ASSUME slots \in [Slots -> SlotState], globalBytes = SumOfSlots(Loads(slots)),
         NEW ps \in [Slots -> SlotState], \A r \in Slots : ps[r].inbound = slots[r].inbound
  PROVE  GlobalAfter(ps) = SumOfSlots(Loads(ps))
<1> DEFINE i == [s \in Slots |-> Len(slots[s].inbound)]
           b == [s \in Slots |-> slots[s].bytes]
           c == [s \in Slots |-> ps[s].bytes]
           f == Loads(slots)
           e == Loads(ps)
<1>1. IsFiniteSet(Slots) /\ \A s \in Slots : i[s] \in Int /\ b[s] \in Int /\ f[s] = i[s] + b[s]
  BY LoadsType
<1>2. \A s \in Slots : c[s] \in Int /\ e[s] = i[s] + c[s]
  BY LoadsType
<1>3. /\ PendingBytes(slots) = SumFunctionOnSet(b, Slots)
      /\ PendingBytes(ps) = SumFunctionOnSet(c, Slots)
      /\ SumOfSlots(Loads(slots)) = SumFunctionOnSet(f, Slots)
      /\ SumOfSlots(Loads(ps)) = SumFunctionOnSet(e, Slots)
  BY DEF PendingBytes, SumOfSlots
<1> HIDE DEF i, b, c, f, e
<1>4. /\ SumFunctionOnSet(f, Slots) = SumFunctionOnSet(i, Slots) + SumFunctionOnSet(b, Slots)
      /\ SumFunctionOnSet(i, Slots) \in Int /\ SumFunctionOnSet(b, Slots) \in Int
  <2>1. SumFunctionOnSet(f, Slots) = SumFunctionOnSet(i, Slots) + SumFunctionOnSet(b, Slots)
    BY ONLY <1>1, SumPlus
  <2>2. SumFunctionOnSet(i, Slots) \in Int
    BY <1>1, SumSame
  <2>3. SumFunctionOnSet(b, Slots) \in Int
    BY <1>1, SumSame
  <2> QED BY <2>1, <2>2, <2>3
<1>5. /\ SumFunctionOnSet(e, Slots) = SumFunctionOnSet(i, Slots) + SumFunctionOnSet(c, Slots)
      /\ SumFunctionOnSet(c, Slots) \in Int
  <2>1. \A s \in Slots : i[s] \in Int /\ c[s] \in Int /\ e[s] = i[s] + c[s]
    BY <1>1, <1>2
  <2>2. SumFunctionOnSet(e, Slots) = SumFunctionOnSet(i, Slots) + SumFunctionOnSet(c, Slots)
    BY ONLY <1>1, <2>1, SumPlus, ZenonT(60)
  <2>3. SumFunctionOnSet(c, Slots) \in Int
    BY <1>1, <2>1, SumSame
  <2> QED BY <2>2, <2>3
<1> QED BY <1>3, <1>4, <1>5 DEF GlobalAfter

\* No more is queued than the slots in use have reserved.
LEMMA LoadsBound ==
  ASSUME NEW ps \in [Slots -> SlotState], \A s \in Slots : LoadSuits(ps[s])
  PROVE  /\ SumOfSlots(Loads(ps)) \in Nat
         /\ SumOfSlots(Loads(ps))
              <= Cardinality({s \in Slots : ps[s].state # "free"}) * QueueReservation
<1> DEFINE f == Loads(ps)
           U == {s \in Slots : ps[s].state # "free"}
           b == QueueReservation
<1>0. MaxBytes \in Nat
  BY ConstantsAssumption
<1>1. b \in Nat
  BY <1>0 DEF QueueReservation
<1>2. ASSUME NEW s \in Slots
      PROVE  f[s] \in Nat /\ (s \in U => f[s] <= b) /\ (s \notin U => f[s] = 0)
  <2>1. f[s] = Len(ps[s].inbound) + ps[s].bytes /\ Len(ps[s].inbound) \in Nat /\ ps[s].bytes \in Nat
    BY LoadsType
  <2>2. /\ ps[s].bytes <= MaxBytes /\ Len(ps[s].inbound) <= MaxBytes
        /\ ps[s].state = "free" => ps[s].inbound = << >> /\ ps[s].bytes = 0
    BY DEF LoadSuits
  <2>3. f[s] \in Nat /\ f[s] <= b
    <3> HIDE DEF f
    <3> QED BY <1>0, <2>1, <2>2 DEF QueueReservation
  <2>4. ASSUME s \notin U PROVE f[s] = 0
    <3>1. Len(ps[s].inbound) = 0 /\ ps[s].bytes = 0
      BY <2>2, <2>4
    <3> QED BY <2>1, <3>1
  <2> QED BY <2>3, <2>4
<1>3. IsFiniteSet(Slots) /\ Slots \cap U = U
  BY LoadsType
<1> HIDE DEF f, U, b
<1>4. /\ SumFunctionOnSet(f, Slots) \in Nat
      /\ SumFunctionOnSet(f, Slots) <= Cardinality(Slots \cap U) * b
  BY <1>1, <1>2, <1>3, SumBound
<1> QED BY <1>3, <1>4 DEF f, U, b, SumOfSlots

-----------------------------------------------------------------------------
(* Steps *)

\* The part of the invariant that is not about slots.
OthersHold ==
  /\ cursor \in 0 .. MaxSessions
  /\ poisoned \subseteq [error : {"sequence", "frame", "lease"}, resumed : BOOLEAN]
  /\ spent \in [{"frames", "disconnects", "resumes"} -> Nat]
  /\ SequencesHoldUntilResume

\* What the invariant says of a slot.
LEMMA SlotOfInvariant ==
  ASSUME SlotsInvariant, NEW s \in Slots
  PROVE  /\ slots \in [Slots -> SlotState] /\ sessions \in [Slots -> SessionState]
         /\ origins \in [Slots -> OriginState] /\ shared \in Nat /\ OthersHold
         /\ globalBytes = SumOfSlots(Loads(slots)) /\ globalBytes \in Nat
         /\ Suits(slots[s], sessions[s], origins[s], shared)
         /\ slots[s] \in SlotState /\ sessions[s] \in SessionState /\ origins[s] \in OriginState
BY DEF SlotsInvariant, TypeOK, OthersHold

\* The invariant from its parts.
LEMMA InvariantOfSlots ==
  ASSUME \A s \in Slots : Suits(slots[s], sessions[s], origins[s], shared),
         DOMAIN slots = Slots, slots = [s \in Slots |-> slots[s]],
         sessions = [s \in Slots |-> sessions[s]], origins = [s \in Slots |-> origins[s]],
         shared \in Nat, globalBytes = SumOfSlots(Loads(slots)), OthersHold
  PROVE  SlotsInvariant
<1>1. \A s \in Slots : /\ slots[s] \in SlotState /\ sessions[s] \in SessionState
                       /\ origins[s] \in OriginState /\ LoadSuits(slots[s])
  BY DEF Suits
<1>2. slots \in [Slots -> SlotState] /\ sessions \in [Slots -> SessionState]
      /\ origins \in [Slots -> OriginState]
  BY <1>1
<1>3. globalBytes \in Nat
  BY <1>1, <1>2, LoadsBound
<1> QED BY <1>2, <1>3 DEF SlotsInvariant, TypeOK, OthersHold

\* A step that changes one slot, its Session and its origin.
LEMMA OneSlotChanges ==
  ASSUME SlotsInvariant, NEW s \in Slots, NEW nl, NEW ns, NEW no,
         slots' = [slots EXCEPT ![s] = nl], sessions' = [sessions EXCEPT ![s] = ns],
         origins' = [origins EXCEPT ![s] = no], shared' = shared,
         Suits(nl, ns, no, shared),
         \/ globalBytes' = SumOfSlots(Loads(slots'))
         \/ globalBytes' = (globalBytes - Load(slots[s])) + Load(nl),
         OthersHold'
  PROVE  SlotsInvariant'
<1>0. /\ slots \in [Slots -> SlotState] /\ sessions \in [Slots -> SessionState]
      /\ origins \in [Slots -> OriginState] /\ shared \in Nat
      /\ globalBytes = SumOfSlots(Loads(slots))
      /\ \A r \in Slots : Suits(slots[r], sessions[r], origins[r], shared)
  BY DEF SlotsInvariant, TypeOK
<1>1. /\ DOMAIN slots' = Slots /\ slots' = [r \in Slots |-> slots'[r]]
      /\ sessions' = [r \in Slots |-> sessions'[r]] /\ origins' = [r \in Slots |-> origins'[r]]
      /\ slots'[s] = nl /\ sessions'[s] = ns /\ origins'[s] = no
      /\ \A r \in Slots \ {s} : /\ slots'[r] = slots[r] /\ sessions'[r] = sessions[r]
                                /\ origins'[r] = origins[r]
  BY <1>0
<1>2. \A r \in Slots : Suits(slots'[r], sessions'[r], origins'[r], shared')
  <2> SUFFICES ASSUME NEW r \in Slots PROVE Suits(slots'[r], sessions'[r], origins'[r], shared')
    OBVIOUS
  <2>1. CASE r = s
    BY <1>1, <2>1
  <2>2. CASE r # s
    <3>1. slots'[r] = slots[r] /\ sessions'[r] = sessions[r] /\ origins'[r] = origins[r]
      BY <1>1, <2>2
    <3> QED BY <1>0, <3>1
  <2> QED BY <2>1, <2>2
<1>3. globalBytes' = SumOfSlots(Loads(slots'))
  <2>1. nl \in SlotState
    BY DEF Suits
  <2>2. slots' \in [Slots -> SlotState]
    BY <1>0, <2>1
  <2>3. SumOfSlots(Loads(slots')) = (SumOfSlots(Loads(slots)) - Load(slots[s])) + Load(slots'[s])
    BY <1>0, <1>1, <2>2, LoadsChange
  <2>4. CASE globalBytes' = (globalBytes - Load(slots[s])) + Load(nl)
    BY <1>0, <1>1, <2>3, <2>4
  <2> QED BY <2>4
<1>4. /\ \A r \in Slots : /\ slots'[r] \in SlotState /\ sessions'[r] \in SessionState
                          /\ origins'[r] \in OriginState /\ LoadSuits(slots'[r])
  BY <1>2 DEF Suits
<1>5. slots' \in [Slots -> SlotState] /\ sessions' \in [Slots -> SessionState]
      /\ origins' \in [Slots -> OriginState]
  BY <1>1, <1>4
<1>6. globalBytes' \in Nat
  BY <1>3, <1>4, <1>5, LoadsBound
<1>7. shared' \in Nat
  BY <1>0
<1>8. TypeOK'
  BY <1>5, <1>6, <1>7 DEF TypeOK, OthersHold
<1> QED BY <1>2, <1>3, <1>8 DEF SlotsInvariant, OthersHold

\* The lane a round takes has work if any has.
LEMMA NextLaneHasWork ==
  ASSUME SlotsInvariant, NEW s \in Slots
  PROVE  /\ NextLane(s) \in 0 .. 2 /\ LaneAfter(s) \in 0 .. 2
         /\ HasRunnableWork(s) /\ slots[s].state \in {"connected", "stale"} =>
              Available(s, NextLane(s))
<1> DEFINE first == slots[s].lane
           second == (first + 1) % 3
           third == (first + 2) % 3
           n == NextLane(s)
<1>0. first \in 0 .. 2
  BY SlotOfInvariant, SlotFields
<1>1. second \in 0 .. 2 /\ third \in 0 .. 2 /\ {first, second, third} = 0 .. 2
  <2>1. CASE first = 0
    BY <2>1
  <2>2. CASE first = 1
    BY <2>2
  <2>3. CASE first = 2
    BY <2>3
  <2> QED BY <1>0, <2>1, <2>2, <2>3
<1>2. n = IF Available(s, first) THEN first ELSE IF Available(s, second) THEN second ELSE third
  BY DEF NextLane
<1> HIDE DEF first, second, third, n
<1>3. n \in 0 .. 2
  BY <1>0, <1>1, <1>2
<1>4. LaneAfter(s) \in 0 .. 2
  <2>1. (n + 1) % 3 \in 0 .. 2
    BY <1>3
  <2>2. LaneAfter(s) = IF slots[s].state = "removing" THEN first ELSE (n + 1) % 3
    BY DEF LaneAfter, first, n
  <2> QED BY <1>0, <2>1, <2>2
<1>5. ASSUME HasRunnableWork(s), slots[s].state \in {"connected", "stale"} PROVE Available(s, n)
  <2>1. PICK lane \in 0 .. 2 : Available(s, lane)
    <3>1. slots[s].state \notin {"expired", "removing"}
      BY <1>5
    <3> QED BY <1>5, <3>1 DEF HasRunnableWork
  <2>2. lane = first \/ lane = second \/ lane = third
    BY <1>1
  <2> QED BY <1>2, <2>1, <2>2, Zenon
<1> QED BY <1>3, <1>4, <1>5 DEF n

\* Spending keeps the type.
LEMMA SpendType ==
  ASSUME OthersHold, NEW what \in {"frames", "disconnects", "resumes"}, Spend(what)
  PROVE  spent' \in [{"frames", "disconnects", "resumes"} -> Nat]
BY DEF OthersHold, Spend

\* commit_fresh.
LEMMA CommitFreshStep ==
  ASSUME SlotsInvariant, NEW s \in Slots, CommitFresh(s)
  PROVE  SlotsInvariant'
<1> DEFINE cs == [FreeSlot EXCEPT !.state = "connected"]
           base == [slots EXCEPT ![s] = cs]
           x == Shared(shared)
           ps == Delivered(base, x, {s})
           nl == ps[s]
<1>0. /\ slots \in [Slots -> SlotState] /\ sessions \in [Slots -> SessionState]
      /\ origins \in [Slots -> OriginState] /\ shared \in Nat /\ OthersHold
      /\ globalBytes = SumOfSlots(Loads(slots))
      /\ Suits(slots[s], sessions[s], origins[s], shared)
  BY SlotOfInvariant
<1>1. /\ DeliveryFits(ps) /\ slots' = ps /\ globalBytes' = GlobalAfter(ps)
      /\ sessions' = [sessions EXCEPT ![s] = FreshSession]
      /\ origins' = [origins EXCEPT ![s] = FreshOrigin]
      /\ UNCHANGED <<shared, cursor, poisoned, spent>>
  BY DEF CommitFresh, FreshSession, FreshOrigin
<1>2. slots[s].state = "free" /\ slots[s].inbound = << >>
  <2>1. slots[s].state = "free"
    BY DEF CommitFresh, Used
  <2> QED BY <1>0, <2>1 DEF Suits, LoadSuits
<1>3. cs \in SlotState /\ cs.state = "connected" /\ cs.inbound = << >> /\ cs.pending = << >>
  <2> DEFINE fs == FreeSlot
  <2>1. fs \in SlotState
    BY FreeSuits, Zenon DEF Suits
  <2>2. fs.inbound = << >> /\ fs.pending = << >>
    BY DEF FreeSlot
  <2> HIDE DEF fs
  <2>3. LET k == [fs EXCEPT !.state = "connected"]
        IN  k \in SlotState /\ k.state = "connected" /\ k.inbound = fs.inbound /\ k.pending = fs.pending
    BY <2>1 DEF SlotState
  <2> QED BY <2>2, <2>3 DEF fs
<1>4. x \in Message /\ x.kind = "shared"
  BY <1>0, ServerMessages
<1> HIDE DEF cs, x
<1>5. base \in [Slots -> SlotState] /\ base[s] = cs /\ \A r \in Slots \ {s} : base[r] = slots[r]
  BY <1>0, <1>3
<1> HIDE DEF base
<1>6. Receives(base[s], x)
  BY <1>3, <1>4, <1>5 DEF Receives
<1>7. /\ ps \in [Slots -> SlotState]
      /\ \A r \in Slots :
              /\ ps[r].state = base[r].state /\ ps[r].inbound = base[r].inbound
              /\ r \in {s} /\ Receives(base[r], x) =>
                   ps[r].pending = Pushed(base[r].pending, x) /\ ps[r].bytes = SumBytes(ps[r].pending)
              /\ ~ (r \in {s} /\ Receives(base[r], x)) => ps[r] = base[r]
  BY <1>4, <1>5, DeliveredFields
<1> HIDE DEF ps
<1>8. /\ nl \in SlotState /\ nl.state = "connected" /\ nl.inbound = << >>
      /\ nl.pending = Pushed(<< >>, x) /\ nl.bytes = SumBytes(nl.pending)
      /\ \A r \in Slots \ {s} : ps[r] = slots[r]
  BY <1>3, <1>5, <1>6, <1>7
<1>14. nl.bytes <= MaxBytes
  BY <1>1, <1>8 DEF DeliveryFits, Fits
<1>9. Suits(nl, FreshSession, FreshOrigin, shared)
  <2> HIDE DEF nl
  <2> QED BY <1>0, <1>8, <1>14, FreshSuits DEF x
<1>10. slots' = [slots EXCEPT ![s] = nl]
  BY <1>0, <1>1, <1>7, <1>8
<1>11. globalBytes' = SumOfSlots(Loads(slots'))
  <2>1. \A r \in Slots : ps[r].inbound = slots[r].inbound
    BY <1>2, <1>8
  <2>2. GlobalAfter(ps) = SumOfSlots(Loads(ps))
    BY <1>0, <1>7, <2>1, GlobalAfterIsSum
  <2> QED BY <1>1, <2>2
<1>12. OthersHold'
  BY <1>0, <1>1 DEF OthersHold, SequencesHoldUntilResume
<1>13. shared' = shared
  BY <1>1
<1> HIDE DEF nl
<1> QED BY <1>1, <1>9, <1>10, <1>11, <1>12, <1>13, OneSlotChanges

\* commit_resume.
LEMMA CommitResumeStep ==
  ASSUME SlotsInvariant, NEW s \in Slots, CommitResume(s)
  PROVE  SlotsInvariant'
<1> DEFINE sl == slots[s]
           ss == sessions[s]
           os == origins[s]
           nl == [sl EXCEPT !.state = "connected"]
           u == 1 + Len(ss.total) + (IF ss.live /\ ss.got > 0 THEN 1 ELSE 0)
           ns == [ss EXCEPT !.unacked = u, !.generation = @ + 1]
           no == Refreshed(os, shared)
<1>0. /\ slots \in [Slots -> SlotState] /\ sessions \in [Slots -> SessionState]
      /\ origins \in [Slots -> OriginState] /\ shared \in Nat /\ OthersHold
      /\ Suits(sl, ss, os, shared) /\ sl \in SlotState /\ ss \in SessionState /\ globalBytes \in Nat
  BY SlotOfInvariant
<1>1. /\ slots' = [slots EXCEPT ![s] = nl]
      /\ sessions' = [sessions EXCEPT ![s] = ns] /\ origins' = [origins EXCEPT ![s] = no]
      /\ sl.state = "stale" /\ Spend("resumes")
      /\ shared' = shared /\ globalBytes' = globalBytes
      /\ cursor' = cursor /\ poisoned' = poisoned
  BY DEF CommitResume
<1>2. /\ nl \in SlotState /\ nl.state = "connected" /\ nl.inbound = sl.inbound
      /\ nl.pending = sl.pending /\ nl.bytes = sl.bytes
  <2> HIDE DEF sl
  <2> QED BY <1>0 DEF SlotState
<1>3. u \in Nat
  <2>1. Len(ss.total) \in Nat
    BY <1>0, SessionFields, LenProperties
  <2> DEFINE n == Len(ss.total)
             k == IF ss.live /\ ss.got > 0 THEN 1 ELSE 0
  <2>2. k \in {0, 1}
    <3>1. CASE ss.live /\ ss.got > 0
      BY <3>1, Zenon
    <3>2. CASE ~ (ss.live /\ ss.got > 0)
      BY <3>2, Zenon
    <3> QED BY <3>1, <3>2
  <2>3. u = 1 + n + k /\ n \in Nat
    BY <2>1
  <2> HIDE DEF n, k, u
  <2> QED BY <2>2, <2>3
<1> HIDE DEF u, nl
<1>4. Suits(nl, ns, no, shared)
  <2> DEFINE k == ns
  <2>1. k = [ss EXCEPT !.unacked = u, !.generation = @ + 1]
    OBVIOUS
  <2> HIDE DEF k, sl, ss, os
  <2>2. Suits(nl, k, Refreshed(os, shared), shared)
    BY <1>0, <1>1, <1>2, <1>3, <2>1, ResumedSuits
  <2> QED BY <2>2 DEF k
<1>5. globalBytes' = (globalBytes - Load(sl)) + Load(nl)
  <2>1. Load(nl) = Load(sl) /\ Load(sl) \in Nat
    BY <1>0, <1>2, LoadsType DEF Load
  <2> QED BY <1>0, <1>1, <2>1
<1>6. OthersHold'
  <2>1. spent' \in [{"frames", "disconnects", "resumes"} -> Nat]
    BY <1>0, <1>1, SpendType
  <2> QED BY <1>0, <1>1, <2>1 DEF OthersHold, SequencesHoldUntilResume
<1> HIDE DEF ns, no
<1> QED BY <1>1, <1>4, <1>5, <1>6, OneSlotChanges

\* What cleanup gives back, and what it leaves.
LEMMA ReleasedBytes ==
  ASSUME NEW sl, NEW ss, NEW os, NEW total \in Nat, Suits(sl, ss, os, total), sl.state # "free",
         NEW state \in {"stale", "removing"}
  PROVE  /\ Released(sl) = Load(sl) - Stale(sl, state).bytes
         /\ Load(Stale(sl, state)) = Stale(sl, state).bytes
         /\ Load(sl) \in Nat /\ Stale(sl, state).bytes \in Nat
<1> DEFINE b == Stale(sl, state).bytes
<1>0. sl \in SlotState /\ sl.inbound \in Seq(Frame) /\ sl.bytes \in Nat
  BY SlotFields DEF Suits
<1>1. Stale(sl, state).inbound = << >> /\ b \in Nat
  BY StaleSuits
<1>2. Stale(sl, sl.state).bytes = b
  BY <1>0 DEF Stale, SlotState
<1>3. Len(sl.inbound) \in Nat
  BY <1>0, LenProperties
<1>4. Released(sl) = Len(sl.inbound) * FrameBytes + (sl.bytes - b)
  BY <1>2 DEF Released
<1>5. Load(sl) = Len(sl.inbound) * FrameBytes + sl.bytes
      /\ Load(Stale(sl, state)) = Len(Stale(sl, state).inbound) * FrameBytes + b
  BY DEF Load
<1>6. Len(Stale(sl, state).inbound) = 0
  BY <1>1
<1> HIDE DEF b
<1>7. Released(sl) = Load(sl) - b /\ Load(Stale(sl, state)) = b /\ Load(sl) \in Nat
  BY <1>0, <1>1, <1>3, <1>4, <1>5, <1>6 DEF FrameBytes
<1> QED BY <1>1, <1>7 DEF b

\* disconnect.
LEMMA DisconnectStep ==
  ASSUME SlotsInvariant, NEW s \in Slots, Disconnect(s)
  PROVE  SlotsInvariant'
<1> DEFINE sl == slots[s]
           ss == sessions[s]
           os == origins[s]
           st == Stale(sl, "stale")
           nl == [st EXCEPT !.pending = << >>, !.bytes = 0]
           ns == Drained(StaleSession(ss), st.pending)
           no == Refreshed(os, shared)
<1>0. /\ slots \in [Slots -> SlotState] /\ sessions \in [Slots -> SessionState]
      /\ origins \in [Slots -> OriginState] /\ shared \in Nat /\ OthersHold
      /\ Suits(sl, ss, os, shared) /\ sl \in SlotState /\ ss \in SessionState /\ globalBytes \in Nat
  BY SlotOfInvariant
<1>1. /\ slots' = [slots EXCEPT ![s] = nl]
      /\ sessions' = [sessions EXCEPT ![s] = ns] /\ origins' = [origins EXCEPT ![s] = no]
      /\ sl.state = "connected" /\ Spend("disconnects")
      /\ shared' = shared /\ globalBytes' = globalBytes - Released(sl) - st.bytes
      /\ cursor' = cursor /\ poisoned' = poisoned
  BY <1>0 DEF Disconnect
<1> HIDE DEF sl, ss, os
<1>2. Suits(st, StaleSession(ss), no, shared) /\ st.state = "stale" /\ st.inbound = << >>
  BY <1>0, <1>1, StaleSuits
<1>3. Released(sl) = Load(sl) - st.bytes /\ Load(sl) \in Nat /\ st.bytes \in Nat
  BY <1>0, <1>1, ReleasedBytes
<1> HIDE DEF st
<1>4. st \in SlotState
  BY <1>2 DEF Suits
<1>5. /\ nl \in SlotState /\ nl.state = "stale" /\ nl.inbound = << >> /\ nl.pending = << >> /\ nl.bytes = 0
  <2> DEFINE e == << >>
             z == 0
  <2>1. e \in Seq(Message) /\ z \in Nat
    OBVIOUS
  <2>2. nl = [st EXCEPT !.pending = e, !.bytes = z]
    OBVIOUS
  <2> HIDE DEF e, z, nl
  <2>3. nl \in SlotState /\ nl.state = st.state /\ nl.inbound = st.inbound /\ nl.pending = e /\ nl.bytes = z
    BY <1>4, <2>1, <2>2 DEF SlotState
  <2> QED BY <1>2, <2>3 DEF e, z
<1> HIDE DEF nl, no
<1>6. Suits(nl, ns, no, shared)
  BY <1>0, <1>2, <1>5, DrainedSuits
<1>7. globalBytes' = (globalBytes - Load(sl)) + Load(nl)
  <2>1. Load(nl) = 0
    BY <1>5 DEF Load, FrameBytes
  <2> QED BY <1>0, <1>1, <1>3, <2>1
<1>8. OthersHold'
  <2>1. spent' \in [{"frames", "disconnects", "resumes"} -> Nat]
    BY <1>0, <1>1, SpendType
  <2> QED BY <1>0, <1>1, <2>1 DEF OthersHold, SequencesHoldUntilResume
<1> HIDE DEF ns
<1> QED BY <1>1, <1>6, <1>7, <1>8, OneSlotChanges DEF sl

\* remove_slot.
LEMMA RemovedStep ==
  ASSUME SlotsInvariant, NEW s \in Slots, Removed(s), OthersHold'
  PROVE  SlotsInvariant'
<1>0. Suits(slots[s], sessions[s], origins[s], shared) /\ globalBytes \in Nat
      /\ slots \in [Slots -> SlotState]
  BY SlotOfInvariant
<1>1. Suits(FreeSlot, NoSession, NoOrigin, shared)
  BY FreeSuits
<1>2. Load(FreeSlot) = 0
  BY DEF Load, FreeSlot, FrameBytes
<1>3. Load(slots[s]) \in Nat
  BY <1>0, LoadsType
<1>4. globalBytes' = (globalBytes - Load(slots[s])) + Load(FreeSlot)
  <2>1. globalBytes' = globalBytes - Load(slots[s])
    BY DEF Removed, Load
  <2> QED BY <1>0, <1>2, <1>3, <2>1
<1> DEFINE nl == FreeSlot
           ns == NoSession
           no == NoOrigin
<1>5. /\ slots' = [slots EXCEPT ![s] = nl] /\ sessions' = [sessions EXCEPT ![s] = ns]
      /\ origins' = [origins EXCEPT ![s] = no] /\ shared' = shared
  BY DEF Removed
<1> HIDE DEF nl, ns, no
<1> QED BY <1>1, <1>4, <1>5, OneSlotChanges DEF nl, ns, no

\* revoke.
LEMMA RevokeStep ==
  ASSUME SlotsInvariant, NEW s \in Slots, Revoke(s)
  PROVE  SlotsInvariant'
<1>0. OthersHold
  BY SlotOfInvariant
<1>1. Removed(s) /\ Spend("disconnects") /\ poisoned' = poisoned
      /\ cursor' = IF cursor = s THEN 0 ELSE cursor
  BY DEF Revoke
<1>2. OthersHold'
  <2>1. spent' \in [{"frames", "disconnects", "resumes"} -> Nat]
    BY <1>0, <1>1, SpendType
  <2>2. cursor' \in 0 .. MaxSessions
    BY <1>0, <1>1, ConstantsAssumption DEF OthersHold
  <2> QED BY <1>0, <1>1, <2>1, <2>2 DEF OthersHold, SequencesHoldUntilResume
<1> QED BY <1>1, <1>2, RemovedStep

\* A step that only changes the state or the lane of a slot.
LEMMA SlotMoves ==
  ASSUME SlotsInvariant, NEW s \in Slots, NEW nl \in SlotState,
         nl.inbound = slots[s].inbound, nl.pending = slots[s].pending, nl.bytes = slots[s].bytes,
         \/ nl.state = slots[s].state
         \/ {nl.state, slots[s].state} \subseteq {"stale", "expired", "removing"},
         slots' = [slots EXCEPT ![s] = nl],
         UNCHANGED <<sessions, origins, shared, globalBytes>>, OthersHold'
  PROVE  SlotsInvariant'
<1>0. /\ Suits(slots[s], sessions[s], origins[s], shared) /\ globalBytes \in Nat
      /\ slots \in [Slots -> SlotState] /\ sessions \in [Slots -> SessionState]
      /\ origins \in [Slots -> OriginState]
  BY SlotOfInvariant
<1>1. Suits(nl, sessions[s], origins[s], shared)
  BY <1>0, SameSuits
<1>2. sessions' = [sessions EXCEPT ![s] = sessions[s]] /\ origins' = [origins EXCEPT ![s] = origins[s]]
  BY <1>0
<1>3. globalBytes' = (globalBytes - Load(slots[s])) + Load(nl)
  <2>1. Load(nl) = Load(slots[s]) /\ Load(slots[s]) \in Nat
    BY <1>0, LoadsType DEF Load
  <2> QED BY <1>0, <2>1
<1> DEFINE ns == sessions[s]
           no == origins[s]
<1>4. /\ sessions' = [sessions EXCEPT ![s] = ns] /\ origins' = [origins EXCEPT ![s] = no]
      /\ shared' = shared /\ Suits(nl, ns, no, shared)
  BY <1>1, <1>2
<1> HIDE DEF ns, no
<1> QED BY <1>3, <1>4, OneSlotChanges

\* The resume window ends.
LEMMA ExpireStep ==
  ASSUME SlotsInvariant, NEW s \in Slots, Expire(s)
  PROVE  SlotsInvariant'
<1> DEFINE nl == [slots[s] EXCEPT !.state = "expired"]
<1>0. slots[s] \in SlotState /\ slots \in [Slots -> SlotState] /\ OthersHold
  BY SlotOfInvariant
<1>1. nl \in SlotState /\ nl.inbound = slots[s].inbound /\ nl.pending = slots[s].pending
      /\ nl.bytes = slots[s].bytes /\ nl.state = "expired"
  <2> DEFINE sl == slots[s]
  <2> HIDE DEF sl
  <2>1. LET k == [sl EXCEPT !.state = "expired"]
        IN  k \in SlotState /\ k.inbound = sl.inbound /\ k.pending = sl.pending
            /\ k.bytes = sl.bytes /\ k.state = "expired"
    BY <1>0 DEF SlotState, sl
  <2> QED BY <2>1 DEF sl
<1>2. /\ slots[s].state = "stale" /\ slots' = [slots EXCEPT ![s] = nl]
      /\ UNCHANGED <<sessions, origins, shared, globalBytes>>
      /\ cursor' = cursor /\ poisoned' = poisoned /\ spent' = spent
  BY <1>0 DEF Expire
<1>3. OthersHold'
  BY <1>0, <1>2 DEF OthersHold, SequencesHoldUntilResume
<1> HIDE DEF nl
<1>4. {nl.state, slots[s].state} \subseteq {"stale", "expired", "removing"}
  BY <1>1, <1>2
<1> QED BY <1>1, <1>2, <1>3, <1>4, SlotMoves

\* admit_client_frame.
LEMMA AdmitStep ==
  ASSUME SlotsInvariant, NEW s \in Slots, NEW kind \in {"press", "toggle", "ask", "ack"},
         NEW ack \in {0, Unseen(s)}, Admit(s, kind, ack),
         spent' \in [{"frames", "disconnects", "resumes"} -> Nat]
  PROVE  SlotsInvariant'
<1> DEFINE sl == slots[s]
           ss == sessions[s]
           os == origins[s]
           f == [kind |-> kind, ack |-> ack]
           q == Append(sl.inbound, f)
           nl == [sl EXCEPT !.inbound = q]
           a == AckedBy(sl.inbound)
<1>0. /\ slots \in [Slots -> SlotState] /\ sessions \in [Slots -> SessionState]
      /\ origins \in [Slots -> OriginState] /\ OthersHold
      /\ Suits(sl, ss, os, shared) /\ sl \in SlotState /\ ss \in SessionState /\ globalBytes \in Nat
  BY SlotOfInvariant
<1>1. /\ sl.state = "connected" /\ (Len(sl.inbound) + 1) * FrameBytes <= MaxBytes
      /\ slots' = [slots EXCEPT ![s] = nl]
      /\ globalBytes' = globalBytes + FrameBytes
      /\ UNCHANGED <<sessions, origins, shared, cursor, poisoned>>
  BY DEF Admit
<1>2. sl.inbound \in Seq(Frame) /\ Len(sl.inbound) \in Nat /\ sl.bytes \in Nat
  BY <1>0, SlotFields, LenProperties
<1>3. a \in Nat /\ a <= ss.unacked /\ ss.unacked \in Nat
  BY <1>0, <1>2, AckedTail, SessionFields DEF Suits, QueuesSuit
<1>4. ack \in Nat /\ a + ack <= ss.unacked
  <2>1. Unseen(s) = ss.unacked - a
    BY DEF Unseen
  <2> HIDE DEF a, ss
  <2> QED BY <1>3, <2>1
<1>5. f \in Frame /\ f.ack = ack
  BY <1>4 DEF Frame
<1> HIDE DEF f, a, sl, ss, os
<1>6. q \in Seq(Frame) /\ Len(q) = Len(sl.inbound) + 1
  BY <1>2, <1>5
<1> HIDE DEF q
<1>7. /\ nl \in SlotState /\ nl.state = sl.state /\ nl.inbound = q /\ nl.pending = sl.pending
      /\ nl.bytes = sl.bytes
  BY <1>0, <1>6 DEF SlotState
<1> HIDE DEF nl
<1>8. Suits(nl, ss, os, shared)
  <2>1. Len(sl.inbound) + 1 <= MaxBytes
    BY <1>1, <1>2 DEF FrameBytes
  <2>2. nl.inbound = Append(sl.inbound, f) /\ AckedBy(sl.inbound) + f.ack <= ss.unacked
    BY <1>4, <1>5, <1>7 DEF q, a
  <2> QED BY <1>0, <1>1, <1>5, <1>7, <2>1, <2>2, AdmittedSuits
<1>9. globalBytes' = (globalBytes - Load(sl)) + Load(nl)
  <2>1. Load(nl) = Load(sl) + 1 /\ Load(sl) \in Nat
    BY <1>2, <1>6, <1>7 DEF Load, FrameBytes
  <2> QED BY <1>0, <1>1, <2>1 DEF FrameBytes
<1>10. OthersHold'
  BY <1>0, <1>1 DEF OthersHold, SequencesHoldUntilResume
<1>11. sessions' = [sessions EXCEPT ![s] = ss] /\ origins' = [origins EXCEPT ![s] = os] /\ shared' = shared
  BY <1>0, <1>1 DEF ss, os
<1> QED BY <1>1, <1>8, <1>9, <1>10, <1>11, OneSlotChanges DEF sl

\* A frame of the tab.
LEMMA SendStep ==
  ASSUME SlotsInvariant, NEW s \in Slots, Send(s) \/ Acknowledge(s)
  PROVE  SlotsInvariant'
<1>0. OthersHold
  BY SlotOfInvariant
<1>1. CASE Send(s)
  <2>1. PICK kind \in {"press", "toggle", "ask"}, ack \in {0, Unseen(s)} :
          Admit(s, kind, ack) /\ Spend("frames")
    BY <1>1 DEF Send
  <2>2. spent' \in [{"frames", "disconnects", "resumes"} -> Nat]
    BY <1>0, <2>1, SpendType
  <2> QED BY <2>1, <2>2, AdmitStep
<1>2. CASE Acknowledge(s)
  <2>1. Admit(s, "ack", Unseen(s)) /\ spent' = spent
    BY <1>2 DEF Acknowledge
  <2>2. spent' \in [{"frames", "disconnects", "resumes"} -> Nat]
    BY <1>0, <2>1 DEF OthersHold
  <2> DEFINE kind == "ack"
             ack == Unseen(s)
  <2>3. kind \in {"press", "toggle", "ask", "ack"} /\ ack \in {0, Unseen(s)} /\ Admit(s, kind, ack)
    BY <2>1
  <2> HIDE DEF kind, ack
  <2> QED BY <2>2, <2>3, AdmitStep
<1> QED BY <1>1, <1>2

-----------------------------------------------------------------------------
(* Rounds of poll *)

\* The error a round ends in: none, a lease the Server does not know, or a
\* number out of order once the Session has been resumed.
LEMMA PollErrors ==
  ASSUME SlotsInvariant, NEW s \in Runnable
  PROVE  LET e == PollError(s)
         IN  /\ e \in {"ok", "sequence", "lease"}
             /\ e = "sequence" => sessions[s].generation > 1
             /\ e = "ok" /\ slots[s].state \in {"connected", "stale"} =>
                  /\ NextLane(s) = 0 => Acceptance(sessions[s], Head(slots[s].pending))
                                          \in {"accepted", "ignored"}
                  /\ NextLane(s) = 2 => Verdict(origins[s], Head(sessions[s].out)) = "ok"
             /\ e = "ok" /\ slots[s].state = "removing" /\ slots[s].pending # << >> =>
                  Acceptance(sessions[s], Head(slots[s].pending)) \in {"accepted", "ignored"}
<1> DEFINE e == PollError(s)
           sl == slots[s]
           ss == sessions[s]
           os == origins[s]
           lane == NextLane(s)
           a == Acceptance(ss, Head(sl.pending))
           v == Verdict(os, Head(ss.out))
           delivers == IF sl.state = "removing" THEN sl.pending # << >>
                       ELSE sl.state # "expired" /\ lane = 0
<1>0. s \in Slots /\ HasRunnableWork(s)
  BY DEF Runnable
<1>1. /\ Suits(sl, ss, os, shared) /\ shared \in Nat /\ sl \in SlotState
  BY <1>0, SlotOfInvariant
<1>2. sl.state # "free"
  BY <1>0 DEF HasRunnableWork
<1>3. sl.state \in {"connected", "stale"} => Available(s, lane)
  BY <1>0, NextLaneHasWork
<1>4. e = IF delivers THEN IF a \in {"accepted", "ignored"} THEN "ok" ELSE a
          ELSE IF sl.state \in {"connected", "stale"} /\ lane = 2 THEN v ELSE "ok"
  BY DEF PollError
<1>5. ASSUME delivers PROVE a \in {"accepted", "ignored", "sequence"} /\ (a = "sequence" => ss.generation > 1)
  <2>1. sl.pending # << >>
    <3>1. CASE sl.state = "removing"
      BY <1>5, <3>1
    <3>2. CASE sl.state # "removing"
      <4>1. sl.state # "expired" /\ lane = 0
        BY <1>5, <3>2
      <4>2. sl.state \in {"connected", "stale"}
        BY <1>1, <1>2, <3>2, <4>1, SlotFields
      <4> HIDE DEF lane
      <4> QED BY <1>3, <4>1, <4>2 DEF Available
    <3> QED BY <3>1, <3>2
  <2> QED BY <1>1, <1>2, <2>1, NothingIsRefused
<1>6. ASSUME sl.state \in {"connected", "stale"}, lane = 2
      PROVE  v \in {"ok", "sequence", "lease"} /\ (v = "sequence" => ss.generation > 1)
  <2>1. ss.out # << >>
    <3> HIDE DEF lane
    <3> QED BY <1>3, <1>6 DEF Available
  <2> QED BY <1>1, <2>1, VerdictOfHead
<1> HIDE DEF e, a, v, lane, sl, ss
<1>7. CASE delivers
  <2>1. ~ (sl.state \in {"connected", "stale"} /\ lane = 2)
    BY <1>7
  <2>2. e = IF a \in {"accepted", "ignored"} THEN "ok" ELSE a
    BY <1>4, <1>7
  <2>3. e \in {"ok", "sequence"} /\ (e = "sequence" => ss.generation > 1)
        /\ (e = "ok" => a \in {"accepted", "ignored"})
    BY <1>5, <1>7, <2>2
  <2> QED BY <2>1, <2>3 DEF e, a, v, lane, sl, ss
<1>8. CASE ~ delivers
  <2>1. sl.state = "removing" => sl.pending = << >>
    BY <1>8
  <2>2. sl.state \in {"connected", "stale"} => lane # 0
    BY <1>8
  <2>3. CASE sl.state \in {"connected", "stale"} /\ lane = 2
    <3>1. e = v
      BY <1>4, <1>8, <2>3
    <3> QED BY <1>6, <2>1, <2>2, <2>3, <3>1 DEF e, a, v, lane, sl, ss
  <2>4. CASE ~ (sl.state \in {"connected", "stale"} /\ lane = 2)
    <3>1. e = "ok"
      BY <1>4, <1>8, <2>4
    <3> QED BY <2>1, <2>2, <2>4, <3>1 DEF e, a, v, lane, sl, ss
  <2> QED BY <2>3, <2>4
<1> QED BY <1>7, <1>8

\* A Session is removed for its error.
LEMMA PoisonedStep ==
  ASSUME SlotsInvariant, NEW s \in Runnable, NEW error \in {"sequence", "lease"},
         error = "sequence" => sessions[s].generation > 1, Poisoned(s, error)
  PROVE  SlotsInvariant'
<1> DEFINE late == sessions[s].generation > 1
           p == [error |-> error, resumed |-> late]
<1>0. s \in Slots
  BY DEF Runnable
<1>1. OthersHold
  BY <1>0, SlotOfInvariant
<1>2. Removed(s) /\ cursor' = 0 /\ poisoned' = poisoned \cup {p} /\ spent' = spent
  BY DEF Poisoned
<1>3. late \in BOOLEAN /\ (error = "sequence" => late)
  OBVIOUS
<1> HIDE DEF late
<1>4. p \in [error : {"sequence", "frame", "lease"}, resumed : BOOLEAN] /\ p.error = error /\ p.resumed = late
  BY <1>3
<1> HIDE DEF p
<1>5. p.error = "lease" \/ (p.error = "sequence" /\ p.resumed)
  BY <1>3, <1>4
<1>6. OthersHold'
  <2>1. 0 \in 0 .. MaxSessions
    BY ConstantsAssumption
  <2>2. \A x \in poisoned : x.error = "lease" \/ (x.error = "sequence" /\ x.resumed)
    BY <1>1 DEF OthersHold, SequencesHoldUntilResume
  <2>3. \A x \in poisoned' : x.error = "lease" \/ (x.error = "sequence" /\ x.resumed)
    BY <1>2, <1>5, <2>2, Zenon
  <2>4. poisoned' \subseteq [error : {"sequence", "frame", "lease"}, resumed : BOOLEAN]
    BY <1>1, <1>2, <1>4 DEF OthersHold
  <2> QED BY <1>1, <1>2, <2>1, <2>3, <2>4 DEF OthersHold, SequencesHoldUntilResume
<1> QED BY <1>0, <1>2, <1>6, RemovedStep

\* The part of the invariant that is not about slots, after a round on s.
LEMMA RoundOthers ==
  ASSUME SlotsInvariant, NEW s \in Slots, cursor' = s, UNCHANGED <<poisoned, spent>>
  PROVE  OthersHold'
<1>1. OthersHold
  BY SlotOfInvariant
<1>2. s \in 0 .. MaxSessions
  BY ConstantsAssumption DEF Slots
<1> QED BY <1>1, <1>2 DEF OthersHold, SequencesHoldUntilResume

\* A round without progress.
LEMMA BackpressuredStep ==
  ASSUME SlotsInvariant, NEW s \in Slots, Backpressured(s)
  PROVE  SlotsInvariant'
<1> DEFINE sl == slots[s]
           l == LaneAfter(s)
           nl == [sl EXCEPT !.lane = l]
<1>0. sl \in SlotState /\ slots \in [Slots -> SlotState] /\ l \in 0 .. 2
  BY SlotOfInvariant, NextLaneHasWork
<1>1. slots' = [slots EXCEPT ![s] = nl] /\ UNCHANGED <<sessions, origins, shared, globalBytes>>
      /\ cursor' = s /\ UNCHANGED <<poisoned, spent>>
  BY DEF Backpressured
<1> HIDE DEF sl, l
<1>2. nl \in SlotState /\ nl.inbound = sl.inbound /\ nl.pending = sl.pending
      /\ nl.bytes = sl.bytes /\ nl.state = sl.state
  BY <1>0 DEF SlotState
<1> HIDE DEF nl
<1>3. OthersHold'
  BY <1>1, RoundOthers
<1> QED BY <1>1, <1>2, <1>3, SlotMoves DEF sl

\* A message of the Server is delivered to a Session that takes it.
LEMMA ServerDeliveryStep ==
  ASSUME SlotsInvariant, NEW s \in Slots, slots[s].pending # << >>, slots[s].state # "free",
         Acceptance(sessions[s], Head(slots[s].pending)) \in {"accepted", "ignored"},
         NEW c \in BOOLEAN, NEW ns, ns = Accepted(sessions[s], Head(slots[s].pending), c),
         ServerDelivery(s, ns)
  PROVE  SlotsInvariant'
<1> DEFINE sl == slots[s]
           ss == sessions[s]
           os == origins[s]
           l == LaneAfter(s)
           t == Tail(sl.pending)
           h == Bytes(Head(sl.pending))
           b == sl.bytes - h
           nl == [sl EXCEPT !.pending = t, !.lane = l, !.bytes = b]
<1>0. /\ slots \in [Slots -> SlotState] /\ sessions \in [Slots -> SessionState]
      /\ origins \in [Slots -> OriginState] /\ shared \in Nat
      /\ Suits(sl, ss, os, shared) /\ sl \in SlotState /\ ss \in SessionState /\ globalBytes \in Nat
      /\ l \in 0 .. 2
  BY SlotOfInvariant, NextLaneHasWork
<1>1. /\ slots' = [slots EXCEPT ![s] = nl] /\ sessions' = [sessions EXCEPT ![s] = ns]
      /\ globalBytes' = globalBytes - h
      /\ UNCHANGED <<origins, shared>> /\ cursor' = s /\ UNCHANGED <<poisoned, spent>>
  BY <1>0 DEF ServerDelivery
<1>2. sl.pending \in Seq(Message) /\ sl.pending # << >> /\ sl.bytes \in Nat
  BY <1>0, SlotFields
<1>3. sl.bytes = SumBytes(sl.pending)
  BY <1>0 DEF Suits, LoadSuits
<1>i. Len(sl.inbound) \in Nat
  BY <1>0, SlotFields, LenProperties
<1>s. /\ sl.pending # << >> /\ sl.state # "free" /\ ns = Accepted(ss, Head(sl.pending), c)
      /\ Acceptance(ss, Head(sl.pending)) \in {"accepted", "ignored"}
  OBVIOUS
<1> HIDE DEF sl, ss, os, l
<1>4. t \in Seq(Message) /\ h \in Nat /\ b \in Nat
  <2>1. SumBytes(sl.pending) = h + SumBytes(t) /\ h \in Nat /\ SumBytes(t) \in Nat
    BY <1>2, SumBytesTail
  <2>2. t \in Seq(Message)
    BY <1>2
  <2> HIDE DEF h, t
  <2> QED BY <1>2, <1>3, <2>1, <2>2
<1> HIDE DEF b
<1>5. /\ nl \in SlotState /\ nl.state = sl.state /\ nl.inbound = sl.inbound
      /\ nl.pending = t /\ nl.bytes = b
  <2> HIDE DEF t
  <2> QED BY <1>0, <1>4 DEF SlotState
<1> HIDE DEF nl
<1>6. Suits(nl, ns, os, shared)
  <2>1. nl.pending = Tail(sl.pending) /\ nl.bytes = sl.bytes - Bytes(Head(sl.pending))
    BY <1>5 DEF b
  <2> QED BY <1>0, <1>5, <1>s, <2>1, TakenSuits
<1>7. globalBytes' = (globalBytes - Load(sl)) + Load(nl)
  <2>1. Load(nl) = Load(sl) - h /\ Load(sl) \in Nat
    <3> DEFINE i == Len(sl.inbound)
               o == sl.bytes
    <3>1. b = o - h
      BY DEF b
    <3>2. Load(nl) = i * 1 + b /\ Load(sl) = i * 1 + o
      BY <1>5 DEF Load, FrameBytes
    <3>3. i \in Nat /\ o \in Nat /\ h \in Nat
      BY <1>2, <1>4, <1>i
    <3> HIDE DEF h, i, o
    <3> QED BY ONLY <3>1, <3>2, <3>3
  <2> HIDE DEF h
  <2> QED BY <1>0, <1>1, <1>4, <2>1
<1>8. OthersHold'
  BY <1>1, RoundOthers
<1>9. origins' = [origins EXCEPT ![s] = os] /\ shared' = shared
  BY <1>0, <1>1 DEF os
<1> QED BY <1>1, <1>6, <1>7, <1>8, <1>9, OneSlotChanges DEF sl

\* Lane 1: a frame of the tab.
LEMMA PollClientAdmissionStep ==
  ASSUME SlotsInvariant, NEW s \in Slots, slots[s].state = "connected",
         slots[s].inbound # << >>, PollClientAdmission(s)
  PROVE  SlotsInvariant'
<1> DEFINE sl == slots[s]
           ss == sessions[s]
           os == origins[s]
           f == Head(sl.inbound)
           as == [ss EXCEPT !.unacked = @ - f.ack]
           ns == IF f.kind = "ack" THEN as ELSE Turn(as, f.kind)
           t == Tail(sl.inbound)
           l == LaneAfter(s)
           nl == [sl EXCEPT !.inbound = t, !.lane = l]
<1>0. /\ slots \in [Slots -> SlotState] /\ sessions \in [Slots -> SessionState]
      /\ origins \in [Slots -> OriginState] /\ shared \in Nat
      /\ Suits(sl, ss, os, shared) /\ sl \in SlotState /\ ss \in SessionState /\ globalBytes \in Nat
      /\ l \in 0 .. 2
  BY SlotOfInvariant, NextLaneHasWork
<1>1. \/ Backpressured(s)
      \/ /\ slots' = [slots EXCEPT ![s] = nl] /\ sessions' = [sessions EXCEPT ![s] = ns]
         /\ globalBytes' = globalBytes - FrameBytes
         /\ UNCHANGED <<origins, shared>> /\ cursor' = s /\ UNCHANGED <<poisoned, spent>>
  BY DEF PollClientAdmission
<1>2. CASE Backpressured(s)
  BY <1>2, BackpressuredStep
<1>3. CASE /\ slots' = [slots EXCEPT ![s] = nl] /\ sessions' = [sessions EXCEPT ![s] = ns]
           /\ globalBytes' = globalBytes - FrameBytes
           /\ UNCHANGED <<origins, shared>> /\ cursor' = s /\ UNCHANGED <<poisoned, spent>>
  <2>1. sl.inbound \in Seq(Frame) /\ sl.inbound # << >> /\ sl.state = "connected" /\ sl.bytes \in Nat
    BY <1>0, SlotFields
  <2> HIDE DEF sl, l
  <2>2. t \in Seq(Frame) /\ Len(t) = Len(sl.inbound) - 1 /\ Len(sl.inbound) \in Nat
    BY <2>1
  <2>3. f.kind \in {"press", "toggle", "ask", "ack"}
    <3>1. f \in Frame
      BY <2>1
    <3> QED BY <3>1 DEF Frame
  <2>4. /\ nl \in SlotState /\ nl.state = sl.state /\ nl.inbound = t /\ nl.pending = sl.pending
        /\ nl.bytes = sl.bytes
    <3> HIDE DEF t
    <3> QED BY <1>0, <2>2 DEF SlotState
  <2> HIDE DEF nl
  <2>5. Suits(nl, as, os, shared)
    <3> DEFINE k == as
    <3>1. k = [ss EXCEPT !.unacked = @ - Head(sl.inbound).ack] /\ nl.inbound = Tail(sl.inbound)
      BY <2>4
    <3> HIDE DEF k, ss, os
    <3>2. Suits(nl, k, os, shared)
      BY <1>0, <2>1, <2>4, <3>1, AcknowledgedSuits
    <3> QED BY <3>2 DEF k
  <2>6. Suits(nl, ns, os, shared)
    <3> HIDE DEF as, f
    <3>1. CASE f.kind = "ack"
      BY <2>5, <3>1
    <3>2. CASE f.kind # "ack"
      <4> DEFINE kind == f.kind
      <4>1. kind \in {"press", "toggle", "ask"} /\ nl.state = "connected"
        BY <2>1, <2>3, <2>4, <3>2
      <4> HIDE DEF kind
      <4>2. Suits(nl, Turn(as, kind), os, shared)
        BY <2>5, <4>1, TurnSuits
      <4> QED BY <3>2, <4>2 DEF kind
    <3> QED BY <3>1, <3>2
  <2>7. globalBytes' = (globalBytes - Load(sl)) + Load(nl)
    <3>1. Load(nl) = Len(t) * 1 + sl.bytes /\ Load(sl) = Len(sl.inbound) * 1 + sl.bytes
      BY <2>4 DEF Load, FrameBytes
    <3>2. globalBytes' = globalBytes - 1
      BY <1>3 DEF FrameBytes
    <3> DEFINE i == Len(sl.inbound)
               j == Len(t)
               o == sl.bytes
    <3>3. Load(nl) = j * 1 + o /\ Load(sl) = i * 1 + o /\ j = i - 1 /\ i \in Nat /\ o \in Nat
      BY <2>1, <2>2, <3>1
    <3> HIDE DEF i, j, o
    <3> QED BY <1>0, <3>2, <3>3
  <2>8. OthersHold'
    BY <1>3, RoundOthers
  <2>9. origins' = [origins EXCEPT ![s] = os] /\ shared' = shared
    BY <1>0, <1>3 DEF os
  <2> HIDE DEF ns
  <2> QED BY <1>3, <2>6, <2>7, <2>8, <2>9, OneSlotChanges DEF sl
<1> QED BY <1>1, <1>2, <1>3

\* Lane 2: a message of the Session, and what the Server answers.
LEMMA PollSessionDeliveryStep ==
  ASSUME SlotsInvariant, NEW s \in Slots, sessions[s].out # << >>,
         Verdict(origins[s], Head(sessions[s].out)) = "ok", PollSessionDelivery(s)
  PROVE  SlotsInvariant'
<1> DEFINE sl == slots[s]
           ss == sessions[s]
           os == origins[s]
           m == Head(ss.out)
           nt == IF m.kind = "event" THEN shared + 1 ELSE shared
           no == Answered(os, m, nt)
           ps == Deliveries(s, no, nt)
           l == LaneAfter(s)
           pl == ps[s]
           nl == [pl EXCEPT !.lane = l]
           t == Tail(ss.out)
           ns == [ss EXCEPT !.out = t]
<1>0. /\ slots \in [Slots -> SlotState] /\ sessions \in [Slots -> SessionState]
      /\ origins \in [Slots -> OriginState] /\ shared \in Nat
      /\ globalBytes = SumOfSlots(Loads(slots))
      /\ Suits(sl, ss, os, shared) /\ sl \in SlotState /\ ss \in SessionState /\ os \in OriginState
      /\ l \in 0 .. 2
  BY SlotOfInvariant, NextLaneHasWork
<1>1. \/ Backpressured(s)
      \/ /\ DeliveryFits(ps) /\ origins' = [origins EXCEPT ![s] = no] /\ shared' = nt
         /\ slots' = [ps EXCEPT ![s].lane = l] /\ globalBytes' = GlobalAfter(ps)
         /\ sessions' = [sessions EXCEPT ![s] = ns]
         /\ cursor' = s /\ UNCHANGED <<poisoned, spent>>
  BY DEF PollSessionDelivery
<1>2. CASE Backpressured(s)
  BY <1>2, BackpressuredStep
<1>3. CASE /\ DeliveryFits(ps) /\ origins' = [origins EXCEPT ![s] = no] /\ shared' = nt
           /\ slots' = [ps EXCEPT ![s].lane = l] /\ globalBytes' = GlobalAfter(ps)
           /\ sessions' = [sessions EXCEPT ![s] = ns]
           /\ cursor' = s /\ UNCHANGED <<poisoned, spent>>
  <2>1. /\ sl.state = "connected" /\ m \in Message /\ m.kind \in OutKinds
        /\ m.kind \in CallKinds => (m.kind = "request" => m.value = <<ss.count>>)
    BY <1>0, HeadOut
  <2>2. nt \in Nat /\ nt \in {shared, shared + 1}
    BY <1>0
  <2>3. no \in OriginState
    <3> DEFINE n == ss.count
    <3>1. n \in Nat
      BY <1>0, SessionFields
    <3>2. m.kind = "request" => m.value = <<n>>
      BY <2>1 DEF CallKinds
    <3> HIDE DEF n, m, nt, os
    <3> QED BY <1>0, <2>1, <2>2, <3>1, <3>2, AnsweredFields
  <2>4. /\ \A i \in 1 .. Len(sl.pending) : sl.pending[i].kind \in PendingKinds
        /\ sl.bytes = SumBytes(sl.pending)
    BY <1>0 DEF Suits, QueuesSuit, LoadSuits
  <2>s. no = Answered(os, Head(ss.out), nt) /\ ns = [ss EXCEPT !.out = Tail(@)]
        /\ nt = IF Head(ss.out).kind = "event" THEN shared + 1 ELSE shared
    OBVIOUS
  <2> HIDE DEF no, nt, m
  <2>5. /\ ps \in [Slots -> SlotState]
        /\ \A r \in Slots : ps[r].state = slots[r].state /\ ps[r].inbound = slots[r].inbound
        /\ HoldsAnswer(pl.pending, sl.pending, os, no, shared, nt)
        /\ pl.bytes = SumBytes(pl.pending)
        /\ \A r \in Slots \ {s} :
             IF nt = shared \/ slots[r].state = "free" THEN ps[r] = slots[r]
             ELSE /\ ps[r].pending = Pushed(slots[r].pending, Shared(nt))
                  /\ ps[r].bytes = SumBytes(ps[r].pending)
    BY <1>0, <2>1, <2>2, <2>3, <2>4, DeliveriesFields
  <2>6. \A r \in Slots : SumBytes(ps[r].pending) <= MaxBytes
    BY <1>3 DEF DeliveryFits, Fits
  <2> HIDE DEF ps, l
  <2>7. slots' = [ps EXCEPT ![s] = nl]
    BY <1>3, <2>5
  <2>8. /\ nl \in SlotState /\ nl.state = sl.state /\ nl.inbound = sl.inbound
        /\ nl.pending = pl.pending /\ nl.bytes = pl.bytes
    <3>1. pl \in SlotState /\ pl.state = sl.state /\ pl.inbound = sl.inbound
      BY <2>5
    <3> HIDE DEF pl
    <3>2. nl \in SlotState /\ nl.state = pl.state /\ nl.inbound = pl.inbound
          /\ nl.pending = pl.pending /\ nl.bytes = pl.bytes
      BY <1>0, <3>1 DEF SlotState
    <3> QED BY <3>1, <3>2
  <2>9. nl.bytes = SumBytes(nl.pending) /\ nl.bytes <= MaxBytes
    BY <2>5, <2>6, <2>8
  <2>10. Suits(nl, ns, no, nt)
    <3>1. HoldsAnswer(nl.pending, sl.pending, os, no, shared, nt)
      BY <2>5, <2>8
    <3>2. ss.out # << >> /\ Verdict(os, Head(ss.out)) = "ok"
      OBVIOUS
    <3> HIDE DEF nl, ns, sl, ss, os
    <3> QED BY <1>0, <2>8, <2>9, <2>s, <3>1, <3>2, DeliverySuits
  <2> HIDE DEF nl, ns
  <2>11. /\ slots'[s] = nl /\ sessions'[s] = ns /\ origins'[s] = no
         /\ \A r \in Slots \ {s} : /\ slots'[r] = ps[r] /\ sessions'[r] = sessions[r]
                                   /\ origins'[r] = origins[r]
    BY <1>0, <1>3, <2>5, <2>7
  <2>12. ASSUME NEW r \in Slots PROVE Suits(slots'[r], sessions'[r], origins'[r], shared')
    <3>1. CASE r = s
      <4>1. shared' = nt
        BY <1>3
      <4> QED BY <2>10, <2>11, <3>1, <4>1
    <3>2. CASE r # s
      <4>0. Suits(slots[r], sessions[r], origins[r], shared) /\ ps[r] \in SlotState
        BY <2>5 DEF SlotsInvariant
      <4>1. slots'[r] = ps[r] /\ sessions'[r] = sessions[r] /\ origins'[r] = origins[r] /\ shared' = nt
        BY <1>3, <2>11, <3>2
      <4>2. CASE nt = shared
        <5>1. ps[r] = slots[r]
          BY <2>5, <3>2, <4>2
        <5> QED BY <4>0, <4>1, <4>2, <5>1
      <4>3. CASE nt # shared
        <5>1. nt = shared + 1
          BY <2>2, <4>3
        <5> DEFINE ol == slots[r]
                   kl == ps[r]
        <5>2. \/ ol.state = "free" /\ kl = ol
              \/ /\ ol.state # "free" /\ kl.state = ol.state /\ kl.inbound = ol.inbound
                 /\ kl.pending = Pushed(ol.pending, Shared(shared + 1))
                 /\ kl.bytes = SumBytes(kl.pending) /\ kl.bytes <= MaxBytes
          BY <2>5, <2>6, <3>2, <4>3, <5>1
        <5>3. Suits(ol, sessions[r], origins[r], shared) /\ kl \in SlotState
          BY <4>0
        <5> HIDE DEF ol, kl
        <5>4. Suits(kl, sessions[r], origins[r], shared + 1)
          BY <1>0, <5>2, <5>3, OtherSuits
        <5> QED BY <4>1, <5>1, <5>4 DEF kl
      <4> QED BY <4>2, <4>3
    <3> QED BY <3>1, <3>2
  <2>13. slots' \in [Slots -> SlotState] /\ sessions' \in [Slots -> SessionState]
         /\ origins' \in [Slots -> OriginState] /\ \A r \in Slots : LoadSuits(slots'[r])
    <3>1. \A r \in Slots : /\ slots'[r] \in SlotState /\ sessions'[r] \in SessionState
                           /\ origins'[r] \in OriginState /\ LoadSuits(slots'[r])
      BY <2>12 DEF Suits
    <3>2. /\ slots' = [r \in Slots |-> slots'[r]] /\ sessions' = [r \in Slots |-> sessions'[r]]
          /\ origins' = [r \in Slots |-> origins'[r]]
      BY <1>0, <1>3, <2>5, <2>7
    <3> QED BY <3>1, <3>2
  <2>14. globalBytes' = SumOfSlots(Loads(slots'))
    <3>1. GlobalAfter(ps) = SumOfSlots(Loads(ps))
      BY <1>0, <2>5, GlobalAfterIsSum
    <3>2. ASSUME NEW r \in Slots PROVE Load(slots'[r]) = Load(ps[r])
      <4>1. slots'[r].inbound = ps[r].inbound /\ slots'[r].bytes = ps[r].bytes
        <5>1. CASE r = s
          BY <2>5, <2>8, <2>11, <5>1
        <5>2. CASE r # s
          BY <2>11, <5>2
        <5> QED BY <5>1, <5>2
      <4> QED BY <4>1 DEF Load
    <3>3. SumOfSlots(Loads(slots')) = SumOfSlots(Loads(ps))
      BY <2>5, <2>13, <3>2, LoadsSame
    <3> QED BY <1>3, <3>1, <3>3
  <2>15. globalBytes' \in Nat /\ shared' \in Nat
    BY <1>3, <2>2, <2>13, <2>14, LoadsBound
  <2>16. OthersHold'
    BY <1>3, RoundOthers
  <2>17. TypeOK'
    BY <2>13, <2>15, <2>16 DEF TypeOK, OthersHold
  <2> QED BY <2>12, <2>14, <2>16, <2>17 DEF SlotsInvariant, OthersHold
<1> QED BY <1>1, <1>2, <1>3

\* The removal of an expired Session begins.
LEMMA BeginRemovalStep ==
  ASSUME SlotsInvariant, NEW s \in Slots, slots[s].state = "expired", BeginRemoval(s)
  PROVE  SlotsInvariant'
<1> DEFINE sl == slots[s]
           ss == sessions[s]
           os == origins[s]
           removing == "removing"
           nl == Stale(sl, removing)
           ns == StaleSession(ss)
           no == Refreshed(os, shared)
<1>0. /\ slots \in [Slots -> SlotState] /\ sessions \in [Slots -> SessionState]
      /\ origins \in [Slots -> OriginState] /\ shared \in Nat
      /\ Suits(sl, ss, os, shared) /\ globalBytes \in Nat
  BY SlotOfInvariant
<1>1. /\ slots' = [slots EXCEPT ![s] = nl]
      /\ sessions' = [sessions EXCEPT ![s] = ns] /\ origins' = [origins EXCEPT ![s] = no]
      /\ shared' = shared /\ globalBytes' = globalBytes - Released(sl)
      /\ cursor' = s /\ UNCHANGED <<poisoned, spent>>
  BY <1>0 DEF BeginRemoval
<1>2. sl.state # "free" /\ removing \in {"stale", "removing"}
  OBVIOUS
<1> HIDE DEF sl, ss, os, removing
<1>3. Suits(nl, ns, no, shared)
  BY <1>0, <1>2, StaleSuits
<1>4. Released(sl) = Load(sl) - nl.bytes /\ Load(nl) = nl.bytes /\ Load(sl) \in Nat /\ nl.bytes \in Nat
  BY <1>0, <1>2, ReleasedBytes
<1> HIDE DEF nl, ns, no
<1>5. globalBytes' = (globalBytes - Load(sl)) + Load(nl)
  BY <1>0, <1>1, <1>4
<1>6. OthersHold'
  BY <1>1, RoundOthers
<1> QED BY <1>1, <1>3, <1>5, <1>6, OneSlotChanges DEF sl

\* A round on a Session that is being removed.
LEMMA CleanupRound ==
  ASSUME SlotsInvariant, NEW s \in Slots, slots[s].state = "removing", CleanupStep(s),
         slots[s].pending # << >> =>
           Acceptance(sessions[s], Head(slots[s].pending)) \in {"accepted", "ignored"}
  PROVE  SlotsInvariant'
<1>1. CASE slots[s].pending # << >>
  <2> DEFINE c == FALSE
             ns == Accepted(sessions[s], Head(slots[s].pending), c)
  <2>1. ServerDelivery(s, ns) /\ c \in BOOLEAN
    BY <1>1 DEF CleanupStep
  <2>2. slots[s].state # "free"
    OBVIOUS
  <2> HIDE DEF c
  <2>3. ns = Accepted(sessions[s], Head(slots[s].pending), c)
    OBVIOUS
  <2> HIDE DEF ns
  <2> QED BY <1>1, <2>1, <2>2, <2>3, ServerDeliveryStep
<1>2. CASE slots[s].pending = << >>
  <2>1. Removed(s) /\ cursor' = s /\ UNCHANGED <<poisoned, spent>>
    BY <1>2 DEF CleanupStep
  <2>2. OthersHold'
    BY <2>1, RoundOthers
  <2> QED BY <2>1, <2>2, RemovedStep
<1> QED BY <1>1, <1>2

\* Lane 0: a message of the Server.
LEMMA PollServerDeliveryStep ==
  ASSUME SlotsInvariant, NEW s \in Slots, slots[s].state # "free", slots[s].pending # << >>,
         Acceptance(sessions[s], Head(slots[s].pending)) \in {"accepted", "ignored"},
         PollServerDelivery(s)
  PROVE  SlotsInvariant'
<1> DEFINE c == slots[s].state = "connected"
           ns == Accepted(sessions[s], Head(slots[s].pending), c)
<1>1. Backpressured(s) \/ ServerDelivery(s, ns)
  BY DEF PollServerDelivery
<1>2. c \in BOOLEAN
  OBVIOUS
<1> HIDE DEF c
<1>3. ns = Accepted(sessions[s], Head(slots[s].pending), c)
  OBVIOUS
<1> HIDE DEF ns
<1> QED BY <1>1, <1>2, <1>3, BackpressuredStep, ServerDeliveryStep

\* A round of poll.
LEMMA PollStep ==
  ASSUME SlotsInvariant, Poll
  PROVE  SlotsInvariant'
<1>1. PICK s \in Runnable :
        \/ PollError(s) # "ok" /\ Poisoned(s, PollError(s))
        \/ /\ PollError(s) = "ok"
           /\ \/ slots[s].state = "expired" /\ BeginRemoval(s)
              \/ slots[s].state = "removing" /\ CleanupStep(s)
              \/ /\ slots[s].state \in {"connected", "stale"}
                 /\ \/ NextLane(s) = 0 /\ PollServerDelivery(s)
                    \/ NextLane(s) = 1 /\ PollClientAdmission(s)
                    \/ NextLane(s) = 2 /\ PollSessionDelivery(s)
  BY DEF Poll
<1> DEFINE e == PollError(s)
           lane == NextLane(s)
<1>2. s \in Slots /\ HasRunnableWork(s)
  BY DEF Runnable
<1>3. /\ e \in {"ok", "sequence", "lease"}
      /\ e = "sequence" => sessions[s].generation > 1
      /\ e = "ok" /\ slots[s].state \in {"connected", "stale"} =>
           /\ lane = 0 => Acceptance(sessions[s], Head(slots[s].pending)) \in {"accepted", "ignored"}
           /\ lane = 2 => Verdict(origins[s], Head(sessions[s].out)) = "ok"
      /\ e = "ok" /\ slots[s].state = "removing" /\ slots[s].pending # << >> =>
           Acceptance(sessions[s], Head(slots[s].pending)) \in {"accepted", "ignored"}
  BY PollErrors
<1>4. slots[s].state \in {"connected", "stale"} => Available(s, lane)
  BY <1>2, NextLaneHasWork
<1>5. CASE e # "ok" /\ Poisoned(s, e)
  <2>1. e \in {"sequence", "lease"}
    BY <1>3, <1>5
  <2> HIDE DEF e
  <2> QED BY <1>3, <1>5, <2>1, PoisonedStep
<1>6. CASE e = "ok" /\ slots[s].state = "expired" /\ BeginRemoval(s)
  BY <1>2, <1>6, BeginRemovalStep
<1>7. CASE e = "ok" /\ slots[s].state = "removing" /\ CleanupStep(s)
  <2> HIDE DEF e
  <2> QED BY <1>2, <1>3, <1>7, CleanupRound
<1>8. CASE e = "ok" /\ slots[s].state \in {"connected", "stale"} /\ lane = 0 /\ PollServerDelivery(s)
  <2> HIDE DEF e, lane
  <2>1. slots[s].pending # << >>
    BY <1>4, <1>8 DEF Available
  <2>2. slots[s].state # "free"
    BY <1>8
  <2> QED BY <1>2, <1>3, <1>8, <2>1, <2>2, PollServerDeliveryStep
<1>9. CASE e = "ok" /\ slots[s].state \in {"connected", "stale"} /\ lane = 1 /\ PollClientAdmission(s)
  <2> HIDE DEF e, lane
  <2>1. slots[s].inbound # << >> /\ slots[s].state = "connected"
    BY <1>4, <1>9 DEF Available
  <2> QED BY <1>2, <1>9, <2>1, PollClientAdmissionStep
<1>10. CASE e = "ok" /\ slots[s].state \in {"connected", "stale"} /\ lane = 2 /\ PollSessionDelivery(s)
  <2> HIDE DEF e, lane
  <2>1. sessions[s].out # << >>
    BY <1>4, <1>10 DEF Available
  <2>2. Verdict(origins[s], Head(sessions[s].out)) = "ok"
    BY <1>3, <1>10
  <2> QED BY <1>2, <1>10, <2>1, <2>2, PollSessionDeliveryStep
<1> QED BY <1>1, <1>5, <1>6, <1>7, <1>8, <1>9, <1>10, Zenon

-----------------------------------------------------------------------------
(* The theorems *)

\* The invariant holds before the first connection.
LEMMA InitHolds == Init => SlotsInvariant
<1> SUFFICES ASSUME Init PROVE SlotsInvariant
  OBVIOUS
<1>1. \A s \in Slots : /\ slots[s] = FreeSlot /\ sessions[s] = NoSession /\ origins[s] = NoOrigin
  BY DEF Init
<1>2. \A s \in Slots : Suits(slots[s], sessions[s], origins[s], shared)
  BY <1>1, FreeSuits
<1>3. /\ DOMAIN slots = Slots /\ slots = [s \in Slots |-> slots[s]]
      /\ sessions = [s \in Slots |-> sessions[s]] /\ origins = [s \in Slots |-> origins[s]]
      /\ shared \in Nat
  BY DEF Init
<1>4. slots \in [Slots -> SlotState] /\ \A s \in Slots : LoadSuits(slots[s])
  BY <1>2, <1>3 DEF Suits
<1>5. globalBytes = SumOfSlots(Loads(slots))
  <2> DEFINE U == {s \in Slots : slots[s].state # "free"}
             n == SumOfSlots(Loads(slots))
  <2>1. U = {}
    BY <1>1 DEF FreeSlot
  <2>2. n \in Nat /\ n <= Cardinality(U) * QueueReservation
    BY <1>4, LoadsBound
  <2>3. Cardinality(U) = 0
    BY <2>1, FS_EmptySet
  <2>4. QueueReservation \in Nat
    BY ConstantsAssumption DEF QueueReservation
  <2> HIDE DEF n
  <2>5. n = 0
    BY <2>2, <2>3, <2>4
  <2> QED BY <2>5 DEF n, Init
<1>6. OthersHold
  <2>1. MaxSessions \in Nat
    BY ConstantsAssumption
  <2> QED BY <2>1 DEF Init, OthersHold, SequencesHoldUntilResume
<1> QED BY <1>2, <1>3, <1>5, <1>6, InvariantOfSlots

\* Every step keeps the invariant.
LEMMA NextHolds == SlotsInvariant /\ [Next]_vars => SlotsInvariant'
<1> SUFFICES ASSUME SlotsInvariant, [Next]_vars PROVE SlotsInvariant'
  OBVIOUS
<1>1. CASE Poll
  BY <1>1, PollStep
<1>2. ASSUME NEW s \in Slots,
             \/ CommitFresh(s) \/ CommitResume(s) \/ Disconnect(s) \/ Revoke(s)
             \/ Expire(s) \/ Send(s) \/ Acknowledge(s)
      PROVE  SlotsInvariant'
  BY <1>2, CommitFreshStep, CommitResumeStep, DisconnectStep, RevokeStep, ExpireStep, SendStep, Zenon
<1>3. CASE UNCHANGED vars
  BY <1>3 DEF vars, SlotsInvariant, TypeOK, SequencesHoldUntilResume, Loads, SumOfSlots, Slots
<1> QED BY <1>1, <1>2, <1>3 DEF Next

\* The invariant always holds.
LEMMA SlotsInvariantHolds == Spec => []SlotsInvariant
BY InitHolds, NextHolds, PTL DEF Spec

\* For any limits and any number of Sessions: the byte counters of the
\* registry, kept by additions and subtractions in admission, delivery,
\* polling, cleanup and removal, are the bytes that are queued, and no more
\* is queued than the Sessions have reserved.
THEOREM AccountsAreTrue == Spec => []AccountingInvariant
<1>1. SlotsInvariant => AccountingInvariant
  <2> SUFFICES ASSUME SlotsInvariant PROVE AccountingInvariant
    OBVIOUS
  <2>1. slots \in [Slots -> SlotState] /\ globalBytes = SumOfSlots(Loads(slots))
        /\ \A s \in Slots : LoadSuits(slots[s])
    BY DEF SlotsInvariant, TypeOK, Suits
  <2>2. \A s \in Slots : slots[s].bytes = SumBytes(slots[s].pending)
    BY <2>1 DEF LoadSuits
  <2>3. globalBytes <= Cardinality(Used) * QueueReservation
    BY <2>1, LoadsBound DEF Used
  <2> QED BY <2>1, <2>2, <2>3 DEF AccountingInvariant, BytesBalance, SlotsInvariant, Loads
<1> QED BY <1>1, SlotsInvariantHolds, PTL

\* For any limits and any number of Sessions: until a Session is first
\* resumed, what it has said to the Server is accepted or queued, in order,
\* and what the Server has answered is accepted or pending.
THEOREM NothingIsEverLost == Spec => []NothingIsLost
<1>1. SlotsInvariant => NothingIsLost
  <2> SUFFICES ASSUME SlotsInvariant, NEW s \in Slots, sessions[s].generation = 1,
                      slots[s].state = "connected"
               PROVE
       LET ss == sessions[s]  os == origins[s]
           calls == OfKinds(ss.out, {"request", "detach"})
       IN /\ ss.events = os.events + Len(OfKinds(ss.out, {"event"}))
          /\ ss.asked = os.asked + Len(OfKinds(ss.out, {"invoke"}))
          /\ os.asked = ss.answered + Len(OfKinds(slots[s].pending, {"answer"}))
          /\ IF calls # << >> THEN Last(calls).rev = ss.demand
             ELSE /\ os.demand = ss.demand /\ os.active = ss.live
                  /\ os.active => os.argument = ss.count
                  /\ os.active /\ OfKinds(slots[s].pending, {"result"}) = << >>
                       => ss.got = os.result /\ ss.value = os.value
    BY DEF NothingIsLost, SlotsInvariant
  <2> DEFINE sl == slots[s]
             ss == sessions[s]
             os == origins[s]
             calls == OfKinds(ss.out, CallKinds)
  <2>1. FirstSuits(sl, ss, os) /\ CallsSuit(ss, os) /\ ss \in SessionState
    BY SlotOfInvariant DEF Suits
  <2>2. /\ os.events + Len(OfKinds(ss.out, {"event"})) = ss.events
        /\ os.asked + Len(OfKinds(ss.out, {"invoke"})) = ss.asked
        /\ ss.answered + Len(OfKinds(sl.pending, {"answer"})) = os.asked
    BY <2>1 DEF FirstSuits, Numbered
  <2>3. calls = << >> =>
          /\ os.demand = ss.demand /\ os.active = ss.live
          /\ os.active => os.argument = ss.count
          /\ os.active /\ OfKinds(sl.pending, {"result"}) = << >>
               => ss.got = os.result /\ ss.value = os.value
    BY <2>1 DEF FirstSuits
  <2>4. ASSUME calls # << >> PROVE Last(calls).rev = ss.demand
    <3>1. calls \in Seq(Message)
      <4>1. ss.out \in Seq(Message)
        BY <2>1, SessionFields
      <4> QED BY <4>1, OfKindsType
    <3>2. Len(calls) <= 1 /\ (Len(calls) = 1 => calls[1].rev = ss.demand)
      BY <2>1 DEF CallsSuit
    <3> HIDE DEF calls
    <3>3. Len(calls) = 1
      <4>1. Len(calls) \in Nat /\ Len(calls) # 0
        BY <2>4, <3>1
      <4>2. Len(calls) <= 1
        BY <3>2
      <4> DEFINE n == Len(calls)
      <4> HIDE DEF n
      <4>3. n \in Nat /\ n # 0 /\ n <= 1
        BY <4>1, <4>2 DEF n
      <4>4. n = 1
        BY ONLY <4>3
      <4> QED BY <4>4 DEF n
    <3>4. Last(calls) = calls[1]
      BY <3>3 DEF Last
    <3> QED BY <3>2, <3>3, <3>4
  <2>5. calls = OfKinds(ss.out, {"request", "detach"})
    BY DEF CallKinds
  <2> HIDE DEF sl, ss, os, calls
  <2>6. IF calls # << >> THEN Last(calls).rev = ss.demand
        ELSE /\ os.demand = ss.demand /\ os.active = ss.live
             /\ os.active => os.argument = ss.count
             /\ os.active /\ OfKinds(sl.pending, {"result"}) = << >>
                  => ss.got = os.result /\ ss.value = os.value
    BY <2>3, <2>4, Zenon
  <2> QED BY <2>2, <2>5, <2>6, Zenon DEF sl, ss, os
<1> QED BY <1>1, SlotsInvariantHolds, PTL

\* For any limits and any number of Sessions: every Session, connected,
\* stale or resumed, has accepted the Server's current total or has exactly
\* that one pending.
THEOREM TotalAlwaysOnItsWay == Spec => []TotalIsOnItsWay
<1>1. SlotsInvariant => TotalIsOnItsWay
  BY DEF SlotsInvariant, Suits, TotalSuits, TotalIsOnItsWay, Used
<1> QED BY <1>1, SlotsInvariantHolds, PTL
=============================================================================
