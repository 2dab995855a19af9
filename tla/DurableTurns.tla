---------------------------- MODULE DurableTurns ----------------------------
(***************************************************************************)
(* What the persistence layer promises its runtime: the turns it has       *)
(* accepted form one log, in order; a prefix of that log is durable; a     *)
(* crash, or the end of the worker, loses the tail that is not durable and *)
(* nothing else.  PersistenceWorker implements this specification.         *)
(***************************************************************************)
EXTENDS Naturals, Sequences

CONSTANT Payloads    \* what a turn writes

VARIABLES log,       \* the turns accepted and not lost
          durable    \* how many of them are on disk

vars == <<log, durable>>

TypeOK ==
  /\ log \in Seq(Payloads)
  /\ durable \in 0 .. Len(log)

Init ==
  /\ log = <<>>
  /\ durable = 0

\* A turn is accepted: visible at once, durable later.
Accept(p) ==
  /\ log' = Append(log, p)
  /\ UNCHANGED durable

\* A checkpoint makes some more of the accepted turns durable.
Persist ==
  /\ durable' \in (durable + 1) .. Len(log)
  /\ UNCHANGED log

\* A turn accepted and made durable at once, after all the others.
AcceptDurably(p) ==
  /\ durable = Len(log)
  /\ log' = Append(log, p)
  /\ durable' = Len(log) + 1

\* The tail that is not durable is lost.
Lose ==
  /\ durable < Len(log)
  /\ log' = SubSeq(log, 1, durable)
  /\ UNCHANGED durable

Next ==
  \/ \E p \in Payloads : Accept(p) \/ AcceptDurably(p)
  \/ Persist
  \/ Lose

Spec == Init /\ [][Next]_vars
=============================================================================
