-------------------------- MODULE GenerationChannel --------------------------
(***************************************************************************)
(* What the Client/Session transport promises the events of one direction. *)
(* Within one transport generation they are delivered in order, without a  *)
(* gap and at most once; when a generation ends, the events of it that     *)
(* were not delivered never are.                                           *)
(***************************************************************************)
EXTENDS Naturals

VARIABLES
  produced,   \* events produced so far
  base,       \* events produced before the producer's generation began
  delivered   \* number of the last event delivered

vars == <<produced, base, delivered>>

Init == produced = 0 /\ base = 0 /\ delivered = 0

Produce ==
  /\ produced' = produced + 1
  /\ UNCHANGED <<base, delivered>>

Deliver ==
  LET next == IF delivered > base THEN delivered + 1 ELSE base + 1 IN
  /\ next <= produced
  /\ delivered' = next
  /\ UNCHANGED <<produced, base>>

NewGeneration ==
  /\ base' = produced
  /\ UNCHANGED <<produced, delivered>>

Next == Produce \/ Deliver \/ NewGeneration

Spec == Init /\ [][Next]_vars

=============================================================================
