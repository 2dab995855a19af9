----------------------- MODULE MCClientSessionTransport -----------------------
(***************************************************************************)
(* Instances of ClientSessionTransport for TLC: what each end publishes.   *)
(***************************************************************************)
EXTENDS ClientSessionTransport

FromSession ==
  [p \in Peer |-> IF p = Session THEN {"current", "event"} ELSE {}]
CallsAndValue ==
  [p \in Peer |-> IF p = Session THEN {"current"} ELSE {"event", "request"}]
CallsAndEvents == [p \in Peer |-> {"event", "request"}]

=============================================================================
