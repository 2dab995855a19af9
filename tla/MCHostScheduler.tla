-------------------------- MODULE MCHostScheduler --------------------------
(* An instance of HostScheduler for TLC. *)
EXTENDS HostScheduler
=============================================================================
