--------------------------- MODULE MCHostEffects ---------------------------
(* Instances of HostEffects for TLC. *)
EXTENDS HostEffects
=============================================================================
