------------------------ MODULE MCPersistenceWorker ------------------------
(* Instances of PersistenceWorker for TLC. *)
EXTENDS PersistenceWorker, TLC

\* The threads are alike, and so are the payloads.
Symmetry == Permutations(Callers) \cup Permutations(Payloads)
=============================================================================
