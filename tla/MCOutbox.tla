------------------------------ MODULE MCOutbox ------------------------------
(* Outbox on small instances.                                              *)
EXTENDS Outbox, TLC

(* Events and workers are interchangeable.                                 *)
Symmetry == Permutations(Event) \cup Permutations(Worker)
=============================================================================
