---------------------------- MODULE MCOutboxRelay ----------------------------
(* Small instances of OutboxRelay for TLC. *)
EXTENDS OutboxRelay, TLC

Symmetry == Permutations(Procs) \cup Permutations(Phones)
=============================================================================
