--------------------------- MODULE MCDeliveryRelay ---------------------------
(* Small instances of DeliveryRelay for TLC. *)
EXTENDS DeliveryRelay, TLC

Symmetry == Permutations(Procs)
=============================================================================
