-------------------------- MODULE MCContractBilling --------------------------
(* Small instances of ContractBilling for TLC. *)
EXTENDS ContractBilling, TLC

Symmetry == Permutations(Contracts) \cup Permutations(Clients) \cup Permutations(WarnJobs)
=============================================================================
