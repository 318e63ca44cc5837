-------------------------- MODULE MCTicketWorkflow --------------------------
(* Small instances of TicketWorkflow for TLC. *)
EXTENDS TicketWorkflow, TLC

Symmetry == Permutations(Technicians)
=============================================================================
