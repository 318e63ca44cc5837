----------------------------- MODULE EventLedger -----------------------------
(*****************************************************************************)
(* What the outbox promises to the services that publish domain events,      *)
(* without workers, leases or retries: a published event is open until its   *)
(* notifications are queued, all of those of a fan-out in one step, or until *)
(* its failure is recorded.  Queued notifications are never taken back, and  *)
(* an event that has been dealt with never opens again.  A failure is not    *)
(* the last word: a worker that finishes late may still queue the            *)
(* notifications of a failed event, and its record of failure stays.         *)
(*****************************************************************************)
CONSTANTS Events, Phones

VARIABLES
    ledger,     \* ledger[e]: "none", "open", "done" or "failed"
    queued,     \* queued[e]: recipients whose notification is queued
    recorded    \* events whose failure is on record

ledgerVars == <<ledger, queued, recorded>>

LedgerTypeOK ==
    /\ ledger \in [Events -> {"none", "open", "done", "failed"}]
    /\ queued \in [Events -> SUBSET Phones]
    /\ recorded \in SUBSET Events

Init ==
    /\ ledger = [e \in Events |-> "none"]
    /\ queued = [e \in Events |-> {}]
    /\ recorded = {}

Publish(e) ==
    /\ ledger[e] = "none"
    /\ ledger' = [ledger EXCEPT ![e] = "open"]
    /\ UNCHANGED <<queued, recorded>>

Queue(e, to) ==
    /\ ledger[e] # "none"
    /\ queued[e] \cap to = {}
    /\ ledger' = [ledger EXCEPT ![e] = "done"]
    /\ queued' = [queued EXCEPT ![e] = @ \cup to]
    /\ UNCHANGED recorded

Fail(S) ==
    /\ \A e \in S : ledger[e] = "open" /\ e \notin recorded
    /\ ledger' = [e \in Events |-> IF e \in S THEN "failed" ELSE ledger[e]]
    /\ recorded' = recorded \cup S
    /\ UNCHANGED queued

Next ==
    \/ \E e \in Events : Publish(e)
    \/ \E e \in Events, to \in SUBSET Phones : Queue(e, to)
    \/ \E S \in SUBSET Events : Fail(S)

Spec == Init /\ [][Next]_ledgerVars
=============================================================================
