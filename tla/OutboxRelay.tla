----------------------------- MODULE OutboxRelay -----------------------------
(****************************************************************************)
(* The consumer of outbox_events: OutboxRelay claims due events under a     *)
(* lease and NotificationDispatcher fans each of them out, in one           *)
(* transaction, into one notification_deliveries row per recipient.         *)
(*                                                                          *)
(* Several processes run the relay over one PostgreSQL database at READ     *)
(* COMMITTED.  A claim is only a lease: when it lapses another process may  *)
(* claim the row while the first one still works on it.  The worker's own   *)
(* writes carry no claim token, only the guards modelled below.  Any        *)
(* process may crash at any moment, and any database call may fail.         *)
(****************************************************************************)
EXTENDS LeaseQueue

CONSTANTS
    Procs,       \* processes that run the relay
    Phones,      \* recipient phone numbers, normalised (E.164)
    MaxEvents,   \* bound: events ever published
    SweepBatch   \* SWEEP_BATCH_SIZE: rows one sweep may take

ASSUME MaxEventsAssumption == MaxEvents \in Nat \ {0}
ASSUME SweepBatchAssumption == SweepBatch \in Nat \ {0}

VARIABLES
    event,       \* event[e]: the queue columns of outbox_events row e
    kind,        \* kind[e]: what the dispatcher makes of its type and payload
    contacts,    \* phones of the users a recipient lookup finds right now
    delivered,   \* delivered[e]: recipient_phone of the delivery rows of event e
    failAudits,  \* failAudits[e]: OUTBOX_EVENT_FAILED rows in audit_logs
    fanOuts,     \* fanOuts[e]: committed fan-outs that queued rows for e (history)
    phase,       \* phase[p]: where pollOnce of process p is
    job          \* job[p][e]: what processClaimedRow of p does with event e

vars == <<event, kind, contacts, delivered, failAudits, fanOuts, phase, job>>

Events == 1 .. MaxEvents

\* "notify": one of the four routed types with a valid payload; "ignored": any
\* other type; "malformed": a routed type whose payload fails its schema.
Kinds == {"notify", "ignored", "malformed"}

Phases == {"idle", "claim", "settle"}

\* "lookup": fanOut called; "insert": recipients resolved; "tx": rows inserted
\* and the event row locked, not committed; "failing": fanOut threw.
Stages == {"none", "lookup", "insert", "tx", "failing"}
Job == [stage : Stages, attempt : 0 .. MaxAttempts, to : SUBSET Phones,
        fatal : BOOLEAN]
NoJob == [stage |-> "none", attempt |-> 0, to |-> {}, fatal |-> FALSE]

Published == {e \in Events : event[e].status # "ABSENT"}
Working(p) == {e \in Events : job[p][e].stage # "none"}
Holders(e) == {p \in Procs : job[p][e].stage # "none"}

\* Row locks of the fan-out transactions that are open: FOR UPDATE SKIP LOCKED
\* passes over such a row, any other UPDATE of it waits.
Locked(e) == \E p \in Procs : job[p][e].stage = "tx"
Unlocked == {e \in Events : ~Locked(e)}

TypeOK ==
    /\ event \in [Events -> Row]
    /\ kind \in [Events -> Kinds]
    /\ contacts \in SUBSET Phones
    /\ delivered \in [Events -> SUBSET Phones]
    /\ failAudits \in [Events -> Nat]
    /\ fanOuts \in [Events -> Nat]
    /\ phase \in [Procs -> Phases]
    /\ job \in [Procs -> [Events -> Job]]

Init ==
    /\ event = [e \in Events |-> AbsentRow]
    /\ kind \in [Events -> Kinds]
    /\ contacts \in SUBSET Phones
    /\ delivered = [e \in Events |-> {}]
    /\ failAudits = [e \in Events |-> 0]
    /\ fanOuts = [e \in Events |-> 0]
    /\ phase = [p \in Procs |-> "idle"]
    /\ job = [p \in Procs |-> [e \in Events |-> NoJob]]

-----------------------------------------------------------------------------
(* The environment: producers, user data and time. *)

\* publishInTx, committed with the domain change that caused the event.
Publish(e) ==
    /\ event[e].status = "ABSENT"
    /\ \A d \in Events : d < e => event[d].status # "ABSENT"
    /\ event' = [event EXCEPT ![e] = NewRow]
    /\ UNCHANGED <<kind, contacts, delivered, failAudits, fanOuts, phase, job>>

\* A user is activated or deactivated, gets another phone, joins or leaves a site.
ChangeContacts ==
    /\ contacts' \in SUBSET Phones
    /\ UNCHANGED <<event, kind, delivered, failAudits, fanOuts, phase, job>>

\* The lease or the backoff of a row runs out.
Elapse(e) ==
    /\ IsOpen(event[e]) /\ event[e].due = "later"
    /\ event' = [event EXCEPT ![e].due = "now"]
    /\ UNCHANGED <<kind, contacts, delivered, failAudits, fanOuts, phase, job>>

-----------------------------------------------------------------------------
(* pollOnce: sweep, then claim, then wait for every claimed row to settle.  *)
(* isPolling keeps a process from starting another poll before that.        *)

Sweep(p) ==
    /\ phase[p] = "idle"
    /\ \E S \in AnyOf({e \in Unlocked : Exhausted(event[e])}, SweepBatch) :
          /\ event' = [e \in Events |-> IF e \in S THEN Swept(event[e]) ELSE event[e]]
          /\ failAudits' =
                [e \in Events |-> IF e \in S THEN failAudits[e] + 1 ELSE failAudits[e]]
    /\ phase' = [phase EXCEPT ![p] = "claim"]
    /\ UNCHANGED <<kind, contacts, delivered, fanOuts, job>>

ClaimSet == Oldest({e \in Unlocked : Claimable(event[e])}, BatchSize)

Claim(p) ==
    /\ phase[p] = "claim"
    /\ event' =
          [e \in Events |-> IF e \in ClaimSet THEN Claimed(event[e]) ELSE event[e]]
    /\ job' = [job EXCEPT ![p] =
          [e \in Events |->
              IF e \in ClaimSet
              THEN [NoJob EXCEPT !.stage = "lookup", !.attempt = event[e].attempts + 1]
              ELSE NoJob]]
    /\ phase' = [phase EXCEPT ![p] = "settle"]
    /\ UNCHANGED <<kind, contacts, delivered, failAudits, fanOuts>>

\* The claim query throws; scheduleTick logs it and the poll is over.
ClaimFails(p) ==
    /\ phase[p] = "claim"
    /\ phase' = [phase EXCEPT ![p] = "idle"]
    /\ UNCHANGED <<event, kind, contacts, delivered, failAudits, fanOuts, job>>

EndPoll(p) ==
    /\ phase[p] = "settle"
    /\ Working(p) = {}
    /\ phase' = [phase EXCEPT ![p] = "idle"]
    /\ UNCHANGED <<event, kind, contacts, delivered, failAudits, fanOuts, job>>

-----------------------------------------------------------------------------
(* processClaimedRow of one claimed row: fanOut, and resolveFailure when it *)
(* throws.  The rows of a batch proceed concurrently.                       *)

\* An unrouted type is marked PROCESSED by one unconditional UPDATE.
MarkProcessed(p, e) ==
    /\ job[p][e].stage = "lookup" /\ kind[e] = "ignored" /\ ~Locked(e)
    /\ event' = [event EXCEPT ![e] = Processed(@)]
    /\ job' = [job EXCEPT ![p][e] = NoJob]
    /\ UNCHANGED <<kind, contacts, delivered, failAudits, fanOuts, phase>>

\* parse throws NonRetryableDispatchError.
RejectPayload(p, e) ==
    /\ job[p][e].stage = "lookup" /\ kind[e] = "malformed"
    /\ job' = [job EXCEPT ![p][e] = [@ EXCEPT !.stage = "failing", !.fatal = TRUE]]
    /\ UNCHANGED <<event, kind, contacts, delivered, failAudits, fanOuts, phase>>

\* The recipients are read before, and outside, the transaction that uses them.
ResolveRecipients(p, e) ==
    /\ job[p][e].stage = "lookup" /\ kind[e] = "notify"
    /\ job' = [job EXCEPT ![p][e] = [@ EXCEPT !.stage = "insert", !.to = contacts]]
    /\ UNCHANGED <<event, kind, contacts, delivered, failAudits, fanOuts, phase>>

\* A faulty variant: the rows are inserted before the transaction starts.
InsertDeliveriesAlone(p, e) ==
    /\ job[p][e].stage = "insert" /\ ~Locked(e)
    /\ IF job[p][e].to \cap delivered[e] = {}
       THEN /\ job' = [job EXCEPT ![p][e].stage = "tx"]
            /\ delivered' = [delivered EXCEPT ![e] = @ \cup job[p][e].to]
       ELSE /\ job' = [job EXCEPT ![p][e].stage = "failing"]
            /\ UNCHANGED delivered
    /\ UNCHANGED <<event, kind, contacts, failAudits, fanOuts, phase>>

\* commitFanOut up to its COMMIT.  An insert that meets the uncommitted row of
\* another fan-out waits for it, and so does the UPDATE of the event row; the
\* unique key (source_event_id, recipient_phone, channel) refuses a second row.
InsertDeliveries(p, e) ==
    /\ job[p][e].stage = "insert" /\ ~Locked(e)
    /\ IF job[p][e].to \cap delivered[e] = {}
       THEN job' = [job EXCEPT ![p][e].stage = "tx"]
       ELSE job' = [job EXCEPT ![p][e].stage = "failing"]
    /\ UNCHANGED <<event, kind, contacts, delivered, failAudits, fanOuts, phase>>

\* The COMMIT; its acknowledgement may be lost, and then fanOut throws.
CommitFanOut(p, e) ==
    /\ job[p][e].stage = "tx"
    /\ event' = [event EXCEPT ![e] = Processed(@)]
    /\ delivered' = [delivered EXCEPT ![e] = @ \cup job[p][e].to]
    /\ fanOuts' = [fanOuts EXCEPT ![e] = IF job[p][e].to = {} THEN @ ELSE @ + 1]
    /\ \/ job' = [job EXCEPT ![p][e] = NoJob]
       \/ job' = [job EXCEPT ![p][e].stage = "failing"]
    /\ UNCHANGED <<kind, contacts, failAudits, phase>>

\* A query of fanOut fails; an open transaction is rolled back.
FanOutFails(p, e) ==
    /\ job[p][e].stage \in {"lookup", "insert", "tx"}
    /\ job' = [job EXCEPT ![p][e].stage = "failing"]
    /\ UNCHANGED <<event, kind, contacts, delivered, failAudits, fanOuts, phase>>

\* resolveFailure: every write of it is guarded by status = 'PROCESSING'.
ResolveFailure(p, e) ==
    LET j == job[p][e]
        after == AfterFailure(event[e], j.attempt, j.fatal)
    IN  /\ j.stage = "failing" /\ ~Locked(e)
        /\ event' = [event EXCEPT ![e] = after]
        /\ failAudits' = [failAudits EXCEPT ![e] =
              IF event[e].status = "PROCESSING" /\ after.status = "FAILED"
              THEN @ + 1 ELSE @]
        /\ job' = [job EXCEPT ![p][e] = NoJob]
        /\ UNCHANGED <<kind, contacts, delivered, fanOuts, phase>>

\* resolveFailure throws too; Promise.allSettled swallows it.
ResolveFailureFails(p, e) ==
    /\ job[p][e].stage = "failing"
    /\ job' = [job EXCEPT ![p][e] = NoJob]
    /\ UNCHANGED <<event, kind, contacts, delivered, failAudits, fanOuts, phase>>

\* The process dies, or its shutdown drain times out, and it starts again.
Crash(p) ==
    /\ phase[p] # "idle"
    /\ phase' = [phase EXCEPT ![p] = "idle"]
    /\ job' = [job EXCEPT ![p] = [e \in Events |-> NoJob]]
    /\ UNCHANGED <<event, kind, contacts, delivered, failAudits, fanOuts>>

-----------------------------------------------------------------------------

Settle(p, e) ==
    \/ MarkProcessed(p, e)
    \/ RejectPayload(p, e)
    \/ ResolveRecipients(p, e)
    \/ InsertDeliveries(p, e)
    \/ CommitFanOut(p, e)
    \/ FanOutFails(p, e)
    \/ ResolveFailure(p, e)
    \/ ResolveFailureFails(p, e)

Next ==
    \/ \E e \in Events : Publish(e) \/ Elapse(e)
    \/ ChangeContacts
    \/ \E p \in Procs : Sweep(p) \/ Claim(p) \/ ClaimFails(p) \/ EndPoll(p) \/ Crash(p)
    \/ \E p \in Procs, e \in Events : Settle(p, e)

Spec == Init /\ [][Next]_vars

(****************************************************************************)
(* setInterval keeps ticking and time passes (weak fairness); a claimed row *)
(* is worked on until it settles.  A process may crash, or its claim query  *)
(* fail, again and again, but not every time it is about to sweep or claim  *)
(* (strong fairness).                                                       *)
(****************************************************************************)
Fairness ==
    /\ \A e \in Events : WF_vars(Elapse(e))
    /\ \A p \in Procs : SF_vars(Sweep(p)) /\ SF_vars(Claim(p)) /\ WF_vars(EndPoll(p))
    /\ \A p \in Procs, e \in Events : WF_vars(Settle(p, e))

FairSpec == Spec /\ Fairness

-----------------------------------------------------------------------------
(* Properties *)

\* Delivery rows exist only for an event that is PROCESSED, and stays so: no
\* stale worker, sweep or failed acknowledgement ever re-opens or fails an
\* event whose alerts have been queued (commitFanOut, resolveFailure).
DeliveriesOnlyOfProcessed ==
    \A e \in Events : delivered[e] # {} => event[e].status = "PROCESSED"

\* A PROCESSED event is final whatever an overtaken worker still does: the
\* promise of the comment on resolveFailure.
ProcessedIsFinal ==
    [][\A e \in Events :
          event[e].status = "PROCESSED" => event'[e].status = "PROCESSED"]_vars

\* A failure is recorded once, whoever wins the race between the sweep and the
\* worker of the last attempt: never before the event fails, and a FAILED event
\* has exactly one audit record (the status guards of resolveFailure).
FailureAuditedOnce ==
    \A e \in Events :
        /\ failAudits[e] <= 1
        /\ event[e].status = "FAILED" => failAudits[e] = 1
        /\ event[e].status \in {"ABSENT", "PENDING", "PROCESSING"} => failAudits[e] = 0

\* Two processes may hold one event at once, but never under the same attempt
\* number, and none holds a number that has not been claimed yet.
AttemptIdentifiesHolder ==
    \A e \in Events, p \in Procs : p \in Holders(e) =>
        /\ job[p][e].attempt \in 1 .. event[e].attempts
        /\ \A q \in Holders(e) : q # p => job[q][e].attempt # job[p][e].attempt

\* Seen from the producers, the relay is the ledger of EventLedger: whatever the
\* workers, leases and crashes do, each step queues one whole fan-out, records
\* failures of open events only, or changes nothing a producer could see.
LedgerOf(row) ==
    CASE row.status = "ABSENT" -> "none"
      [] row.status \in OpenStatuses -> "open"
      [] row.status = "PROCESSED" -> "done"
      [] row.status = "FAILED" -> "failed"

Ledger == INSTANCE EventLedger WITH
    ledger <- [e \in Events |-> LedgerOf(event[e])],
    queued <- delivered,
    recorded <- {e \in Events : failAudits[e] > 0}

ImplementsLedger == Ledger!Spec

\* Every published event is eventually PROCESSED or FAILED: crashes use up the
\* budget, and the sweep ends what no claim can take any more.
EventuallyResolved ==
    \A e \in Events :
        (event[e].status # "ABSENT") ~> (event[e].status \in {"PROCESSED", "FAILED"})

\* What the dispatcher's comment says of the bookkeeping: the fan-out of an
\* event is exactly-once.  (Two leased workers that resolve disjoint recipient
\* lists both commit.)
FanOutOnce == \A e \in Events : fanOuts[e] <= 1
=============================================================================
