---------------------------- MODULE DeliveryRelay ----------------------------
(****************************************************************************)
(* The consumer of notification_deliveries: NotificationDeliveryRelay       *)
(* claims due rows under a lease, hands each to the SMS provider and writes *)
(* the result.  The provider is outside the database: an SMS that went out  *)
(* cannot be rolled back, and its answer may be lost.                       *)
(*                                                                          *)
(* The rows are the ones a fan-out of OutboxRelay inserts; here they appear *)
(* by themselves.                                                           *)
(****************************************************************************)
EXTENDS LeaseQueue

CONSTANTS
    Procs,          \* processes that run the relay
    MaxDeliveries,  \* bound: delivery rows ever inserted
    SweepBatch      \* SWEEP_BATCH_SIZE: rows one sweep may take

ASSUME MaxDeliveriesAssumption == MaxDeliveries \in Nat \ {0}
ASSUME SweepBatchAssumption == SweepBatch \in Nat \ {0}

VARIABLES
    delivery,    \* delivery[d]: the queue columns of row d
    sms,         \* sms[d][n]: SMS sent for row d by its n-th claim (history)
    failAudits,  \* failAudits[d]: NOTIFICATION_DELIVERY_FAILED audit rows
    phase,       \* phase[p]: where pollOnce of process p is
    job          \* job[p][d]: what processClaimedRow of p does with row d

vars == <<delivery, sms, failAudits, phase, job>>

Deliveries == 1 .. MaxDeliveries

Phases == {"idle", "claim", "settle"}

\* "sending": sendSms called; "sent": it returned; "failing": something threw.
Stages == {"none", "sending", "sent", "failing"}
Job == [stage : Stages, attempt : 0 .. MaxAttempts]
NoJob == [stage |-> "none", attempt |-> 0]

Working(p) == {d \in Deliveries : job[p][d].stage # "none"}

TypeOK ==
    /\ delivery \in [Deliveries -> Row]
    /\ sms \in [Deliveries -> [1 .. MaxAttempts -> Nat]]
    /\ failAudits \in [Deliveries -> Nat]
    /\ phase \in [Procs -> Phases]
    /\ job \in [Procs -> [Deliveries -> Job]]

Init ==
    /\ delivery = [d \in Deliveries |-> AbsentRow]
    /\ sms = [d \in Deliveries |-> [n \in 1 .. MaxAttempts |-> 0]]
    /\ failAudits = [d \in Deliveries |-> 0]
    /\ phase = [p \in Procs |-> "idle"]
    /\ job = [p \in Procs |-> [d \in Deliveries |-> NoJob]]

-----------------------------------------------------------------------------
(* The environment: fan-outs and time. *)

Insert(d) ==
    /\ delivery[d].status = "ABSENT"
    /\ \A c \in Deliveries : c < d => delivery[c].status # "ABSENT"
    /\ delivery' = [delivery EXCEPT ![d] = NewRow]
    /\ UNCHANGED <<sms, failAudits, phase, job>>

Elapse(d) ==
    /\ IsOpen(delivery[d]) /\ delivery[d].due = "later"
    /\ delivery' = [delivery EXCEPT ![d].due = "now"]
    /\ UNCHANGED <<sms, failAudits, phase, job>>

-----------------------------------------------------------------------------
(* pollOnce *)

Sweep(p) ==
    /\ phase[p] = "idle"
    /\ \E S \in AnyOf({d \in Deliveries : Exhausted(delivery[d])}, SweepBatch) :
          /\ delivery' = [d \in Deliveries |->
                IF d \in S THEN Swept(delivery[d]) ELSE delivery[d]]
          /\ failAudits' = [d \in Deliveries |->
                IF d \in S THEN failAudits[d] + 1 ELSE failAudits[d]]
    /\ phase' = [phase EXCEPT ![p] = "claim"]
    /\ UNCHANGED <<sms, job>>

ClaimSet == Oldest({d \in Deliveries : Claimable(delivery[d])}, BatchSize)

Claim(p) ==
    /\ phase[p] = "claim"
    /\ delivery' = [d \in Deliveries |->
          IF d \in ClaimSet THEN Claimed(delivery[d]) ELSE delivery[d]]
    /\ job' = [job EXCEPT ![p] = [d \in Deliveries |->
          IF d \in ClaimSet
          THEN [stage |-> "sending", attempt |-> delivery[d].attempts + 1]
          ELSE NoJob]]
    /\ phase' = [phase EXCEPT ![p] = "settle"]
    /\ UNCHANGED <<sms, failAudits>>

ClaimFails(p) ==
    /\ phase[p] = "claim"
    /\ phase' = [phase EXCEPT ![p] = "idle"]
    /\ UNCHANGED <<delivery, sms, failAudits, job>>

EndPoll(p) ==
    /\ phase[p] = "settle"
    /\ Working(p) = {}
    /\ phase' = [phase EXCEPT ![p] = "idle"]
    /\ UNCHANGED <<delivery, sms, failAudits, job>>

-----------------------------------------------------------------------------
(* processClaimedRow of one claimed row. *)

\* Faulty variants: a failed call is repeated at once, the error of a refused SMS
\* is swallowed, and a result is written whatever the row has become.
SendSmsRepeating(p, d) ==
    /\ job[p][d].stage = "sending"
    /\ sms' = [sms EXCEPT ![d][job[p][d].attempt] = @ + 1]
    /\ \E s \in {"sent", "sending"} : job' = [job EXCEPT ![p][d].stage = s]
    /\ UNCHANGED <<delivery, failAudits, phase>>
SendSmsFailsSilently(p, d) ==
    /\ job[p][d].stage = "sending"
    /\ job' = [job EXCEPT ![p][d].stage = "sent"]
    /\ UNCHANGED <<delivery, sms, failAudits, phase>>
RecordSentUnguarded(p, d) ==
    /\ job[p][d].stage = "sent"
    /\ delivery' = [delivery EXCEPT ![d] = Processed(@)]
    /\ job' = [job EXCEPT ![p][d] = NoJob]
    /\ UNCHANGED <<sms, failAudits, phase>>

\* The provider takes the SMS; the caller learns of it, or gets an error.
SendSms(p, d) ==
    /\ job[p][d].stage = "sending"
    /\ sms' = [sms EXCEPT ![d][job[p][d].attempt] = @ + 1]
    /\ \E s \in {"sent", "failing"} : job' = [job EXCEPT ![p][d].stage = s]
    /\ UNCHANGED <<delivery, failAudits, phase>>

\* The provider refuses it.
SendSmsFails(p, d) ==
    /\ job[p][d].stage = "sending"
    /\ job' = [job EXCEPT ![p][d].stage = "failing"]
    /\ UNCHANGED <<delivery, sms, failAudits, phase>>

\* The success is written only over PROCESSING.
RecordSent(p, d) ==
    /\ job[p][d].stage = "sent"
    /\ delivery' = [delivery EXCEPT ![d] =
          IF @.status = "PROCESSING" THEN Processed(@) ELSE @]
    /\ job' = [job EXCEPT ![p][d] = NoJob]
    /\ UNCHANGED <<sms, failAudits, phase>>

\* That write throws, and the catch treats the SMS as not sent.
RecordSentFails(p, d) ==
    /\ job[p][d].stage = "sent"
    /\ job' = [job EXCEPT ![p][d].stage = "failing"]
    /\ UNCHANGED <<delivery, sms, failAudits, phase>>

ResolveFailure(p, d) ==
    LET j == job[p][d]
        after == AfterFailure(delivery[d], j.attempt, FALSE)
    IN  /\ j.stage = "failing"
        /\ delivery' = [delivery EXCEPT ![d] = after]
        /\ failAudits' = [failAudits EXCEPT ![d] =
              IF delivery[d].status = "PROCESSING" /\ after.status = "FAILED"
              THEN @ + 1 ELSE @]
        /\ job' = [job EXCEPT ![p][d] = NoJob]
        /\ UNCHANGED <<sms, phase>>

ResolveFailureFails(p, d) ==
    /\ job[p][d].stage = "failing"
    /\ job' = [job EXCEPT ![p][d] = NoJob]
    /\ UNCHANGED <<delivery, sms, failAudits, phase>>

Crash(p) ==
    /\ phase[p] # "idle"
    /\ phase' = [phase EXCEPT ![p] = "idle"]
    /\ job' = [job EXCEPT ![p] = [d \in Deliveries |-> NoJob]]
    /\ UNCHANGED <<delivery, sms, failAudits>>

-----------------------------------------------------------------------------

\* The steps that wait for the provider, and the ones that do not.
AwaitProvider(p, d) == SendSms(p, d) \/ SendSmsFails(p, d)
Write(p, d) ==
    \/ RecordSent(p, d)
    \/ RecordSentFails(p, d)
    \/ ResolveFailure(p, d)
    \/ ResolveFailureFails(p, d)

Next ==
    \/ \E d \in Deliveries : Insert(d) \/ Elapse(d)
    \/ \E p \in Procs : Sweep(p) \/ Claim(p) \/ ClaimFails(p) \/ EndPoll(p) \/ Crash(p)
    \/ \E p \in Procs, d \in Deliveries : AwaitProvider(p, d) \/ Write(p, d)

Spec == Init /\ [][Next]_vars

\* As in OutboxRelay: time passes, polls go on in spite of crashes.
RelayFairness ==
    /\ \A d \in Deliveries : WF_vars(Elapse(d))
    /\ \A p \in Procs : SF_vars(Sweep(p)) /\ SF_vars(Claim(p)) /\ WF_vars(EndPoll(p))
    /\ \A p \in Procs, d \in Deliveries : WF_vars(Write(p, d))

\* The provider answers every call, well or badly.  Nothing in the code bounds
\* the wait for it: this is an assumption on the provider.
ProviderAnswers == \A p \in Procs, d \in Deliveries : WF_vars(AwaitProvider(p, d))

FairSpec == Spec /\ RelayFairness /\ ProviderAnswers
SilentProviderSpec == Spec /\ RelayFairness

-----------------------------------------------------------------------------
(* Properties *)

\* However workers overtake each other and processes crash, one claim sends at
\* most one SMS: a recipient gets at most MaxAttempts copies of a notification.
OneSmsPerClaim ==
    \A d \in Deliveries, n \in 1 .. MaxAttempts :
        sms[d][n] <= (IF n <= delivery[d].attempts THEN 1 ELSE 0)

\* A row is PROCESSED only if its SMS went out, whichever worker's result won.
ProcessedWasSent ==
    \A d \in Deliveries : delivery[d].status = "PROCESSED" =>
        \E n \in 1 .. delivery[d].attempts : sms[d][n] > 0

\* A settled row stays as it was settled: the stale result of an overtaken
\* worker never replaces the one another worker has written
\* (the status guards of processClaimedRow and resolveFailure).
SettledIsFinal ==
    [][\A d \in Deliveries :
          delivery[d].status \in {"PROCESSED", "FAILED"} =>
              delivery'[d].status = delivery[d].status]_vars

\* A row is FAILED exactly when one failure of it is on record.
FailureAuditedOnce ==
    \A d \in Deliveries :
        failAudits[d] = (IF delivery[d].status = "FAILED" THEN 1 ELSE 0)

\* Every queued notification is settled, if the provider answers.
EventuallySettled ==
    \A d \in Deliveries :
        (delivery[d].status # "ABSENT") ~>
            (delivery[d].status \in {"PROCESSED", "FAILED"})

\* The runbook: a PROCESSING row whose lease has run out is claimed again by
\* itself, so that it needs no attention.  (The poll of a process waits for all
\* its sends, and isPolling keeps it from claiming anything meanwhile.)
LeaseExpiryFreesRow ==
    \A d \in Deliveries :
        (delivery[d].status = "PROCESSING" /\ delivery[d].due = "now") ~>
            (delivery[d].due # "now" \/ delivery[d].status # "PROCESSING")
=============================================================================
