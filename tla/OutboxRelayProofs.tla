-------------------------- MODULE OutboxRelayProofs --------------------------
(*************************************************************************)
(* Proofs about OutboxRelay, for any number of processes, phones, events *)
(* and attempts: its type invariant, its safety properties, and that it  *)
(* implements EventLedger.                                               *)
(*************************************************************************)
EXTENDS OutboxRelay, LeaseQueueProofs

(*************************************************************************)
(* Type correctness                                                      *)
(*************************************************************************)

LEMMA InitTypeOK == Init => TypeOK
  BY InitialRows, MaxAttemptsAssumption
  DEF Init, TypeOK, Job, NoJob, Stages, Phases

LEMMA StepTypeOK == TypeOK /\ [Next]_vars => TypeOK'
<1> SUFFICES ASSUME TypeOK, [Next]_vars PROVE TypeOK'
  OBVIOUS
<1> USE DEF TypeOK
<1>1. ASSUME NEW e \in Events, Publish(e) PROVE TypeOK'
  BY <1>1, InitialRows DEF Publish
<1>2. ASSUME NEW e \in Events, Elapse(e) PROVE TypeOK'
  <2>1. [event[e] EXCEPT !.due = "now"] \in Row
    BY DEF Row, Dues
  <2> QED
    BY <1>2, <2>1 DEF Elapse
<1>3. CASE ChangeContacts
  BY <1>3 DEF ChangeContacts
<1>4. ASSUME NEW p \in Procs, Sweep(p) PROVE TypeOK'
  <2>1. PICK S \in AnyOf({e \in Unlocked : Exhausted(event[e])}, SweepBatch) :
           /\ event' = [e \in Events |->
                            IF e \in S THEN Swept(event[e]) ELSE event[e]]
           /\ failAudits' = [e \in Events |->
                            IF e \in S THEN failAudits[e] + 1 ELSE failAudits[e]]
    BY <1>4 DEF Sweep
  <2>2. \A e \in Events : Swept(event[e]) \in Row
    BY DEF Swept, Row, Statuses
  <2> QED
    BY <1>4, <2>1, <2>2 DEF Sweep, Phases
<1>5. ASSUME NEW p \in Procs, Claim(p) PROVE TypeOK'
  <2>1. \A e \in ClaimSet : e \in Events /\ Claimable(event[e])
    BY DEF ClaimSet, Oldest, Unlocked
  <2>2. \A e \in ClaimSet : Claimed(event[e]) \in Row
    BY <2>1, RowWrites
  <2>3. \A e \in ClaimSet : event[e].attempts + 1 \in 0 .. MaxAttempts
    BY <2>1, MaxAttemptsAssumption DEF Row, Claimable
  <2>4. \A e \in ClaimSet :
           [NoJob EXCEPT !.stage = "lookup", !.attempt = event[e].attempts + 1] \in Job
    BY <2>3 DEF NoJob, Job, Stages
  <2>5. NoJob \in Job
    BY MaxAttemptsAssumption DEF NoJob, Job, Stages
  <2> QED
    BY <1>5, <2>1, <2>2, <2>4, <2>5 DEF Claim, Phases
<1>6. ASSUME NEW p \in Procs, ClaimFails(p) \/ EndPoll(p) PROVE TypeOK'
  BY <1>6 DEF ClaimFails, EndPoll, Phases
<1>7. ASSUME NEW p \in Procs, Crash(p) PROVE TypeOK'
  BY <1>7, MaxAttemptsAssumption DEF Crash, Phases, NoJob, Job, Stages
<1>8. ASSUME NEW p \in Procs, NEW e \in Events, Settle(p, e) PROVE TypeOK'
  <2>1. NoJob \in Job
    BY MaxAttemptsAssumption DEF NoJob, Job, Stages
  <2> DEFINE j == job[p][e]
  <2>2. /\ j \in Job
        /\ Processed(event[e]) \in Row
        /\ AfterFailure(event[e], j.attempt, j.fatal) \in Row
    <3>1. j \in Job
      OBVIOUS
    <3>2. j.attempt \in Nat /\ j.fatal \in BOOLEAN
      BY <3>1, MaxAttemptsAssumption DEF Job
    <3>3. event[e] \in Row
      OBVIOUS
    <3> HIDE DEF j
    <3> QED
      BY <3>1, <3>2, <3>3, RowWrites
  <2>11. \A s \in Stages : [j EXCEPT !.stage = s] \in Job
    BY <2>2 DEF Job
  <2>3. CASE MarkProcessed(p, e)
    BY <2>1, <2>2, <2>3 DEF MarkProcessed
  <2>4. CASE RejectPayload(p, e)
    BY <2>4, <2>2 DEF RejectPayload, Job, Stages
  <2>5. CASE ResolveRecipients(p, e)
    BY <2>5, <2>2 DEF ResolveRecipients, Job, Stages
  <2>6. CASE InsertDeliveries(p, e)
    <3>1. PICK s \in Stages : job' = [job EXCEPT ![p][e].stage = s]
      BY <2>6, Zenon DEF InsertDeliveries, Stages
    <3>2. [j EXCEPT !.stage = s] \in Job
      BY <2>11
    <3>3. job' \in [Procs -> [Events -> Job]]
      BY <3>1, <3>2
    <3> QED
      BY <2>6, <3>3 DEF InsertDeliveries
  <2>7. CASE CommitFanOut(p, e)
    <3>1. job' \in [Procs -> [Events -> Job]]
      <4>1. CASE job' = [job EXCEPT ![p][e] = NoJob]
        BY <4>1, <2>1
      <4>2. CASE job' = [job EXCEPT ![p][e].stage = "failing"]
        BY <4>2, <2>11 DEF Stages
      <4> QED
        BY <2>7, <4>1, <4>2 DEF CommitFanOut
    <3>2. event' \in [Events -> Row]
      BY <2>7, <2>2 DEF CommitFanOut
    <3>3. delivered' \in [Events -> SUBSET Phones]
      BY <2>7, <2>2 DEF CommitFanOut, Job
    <3>4. fanOuts' \in [Events -> Nat]
      BY <2>7 DEF CommitFanOut
    <3> QED
      BY <2>7, <3>1, <3>2, <3>3, <3>4 DEF CommitFanOut
  <2>8. CASE FanOutFails(p, e)
    BY <2>8, <2>11 DEF FanOutFails, Stages
  <2>9. CASE ResolveFailure(p, e)
    BY <2>9, <2>1, <2>2 DEF ResolveFailure
  <2>10. CASE ResolveFailureFails(p, e)
    BY <2>10, <2>1 DEF ResolveFailureFails
  <2> QED
    BY <1>8, <2>3, <2>4, <2>5, <2>6, <2>7, <2>8, <2>9, <2>10 DEF Settle
<1>9. CASE UNCHANGED vars
  BY <1>9 DEF vars
<1> QED
  BY <1>1, <1>2, <1>3, <1>4, <1>5, <1>6, <1>7, <1>8, <1>9 DEF Next

\* The state stays well typed: no attempt number ever exceeds OUTBOX_MAX_ATTEMPTS
\* (claimBatch refuses a row whose budget is spent).
THEOREM TypeCorrect == Spec => []TypeOK
  BY InitTypeOK, StepTypeOK, PTL DEF Spec

(*************************************************************************)
(* What each step does to an event row, seen from the state before it.   *)
(*************************************************************************)

\* The steps that can change the status of an event, the rest summed up: every
\* other step keeps the status of each event, its audit rows and deliveries.
Quiet ==
    /\ \A e \in Events : event'[e].status # event[e].status =>
                             IsOpen(event[e]) /\ IsOpen(event'[e])
    /\ UNCHANGED <<delivered, failAudits>>

LEMMA ElapseIsQuiet ==
    ASSUME TypeOK, NEW e \in Events, Elapse(e) PROVE Quiet
<1>1. event' = [event EXCEPT ![e] = [event[e] EXCEPT !.due = "now"]]
  BY DEF Elapse
<1>2. [event[e] EXCEPT !.due = "now"].status = event[e].status
  BY DEF TypeOK, Row
<1>3. \A d \in Events : event'[d].status = event[d].status
  BY <1>1, <1>2 DEF TypeOK
<1> QED
  BY <1>3 DEF Elapse, Quiet

LEMMA ClaimIsQuiet ==
    ASSUME TypeOK, NEW p \in Procs, Claim(p) PROVE Quiet
<1>1. \A e \in ClaimSet : IsOpen(event[e])
  BY DEF ClaimSet, Oldest, Unlocked, Claimable
<1>2. \A e \in Events : IsOpen(Claimed(event[e]))
  BY DEF Claimed, IsOpen, OpenStatuses
<1>3. ASSUME NEW e \in Events
      PROVE  \/ event'[e] = event[e]
             \/ e \in ClaimSet /\ event'[e] = Claimed(event[e])
  BY DEF Claim
<1>4. \A e \in Events : event'[e].status # event[e].status =>
                             IsOpen(event[e]) /\ IsOpen(event'[e])
  BY <1>1, <1>2, <1>3, Zenon
<1> QED
  BY <1>4, Zenon DEF Claim, Quiet

LEMMA OthersAreQuiet ==
    ASSUME TypeOK,
           \/ ChangeContacts
           \/ \E p \in Procs : ClaimFails(p) \/ EndPoll(p) \/ Crash(p)
           \/ \E p \in Procs, e \in Events :
                 \/ RejectPayload(p, e)
                 \/ ResolveRecipients(p, e)
                 \/ InsertDeliveries(p, e)
                 \/ FanOutFails(p, e)
                 \/ ResolveFailureFails(p, e)
           \/ UNCHANGED vars
    PROVE  Quiet
<1>1. UNCHANGED <<event, delivered, failAudits>>
  BY DEF ChangeContacts, ClaimFails, EndPoll, Crash, RejectPayload,
         ResolveRecipients, InsertDeliveries, FanOutFails, ResolveFailureFails, vars
<1>2. \A e \in Events : event'[e].status = event[e].status
  BY <1>1
<1> QED
  BY <1>1, <1>2, Zenon DEF Quiet

\* Every step is one of the five that change a status, or quiet.
LEMMA StepKinds ==
    ASSUME TypeOK, [Next]_vars
    PROVE  \/ \E e \in Events : Publish(e)
           \/ \E p \in Procs : Sweep(p)
           \/ \E p \in Procs, e \in Events :
                 MarkProcessed(p, e) \/ CommitFanOut(p, e) \/ ResolveFailure(p, e)
           \/ Quiet
  BY ElapseIsQuiet, ClaimIsQuiet, OthersAreQuiet DEF Next, Settle

(*************************************************************************)
(* Delivery rows, audit rows and the final status                        *)
(*************************************************************************)

SafetyInv == TypeOK /\ DeliveriesOnlyOfProcessed /\ FailureAuditedOnce

LEMMA InitSafetyInv == Init => SafetyInv
  BY InitTypeOK
  DEF Init, SafetyInv, DeliveriesOnlyOfProcessed, FailureAuditedOnce, AbsentRow,
      IsOpen, OpenStatuses

LEMMA SweptEvents ==
    ASSUME TypeOK, NEW p \in Procs, Sweep(p)
    PROVE  \E S \in SUBSET Events :
              /\ \A e \in S : IsOpen(event[e])
              /\ event' = [e \in Events |-> IF e \in S THEN Swept(event[e]) ELSE event[e]]
              /\ failAudits' =
                    [e \in Events |-> IF e \in S THEN failAudits[e] + 1 ELSE failAudits[e]]
<1> DEFINE U == {e \in Unlocked : Exhausted(event[e])}
<1>1. PICK S \in AnyOf(U, SweepBatch) :
           /\ event' = [e \in Events |->
                            IF e \in S THEN Swept(event[e]) ELSE event[e]]
           /\ failAudits' = [e \in Events |->
                            IF e \in S THEN failAudits[e] + 1 ELSE failAudits[e]]
  BY DEF Sweep
<1>2. S \subseteq U
  BY DEF AnyOf
<1>3. S \in SUBSET Events /\ \A e \in S : IsOpen(event[e])
  BY <1>2 DEF Unlocked, Exhausted
<1> QED
  BY <1>1, <1>3

LEMMA StepSafetyInv == SafetyInv /\ [Next]_vars => SafetyInv'
<1> SUFFICES ASSUME SafetyInv, [Next]_vars
             PROVE  (DeliveriesOnlyOfProcessed /\ FailureAuditedOnce)'
  BY StepTypeOK DEF SafetyInv
<1>a. TypeOK
  BY DEF SafetyInv
<1> USE DEF SafetyInv, DeliveriesOnlyOfProcessed, FailureAuditedOnce
<1>1. ASSUME NEW e \in Events, Publish(e)
      PROVE  (DeliveriesOnlyOfProcessed /\ FailureAuditedOnce)'
  <2>1. event[e].status = "ABSENT" /\ NewRow.status = "PENDING"
    BY <1>1 DEF Publish, NewRow
  <2>2. ASSUME NEW d \in Events PROVE event'[d] = IF d = e THEN NewRow ELSE event[d]
    BY <1>1, <1>a DEF Publish, TypeOK
  <2>3. delivered' = delivered /\ failAudits' = failAudits
    BY <1>1 DEF Publish
  <2>4. delivered[e] = {} /\ failAudits[e] = 0
    BY <2>1
  <2> QED
    BY <2>1, <2>2, <2>3, <2>4 DEF IsOpen, OpenStatuses
<1>2. ASSUME NEW p \in Procs, Sweep(p)
      PROVE  (DeliveriesOnlyOfProcessed /\ FailureAuditedOnce)'
  <2>1. PICK S \in SUBSET Events :
              /\ \A e \in S : IsOpen(event[e])
              /\ event' = [e \in Events |-> IF e \in S THEN Swept(event[e]) ELSE event[e]]
              /\ failAudits' =
                    [e \in Events |-> IF e \in S THEN failAudits[e] + 1 ELSE failAudits[e]]
    BY <1>2, <1>a, SweptEvents
  <2>2. \A e \in Events : Swept(event[e]).status = "FAILED"
    BY <1>a DEF TypeOK, Row, Swept
  <2>3. delivered' = delivered
    BY <1>2 DEF Sweep
  <2>4. ASSUME NEW e \in Events, e \in S
        PROVE  /\ delivered[e] = {}
               /\ event'[e].status = "FAILED"
               /\ failAudits'[e] = 1
    BY <2>1, <2>2, <2>4, <1>a DEF IsOpen, OpenStatuses, TypeOK
  <2>5. ASSUME NEW e \in Events, e \notin S
        PROVE  event'[e] = event[e] /\ failAudits'[e] = failAudits[e]
    BY <2>1, <2>5
  <2> QED
    BY <2>3, <2>4, <2>5 DEF IsOpen, OpenStatuses
<1>3. ASSUME NEW p \in Procs, NEW e \in Events,
             MarkProcessed(p, e) \/ CommitFanOut(p, e)
      PROVE  (DeliveriesOnlyOfProcessed /\ FailureAuditedOnce)'
  <2>1. /\ event' = [event EXCEPT ![e] = Processed(event[e])]
        /\ failAudits' = failAudits
        /\ \A d \in Events \ {e} : delivered'[d] = delivered[d]
    BY <1>3, <1>a DEF MarkProcessed, CommitFanOut, TypeOK
  <2>2. Processed(event[e]).status = "PROCESSED"
    BY <1>a DEF TypeOK, Row, Processed
  <2> QED
    BY <2>1, <2>2, <1>a DEF TypeOK, IsOpen, OpenStatuses
<1>4. ASSUME NEW p \in Procs, NEW e \in Events, ResolveFailure(p, e)
      PROVE  (DeliveriesOnlyOfProcessed /\ FailureAuditedOnce)'
  <2> DEFINE after == AfterFailure(event[e], job[p][e].attempt, job[p][e].fatal)
  <2>1. /\ event' = [event EXCEPT ![e] = after]
        /\ delivered' = delivered
        /\ failAudits' = [failAudits EXCEPT ![e] =
              IF event[e].status = "PROCESSING" /\ after.status = "FAILED"
              THEN failAudits[e] + 1 ELSE failAudits[e]]
    BY <1>4 DEF ResolveFailure
  <2>2. /\ event[e].status # "PROCESSING" => after = event[e]
        /\ event[e].status = "PROCESSING" => after.status \in {"FAILED", "PENDING"}
    <3>1. job[p][e] \in Job
      BY <1>a DEF TypeOK
    <3>2. job[p][e].attempt \in Nat /\ job[p][e].fatal \in BOOLEAN
      BY <3>1, MaxAttemptsAssumption DEF Job
    <3> QED
      BY <1>a, <3>2, FailureWrites DEF TypeOK
  <2> HIDE DEF after
  <2>3. ASSUME NEW d \in Events, d # e
        PROVE  event'[d] = event[d] /\ failAudits'[d] = failAudits[d]
    BY <2>1, <2>3, <1>a DEF TypeOK
  <2>4. /\ event'[e] = after
        /\ event[e].status # "PROCESSING" \/ after.status # "FAILED"
              => failAudits'[e] = failAudits[e]
        /\ event[e].status = "PROCESSING" /\ after.status = "FAILED"
              => failAudits'[e] = failAudits[e] + 1
    BY <2>1, <1>a DEF TypeOK
  <2>5. /\ delivered'[e] # {} => after.status = "PROCESSED"
        /\ failAudits'[e] <= 1
        /\ after.status = "FAILED" => failAudits'[e] = 1
        /\ after.status \in {"ABSENT", "PENDING", "PROCESSING"} => failAudits'[e] = 0
    BY <2>1, <2>2, <2>4, <1>a DEF IsOpen, OpenStatuses, TypeOK
  <2> QED
    BY <2>1, <2>3, <2>4, <2>5
<1>5. CASE Quiet
  BY <1>5 DEF Quiet, IsOpen, OpenStatuses
<1> QED
  BY <1>a, <1>1, <1>2, <1>3, <1>4, <1>5, StepKinds

\* No event whose alerts are queued is ever open or FAILED again, whatever
\* overtaken workers and sweeps do (commitFanOut, resolveFailure, sweepExhausted).
THEOREM DeliveriesSafe == Spec => []DeliveriesOnlyOfProcessed
<1>1. SafetyInv => DeliveriesOnlyOfProcessed
  BY DEF SafetyInv
<1> QED
  BY <1>1, InitSafetyInv, StepSafetyInv, PTL DEF Spec

\* Sweep and worker never both record the failure of an event.
THEOREM FailureAudits == Spec => []FailureAuditedOnce
<1>1. SafetyInv => FailureAuditedOnce
  BY DEF SafetyInv
<1> QED
  BY <1>1, InitSafetyInv, StepSafetyInv, PTL DEF Spec

\* The promise of the comment on resolveFailure: a PROCESSED event is final.
THEOREM ProcessedFinal == Spec => ProcessedIsFinal
<1>1. ASSUME TypeOK, [Next]_vars, NEW e \in Events, event[e].status = "PROCESSED"
      PROVE  event'[e].status = "PROCESSED"
  <2>1. ASSUME NEW d \in Events, Publish(d) PROVE event'[e] = event[e]
    BY <1>1, <2>1 DEF Publish, TypeOK
  <2>2. ASSUME NEW p \in Procs, Sweep(p) PROVE event'[e] = event[e]
    BY <1>1, <2>2, SweptEvents DEF IsOpen, OpenStatuses
  <2>3. ASSUME NEW p \in Procs, NEW d \in Events,
               MarkProcessed(p, d) \/ CommitFanOut(p, d)
        PROVE  event'[e].status = "PROCESSED"
    <3>1. event' = [event EXCEPT ![d] = Processed(event[d])]
      BY <2>3 DEF MarkProcessed, CommitFanOut
    <3>2. Processed(event[d]).status = "PROCESSED"
      BY <1>1 DEF TypeOK, Row, Processed
    <3> QED
      BY <1>1, <3>1, <3>2 DEF TypeOK
  <2>4. ASSUME NEW p \in Procs, NEW d \in Events, ResolveFailure(p, d)
        PROVE  event'[e] = event[e]
    BY <1>1, <2>4 DEF ResolveFailure, AfterFailure, TypeOK
  <2>5. CASE Quiet
    BY <1>1, <2>5 DEF Quiet, IsOpen, OpenStatuses
  <2> QED
    BY <1>1, <2>1, <2>2, <2>3, <2>4, <2>5, StepKinds
<1>2. TypeOK /\ [Next]_vars =>
         [\A e \in Events :
             event[e].status = "PROCESSED" => event'[e].status = "PROCESSED"]_vars
  BY <1>1
<1> QED
  BY <1>2, InitTypeOK, StepTypeOK, PTL DEF Spec, ProcessedIsFinal

(*************************************************************************)
(* Claims                                                                *)
(*************************************************************************)

\* A step that claims nothing: it keeps the attempts of every row and job, and
\* lets jobs go but starts none.
KeepsClaims ==
    /\ \A e \in Events :
          /\ event'[e].attempts = event[e].attempts
          /\ event'[e].status = "ABSENT" => event[e].status = "ABSENT"
    /\ \A p \in Procs, e \in Events : job'[p][e].stage # "none" =>
          job[p][e].stage # "none" /\ job'[p][e].attempt = job[p][e].attempt

\* Attempts are counted from the row's birth, and only a published row has any.
ClaimInv ==
    /\ TypeOK
    /\ AttemptIdentifiesHolder
    /\ \A e \in Events : event[e].status = "ABSENT" => event[e].attempts = 0

LEMMA SettleKeepsClaims ==
    ASSUME TypeOK, NEW p \in Procs, NEW e \in Events, Settle(p, e)
    PROVE  KeepsClaims
<1> DEFINE j == job[p][e]
<1>1. j \in Job /\ j.attempt \in Nat /\ j.fatal \in BOOLEAN /\ event[e] \in Row
  BY MaxAttemptsAssumption DEF TypeOK, Job
<1>2. \A d \in Events :
         /\ event'[d].attempts = event[d].attempts
         /\ event'[d].status = "ABSENT" => event[d].status = "ABSENT"
  <2>1. /\ Processed(event[e]).attempts = event[e].attempts
        /\ Processed(event[e]).status # "ABSENT"
    BY <1>1 DEF Processed, Row
  <2>2. LET after == AfterFailure(event[e], j.attempt, j.fatal)
        IN  /\ after.attempts = event[e].attempts
            /\ after.status = "ABSENT" => event[e].status = "ABSENT"
    BY <1>1, FailureWrites
  <2>3. \/ event' = [event EXCEPT ![e] = Processed(event[e])]
        \/ event' = [event EXCEPT ![e] = AfterFailure(event[e], j.attempt, j.fatal)]
        \/ event' = event
    BY DEF Settle, MarkProcessed, RejectPayload, ResolveRecipients, InsertDeliveries,
           CommitFanOut, FanOutFails, ResolveFailure, ResolveFailureFails
  <2> QED
    BY <2>1, <2>2, <2>3 DEF TypeOK
<1>3. \E k : /\ job' = [job EXCEPT ![p][e] = k]
             /\ k.stage # "none" => j.stage # "none" /\ k.attempt = j.attempt
  <2>1. NoJob.stage = "none"
    BY DEF NoJob
  <2>2. ASSUME NEW s PROVE [j EXCEPT !.stage = s].attempt = j.attempt
    BY <1>1 DEF Job
  <2>3. CASE MarkProcessed(p, e) \/ ResolveFailure(p, e) \/ ResolveFailureFails(p, e)
    BY <2>1, <2>3 DEF MarkProcessed, ResolveFailure, ResolveFailureFails
  <2>4. CASE RejectPayload(p, e)
    <3> DEFINE k == [j EXCEPT !.stage = "failing", !.fatal = TRUE]
    <3>1. k.attempt = j.attempt
      BY <1>1 DEF Job
    <3>2. j.stage # "none" /\ job' = [job EXCEPT ![p][e] = k]
      BY <2>4 DEF RejectPayload
    <3> QED
      BY <3>1, <3>2
  <2>5. CASE ResolveRecipients(p, e)
    <3> DEFINE k == [j EXCEPT !.stage = "insert", !.to = contacts]
    <3>1. k.attempt = j.attempt
      BY <1>1 DEF Job
    <3>2. j.stage # "none" /\ job' = [job EXCEPT ![p][e] = k]
      BY <2>5 DEF ResolveRecipients
    <3> QED
      BY <3>1, <3>2
  <2>6. CASE InsertDeliveries(p, e)
    <3>1. j.stage = "insert" /\ \E s : job' = [job EXCEPT ![p][e] = [j EXCEPT !.stage = s]]
      BY <2>6, Zenon DEF InsertDeliveries
    <3> QED
      BY <3>1, <2>2
  <2>7. CASE CommitFanOut(p, e)
    <3>1. /\ j.stage = "tx"
          /\ \/ job' = [job EXCEPT ![p][e] = NoJob]
             \/ job' = [job EXCEPT ![p][e] = [j EXCEPT !.stage = "failing"]]
      BY <2>7 DEF CommitFanOut
    <3> QED
      BY <3>1, <2>1, <2>2
  <2>8. CASE FanOutFails(p, e)
    BY <2>8, <2>2 DEF FanOutFails
  <2> QED
    BY <2>3, <2>4, <2>5, <2>6, <2>7, <2>8 DEF Settle
<1>4. ASSUME NEW q \in Procs, NEW d \in Events, job'[q][d].stage # "none"
      PROVE  job[q][d].stage # "none" /\ job'[q][d].attempt = job[q][d].attempt
  <2>1. PICK k : /\ job' = [job EXCEPT ![p][e] = k]
                 /\ k.stage # "none" => j.stage # "none" /\ k.attempt = j.attempt
    BY <1>3
  <2>2. CASE q = p /\ d = e
    BY <2>1, <2>2, <1>4 DEF TypeOK
  <2>3. CASE ~(q = p /\ d = e)
    BY <2>1, <2>3, <1>4 DEF TypeOK
  <2> QED
    BY <2>2, <2>3
<1> QED
  BY <1>2, <1>4 DEF KeepsClaims

LEMMA OthersKeepClaims ==
    ASSUME TypeOK,
           \/ \E e \in Events : Elapse(e)
           \/ ChangeContacts
           \/ \E p \in Procs : Sweep(p) \/ ClaimFails(p) \/ EndPoll(p) \/ Crash(p)
           \/ UNCHANGED vars
    PROVE  KeepsClaims
<1>1. CASE \E e \in Events : Elapse(e)
  <2>1. PICK e \in Events : Elapse(e)
    BY <1>1
  <2>2. /\ [event[e] EXCEPT !.due = "now"].attempts = event[e].attempts
        /\ [event[e] EXCEPT !.due = "now"].status = event[e].status
    BY DEF TypeOK, Row
  <2> QED
    BY <2>1, <2>2 DEF Elapse, KeepsClaims, TypeOK
<1>2. CASE \E p \in Procs : Sweep(p)
  <2>1. PICK p \in Procs : Sweep(p)
    BY <1>2
  <2>2. \A e \in Events : /\ Swept(event[e]).attempts = event[e].attempts
                          /\ Swept(event[e]).status # "ABSENT"
    BY DEF TypeOK, Row, Swept
  <2>3. \A e \in Events : /\ event'[e].attempts = event[e].attempts
                          /\ event'[e].status = "ABSENT" => event[e].status = "ABSENT"
    BY <2>1, <2>2, SweptEvents
  <2> QED
    BY <2>1, <2>3 DEF Sweep, KeepsClaims
<1>3. CASE \E p \in Procs : Crash(p)
  BY <1>3 DEF Crash, KeepsClaims, TypeOK, NoJob
<1>4. CASE \/ ChangeContacts
           \/ \E p \in Procs : ClaimFails(p) \/ EndPoll(p)
           \/ UNCHANGED vars
  <2>1. event' = event /\ job' = job
    BY <1>4 DEF ChangeContacts, ClaimFails, EndPoll, vars
  <2> QED
    BY <2>1 DEF KeepsClaims
<1> QED
  BY <1>1, <1>2, <1>3, <1>4

\* Every step publishes, claims, or leaves the claims as they are.
LEMMA ClaimStepKinds ==
    ASSUME TypeOK, [Next]_vars
    PROVE  \/ \E e \in Events : Publish(e)
           \/ \E p \in Procs : Claim(p)
           \/ KeepsClaims
<1>1. CASE \E p \in Procs, e \in Events : Settle(p, e)
  BY <1>1, SettleKeepsClaims
<1>2. CASE \/ \E e \in Events : Elapse(e)
           \/ ChangeContacts
           \/ \E p \in Procs : Sweep(p) \/ ClaimFails(p) \/ EndPoll(p) \/ Crash(p)
           \/ UNCHANGED vars
  BY <1>2, OthersKeepClaims
<1> QED
  BY <1>1, <1>2, Zenon DEF Next

LEMMA InitClaimInv == Init => ClaimInv
  BY InitTypeOK
  DEF Init, ClaimInv, AttemptIdentifiesHolder, Holders, AbsentRow, NoJob

LEMMA StepClaimInv == ClaimInv /\ [Next]_vars => ClaimInv'
<1> SUFFICES ASSUME ClaimInv, [Next]_vars
             PROVE  /\ AttemptIdentifiesHolder'
                    /\ \A e \in Events : event'[e].status = "ABSENT" => event'[e].attempts = 0
  BY StepTypeOK DEF ClaimInv
<1>a. TypeOK /\ TypeOK'
  BY StepTypeOK DEF ClaimInv
<1>b. ASSUME NEW e \in Events, NEW p \in Procs, job[p][e].stage # "none"
      PROVE  /\ job[p][e].attempt \in 1 .. event[e].attempts
             /\ \A q \in Procs : job[q][e].stage # "none" /\ q # p =>
                   job[q][e].attempt # job[p][e].attempt
  BY <1>b DEF ClaimInv, AttemptIdentifiesHolder, Holders
<1>c. SUFFICES
        /\ \A e \in Events, p \in Procs : job'[p][e].stage # "none" =>
              /\ job'[p][e].attempt \in 1 .. event'[e].attempts
              /\ \A q \in Procs : job'[q][e].stage # "none" /\ q # p =>
                    job'[q][e].attempt # job'[p][e].attempt
        /\ \A e \in Events : event'[e].status = "ABSENT" => event'[e].attempts = 0
  BY DEF AttemptIdentifiesHolder, Holders
<1> DEFINE Goal1 == \A e \in Events, p \in Procs : job'[p][e].stage # "none" =>
              /\ job'[p][e].attempt \in 1 .. event'[e].attempts
              /\ \A q \in Procs : job'[q][e].stage # "none" /\ q # p =>
                    job'[q][e].attempt # job'[p][e].attempt
           Goal2 == \A e \in Events : event'[e].status = "ABSENT" => event'[e].attempts = 0
<1>d. ASSUME NEW e \in Events PROVE event[e].attempts \in Nat
  BY <1>a, MaxAttemptsAssumption DEF TypeOK, Row
<1>1. ASSUME NEW e \in Events, Publish(e) PROVE Goal1 /\ Goal2
  <2>1. event[e].attempts = 0 /\ NewRow.attempts = 0
    BY <1>1 DEF ClaimInv, Publish, NewRow
  <2>2. \A d \in Events : event'[d].attempts = event[d].attempts
    BY <1>1, <1>a, <2>1 DEF Publish, TypeOK
  <2>3. job' = job
    BY <1>1 DEF Publish
  <2>4. Goal1
    BY <1>b, <2>2, <2>3
  <2>5. \A d \in Events : event'[d].status = "ABSENT" => event[d].status = "ABSENT"
    BY <1>1, <1>a DEF Publish, TypeOK, NewRow
  <2> QED
    BY <2>2, <2>4, <2>5 DEF ClaimInv
<1>2. ASSUME NEW p \in Procs, Claim(p) PROVE Goal1 /\ Goal2
  <2>1. ASSUME NEW e \in ClaimSet
        PROVE  /\ event'[e].attempts = event[e].attempts + 1
               /\ event'[e].status = "PROCESSING"
               /\ job'[p][e].attempt = event[e].attempts + 1
    <3>1. e \in Events
      BY DEF ClaimSet, Oldest, Unlocked
    <3>2. event'[e] = Claimed(event[e])
      BY <1>2, <3>1 DEF Claim
    <3>3. job'[p][e] = [NoJob EXCEPT !.stage = "lookup", !.attempt = event[e].attempts + 1]
      BY <1>2, <1>a, <3>1 DEF Claim, TypeOK
    <3> QED
      BY <3>2, <3>3 DEF Claimed, NoJob
  <2>2. ASSUME NEW e \in Events, e \notin ClaimSet
        PROVE  event'[e] = event[e] /\ job'[p][e].stage = "none"
    BY <1>2, <1>a, <2>2 DEF Claim, TypeOK, NoJob
  <2>3. \A q \in Procs \ {p} : job'[q] = job[q]
    BY <1>2, <1>a DEF Claim, TypeOK
  <2>4. ASSUME NEW e \in Events, NEW q \in Procs, job'[q][e].stage # "none"
        PROVE  /\ job'[q][e].attempt \in 1 .. event'[e].attempts
               /\ \A r \in Procs : job'[r][e].stage # "none" /\ r # q =>
                    job'[r][e].attempt # job'[q][e].attempt
    <3>1. CASE e \in ClaimSet
      BY <1>b, <1>d, <2>1, <2>3, <2>4, <3>1
    <3>2. CASE e \notin ClaimSet
      BY <1>b, <1>d, <2>2, <2>3, <2>4, <3>2
    <3> QED
      BY <3>1, <3>2
  <2>5. Goal2
    BY <2>1, <2>2 DEF ClaimInv
  <2> QED
    BY <2>4, <2>5
<1>3. CASE KeepsClaims
  <2>1. Goal1
    BY <1>3, <1>b DEF KeepsClaims
  <2>2. Goal2
    BY <1>3 DEF KeepsClaims, ClaimInv
  <2> QED
    BY <2>1, <2>2
<1>4. \/ \E e \in Events : Publish(e)
      \/ \E p \in Procs : Claim(p)
      \/ KeepsClaims
  BY <1>a, ClaimStepKinds
<1>5. Goal1 /\ Goal2
  BY <1>1, <1>2, <1>3, <1>4
<1> QED
  BY <1>5

\* Processes may hold one event at the same time, but never under the same
\* attempt number: an attempt names one claim of one worker.
THEOREM AttemptsIdentify == Spec => []AttemptIdentifiesHolder
<1>1. ClaimInv => AttemptIdentifiesHolder
  BY DEF ClaimInv
<1> QED
  BY <1>1, InitClaimInv, StepClaimInv, PTL DEF Spec

(*************************************************************************)
(* The relay implements the ledger                                       *)
(*************************************************************************)

\* The row lock: at most one fan-out of an event is between its inserts and its
\* COMMIT, and no delivery row it inserted was there before.
FanOutLock ==
    \A e \in Events, p \in Procs : job[p][e].stage = "tx" =>
        /\ job[p][e].to \cap delivered[e] = {}
        /\ \A q \in Procs : job[q][e].stage = "tx" => q = p

LedgerInv == SafetyInv /\ ClaimInv /\ FanOutLock

LEMMA InitFanOutLock == Init => FanOutLock
  BY DEF Init, FanOutLock, NoJob

LEMMA StepFanOutLock == TypeOK /\ FanOutLock /\ [Next]_vars => FanOutLock'
<1> SUFFICES ASSUME TypeOK, FanOutLock, [Next]_vars PROVE FanOutLock'
  OBVIOUS
<1> DEFINE Keeps == /\ delivered' = delivered
                    /\ \A p \in Procs, e \in Events :
                          job'[p][e].stage = "tx" => job'[p][e] = job[p][e]
<1>1. CASE Keeps
  BY <1>1 DEF FanOutLock
<1> HIDE DEF Keeps
<1>2. ASSUME NEW p \in Procs, NEW e \in Events, InsertDeliveries(p, e)
      PROVE  FanOutLock'
  <2>1. CASE job[p][e].to \cap delivered[e] = {}
    <3>1. job' = [job EXCEPT ![p][e] = [job[p][e] EXCEPT !.stage = "tx"]]
      BY <1>2, <2>1 DEF InsertDeliveries
    <3>2. job'[p][e].to = job[p][e].to
      BY <3>1 DEF TypeOK, Job
    <3>3. \A q \in Procs, d \in Events : q # p \/ d # e => job'[q][d] = job[q][d]
      BY <3>1 DEF TypeOK
    <3>4. \A q \in Procs : job[q][e].stage # "tx"
      BY <1>2 DEF InsertDeliveries, Locked
    <3>5. delivered' = delivered
      BY <1>2 DEF InsertDeliveries
    <3> QED
      BY <2>1, <3>2, <3>3, <3>4, <3>5 DEF FanOutLock
  <2>2. CASE job[p][e].to \cap delivered[e] # {}
    <3>1. /\ job' = [job EXCEPT ![p][e] = [job[p][e] EXCEPT !.stage = "failing"]]
          /\ delivered' = delivered
      BY <1>2, <2>2 DEF InsertDeliveries
    <3>2. Keeps
      BY <3>1 DEF TypeOK, Job, Keeps
    <3> QED
      BY <1>1, <3>2
  <2> QED
    BY <2>1, <2>2
<1>3. ASSUME NEW p \in Procs, NEW e \in Events, CommitFanOut(p, e)
      PROVE  FanOutLock'
  <2>1. job'[p][e].stage # "tx"
    BY <1>3 DEF CommitFanOut, TypeOK, Job, NoJob
  <2>2. \A q \in Procs, d \in Events : q # p \/ d # e => job'[q][d] = job[q][d]
    BY <1>3 DEF CommitFanOut, TypeOK
  <2>3. job[p][e].stage = "tx" /\ \A d \in Events : d # e => delivered'[d] = delivered[d]
    BY <1>3 DEF CommitFanOut, TypeOK
  <2> QED
    BY <2>1, <2>2, <2>3 DEF FanOutLock
<1>4. ASSUME NEW p \in Procs, NEW e \in Events,
             \/ MarkProcessed(p, e) \/ ResolveFailure(p, e) \/ ResolveFailureFails(p, e)
             \/ RejectPayload(p, e) \/ ResolveRecipients(p, e) \/ FanOutFails(p, e)
      PROVE  Keeps
  <2>1. delivered' = delivered
    BY <1>4 DEF MarkProcessed, ResolveFailure, ResolveFailureFails, RejectPayload,
                ResolveRecipients, FanOutFails
  <2>2. \E k : job' = [job EXCEPT ![p][e] = k] /\ k.stage # "tx"
    <3>1. job[p][e] \in Job /\ NoJob.stage = "none"
      BY DEF TypeOK, NoJob
    <3>2. CASE MarkProcessed(p, e) \/ ResolveFailure(p, e) \/ ResolveFailureFails(p, e)
      BY <3>1, <3>2 DEF MarkProcessed, ResolveFailure, ResolveFailureFails
    <3>3. CASE FanOutFails(p, e)
      <4> DEFINE k == [job[p][e] EXCEPT !.stage = "failing"]
      <4>1. k.stage = "failing" /\ job' = [job EXCEPT ![p][e] = k]
        BY <3>1, <3>3 DEF FanOutFails, Job
      <4> QED
        BY <4>1
    <3>4. CASE RejectPayload(p, e)
      <4> DEFINE k == [job[p][e] EXCEPT !.stage = "failing", !.fatal = TRUE]
      <4>1. k.stage = "failing" /\ job' = [job EXCEPT ![p][e] = k]
        BY <3>1, <3>4 DEF RejectPayload, Job
      <4> QED
        BY <4>1
    <3>5. CASE ResolveRecipients(p, e)
      <4> DEFINE k == [job[p][e] EXCEPT !.stage = "insert", !.to = contacts]
      <4>1. k.stage = "insert" /\ job' = [job EXCEPT ![p][e] = k]
        BY <3>1, <3>5 DEF ResolveRecipients, Job
      <4> QED
        BY <4>1
    <3> QED
      BY <1>4, <3>2, <3>3, <3>4, <3>5
  <2> QED
    BY <2>1, <2>2 DEF TypeOK, Keeps
<1>5. ASSUME NEW p \in Procs, Claim(p) PROVE Keeps
  BY <1>5 DEF Claim, TypeOK, NoJob, Keeps
<1>6. ASSUME NEW p \in Procs, Crash(p) PROVE Keeps
  BY <1>6 DEF Crash, TypeOK, NoJob, Keeps
<1>7. ASSUME \/ \E e \in Events : Publish(e) \/ Elapse(e)
             \/ ChangeContacts
             \/ \E p \in Procs : Sweep(p) \/ ClaimFails(p) \/ EndPoll(p)
             \/ UNCHANGED vars
      PROVE  Keeps
  BY <1>7 DEF Publish, Elapse, ChangeContacts, Sweep, ClaimFails, EndPoll, vars, Keeps
<1>8. ASSUME NEW p \in Procs, NEW e \in Events, Settle(p, e) PROVE FanOutLock'
  BY <1>1, <1>2, <1>3, <1>4, <1>8 DEF Settle
<1> QED
  BY <1>1, <1>5, <1>6, <1>7, <1>8 DEF Next

LEMMA LedgerOfRow ==
    ASSUME NEW row \in Row
    PROVE  /\ row.status = "ABSENT" <=> LedgerOf(row) = "none"
           /\ IsOpen(row) <=> LedgerOf(row) = "open"
           /\ row.status = "PROCESSED" <=> LedgerOf(row) = "done"
           /\ row.status = "FAILED" <=> LedgerOf(row) = "failed"
<1>1. row.status \in Statuses
  BY DEF Row
<1> QED
  BY <1>1 DEF LedgerOf, Statuses, IsOpen, OpenStatuses

LEMMA InitLedger == Init => Ledger!Init
<1> SUFFICES ASSUME Init PROVE Ledger!Init
  OBVIOUS
<1>1. LedgerOf(AbsentRow) = "none"
  BY InitialRows, LedgerOfRow DEF AbsentRow
<1>2. [e \in Events |-> LedgerOf(event[e])] = [e \in Events |-> "none"]
  BY <1>1 DEF Init
<1>3. {e \in Events : failAudits[e] > 0} = {}
  BY DEF Init
<1> QED
  BY <1>2, <1>3 DEF Init, Ledger!Init

LEMMA StepLedger == LedgerInv /\ [Next]_vars => [Ledger!Next]_(Ledger!ledgerVars)
<1> SUFFICES ASSUME LedgerInv, [Next]_vars
             PROVE  Ledger!Next \/ UNCHANGED Ledger!ledgerVars
  OBVIOUS
<1>a. TypeOK /\ SafetyInv /\ ClaimInv /\ FanOutLock
  BY DEF LedgerInv, SafetyInv
<1> DEFINE L == [e \in Events |-> LedgerOf(event[e])]
           R == {e \in Events : failAudits[e] > 0}
<1>1. ASSUME NEW e \in Events, Publish(e) PROVE Ledger!Next
  <2>1. event[e].status = "ABSENT" /\ event' = [event EXCEPT ![e] = NewRow]
    BY <1>1 DEF Publish
  <2>2. L[e] = "none" /\ L' = [L EXCEPT ![e] = "open"]
    <3>1. LedgerOf(event[e]) = "none" /\ LedgerOf(NewRow) = "open"
      BY <2>1, <1>a, InitialRows, LedgerOfRow DEF TypeOK, NewRow, IsOpen, OpenStatuses
    <3>2. \A d \in Events : event'[d] = IF d = e THEN NewRow ELSE event[d]
      BY <2>1, <1>a DEF TypeOK
    <3> QED
      BY <3>1, <3>2
  <2>3. delivered' = delivered /\ R' = R
    BY <1>1 DEF Publish
  <2> QED
    BY <2>2, <2>3 DEF Ledger!Next, Ledger!Publish
<1>2. ASSUME NEW p \in Procs, Sweep(p) PROVE Ledger!Next
  <2>1. PICK S \in SUBSET Events :
              /\ \A e \in S : IsOpen(event[e])
              /\ event' = [e \in Events |-> IF e \in S THEN Swept(event[e]) ELSE event[e]]
              /\ failAudits' =
                    [e \in Events |-> IF e \in S THEN failAudits[e] + 1 ELSE failAudits[e]]
    BY <1>2, <1>a, SweptEvents
  <2>2. \A e \in S : L[e] = "open" /\ e \notin R
    <3>1. \A e \in S : LedgerOf(event[e]) = "open"
      BY <2>1, <1>a, LedgerOfRow DEF TypeOK
    <3>2. \A e \in S : failAudits[e] = 0
      BY <2>1, <1>a DEF SafetyInv, FailureAuditedOnce, IsOpen, OpenStatuses
    <3> QED
      BY <3>1, <3>2
  <2>3. \A e \in Events : LedgerOf(Swept(event[e])) = "failed"
    <3>1. \A e \in Events : Swept(event[e]) \in Row /\ Swept(event[e]).status = "FAILED"
      BY <1>a DEF Swept, TypeOK, Row, Statuses
    <3> QED
      BY <3>1, LedgerOfRow
  <2>4. L' = [e \in Events |-> IF e \in S THEN "failed" ELSE L[e]]
    BY <2>1, <2>3
  <2>5. R' = R \cup S
    BY <2>1, <1>a DEF TypeOK
  <2>6. delivered' = delivered
    BY <1>2 DEF Sweep
  <2> QED
    BY <2>2, <2>4, <2>5, <2>6 DEF Ledger!Next, Ledger!Fail
<1>3. ASSUME NEW p \in Procs, NEW e \in Events,
             MarkProcessed(p, e) \/ CommitFanOut(p, e)
      PROVE  Ledger!Next
  <2>1. L[e] # "none"
    <3>1. job[p][e].stage # "none"
      BY <1>3 DEF MarkProcessed, CommitFanOut
    <3>2. event[e].attempts # 0
      BY <3>1, <1>a DEF ClaimInv, AttemptIdentifiesHolder, Holders
    <3>3. event[e].status # "ABSENT"
      BY <3>2, <1>a DEF ClaimInv
    <3> QED
      BY <3>3, <1>a, LedgerOfRow DEF TypeOK
  <2>2. L' = [L EXCEPT ![e] = "done"]
    <3>1. event' = [event EXCEPT ![e] = Processed(event[e])]
      BY <1>3 DEF MarkProcessed, CommitFanOut
    <3>2. Processed(event[e]) \in Row /\ Processed(event[e]).status = "PROCESSED"
      BY <1>a DEF Processed, TypeOK, Row, Statuses, Dues
    <3>3. LedgerOf(Processed(event[e])) = "done"
      BY <3>2, LedgerOfRow
    <3>4. \A d \in Events : event'[d] = IF d = e THEN Processed(event[e]) ELSE event[d]
      BY <3>1, <1>a DEF TypeOK
    <3> QED
      BY <3>3, <3>4
  <2>3. R' = R
    BY <1>3 DEF MarkProcessed, CommitFanOut
  <2>4. PICK to \in SUBSET Phones :
           /\ delivered[e] \cap to = {}
           /\ delivered' = [delivered EXCEPT ![e] = delivered[e] \cup to]
    <3>1. CASE MarkProcessed(p, e)
      <4>1. delivered' = [delivered EXCEPT ![e] = delivered[e] \cup {}]
        BY <3>1, <1>a DEF MarkProcessed, TypeOK
      <4> QED
        BY <4>1
    <3>2. CASE CommitFanOut(p, e)
      <4>1. job[p][e].to \in SUBSET Phones
        BY <1>a DEF TypeOK, Job
      <4>2. delivered' = [delivered EXCEPT ![e] = delivered[e] \cup job[p][e].to]
        BY <3>2 DEF CommitFanOut
      <4>3. delivered[e] \cap job[p][e].to = {}
        BY <3>2, <1>a DEF CommitFanOut, FanOutLock
      <4> QED
        BY <4>1, <4>2, <4>3
    <3> QED
      BY <1>3, <3>1, <3>2
  <2>5. Ledger!Queue(e, to)
    BY <2>1, <2>2, <2>3, <2>4 DEF Ledger!Queue
  <2> QED
    BY <2>5 DEF Ledger!Next
<1>4. ASSUME NEW p \in Procs, NEW e \in Events, ResolveFailure(p, e)
      PROVE  Ledger!Next \/ UNCHANGED Ledger!ledgerVars
  <2> DEFINE after == AfterFailure(event[e], job[p][e].attempt, job[p][e].fatal)
             fails == event[e].status = "PROCESSING" /\ after.status = "FAILED"
  <2>1. /\ event' = [event EXCEPT ![e] = after]
        /\ failAudits' = [failAudits EXCEPT ![e] = IF fails THEN failAudits[e] + 1
                                                    ELSE failAudits[e]]
        /\ delivered' = delivered
    BY <1>4 DEF ResolveFailure
  <2>2. /\ after \in Row
        /\ event[e].status # "PROCESSING" => after = event[e]
        /\ event[e].status = "PROCESSING" => after.status \in {"FAILED", "PENDING"}
    <3>1. job[p][e] \in Job
      BY <1>a DEF TypeOK
    <3>2. job[p][e].attempt \in Nat /\ job[p][e].fatal \in BOOLEAN
      BY <3>1, MaxAttemptsAssumption DEF Job
    <3>3. event[e] \in Row
      BY <1>a DEF TypeOK
    <3>4. after \in Row
      BY <3>2, <3>3, RowWrites
    <3> QED
      BY <3>2, <3>3, <3>4, FailureWrites
  <2> HIDE DEF after
  <2>3. \A d \in Events : event'[d] = IF d = e THEN after ELSE event[d]
    BY <2>1, <1>a DEF TypeOK
  <2>4. CASE fails
    <3>1. LedgerOf(event[e]) = "open" /\ LedgerOf(after) = "failed"
      BY <2>2, <2>4, <1>a, LedgerOfRow DEF TypeOK, IsOpen, OpenStatuses
    <3>2. failAudits[e] = 0
      BY <2>4, <1>a DEF SafetyInv, FailureAuditedOnce
    <3>3. L' = [d \in Events |-> IF d \in {e} THEN "failed" ELSE L[d]]
      BY <2>3, <3>1
    <3>4. R' = R \cup {e}
      BY <2>1, <2>4, <3>2, <1>a DEF TypeOK
    <3>5. Ledger!Fail({e})
      BY <2>1, <3>1, <3>2, <3>3, <3>4 DEF Ledger!Fail
    <3> QED
      BY <3>5 DEF Ledger!Next
  <2>5. CASE ~fails
    <3>1. LedgerOf(after) = LedgerOf(event[e])
      BY <2>2, <2>5, <1>a, LedgerOfRow DEF TypeOK, IsOpen, OpenStatuses
    <3>2. L' = L
      BY <2>3, <3>1
    <3>3. failAudits' = failAudits
      BY <2>1, <2>5, <1>a DEF TypeOK
    <3> QED
      BY <2>1, <3>2, <3>3 DEF Ledger!ledgerVars
  <2> QED
    BY <2>4, <2>5
<1>5. CASE Quiet
  <2>1. TypeOK'
    BY <1>a, StepTypeOK
  <2>2. \A e \in Events : LedgerOf(event'[e]) = LedgerOf(event[e])
    <3> TAKE e \in Events
    <3>1. event[e] \in Row /\ event'[e] \in Row
      BY <1>a, <2>1 DEF TypeOK
    <3>2. CASE event'[e].status = event[e].status
      BY <3>2 DEF LedgerOf
    <3>3. CASE IsOpen(event[e]) /\ IsOpen(event'[e])
      BY <3>1, <3>3, LedgerOfRow
    <3> QED
      BY <1>5, <3>2, <3>3 DEF Quiet
  <2>3. L' = L
    BY <2>2
  <2> QED
    BY <1>5, <2>3 DEF Quiet, Ledger!ledgerVars
<1>6. \/ \E e \in Events : Publish(e)
      \/ \E p \in Procs : Sweep(p)
      \/ \E p \in Procs, e \in Events :
            MarkProcessed(p, e) \/ CommitFanOut(p, e) \/ ResolveFailure(p, e)
      \/ Quiet
  BY <1>a, StepKinds
<1> QED
  BY <1>1, <1>2, <1>3, <1>4, <1>5, <1>6, Zenon

\* For the services that publish events the whole relay is the ledger of
\* EventLedger: no lease, overtaking worker or crash ever shows as anything but
\* one fan-out queued in one step, or failures recorded of open events.
THEOREM RelayImplementsLedger == Spec => ImplementsLedger
<1>1. Init => LedgerInv /\ Ledger!Init
  BY InitSafetyInv, InitClaimInv, InitFanOutLock, InitLedger DEF LedgerInv
<1>2. LedgerInv /\ [Next]_vars => LedgerInv'
  BY StepSafetyInv, StepClaimInv, StepFanOutLock DEF LedgerInv, SafetyInv
<1>3. LedgerInv /\ [Next]_vars => [Ledger!Next]_(Ledger!ledgerVars)
  BY StepLedger
<1> QED
  BY <1>1, <1>2, <1>3, PTL DEF Spec, ImplementsLedger, Ledger!Spec
=============================================================================
