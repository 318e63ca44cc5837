------------------------- MODULE DeliveryRelayProofs -------------------------
(*************************************************************************)
(* Proofs about DeliveryRelay, for any number of processes, deliveries   *)
(* and attempts: its type invariant and its safety properties.           *)
(*************************************************************************)
EXTENDS DeliveryRelay, LeaseQueueProofs

(*************************************************************************)
(* Type correctness                                                      *)
(*************************************************************************)

JobAt(p, d, s) == [stage |-> s, attempt |-> job[p][d].attempt]

LEMMA JobTypes ==
    /\ NoJob \in Job
    /\ \A j \in Job : j.attempt \in Nat /\ j.attempt <= MaxAttempts
  BY MaxAttemptsAssumption DEF NoJob, Job, Stages

LEMMA JobMoves ==
    ASSUME TypeOK, NEW p \in Procs, NEW d \in Deliveries, NEW s \in Stages,
           job' = [job EXCEPT ![p][d].stage = s]
    PROVE  /\ job' = [job EXCEPT ![p][d] = JobAt(p, d, s)]
           /\ JobAt(p, d, s) \in Job
<1>1. job[p][d] \in Job
  BY DEF TypeOK
<1>2. [job[p][d] EXCEPT !.stage = s] = JobAt(p, d, s) /\ JobAt(p, d, s) \in Job
  BY <1>1 DEF Job, JobAt
<1>3. job' = [job EXCEPT ![p][d] = [job[p][d] EXCEPT !.stage = s]]
  OBVIOUS
<1> QED
  BY <1>2, <1>3

\* What the work on one row does to its job.
LEMMA RowSteps ==
    ASSUME TypeOK, NEW p \in Procs, NEW d \in Deliveries,
           AwaitProvider(p, d) \/ Write(p, d)
    PROVE  \E j \in {NoJob, JobAt(p, d, "sent"), JobAt(p, d, "failing")} :
              job' = [job EXCEPT ![p][d] = j] /\ j \in Job
<1>1. CASE \E s \in {"sent", "failing"} : job' = [job EXCEPT ![p][d].stage = s]
  BY <1>1, JobMoves DEF Stages
<1>2. CASE job' = [job EXCEPT ![p][d] = NoJob]
  BY <1>2, JobTypes
<1> QED
  BY <1>1, <1>2 DEF AwaitProvider, SendSms, SendSmsFails, Write, RecordSent,
                    RecordSentFails, ResolveFailure, ResolveFailureFails

LEMMA InitTypeOK == Init => TypeOK
  BY InitialRows, JobTypes DEF Init, TypeOK, Phases

LEMMA ClaimTypes ==
    ASSUME TypeOK, NEW d \in ClaimSet
    PROVE  /\ d \in Deliveries
           /\ IsOpen(delivery[d])
           /\ Claimed(delivery[d]) \in Row
           /\ delivery[d].attempts + 1 \in 1 .. MaxAttempts
<1>1. d \in Deliveries /\ Claimable(delivery[d])
  BY DEF ClaimSet, Oldest
<1>2. delivery[d] \in Row
  BY <1>1 DEF TypeOK
<1>3. Claimed(delivery[d]) \in Row
  BY <1>1, <1>2, RowWrites
<1>4. delivery[d].attempts \in Nat /\ delivery[d].attempts < MaxAttempts
  BY <1>1, <1>2, MaxAttemptsAssumption DEF Row, Claimable
<1> QED
  BY <1>1, <1>3, <1>4, MaxAttemptsAssumption DEF Claimable

LEMMA SweptDeliveries ==
    ASSUME TypeOK, NEW p \in Procs, Sweep(p)
    PROVE  \E S \in SUBSET Deliveries :
              /\ \A d \in S : IsOpen(delivery[d])
              /\ delivery' = [d \in Deliveries |->
                                 IF d \in S THEN Swept(delivery[d]) ELSE delivery[d]]
              /\ failAudits' = [d \in Deliveries |->
                                 IF d \in S THEN failAudits[d] + 1 ELSE failAudits[d]]
<1> DEFINE U == {d \in Deliveries : Exhausted(delivery[d])}
<1>1. PICK S \in AnyOf(U, SweepBatch) :
           /\ delivery' = [d \in Deliveries |->
                             IF d \in S THEN Swept(delivery[d]) ELSE delivery[d]]
           /\ failAudits' = [d \in Deliveries |->
                             IF d \in S THEN failAudits[d] + 1 ELSE failAudits[d]]
  BY DEF Sweep
<1>2. S \subseteq U
  BY SomeOf
<1>3. S \in SUBSET Deliveries /\ \A d \in S : IsOpen(delivery[d])
  BY <1>2 DEF Exhausted
<1> QED
  BY <1>1, <1>3

LEMMA StepTypeOK == TypeOK /\ [Next]_vars => TypeOK'
<1> SUFFICES ASSUME TypeOK, [Next]_vars PROVE TypeOK'
  OBVIOUS
<1>a. /\ delivery \in [Deliveries -> Row]
      /\ sms \in [Deliveries -> [1 .. MaxAttempts -> Nat]]
      /\ failAudits \in [Deliveries -> Nat]
      /\ phase \in [Procs -> Phases]
      /\ job \in [Procs -> [Deliveries -> Job]]
  BY DEF TypeOK
<1>1. ASSUME NEW d \in Deliveries, Insert(d) PROVE TypeOK'
  BY <1>1, <1>a, InitialRows DEF Insert, TypeOK
<1>2. ASSUME NEW d \in Deliveries, Elapse(d) PROVE TypeOK'
  <2>1. [delivery[d] EXCEPT !.due = "now"] \in Row
    BY <1>a DEF Row, Dues
  <2> QED
    BY <1>2, <1>a, <2>1 DEF Elapse, TypeOK
<1>3. ASSUME NEW p \in Procs, Sweep(p) PROVE TypeOK'
  <2>1. PICK S \in SUBSET Deliveries :
              /\ delivery' = [d \in Deliveries |->
                                 IF d \in S THEN Swept(delivery[d]) ELSE delivery[d]]
              /\ failAudits' = [d \in Deliveries |->
                                 IF d \in S THEN failAudits[d] + 1 ELSE failAudits[d]]
    BY <1>3, SweptDeliveries
  <2>2. \A d \in Deliveries : Swept(delivery[d]) \in Row
    BY <1>a DEF Swept, Row, Statuses
  <2> QED
    BY <1>3, <1>a, <2>1, <2>2 DEF Sweep, Phases, TypeOK
<1>4. ASSUME NEW p \in Procs, Claim(p) PROVE TypeOK'
  <2>1. \A d \in ClaimSet :
           [stage |-> "sending", attempt |-> delivery[d].attempts + 1] \in Job
    BY ClaimTypes, MaxAttemptsAssumption DEF Job, Stages
  <2>2. delivery' \in [Deliveries -> Row]
    BY <1>4, <1>a, ClaimTypes DEF Claim
  <2>3. job' \in [Procs -> [Deliveries -> Job]]
    BY <1>4, <1>a, <2>1, JobTypes DEF Claim
  <2> QED
    BY <1>4, <1>a, <2>2, <2>3 DEF Claim, Phases, TypeOK
<1>5. ASSUME NEW p \in Procs, ClaimFails(p) \/ EndPoll(p) \/ Crash(p) PROVE TypeOK'
  <2>1. CASE Crash(p)
    BY <2>1, <1>a, JobTypes DEF Crash, Phases, TypeOK
  <2>2. CASE ClaimFails(p) \/ EndPoll(p)
    BY <2>2, <1>a DEF ClaimFails, EndPoll, Phases, TypeOK
  <2> QED
    BY <1>5, <2>1, <2>2
<1>6. ASSUME NEW p \in Procs, NEW d \in Deliveries, AwaitProvider(p, d) PROVE TypeOK'
  <2>1. job' \in [Procs -> [Deliveries -> Job]]
    <3>1. PICK j \in {NoJob, JobAt(p, d, "sent"), JobAt(p, d, "failing")} :
             job' = [job EXCEPT ![p][d] = j] /\ j \in Job
      BY <1>6, RowSteps
    <3> QED
      BY <3>1, <1>a
  <2>2. sms' \in [Deliveries -> [1 .. MaxAttempts -> Nat]]
    <3> DEFINE n == job[p][d].attempt
               sent == [sms[d] EXCEPT ![n] = sms[d][n] + 1]
    <3>1. sent \in [1 .. MaxAttempts -> Nat]
      <4>1. sms[d] \in [1 .. MaxAttempts -> Nat]
        BY <1>a
      <4>2. sent = [k \in 1 .. MaxAttempts |-> IF k = n THEN sms[d][k] + 1 ELSE sms[d][k]]
        BY <4>1
      <4>3. \A k \in 1 .. MaxAttempts :
               (IF k = n THEN sms[d][k] + 1 ELSE sms[d][k]) \in Nat
        <5>1. \A k \in 1 .. MaxAttempts : sms[d][k] \in Nat
          BY <4>1
        <5> HIDE DEF n
        <5> QED
          BY <5>1
      <4> HIDE DEF n, sent
      <4> QED
        BY <4>2, <4>3
    <3>2. CASE sms' = [sms EXCEPT ![d] = sent]
      BY <3>1, <3>2, <1>a
    <3> QED
      BY <1>6, <1>a, <3>2 DEF AwaitProvider, SendSms, SendSmsFails
  <2> QED
    BY <1>6, <1>a, <2>1, <2>2 DEF AwaitProvider, SendSms, SendSmsFails, TypeOK
<1>7. ASSUME NEW p \in Procs, NEW d \in Deliveries, Write(p, d) PROVE TypeOK'
  <2>1. job' \in [Procs -> [Deliveries -> Job]]
    <3>1. PICK j \in {NoJob, JobAt(p, d, "sent"), JobAt(p, d, "failing")} :
             job' = [job EXCEPT ![p][d] = j] /\ j \in Job
      BY <1>7, RowSteps
    <3> QED
      BY <3>1, <1>a
  <2>2. /\ Processed(delivery[d]) \in Row
        /\ AfterFailure(delivery[d], job[p][d].attempt, FALSE) \in Row
    <3>1. job[p][d] \in Job /\ delivery[d] \in Row
      BY <1>a
    <3> QED
      BY <3>1, JobTypes, RowWrites
  <2>3. delivery' \in [Deliveries -> Row] /\ failAudits' \in [Deliveries -> Nat]
    <3>1. CASE RecordSent(p, d)
      BY <3>1, <1>a, <2>2 DEF RecordSent
    <3>2. CASE RecordSentFails(p, d) \/ ResolveFailureFails(p, d)
      BY <3>2, <1>a DEF RecordSentFails, ResolveFailureFails
    <3>3. CASE ResolveFailure(p, d)
      <4>1. /\ delivery' = [delivery EXCEPT ![d] =
                   AfterFailure(delivery[d], job[p][d].attempt, FALSE)]
            /\ \/ failAudits' = failAudits
               \/ failAudits' = [failAudits EXCEPT ![d] = failAudits[d] + 1]
        BY <3>3, <1>a DEF ResolveFailure
      <4>2. failAudits' \in [Deliveries -> Nat]
        BY <4>1, <1>a
      <4> QED
        BY <4>1, <4>2, <1>a, <2>2
    <3> QED
      BY <1>7, <3>1, <3>2, <3>3 DEF Write
  <2>4. UNCHANGED <<sms, phase>>
    BY <1>7
    DEF Write, RecordSent, RecordSentFails, ResolveFailure, ResolveFailureFails
  <2> QED
    BY <1>a, <2>1, <2>3, <2>4 DEF TypeOK
<1>8. CASE UNCHANGED vars
  BY <1>8, <1>a DEF vars, TypeOK
<1> QED
  BY <1>1, <1>2, <1>3, <1>4, <1>5, <1>6, <1>7, <1>8 DEF Next

\* The state stays well typed: no row is claimed more often than
\* OUTBOX_MAX_ATTEMPTS allows (claimBatch refuses a row whose budget is spent).
THEOREM TypeCorrect == Spec => []TypeOK
  BY InitTypeOK, StepTypeOK, PTL DEF Spec

(*************************************************************************)
(* What each step does to the row, the SMS and the jobs of a delivery.   *)
(*************************************************************************)

\* A row's status moves by an insert, a sweep, a success or a failure only.
Settles(p, d) == RecordSent(p, d) \/ ResolveFailure(p, d)

LEMMA JobUpdate ==
    ASSUME TypeOK, NEW p \in Procs, NEW d \in Deliveries, NEW j,
           job' = [job EXCEPT ![p][d] = j]
    PROVE  \A q \in Procs, c \in Deliveries :
              job'[q][c] = IF q = p /\ c = d THEN j ELSE job[q][c]
  BY DEF TypeOK

LEMMA FailureRow ==
    ASSUME TypeOK, NEW p \in Procs, NEW d \in Deliveries
    PROVE  LET after == AfterFailure(delivery[d], job[p][d].attempt, FALSE)
           IN  /\ after.attempts = delivery[d].attempts
               /\ delivery[d].status # "PROCESSING" => after = delivery[d]
               /\ delivery[d].status = "PROCESSING" => after.status \in {"FAILED", "PENDING"}
<1>1. job[p][d] \in Job /\ delivery[d] \in Row
  BY DEF TypeOK
<1>2. job[p][d].attempt \in Nat
  BY <1>1, JobTypes
<1> QED
  BY <1>1, <1>2, FailureWrites

\* Rows outside the step keep everything; the claim counts, nothing else does.
LEMMA AttemptSteps ==
    ASSUME TypeOK, [Next]_vars, NEW d \in Deliveries,
           delivery[d].status = "ABSENT" => delivery[d].attempts = 0
    PROVE  /\ \/ delivery'[d].attempts = delivery[d].attempts
              \/ /\ \E p \in Procs : Claim(p)
                 /\ d \in ClaimSet
                 /\ delivery'[d].attempts = delivery[d].attempts + 1
           /\ delivery'[d].status = "ABSENT" => delivery'[d].attempts = 0
<1>a. delivery \in [Deliveries -> Row]
  BY DEF TypeOK
<1>1. ASSUME NEW c \in Deliveries, Insert(c)
      PROVE  /\ delivery'[d].attempts = delivery[d].attempts
             /\ delivery'[d].status = "ABSENT" => delivery'[d].attempts = 0
  BY <1>1, <1>a DEF Insert, NewRow
<1>2. ASSUME NEW c \in Deliveries, Elapse(c)
      PROVE  /\ delivery'[d].attempts = delivery[d].attempts
             /\ delivery'[d].status = delivery[d].status
  <2>1. delivery' = [delivery EXCEPT ![c] = [delivery[c] EXCEPT !.due = "now"]]
    BY <1>2 DEF Elapse
  <2>2. /\ [delivery[c] EXCEPT !.due = "now"].attempts = delivery[c].attempts
        /\ [delivery[c] EXCEPT !.due = "now"].status = delivery[c].status
    BY <1>a DEF Row
  <2> QED
    BY <2>1, <2>2, <1>a
<1>3. ASSUME NEW p \in Procs, Sweep(p)
      PROVE  /\ delivery'[d].attempts = delivery[d].attempts
             /\ delivery'[d].status = "ABSENT" => delivery'[d].attempts = 0
  <2>1. delivery'[d] = delivery[d] \/ delivery'[d] = Swept(delivery[d])
    BY <1>3, SweptDeliveries
  <2>2. /\ Swept(delivery[d]).attempts = delivery[d].attempts
        /\ Swept(delivery[d]).status = "FAILED"
    BY <1>a DEF Swept, Row
  <2> QED
    BY <2>1, <2>2
<1>4. ASSUME NEW p \in Procs, Claim(p)
      PROVE  \/ delivery'[d] = delivery[d]
             \/ /\ d \in ClaimSet
                /\ delivery'[d].attempts = delivery[d].attempts + 1
                /\ delivery'[d].status = "PROCESSING"
  BY <1>4 DEF Claim, Claimed
<1>5. ASSUME NEW p \in Procs, NEW c \in Deliveries, Settles(p, c)
      PROVE  /\ delivery'[d].attempts = delivery[d].attempts
             /\ delivery'[d].status = "ABSENT" => delivery'[d].attempts = 0
  <2>1. CASE RecordSent(p, c)
    <3>1. Processed(delivery[c]).attempts = delivery[c].attempts
          /\ Processed(delivery[c]).status = "PROCESSED"
      BY <1>a DEF Processed, Row
    <3> QED
      BY <2>1, <3>1, <1>a DEF RecordSent
  <2>2. CASE ResolveFailure(p, c)
    <3> DEFINE after == AfterFailure(delivery[c], job[p][c].attempt, FALSE)
    <3>1. /\ after.attempts = delivery[c].attempts
          /\ after.status = "ABSENT" => delivery[c].status = "ABSENT"
      BY FailureRow
    <3>2. delivery' = [delivery EXCEPT ![c] = after]
      BY <2>2 DEF ResolveFailure
    <3> HIDE DEF after
    <3> QED
      BY <3>1, <3>2, <1>a
  <2> QED
    BY <1>5, <2>1, <2>2 DEF Settles
<1>6. CASE delivery' = delivery
  BY <1>6
<1> QED
  BY <1>1, <1>2, <1>3, <1>4, <1>5, <1>6
  DEF Next, AwaitProvider, Write, Settles, ClaimFails, EndPoll, Crash, SendSms,
      SendSmsFails, RecordSentFails, ResolveFailureFails, vars

(*************************************************************************)
(* One SMS per claim                                                     *)
(*************************************************************************)

\* A job of a row: its claim has been counted, it is the only job under its
\* number, and that number has sent an SMS exactly when the job says so.
JobHolds(p, d) ==
    LET j == job[p][d] IN
    j.stage # "none" =>
        /\ j.attempt \in 1 .. delivery[d].attempts
        /\ j.stage = "sending" => sms[d][j.attempt] = 0
        /\ j.stage = "sent" => sms[d][j.attempt] > 0
        /\ \A q \in Procs : q # p /\ job[q][d].stage # "none" =>
              job[q][d].attempt # j.attempt

SmsInv ==
    /\ TypeOK
    /\ \A d \in Deliveries : delivery[d].status = "ABSENT" => delivery[d].attempts = 0
    /\ OneSmsPerClaim
    /\ \A p \in Procs, d \in Deliveries : JobHolds(p, d)

LEMMA InitSmsInv == Init => SmsInv
<1> SUFFICES ASSUME Init PROVE SmsInv
  OBVIOUS
<1>1. OneSmsPerClaim
  BY DEF Init, OneSmsPerClaim
<1>2. \A p \in Procs, d \in Deliveries : job[p][d].stage = "none"
  BY DEF Init, NoJob
<1> QED
  BY <1>1, <1>2, InitTypeOK DEF Init, SmsInv, JobHolds, AbsentRow

\* Steps that call no provider and claim nothing: they drop jobs, or turn a
\* sent one into a failing one.
Calm ==
    /\ sms' = sms
    /\ \A d \in Deliveries : delivery'[d].attempts = delivery[d].attempts
    /\ \A p \in Procs, d \in Deliveries :
          \/ job'[p][d] = job[p][d]
          \/ job'[p][d].stage = "none"
          \/ /\ job[p][d].stage # "none"
             /\ job'[p][d].stage = "failing"
             /\ job'[p][d].attempt = job[p][d].attempt

LEMMA CalmSteps ==
    ASSUME SmsInv, [Next]_vars
    PROVE  \/ Calm
           \/ \E p \in Procs : Claim(p)
           \/ \E p \in Procs, d \in Deliveries : SendSms(p, d)
<1>a. TypeOK
  BY DEF SmsInv
<1> SUFFICES ASSUME ~ \E p \in Procs : Claim(p),
                    ~ \E p \in Procs, d \in Deliveries : SendSms(p, d)
             PROVE  Calm
  OBVIOUS
<1>1. \A d \in Deliveries : delivery'[d].attempts = delivery[d].attempts
  BY <1>a, AttemptSteps DEF SmsInv
<1>2. CASE sms' = sms /\ job' = job
  BY <1>1, <1>2 DEF Calm
<1>3. ASSUME NEW p \in Procs, Crash(p) PROVE Calm
  <2>1. \A q \in Procs, d \in Deliveries :
           job'[q][d] = IF q = p THEN NoJob ELSE job[q][d]
    BY <1>3, <1>a DEF Crash, TypeOK
  <2> QED
    BY <1>1, <1>3, <2>1 DEF Calm, Crash, NoJob
<1>4. ASSUME NEW p \in Procs, NEW d \in Deliveries, SendSmsFails(p, d) \/ Write(p, d)
      PROVE  Calm
  <2>1. /\ sms' = sms
        /\ job[p][d].stage # "none"
        /\ \/ job' = [job EXCEPT ![p][d] = NoJob]
           \/ job' = [job EXCEPT ![p][d].stage = "failing"]
    BY <1>4 DEF SendSmsFails, Write, RecordSent, RecordSentFails, ResolveFailure,
                ResolveFailureFails
  <2>2. \/ job' = [job EXCEPT ![p][d] = NoJob]
        \/ job' = [job EXCEPT ![p][d] = JobAt(p, d, "failing")]
    BY <2>1, <1>a, JobMoves DEF Stages
  <2>3. \A q \in Procs, c \in Deliveries :
           \/ job'[q][c] = job[q][c]
           \/ q = p /\ c = d /\ job'[q][c] \in {NoJob, JobAt(p, d, "failing")}
    BY <2>2, <1>a, JobUpdate
  <2> QED
    BY <1>1, <2>1, <2>3 DEF Calm, NoJob, JobAt
<1> QED
  BY <1>2, <1>3, <1>4
  DEF Next, Insert, Elapse, Sweep, ClaimFails, EndPoll, AwaitProvider, vars

LEMMA CalmKeepsSms ==
    ASSUME SmsInv, Calm
    PROVE  /\ OneSmsPerClaim'
           /\ \A p \in Procs, d \in Deliveries : JobHolds(p, d)'
<1>1. OneSmsPerClaim'
  BY DEF SmsInv, Calm, OneSmsPerClaim
<1>2. ASSUME NEW p \in Procs, NEW d \in Deliveries PROVE JobHolds(p, d)'
  <2>1. \A q \in Procs : job'[q][d].stage # "none" =>
           /\ job[q][d].stage # "none"
           /\ job'[q][d].attempt = job[q][d].attempt
           /\ job'[q][d].stage = job[q][d].stage \/ job'[q][d].stage = "failing"
    BY DEF Calm
  <2>2. sms' = sms /\ delivery'[d].attempts = delivery[d].attempts
    BY DEF Calm
  <2>3. JobHolds(p, d)
    BY DEF SmsInv
  <2> QED
    BY <2>1, <2>2, <2>3 DEF JobHolds
<1> QED
  BY <1>1, <1>2

LEMMA ClaimKeepsSms ==
    ASSUME SmsInv, NEW p \in Procs, Claim(p)
    PROVE  /\ OneSmsPerClaim'
           /\ \A q \in Procs, d \in Deliveries : JobHolds(q, d)'
<1>a. TypeOK
  BY DEF SmsInv
<1>1. sms' = sms
  BY DEF Claim
<1>2. ASSUME NEW d \in Deliveries
      PROVE  /\ d \in ClaimSet => delivery'[d].attempts = delivery[d].attempts + 1
             /\ d \notin ClaimSet => delivery'[d].attempts = delivery[d].attempts
             /\ delivery[d].attempts \in Nat
  BY <1>a, MaxAttemptsAssumption DEF Claim, Claimed, TypeOK, Row
<1>3. /\ \A q \in Procs, d \in Deliveries : q # p => job'[q][d] = job[q][d]
      /\ \A d \in Deliveries : d \in ClaimSet => job'[p][d] =
            [stage |-> "sending", attempt |-> delivery[d].attempts + 1]
      /\ \A d \in Deliveries : d \notin ClaimSet => job'[p][d] = NoJob
  BY <1>a DEF Claim, TypeOK
<1>4. OneSmsPerClaim'
  <2> SUFFICES ASSUME NEW d \in Deliveries, NEW n \in 1 .. MaxAttempts
               PROVE  sms[d][n] <= (IF n <= delivery'[d].attempts THEN 1 ELSE 0)
    BY <1>1 DEF OneSmsPerClaim
  <2>1. sms[d][n] <= (IF n <= delivery[d].attempts THEN 1 ELSE 0)
    BY DEF SmsInv, OneSmsPerClaim
  <2>2. sms[d][n] \in Nat /\ n \in Nat
    BY <1>a, MaxAttemptsAssumption DEF TypeOK
  <2> QED
    BY <1>2, <2>1, <2>2
<1>5. ASSUME NEW q \in Procs, NEW d \in Deliveries PROVE JobHolds(q, d)'
  <2>1. \A r \in Procs : JobHolds(r, d)
    BY DEF SmsInv
  <2>2. \A r \in Procs : job[r][d].attempt \in Nat
    BY <1>a, JobTypes DEF TypeOK
  <2>3. CASE q # p
    <3>1. job'[q][d] = job[q][d]
      BY <1>3, <2>3
    <3>2. job'[p][d].stage # "none" => job'[p][d].attempt = delivery[d].attempts + 1
      <4>1. CASE d \in ClaimSet
        <5>1. job'[p][d] = [stage |-> "sending", attempt |-> delivery[d].attempts + 1]
          BY <1>3, <4>1
        <5> QED
          BY <5>1
      <4>2. CASE d \notin ClaimSet
        BY <1>3, <4>2 DEF NoJob
      <4> QED
        BY <4>1, <4>2
    <3>3. \A r \in Procs : r # p => job'[r][d] = job[r][d]
      BY <1>3
    <3>4. CASE job[q][d].stage = "none"
      BY <3>1, <3>4 DEF JobHolds
    <3>5. CASE job[q][d].stage # "none"
      <4> DEFINE n == job[q][d].attempt
      <4>1. /\ n \in 1 .. delivery[d].attempts
            /\ job[q][d].stage = "sending" => sms[d][n] = 0
            /\ job[q][d].stage = "sent" => sms[d][n] > 0
            /\ \A r \in Procs : r # q /\ job[r][d].stage # "none" => job[r][d].attempt # n
        BY <2>1, <3>5 DEF JobHolds
      <4>2. n \in 1 .. delivery'[d].attempts /\ n # delivery[d].attempts + 1
        BY <1>2, <4>1
      <4>3. \A r \in Procs : r # q /\ job'[r][d].stage # "none" => job'[r][d].attempt # n
        BY <3>2, <3>3, <4>1, <4>2
      <4> QED
        BY <1>1, <3>1, <4>1, <4>2, <4>3 DEF JobHolds
    <3> QED
      BY <3>4, <3>5
  <2>4. CASE q = p /\ d \notin ClaimSet
    BY <1>3, <2>4 DEF JobHolds, NoJob
  <2>5. CASE q = p /\ d \in ClaimSet
    <3> DEFINE n == delivery[d].attempts + 1
    <3>1. job'[p][d] = [stage |-> "sending", attempt |-> n]
      BY <1>3, <2>5
    <3>2. delivery'[d].attempts = n /\ n \in 1 .. n
      BY <1>2, <2>5
    <3>3. n \in 1 .. MaxAttempts
      BY <1>a, <2>5, ClaimTypes
    <3>4. sms[d][n] = 0
      <4>1. sms[d][n] <= 0
        BY <1>2, <3>3 DEF SmsInv, OneSmsPerClaim
      <4>2. sms[d][n] \in Nat
        BY <1>a, <3>3 DEF TypeOK
      <4> QED
        BY <4>1, <4>2
    <3>5. \A r \in Procs : r # p /\ job'[r][d].stage # "none" => job'[r][d].attempt # n
      <4> SUFFICES ASSUME NEW r \in Procs, r # p, job'[r][d].stage # "none"
                   PROVE  job'[r][d].attempt # n
        OBVIOUS
      <4>1. job'[r][d] = job[r][d]
        BY <1>3
      <4>2. job[r][d].attempt \in 1 .. delivery[d].attempts
        BY <2>1, <4>1 DEF JobHolds
      <4> QED
        BY <1>2, <4>1, <4>2
    <3> HIDE DEF n
    <3> QED
      BY <1>1, <2>5, <3>1, <3>2, <3>4, <3>5 DEF JobHolds
  <2> QED
    BY <2>3, <2>4, <2>5
<1> QED
  BY <1>4, <1>5

LEMMA SendKeepsSms ==
    ASSUME SmsInv, NEW p \in Procs, NEW d \in Deliveries, SendSms(p, d)
    PROVE  /\ OneSmsPerClaim'
           /\ \A q \in Procs, c \in Deliveries : JobHolds(q, c)'
<1> DEFINE n == job[p][d].attempt
<1>a. TypeOK
  BY DEF SmsInv
<1>1. /\ job[p][d].stage = "sending"
      /\ n \in 1 .. delivery[d].attempts
      /\ sms[d][n] = 0
      /\ \A q \in Procs : q # p /\ job[q][d].stage # "none" => job[q][d].attempt # n
  BY DEF SendSms, SmsInv, JobHolds
<1>2. /\ delivery' = delivery
      /\ delivery[d].attempts \in Nat /\ delivery[d].attempts <= MaxAttempts
      /\ n \in 1 .. MaxAttempts
  BY <1>a, <1>1, MaxAttemptsAssumption DEF SendSms, TypeOK, Row
<1>3. \A c \in Deliveries, m \in 1 .. MaxAttempts :
         sms'[c][m] = IF c = d /\ m = n THEN 1 ELSE sms[c][m]
  <2>1. sms \in [Deliveries -> [1 .. MaxAttempts -> Nat]]
    BY <1>a DEF TypeOK
  <2>2. sms' = [sms EXCEPT ![d] = [sms[d] EXCEPT ![n] = sms[d][n] + 1]]
    BY DEF SendSms
  <2> HIDE DEF n
  <2>3. \A m \in 1 .. MaxAttempts : [sms[d] EXCEPT ![n] = sms[d][n] + 1][m] =
           IF m = n THEN 1 ELSE sms[d][m]
    <3>1. sms[d] \in [1 .. MaxAttempts -> Nat]
      BY <2>1
    <3>2. \A m \in 1 .. MaxAttempts : [sms[d] EXCEPT ![n] = sms[d][n] + 1][m] =
             IF m = n THEN sms[d][n] + 1 ELSE sms[d][m]
      BY <3>1
    <3>3. sms[d][n] + 1 = 1
      BY <1>1
    <3> QED
      BY <3>2, <3>3
  <2> QED
    BY <2>1, <2>2, <2>3
<1>4. \A q \in Procs, c \in Deliveries :
         \/ (q # p \/ c # d) /\ job'[q][c] = job[q][c]
         \/ q = p /\ c = d /\ job'[q][c] \in {JobAt(p, d, "sent"), JobAt(p, d, "failing")}
  <2>1. \/ job' = [job EXCEPT ![p][d].stage = "sent"]
        \/ job' = [job EXCEPT ![p][d].stage = "failing"]
    BY DEF SendSms
  <2>2. \/ job' = [job EXCEPT ![p][d] = JobAt(p, d, "sent")]
        \/ job' = [job EXCEPT ![p][d] = JobAt(p, d, "failing")]
    BY <1>a, <2>1, JobMoves DEF Stages
  <2> QED
    BY <1>a, <2>1, <2>2, JobUpdate
<1>5. OneSmsPerClaim'
  BY <1>1, <1>2, <1>3 DEF SmsInv, OneSmsPerClaim
<1>6. ASSUME NEW q \in Procs, NEW c \in Deliveries PROVE JobHolds(q, c)'
  <2>1. JobHolds(q, c)
    BY DEF SmsInv
  <2>2. /\ job'[q][c].attempt = job[q][c].attempt
        /\ job'[q][c].stage # "none" => job[q][c].stage # "none"
        /\ \A r \in Procs : job'[r][c].stage # "none" =>
              job[r][c].stage # "none" /\ job'[r][c].attempt = job[r][c].attempt
    BY <1>1, <1>4 DEF JobAt
  <2>3. delivery[c].attempts <= MaxAttempts /\ delivery[c].attempts \in Nat
    BY <1>a, MaxAttemptsAssumption DEF TypeOK, Row
  <2>4. CASE q = p /\ c = d
    <3>1. job'[q][c].stage # "sending"
      BY <1>4, <2>4 DEF JobAt
    <3> QED
      BY <1>1, <1>2, <1>3, <2>1, <2>2, <2>4, <3>1 DEF JobHolds
  <2>5. CASE q # p \/ c # d
    <3>1. job'[q][c] = job[q][c]
      BY <1>4, <2>5
    <3>2. c = d /\ job[q][c].stage # "none" => job[q][c].attempt # n
      BY <1>1, <2>5
    <3>3. job[q][c].stage # "none" =>
             /\ job[q][c].attempt \in 1 .. MaxAttempts
             /\ sms'[c][job[q][c].attempt] = sms[c][job[q][c].attempt]
      BY <1>3, <2>1, <2>3, <3>2, MaxAttemptsAssumption DEF JobHolds
    <3> QED
      BY <1>2, <2>1, <2>2, <3>1, <3>3 DEF JobHolds
  <2> QED
    BY <2>4, <2>5
<1> QED
  BY <1>5, <1>6

LEMMA StepSmsInv == SmsInv /\ [Next]_vars => SmsInv'
<1> SUFFICES ASSUME SmsInv, [Next]_vars PROVE SmsInv'
  OBVIOUS
<1>1. TypeOK'
  BY StepTypeOK DEF SmsInv
<1>2. \A d \in Deliveries : delivery'[d].status = "ABSENT" => delivery'[d].attempts = 0
  BY AttemptSteps DEF SmsInv
<1>3. OneSmsPerClaim' /\ \A p \in Procs, d \in Deliveries : JobHolds(p, d)'
  BY CalmSteps, CalmKeepsSms, ClaimKeepsSms, SendKeepsSms
<1> QED
  BY <1>1, <1>2, <1>3 DEF SmsInv

\* A recipient gets at most one SMS for each claim of a row, however workers
\* overtake each other (claimBatch counts the attempt it hands out).
THEOREM SmsOncePerClaim == Spec => []OneSmsPerClaim
<1>1. SmsInv => OneSmsPerClaim
  BY DEF SmsInv
<1> QED
  BY <1>1, InitSmsInv, StepSmsInv, PTL DEF Spec

(*************************************************************************)
(* How a row is settled                                                  *)
(*************************************************************************)

\* What a step makes of the status of a row and of its audit rows.
StatusStep(d) ==
    \/ /\ failAudits'[d] = failAudits[d]
       /\ \/ delivery'[d].status = delivery[d].status
          \/ delivery[d].status = "ABSENT" /\ delivery'[d].status = "PENDING"
          \/ IsOpen(delivery[d]) /\ IsOpen(delivery'[d])
          \/ /\ delivery[d].status = "PROCESSING" /\ delivery'[d].status = "PROCESSED"
             /\ sms' = sms
             /\ \E p \in Procs : job[p][d].stage = "sent"
    \/ /\ failAudits'[d] = failAudits[d] + 1
       /\ IsOpen(delivery[d]) /\ delivery'[d].status = "FAILED"

LEMMA StatusSteps ==
    ASSUME TypeOK, [Next]_vars, NEW d \in Deliveries PROVE StatusStep(d)
<1>a. delivery \in [Deliveries -> Row] /\ failAudits \in [Deliveries -> Nat]
  BY DEF TypeOK
<1>1. ASSUME NEW c \in Deliveries, Insert(c) PROVE StatusStep(d)
  BY <1>1, <1>a DEF Insert, NewRow, StatusStep
<1>2. ASSUME NEW c \in Deliveries, Elapse(c) PROVE StatusStep(d)
  <2>1. [delivery[c] EXCEPT !.due = "now"].status = delivery[c].status
    BY <1>a DEF Row
  <2>2. delivery' = [delivery EXCEPT ![c] = [delivery[c] EXCEPT !.due = "now"]]
    BY <1>2 DEF Elapse
  <2>3. delivery'[d].status = delivery[d].status
    BY <2>1, <2>2, <1>a
  <2> QED
    BY <1>2, <2>3 DEF Elapse, StatusStep
<1>3. ASSUME NEW p \in Procs, Sweep(p) PROVE StatusStep(d)
  <2>1. PICK S \in SUBSET Deliveries :
              /\ \A c \in S : IsOpen(delivery[c])
              /\ delivery' = [c \in Deliveries |->
                                 IF c \in S THEN Swept(delivery[c]) ELSE delivery[c]]
              /\ failAudits' = [c \in Deliveries |->
                                 IF c \in S THEN failAudits[c] + 1 ELSE failAudits[c]]
    BY <1>3, SweptDeliveries
  <2>2. Swept(delivery[d]).status = "FAILED"
    BY <1>a DEF Swept, Row
  <2>3. CASE d \in S
    BY <2>1, <2>2, <2>3 DEF StatusStep
  <2>4. CASE d \notin S
    BY <2>1, <2>4 DEF StatusStep
  <2> QED
    BY <2>3, <2>4
<1>4. ASSUME NEW p \in Procs, Claim(p) PROVE StatusStep(d)
  <2>1. CASE d \in ClaimSet
    <3>1. delivery'[d].status = "PROCESSING"
      BY <1>4, <2>1 DEF Claim, Claimed
    <3>2. IsOpen(delivery[d]) /\ failAudits' = failAudits
      BY <1>4, <2>1, ClaimTypes DEF Claim
    <3> QED
      BY <3>1, <3>2 DEF StatusStep, IsOpen, OpenStatuses
  <2>2. CASE d \notin ClaimSet
    BY <1>4, <2>2 DEF Claim, StatusStep
  <2> QED
    BY <2>1, <2>2
<1>5. ASSUME NEW p \in Procs, NEW c \in Deliveries, RecordSent(p, c) PROVE StatusStep(d)
  <2>1. Processed(delivery[c]).status = "PROCESSED"
    BY <1>a DEF Processed, Row
  <2> QED
    BY <1>5, <2>1, <1>a DEF RecordSent, StatusStep
<1>6. ASSUME NEW p \in Procs, NEW c \in Deliveries, ResolveFailure(p, c)
      PROVE  StatusStep(d)
  <2> DEFINE after == AfterFailure(delivery[c], job[p][c].attempt, FALSE)
  <2>1. /\ delivery[c].status # "PROCESSING" => after = delivery[c]
        /\ delivery[c].status = "PROCESSING" => after.status \in {"FAILED", "PENDING"}
    BY FailureRow DEF TypeOK
  <2>2. /\ delivery' = [delivery EXCEPT ![c] = after]
        /\ failAudits' = [failAudits EXCEPT ![c] =
              IF delivery[c].status = "PROCESSING" /\ after.status = "FAILED"
              THEN failAudits[c] + 1 ELSE failAudits[c]]
    BY <1>6 DEF ResolveFailure
  <2> HIDE DEF after
  <2>3. CASE d # c
    BY <2>2, <2>3, <1>a DEF StatusStep
  <2>4. CASE d = c /\ delivery[c].status # "PROCESSING"
    BY <2>1, <2>2, <2>4, <1>a DEF StatusStep
  <2>5. CASE d = c /\ delivery[c].status = "PROCESSING"
    <3>1. delivery'[d] = after /\ IsOpen(delivery[d])
      BY <2>2, <2>5, <1>a DEF IsOpen, OpenStatuses
    <3>2. CASE after.status = "FAILED"
      BY <2>2, <2>5, <3>1, <3>2, <1>a DEF StatusStep
    <3>3. CASE after.status = "PENDING"
      BY <2>2, <2>5, <3>1, <3>3, <1>a DEF StatusStep, IsOpen, OpenStatuses
    <3> QED
      BY <2>1, <2>5, <3>2, <3>3
  <2> QED
    BY <2>3, <2>4, <2>5
<1>7. CASE UNCHANGED <<delivery, failAudits>>
  BY <1>7 DEF StatusStep
<1> QED
  BY <1>1, <1>2, <1>3, <1>4, <1>5, <1>6, <1>7
  DEF Next, AwaitProvider, Write, ClaimFails, EndPoll, Crash, SendSms,
      SendSmsFails, RecordSentFails, ResolveFailureFails, vars

\* Sweep and workers never both record the failure of a notification, and none
\* is FAILED unrecorded (the status guard of resolveFailure).
THEOREM FailureAudits == Spec => []FailureAuditedOnce
<1>1. Init => TypeOK /\ FailureAuditedOnce
  BY InitTypeOK DEF Init, FailureAuditedOnce, AbsentRow
<1>2. TypeOK /\ FailureAuditedOnce /\ [Next]_vars => (TypeOK /\ FailureAuditedOnce)'
  <2> SUFFICES ASSUME TypeOK, FailureAuditedOnce, [Next]_vars
               PROVE  (TypeOK /\ FailureAuditedOnce)'
    OBVIOUS
  <2>1. TypeOK'
    BY StepTypeOK
  <2>2. \A d \in Deliveries : StatusStep(d)
    BY StatusSteps
  <2>3. FailureAuditedOnce'
    BY <2>2 DEF StatusStep, FailureAuditedOnce, IsOpen, OpenStatuses
  <2> QED
    BY <2>1, <2>3
<1> QED
  BY <1>1, <1>2, PTL DEF Spec

\* A settled row stays as it was settled (the status guards of processClaimedRow
\* and resolveFailure, whatever overtaken workers still write).
THEOREM SettledFinal == Spec => SettledIsFinal
<1>1. TypeOK /\ [Next]_vars =>
         [\A d \in Deliveries :
             delivery[d].status \in {"PROCESSED", "FAILED"} =>
                 delivery'[d].status = delivery[d].status]_vars
  BY StatusSteps DEF StatusStep, IsOpen, OpenStatuses
<1> QED
  BY <1>1, InitTypeOK, StepTypeOK, PTL DEF Spec, SettledIsFinal

LEMMA SmsStay ==
    ASSUME SmsInv, [Next]_vars, NEW d \in Deliveries, NEW n \in 1 .. delivery[d].attempts,
           sms[d][n] > 0
    PROVE  n \in 1 .. delivery'[d].attempts /\ sms'[d][n] > 0
<1>a. TypeOK
  BY DEF SmsInv
<1>1. delivery[d].attempts \in Nat /\ delivery[d].attempts <= MaxAttempts
  BY <1>a, MaxAttemptsAssumption DEF TypeOK, Row
<1>2. n \in 1 .. delivery'[d].attempts
  <2>1. delivery'[d].attempts = delivery[d].attempts
           \/ delivery'[d].attempts = delivery[d].attempts + 1
    BY <1>a, AttemptSteps DEF SmsInv
  <2> QED
    BY <1>1, <2>1
<1>3. sms'[d][n] > 0
  <2>1. n \in 1 .. MaxAttempts /\ sms[d][n] \in Nat
    BY <1>a, <1>1, MaxAttemptsAssumption DEF TypeOK
  <2>2. CASE sms' = sms
    BY <2>2
  <2>3. ASSUME NEW p \in Procs, NEW c \in Deliveries, SendSms(p, c)
        PROVE  sms'[d][n] > 0
    <3> DEFINE m == job[p][c].attempt
               sent == [sms[c] EXCEPT ![m] = sms[c][m] + 1]
    <3>1. sms' = [sms EXCEPT ![c] = sent]
      BY <2>3 DEF SendSms
    <3>2. sms \in [Deliveries -> [1 .. MaxAttempts -> Nat]]
      BY <1>a DEF TypeOK
    <3>3. c = d => sent[n] = sms[d][n] \/ sent[n] = sms[d][n] + 1
      <4>1. sms[c] \in [1 .. MaxAttempts -> Nat]
        BY <3>2
      <4> HIDE DEF m
      <4> QED
        BY <2>1, <4>1
    <3> HIDE DEF sent
    <3>4. sms'[d] = IF c = d THEN sent ELSE sms[d]
      BY <3>1, <3>2
    <3> QED
      BY <2>1, <3>3, <3>4
  <2> QED
    BY <2>2, <2>3, CalmSteps DEF Calm, Claim
<1> QED
  BY <1>2, <1>3

\* Nothing is marked as sent unless it was: whichever worker writes the success
\* of a row, some claim of the row has sent its SMS (processClaimedRow).
THEOREM ProcessedSent == Spec => []ProcessedWasSent
<1>1. Init => SmsInv /\ ProcessedWasSent
  BY InitSmsInv DEF Init, ProcessedWasSent, AbsentRow
<1>2. SmsInv /\ ProcessedWasSent /\ [Next]_vars => (SmsInv /\ ProcessedWasSent)'
  <2> SUFFICES ASSUME SmsInv, ProcessedWasSent, [Next]_vars,
                      NEW d \in Deliveries, delivery'[d].status = "PROCESSED"
               PROVE  \E n \in 1 .. delivery'[d].attempts : sms'[d][n] > 0
    BY StepSmsInv DEF ProcessedWasSent
  <2>1. StatusStep(d)
    BY StatusSteps DEF SmsInv
  <2>2. CASE delivery[d].status = "PROCESSED"
    <3>1. PICK n \in 1 .. delivery[d].attempts : sms[d][n] > 0
      BY <2>2 DEF ProcessedWasSent
    <3> QED
      BY <3>1, SmsStay
  <2>3. CASE \E p \in Procs : job[p][d].stage = "sent"
    <3>1. PICK p \in Procs : job[p][d].stage = "sent"
      BY <2>3
    <3>2. job[p][d].attempt \in 1 .. delivery[d].attempts /\ sms[d][job[p][d].attempt] > 0
      BY <3>1 DEF SmsInv, JobHolds
    <3> QED
      BY <3>2, SmsStay
  <2> QED
    BY <2>1, <2>2, <2>3 DEF StatusStep, IsOpen, OpenStatuses
<1>3. SmsInv /\ ProcessedWasSent => ProcessedWasSent
  OBVIOUS
<1> QED
  BY <1>1, <1>2, <1>3, PTL DEF Spec
=============================================================================
