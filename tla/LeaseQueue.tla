----------------------------- MODULE LeaseQueue -----------------------------
(**************************************************************************)
(* One row of a work queue kept in a database table, as the two relays of *)
(* the notifications module keep theirs (outbox_events and                *)
(* notification_deliveries): a status, the number of claims so far        *)
(* (attempt_count), and the time before which nobody may claim the row    *)
(* (next_attempt_at).                                                     *)
(*                                                                        *)
(* Clock time is abstracted to what the queries compare: next_attempt_at  *)
(* is NULL ("none"), in the future ("later") or in the past ("now").      *)
(**************************************************************************)
EXTENDS Naturals, FiniteSets

CONSTANTS
    MaxAttempts,   \* OUTBOX_MAX_ATTEMPTS: claims a row may have
    BatchSize      \* OUTBOX_RELAY_BATCH_SIZE: rows one claim may take

ASSUME MaxAttemptsAssumption == MaxAttempts \in Nat \ {0}
ASSUME BatchSizeAssumption == BatchSize \in Nat \ {0}

Statuses == {"ABSENT", "PENDING", "PROCESSING", "PROCESSED", "FAILED"}
OpenStatuses == {"PENDING", "PROCESSING"}
Dues == {"none", "later", "now"}

Row == [status : Statuses, attempts : 0 .. MaxAttempts, due : Dues]

\* A row nobody has inserted yet, and one just inserted.
AbsentRow == [status |-> "ABSENT", attempts |-> 0, due |-> "none"]
NewRow == [status |-> "PENDING", attempts |-> 0, due |-> "none"]

IsOpen(row) == row.status \in OpenStatuses
IsDue(row) == row.due # "later"

\* Faulty variants, which the properties of the relays must tell from the code:
\* a sweep that forgets that a row is already FAILED, or settled at all, and one
\* that waits for an attempt nobody may make.
ExhaustedUnlessSent(row) ==
    row.status \notin {"ABSENT", "PROCESSED"} /\ row.attempts >= MaxAttempts /\ IsDue(row)
ExhaustedAnyStatus(row) == row.attempts >= MaxAttempts /\ IsDue(row)
ExhaustedTooLate(row) == IsOpen(row) /\ row.attempts > MaxAttempts /\ IsDue(row)

\* The WHERE of claimBatch and the WHERE of sweepExhausted.
Claimable(row) == IsOpen(row) /\ row.attempts < MaxAttempts /\ IsDue(row)
Exhausted(row) == IsOpen(row) /\ row.attempts >= MaxAttempts /\ IsDue(row)

\* A faulty variant: the attempt is left to be counted when its result is known.
ClaimedUncounted(row) ==
    [status |-> "PROCESSING", attempts |-> row.attempts, due |-> "later"]

\* The SET of claimBatch: the claim itself consumes an attempt and starts a lease.
Claimed(row) ==
    [status |-> "PROCESSING", attempts |-> row.attempts + 1, due |-> "later"]

\* The SET of sweepExhausted; next_attempt_at is left as it is.
Swept(row) == [row EXCEPT !.status = "FAILED"]

\* The three results a worker writes.
Processed(row) == [row EXCEPT !.status = "PROCESSED", !.due = "none"]
Failed(row) == [row EXCEPT !.status = "FAILED", !.due = "none"]
BackedOff(row) == [row EXCEPT !.status = "PENDING", !.due = "later"]

\* What the failure of attempt n of the row writes: nothing unless the row is
\* still PROCESSING, FAILED when the budget is spent or the error is fatal.  (The
\* unguarded form is a faulty variant.)
GivesUp(n, fatal) == fatal \/ n >= MaxAttempts
AfterFailureUnguarded(row, n, fatal) ==
    IF GivesUp(n, fatal) THEN Failed(row) ELSE BackedOff(row)
AfterFailure(row, n, fatal) ==
    IF row.status # "PROCESSING" THEN row
    ELSE IF GivesUp(n, fatal) THEN Failed(row) ELSE BackedOff(row)

\* ORDER BY created_at LIMIT n over a set of row numbers given in creation order.
Oldest(S, n) == {r \in S : Cardinality({s \in S : s < r}) < n}

\* LIMIT n without an order: any n rows of S, or all of them when there are fewer.
AnyOf(S, n) ==
    {T \in SUBSET S : \/ Cardinality(T) = n
                      \/ T = S /\ Cardinality(S) < n}
=============================================================================
