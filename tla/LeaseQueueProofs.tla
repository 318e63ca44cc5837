-------------------------- MODULE LeaseQueueProofs --------------------------
(*************************************************************************)
(* What the writes of LeaseQueue make of a row, for the proofs of both   *)
(* relays.                                                               *)
(*************************************************************************)
EXTENDS LeaseQueue, TLAPS

\* Every write a relay makes to a row leaves a row; a claim needs budget left.
LEMMA RowWrites ==
    ASSUME NEW row \in Row, NEW n \in Nat, NEW fatal \in BOOLEAN
    PROVE  /\ Swept(row) \in Row
           /\ Processed(row) \in Row
           /\ AfterFailure(row, n, fatal) \in Row
           /\ [row EXCEPT !.due = "now"] \in Row
           /\ Claimable(row) => Claimed(row) \in Row
<1>1. /\ Swept(row) \in Row
      /\ Processed(row) \in Row
      /\ Failed(row) \in Row
      /\ BackedOff(row) \in Row
      /\ [row EXCEPT !.due = "now"] \in Row
  BY DEF Row, Statuses, Dues, Swept, Processed, Failed, BackedOff
<1>2. AfterFailure(row, n, fatal) \in Row
  BY <1>1 DEF AfterFailure
<1>3. ASSUME Claimable(row) PROVE Claimed(row) \in Row
  BY <1>3, MaxAttemptsAssumption
  DEF Row, Statuses, Dues, Claimable, Claimed
<1> QED
  BY <1>1, <1>2, <1>3

\* What the failure of an attempt can do to a row: nothing, unless the row was
\* PROCESSING; then it is FAILED or PENDING, with the attempts it had.
LEMMA FailureWrites ==
    ASSUME NEW row \in Row, NEW n \in Nat, NEW fatal \in BOOLEAN
    PROVE  LET after == AfterFailure(row, n, fatal)
           IN  /\ after.attempts = row.attempts
               /\ row.status # "PROCESSING" => after = row
               /\ row.status = "PROCESSING" => after.status \in {"FAILED", "PENDING"}
<1>1. /\ Failed(row).attempts = row.attempts
      /\ Failed(row).status = "FAILED"
      /\ BackedOff(row).attempts = row.attempts
      /\ BackedOff(row).status = "PENDING"
  BY DEF Row, Failed, BackedOff
<1> QED
  BY <1>1 DEF AfterFailure

LEMMA InitialRows == AbsentRow \in Row /\ NewRow \in Row
  BY MaxAttemptsAssumption DEF Row, AbsentRow, NewRow, Statuses, Dues

\* A sweep takes some of the rows it may take.
LEMMA SomeOf ==
    ASSUME NEW S, NEW n, NEW T \in AnyOf(S, n) PROVE T \subseteq S
  BY DEF AnyOf
=============================================================================
