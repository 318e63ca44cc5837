--------------------------- MODULE BillingCalendar ---------------------------
(***************************************************************************)
(* The dates of contracts and invoices, as day numbers in UTC.  A contract *)
(* runs from its first to its last day, both included; an invoice bills a  *)
(* period whose last day is excluded.                                      *)
(***************************************************************************)
EXTENDS Integers

NoDay == -1   \* a date that is not set

\* daterange(..., '[]') && daterange(..., '[]'), and the same with '[)'.
RangesMeet(s1, e1, s2, e2) == s1 <= e2 /\ s2 <= e1
PeriodsMeet(s1, e1, s2, e2) == s1 < e2 /\ s2 < e1

\* computeBillableWindowEnd: the day after the last one that may be billed.
WindowEnd(end, terminated) ==
    IF terminated # NoDay /\ terminated < end THEN terminated + 1 ELSE end + 1
=============================================================================
