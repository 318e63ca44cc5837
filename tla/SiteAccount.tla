----------------------------- MODULE SiteAccount -----------------------------
(***************************************************************************)
(* What contracts and invoices promise to a site, without transactions,    *)
(* constraints or scans: no two contracts serve it on one day; a term that *)
(* has begun only grows until the contract closes, and then stands; a day  *)
(* of a contract is charged once at a time, and a charge stands, whatever  *)
(* becomes of the contract, until it is cancelled.                         *)
(***************************************************************************)
CONSTANTS Contracts, Invoices, Days

VARIABLES
    service,   \* service[c]: "none", "running", "paused" or "over"
    term,      \* term[c]: the days of service under c that may be charged
    bill,      \* bill[i]: the state of invoice i
    charge     \* charge[i]: what i charges, days of one contract

vars == <<service, term, bill, charge>>

Serving == {"running", "paused"}

Init ==
    /\ service = [c \in Contracts |-> "none"]
    /\ term = [c \in Contracts |-> {}]
    /\ bill = [i \in Invoices |-> "ABSENT"]
    /\ charge = [i \in Invoices |-> {}]

\* Nobody else serves the site on these days.
Alone(c, days) ==
    \A d \in Contracts \ {c} : service[d] \in Serving => term[d] \cap days = {}

Becomes(c, status, days) ==
    /\ service' = [service EXCEPT ![c] = status]
    /\ term' = [term EXCEPT ![c] = days]
    /\ UNCHANGED <<bill, charge>>

Begin(c) ==
    /\ service[c] = "none"
    /\ \E days \in SUBSET Days : Alone(c, days) /\ Becomes(c, "running", days)

\* It is paused, resumed or prolonged.
GoOn(c) ==
    /\ service[c] \in Serving
    /\ \E days \in SUBSET Days, status \in Serving :
          term[c] \subseteq days /\ Alone(c, days) /\ Becomes(c, status, days)

\* It may close early, but not before what it has been charged for.
Close(c) ==
    /\ service[c] # "over"
    /\ \E days \in SUBSET Days :
          /\ \A i \in Invoices, e \in Days : <<c, e>> \in charge[i] => e \in days
          /\ Becomes(c, "over", days)

Bill(i, c) ==
    /\ bill[i] = "ABSENT" /\ service[c] \in {"running", "over"}
    /\ \E days \in (SUBSET term[c]) \ {{}} :
          /\ \A j \in Invoices : charge[j] \cap ({c} \X days) = {}
          /\ charge' = [charge EXCEPT ![i] = {c} \X days]
    /\ bill' = [bill EXCEPT ![i] = "DRAFT"]
    /\ UNCHANGED <<service, term>>

Advances ==
    {<<"DRAFT", "ISSUED">>, <<"ISSUED", "OVERDUE">>, <<"ISSUED", "PAID">>, <<"OVERDUE", "PAID">>}
Advance(i) ==
    /\ \E move \in Advances :
          bill[i] = move[1] /\ bill' = [bill EXCEPT ![i] = move[2]]
    /\ UNCHANGED <<service, term, charge>>

Cancel(i) ==
    /\ bill[i] \in {"DRAFT", "ISSUED", "OVERDUE"}
    /\ bill' = [bill EXCEPT ![i] = "CANCELLED"]
    /\ charge' = [charge EXCEPT ![i] = {}]
    /\ UNCHANGED <<service, term>>

Next ==
    \/ \E c \in Contracts : Begin(c) \/ GoOn(c) \/ Close(c)
    \/ \E i \in Invoices : Advance(i) \/ Cancel(i) \/ \E c \in Contracts : Bill(i, c)

Spec == Init /\ [][Next]_vars
=============================================================================
