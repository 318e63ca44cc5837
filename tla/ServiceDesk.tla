----------------------------- MODULE ServiceDesk -----------------------------
(***************************************************************************)
(* What the ticket workflow promises, without assignment rows, versions or *)
(* locks: a ticket is offered to one technician at a time; only that       *)
(* technician accepts or refuses the offer, starts and finishes the work;  *)
(* operations may withdraw an offer until it is accepted and may step in   *)
(* while the work is going on; a closed or cancelled ticket stays so.      *)
(***************************************************************************)
CONSTANTS Tickets, Technicians, Operators, Customers, Nobody

VARIABLES
    stage,      \* stage[t]: how far ticket t is
    assignee,   \* assignee[t]: the technician it is offered to or works on it
    movedBy     \* movedBy[t]: who made the last move on record

deskVars == <<stage, assignee, movedBy>>

Init ==
    /\ stage = [t \in Tickets |-> "none"]
    /\ assignee = [t \in Tickets |-> Nobody]
    /\ movedBy = [t \in Tickets |-> Nobody]

Move(t, from, to, who, by) ==
    /\ stage[t] \in from
    /\ stage' = [stage EXCEPT ![t] = to]
    /\ assignee' = [assignee EXCEPT ![t] = who]
    /\ movedBy' = [movedBy EXCEPT ![t] = by]

Open(t, u) == Move(t, {"none"}, "open", Nobody, u)
Triage(t, u) == Move(t, {"open"}, "triaged", Nobody, u)
Cancel(t, u) == Move(t, {"open", "triaged"}, "cancelled", Nobody, u)
Withdraw(t, u) == Move(t, {"offered"}, "cancelled", Nobody, u)
Offer(t, w, u) == Move(t, {"triaged", "refused"}, "offered", w, u)
OfferAnother(t, w) == Move(t, {"offered"}, "offered", w, movedBy[t])
Accept(t) == Move(t, {"offered"}, "accepted", assignee[t], assignee[t])
Refuse(t) == Move(t, {"offered"}, "refused", Nobody, assignee[t])
Start(t) == Move(t, {"accepted"}, "working", assignee[t], assignee[t])
Work(t, u) ==
    /\ u \in {assignee[t]} \cup Operators
    /\ Move(t, {"working"}, "working", assignee[t], u)
Finish(t) == Move(t, {"working"}, "done", Nobody, assignee[t])
Close(t, u) == Move(t, {"done"}, "closed", Nobody, u)

Next ==
    \E t \in Tickets :
        \/ \E u \in Operators \cup Customers : Open(t, u) \/ Cancel(t, u)
        \/ \E u \in Operators : Triage(t, u) \/ Withdraw(t, u) \/ Work(t, u) \/ Close(t, u)
        \/ \E w \in Technicians : OfferAnother(t, w) \/ \E u \in Operators : Offer(t, w, u)
        \/ Accept(t) \/ Refuse(t) \/ Start(t) \/ Work(t, assignee[t]) \/ Finish(t)

Spec == Init /\ [][Next]_deskVars
=============================================================================
