--------------------------- MODULE TicketWorkflow ---------------------------
(****************************************************************************)
(* Tickets and their assignments: TicketService, TicketTransitionService    *)
(* and TicketAssignmentWorkflowService.                                     *)
(*                                                                          *)
(* Every handler but create runs in one transaction that first locks the    *)
(* ticket row FOR UPDATE and reads the assignment row under that lock, so   *)
(* each is one action here; the caller chose its ticket or assignment from  *)
(* what it read earlier, so a call may come at any moment.  create reads    *)
(* the site's contract before its transaction starts, and is two actions.   *)
(*                                                                          *)
(* Memberships and the activity of technicians may change at any time and   *)
(* nothing below remembers them: a check of them either lets a call through *)
(* or ends it without a trace, so it appears here as no guard.  The audit   *)
(* and outbox rows each handler adds are left out: nothing here reads them, *)
(* and OutboxRelay begins with the latter.                                  *)
(****************************************************************************)
EXTENDS Naturals, FiniteSets

CONSTANTS
    Tickets,          \* tickets of one site
    Technicians, Operators, Managers, Residents,   \* users, by role
    Nobody,           \* no user
    Contracts,        \* contracts of the site
    NoContract,       \* no contract is active
    MaxAssignments,   \* bound: assignment rows ever created
    MaxVersion        \* bound: version of a ticket

Users == Technicians \cup Operators \cup Managers \cup Residents

ASSUME RolesAssumption ==
    /\ Technicians \cap (Operators \cup Managers \cup Residents) = {}
    /\ Operators \cap (Managers \cup Residents) = {}
    /\ Managers \cap Residents = {}
    /\ Nobody \notin Users
ASSUME ContractsAssumption == NoContract \notin Contracts
ASSUME MaxAssignmentsAssumption == MaxAssignments \in Nat
ASSUME MaxVersionAssumption == MaxVersion \in Nat \ {0}

VARIABLES
    ticket,      \* ticket[t]: row of tickets
    movedBy,     \* movedBy[t]: changed_by_user_id of its last history row
    assignment,  \* assignment[a]: row of assignments
    contract,    \* the contract findActiveForSite returns now
    draft,       \* draft[t]: what create has read before its transaction
    seen         \* seen[t]: ticket t as a client last read it

vars == <<ticket, movedBy, assignment, contract, draft, seen>>

Assignments == 1 .. MaxAssignments

TicketStatuses ==
    {"OPEN", "TRIAGED", "ASSIGNED", "REJECTED", "ACCEPTED", "EN_ROUTE", "ARRIVED",
     "IN_PROGRESS", "WAITING_MATERIAL", "COMPLETED", "CLOSED", "CANCELLED"}
\* URGENT is left out: no code tells it from STANDARD.
Urgencies == {"STANDARD", "EMERGENCY"}

\* version: the column plus one, so that 0 is left for a row that does not exist;
\* terms: the contract sla_target_at was computed from.
Ticket ==
    [status : TicketStatuses \cup {"ABSENT"}, version : 0 .. MaxVersion,
     creator : Users \cup {Nobody}, urgency : Urgencies,
     terms : Contracts \cup {NoContract}]
AbsentTicket ==
    [status |-> "ABSENT", version |-> 0, creator |-> Nobody,
     urgency |-> "STANDARD", terms |-> NoContract]

LiveStatuses == {"PENDING", "ACCEPTED", "ACTIVE"}
FinalStatuses == {"REJECTED", "COMPLETED", "CANCELLED", "REASSIGNED"}
Stamps == {"acceptedAt", "rejectedAt", "enRouteAt", "arrivedAt", "startedAt", "completedAt"}

\* stamps: the time columns that are not NULL; materials: it has material rows.
\* The ticket of an absent row is arbitrary and means nothing.
Assignment ==
    [status : LiveStatuses \cup FinalStatuses \cup {"ABSENT"}, ticket : Tickets,
     technician : Technicians \cup {Nobody}, current : BOOLEAN,
     stamps : SUBSET Stamps, materials : BOOLEAN]

Drafts == [creator : Users \cup {Nobody}, urgency : Urgencies,
           terms : Contracts \cup {NoContract}]
NoDraft == [creator |-> Nobody, urgency |-> "STANDARD", terms |-> NoContract]

IsLive(a) == assignment[a].status \in LiveStatuses
LiveOf(t) == {a \in Assignments : assignment[a].ticket = t /\ IsLive(a)}

TypeOK ==
    /\ ticket \in [Tickets -> Ticket]
    /\ movedBy \in [Tickets -> Users \cup {Nobody}]
    /\ assignment \in [Assignments -> Assignment]
    /\ contract \in Contracts \cup {NoContract}
    /\ draft \in [Tickets -> Drafts]
    /\ seen \in [Tickets -> Ticket]

Init ==
    /\ ticket = [t \in Tickets |-> AbsentTicket]
    /\ movedBy = [t \in Tickets |-> Nobody]
    /\ \E t \in Tickets : assignment =
          [a \in Assignments |->
              [status |-> "ABSENT", ticket |-> t, technician |-> Nobody,
               current |-> FALSE, stamps |-> {}, materials |-> FALSE]]
    /\ contract \in Contracts \cup {NoContract}
    /\ draft = [t \in Tickets |-> NoDraft]
    /\ seen = [t \in Tickets |-> AbsentTicket]

-----------------------------------------------------------------------------
(* The state machine of tickets. *)

\* TRANSITIONS: who may move a ticket from one status to another.
Transitions ==
    {<<"OPEN", "TRIAGED", Operators>>,
     <<"OPEN", "CANCELLED", Residents \cup Managers \cup Operators>>,
     <<"TRIAGED", "ASSIGNED", Operators>>,
     <<"TRIAGED", "CANCELLED", Managers \cup Operators>>,
     <<"ASSIGNED", "ACCEPTED", Technicians>>,
     <<"ASSIGNED", "REJECTED", Technicians>>,
     <<"ASSIGNED", "CANCELLED", Operators>>,
     <<"REJECTED", "ASSIGNED", Operators>>,
     <<"ACCEPTED", "EN_ROUTE", Technicians>>,
     <<"EN_ROUTE", "ARRIVED", Technicians>>,
     <<"ARRIVED", "IN_PROGRESS", Technicians>>,
     <<"IN_PROGRESS", "WAITING_MATERIAL", Technicians \cup Operators>>,
     <<"IN_PROGRESS", "COMPLETED", Technicians>>,
     <<"WAITING_MATERIAL", "IN_PROGRESS", Technicians \cup Operators>>,
     <<"COMPLETED", "CLOSED", Operators>>,
     <<"COMPLETED", "IN_PROGRESS", Operators>>}

\* requiresReason: the moves that need one, even from a role that may make them.
NeedsReason ==
    {<<"OPEN", "CANCELLED">>, <<"TRIAGED", "CANCELLED">>, <<"ASSIGNED", "CANCELLED">>,
     <<"ASSIGNED", "REJECTED">>, <<"COMPLETED", "IN_PROGRESS">>}

\* DIRECT_TRANSITIONS: the moves the ticket endpoints may make.
DirectTransitions ==
    {<<"OPEN", "TRIAGED">>, <<"OPEN", "CANCELLED">>, <<"TRIAGED", "CANCELLED">>,
     <<"COMPLETED", "CLOSED">>}

\* assertTransition
MayMove(u, from, to, reason) ==
    /\ \E r \in Transitions : r[1] = from /\ r[2] = to /\ u \in r[3]
    /\ <<from, to>> \in NeedsReason => reason

\* applyStatusTransition: the one place that moves a ticket.
ApplyStatusTransition(u, t, to, reason) ==
    /\ MayMove(u, ticket[t].status, to, reason)
    /\ ticket[t].version < MaxVersion
    /\ ticket' = [ticket EXCEPT ![t] = [@ EXCEPT !.status = to, !.version = ticket[t].version + 1]]
    /\ movedBy' = [movedBy EXCEPT ![t] = u]

-----------------------------------------------------------------------------
(* TicketService *)

\* create, before its transaction: the contract is read, and SLA computed from it.
PrepareTicket(u, t, urgency) ==
    /\ u \in Residents \cup Managers \cup Operators
    /\ ticket[t].status = "ABSENT" /\ draft[t] = NoDraft
    /\ contract # NoContract
    /\ draft' = [draft EXCEPT ![t] =
          [creator |-> u, urgency |-> urgency, terms |-> contract]]
    /\ UNCHANGED <<ticket, movedBy, assignment, contract, seen>>

\* The transaction of create; it may fail, and then nothing is left of it.
InsertTicket(t) ==
    /\ draft[t] # NoDraft
    /\ ticket' = [ticket EXCEPT ![t] =
          [status |-> "OPEN", version |-> 1, creator |-> draft[t].creator,
           urgency |-> draft[t].urgency, terms |-> draft[t].terms]]
    /\ movedBy' = [movedBy EXCEPT ![t] = draft[t].creator]
    /\ draft' = [draft EXCEPT ![t] = NoDraft]
    /\ UNCHANGED <<assignment, contract, seen>>

InsertTicketFails(t) ==
    /\ draft[t] # NoDraft
    /\ draft' = [draft EXCEPT ![t] = NoDraft]
    /\ UNCHANGED <<ticket, movedBy, assignment, contract, seen>>

\* changeStatus is an endpoint of operations, cancel also one of customers; a
\* resident only sees tickets of their own (assertCanRead).
MayMoveDirectly(u, t, to) ==
    /\ \/ u \in Operators
       \/ to = "CANCELLED" /\ u \in Managers
       \/ to = "CANCELLED" /\ u \in Residents /\ ticket[t].creator = u
    /\ <<ticket[t].status, to>> \in DirectTransitions

MoveDirectly(u, t, to, reason) ==
    /\ MayMoveDirectly(u, t, to)
    /\ ApplyStatusTransition(u, t, to, reason)
    /\ UNCHANGED <<assignment, contract, draft, seen>>

\* assertCanUpdateFields, for a change of content.
MayEdit(u, t) ==
    \/ u \in Operators
    \/ u \in Managers /\ ticket[t].status \in {"OPEN", "TRIAGED"}
    \/ u \in Residents /\ ticket[t].creator = u /\ ticket[t].status = "OPEN"

\* A real change of urgency computes the SLA anew, from the contract of the moment.
TermsAfter(row, urgency) == IF urgency # row.urgency THEN contract ELSE row.terms

\* A faulty variant: an edit leaves the version to the moves.
EditTicketUnversioned(u, t, urgency) ==
    /\ ticket[t].status # "ABSENT" /\ MayEdit(u, t)
    /\ seen[t].version = ticket[t].version
    /\ ticket' = [ticket EXCEPT ![t] =
          [@ EXCEPT !.urgency = urgency, !.terms = TermsAfter(ticket[t], urgency)]]
    /\ UNCHANGED <<movedBy, assignment, contract, draft, seen>>

\* update: refused unless the client has the current version.
EditTicket(u, t, urgency) ==
    /\ ticket[t].status # "ABSENT" /\ MayEdit(u, t)
    /\ seen[t].version = ticket[t].version
    /\ ticket[t].version < MaxVersion
    /\ ticket' = [ticket EXCEPT ![t] =
          [@ EXCEPT !.urgency = urgency, !.version = ticket[t].version + 1,
                    !.terms = TermsAfter(ticket[t], urgency)]]
    /\ UNCHANGED <<movedBy, assignment, contract, draft, seen>>

\* GET /tickets/:id
ReadTicket(t) ==
    /\ ticket[t].status # "ABSENT"
    /\ seen' = [seen EXCEPT ![t] = ticket[t]]
    /\ UNCHANGED <<ticket, movedBy, assignment, contract, draft>>

-----------------------------------------------------------------------------
(* TicketAssignmentWorkflowService *)

NewAssignment(t, w) ==
    [status |-> "PENDING", ticket |-> t, technician |-> w, current |-> TRUE,
     stamps |-> {}, materials |-> FALSE]

\* A faulty variant: the superseded assignment stays open to its technician.
SupersededOpen(row, ticketStatus) == [row EXCEPT !.current = FALSE]

\* supersede: a rejected assignment keeps its status.
Superseded(row, ticketStatus) ==
    [row EXCEPT !.current = FALSE,
                !.status = IF ticketStatus = "ASSIGNED" THEN "REASSIGNED" ELSE row.status]

\* Faulty variant of MayAssign: a refused ticket is not offered again.
MayAssignOnce(u, t) ==
    u \in Operators /\ ticket[t].status \in {"TRIAGED", "ASSIGNED"}

MayAssign(u, t) ==
    u \in Operators /\ ticket[t].status \in {"TRIAGED", "REJECTED", "ASSIGNED"}

AssignTechnician(u, t, w) ==
    /\ MayAssign(u, t)
    /\ \E a \in Assignments :
          /\ assignment[a].status = "ABSENT"
          /\ \A b \in Assignments : b < a => assignment[b].status # "ABSENT"
          /\ assignment' = [b \in Assignments |->
                IF b = a THEN NewAssignment(t, w)
                ELSE IF assignment[b].ticket = t /\ assignment[b].current
                     THEN Superseded(assignment[b], ticket[t].status)
                     ELSE assignment[b]]
    /\ IF ticket[t].status = "ASSIGNED"
       THEN UNCHANGED <<ticket, movedBy>>
       ELSE ApplyStatusTransition(u, t, "ASSIGNED", FALSE)
    /\ UNCHANGED <<contract, draft, seen>>

\* Faulty variants: acceptance without a look at the assignment's status, or at
\* whose it is; a rejection that leaves is_current set.
AcceptAnyStatus(u, a) ==
    /\ assignment[a].technician = u
    /\ ApplyStatusTransition(u, assignment[a].ticket, "ACCEPTED", FALSE)
    /\ assignment' = [assignment EXCEPT ![a] =
          [@ EXCEPT !.status = "ACCEPTED", !.stamps = assignment[a].stamps \cup {"acceptedAt"}]]
    /\ UNCHANGED <<contract, draft, seen>>
AcceptForAnother(u, a) ==
    /\ assignment[a].status = "PENDING"
    /\ ApplyStatusTransition(u, assignment[a].ticket, "ACCEPTED", FALSE)
    /\ assignment' = [assignment EXCEPT ![a] =
          [@ EXCEPT !.status = "ACCEPTED", !.stamps = assignment[a].stamps \cup {"acceptedAt"}]]
    /\ UNCHANGED <<contract, draft, seen>>
RejectStillCurrent(u, a) ==
    /\ assignment[a].technician = u /\ assignment[a].status = "PENDING"
    /\ ApplyStatusTransition(u, assignment[a].ticket, "REJECTED", TRUE)
    /\ assignment' = [assignment EXCEPT ![a] =
          [@ EXCEPT !.status = "REJECTED", !.stamps = assignment[a].stamps \cup {"rejectedAt"}]]
    /\ UNCHANGED <<contract, draft, seen>>

MayAnswer(u, a) == assignment[a].technician = u /\ assignment[a].status = "PENDING"

Accept(u, a) ==
    /\ MayAnswer(u, a)
    /\ ApplyStatusTransition(u, assignment[a].ticket, "ACCEPTED", FALSE)
    /\ assignment' = [assignment EXCEPT ![a] =
          [@ EXCEPT !.status = "ACCEPTED", !.stamps = assignment[a].stamps \cup {"acceptedAt"}]]
    /\ UNCHANGED <<contract, draft, seen>>

Reject(u, a) ==
    /\ MayAnswer(u, a)
    /\ ApplyStatusTransition(u, assignment[a].ticket, "REJECTED", TRUE)
    /\ assignment' = [assignment EXCEPT ![a] =
          [@ EXCEPT !.status = "REJECTED", !.stamps = assignment[a].stamps \cup {"rejectedAt"},
                    !.current = FALSE]]
    /\ UNCHANGED <<contract, draft, seen>>

\* ASSIGNMENT_STATUS_EVENTS
Rule(from, to, ticketTo, stamps) ==
    [from |-> from, to |-> to, ticketTo |-> ticketTo, stamps |-> stamps]
\* (The unstamped variant is faulty: ARRIVED sets no time.)
StatusEvents == {"EN_ROUTE", "ARRIVED", "START", "WAIT_MATERIAL", "RESUME", "COMPLETE"}
StatusEventRuleUnstamped(event) ==
    CASE event = "EN_ROUTE" -> Rule("ACCEPTED", "ACTIVE", "EN_ROUTE", {"enRouteAt"})
      [] event = "ARRIVED" -> Rule("ACTIVE", "ACTIVE", "ARRIVED", {})
      [] event = "START" -> Rule("ACTIVE", "ACTIVE", "IN_PROGRESS", {"startedAt"})
      [] event = "WAIT_MATERIAL" -> Rule("ACTIVE", "ACTIVE", "WAITING_MATERIAL", {})
      [] event = "RESUME" -> Rule("ACTIVE", "ACTIVE", "IN_PROGRESS", {})
      [] event = "COMPLETE" -> Rule("ACTIVE", "COMPLETED", "COMPLETED", {"completedAt"})
StatusEventRule(event) ==
    CASE event = "EN_ROUTE" -> Rule("ACCEPTED", "ACTIVE", "EN_ROUTE", {"enRouteAt"})
      [] event = "ARRIVED" -> Rule("ACTIVE", "ACTIVE", "ARRIVED", {"arrivedAt"})
      [] event = "START" -> Rule("ACTIVE", "ACTIVE", "IN_PROGRESS", {"startedAt"})
      [] event = "WAIT_MATERIAL" -> Rule("ACTIVE", "ACTIVE", "WAITING_MATERIAL", {})
      [] event = "RESUME" -> Rule("ACTIVE", "ACTIVE", "IN_PROGRESS", {})
      [] event = "COMPLETE" -> Rule("ACTIVE", "COMPLETED", "COMPLETED", {"completedAt"})

\* applyStatusEvent: a technician only acts on an assignment of their own.
MayReport(u, a, event) ==
    /\ u \in Operators \/ u = assignment[a].technician
    /\ assignment[a].status = StatusEventRule(event).from

ApplyStatusEvent(u, a, event) ==
    LET rule == StatusEventRule(event)
    IN  /\ MayReport(u, a, event)
        /\ ApplyStatusTransition(u, assignment[a].ticket, rule.ticketTo, FALSE)
        /\ assignment' = [assignment EXCEPT ![a] =
              [@ EXCEPT !.status = rule.to,
                        !.stamps = assignment[a].stamps \cup rule.stamps,
                        !.current = IF event = "COMPLETE" THEN FALSE
                                    ELSE assignment[a].current]]
        /\ UNCHANGED <<contract, draft, seen>>

CancelAssignedTicket(u, a) ==
    /\ u \in Operators
    /\ IsLive(a)
    /\ ticket[assignment[a].ticket].status = "ASSIGNED"
    /\ ApplyStatusTransition(u, assignment[a].ticket, "CANCELLED", TRUE)
    /\ assignment' = [assignment EXCEPT ![a] =
          [@ EXCEPT !.status = "CANCELLED", !.current = FALSE]]
    /\ UNCHANGED <<contract, draft, seen>>

\* A faulty variant: materials for any assignment that is not over.
AddMaterialToLive(a) ==
    /\ IsLive(a)
    /\ assignment' = [assignment EXCEPT ![a].materials = TRUE]
    /\ UNCHANGED <<ticket, movedBy, contract, draft, seen>>

\* The caller is the assignment's technician or operations.
AddMaterial(a) ==
    /\ assignment[a].status = "ACTIVE"
    /\ assignment' = [assignment EXCEPT ![a].materials = TRUE]
    /\ UNCHANGED <<ticket, movedBy, contract, draft, seen>>

-----------------------------------------------------------------------------

\* A contract is activated, suspended, expires or is terminated.
ChangeContract ==
    /\ contract' \in Contracts \cup {NoContract}
    /\ UNCHANGED <<ticket, movedBy, assignment, draft, seen>>

TicketCalls(t) ==
    \/ \E u \in Users, urgency \in Urgencies :
          PrepareTicket(u, t, urgency) \/ EditTicket(u, t, urgency)
    \/ InsertTicket(t)
    \/ InsertTicketFails(t)
    \/ \E u \in Users, to \in TicketStatuses, reason \in BOOLEAN :
          MoveDirectly(u, t, to, reason)
    \/ ReadTicket(t)
    \/ \E u \in Operators, w \in Technicians : AssignTechnician(u, t, w)

AssignmentCalls(a) ==
    \/ \E u \in Technicians : Accept(u, a) \/ Reject(u, a)
    \/ \E u \in Technicians \cup Operators, event \in StatusEvents :
          ApplyStatusEvent(u, a, event)
    \/ \E u \in Operators : CancelAssignedTicket(u, a)
    \/ AddMaterial(a)

Next ==
    \/ \E t \in Tickets : TicketCalls(t)
    \/ \E a \in Assignments : AssignmentCalls(a)
    \/ ChangeContract

Spec == Init /\ [][Next]_vars

-----------------------------------------------------------------------------
(* Properties *)

\* The status the live assignment of a ticket in this status has.
ExpectedLive(ticketStatus) ==
    IF ticketStatus = "ASSIGNED" THEN {"PENDING"}
    ELSE IF ticketStatus = "ACCEPTED" THEN {"ACCEPTED"}
    ELSE IF ticketStatus \in {"EN_ROUTE", "ARRIVED", "IN_PROGRESS", "WAITING_MATERIAL"}
    THEN {"ACTIVE"}
    ELSE {}

\* The two state machines never drift apart, whatever calls arrive late or
\* twice: a ticket has one live assignment exactly while somebody has to work on
\* it, that assignment is in the matching status, and any other is final.
StatusesAgree ==
    \A t \in Tickets :
        LET expected == ExpectedLive(ticket[t].status)
        IN  /\ {assignment[a].status : a \in LiveOf(t)} = expected
            /\ \A a, b \in LiveOf(t) : a = b

\* is_current marks the live assignment and no other: findCurrentForUpdate and
\* the unique index on it see what the status says.
CurrentIsLive == \A a \in Assignments : assignment[a].current <=> IsLive(a)

\* Ticket, assignment and the mark never disagree on who has to do what (assignTechnician,
\* accept, reject, applyStatusEvent, cancelAssignedTicket).
AssignmentFollowsTicket == StatusesAgree /\ CurrentIsLive

\* A rejected, completed, cancelled or superseded assignment is history: no late
\* call of its technician, of operations or for its materials changes the row.
OutcomesAreFinal ==
    [][\A a \in Assignments :
          assignment[a].status \in FinalStatuses => assignment'[a] = assignment[a]]_vars

\* Work that consumed materials is never taken away from its technician: its
\* assignment goes on or was completed.
MaterialsStayWithWork ==
    \A a \in Assignments : assignment[a].materials =>
        assignment[a].status \in {"ACTIVE", "COMPLETED"}

\* A version names one state of the ticket row, so that a client whose version
\* is accepted overwrites nothing it has not seen (update, updateStatus).
VersionNamesState ==
    \A t \in Tickets : seen[t].version = ticket[t].version => seen[t] = ticket[t]

\* The time columns tell how far the work went: no event is skipped on the way
\* to the site, and an assignment is completed only after all of them.
VisitIsStamped ==
    \A a \in Assignments :
        /\ assignment[a].status = "ACTIVE" => {"acceptedAt", "enRouteAt"} \subseteq assignment[a].stamps
        /\ assignment[a].status = "COMPLETED" =>
              {"acceptedAt", "enRouteAt", "arrivedAt", "completedAt"} \subseteq assignment[a].stamps

\* The workflow is the service desk of ServiceDesk: one assignee at a time, and
\* only the assignee (or operations, while the work goes on) moves the ticket.
StageOf(s) ==
    CASE s = "ABSENT" -> "none"
      [] s = "OPEN" -> "open"
      [] s = "TRIAGED" -> "triaged"
      [] s = "ASSIGNED" -> "offered"
      [] s = "REJECTED" -> "refused"
      [] s = "ACCEPTED" -> "accepted"
      [] s \in {"EN_ROUTE", "ARRIVED", "IN_PROGRESS", "WAITING_MATERIAL"} -> "working"
      [] s = "COMPLETED" -> "done"
      [] s = "CLOSED" -> "closed"
      [] s = "CANCELLED" -> "cancelled"
AssigneeOf(t) ==
    IF LiveOf(t) = {} THEN Nobody
    ELSE assignment[CHOOSE a \in LiveOf(t) : TRUE].technician

Desk == INSTANCE ServiceDesk WITH
    stage <- [t \in Tickets |-> StageOf(ticket[t].status)],
    assignee <- [t \in Tickets |-> AssigneeOf(t)],
    Customers <- Managers \cup Residents

ImplementsDesk == Desk!Spec

\* User u has an operation that moves ticket t on.
MovesOn(u, t) ==
    \/ /\ MayAssign(u, t)
       /\ ticket[t].status = "ASSIGNED" \/ MayMove(u, ticket[t].status, "ASSIGNED", FALSE)
    \/ \E to \in TicketStatuses :
          MayMoveDirectly(u, t, to) /\ MayMove(u, ticket[t].status, to, TRUE)
    \/ \E a \in LiveOf(t) :
          \/ MayAnswer(u, a) /\ MayMove(u, ticket[t].status, "ACCEPTED", FALSE)
          \/ \E event \in StatusEvents :
                /\ MayReport(u, a, event)
                /\ MayMove(u, ticket[t].status, StatusEventRule(event).ticketTo, FALSE)

\* No ticket gets stuck between the two state machines: operations can always move it
\* on until a technician has accepted it and once the work is done.  In between it is
\* that technician's alone, but that operations may put the work on hold and take it up
\* again: if the technician is deactivated then, nobody takes the ticket over
\* (TRANSITIONS, assignTechnician, applyStatusEvent).
NoDeadEnd ==
    \A t \in Tickets :
        LET status == ticket[t].status
            movers == {u \in Users : MovesOn(u, t)}
        IN  CASE status \in {"ABSENT", "CLOSED", "CANCELLED"} -> movers = {}
              [] status \in {"ACCEPTED", "EN_ROUTE", "ARRIVED"} ->
                    AssigneeOf(t) \in Technicians /\ movers = {AssigneeOf(t)}
              [] status \in {"IN_PROGRESS", "WAITING_MATERIAL"} ->
                    AssigneeOf(t) \in Technicians /\ movers = {AssigneeOf(t)} \cup Operators
              [] OTHER -> Operators \subseteq movers

\* The handoff document: ARRIVED becomes IN_PROGRESS by START, which sets
\* startedAt, so work that is completed has started.  (RESUME makes the same move
\* and sets nothing.)
CompletedWorkStarted ==
    \A a \in Assignments :
        assignment[a].status = "COMPLETED" => "startedAt" \in assignment[a].stamps

\* The overrides document: the SLA target is only computed from the contract of
\* the moment the ticket was created.  (update computes it again.)
SlaOfFirstContract ==
    [][\A t \in Tickets :
          ticket[t].status # "ABSENT" => ticket'[t].terms = ticket[t].terms]_vars
=============================================================================
