------------------------ MODULE TicketWorkflowProofs ------------------------
(*****************************************************************************)
(* Proofs about TicketWorkflow, for any number of tickets, users, contracts  *)
(* and assignments.  All of them rest on one inductive invariant, Inv: the   *)
(* statuses of a ticket and its assignments agree, is_current marks the live *)
(* assignment, and a ticket that is being created does not exist yet.        *)
(*****************************************************************************)
EXTENDS TicketWorkflow, TLAPS

DraftsAreNew == \A t \in Tickets : draft[t] # NoDraft => ticket[t].status = "ABSENT"

\* What a client has read is the row of an older version, or the row itself.
ReadsAreOld ==
    \A t \in Tickets :
        /\ seen[t].version <= ticket[t].version
        /\ seen[t].version = ticket[t].version => seen[t] = ticket[t]
        /\ ticket[t].status = "ABSENT" => ticket[t].version = 0

Inv ==
    /\ TypeOK
    /\ DraftsAreNew
    /\ ReadsAreOld
    /\ StatusesAgree
    /\ CurrentIsLive
    /\ MaterialsStayWithWork

(*****************************************************************************)
(* The agreement of statuses, restated row by row                            *)
(*****************************************************************************)

LiveIn(rows, t, a) == rows[a].ticket = t /\ rows[a].status \in LiveStatuses

\* The live rows of ticket t: one, with the expected status, or none.
AgreeOn(rows, t, expected) ==
    /\ \A a \in Assignments : LiveIn(rows, t, a) => rows[a].status \in expected
    /\ expected # {} => \E a \in Assignments : LiveIn(rows, t, a)
    /\ \A a, b \in Assignments : LiveIn(rows, t, a) /\ LiveIn(rows, t, b) => a = b

\* At most one status is expected of the live assignment.
LEMMA ExpectedIsOne ==
    ASSUME NEW s
    PROVE  ExpectedLive(s) = {} \/ \E l \in LiveStatuses : ExpectedLive(s) = {l}
  BY DEF ExpectedLive, LiveStatuses

\* The set form of the agreement, as StatusesAgree has it, and its row form.
LEMMA SetForm ==
    ASSUME NEW rows, NEW t, NEW s,
           NEW live, live = {a \in Assignments : LiveIn(rows, t, a)}
    PROVE  AgreeOn(rows, t, ExpectedLive(s)) <=>
              /\ {rows[a].status : a \in live} = ExpectedLive(s)
              /\ \A a, b \in live : a = b
<1> DEFINE E == ExpectedLive(s)
<1>1. E = {} \/ \E l \in LiveStatuses : E = {l}
  BY ExpectedIsOne
<1> HIDE DEF E
<1>2. ASSUME AgreeOn(rows, t, E)
      PROVE  {rows[a].status : a \in live} = E /\ \A a, b \in live : a = b
  BY <1>1, <1>2 DEF AgreeOn, LiveIn
<1>3. ASSUME {rows[a].status : a \in live} = E, \A a, b \in live : a = b
      PROVE  AgreeOn(rows, t, E)
  <2>1. \A a \in Assignments : LiveIn(rows, t, a) => rows[a].status \in E
    BY <1>3
  <2>2. E # {} => \E a \in Assignments : LiveIn(rows, t, a)
    BY <1>3
  <2>3. \A a, b \in Assignments : LiveIn(rows, t, a) /\ LiveIn(rows, t, b) => a = b
    BY <1>3
  <2> QED
    BY <2>1, <2>2, <2>3 DEF AgreeOn
<1> QED
  BY <1>2, <1>3 DEF E

LEMMA AgreeByRow ==
    StatusesAgree <=> \A t \in Tickets : AgreeOn(assignment, t, ExpectedLive(ticket[t].status))
<1>1. \A t \in Tickets : LiveOf(t) = {a \in Assignments : LiveIn(assignment, t, a)}
  BY DEF LiveOf, LiveIn, IsLive
<1>2. \A t \in Tickets : AgreeOn(assignment, t, ExpectedLive(ticket[t].status)) <=>
          /\ {assignment[a].status : a \in LiveOf(t)} = ExpectedLive(ticket[t].status)
          /\ \A a, b \in LiveOf(t) : a = b
  BY <1>1, SetForm
<1> QED
  BY <1>2 DEF StatusesAgree

LEMMA AgreeByRowNext ==
    StatusesAgree' <=>
        \A t \in Tickets : AgreeOn(assignment', t, ExpectedLive(ticket'[t].status))
<1>1. \A t \in Tickets : LiveOf(t)' = {a \in Assignments : LiveIn(assignment', t, a)}
  BY DEF LiveOf, LiveIn, IsLive
<1>2. \A t \in Tickets : AgreeOn(assignment', t, ExpectedLive(ticket'[t].status)) <=>
          /\ {assignment'[a].status : a \in LiveOf(t)'} = ExpectedLive(ticket'[t].status)
          /\ \A a, b \in LiveOf(t)' : a = b
  BY <1>1, SetForm
<1> QED
  BY <1>2 DEF StatusesAgree

(*****************************************************************************)
(* Moves of a ticket                                                         *)
(*****************************************************************************)

\* What every move does to the row of a ticket.
Moved(t, to) ==
    /\ t \in Tickets /\ to \in TicketStatuses
    /\ ticket[t].status # "ABSENT"
    /\ ticket[t].version < MaxVersion
    /\ ticket' = [ticket EXCEPT ![t] = [@ EXCEPT !.status = to, !.version = ticket[t].version + 1]]

LEMMA MovedRow ==
    ASSUME TypeOK, NEW t, NEW to, Moved(t, to)
    PROVE  /\ ticket' \in [Tickets -> Ticket]
           /\ ticket'[t].status = to
           /\ ticket'[t].version = ticket[t].version + 1
           /\ \A s \in Tickets : s # t => ticket'[s] = ticket[s]
<1> DEFINE row == [ticket[t] EXCEPT !.status = to, !.version = ticket[t].version + 1]
<1>1. ticket[t] \in Ticket /\ t \in Tickets
  BY DEF TypeOK, Moved
<1>2. row \in Ticket /\ row.status = to /\ row.version = ticket[t].version + 1
  <2>1. to \in TicketStatuses /\ ticket[t].version < MaxVersion
    BY DEF Moved
  <2>2. ticket[t].version + 1 \in 0 .. MaxVersion
    BY <1>1, <2>1, MaxVersionAssumption DEF Ticket
  <2> QED
    BY <1>1, <2>1, <2>2 DEF Ticket
<1>3. ticket' = [ticket EXCEPT ![t] = row]
  BY DEF Moved
<1> HIDE DEF row
<1>4. \A s \in Tickets : ticket'[s] = IF s = t THEN row ELSE ticket[s]
  BY <1>3 DEF TypeOK
<1>5. ticket' \in [Tickets -> Ticket]
  BY <1>2, <1>3 DEF TypeOK
<1> QED
  BY <1>1, <1>2, <1>4, <1>5

\* A moved ticket existed, and so was no draft; clients have read older versions.
LEMMA MovedKeeps ==
    ASSUME Inv, NEW t, NEW to, Moved(t, to), UNCHANGED <<draft, seen>>
    PROVE  DraftsAreNew' /\ ReadsAreOld'
<1>1. TypeOK /\ DraftsAreNew /\ ReadsAreOld
  BY DEF Inv
<1>2. /\ ticket'[t].status = to
      /\ ticket'[t].version = ticket[t].version + 1
      /\ \A s \in Tickets : s # t => ticket'[s] = ticket[s]
  BY <1>1, MovedRow
<1>3. t \in Tickets /\ ticket[t].status # "ABSENT" /\ to # "ABSENT"
  BY DEF Moved, TicketStatuses
<1>4. DraftsAreNew'
  BY <1>1, <1>2, <1>3 DEF DraftsAreNew
<1>5. \A s \in Tickets : seen[s].version \in Nat /\ ticket[s].version \in Nat
  BY <1>1, MaxVersionAssumption DEF TypeOK, Ticket
<1>6. ReadsAreOld'
  BY <1>1, <1>2, <1>3, <1>5 DEF ReadsAreOld
<1> QED
  BY <1>4, <1>6

\* A status under which an assignment is live, or that operations assign from,
\* belongs to a ticket that exists.
LEMMA TransitionMoves ==
    ASSUME TypeOK, NEW u \in Users, NEW t \in Tickets, NEW to \in TicketStatuses,
           NEW reason, ApplyStatusTransition(u, t, to, reason),
           ticket[t].status # "ABSENT"
    PROVE  Moved(t, to) /\ movedBy' \in [Tickets -> Users \cup {Nobody}]
  BY DEF ApplyStatusTransition, Moved, TypeOK

(*****************************************************************************)
(* Steps that leave the assignments alone                                    *)
(*****************************************************************************)

\* No assignment changes, and no ticket gains or loses the need of one.
Quiet ==
    /\ assignment' = assignment
    /\ \A t \in Tickets :
          \/ ticket'[t].status = ticket[t].status
          \/ ExpectedLive(ticket[t].status) = {} /\ ExpectedLive(ticket'[t].status) = {}
    /\ TypeOK' /\ DraftsAreNew' /\ ReadsAreOld'

LEMMA PrepareIsQuiet ==
    ASSUME Inv, NEW u \in Users, NEW t \in Tickets, NEW urgency \in Urgencies,
           PrepareTicket(u, t, urgency)
    PROVE  Quiet
<1>1. TypeOK /\ DraftsAreNew /\ ReadsAreOld
  BY DEF Inv
<1> DEFINE d == [creator |-> u, urgency |-> urgency, terms |-> contract]
<1>2. d \in Drafts
  BY <1>1 DEF TypeOK, Drafts
<1>3. /\ UNCHANGED <<ticket, movedBy, assignment, contract, seen>>
      /\ ticket[t].status = "ABSENT"
      /\ draft' = [draft EXCEPT ![t] = d]
  BY DEF PrepareTicket
<1> HIDE DEF d
<1>4. draft' \in [Tickets -> Drafts] /\ \A s \in Tickets : s # t => draft'[s] = draft[s]
  BY <1>1, <1>2, <1>3 DEF TypeOK
<1>5. TypeOK'
  BY <1>1, <1>3, <1>4 DEF TypeOK
<1>6. DraftsAreNew' /\ ReadsAreOld'
  BY <1>1, <1>3, <1>4 DEF DraftsAreNew, ReadsAreOld
<1> QED
  BY <1>3, <1>5, <1>6 DEF Quiet

LEMMA InsertIsQuiet ==
    ASSUME Inv, NEW t \in Tickets, InsertTicket(t)
    PROVE  Quiet
<1>1. TypeOK /\ DraftsAreNew /\ ReadsAreOld
  BY DEF Inv
<1> DEFINE row == [status |-> "OPEN", version |-> 1, creator |-> draft[t].creator,
                   urgency |-> draft[t].urgency, terms |-> draft[t].terms]
<1>2. row \in Ticket
  BY <1>1, MaxVersionAssumption DEF TypeOK, Ticket, TicketStatuses, Drafts
<1>3. row.status = "OPEN" /\ row.version = 1
  OBVIOUS
<1>4. /\ ticket' = [ticket EXCEPT ![t] = row]
      /\ movedBy' = [movedBy EXCEPT ![t] = draft[t].creator]
      /\ draft' = [draft EXCEPT ![t] = NoDraft]
      /\ UNCHANGED <<assignment, contract, seen>>
      /\ draft[t] # NoDraft
  BY DEF InsertTicket
<1> HIDE DEF row
<1>5. /\ \A s \in Tickets : ticket'[s] = IF s = t THEN row ELSE ticket[s]
      /\ \A s \in Tickets : draft'[s] = IF s = t THEN NoDraft ELSE draft[s]
  BY <1>1, <1>4 DEF TypeOK
<1>6. ticket[t].status = "ABSENT" /\ ticket[t].version = 0
  BY <1>1, <1>4 DEF DraftsAreNew, ReadsAreOld
<1>7. NoDraft \in Drafts /\ draft[t].creator \in Users \cup {Nobody}
  BY <1>1 DEF NoDraft, Drafts, Urgencies, TypeOK
<1>8. /\ ticket' \in [Tickets -> Ticket]
      /\ movedBy' \in [Tickets -> Users \cup {Nobody}]
      /\ draft' \in [Tickets -> Drafts]
  BY <1>1, <1>2, <1>4, <1>7 DEF TypeOK
<1>9. TypeOK'
  BY <1>1, <1>4, <1>8 DEF TypeOK
<1>10. DraftsAreNew'
  BY <1>1, <1>5 DEF DraftsAreNew
<1>11. \A s \in Tickets : seen[s].version \in Nat
  BY <1>1, MaxVersionAssumption DEF TypeOK, Ticket
<1>12. ReadsAreOld'
  BY <1>1, <1>3, <1>4, <1>5, <1>6, <1>11 DEF ReadsAreOld
<1>13. \A s \in Tickets :
          \/ ticket'[s].status = ticket[s].status
          \/ ExpectedLive(ticket[s].status) = {} /\ ExpectedLive(ticket'[s].status) = {}
  BY <1>3, <1>5, <1>6 DEF ExpectedLive
<1> QED
  BY <1>4, <1>9, <1>10, <1>12, <1>13 DEF Quiet

LEMMA InsertFailsIsQuiet ==
    ASSUME Inv, NEW t \in Tickets, InsertTicketFails(t)
    PROVE  Quiet
<1>1. TypeOK /\ DraftsAreNew /\ ReadsAreOld
  BY DEF Inv
<1>2. /\ draft' = [draft EXCEPT ![t] = NoDraft]
      /\ UNCHANGED <<ticket, movedBy, assignment, contract, seen>>
  BY DEF InsertTicketFails
<1>3. NoDraft \in Drafts
  BY <1>1 DEF NoDraft, Drafts, Urgencies, TypeOK
<1>4. draft' \in [Tickets -> Drafts]
  BY <1>1, <1>2, <1>3 DEF TypeOK
<1>5. TypeOK'
  BY <1>1, <1>2, <1>4 DEF TypeOK
<1>6. DraftsAreNew' /\ ReadsAreOld'
  BY <1>1, <1>2 DEF DraftsAreNew, ReadsAreOld, TypeOK
<1> QED
  BY <1>2, <1>5, <1>6 DEF Quiet

LEMMA MoveDirectlyIsQuiet ==
    ASSUME Inv, NEW u \in Users, NEW t \in Tickets, NEW to \in TicketStatuses,
           NEW reason, MoveDirectly(u, t, to, reason)
    PROVE  Quiet
<1>1. TypeOK
  BY DEF Inv
<1>2. /\ <<ticket[t].status, to>> \in DirectTransitions
      /\ ApplyStatusTransition(u, t, to, reason)
      /\ UNCHANGED <<assignment, contract, draft, seen>>
  BY DEF MoveDirectly, MayMoveDirectly
<1>3. /\ ticket[t].status \in {"OPEN", "TRIAGED", "COMPLETED"}
      /\ to \in {"TRIAGED", "CANCELLED", "CLOSED"}
  BY <1>2 DEF DirectTransitions
<1>4. Moved(t, to) /\ movedBy' \in [Tickets -> Users \cup {Nobody}]
  BY <1>1, <1>2, <1>3, TransitionMoves
<1>5. /\ ticket' \in [Tickets -> Ticket]
      /\ ticket'[t].status = to
      /\ \A s \in Tickets : s # t => ticket'[s] = ticket[s]
  BY <1>1, <1>4, MovedRow
<1>6. TypeOK'
  BY <1>1, <1>2, <1>4, <1>5 DEF TypeOK
<1>7. DraftsAreNew' /\ ReadsAreOld'
  BY <1>2, <1>4, MovedKeeps
<1>8. ExpectedLive(ticket[t].status) = {} /\ ExpectedLive(to) = {}
  BY <1>3 DEF ExpectedLive
<1> QED
  BY <1>2, <1>5, <1>6, <1>7, <1>8 DEF Quiet

LEMMA EditIsQuiet ==
    ASSUME Inv, NEW u \in Users, NEW t \in Tickets, NEW urgency \in Urgencies,
           EditTicket(u, t, urgency)
    PROVE  Quiet
<1>1. TypeOK /\ DraftsAreNew /\ ReadsAreOld
  BY DEF Inv
<1> DEFINE terms == TermsAfter(ticket[t], urgency)
           row == [ticket[t] EXCEPT !.urgency = urgency, !.version = ticket[t].version + 1,
                                    !.terms = terms]
<1>2. ticket[t] \in Ticket /\ ticket[t].status # "ABSENT" /\ ticket[t].version < MaxVersion
  BY <1>1 DEF TypeOK, EditTicket
<1>3. terms \in Contracts \cup {NoContract}
  BY <1>1, <1>2 DEF TypeOK, Ticket, TermsAfter
<1>4. ticket[t].version + 1 \in 0 .. MaxVersion
  BY <1>2, MaxVersionAssumption DEF Ticket
<1>5. /\ ticket' = [ticket EXCEPT ![t] = row]
      /\ UNCHANGED <<movedBy, assignment, contract, draft, seen>>
  BY DEF EditTicket
<1> HIDE DEF terms
<1>6. /\ row \in Ticket
      /\ row.status = ticket[t].status
      /\ row.version = ticket[t].version + 1
  BY <1>2, <1>3, <1>4 DEF Ticket
<1> HIDE DEF row
<1>7. \A s \in Tickets : ticket'[s] = IF s = t THEN row ELSE ticket[s]
  BY <1>1, <1>5 DEF TypeOK
<1>8. TypeOK'
  BY <1>1, <1>5, <1>6 DEF TypeOK
<1>9. DraftsAreNew'
  BY <1>1, <1>2, <1>5, <1>6, <1>7 DEF DraftsAreNew
<1>10. \A s \in Tickets : seen[s].version \in Nat /\ ticket[s].version \in Nat
  BY <1>1, MaxVersionAssumption DEF TypeOK, Ticket
<1>11. ReadsAreOld'
  BY <1>1, <1>2, <1>5, <1>6, <1>7, <1>10 DEF ReadsAreOld
<1>12. \A s \in Tickets : ticket'[s].status = ticket[s].status
  BY <1>6, <1>7
<1> QED
  BY <1>5, <1>8, <1>9, <1>11, <1>12 DEF Quiet

LEMMA ReadIsQuiet ==
    ASSUME Inv, NEW t \in Tickets, ReadTicket(t)
    PROVE  Quiet
<1>1. TypeOK /\ DraftsAreNew /\ ReadsAreOld
  BY DEF Inv
<1>2. /\ seen' = [seen EXCEPT ![t] = ticket[t]]
      /\ UNCHANGED <<ticket, movedBy, assignment, contract, draft>>
  BY DEF ReadTicket
<1>3. \A s \in Tickets : seen'[s] = IF s = t THEN ticket[t] ELSE seen[s]
  BY <1>1, <1>2 DEF TypeOK
<1>4. TypeOK'
  BY <1>1, <1>2 DEF TypeOK
<1>5. \A s \in Tickets : ticket[s].version \in Nat
  BY <1>1, MaxVersionAssumption DEF TypeOK, Ticket
<1>6. DraftsAreNew' /\ ReadsAreOld'
  BY <1>1, <1>2, <1>3, <1>5 DEF DraftsAreNew, ReadsAreOld
<1> QED
  BY <1>2, <1>4, <1>6 DEF Quiet

LEMMA ContractIsQuiet ==
    ASSUME Inv, ChangeContract
    PROVE  Quiet
  BY DEF Inv, ChangeContract, Quiet, TypeOK, DraftsAreNew, ReadsAreOld

(*****************************************************************************)
(* Steps of the live assignment                                              *)
(*****************************************************************************)

\* What a row's time columns tell while its ticket has this status.
OnSite == {"ARRIVED", "IN_PROGRESS", "WAITING_MATERIAL"}
StampedAs(row, ticketStatus) ==
    /\ row.status = "ACCEPTED" => "acceptedAt" \in row.stamps
    /\ row.status = "ACTIVE" =>
          /\ {"acceptedAt", "enRouteAt"} \subseteq row.stamps
          /\ ticketStatus \in OnSite => "arrivedAt" \in row.stamps
    /\ row.status = "COMPLETED" =>
          {"acceptedAt", "enRouteAt", "arrivedAt", "completedAt"} \subseteq row.stamps
StampedSoFar ==
    \A a \in Assignments : StampedAs(assignment[a], ticket[assignment[a].ticket].status)

\* The live assignment a becomes row and its ticket moves along with it.
LiveStep(a, to, row) ==
    /\ a \in Assignments /\ IsLive(a)
    /\ row \in Assignment
    /\ row.ticket = assignment[a].ticket
    /\ {row.status} \cap LiveStatuses = ExpectedLive(to)
    /\ row.current <=> row.status \in LiveStatuses
    /\ row.materials => row.status \in {"ACTIVE", "COMPLETED"}
    /\ StampedAs(assignment[a], ticket[assignment[a].ticket].status) => StampedAs(row, to)
    /\ assignment' = [assignment EXCEPT ![a] = row]
    /\ Moved(assignment[a].ticket, to)
    /\ movedBy' \in [Tickets -> Users \cup {Nobody}]
    /\ UNCHANGED <<contract, draft, seen>>

\* A live assignment is the current one of a ticket in the matching status.
LEMMA LiveMatches ==
    ASSUME Inv, NEW a \in Assignments, IsLive(a)
    PROVE  /\ assignment[a] \in Assignment
           /\ assignment[a].ticket \in Tickets
           /\ assignment[a].current = TRUE
           /\ assignment[a].materials => assignment[a].status = "ACTIVE"
           /\ assignment[a].status \in ExpectedLive(ticket[assignment[a].ticket].status)
           /\ ticket[assignment[a].ticket].status # "ABSENT"
<1>1. assignment[a] \in Assignment /\ assignment[a].ticket \in Tickets
  BY DEF Inv, TypeOK, Assignment
<1>2. assignment[a].current = TRUE
  BY <1>1 DEF Inv, CurrentIsLive, Assignment
<1>3. assignment[a].materials => assignment[a].status = "ACTIVE"
  BY DEF Inv, MaterialsStayWithWork, IsLive, LiveStatuses
<1>4. assignment[a].status \in ExpectedLive(ticket[assignment[a].ticket].status)
  BY <1>1, AgreeByRow DEF Inv, AgreeOn, LiveIn, IsLive
<1>5. ExpectedLive("ABSENT") = {}
  BY DEF ExpectedLive
<1> QED
  BY <1>1, <1>2, <1>3, <1>4, <1>5

\* The ticket's half of a LiveStep.
LEMMA LiveMoves ==
    ASSUME Inv, NEW a \in Assignments, IsLive(a), NEW u \in Users,
           NEW to \in TicketStatuses, NEW reason,
           ApplyStatusTransition(u, assignment[a].ticket, to, reason)
    PROVE  /\ Moved(assignment[a].ticket, to)
           /\ movedBy' \in [Tickets -> Users \cup {Nobody}]
<1>1. TypeOK
  BY DEF Inv
<1> QED
  BY <1>1, LiveMatches, TransitionMoves

LEMMA AcceptIsLiveStep ==
    ASSUME Inv, NEW u \in Technicians, NEW a \in Assignments, Accept(u, a)
    PROVE  \E to, row : LiveStep(a, to, row)
<1> DEFINE row == [assignment[a] EXCEPT !.status = "ACCEPTED",
                       !.stamps = assignment[a].stamps \cup {"acceptedAt"}]
<1>1. /\ assignment[a].status = "PENDING"
      /\ ApplyStatusTransition(u, assignment[a].ticket, "ACCEPTED", FALSE)
      /\ assignment' = [assignment EXCEPT ![a] = row]
      /\ UNCHANGED <<contract, draft, seen>>
  BY DEF Accept, MayAnswer
<1>2. IsLive(a)
  BY <1>1 DEF IsLive, LiveStatuses
<1>3. /\ assignment[a] \in Assignment
      /\ assignment[a].current = TRUE
      /\ ~assignment[a].materials
  BY <1>1, <1>2, LiveMatches DEF Assignment
<1>4. /\ row \in Assignment
      /\ row.status = "ACCEPTED"
      /\ row.ticket = assignment[a].ticket
      /\ row.current = TRUE
      /\ row.materials = assignment[a].materials
      /\ "acceptedAt" \in row.stamps
  BY <1>3 DEF Assignment, LiveStatuses, Stamps
<1> HIDE DEF row
<1>5. u \in Users /\ "ACCEPTED" \in TicketStatuses
  BY DEF Users, TicketStatuses
<1>6. /\ Moved(assignment[a].ticket, "ACCEPTED")
      /\ movedBy' \in [Tickets -> Users \cup {Nobody}]
  BY <1>1, <1>2, <1>5, LiveMoves
<1>7. {row.status} \cap LiveStatuses = ExpectedLive("ACCEPTED") /\ row.status \in LiveStatuses
  BY <1>4 DEF LiveStatuses, ExpectedLive
<1>8. StampedAs(row, "ACCEPTED")
  BY <1>4 DEF StampedAs, OnSite
<1>9. LiveStep(a, "ACCEPTED", row)
  BY <1>1, <1>2, <1>3, <1>4, <1>6, <1>7, <1>8 DEF LiveStep
<1> QED
  BY <1>9

LEMMA RejectIsLiveStep ==
    ASSUME Inv, NEW u \in Technicians, NEW a \in Assignments, Reject(u, a)
    PROVE  \E to, row : LiveStep(a, to, row)
<1> DEFINE row == [assignment[a] EXCEPT !.status = "REJECTED",
                       !.stamps = assignment[a].stamps \cup {"rejectedAt"}, !.current = FALSE]
<1>1. /\ assignment[a].status = "PENDING"
      /\ ApplyStatusTransition(u, assignment[a].ticket, "REJECTED", TRUE)
      /\ assignment' = [assignment EXCEPT ![a] = row]
      /\ UNCHANGED <<contract, draft, seen>>
  BY DEF Reject, MayAnswer
<1>2. IsLive(a)
  BY <1>1 DEF IsLive, LiveStatuses
<1>3. assignment[a] \in Assignment /\ ~assignment[a].materials
  BY <1>1, <1>2, LiveMatches DEF Assignment
<1>4. /\ row \in Assignment
      /\ row.status = "REJECTED"
      /\ row.ticket = assignment[a].ticket
      /\ row.current = FALSE
      /\ row.materials = assignment[a].materials
  BY <1>3 DEF Assignment, FinalStatuses, Stamps
<1> HIDE DEF row
<1>5. u \in Users /\ "REJECTED" \in TicketStatuses
  BY DEF Users, TicketStatuses
<1>6. /\ Moved(assignment[a].ticket, "REJECTED")
      /\ movedBy' \in [Tickets -> Users \cup {Nobody}]
  BY <1>1, <1>2, <1>5, LiveMoves
<1>7. {row.status} \cap LiveStatuses = ExpectedLive("REJECTED") /\ row.status \notin LiveStatuses
  BY <1>4 DEF LiveStatuses, ExpectedLive
<1>8. StampedAs(row, "REJECTED")
  BY <1>4 DEF StampedAs, OnSite
<1>9. LiveStep(a, "REJECTED", row)
  BY <1>1, <1>2, <1>3, <1>4, <1>6, <1>7, <1>8 DEF LiveStep
<1> QED
  BY <1>9

LEMMA CancelIsLiveStep ==
    ASSUME Inv, NEW u \in Operators, NEW a \in Assignments, CancelAssignedTicket(u, a)
    PROVE  \E to, row : LiveStep(a, to, row)
<1> DEFINE row == [assignment[a] EXCEPT !.status = "CANCELLED", !.current = FALSE]
<1>1. /\ IsLive(a)
      /\ ticket[assignment[a].ticket].status = "ASSIGNED"
      /\ ApplyStatusTransition(u, assignment[a].ticket, "CANCELLED", TRUE)
      /\ assignment' = [assignment EXCEPT ![a] = row]
      /\ UNCHANGED <<contract, draft, seen>>
  BY DEF CancelAssignedTicket
<1>2. assignment[a].status = "PENDING"
  BY <1>1, LiveMatches DEF ExpectedLive
<1>3. assignment[a] \in Assignment /\ ~assignment[a].materials
  BY <1>1, <1>2, LiveMatches DEF Assignment
<1>4. /\ row \in Assignment
      /\ row.status = "CANCELLED"
      /\ row.ticket = assignment[a].ticket
      /\ row.current = FALSE
      /\ row.materials = assignment[a].materials
  BY <1>3 DEF Assignment, FinalStatuses
<1> HIDE DEF row
<1>5. u \in Users /\ "CANCELLED" \in TicketStatuses
  BY DEF Users, TicketStatuses
<1>6. /\ Moved(assignment[a].ticket, "CANCELLED")
      /\ movedBy' \in [Tickets -> Users \cup {Nobody}]
  BY <1>1, <1>5, LiveMoves
<1>7. {row.status} \cap LiveStatuses = ExpectedLive("CANCELLED") /\ row.status \notin LiveStatuses
  BY <1>4 DEF LiveStatuses, ExpectedLive
<1>8. StampedAs(row, "CANCELLED")
  BY <1>4 DEF StampedAs, OnSite
<1>9. LiveStep(a, "CANCELLED", row)
  BY <1>1, <1>3, <1>4, <1>6, <1>7, <1>8 DEF LiveStep
<1> QED
  BY <1>9

\* A rule takes an assignment that is at work to a status that agrees with the one
\* it gives the ticket.
SoundRule(rule, event) ==
    /\ rule.from \in {"ACCEPTED", "ACTIVE"}
    /\ rule.to = IF event = "COMPLETE" THEN "COMPLETED" ELSE "ACTIVE"
    /\ rule.ticketTo \in TicketStatuses
    /\ {rule.to} \cap LiveStatuses = ExpectedLive(rule.ticketTo)
    /\ rule.stamps \subseteq Stamps
    /\ rule.from = "ACCEPTED" => rule.ticketTo = "EN_ROUTE" /\ "enRouteAt" \in rule.stamps
    /\ rule.ticketTo = "ARRIVED" => "arrivedAt" \in rule.stamps
    /\ rule.to = "COMPLETED" => rule.ticketTo = "COMPLETED" /\ "completedAt" \in rule.stamps

LEMMA Rules ==
    ASSUME NEW event \in StatusEvents
    PROVE  SoundRule(StatusEventRule(event), event)
<1> DEFINE rule == StatusEventRule(event)
<1>1. ASSUME event = "EN_ROUTE" PROVE SoundRule(rule, event)
  <2>1. rule = Rule("ACCEPTED", "ACTIVE", "EN_ROUTE", {"enRouteAt"})
    BY <1>1 DEF StatusEventRule
  <2>2. /\ rule.from = "ACCEPTED" /\ rule.to = "ACTIVE"
        /\ rule.ticketTo = "EN_ROUTE" /\ rule.stamps = {"enRouteAt"}
    BY <2>1 DEF Rule
  <2> HIDE DEF rule
  <2> QED
    BY <1>1, <2>2 DEF SoundRule, TicketStatuses, LiveStatuses, ExpectedLive, Stamps
<1>2. ASSUME event = "ARRIVED" PROVE SoundRule(rule, event)
  <2>1. rule = Rule("ACTIVE", "ACTIVE", "ARRIVED", {"arrivedAt"})
    BY <1>2 DEF StatusEventRule
  <2>2. /\ rule.from = "ACTIVE" /\ rule.to = "ACTIVE"
        /\ rule.ticketTo = "ARRIVED" /\ rule.stamps = {"arrivedAt"}
    BY <2>1 DEF Rule
  <2> HIDE DEF rule
  <2> QED
    BY <1>2, <2>2 DEF SoundRule, TicketStatuses, LiveStatuses, ExpectedLive, Stamps
<1>3. ASSUME event = "START" PROVE SoundRule(rule, event)
  <2>1. rule = Rule("ACTIVE", "ACTIVE", "IN_PROGRESS", {"startedAt"})
    BY <1>3 DEF StatusEventRule
  <2>2. /\ rule.from = "ACTIVE" /\ rule.to = "ACTIVE"
        /\ rule.ticketTo = "IN_PROGRESS" /\ rule.stamps = {"startedAt"}
    BY <2>1 DEF Rule
  <2> HIDE DEF rule
  <2> QED
    BY <1>3, <2>2 DEF SoundRule, TicketStatuses, LiveStatuses, ExpectedLive, Stamps
<1>4. ASSUME event = "WAIT_MATERIAL" PROVE SoundRule(rule, event)
  <2>1. rule = Rule("ACTIVE", "ACTIVE", "WAITING_MATERIAL", {})
    BY <1>4 DEF StatusEventRule
  <2>2. /\ rule.from = "ACTIVE" /\ rule.to = "ACTIVE"
        /\ rule.ticketTo = "WAITING_MATERIAL" /\ rule.stamps = {}
    BY <2>1 DEF Rule
  <2> HIDE DEF rule
  <2> QED
    BY <1>4, <2>2 DEF SoundRule, TicketStatuses, LiveStatuses, ExpectedLive, Stamps
<1>5. ASSUME event = "RESUME" PROVE SoundRule(rule, event)
  <2>1. rule = Rule("ACTIVE", "ACTIVE", "IN_PROGRESS", {})
    BY <1>5 DEF StatusEventRule
  <2>2. /\ rule.from = "ACTIVE" /\ rule.to = "ACTIVE"
        /\ rule.ticketTo = "IN_PROGRESS" /\ rule.stamps = {}
    BY <2>1 DEF Rule
  <2> HIDE DEF rule
  <2> QED
    BY <1>5, <2>2 DEF SoundRule, TicketStatuses, LiveStatuses, ExpectedLive, Stamps
<1>6. ASSUME event = "COMPLETE" PROVE SoundRule(rule, event)
  <2>1. rule = Rule("ACTIVE", "COMPLETED", "COMPLETED", {"completedAt"})
    BY <1>6 DEF StatusEventRule
  <2>2. /\ rule.from = "ACTIVE" /\ rule.to = "COMPLETED"
        /\ rule.ticketTo = "COMPLETED" /\ rule.stamps = {"completedAt"}
    BY <2>1 DEF Rule
  <2> HIDE DEF rule
  <2> QED
    BY <1>6, <2>2 DEF SoundRule, TicketStatuses, LiveStatuses, ExpectedLive, Stamps
<1> QED
  BY <1>1, <1>2, <1>3, <1>4, <1>5, <1>6 DEF StatusEvents

\* Work only goes on, waits or ends where the technician has arrived.
LEMMA WaysOnSite ==
    ASSUME NEW u, NEW from, NEW to, NEW reason, MayMove(u, from, to, reason)
    PROVE  /\ to = "COMPLETED" => from = "IN_PROGRESS"
           /\ to = "WAITING_MATERIAL" => from = "IN_PROGRESS"
           /\ to = "IN_PROGRESS" => from \in {"ARRIVED", "WAITING_MATERIAL", "COMPLETED"}
  BY DEF MayMove, Transitions

LEMMA StatusEventIsLiveStep ==
    ASSUME Inv, NEW u \in Technicians \cup Operators, NEW a \in Assignments,
           NEW event \in StatusEvents, ApplyStatusEvent(u, a, event)
    PROVE  \E to, row : LiveStep(a, to, row)
<1> DEFINE rule == StatusEventRule(event)
           current == IF event = "COMPLETE" THEN FALSE ELSE assignment[a].current
           row == [assignment[a] EXCEPT !.status = rule.to,
                       !.stamps = assignment[a].stamps \cup rule.stamps, !.current = current]
<1>1. /\ assignment[a].status = rule.from
      /\ ApplyStatusTransition(u, assignment[a].ticket, rule.ticketTo, FALSE)
      /\ assignment' = [assignment EXCEPT ![a] = row]
      /\ UNCHANGED <<contract, draft, seen>>
  BY DEF ApplyStatusEvent, MayReport
<1> HIDE DEF rule
<1>2. SoundRule(rule, event)
  BY Rules DEF rule
<1>3. IsLive(a)
  BY <1>1, <1>2 DEF IsLive, LiveStatuses, SoundRule
<1>4. /\ assignment[a] \in Assignment
      /\ assignment[a].current = TRUE
      /\ assignment[a].materials => assignment[a].status = "ACTIVE"
  BY <1>3, LiveMatches
<1>5. current = (event # "COMPLETE")
  BY <1>4
<1>6. current \in BOOLEAN /\ rule.to \in {"ACTIVE", "COMPLETED"} /\ rule.stamps \subseteq Stamps
  BY <1>2, <1>5 DEF SoundRule
<1> HIDE DEF current
<1>7. assignment[a].stamps \cup rule.stamps \in SUBSET Stamps
  BY <1>4, <1>6 DEF Assignment
<1>8. /\ row \in Assignment
      /\ row.status = rule.to
      /\ row.ticket = assignment[a].ticket
      /\ row.current = current
      /\ row.materials = assignment[a].materials
      /\ row.stamps = assignment[a].stamps \cup rule.stamps
  BY <1>4, <1>6, <1>7 DEF Assignment, LiveStatuses, FinalStatuses
<1> HIDE DEF row
<1>9. u \in Users /\ rule.ticketTo \in TicketStatuses
  BY <1>2 DEF Users, SoundRule
<1>10. /\ Moved(assignment[a].ticket, rule.ticketTo)
       /\ movedBy' \in [Tickets -> Users \cup {Nobody}]
  BY <1>1, <1>3, <1>9, LiveMoves
<1>11. /\ {row.status} \cap LiveStatuses = ExpectedLive(rule.ticketTo)
       /\ row.current <=> row.status \in LiveStatuses
       /\ row.status \in {"ACTIVE", "COMPLETED"}
  BY <1>2, <1>5, <1>6, <1>8 DEF SoundRule, LiveStatuses
<1>12. ASSUME StampedAs(assignment[a], ticket[assignment[a].ticket].status)
       PROVE  StampedAs(row, rule.ticketTo)
  <2> DEFINE s == ticket[assignment[a].ticket].status
  <2>1. MayMove(u, s, rule.ticketTo, FALSE)
    BY <1>1 DEF ApplyStatusTransition
  <2>2. s # "COMPLETED"
    BY <1>3, LiveMatches DEF ExpectedLive
  <2> HIDE DEF s
  <2>3. rule.ticketTo \in OnSite => "arrivedAt" \in rule.stamps \/ s \in OnSite
    BY <1>2, <2>1, <2>2, WaysOnSite DEF SoundRule, OnSite
  <2>4. rule.ticketTo = "COMPLETED" => s \in OnSite
    BY <2>1, WaysOnSite DEF OnSite
  <2> QED
    BY <1>1, <1>2, <1>8, <1>11, <1>12, <2>3, <2>4 DEF StampedAs, SoundRule, OnSite, s
<1>13. LiveStep(a, rule.ticketTo, row)
  BY <1>1, <1>3, <1>8, <1>10, <1>11, <1>12 DEF LiveStep
<1> QED
  BY <1>13

\* A LiveStep keeps the invariant.
LEMMA LiveStepKeepsInv ==
    ASSUME Inv, NEW a, NEW to, NEW row, LiveStep(a, to, row)
    PROVE  Inv'
<1>1. /\ TypeOK
      /\ a \in Assignments /\ IsLive(a)
      /\ row \in Assignment
      /\ row.ticket = assignment[a].ticket
      /\ {row.status} \cap LiveStatuses = ExpectedLive(to)
      /\ row.current <=> row.status \in LiveStatuses
      /\ row.materials => row.status \in {"ACTIVE", "COMPLETED"}
      /\ Moved(assignment[a].ticket, to)
      /\ UNCHANGED <<contract, draft, seen>>
  BY DEF Inv, LiveStep
<1> DEFINE T == assignment[a].ticket
<1>2. T \in Tickets
  BY <1>1 DEF Moved
<1>3. /\ ticket' \in [Tickets -> Ticket]
      /\ ticket'[T].status = to
      /\ \A s \in Tickets : s # T => ticket'[s] = ticket[s]
  BY <1>1, MovedRow
<1>4. /\ assignment' \in [Assignments -> Assignment]
      /\ \A b \in Assignments : assignment'[b] = IF b = a THEN row ELSE assignment[b]
  BY <1>1 DEF LiveStep, TypeOK
<1>5. TypeOK'
  BY <1>1, <1>3, <1>4 DEF TypeOK, LiveStep
<1>6. DraftsAreNew' /\ ReadsAreOld'
  BY <1>1, MovedKeeps
<1>7. CurrentIsLive'
  BY <1>1, <1>4 DEF Inv, CurrentIsLive, IsLive
<1>8. MaterialsStayWithWork'
  BY <1>1, <1>4 DEF Inv, MaterialsStayWithWork
<1>9. ASSUME NEW t \in Tickets
      PROVE  AgreeOn(assignment', t, ExpectedLive(ticket'[t].status))
  <2>1. AgreeOn(assignment, t, ExpectedLive(ticket[t].status))
    BY AgreeByRow DEF Inv
  <2>2. CASE t # T
    <3>1. ticket'[t] = ticket[t]
      BY <1>3, <2>2
    <3>2. \A b \in Assignments :
             /\ LiveIn(assignment', t, b) <=> LiveIn(assignment, t, b)
             /\ LiveIn(assignment, t, b) => assignment'[b] = assignment[b]
      BY <1>1, <1>4, <2>2 DEF LiveIn
    <3> QED
      BY <2>1, <3>1, <3>2 DEF AgreeOn
  <2>3. CASE t = T
    <3>1. LiveIn(assignment, t, a)
      BY <1>1, <2>3 DEF LiveIn, IsLive
    <3>2. \A b \in Assignments : LiveIn(assignment, t, b) => b = a
      BY <1>1, <2>1, <3>1 DEF AgreeOn
    <3>3. \A b \in Assignments : LiveIn(assignment', t, b) => b = a
      BY <1>4, <3>2 DEF LiveIn
    <3>4. LiveIn(assignment', t, a) <=> row.status \in LiveStatuses
      BY <1>1, <1>4, <2>3 DEF LiveIn
    <3>5. assignment'[a].status = row.status /\ ticket'[t].status = to
      BY <1>1, <1>3, <1>4, <2>3
    <3>6. ExpectedLive(to) = IF row.status \in LiveStatuses THEN {row.status} ELSE {}
      BY <1>1
    <3> QED
      BY <1>1, <3>3, <3>4, <3>5, <3>6 DEF AgreeOn
  <2> QED
    BY <2>2, <2>3
<1>10. StatusesAgree'
  BY <1>9, AgreeByRowNext
<1> QED
  BY <1>5, <1>6, <1>7, <1>8, <1>10 DEF Inv

\* So does a quiet step.
LEMMA QuietKeepsInv ==
    ASSUME Inv, Quiet
    PROVE  Inv'
<1>1. CurrentIsLive' /\ MaterialsStayWithWork'
  BY DEF Inv, Quiet, CurrentIsLive, MaterialsStayWithWork, IsLive
<1>2. \A t \in Tickets : AgreeOn(assignment', t, ExpectedLive(ticket'[t].status))
  BY AgreeByRow DEF Inv, Quiet
<1>3. StatusesAgree'
  BY <1>2, AgreeByRowNext
<1> QED
  BY <1>1, <1>3 DEF Inv, Quiet

(*****************************************************************************)
(* A new assignment, and materials                                           *)
(*****************************************************************************)

\* The rows after a new one, a, was made for ticket t: the live rows of t gave way.
AssignedAnew(t, w, a) ==
    /\ t \in Tickets /\ w \in Technicians
    /\ a \in Assignments
    /\ assignment[a].status = "ABSENT"
    /\ ticket[t].status \in {"TRIAGED", "REJECTED", "ASSIGNED"}
    /\ assignment' = [b \in Assignments |->
          IF b = a THEN NewAssignment(t, w)
          ELSE IF assignment[b].ticket = t /\ assignment[b].current
               THEN Superseded(assignment[b], ticket[t].status)
               ELSE assignment[b]]

\* AssignTechnician makes such a row, and its ticket is ASSIGNED afterwards.
LEMMA AssignIsNew ==
    ASSUME Inv, NEW u \in Operators, NEW t \in Tickets, NEW w \in Technicians,
           AssignTechnician(u, t, w)
    PROVE  /\ \E a \in Assignments : AssignedAnew(t, w, a)
           /\ ticket' \in [Tickets -> Ticket]
           /\ movedBy' \in [Tickets -> Users \cup {Nobody}]
           /\ ticket'[t].status = "ASSIGNED"
           /\ \A s \in Tickets : s # t => ticket'[s] = ticket[s]
           /\ DraftsAreNew' /\ ReadsAreOld'
           /\ UNCHANGED <<contract, draft, seen>>
<1>1. TypeOK /\ DraftsAreNew /\ ReadsAreOld
  BY DEF Inv
<1>2. UNCHANGED <<contract, draft, seen>>
  BY DEF AssignTechnician, MayAssign
<1>3. \E a \in Assignments : AssignedAnew(t, w, a)
  BY DEF AssignTechnician, MayAssign, AssignedAnew
<1>4. CASE ticket[t].status = "ASSIGNED"
  <2>1. UNCHANGED <<ticket, movedBy>>
    BY <1>4 DEF AssignTechnician, MayAssign
  <2> QED
    BY <1>1, <1>2, <1>3, <1>4, <2>1 DEF TypeOK, DraftsAreNew, ReadsAreOld
<1>5. CASE ticket[t].status # "ASSIGNED"
  <2>1. ApplyStatusTransition(u, t, "ASSIGNED", FALSE) /\ ticket[t].status # "ABSENT"
    BY <1>5 DEF AssignTechnician, MayAssign
  <2>2. u \in Users /\ "ASSIGNED" \in TicketStatuses
    BY DEF Users, TicketStatuses
  <2>3. Moved(t, "ASSIGNED") /\ movedBy' \in [Tickets -> Users \cup {Nobody}]
    BY <1>1, <2>1, <2>2, TransitionMoves
  <2>4. /\ ticket' \in [Tickets -> Ticket]
        /\ ticket'[t].status = "ASSIGNED"
        /\ \A s \in Tickets : s # t => ticket'[s] = ticket[s]
    BY <1>1, <2>3, MovedRow
  <2>5. DraftsAreNew' /\ ReadsAreOld'
    BY <1>2, <2>3, MovedKeeps
  <2> QED
    BY <1>2, <1>3, <2>3, <2>4, <2>5
<1> QED
  BY <1>4, <1>5

\* What becomes of the other rows: a live row of t was PENDING, and gives way.
Kept(t, b) == ~LiveIn(assignment, t, b) /\ assignment'[b] = assignment[b]
GaveWay(t, b) ==
    /\ LiveIn(assignment, t, b)
    /\ assignment[b].status = "PENDING"
    /\ assignment'[b].ticket = t
    /\ assignment'[b].status = "REASSIGNED"
    /\ assignment'[b].current = FALSE
    /\ assignment'[b].materials = FALSE

\* The rows after an assignment of t that wrote the fresh row a.
RowsAfter(t, a) ==
    /\ assignment' \in [Assignments -> Assignment]
    /\ assignment'[a].ticket = t
    /\ assignment'[a].status = "PENDING"
    /\ assignment'[a].current = TRUE
    /\ assignment'[a].materials = FALSE
    /\ \A b \in Assignments : b = a \/ Kept(t, b) \/ GaveWay(t, b)

LEMMA RowsAssignedAnew ==
    ASSUME Inv, NEW t, NEW w, NEW a, AssignedAnew(t, w, a)
    PROVE  RowsAfter(t, a)
<1>1. /\ t \in Tickets /\ w \in Technicians /\ a \in Assignments
      /\ ticket[t].status \in {"TRIAGED", "REJECTED", "ASSIGNED"}
      /\ \A b \in Assignments : assignment'[b] =
            IF b = a THEN NewAssignment(t, w)
            ELSE IF assignment[b].ticket = t /\ assignment[b].current
                 THEN Superseded(assignment[b], ticket[t].status)
                 ELSE assignment[b]
  BY DEF AssignedAnew
<1>2. /\ NewAssignment(t, w) \in Assignment
      /\ NewAssignment(t, w).ticket = t
      /\ NewAssignment(t, w).status = "PENDING"
      /\ NewAssignment(t, w).current = TRUE
      /\ NewAssignment(t, w).materials = FALSE
  BY <1>1 DEF NewAssignment, Assignment, LiveStatuses
<1>3. ASSUME NEW b \in Assignments, b # a
      PROVE  /\ assignment'[b] \in Assignment
             /\ Kept(t, b) \/ GaveWay(t, b)
  <2>1. assignment[b] \in Assignment
    BY DEF Inv, TypeOK
  <2>2. assignment[b].current <=> assignment[b].status \in LiveStatuses
    BY DEF Inv, CurrentIsLive, IsLive
  <2>3. CASE LiveIn(assignment, t, b)
    <3>1. IsLive(b) /\ assignment[b].ticket = t
      BY <2>3 DEF LiveIn, IsLive
    <3>2. /\ assignment[b].status \in ExpectedLive(ticket[t].status)
          /\ assignment[b].materials => assignment[b].status = "ACTIVE"
      BY <3>1, LiveMatches
    <3>3. ticket[t].status = "ASSIGNED" /\ assignment[b].status = "PENDING"
      BY <1>1, <3>2 DEF ExpectedLive
    <3>4. assignment[b].materials = FALSE
      BY <2>1, <3>2, <3>3 DEF Assignment
    <3>5. assignment'[b] = Superseded(assignment[b], "ASSIGNED")
      BY <1>1, <1>3, <2>2, <2>3, <3>3 DEF LiveIn
    <3> DEFINE row == Superseded(assignment[b], "ASSIGNED")
    <3>6. row = [assignment[b] EXCEPT !.current = FALSE, !.status = "REASSIGNED"]
      BY DEF Superseded
    <3>7. /\ row \in Assignment
          /\ row.ticket = t
          /\ row.status = "REASSIGNED"
          /\ row.current = FALSE
          /\ row.materials = FALSE
      BY <2>1, <3>1, <3>4, <3>6 DEF Assignment, FinalStatuses
    <3> HIDE DEF row
    <3> QED
      BY <2>3, <3>3, <3>5, <3>7 DEF row, GaveWay
  <2>4. CASE ~LiveIn(assignment, t, b)
    <3>1. assignment'[b] = assignment[b]
      BY <1>1, <1>3, <2>2, <2>4 DEF LiveIn
    <3> QED
      BY <2>1, <2>4, <3>1 DEF Kept
  <2> QED
    BY <2>3, <2>4
<1>4. \A b \in Assignments : assignment'[b] \in Assignment
  BY <1>1, <1>2, <1>3
<1>5. assignment' \in [Assignments -> Assignment]
  BY <1>4 DEF AssignedAnew
<1>6. \A b \in Assignments : b = a \/ Kept(t, b) \/ GaveWay(t, b)
  BY <1>3
<1> QED
  BY <1>1, <1>2, <1>5, <1>6 DEF RowsAfter

\* So AssignTechnician keeps the invariant.
LEMMA AssignKeepsInv ==
    ASSUME Inv, NEW u \in Operators, NEW t \in Tickets, NEW w \in Technicians,
           AssignTechnician(u, t, w)
    PROVE  Inv'
<1>1. /\ ticket' \in [Tickets -> Ticket]
      /\ movedBy' \in [Tickets -> Users \cup {Nobody}]
      /\ ticket'[t].status = "ASSIGNED"
      /\ \A s \in Tickets : s # t => ticket'[s] = ticket[s]
      /\ DraftsAreNew' /\ ReadsAreOld'
      /\ UNCHANGED <<contract, draft, seen>>
  BY AssignIsNew
<1>2. PICK a \in Assignments : AssignedAnew(t, w, a)
  BY AssignIsNew
<1>3. /\ assignment' \in [Assignments -> Assignment]
      /\ assignment'[a].ticket = t
      /\ assignment'[a].status = "PENDING"
      /\ assignment'[a].current = TRUE
      /\ assignment'[a].materials = FALSE
      /\ \A b \in Assignments : b = a \/ Kept(t, b) \/ GaveWay(t, b)
  <2>1. RowsAfter(t, a)
    BY <1>2, RowsAssignedAnew, Zenon
  <2> QED
    BY <2>1 DEF RowsAfter
<1>4. "REASSIGNED" \notin LiveStatuses /\ "PENDING" \in LiveStatuses
  BY DEF LiveStatuses
<1>5. TypeOK'
  BY <1>1, <1>3 DEF Inv, TypeOK
<1>6. CurrentIsLive'
  BY <1>3, <1>4 DEF Inv, CurrentIsLive, IsLive, Kept, GaveWay
<1>7. MaterialsStayWithWork'
  BY <1>3 DEF Inv, Kept, GaveWay, MaterialsStayWithWork
<1>8. ASSUME NEW s \in Tickets
      PROVE  AgreeOn(assignment', s, ExpectedLive(ticket'[s].status))
  <2>1. AgreeOn(assignment, s, ExpectedLive(ticket[s].status))
    BY AgreeByRow DEF Inv
  <2>2. CASE s = t
    <3>1. LiveIn(assignment', t, a) /\ assignment'[a].status = "PENDING"
      BY <1>3, <1>4 DEF LiveIn
    <3>2. \A b \in Assignments : LiveIn(assignment', t, b) => b = a
      BY <1>3, <1>4 DEF LiveIn, Kept, GaveWay
    <3>3. ExpectedLive(ticket'[t].status) = {"PENDING"}
      BY <1>1 DEF ExpectedLive
    <3> QED
      BY <2>2, <3>1, <3>2, <3>3 DEF AgreeOn
  <2>3. CASE s # t
    <3>1. ticket'[s] = ticket[s]
      BY <1>1, <2>3
    <3>2. ~LiveIn(assignment, s, a) /\ ~LiveIn(assignment', s, a)
      <4>1. assignment[a].status = "ABSENT"
        BY <1>2 DEF AssignedAnew
      <4> QED
        BY <1>3, <2>3, <4>1 DEF LiveIn, LiveStatuses
    <3>3. \A b \in Assignments :
             /\ LiveIn(assignment', s, b) <=> LiveIn(assignment, s, b)
             /\ LiveIn(assignment, s, b) => assignment'[b] = assignment[b]
      <4> SUFFICES ASSUME NEW b \in Assignments
                   PROVE  /\ LiveIn(assignment', s, b) <=> LiveIn(assignment, s, b)
                          /\ LiveIn(assignment, s, b) => assignment'[b] = assignment[b]
        OBVIOUS
      <4>1. CASE b = a
        BY <3>2, <4>1
      <4>2. CASE Kept(t, b)
        BY <4>2 DEF Kept, LiveIn
      <4>3. CASE GaveWay(t, b)
        BY <2>3, <4>3 DEF GaveWay, LiveIn
      <4> QED
        BY <1>3, <4>1, <4>2, <4>3
    <3> QED
      BY <2>1, <3>1, <3>3 DEF AgreeOn
  <2> QED
    BY <2>2, <2>3
<1>9. StatusesAgree'
  BY <1>8, AgreeByRowNext
<1> QED
  BY <1>1, <1>5, <1>6, <1>7, <1>9 DEF Inv

\* Materials only go to an assignment that is ACTIVE.
LEMMA MaterialKeepsInv ==
    ASSUME Inv, NEW a \in Assignments, AddMaterial(a)
    PROVE  Inv'
<1> DEFINE row == [assignment[a] EXCEPT !.materials = TRUE]
<1>1. /\ assignment[a].status = "ACTIVE"
      /\ assignment' = [assignment EXCEPT ![a] = row]
      /\ UNCHANGED <<ticket, movedBy, contract, draft, seen>>
  BY DEF AddMaterial
<1>2. assignment \in [Assignments -> Assignment]
  BY DEF Inv, TypeOK
<1>3. /\ row \in Assignment
      /\ row.ticket = assignment[a].ticket
      /\ row.status = assignment[a].status
      /\ row.current = assignment[a].current
  BY <1>2 DEF Assignment
<1> HIDE DEF row
<1>4. \A b \in Assignments : assignment'[b] = IF b = a THEN row ELSE assignment[b]
  BY <1>1, <1>2
<1>5. assignment' \in [Assignments -> Assignment]
  BY <1>1, <1>2, <1>3
<1>6. TypeOK' /\ DraftsAreNew' /\ ReadsAreOld'
  BY <1>1, <1>5 DEF Inv, TypeOK, DraftsAreNew, ReadsAreOld
<1>7. \A b \in Assignments :
         /\ assignment'[b].ticket = assignment[b].ticket
         /\ assignment'[b].status = assignment[b].status
         /\ assignment'[b].current = assignment[b].current
         /\ b # a => assignment'[b] = assignment[b]
  BY <1>3, <1>4
<1>8. CurrentIsLive'
  BY <1>7 DEF Inv, CurrentIsLive, IsLive
<1>9. MaterialsStayWithWork'
  BY <1>1, <1>7 DEF Inv, MaterialsStayWithWork
<1>10. \A t \in Tickets, b \in Assignments :
          LiveIn(assignment', t, b) <=> LiveIn(assignment, t, b)
  BY <1>7 DEF LiveIn
<1>11. \A t \in Tickets : AgreeOn(assignment', t, ExpectedLive(ticket'[t].status))
  BY <1>1, <1>7, <1>10, AgreeByRow DEF Inv, AgreeOn
<1>12. StatusesAgree'
  BY <1>11, AgreeByRowNext
<1> QED
  BY <1>6, <1>8, <1>9, <1>12 DEF Inv

(*****************************************************************************)
(* Every step, and the theorems                                              *)
(*****************************************************************************)

\* Init has no ticket and no assignment.
LEMMA InitInv ==
    ASSUME Init
    PROVE  Inv
<1>1. PICK t0 \in Tickets : assignment =
          [a \in Assignments |->
              [status |-> "ABSENT", ticket |-> t0, technician |-> Nobody,
               current |-> FALSE, stamps |-> {}, materials |-> FALSE]]
  BY DEF Init
<1>2. /\ assignment \in [Assignments -> Assignment]
      /\ \A a \in Assignments :
            /\ assignment[a].status = "ABSENT"
            /\ assignment[a].current = FALSE
            /\ assignment[a].materials = FALSE
  BY <1>1 DEF Assignment
<1>3. AbsentTicket \in Ticket /\ NoDraft \in Drafts
  BY MaxVersionAssumption DEF AbsentTicket, Ticket, NoDraft, Drafts, Urgencies
<1>4. TypeOK
  BY <1>2, <1>3 DEF Init, TypeOK
<1>5. \A t \in Tickets :
         /\ ticket[t] = AbsentTicket /\ seen[t] = AbsentTicket /\ draft[t] = NoDraft
         /\ ticket[t].status = "ABSENT" /\ ticket[t].version = 0
  BY DEF Init, AbsentTicket
<1>6. DraftsAreNew /\ ReadsAreOld
  BY <1>5 DEF DraftsAreNew, ReadsAreOld
<1>7. CurrentIsLive /\ MaterialsStayWithWork
  BY <1>2 DEF CurrentIsLive, MaterialsStayWithWork, IsLive, LiveStatuses
<1>8. \A t \in Tickets : AgreeOn(assignment, t, ExpectedLive(ticket[t].status))
  BY <1>2, <1>5 DEF AgreeOn, LiveIn, LiveStatuses, ExpectedLive
<1>9. StatusesAgree
  BY <1>8, AgreeByRow
<1> QED
  BY <1>4, <1>6, <1>7, <1>9 DEF Inv

\* There are four kinds of steps.
LEMMA StepKinds ==
    ASSUME Inv, Next
    PROVE  \/ Quiet
           \/ \E a, to, row : LiveStep(a, to, row)
           \/ \E u \in Operators, t \in Tickets, w \in Technicians : AssignTechnician(u, t, w)
           \/ \E a \in Assignments : AddMaterial(a)
<1>1. CASE ChangeContract
  BY <1>1, ContractIsQuiet
<1>2. ASSUME NEW t \in Tickets, TicketCalls(t)
      PROVE  Quiet \/ \E u \in Operators, w \in Technicians : AssignTechnician(u, t, w)
  <2>1. CASE \E u \in Users, urgency \in Urgencies :
                PrepareTicket(u, t, urgency) \/ EditTicket(u, t, urgency)
    BY <2>1, PrepareIsQuiet, EditIsQuiet
  <2>2. CASE InsertTicket(t) \/ InsertTicketFails(t) \/ ReadTicket(t)
    BY <2>2, InsertIsQuiet, InsertFailsIsQuiet, ReadIsQuiet
  <2>3. CASE \E u \in Users, to \in TicketStatuses, reason \in BOOLEAN :
                MoveDirectly(u, t, to, reason)
    BY <2>3, MoveDirectlyIsQuiet
  <2> QED
    BY <1>2, <2>1, <2>2, <2>3 DEF TicketCalls
<1>3. ASSUME NEW a \in Assignments, AssignmentCalls(a)
      PROVE  (\E b, to, row : LiveStep(b, to, row)) \/ AddMaterial(a)
  <2>1. CASE \E u \in Technicians : Accept(u, a) \/ Reject(u, a)
    BY <2>1, AcceptIsLiveStep, RejectIsLiveStep
  <2>2. CASE \E u \in Technicians \cup Operators, event \in StatusEvents :
                ApplyStatusEvent(u, a, event)
    BY <2>2, StatusEventIsLiveStep
  <2>3. CASE \E u \in Operators : CancelAssignedTicket(u, a)
    BY <2>3, CancelIsLiveStep
  <2> QED
    BY <1>3, <2>1, <2>2, <2>3 DEF AssignmentCalls
<1> QED
  BY <1>1, <1>2, <1>3 DEF Next

LEMMA StepInv ==
    ASSUME Inv, [Next]_vars
    PROVE  Inv'
<1>1. CASE Next
  BY <1>1, StepKinds, QuietKeepsInv, LiveStepKeepsInv, AssignKeepsInv, MaterialKeepsInv
<1>2. CASE UNCHANGED vars
  <2>1. Quiet
    BY <1>2 DEF Inv, vars, Quiet, TypeOK, DraftsAreNew, ReadsAreOld
  <2> QED
    BY <2>1, QuietKeepsInv
<1> QED
  BY <1>1, <1>2

\* The invariant holds in every state of every behavior.
THEOREM Invariance == Spec => []Inv
<1>1. Init => Inv
  BY InitInv
<1>2. Inv /\ [Next]_vars => Inv'
  BY StepInv
<1> QED
  BY <1>1, <1>2, PTL DEF Spec

\* Every row keeps the shape its table gives it, through every handler.
THEOREM TypeCorrect == Spec => []TypeOK
<1>1. Inv => TypeOK
  BY DEF Inv
<1> QED
  BY <1>1, Invariance, PTL

\* Tickets and assignments, moved by different services, never drift apart: a
\* ticket has exactly one live assignment, in the matching status, while somebody
\* has to work on it, and none otherwise; and is_current, which the unique index and
\* findCurrentForUpdate rely on, marks that assignment and no other.
THEOREM AssignmentFollows == Spec => []AssignmentFollowsTicket
<1>1. Inv => AssignmentFollowsTicket
  BY DEF Inv, AssignmentFollowsTicket
<1> QED
  BY <1>1, Invariance, PTL

\* No call takes work that consumed materials away from its technician.
THEOREM MaterialsAlwaysStay == Spec => []MaterialsStayWithWork
<1>1. Inv => MaterialsStayWithWork
  BY DEF Inv
<1> QED
  BY <1>1, Invariance, PTL

\* Optimistic locking is sound: a client that holds the current version of a
\* ticket holds its current row.
THEOREM VersionsNameStates == Spec => []VersionNamesState
<1>1. Inv => VersionNamesState
  BY DEF Inv, ReadsAreOld, VersionNamesState
<1> QED
  BY <1>1, Invariance, PTL

\* An assignment that was rejected, completed, cancelled or superseded never
\* changes again.
THEOREM FinalOutcomes == Spec => OutcomesAreFinal
<1> DEFINE Stay == \A a \in Assignments :
                        assignment[a].status \in FinalStatuses => assignment'[a] = assignment[a]
<1>1. ASSUME Inv, Next PROVE Stay
  <2> SUFFICES ASSUME NEW a \in Assignments, assignment[a].status \in FinalStatuses
               PROVE  assignment'[a] = assignment[a]
    OBVIOUS
  <2>1. /\ assignment \in [Assignments -> Assignment]
        /\ assignment[a].status \notin LiveStatuses \cup {"ABSENT"}
    BY <1>1 DEF Inv, TypeOK, FinalStatuses, LiveStatuses
  <2>2. CASE Quiet
    BY <2>2 DEF Quiet
  <2>3. ASSUME NEW b, NEW to, NEW row, LiveStep(b, to, row) PROVE assignment'[a] = assignment[a]
    BY <2>1, <2>3 DEF LiveStep, IsLive
  <2>4. ASSUME NEW u \in Operators, NEW t \in Tickets, NEW w \in Technicians,
               AssignTechnician(u, t, w)
        PROVE  assignment'[a] = assignment[a]
    <3>1. PICK b \in Assignments : AssignedAnew(t, w, b)
      BY <1>1, <2>4, AssignIsNew
    <3>2. a # b
      BY <2>1, <3>1 DEF AssignedAnew
    <3>3. RowsAfter(t, b)
      BY <1>1, <3>1, RowsAssignedAnew, Zenon
    <3>4. ~GaveWay(t, a)
      BY <2>1 DEF GaveWay, LiveIn
    <3> QED
      BY <3>2, <3>3, <3>4 DEF RowsAfter, Kept
  <2>5. ASSUME NEW b \in Assignments, AddMaterial(b) PROVE assignment'[a] = assignment[a]
    BY <2>1, <2>5 DEF AddMaterial, LiveStatuses
  <2> QED
    BY <1>1, <2>2, <2>3, <2>4, <2>5, StepKinds
<1>2. UNCHANGED vars => Stay
  BY DEF vars
<1>3. Inv /\ [Next]_vars => [Stay]_vars
  BY <1>1, <1>2
<1> QED
  BY <1>3, Invariance, PTL DEF Spec, OutcomesAreFinal

\* The time columns of an assignment tell how far the visit went, whatever the
\* order of events: none is skipped on the way to the site, and only a visit that
\* arrived there is completed.
THEOREM VisitsStamped == Spec => []VisitIsStamped
<1>1. Init => StampedSoFar
  BY DEF Init, StampedSoFar, StampedAs
<1>2. ASSUME Inv, Inv', StampedSoFar, [Next]_vars PROVE StampedSoFar'
  <2> SUFFICES ASSUME NEW a \in Assignments
               PROVE  StampedAs(assignment'[a], ticket'[assignment'[a].ticket].status)
    BY DEF StampedSoFar
  <2>1. /\ StampedAs(assignment[a], ticket[assignment[a].ticket].status)
        /\ assignment[a].ticket \in Tickets
    BY <1>2 DEF StampedSoFar, Inv, TypeOK, Assignment
  <2> DEFINE T == assignment[a].ticket
  <2>2. ASSUME assignment'[a] = assignment[a],
               \/ ticket'[T].status = ticket[T].status
               \/ assignment[a].status # "ACTIVE"
        PROVE  StampedAs(assignment'[a], ticket'[assignment'[a].ticket].status)
    BY <2>1, <2>2 DEF StampedAs
  <2>3. IsLive(a) => assignment[a].status \in ExpectedLive(ticket[T].status)
    BY <1>2, LiveMatches
  <2>4. assignment[a].status = "ACTIVE" => IsLive(a)
    BY DEF IsLive, LiveStatuses
  <2>5. CASE Quiet
    BY <2>1, <2>2, <2>3, <2>4, <2>5 DEF Quiet
  <2>6. ASSUME NEW b, NEW to, NEW row, LiveStep(b, to, row)
        PROVE  StampedAs(assignment'[a], ticket'[assignment'[a].ticket].status)
    <3>1. /\ b \in Assignments /\ IsLive(b)
          /\ row.ticket = assignment[b].ticket
          /\ StampedAs(assignment[b], ticket[assignment[b].ticket].status) => StampedAs(row, to)
          /\ assignment' = [assignment EXCEPT ![b] = row]
          /\ Moved(assignment[b].ticket, to)
      BY <2>6 DEF LiveStep
    <3>2. /\ ticket'[assignment[b].ticket].status = to
          /\ \A t \in Tickets : t # assignment[b].ticket => ticket'[t] = ticket[t]
      BY <1>2, <3>1, MovedRow DEF Inv
    <3>3. CASE a = b
      BY <1>2, <2>1, <3>1, <3>2, <3>3 DEF Inv, TypeOK
    <3>4. CASE a # b
      <4>1. assignment'[a] = assignment[a]
        BY <1>2, <3>1, <3>4 DEF Inv, TypeOK
      <4>2. T = assignment[b].ticket => ~IsLive(a)
        <5>1. AgreeOn(assignment, T, ExpectedLive(ticket[T].status))
          BY <1>2, <2>1, AgreeByRow DEF Inv
        <5> QED
          BY <3>1, <3>4, <5>1 DEF AgreeOn, LiveIn, IsLive
      <4> QED
        BY <2>1, <2>2, <2>4, <3>2, <4>1, <4>2
    <3> QED
      BY <3>3, <3>4
  <2>7. ASSUME NEW u \in Operators, NEW t \in Tickets, NEW w \in Technicians,
               AssignTechnician(u, t, w)
        PROVE  StampedAs(assignment'[a], ticket'[assignment'[a].ticket].status)
    <3>1. PICK b \in Assignments : AssignedAnew(t, w, b)
      BY <1>2, <2>7, AssignIsNew
    <3>2. \A s \in Tickets : s # t => ticket'[s] = ticket[s]
      BY <1>2, <2>7, AssignIsNew
    <3>3. /\ assignment'[b].status = "PENDING"
          /\ \A c \in Assignments : c = b \/ Kept(t, c) \/ GaveWay(t, c)
      <4>1. RowsAfter(t, b)
        BY <1>2, <3>1, RowsAssignedAnew, Zenon
      <4> QED
        BY <4>1 DEF RowsAfter
    <3>4. CASE a = b
      BY <3>3, <3>4 DEF StampedAs
    <3>5. CASE GaveWay(t, a)
      BY <3>5 DEF StampedAs, GaveWay
    <3>6. CASE Kept(t, a)
      <4>1. T = t => ~IsLive(a)
        BY <3>6 DEF Kept, LiveIn, IsLive
      <4> QED
        BY <2>1, <2>2, <2>4, <3>2, <3>6, <4>1 DEF Kept
    <3> QED
      BY <3>3, <3>4, <3>5, <3>6
  <2>8. ASSUME NEW b \in Assignments, AddMaterial(b)
        PROVE  StampedAs(assignment'[a], ticket'[assignment'[a].ticket].status)
    <3>1. /\ assignment'[a].status = assignment[a].status
          /\ assignment'[a].stamps = assignment[a].stamps
          /\ assignment'[a].ticket = assignment[a].ticket
      BY <1>2, <2>8 DEF AddMaterial, Inv, TypeOK, Assignment
    <3>2. ticket' = ticket
      BY <2>8 DEF AddMaterial
    <3> QED
      BY <2>1, <3>1, <3>2 DEF StampedAs
  <2>9. CASE UNCHANGED vars
    BY <2>1, <2>9 DEF vars
  <2> QED
    BY <1>2, <2>5, <2>6, <2>7, <2>8, <2>9, StepKinds
<1>3. StampedSoFar => VisitIsStamped
  BY DEF StampedSoFar, StampedAs, VisitIsStamped
<1> QED
  BY <1>1, <1>2, <1>3, Invariance, PTL DEF Spec

(*****************************************************************************)
(* The refinement of ServiceDesk                                             *)
(*****************************************************************************)

\* Nobody but customers and operations reports a problem.
DraftsOfReporters ==
    \A t \in Tickets : draft[t] # NoDraft =>
        draft[t].creator \in Operators \cup Managers \cup Residents

LEMMA InitDrafts == Init => DraftsOfReporters
  BY DEF Init, DraftsOfReporters

LEMMA StepDrafts == Inv /\ DraftsOfReporters /\ [Next]_vars => DraftsOfReporters'
<1> SUFFICES ASSUME Inv, DraftsOfReporters, [Next]_vars PROVE DraftsOfReporters'
  OBVIOUS
<1>1. draft \in [Tickets -> Drafts]
  BY DEF Inv, TypeOK
<1>2. ASSUME NEW u \in Users, NEW t \in Tickets, NEW urgency \in Urgencies,
             PrepareTicket(u, t, urgency)
      PROVE  DraftsOfReporters'
  BY <1>1, <1>2 DEF PrepareTicket, DraftsOfReporters
<1>3. ASSUME NEW t \in Tickets, InsertTicket(t) \/ InsertTicketFails(t)
      PROVE  DraftsOfReporters'
  BY <1>1, <1>3 DEF InsertTicket, InsertTicketFails, DraftsOfReporters
<1>4. CASE draft' = draft
  BY <1>4 DEF DraftsOfReporters
<1>5. ASSUME NEW t \in Tickets, TicketCalls(t) PROVE DraftsOfReporters'
  BY <1>2, <1>3, <1>4, <1>5
  DEF TicketCalls, EditTicket, MoveDirectly, MayMoveDirectly, ReadTicket, AssignTechnician,
      MayAssign
<1>6. ASSUME NEW a \in Assignments, AssignmentCalls(a) PROVE draft' = draft
  BY <1>6 DEF AssignmentCalls, Accept, Reject, MayAnswer, ApplyStatusEvent, MayReport,
      CancelAssignedTicket, AddMaterial
<1> QED
  BY <1>4, <1>5, <1>6 DEF Next, ChangeContract, vars

\* What the desk sees of each status.
LEMMA StagesOfStatuses ==
    /\ StageOf("ABSENT") = "none" /\ StageOf("OPEN") = "open"
    /\ StageOf("TRIAGED") = "triaged" /\ StageOf("ASSIGNED") = "offered"
    /\ StageOf("REJECTED") = "refused" /\ StageOf("ACCEPTED") = "accepted"
    /\ StageOf("EN_ROUTE") = "working" /\ StageOf("ARRIVED") = "working"
    /\ StageOf("IN_PROGRESS") = "working" /\ StageOf("WAITING_MATERIAL") = "working"
    /\ StageOf("COMPLETED") = "done" /\ StageOf("CLOSED") = "closed"
    /\ StageOf("CANCELLED") = "cancelled"
  BY DEF StageOf

\* The assignee is the technician of the one live row.
LEMMA ChosenTechnician ==
    ASSUME NEW rows, NEW live, NEW a \in live, \A b \in live : b = a
    PROVE  rows[CHOOSE b \in live : TRUE].technician = rows[a].technician
<1>1. (CHOOSE b \in live : TRUE) \in live
  BY Zenon
<1> QED
  BY <1>1

LEMMA AssigneeNow ==
    ASSUME StatusesAgree, NEW t \in Tickets
    PROVE  /\ \A a \in Assignments : LiveIn(assignment, t, a) =>
                AssigneeOf(t) = assignment[a].technician
           /\ ExpectedLive(ticket[t].status) = {} => AssigneeOf(t) = Nobody
<1>1. LiveOf(t) = {a \in Assignments : LiveIn(assignment, t, a)}
  BY DEF LiveOf, LiveIn, IsLive
<1>2. AgreeOn(assignment, t, ExpectedLive(ticket[t].status))
  BY AgreeByRow
<1>3. ASSUME NEW a \in LiveOf(t) PROVE AssigneeOf(t) = assignment[a].technician
  <2>1. \A b \in LiveOf(t) : b = a
    BY <1>1, <1>2, <1>3 DEF AgreeOn
  <2>2. assignment[CHOOSE b \in LiveOf(t) : TRUE].technician = assignment[a].technician
    BY <2>1, ChosenTechnician
  <2>3. LiveOf(t) # {}
    OBVIOUS
  <2> QED
    BY <2>2, <2>3 DEF AssigneeOf
<1>4. ExpectedLive(ticket[t].status) = {} => LiveOf(t) = {}
  BY <1>1, <1>2 DEF AgreeOn
<1> QED
  BY <1>1, <1>3, <1>4 DEF AssigneeOf

LEMMA AssigneeNext ==
    ASSUME StatusesAgree', NEW t \in Tickets
    PROVE  /\ \A a \in Assignments : LiveIn(assignment', t, a) =>
                AssigneeOf(t)' = assignment'[a].technician
           /\ ExpectedLive(ticket'[t].status) = {} => AssigneeOf(t)' = Nobody
<1>1. LiveOf(t)' = {a \in Assignments : LiveIn(assignment', t, a)}
  BY DEF LiveOf, LiveIn, IsLive
<1>2. AgreeOn(assignment', t, ExpectedLive(ticket'[t].status))
  BY AgreeByRowNext
<1>3. ASSUME NEW a \in LiveOf(t)' PROVE AssigneeOf(t)' = assignment'[a].technician
  <2>1. \A b \in LiveOf(t)' : b = a
    BY <1>1, <1>2, <1>3 DEF AgreeOn
  <2>2. assignment'[CHOOSE b \in LiveOf(t)' : TRUE].technician = assignment'[a].technician
    BY <2>1, ChosenTechnician
  <2>3. LiveOf(t)' # {}
    OBVIOUS
  <2> QED
    BY <2>2, <2>3 DEF AssigneeOf
<1>4. ExpectedLive(ticket'[t].status) = {} => LiveOf(t)' = {}
  BY <1>1, <1>2 DEF AgreeOn
<1> QED
  BY <1>1, <1>3, <1>4 DEF AssigneeOf

\* A ticket keeps its assignee with its live rows.
LEMMA AssigneeStays ==
    ASSUME StatusesAgree, StatusesAgree', NEW t \in Tickets,
           ticket'[t].status = ticket[t].status,
           \A a \in Assignments : LiveIn(assignment, t, a) =>
              LiveIn(assignment', t, a) /\ assignment'[a].technician = assignment[a].technician
    PROVE  AssigneeOf(t)' = AssigneeOf(t)
<1>1. CASE ExpectedLive(ticket[t].status) = {}
  BY <1>1, AssigneeNow, AssigneeNext
<1>2. CASE ExpectedLive(ticket[t].status) # {}
  <2>1. PICK a \in Assignments : LiveIn(assignment, t, a)
    BY <1>2, AgreeByRow DEF AgreeOn
  <2> QED
    BY <2>1, AssigneeNow, AssigneeNext
<1> QED
  BY <1>1, <1>2

\* How a step of the workflow becomes a move of the desk, or nothing.
LEMMA DeskMove ==
    ASSUME NEW t \in Tickets, NEW from, NEW who, NEW by,
           StageOf(ticket[t].status) \in from,
           AssigneeOf(t)' = who,
           movedBy' = [movedBy EXCEPT ![t] = by],
           \A s \in Tickets \ {t} : /\ ticket'[s].status = ticket[s].status
                                    /\ AssigneeOf(s)' = AssigneeOf(s)
    PROVE  Desk!Move(t, from, StageOf(ticket'[t].status), who, by)
<1> DEFINE S == [s \in Tickets |-> StageOf(ticket[s].status)]
           A == [s \in Tickets |-> AssigneeOf(s)]
           to == StageOf(ticket'[t].status)
<1>1. S[t] \in from
  OBVIOUS
<1>2. \A s \in Tickets \ {t} : StageOf(ticket'[s].status) = StageOf(ticket[s].status)
  OBVIOUS
<1>3. S' = [S EXCEPT ![t] = to]
  BY <1>2
<1>4. A' = [A EXCEPT ![t] = who]
  OBVIOUS
<1> QED
  BY <1>1, <1>3, <1>4 DEF Desk!Move

LEMMA DeskRests ==
    ASSUME \A s \in Tickets : /\ ticket'[s].status = ticket[s].status
                              /\ AssigneeOf(s)' = AssigneeOf(s),
           movedBy' = movedBy
    PROVE  UNCHANGED Desk!deskVars
<1> DEFINE S == [s \in Tickets |-> StageOf(ticket[s].status)]
           A == [s \in Tickets |-> AssigneeOf(s)]
<1>1. \A s \in Tickets : StageOf(ticket'[s].status) = StageOf(ticket[s].status)
  OBVIOUS
<1>2. S' = S /\ A' = A
  BY <1>1
<1> QED
  BY <1>2 DEF Desk!deskVars

\* A step of the live assignment a is the move of the desk that goes with it.
LEMMA LiveStepMoves ==
    ASSUME Inv, Inv', NEW a, NEW to, NEW row, LiveStep(a, to, row),
           NEW t, t = assignment[a].ticket,
           row.technician = assignment[a].technician,
           NEW from, StageOf(ticket[t].status) \in from,
           NEW by, movedBy' = [movedBy EXCEPT ![t] = by],
           NEW who, who = IF ExpectedLive(to) = {} THEN Nobody ELSE assignment[a].technician
    PROVE  Desk!Move(t, from, StageOf(to), who, by)
<1>1. /\ a \in Assignments /\ IsLive(a) /\ row.ticket = t
      /\ {row.status} \cap LiveStatuses = ExpectedLive(to)
      /\ assignment' = [assignment EXCEPT ![a] = row]
      /\ Moved(t, to)
  BY DEF LiveStep
<1>2. t \in Tickets /\ StatusesAgree /\ StatusesAgree' /\ TypeOK
  BY <1>1, LiveMatches DEF Inv
<1>3. ticket'[t].status = to /\ \A s \in Tickets : s # t => ticket'[s] = ticket[s]
  BY <1>1, <1>2, MovedRow
<1>4. \A b \in Assignments : assignment'[b] = IF b = a THEN row ELSE assignment[b]
  BY <1>1, <1>2 DEF TypeOK
<1>5. AssigneeOf(t)' = who
  <2>1. CASE ExpectedLive(to) = {}
    BY <1>2, <1>3, <2>1, AssigneeNext
  <2>2. CASE ExpectedLive(to) # {}
    <3>1. LiveIn(assignment', t, a) /\ assignment'[a].technician = assignment[a].technician
      BY <1>1, <1>4, <2>2 DEF LiveIn
    <3> QED
      BY <1>1, <1>2, <2>2, <3>1, AssigneeNext
  <2> QED
    BY <2>1, <2>2
<1>6. ASSUME NEW s \in Tickets \ {t}
      PROVE  ticket'[s].status = ticket[s].status /\ AssigneeOf(s)' = AssigneeOf(s)
  <2>1. \A b \in Assignments : LiveIn(assignment, s, b) =>
           LiveIn(assignment', s, b) /\ assignment'[b].technician = assignment[b].technician
    BY <1>1, <1>4 DEF LiveIn
  <2> QED
    BY <1>2, <1>3, <2>1, AssigneeStays
<1>7. Desk!Move(t, from, StageOf(ticket'[t].status), who, by)
  BY <1>2, <1>5, <1>6, DeskMove
<1> QED
  BY <1>3, <1>7

\* What a handler of the live assignment a writes of it and its ticket.
Written(u, t, s) ==
    /\ ticket' = [ticket EXCEPT ![t] =
          [ticket[t] EXCEPT !.status = s, !.version = ticket[t].version + 1]]
    /\ movedBy' = [movedBy EXCEPT ![t] = u]

LEMMA LiveWrites ==
    ASSUME Inv, NEW a, NEW to, NEW row, LiveStep(a, to, row),
           NEW t, t = assignment[a].ticket
    PROVE  /\ ticket'[t].status = to /\ assignment'[a] = row
           /\ t \in Tickets /\ AssigneeOf(t) = assignment[a].technician
           /\ assignment[a].status \in ExpectedLive(ticket[t].status)
<1>1. /\ a \in Assignments /\ IsLive(a) /\ t \in Tickets /\ Moved(t, to) /\ TypeOK
      /\ assignment' = [assignment EXCEPT ![a] = row]
  BY DEF LiveStep, Moved, Inv
<1>2. ticket'[t].status = to
  BY <1>1, MovedRow
<1>3. assignment'[a] = row
  BY <1>1 DEF TypeOK
<1>4. AssigneeOf(t) = assignment[a].technician
  BY <1>1, AssigneeNow DEF Inv, LiveIn, IsLive
<1>5. assignment[a].status \in ExpectedLive(ticket[t].status)
  BY <1>1, LiveMatches
<1> QED
  BY <1>1, <1>2, <1>3, <1>4, <1>5

LEMMA StatusWritten ==
    ASSUME Inv, NEW t \in Tickets, NEW u, NEW s, Written(u, t, s)
    PROVE  ticket'[t].status = s
<1> DEFINE new == [ticket[t] EXCEPT !.status = s, !.version = ticket[t].version + 1]
<1>1. new.status = s
  BY DEF Inv, TypeOK, Ticket
<1>2. ticket'[t] = new
  BY DEF Inv, TypeOK, Written
<1> QED
  BY <1>1, <1>2

LEMMA AcceptOnDesk ==
    ASSUME Inv, Inv', NEW u \in Technicians, NEW a \in Assignments, Accept(u, a)
    PROVE  Desk!Next
<1>1. PICK t, s : t = assignment[a].ticket /\ s = "ACCEPTED"
  OBVIOUS
<1>2. PICK to, row : LiveStep(a, to, row)
  BY AcceptIsLiveStep
<1>3. /\ assignment[a] \in Assignment /\ assignment[a].status = "PENDING"
      /\ assignment[a].technician = u
      /\ assignment' = [assignment EXCEPT ![a] =
            [assignment[a] EXCEPT !.status = "ACCEPTED",
                                  !.stamps = assignment[a].stamps \cup {"acceptedAt"}]]
  BY DEF Accept, MayAnswer, Inv, TypeOK
<1>4. Written(u, t, s)
  BY <1>1 DEF Accept, MayAnswer, ApplyStatusTransition, Written
<1>5. /\ to = s /\ assignment'[a] = row
      /\ t \in Tickets /\ AssigneeOf(t) = assignment[a].technician
      /\ assignment[a].status \in ExpectedLive(ticket[t].status)
      /\ movedBy' = [movedBy EXCEPT ![t] = u]
  <2>1. /\ assignment'[a] = row /\ ticket'[t].status = to
        /\ t \in Tickets /\ AssigneeOf(t) = assignment[a].technician
        /\ assignment[a].status \in ExpectedLive(ticket[t].status)
    BY <1>1, <1>2, LiveWrites
  <2>2. ticket'[t].status = s
    BY <1>4, <2>1, StatusWritten
  <2> QED
    BY <1>4, <2>1, <2>2 DEF Written
<1>6. row.technician = assignment[a].technician
  BY <1>3, <1>5 DEF Inv, TypeOK, Assignment
<1>7. ticket[t].status = "ASSIGNED" /\ ExpectedLive(s) # {}
  BY <1>1, <1>3, <1>5 DEF ExpectedLive
<1>8. Desk!Move(t, {"offered"}, StageOf(s), u, u)
  <2>1. StageOf(ticket[t].status) \in {"offered"}
    BY <1>7, StagesOfStatuses
  <2> QED
    BY <1>1, <1>2, <1>3, <1>5, <1>6, <1>7, <2>1, LiveStepMoves
<1>9. Desk!Accept(t)
  BY <1>1, <1>3, <1>5, <1>8, StagesOfStatuses DEF Desk!Accept
<1> QED
  BY <1>5, <1>9 DEF Desk!Next

LEMMA RejectOnDesk ==
    ASSUME Inv, Inv', NEW u \in Technicians, NEW a \in Assignments, Reject(u, a)
    PROVE  Desk!Next
<1>1. PICK t, s : t = assignment[a].ticket /\ s = "REJECTED"
  OBVIOUS
<1>2. PICK to, row : LiveStep(a, to, row)
  BY RejectIsLiveStep
<1>3. /\ assignment[a] \in Assignment /\ assignment[a].status = "PENDING"
      /\ assignment[a].technician = u
      /\ assignment' = [assignment EXCEPT ![a] =
            [assignment[a] EXCEPT !.status = "REJECTED", !.current = FALSE,
                                  !.stamps = assignment[a].stamps \cup {"rejectedAt"}]]
  BY DEF Reject, MayAnswer, Inv, TypeOK
<1>4. Written(u, t, s)
  BY <1>1 DEF Reject, MayAnswer, ApplyStatusTransition, Written
<1>5. /\ to = s /\ assignment'[a] = row
      /\ t \in Tickets /\ AssigneeOf(t) = assignment[a].technician
      /\ assignment[a].status \in ExpectedLive(ticket[t].status)
      /\ movedBy' = [movedBy EXCEPT ![t] = u]
  <2>1. /\ assignment'[a] = row /\ ticket'[t].status = to
        /\ t \in Tickets /\ AssigneeOf(t) = assignment[a].technician
        /\ assignment[a].status \in ExpectedLive(ticket[t].status)
    BY <1>1, <1>2, LiveWrites
  <2>2. ticket'[t].status = s
    BY <1>4, <2>1, StatusWritten
  <2> QED
    BY <1>4, <2>1, <2>2 DEF Written
<1>6. row.technician = assignment[a].technician
  BY <1>3, <1>5 DEF Inv, TypeOK, Assignment
<1>7. ticket[t].status = "ASSIGNED" /\ ExpectedLive(s) = {}
  BY <1>1, <1>3, <1>5 DEF ExpectedLive
<1>8. Desk!Move(t, {"offered"}, StageOf(s), Nobody, u)
  <2>1. StageOf(ticket[t].status) \in {"offered"}
    BY <1>7, StagesOfStatuses
  <2> QED
    BY <1>1, <1>2, <1>3, <1>5, <1>6, <1>7, <2>1, LiveStepMoves
<1>9. Desk!Refuse(t)
  BY <1>1, <1>3, <1>5, <1>8, StagesOfStatuses DEF Desk!Refuse
<1> QED
  BY <1>5, <1>9 DEF Desk!Next

LEMMA CancelOnDesk ==
    ASSUME Inv, Inv', NEW u \in Operators, NEW a \in Assignments, CancelAssignedTicket(u, a)
    PROVE  Desk!Next
<1>1. PICK t, s : t = assignment[a].ticket /\ s = "CANCELLED"
  OBVIOUS
<1>2. PICK to, row : LiveStep(a, to, row)
  BY CancelIsLiveStep
<1>3. /\ assignment[a] \in Assignment /\ ticket[t].status = "ASSIGNED"
      /\ assignment' = [assignment EXCEPT ![a] =
            [assignment[a] EXCEPT !.status = "CANCELLED", !.current = FALSE]]
  BY <1>1 DEF CancelAssignedTicket, Inv, TypeOK
<1>4. Written(u, t, s)
  BY <1>1 DEF CancelAssignedTicket, ApplyStatusTransition, Written
<1>5. /\ to = s /\ assignment'[a] = row
      /\ t \in Tickets /\ movedBy' = [movedBy EXCEPT ![t] = u]
  <2>1. assignment'[a] = row /\ ticket'[t].status = to /\ t \in Tickets
    BY <1>1, <1>2, LiveWrites
  <2>2. ticket'[t].status = s
    BY <1>4, <2>1, StatusWritten
  <2> QED
    BY <1>4, <2>1, <2>2 DEF Written
<1>6. row.technician = assignment[a].technician
  BY <1>3, <1>5 DEF Inv, TypeOK, Assignment
<1>7. ExpectedLive(s) = {}
  BY <1>1 DEF ExpectedLive
<1>8. Desk!Move(t, {"offered"}, StageOf(s), Nobody, u)
  <2>1. StageOf(ticket[t].status) \in {"offered"}
    BY <1>3, StagesOfStatuses
  <2> QED
    BY <1>1, <1>2, <1>5, <1>6, <1>7, <2>1, LiveStepMoves
<1>9. Desk!Withdraw(t, u)
  BY <1>1, <1>8, StagesOfStatuses DEF Desk!Withdraw
<1> QED
  BY <1>5, <1>9 DEF Desk!Next

\* The moves a ticket can make while its assignment is accepted or at work.
Working == {"EN_ROUTE", "ARRIVED", "IN_PROGRESS", "WAITING_MATERIAL"}

LEMMA WorkMoves ==
    ASSUME NEW u, NEW from \in {"ACCEPTED"} \cup Working, NEW to, NEW reason,
           MayMove(u, from, to, reason)
    PROVE  \/ from = "ACCEPTED" /\ to = "EN_ROUTE" /\ u \in Technicians
           \/ from = "IN_PROGRESS" /\ to = "COMPLETED" /\ u \in Technicians
           \/ from \in Working /\ to \in Working
  BY DEF MayMove, Transitions, Working

LEMMA StatusEventOnDesk ==
    ASSUME Inv, Inv', NEW u \in Technicians \cup Operators, NEW a \in Assignments,
           NEW event \in StatusEvents, ApplyStatusEvent(u, a, event)
    PROVE  Desk!Next
<1> DEFINE rule == StatusEventRule(event)
           current == IF event = "COMPLETE" THEN FALSE ELSE assignment[a].current
<1>1. PICK t, s : t = assignment[a].ticket /\ s = rule.ticketTo
  OBVIOUS
<1>2. PICK to, row : LiveStep(a, to, row)
  BY StatusEventIsLiveStep
<1>3. /\ assignment[a] \in Assignment /\ assignment[a].status = rule.from
      /\ u \in Operators \/ u = assignment[a].technician
      /\ assignment' = [assignment EXCEPT ![a] =
            [assignment[a] EXCEPT !.status = rule.to, !.current = current,
                                  !.stamps = assignment[a].stamps \cup rule.stamps]]
  BY DEF ApplyStatusEvent, MayReport, Inv, TypeOK
<1>4. Written(u, t, s) /\ MayMove(u, ticket[t].status, s, FALSE)
  BY <1>1 DEF ApplyStatusEvent, MayReport, ApplyStatusTransition, Written
<1> HIDE DEF rule, current
<1>5. /\ to = s /\ assignment'[a] = row
      /\ t \in Tickets /\ AssigneeOf(t) = assignment[a].technician
      /\ assignment[a].status \in ExpectedLive(ticket[t].status)
      /\ movedBy' = [movedBy EXCEPT ![t] = u]
  <2>1. /\ assignment'[a] = row /\ ticket'[t].status = to
        /\ t \in Tickets /\ AssigneeOf(t) = assignment[a].technician
        /\ assignment[a].status \in ExpectedLive(ticket[t].status)
    BY <1>1, <1>2, LiveWrites
  <2>2. ticket'[t].status = s
    BY <1>4, <2>1, StatusWritten
  <2> QED
    BY <1>4, <2>1, <2>2 DEF Written
<1>6. row.technician = assignment[a].technician
  BY <1>3, <1>5 DEF Inv, TypeOK, Assignment
<1>7. assignment[a].status \in {"ACCEPTED", "ACTIVE"}
  BY <1>3, Rules DEF SoundRule, rule
<1>8. ticket[t].status \in {"ACCEPTED"} \cup Working
  BY <1>5, <1>7 DEF ExpectedLive, Working
<1>9. u \in Technicians => u = assignment[a].technician
  BY <1>3, RolesAssumption
<1>10. CASE ticket[t].status = "ACCEPTED" /\ s = "EN_ROUTE" /\ u \in Technicians
  <2>1. StageOf(ticket[t].status) \in {"accepted"} /\ ExpectedLive(s) # {}
    BY <1>10, StagesOfStatuses DEF ExpectedLive
  <2>2. Desk!Move(t, {"accepted"}, StageOf(s), assignment[a].technician, u)
    BY <1>1, <1>2, <1>5, <1>6, <2>1, LiveStepMoves
  <2>3. Desk!Start(t)
    BY <1>5, <1>9, <1>10, <2>2, StagesOfStatuses DEF Desk!Start
  <2> QED
    BY <1>5, <2>3 DEF Desk!Next
<1>11. CASE ticket[t].status = "IN_PROGRESS" /\ s = "COMPLETED" /\ u \in Technicians
  <2>1. StageOf(ticket[t].status) \in {"working"} /\ ExpectedLive(s) = {}
    BY <1>11, StagesOfStatuses DEF ExpectedLive
  <2>2. Desk!Move(t, {"working"}, StageOf(s), Nobody, u)
    BY <1>1, <1>2, <1>5, <1>6, <2>1, LiveStepMoves
  <2>3. Desk!Finish(t)
    BY <1>5, <1>9, <1>11, <2>2, StagesOfStatuses DEF Desk!Finish
  <2> QED
    BY <1>5, <2>3 DEF Desk!Next
<1>12. CASE ticket[t].status \in Working /\ s \in Working
  <2>1. /\ StageOf(ticket[t].status) \in {"working"}
        /\ ExpectedLive(s) # {} /\ StageOf(s) = "working"
    BY <1>12, StagesOfStatuses DEF ExpectedLive, Working
  <2>2. Desk!Move(t, {"working"}, StageOf(s), assignment[a].technician, u)
    BY <1>1, <1>2, <1>5, <1>6, <2>1, LiveStepMoves
  <2>3. Desk!Work(t, u)
    BY <1>3, <1>5, <2>1, <2>2 DEF Desk!Work
  <2> QED
    BY <1>3, <1>5, <2>3 DEF Desk!Next
<1> QED
  BY <1>4, <1>8, <1>10, <1>11, <1>12, WorkMoves

\* A step that leaves the assignments alone: each ticket keeps its assignee, or
\* needs none before and after.
LEMMA QuietAssignees ==
    ASSUME Inv, Inv', Quiet, NEW t \in Tickets
    PROVE  /\ ticket'[t].status = ticket[t].status => AssigneeOf(t)' = AssigneeOf(t)
           /\ ticket'[t].status # ticket[t].status => AssigneeOf(t)' = Nobody
<1>1. StatusesAgree /\ StatusesAgree'
  BY DEF Inv
<1>2. \A a \in Assignments : LiveIn(assignment, t, a) =>
         LiveIn(assignment', t, a) /\ assignment'[a].technician = assignment[a].technician
  BY DEF Quiet
<1>3. ticket'[t].status # ticket[t].status => ExpectedLive(ticket'[t].status) = {}
  BY DEF Quiet
<1> QED
  BY <1>1, <1>2, <1>3, AssigneeStays, AssigneeNext

LEMMA QuietMoves ==
    ASSUME Inv, Inv', Quiet, NEW t \in Tickets, NEW from, NEW by,
           StageOf(ticket[t].status) \in from,
           ticket'[t].status # ticket[t].status,
           movedBy' = [movedBy EXCEPT ![t] = by],
           \A s \in Tickets \ {t} : ticket'[s] = ticket[s]
    PROVE  Desk!Move(t, from, StageOf(ticket'[t].status), Nobody, by)
<1>1. AssigneeOf(t)' = Nobody
  BY QuietAssignees
<1>2. \A s \in Tickets \ {t} :
         ticket'[s].status = ticket[s].status /\ AssigneeOf(s)' = AssigneeOf(s)
  BY QuietAssignees
<1> QED
  BY <1>1, <1>2, DeskMove

LEMMA QuietRests ==
    ASSUME Inv, Inv', Quiet, movedBy' = movedBy,
           \A t \in Tickets : ticket'[t].status = ticket[t].status
    PROVE  UNCHANGED Desk!deskVars
<1>1. \A t \in Tickets : AssigneeOf(t)' = AssigneeOf(t)
  BY QuietAssignees
<1> QED
  BY <1>1, DeskRests

LEMMA InsertOnDesk ==
    ASSUME Inv, Inv', DraftsOfReporters, NEW t \in Tickets, InsertTicket(t)
    PROVE  Desk!Next
<1>1. PICK u : u = draft[t].creator
  OBVIOUS
<1>2. u \in Operators \cup (Managers \cup Residents)
  BY <1>1 DEF InsertTicket, DraftsOfReporters
<1>3. /\ ticket[t].status = "ABSENT"
      /\ movedBy' = [movedBy EXCEPT ![t] = u]
      /\ ticket \in [Tickets -> Ticket]
  BY <1>1 DEF InsertTicket, Inv, DraftsAreNew, TypeOK
<1>4. ticket'[t].status = "OPEN" /\ \A s \in Tickets \ {t} : ticket'[s] = ticket[s]
  BY <1>3 DEF InsertTicket
<1>5. StageOf(ticket[t].status) \in {"none"} /\ StageOf(ticket'[t].status) = "open"
  BY <1>3, <1>4, StagesOfStatuses
<1>6. ticket'[t].status # ticket[t].status
  BY <1>3, <1>4
<1>7. PICK from : from = {"none"}
  OBVIOUS
<1>8. Desk!Move(t, from, StageOf(ticket'[t].status), Nobody, u)
  <2>1. Quiet /\ StageOf(ticket[t].status) \in from
    BY <1>5, <1>7, InsertIsQuiet
  <2>2. movedBy' = [movedBy EXCEPT ![t] = u] /\ \A s \in Tickets \ {t} : ticket'[s] = ticket[s]
    BY <1>3, <1>4
  <2> QED
    BY <1>6, <2>1, <2>2, QuietMoves
<1>9. Desk!Open(t, u)
  BY <1>5, <1>7, <1>8 DEF Desk!Open
<1> QED
  BY <1>2, <1>9 DEF Desk!Next

LEMMA MoveDirectlyOnDesk ==
    ASSUME Inv, Inv', NEW u \in Users, NEW t \in Tickets, NEW to \in TicketStatuses,
           NEW reason, MoveDirectly(u, t, to, reason)
    PROVE  Desk!Next
<1>1. /\ <<ticket[t].status, to>> \in DirectTransitions
      /\ ApplyStatusTransition(u, t, to, reason)
      /\ \/ u \in Operators
         \/ to = "CANCELLED" /\ u \in Managers \cup Residents
  BY DEF MoveDirectly, MayMoveDirectly
<1>2. ticket'[t].status = to /\ \A s \in Tickets \ {t} : ticket'[s] = ticket[s]
  <2>1. TypeOK /\ ticket[t].status # "ABSENT"
    BY <1>1 DEF Inv, DirectTransitions
  <2>2. Moved(t, to)
    BY <1>1, <2>1, TransitionMoves
  <2> QED
    BY <2>1, <2>2, MovedRow
<1>3. ticket'[t].status # ticket[t].status
  BY <1>1, <1>2 DEF DirectTransitions
<1>4. movedBy' = [movedBy EXCEPT ![t] = u]
  BY <1>1 DEF ApplyStatusTransition
<1>5. Quiet
  BY MoveDirectlyIsQuiet
<1>6. ASSUME NEW from, StageOf(ticket[t].status) \in from
      PROVE  Desk!Move(t, from, StageOf(ticket'[t].status), Nobody, u)
  BY <1>3, <1>2, <1>4, <1>5, <1>6, QuietMoves
<1>7. CASE ticket[t].status = "OPEN" /\ to = "TRIAGED"
  <2>1. /\ StageOf(ticket[t].status) \in {"open"}
        /\ StageOf(ticket'[t].status) = "triaged"
        /\ u \in Operators
    BY <1>1, <1>2, <1>7, StagesOfStatuses
  <2>2. PICK from : from = {"open"}
    OBVIOUS
  <2>3. Desk!Move(t, from, StageOf(ticket'[t].status), Nobody, u)
    BY <1>6, <2>1, <2>2
  <2>4. Desk!Triage(t, u)
    BY <2>1, <2>2, <2>3 DEF Desk!Triage
  <2> QED
    BY <2>1, <2>4 DEF Desk!Next
<1>8. CASE ticket[t].status \in {"OPEN", "TRIAGED"} /\ to = "CANCELLED"
  <2>1. /\ StageOf(ticket[t].status) \in {"open", "triaged"}
        /\ StageOf(ticket'[t].status) = "cancelled"
        /\ u \in Operators \cup (Managers \cup Residents)
    BY <1>1, <1>2, <1>8, StagesOfStatuses
  <2>2. PICK from : from = {"open", "triaged"}
    OBVIOUS
  <2>3. Desk!Move(t, from, StageOf(ticket'[t].status), Nobody, u)
    BY <1>6, <2>1, <2>2
  <2>4. Desk!Cancel(t, u)
    BY <2>1, <2>2, <2>3 DEF Desk!Cancel
  <2> QED
    BY <2>1, <2>4 DEF Desk!Next
<1>9. CASE ticket[t].status = "COMPLETED" /\ to = "CLOSED"
  <2>1. /\ StageOf(ticket[t].status) \in {"done"}
        /\ StageOf(ticket'[t].status) = "closed"
        /\ u \in Operators
    BY <1>1, <1>2, <1>9, StagesOfStatuses
  <2>2. PICK from : from = {"done"}
    OBVIOUS
  <2>3. Desk!Move(t, from, StageOf(ticket'[t].status), Nobody, u)
    BY <1>6, <2>1, <2>2
  <2>4. Desk!Close(t, u)
    BY <2>1, <2>2, <2>3 DEF Desk!Close
  <2> QED
    BY <2>1, <2>4 DEF Desk!Next
<1> QED
  BY <1>1, <1>7, <1>8, <1>9 DEF DirectTransitions

LEMMA AssignOnDesk ==
    ASSUME Inv, Inv', NEW u \in Operators, NEW t \in Tickets, NEW w \in Technicians,
           AssignTechnician(u, t, w)
    PROVE  Desk!Next
<1>1. ticket'[t].status = "ASSIGNED" /\ \A s \in Tickets : s # t => ticket'[s] = ticket[s]
  BY AssignIsNew
<1>2. PICK a \in Assignments : AssignedAnew(t, w, a)
  BY AssignIsNew
<1>3. RowsAfter(t, a)
  BY <1>2, RowsAssignedAnew, Zenon
<1>4. StatusesAgree /\ StatusesAgree'
  BY DEF Inv
<1>5. assignment'[a].technician = w
  BY <1>2 DEF AssignedAnew, NewAssignment
<1>6. AssigneeOf(t)' = w
  BY <1>3, <1>4, <1>5, AssigneeNext DEF RowsAfter, LiveIn, LiveStatuses
<1>7. ASSUME NEW s \in Tickets \ {t}
      PROVE  ticket'[s].status = ticket[s].status /\ AssigneeOf(s)' = AssigneeOf(s)
  <2>1. ASSUME NEW b \in Assignments, LiveIn(assignment, s, b)
        PROVE  assignment'[b] = assignment[b]
    <3>1. b # a
      BY <1>2, <2>1 DEF AssignedAnew, LiveIn, LiveStatuses
    <3>2. ~GaveWay(t, b)
      BY <2>1 DEF GaveWay, LiveIn
    <3> QED
      BY <1>3, <3>1, <3>2 DEF RowsAfter, Kept
  <2>2. \A b \in Assignments : LiveIn(assignment, s, b) =>
           LiveIn(assignment', s, b) /\ assignment'[b].technician = assignment[b].technician
    BY <2>1 DEF LiveIn
  <2> QED
    BY <1>1, <1>4, <2>2, AssigneeStays
<1>8. StageOf(ticket'[t].status) = "offered"
  BY <1>1, StagesOfStatuses
<1>9. CASE ticket[t].status = "ASSIGNED"
  <2>1. PICK by, from : by = movedBy[t] /\ from = {"offered"}
    OBVIOUS
  <2>2. movedBy' = [movedBy EXCEPT ![t] = by]
    BY <1>9, <2>1 DEF AssignTechnician, MayAssign, Inv, TypeOK
  <2>3. StageOf(ticket[t].status) \in from
    BY <1>9, <2>1, StagesOfStatuses
  <2>4. Desk!Move(t, from, StageOf(ticket'[t].status), w, by)
    BY <1>6, <1>7, <2>2, <2>3, DeskMove
  <2>5. Desk!OfferAnother(t, w)
    BY <1>8, <2>1, <2>4 DEF Desk!OfferAnother
  <2> QED
    BY <2>5 DEF Desk!Next
<1>10. CASE ticket[t].status # "ASSIGNED"
  <2>1. ticket[t].status \in {"TRIAGED", "REJECTED"} /\ movedBy' = [movedBy EXCEPT ![t] = u]
    BY <1>10 DEF AssignTechnician, MayAssign, ApplyStatusTransition
  <2>2. PICK from : from = {"triaged", "refused"}
    OBVIOUS
  <2>3. StageOf(ticket[t].status) \in from
    BY <2>1, <2>2, StagesOfStatuses
  <2>4. Desk!Move(t, from, StageOf(ticket'[t].status), w, u)
    BY <1>6, <1>7, <2>1, <2>3, DeskMove
  <2>5. Desk!Offer(t, w, u)
    BY <1>8, <2>2, <2>4 DEF Desk!Offer
  <2> QED
    BY <2>5 DEF Desk!Next
<1> QED
  BY <1>9, <1>10

LEMMA MaterialOnDesk ==
    ASSUME Inv, Inv', NEW a \in Assignments, AddMaterial(a)
    PROVE  UNCHANGED Desk!deskVars
<1>1. assignment \in [Assignments -> Assignment]
  BY DEF Inv, TypeOK
<1>2. \A b \in Assignments : /\ assignment'[b].ticket = assignment[b].ticket
                             /\ assignment'[b].status = assignment[b].status
                             /\ assignment'[b].technician = assignment[b].technician
  BY <1>1 DEF AddMaterial, Assignment
<1>3. ticket' = ticket /\ movedBy' = movedBy
  BY DEF AddMaterial
<1>4. \A t \in Tickets : AssigneeOf(t)' = AssigneeOf(t)
  BY <1>2, <1>3, AssigneeStays DEF Inv, LiveIn
<1> QED
  BY <1>3, <1>4, DeskRests

\* The desk opens without tickets.
LEMMA InitDesk == Init => Desk!Init
<1> SUFFICES ASSUME Init PROVE Desk!Init
  OBVIOUS
<1>1. \A t \in Tickets : ticket[t].status = "ABSENT"
  BY DEF Init, AbsentTicket
<1>2. \A t \in Tickets : StageOf(ticket[t].status) = "none"
  BY <1>1, StagesOfStatuses
<1>3. \A t \in Tickets : AssigneeOf(t) = Nobody
  BY <1>1, InitInv, AssigneeNow DEF Inv, ExpectedLive
<1> QED
  BY <1>2, <1>3 DEF Init, Desk!Init

\* Every step of the workflow is one of the desk, or none.
LEMMA StepDesk ==
    ASSUME Inv, Inv', DraftsOfReporters, [Next]_vars
    PROVE  [Desk!Next]_(Desk!deskVars)
<1>1. ASSUME Quiet, movedBy' = movedBy,
             \A t \in Tickets : ticket'[t].status = ticket[t].status
      PROVE  UNCHANGED Desk!deskVars
  BY <1>1, QuietRests
<1>2. ASSUME NEW t \in Tickets, TicketCalls(t)
      PROVE  Desk!Next \/ UNCHANGED Desk!deskVars
  <2>1. ASSUME NEW u \in Users, NEW urgency \in Urgencies, PrepareTicket(u, t, urgency)
        PROVE  UNCHANGED Desk!deskVars
    BY <1>1, <2>1, PrepareIsQuiet DEF PrepareTicket
  <2>2. ASSUME NEW u \in Users, NEW urgency \in Urgencies, EditTicket(u, t, urgency)
        PROVE  UNCHANGED Desk!deskVars
    <3>1. movedBy' = movedBy /\ \A s \in Tickets : ticket'[s].status = ticket[s].status
      BY <2>2 DEF EditTicket, Inv, TypeOK, Ticket
    <3> QED
      BY <1>1, <2>2, <3>1, EditIsQuiet
  <2>3. CASE InsertTicket(t)
    BY <2>3, InsertOnDesk
  <2>4. CASE InsertTicketFails(t)
    BY <1>1, <2>4, InsertFailsIsQuiet DEF InsertTicketFails
  <2>5. ASSUME NEW u \in Users, NEW to \in TicketStatuses, NEW reason \in BOOLEAN,
               MoveDirectly(u, t, to, reason)
        PROVE  Desk!Next
    BY <2>5, MoveDirectlyOnDesk
  <2>6. CASE ReadTicket(t)
    BY <1>1, <2>6, ReadIsQuiet DEF ReadTicket
  <2>7. ASSUME NEW u \in Operators, NEW w \in Technicians, AssignTechnician(u, t, w)
        PROVE  Desk!Next
    BY <2>7, AssignOnDesk
  <2> QED
    BY <1>2, <2>1, <2>2, <2>3, <2>4, <2>5, <2>6, <2>7 DEF TicketCalls
<1>3. ASSUME NEW a \in Assignments, AssignmentCalls(a)
      PROVE  Desk!Next \/ UNCHANGED Desk!deskVars
  BY <1>3, AcceptOnDesk, RejectOnDesk, StatusEventOnDesk, CancelOnDesk, MaterialOnDesk
  DEF AssignmentCalls
<1>4. CASE ChangeContract
  BY <1>1, <1>4, ContractIsQuiet DEF ChangeContract
<1>5. CASE UNCHANGED vars
  <2>1. Quiet
    BY <1>5 DEF Inv, vars, Quiet, TypeOK, DraftsAreNew, ReadsAreOld
  <2> QED
    BY <1>1, <1>5, <2>1 DEF vars
<1> QED
  BY <1>2, <1>3, <1>4, <1>5 DEF Next

\* The workflow implements the service desk: one assignee at a time, and only the
\* assignee, or operations while the work goes on, moves a ticket.
THEOREM DeskImplemented == Spec => ImplementsDesk
<1>1. Inv /\ Inv' /\ DraftsOfReporters /\ [Next]_vars => [Desk!Next]_(Desk!deskVars)
  BY StepDesk
<1> QED
  BY <1>1, InitDesk, InitDrafts, StepDrafts, Invariance, PTL DEF Spec, ImplementsDesk, Desk!Spec

(*****************************************************************************)
(* Nobody gets stuck: who can move a ticket on                               *)
(*****************************************************************************)

\* Every assignment is some technician's.
Staffed ==
    \A a \in Assignments :
        assignment[a].status # "ABSENT" => assignment[a].technician \in Technicians

\* The calls about an assignment leave it to its technician.
LEMMA CallsKeepTechnician ==
    ASSUME Inv, NEW a \in Assignments, AssignmentCalls(a), NEW b \in Assignments
    PROVE  /\ assignment'[b].technician = assignment[b].technician
           /\ assignment'[b].status # "ABSENT" => assignment[b].status # "ABSENT"
<1>1. assignment \in [Assignments -> Assignment]
  BY DEF Inv, TypeOK
<1>2. CASE AddMaterial(a)
  BY <1>1, <1>2 DEF AddMaterial, Assignment
<1>3. ASSUME NEW u, Accept(u, a) \/ Reject(u, a) PROVE
           /\ assignment'[b].technician = assignment[b].technician
           /\ assignment'[b].status # "ABSENT" => assignment[b].status # "ABSENT"
  BY <1>1, <1>3 DEF Accept, Reject, MayAnswer, Assignment
<1>4. ASSUME NEW u, CancelAssignedTicket(u, a) PROVE
           /\ assignment'[b].technician = assignment[b].technician
           /\ assignment'[b].status # "ABSENT" => assignment[b].status # "ABSENT"
  BY <1>1, <1>4 DEF CancelAssignedTicket, IsLive, LiveStatuses, Assignment
<1>5. ASSUME NEW u, NEW event \in StatusEvents, ApplyStatusEvent(u, a, event) PROVE
           /\ assignment'[b].technician = assignment[b].technician
           /\ assignment'[b].status # "ABSENT" => assignment[b].status # "ABSENT"
  <2>1. StatusEventRule(event).from # "ABSENT"
    BY Rules DEF SoundRule
  <2>2. PICK row : /\ assignment' = [assignment EXCEPT ![a] = row]
                   /\ row.technician = assignment[a].technician
                   /\ assignment[a].status # "ABSENT"
    BY <1>1, <1>5, <2>1 DEF ApplyStatusEvent, MayReport, Assignment
  <2> QED
    BY <1>1, <2>2
<1> QED
  BY <1>2, <1>3, <1>4, <1>5 DEF AssignmentCalls

LEMMA StepStaffed == Inv /\ Staffed /\ [Next]_vars => Staffed'
<1> SUFFICES ASSUME Inv, Staffed, [Next]_vars, NEW b \in Assignments,
                    assignment'[b].status # "ABSENT"
             PROVE  assignment'[b].technician \in Technicians
  BY DEF Staffed
<1>1. CASE assignment' = assignment
  BY <1>1 DEF Staffed
<1>2. ASSUME NEW a \in Assignments, AssignmentCalls(a)
      PROVE  assignment'[b].technician \in Technicians
  BY <1>2, CallsKeepTechnician DEF Staffed
<1>3. ASSUME NEW u \in Operators, NEW t \in Tickets, NEW w \in Technicians,
             AssignTechnician(u, t, w)
      PROVE  assignment'[b].technician \in Technicians
  <2>1. PICK a \in Assignments : AssignedAnew(t, w, a)
    BY <1>3, AssignIsNew
  <2>2. CASE b = a
    BY <2>1, <2>2 DEF AssignedAnew, NewAssignment
  <2>3. CASE b # a
    <3>1. assignment[b] \in Assignment
      BY DEF Inv, TypeOK
    <3>2. /\ assignment'[b].technician = assignment[b].technician
          /\ assignment[b].status = "ABSENT" => assignment'[b] = assignment[b]
      <4>1. \/ assignment'[b] = assignment[b]
            \/ /\ assignment'[b] = Superseded(assignment[b], ticket[t].status)
               /\ assignment[b].current
        BY <2>1, <2>3 DEF AssignedAnew
      <4>2. assignment[b].current => assignment[b].status # "ABSENT"
        BY <3>1 DEF Inv, CurrentIsLive, IsLive, LiveStatuses
      <4> QED
        BY <3>1, <4>1, <4>2 DEF Superseded, Assignment
    <3> QED
      BY <3>2 DEF Staffed
  <2> QED
    BY <2>2, <2>3
<1> QED
  BY <1>1, <1>2, <1>3
  DEF Next, vars, ChangeContract, TicketCalls, PrepareTicket, EditTicket, InsertTicket,
      InsertTicketFails, MoveDirectly, ReadTicket

\* What TRANSITIONS lets operations do.
LEMMA OperatorsMove ==
    ASSUME NEW u \in Operators
    PROVE  /\ MayMove(u, "OPEN", "TRIAGED", TRUE) /\ MayMove(u, "COMPLETED", "CLOSED", TRUE)
           /\ MayMove(u, "TRIAGED", "ASSIGNED", FALSE) /\ MayMove(u, "REJECTED", "ASSIGNED", FALSE)
           /\ MayMove(u, "IN_PROGRESS", "WAITING_MATERIAL", FALSE)
           /\ MayMove(u, "WAITING_MATERIAL", "IN_PROGRESS", FALSE)
  BY DEF MayMove, Transitions, NeedsReason

\* What it lets technicians do once they have accepted.
LEMMA TechniciansMove ==
    ASSUME NEW u \in Technicians
    PROVE  /\ MayMove(u, "ACCEPTED", "EN_ROUTE", FALSE) /\ MayMove(u, "EN_ROUTE", "ARRIVED", FALSE)
           /\ MayMove(u, "ARRIVED", "IN_PROGRESS", FALSE)
           /\ MayMove(u, "IN_PROGRESS", "WAITING_MATERIAL", FALSE)
           /\ MayMove(u, "WAITING_MATERIAL", "IN_PROGRESS", FALSE)
  BY DEF MayMove, Transitions, NeedsReason

\* The events that make these moves.
LEMMA WorkEvents ==
    /\ StatusEventRule("EN_ROUTE").from = "ACCEPTED"
    /\ StatusEventRule("EN_ROUTE").ticketTo = "EN_ROUTE"
    /\ StatusEventRule("ARRIVED").from = "ACTIVE"
    /\ StatusEventRule("ARRIVED").ticketTo = "ARRIVED"
    /\ StatusEventRule("START").from = "ACTIVE"
    /\ StatusEventRule("START").ticketTo = "IN_PROGRESS"
    /\ StatusEventRule("WAIT_MATERIAL").from = "ACTIVE"
    /\ StatusEventRule("WAIT_MATERIAL").ticketTo = "WAITING_MATERIAL"
    /\ StatusEventRule("RESUME").from = "ACTIVE"
    /\ StatusEventRule("RESUME").ticketTo = "IN_PROGRESS"
  BY DEF StatusEventRule, Rule

\* The statuses in which a technician has the ticket.
Taken == {"ACCEPTED"} \cup Working

\* A ticket that is taken has one live assignment, of its assignee.
LEMMA TakenIsLive ==
    ASSUME Inv, Staffed, NEW t \in Tickets, ticket[t].status \in Taken
    PROVE  \E a \in LiveOf(t) :
              /\ LiveOf(t) = {a}
              /\ AssigneeOf(t) = assignment[a].technician /\ AssigneeOf(t) \in Technicians
              /\ assignment[a].status = IF ticket[t].status = "ACCEPTED" THEN "ACCEPTED"
                                        ELSE "ACTIVE"
<1>1. AgreeOn(assignment, t, ExpectedLive(ticket[t].status))
  BY AgreeByRow DEF Inv
<1>2. ExpectedLive(ticket[t].status) =
        {IF ticket[t].status = "ACCEPTED" THEN "ACCEPTED" ELSE "ACTIVE"}
  BY DEF ExpectedLive, Taken, Working
<1>3. PICK a \in Assignments : LiveIn(assignment, t, a)
  BY <1>1, <1>2 DEF AgreeOn
<1>4. LiveOf(t) = {a}
  BY <1>1, <1>3 DEF AgreeOn, LiveIn, LiveOf, IsLive
<1>5. AssigneeOf(t) = assignment[a].technician
  BY <1>3, AssigneeNow DEF Inv
<1>6. assignment[a].technician \in Technicians
  BY <1>3 DEF Staffed, LiveIn, LiveStatuses
<1> QED
  BY <1>1, <1>2, <1>3, <1>4, <1>5, <1>6 DEF AgreeOn

\* Nothing but an event of its assignment moves a ticket that is taken.
LEMMA TakenMoves ==
    ASSUME Inv, NEW t \in Tickets, ticket[t].status \in Taken,
           NEW a, LiveOf(t) = {a}, assignment[a].status \in {"ACCEPTED", "ACTIVE"},
           NEW u \in Users
    PROVE  MovesOn(u, t) <=>
              \E event \in StatusEvents :
                  /\ MayReport(u, a, event)
                  /\ MayMove(u, ticket[t].status, StatusEventRule(event).ticketTo, FALSE)
<1>1. ~MayAssign(u, t)
  BY DEF MayAssign, Taken, Working
<1>2. \A to : ~MayMoveDirectly(u, t, to)
  BY DEF MayMoveDirectly, DirectTransitions, Taken, Working
<1>3. ~MayAnswer(u, a)
  BY DEF MayAnswer
<1> QED
  BY <1>1, <1>2, <1>3 DEF MovesOn

LEMMA EventsHappen ==
    "EN_ROUTE" \in StatusEvents /\ "ARRIVED" \in StatusEvents /\ "START" \in StatusEvents
    /\ "WAIT_MATERIAL" \in StatusEvents /\ "RESUME" \in StatusEvents
  BY DEF StatusEvents

\* The next event of the way to the site, and one while the work goes on.
NextEvent(status) ==
    CASE status = "ACCEPTED" -> "EN_ROUTE"
      [] status = "EN_ROUTE" -> "ARRIVED"
      [] status = "ARRIVED" -> "START"
      [] status = "IN_PROGRESS" -> "WAIT_MATERIAL"
      [] status = "WAITING_MATERIAL" -> "RESUME"

LEMMA NextEventMoves ==
    ASSUME NEW status \in Taken, NEW u,
           u \in Technicians \/ (u \in Operators /\ status \in {"IN_PROGRESS", "WAITING_MATERIAL"})
    PROVE  /\ NextEvent(status) \in StatusEvents
           /\ StatusEventRule(NextEvent(status)).from =
                 IF status = "ACCEPTED" THEN "ACCEPTED" ELSE "ACTIVE"
           /\ MayMove(u, status, StatusEventRule(NextEvent(status)).ticketTo, FALSE)
<1>1. CASE status = "ACCEPTED"
  BY <1>1, WorkEvents, EventsHappen, TechniciansMove DEF NextEvent
<1>2. CASE status = "EN_ROUTE"
  BY <1>2, WorkEvents, EventsHappen, TechniciansMove DEF NextEvent
<1>3. CASE status = "ARRIVED"
  BY <1>3, WorkEvents, EventsHappen, TechniciansMove DEF NextEvent
<1>4. CASE status = "IN_PROGRESS"
  BY <1>4, WorkEvents, EventsHappen, TechniciansMove, OperatorsMove DEF NextEvent
<1>5. CASE status = "WAITING_MATERIAL"
  BY <1>5, WorkEvents, EventsHappen, TechniciansMove, OperatorsMove DEF NextEvent
<1> QED
  BY <1>1, <1>2, <1>3, <1>4, <1>5 DEF Taken, Working

\* On the way to the site operations have no move.
LEMMA WayIsTheTechnicians ==
    ASSUME NEW status \in {"ACCEPTED", "EN_ROUTE", "ARRIVED"}, NEW u \in Users, NEW to,
           NEW reason, MayMove(u, status, to, reason)
    PROVE  u \in Technicians /\ u \notin Operators
  BY RolesAssumption DEF MayMove, Transitions

LEMMA MoversOfTaken ==
    ASSUME Inv, Staffed, NEW t \in Tickets, ticket[t].status \in Taken
    PROVE  /\ AssigneeOf(t) \in Technicians
           /\ {u \in Users : MovesOn(u, t)} =
                 {AssigneeOf(t)} \cup
                 (IF ticket[t].status \in {"IN_PROGRESS", "WAITING_MATERIAL"} THEN Operators
                  ELSE {})
<1>1. PICK a \in LiveOf(t) :
          /\ LiveOf(t) = {a}
          /\ AssigneeOf(t) = assignment[a].technician /\ AssigneeOf(t) \in Technicians
          /\ assignment[a].status = IF ticket[t].status = "ACCEPTED" THEN "ACCEPTED"
                                    ELSE "ACTIVE"
  BY TakenIsLive
<1>2. PICK status \in Taken : status = ticket[t].status
  OBVIOUS
<1>3. ASSUME NEW u \in Users
      PROVE  MovesOn(u, t) <=>
                \E event \in StatusEvents :
                    /\ MayReport(u, a, event)
                    /\ MayMove(u, status, StatusEventRule(event).ticketTo, FALSE)
  BY <1>1, <1>2, TakenMoves
<1>4. ASSUME NEW u \in Users, MovesOn(u, t)
      PROVE  u = AssigneeOf(t) \/ (u \in Operators /\ status \in {"IN_PROGRESS", "WAITING_MATERIAL"})
  <2>1. PICK event \in StatusEvents :
            /\ MayReport(u, a, event)
            /\ MayMove(u, status, StatusEventRule(event).ticketTo, FALSE)
    BY <1>3, <1>4
  <2>2. u \in Operators \/ u = AssigneeOf(t)
    BY <1>1, <2>1 DEF MayReport
  <2>3. status \in {"ACCEPTED", "EN_ROUTE", "ARRIVED"} => u \notin Operators
    BY <2>1, WayIsTheTechnicians
  <2> QED
    BY <2>2, <2>3 DEF Taken, Working
<1>5. ASSUME NEW u \in Users,
             u = AssigneeOf(t) \/ (u \in Operators /\ status \in {"IN_PROGRESS", "WAITING_MATERIAL"})
      PROVE  MovesOn(u, t)
  <2>1. u \in Technicians \/ (u \in Operators /\ status \in {"IN_PROGRESS", "WAITING_MATERIAL"})
    BY <1>1, <1>5
  <2>2. PICK event \in StatusEvents :
            /\ StatusEventRule(event).from = IF status = "ACCEPTED" THEN "ACCEPTED" ELSE "ACTIVE"
            /\ MayMove(u, status, StatusEventRule(event).ticketTo, FALSE)
    BY <2>1, NextEventMoves
  <2>3. MayReport(u, a, event)
    BY <1>1, <1>2, <1>5, <2>2 DEF MayReport
  <2> QED
    BY <1>3, <2>2, <2>3
<1> QED
  BY <1>1, <1>2, <1>4, <1>5 DEF Users

\* What a ticket that nobody has taken, or that is over, waits for.
LEMMA MoversOfOthers ==
    ASSUME Inv, NEW t \in Tickets, ticket[t].status \notin Taken
    PROVE  IF ticket[t].status \in {"ABSENT", "CLOSED", "CANCELLED"}
           THEN \A u \in Users : ~MovesOn(u, t)
           ELSE \A u \in Operators : MovesOn(u, t)
<1>1. ticket[t].status \in TicketStatuses \cup {"ABSENT"}
  BY DEF Inv, TypeOK, Ticket
<1>2. PICK status : status = ticket[t].status
  OBVIOUS
<1>3. ASSUME status \in {"ABSENT", "CLOSED", "CANCELLED"}, NEW u \in Users
      PROVE  ~MovesOn(u, t)
  <2>1. \A to, reason : ~MayMove(u, status, to, reason)
    BY <1>3 DEF MayMove, Transitions
  <2>2. ~MayAssign(u, t)
    BY <1>2, <1>3 DEF MayAssign
  <2> QED
    BY <1>2, <2>1, <2>2 DEF MovesOn
<1>4. ASSUME status \in {"TRIAGED", "ASSIGNED", "REJECTED"}, NEW u \in Operators
      PROVE  MovesOn(u, t)
  BY <1>2, <1>4, OperatorsMove DEF MovesOn, MayAssign
<1>5. ASSUME NEW to \in {"TRIAGED", "CLOSED"}, NEW u \in Operators,
             status = IF to = "TRIAGED" THEN "OPEN" ELSE "COMPLETED"
      PROVE  MovesOn(u, t)
  <2>1. MayMoveDirectly(u, t, to) /\ to \in TicketStatuses
    BY <1>2, <1>5 DEF MayMoveDirectly, DirectTransitions, TicketStatuses
  <2>2. MayMove(u, status, to, TRUE)
    BY <1>5, OperatorsMove
  <2> QED
    BY <1>2, <2>1, <2>2 DEF MovesOn
<1> QED
  BY <1>1, <1>2, <1>3, <1>4, <1>5 DEF TicketStatuses, Taken, Working

\* Whatever calls come, and however late, every ticket has somebody who can move it on
\* until it is over: operations, or its one technician, and from the acceptance to the
\* start of the work nobody else (TRANSITIONS, assignTechnician, applyStatusEvent).
THEOREM AlwaysAWayOn == Spec => []NoDeadEnd
<1>1. Init => Staffed
  BY DEF Init, Staffed
<1>2. Inv /\ Staffed => NoDeadEnd
  <2> SUFFICES ASSUME Inv, Staffed PROVE NoDeadEnd
    OBVIOUS
  <2>1. \A t \in Tickets :
          IF ticket[t].status \in Taken
          THEN /\ AssigneeOf(t) \in Technicians
               /\ {u \in Users : MovesOn(u, t)} =
                     {AssigneeOf(t)} \cup
                     (IF ticket[t].status \in {"IN_PROGRESS", "WAITING_MATERIAL"}
                      THEN Operators ELSE {})
          ELSE IF ticket[t].status \in {"ABSENT", "CLOSED", "CANCELLED"}
          THEN {u \in Users : MovesOn(u, t)} = {}
          ELSE Operators \subseteq {u \in Users : MovesOn(u, t)}
    BY MoversOfTaken, MoversOfOthers DEF Users
  <2> QED
    BY <2>1 DEF NoDeadEnd, Taken, Working
<1> QED
  BY <1>1, <1>2, StepStaffed, Invariance, PTL DEF Spec
=============================================================================
