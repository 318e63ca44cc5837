--------------------------- MODULE ContractBilling ---------------------------
(*****************************************************************************)
(* Contracts of one site and their invoices: ContractService,                *)
(* InvoiceService and the two daily scans over what they keep.               *)
(*                                                                           *)
(* PATCH of a contract locks its row, checks what it read and then updates   *)
(* it: two steps, because its overlap check reads rows it has not locked.    *)
(* What that check may miss is left to the exclusion constraint, and the     *)
(* database checks a termination once more by a trigger.  A transaction that *)
(* needs a locked row waits.  The other handlers read nothing that may       *)
(* change before they write: they are one step.                              *)
(*                                                                           *)
(* Each process runs both scans; between a scan's query and the transaction  *)
(* of one candidate anything may happen to the row.  Fees, texts, payment    *)
(* details and the other columns no rule below reads are left out, and so    *)
(* are the audit and outbox rows but for the warnings the scans publish.     *)
(*****************************************************************************)
EXTENDS BillingCalendar, FiniteSets

CONSTANTS
    Contracts,    \* contracts of the site
    NoContract,   \* no contract
    Invoices,     \* invoices
    Currencies,   \* currencies
    Clients,      \* PATCH requests of operations in flight at once
    WarnJobs,     \* instances of ContractExpiringScanJob, one per process
    DueJobs,      \* instances of InvoiceOverdueScanJob, one per process
    LeadDays,     \* CONTRACT_EXPIRY_LEAD_DAYS
    ChunkLimit,   \* CHUNK_LIMIT: candidates one query of a scan returns
    DueDays,      \* due dates that invoices get
    MaxDay        \* bound: last day of the calendar

ASSUME ContractAssumption == NoContract \notin Contracts
ASSUME CalendarAssumption == LeadDays \in Nat /\ MaxDay \in Nat /\ DueDays \subseteq 0 .. MaxDay
ASSUME ChunkLimitAssumption == ChunkLimit \in Nat \ {0}

VARIABLES
    today,        \* utcToday()
    contract,     \* contract[c]: the row of contract c
    patch,        \* patch[k]: what the open PATCH transaction of k will write
    warnings,     \* warnings[c]: ContractExpiring events since c was last
                  \* activated, suspended or given its end date (history)
    warnTodo,     \* warnTodo[p]: candidates left to ContractExpiringScanJob of p
    invoice,      \* invoice[i]: the row of invoice i
    reminders,    \* reminders[i]: InvoiceOverdue events for i (history)
    dueTodo       \* dueTodo[p]: candidates left to InvoiceOverdueScanJob of p

contractVars == <<contract, patch, warnings, warnTodo>>
invoiceVars == <<invoice, reminders, dueTodo>>
vars == <<today, contractVars, invoiceVars>>

Days == 0 .. MaxDay

ContractStatuses == {"ABSENT", "DRAFT", "ACTIVE", "SUSPENDED", "EXPIRED", "TERMINATED"}
ContractRow == [status : ContractStatuses, start : Days, end : Days,
                currency : Currencies \cup {"none"}, terminated : Days \cup {NoDay},
                notified : BOOLEAN]
\* chk_contract_termination_consistency
Contract == {row \in ContractRow : row.status = "TERMINATED" <=> row.terminated # NoDay}
AbsentContract == [status |-> "ABSENT", start |-> 0, end |-> 0, currency |-> "none",
                   terminated |-> NoDay, notified |-> FALSE]

Patch == [contract : Contracts \cup {NoContract}, status : ContractStatuses,
          end : Days, currency : Currencies \cup {"none"}, terminated : Days \cup {NoDay}]
NoPatch == [contract |-> NoContract, status |-> "ABSENT", end |-> 0,
            currency |-> "none", terminated |-> NoDay]

InvoiceStatuses == {"ABSENT", "DRAFT", "ISSUED", "PAID", "OVERDUE", "CANCELLED"}
Invoice == [status : InvoiceStatuses, contract : Contracts \cup {NoContract},
            from : Days, to : Days \cup {MaxDay + 1}, due : DueDays \cup {NoDay},
            currency : Currencies \cup {"none"}]
AbsentInvoice == [status |-> "ABSENT", contract |-> NoContract, from |-> 0, to |-> 0,
                  due |-> NoDay, currency |-> "none"]

TypeOK ==
    /\ today \in Days
    /\ contract \in [Contracts -> Contract]
    /\ patch \in [Clients -> Patch]
    /\ warnings \in [Contracts -> Nat]
    /\ warnTodo \in [WarnJobs -> SUBSET Contracts]
    /\ invoice \in [Invoices -> Invoice]
    /\ reminders \in [Invoices -> Nat]
    /\ dueTodo \in [DueJobs -> SUBSET Invoices]

Init ==
    /\ today = 0
    /\ contract = [c \in Contracts |-> AbsentContract]
    /\ patch = [k \in Clients |-> NoPatch]
    /\ warnings = [c \in Contracts |-> 0]
    /\ warnTodo = [p \in WarnJobs |-> {}]
    /\ invoice = [i \in Invoices |-> AbsentInvoice]
    /\ reminders = [i \in Invoices |-> 0]
    /\ dueTodo = [p \in DueJobs |-> {}]

\* Midnight, UTC.
NextDay ==
    /\ today < MaxDay
    /\ today' = today + 1
    /\ UNCHANGED <<contractVars, invoiceVars>>

-----------------------------------------------------------------------------
(* ContractService *)

\* A row some PATCH transaction holds FOR UPDATE.
Locked(c) == \E k \in Clients : patch[k].contract = c

InForce == {"ACTIVE", "SUSPENDED"}

\* hasActiveOverlap, and the predicate of excl_contracts_active_overlap.
Overlaps(c, start, end) ==
    \E d \in Contracts \ {c} :
        /\ contract[d].status \in InForce
        /\ RangesMeet(contract[d].start, contract[d].end, start, end)

\* A draft overlaps drafts freely; the constraint knows no drafts.
CreateContract(c, start, end, currency) ==
    /\ contract[c].status = "ABSENT"
    /\ start < end
    /\ ~Overlaps(c, start, end)
    /\ contract' = [contract EXCEPT ![c] =
          [status |-> "DRAFT", start |-> start, end |-> end, currency |-> currency,
           terminated |-> NoDay, notified |-> FALSE]]
    /\ UNCHANGED <<today, patch, warnings, warnTodo, invoiceVars>>

\* assertTransition, for the end date the row will have.
ContractTransitions ==
    {<<"DRAFT", "ACTIVE">>, <<"DRAFT", "TERMINATED">>,
     <<"ACTIVE", "SUSPENDED">>, <<"ACTIVE", "EXPIRED">>, <<"ACTIVE", "TERMINATED">>,
     <<"SUSPENDED", "ACTIVE">>, <<"SUSPENDED", "EXPIRED">>, <<"SUSPENDED", "TERMINATED">>}
MayBecome(from, to, end) ==
    /\ <<from, to>> \in ContractTransitions
    /\ to = "ACTIVE" => end >= today
    /\ to = "EXPIRED" => end < today

\* A faulty variant: any contract that is not over may be changed in any way.
MutableUntilOver(row, end, currency) ==
    row.status \in {"EXPIRED", "TERMINATED"} => end = row.end /\ currency = row.currency

\* assertFieldMutability: a contract in force is only ever extended, one that is
\* over keeps its end, and the currency is settled when the draft is left.
Mutable(row, end, currency) ==
    /\ row.status # "DRAFT" => currency = row.currency
    /\ row.status \in InForce => end >= row.end
    /\ row.status \in {"EXPIRED", "TERMINATED"} => end = row.end

\* A faulty variant: paid invoices do not keep a contract from ending earlier.
UnpaidBeyond(c, windowEnd) ==
    {i \in Invoices : /\ invoice[i].contract = c
                      /\ invoice[i].status \notin {"CANCELLED", "PAID"}
                      /\ invoice[i].to > windowEnd}

\* countNonCancelledInvoicesBeyond; the trigger counts the same rows.
InvoicesBeyond(c, windowEnd) ==
    {i \in Invoices : /\ invoice[i].contract = c
                      /\ invoice[i].status # "CANCELLED"
                      /\ invoice[i].to > windowEnd}
TerminationConflict(c, status, end, terminated) ==
    status = "TERMINATED" /\ InvoicesBeyond(c, WindowEnd(end, terminated)) # {}

\* update up to its write.  A status, end or currency equal to the row's stands
\* for one the request leaves out; a PATCH of the other fields changes nothing
\* here.
BeginPatch(k, c, status, end, currency) ==
    LET row == contract[c]
        terminated == IF status # row.status /\ status = "TERMINATED" THEN today ELSE NoDay
    IN  /\ patch[k] = NoPatch
        /\ row.status # "ABSENT" /\ ~Locked(c)
        /\ <<status, end, currency>> # <<row.status, row.end, row.currency>>
        /\ Mutable(row, end, currency)
        /\ end > row.start
        /\ status # row.status => MayBecome(row.status, status, end)
        /\ terminated # NoDay => ~TerminationConflict(c, status, end, terminated)
        /\ status \in InForce \/ end # row.end => ~Overlaps(c, row.start, end)
        /\ patch' = [patch EXCEPT ![k] =
              [contract |-> c, status |-> status, end |-> end, currency |-> currency,
               terminated |-> terminated]]
        /\ UNCHANGED <<today, contract, warnings, warnTodo, invoiceVars>>

\* The row a PATCH writes: a new end date, or a way into ACTIVE, brings a new
\* chance of a warning.
Patched(row, new) ==
    [row EXCEPT !.status = new.status, !.end = new.end, !.currency = new.currency,
                !.terminated = new.terminated,
                !.notified = IF new.end # row.end
                                \/ (new.status = "ACTIVE" /\ row.status # "ACTIVE")
                             THEN FALSE ELSE row.notified]

\* A faulty variant: no exclusion constraint behind the overlap check.
CommitPatchUnconstrained(k) ==
    LET c == patch[k].contract IN
    /\ patch[k] # NoPatch
    /\ contract' = [contract EXCEPT ![c] = Patched(contract[c], patch[k])]
    /\ warnings' = [warnings EXCEPT ![c] =
          IF patch[k].end # contract[c].end \/ patch[k].status # contract[c].status
          THEN 0 ELSE @]
    /\ patch' = [patch EXCEPT ![k] = NoPatch]
    /\ UNCHANGED <<today, warnTodo, invoiceVars>>

\* The UPDATE and its COMMIT, past excl_contracts_active_overlap and
\* trg_contract_termination_invoice_conflict.
CommitPatch(k) ==
    LET c == patch[k].contract IN
    /\ patch[k] # NoPatch
    /\ patch[k].status \in InForce => ~Overlaps(c, contract[c].start, patch[k].end)
    /\ ~TerminationConflict(c, patch[k].status, patch[k].end, patch[k].terminated)
    /\ contract' = [contract EXCEPT ![c] = Patched(contract[c], patch[k])]
    /\ warnings' = [warnings EXCEPT ![c] =
          IF patch[k].end # contract[c].end \/ patch[k].status # contract[c].status
          THEN 0 ELSE @]
    /\ patch' = [patch EXCEPT ![k] = NoPatch]
    /\ UNCHANGED <<today, warnTodo, invoiceVars>>

\* A constraint refuses the UPDATE, or the transaction fails otherwise.
AbortPatch(k) ==
    /\ patch[k] # NoPatch
    /\ patch' = [patch EXCEPT ![k] = NoPatch]
    /\ UNCHANGED <<today, contract, warnings, warnTodo, invoiceVars>>

-----------------------------------------------------------------------------
(* ContractExpiringScanJob.  A run reads a chunk of candidates, without      *)
(* locks, works through it, and reads again at once if the chunk was full;   *)
(* otherwise the next tick does.  Either way it reads when nothing is left   *)
(* to do, and no tick starts a second run meanwhile (isRunning).             *)

\* ORDER BY date LIMIT ChunkLimit; rows of one date come in any order.
Chunks(S, date) ==
    {T \in SUBSET S :
        /\ Cardinality(T) = ChunkLimit \/ (T = S /\ Cardinality(S) < ChunkLimit)
        /\ \A x \in T, y \in S \ T : date[x] <= date[y]}

\* findExpiringSoonAcrossSites; markExpiringNotifiedBySystem checks the same of
\* the row it has locked.
Expiring(c) ==
    /\ contract[c].status = "ACTIVE" /\ ~contract[c].notified
    /\ today <= contract[c].end /\ contract[c].end <= today + LeadDays

ReadExpiring(p) ==
    /\ warnTodo[p] = {}
    /\ \E T \in Chunks({c \in Contracts : Expiring(c)},
                       [c \in Contracts |-> contract[c].end]) :
          warnTodo' = [warnTodo EXCEPT ![p] = T]
    /\ UNCHANGED <<today, contract, patch, warnings, invoiceVars>>

\* A faulty variant trusts the candidate list.
WarnUnchecked(p, c) ==
    /\ c \in warnTodo[p] /\ ~Locked(c)
    /\ contract' = [contract EXCEPT ![c].notified = TRUE]
    /\ warnings' = [warnings EXCEPT ![c] = @ + 1]
    /\ warnTodo' = [warnTodo EXCEPT ![p] = @ \ {c}]
    /\ UNCHANGED <<today, patch, invoiceVars>>

\* markExpiringNotifiedBySystem
Warn(p, c) ==
    /\ c \in warnTodo[p] /\ ~Locked(c)
    /\ IF Expiring(c)
       THEN /\ contract' = [contract EXCEPT ![c].notified = TRUE]
            /\ warnings' = [warnings EXCEPT ![c] = @ + 1]
       ELSE UNCHANGED <<contract, warnings>>
    /\ warnTodo' = [warnTodo EXCEPT ![p] = @ \ {c}]
    /\ UNCHANGED <<today, patch, invoiceVars>>

\* Its transaction fails; the scan goes on.
WarnFails(p, c) ==
    /\ c \in warnTodo[p]
    /\ warnTodo' = [warnTodo EXCEPT ![p] = @ \ {c}]
    /\ UNCHANGED <<today, contract, patch, warnings, invoiceVars>>

-----------------------------------------------------------------------------
(* InvoiceService *)

IsCharged(i) == invoice[i].status \notin {"ABSENT", "CANCELLED"}

\* hasOverlappingPeriod
PeriodTaken(c, from, to) ==
    \E i \in Invoices :
        /\ invoice[i].contract = c /\ IsCharged(i)
        /\ PeriodsMeet(invoice[i].from, invoice[i].to, from, to)

\* create, under the lock of the contract row.
CreateInvoice(i, c, from, to, due) ==
    LET row == contract[c] IN
    /\ invoice[i].status = "ABSENT"
    /\ ~Locked(c)
    /\ row.status \notin {"ABSENT", "DRAFT", "SUSPENDED"}
    /\ from < to
    /\ row.start <= from
    /\ to <= WindowEnd(row.end, row.terminated)
    /\ ~PeriodTaken(c, from, to)
    /\ invoice' = [invoice EXCEPT ![i] =
          [status |-> "DRAFT", contract |-> c, from |-> from, to |-> to, due |-> due,
           currency |-> row.currency]]
    /\ UNCHANGED <<today, contractVars, reminders, dueTodo>>

\* assertTransition (the other set is a faulty variant: a cancelled invoice may be
\* issued after all).
RevivingTransitions ==
    {<<"DRAFT", "ISSUED">>, <<"DRAFT", "CANCELLED">>, <<"ISSUED", "PAID">>,
     <<"ISSUED", "CANCELLED">>, <<"OVERDUE", "PAID">>, <<"OVERDUE", "CANCELLED">>,
     <<"CANCELLED", "ISSUED">>}
InvoiceTransitions ==
    {<<"DRAFT", "ISSUED">>, <<"DRAFT", "CANCELLED">>, <<"ISSUED", "PAID">>,
     <<"ISSUED", "CANCELLED">>, <<"OVERDUE", "PAID">>, <<"OVERDUE", "CANCELLED">>}

\* changeStatus locks the invoice and not its contract.
ChangeInvoiceStatus(i, to) ==
    /\ <<invoice[i].status, to>> \in InvoiceTransitions
    /\ invoice' = [invoice EXCEPT ![i].status = to]
    /\ UNCHANGED <<today, contractVars, reminders, dueTodo>>

-----------------------------------------------------------------------------
(* InvoiceOverdueScanJob *)

\* A faulty variant: a day of grace.
PastDueByTwo(i) == invoice[i].status = "ISSUED" /\ invoice[i].due + 1 < today

\* findOverdueCandidatesAcrossSites, and the check of markOverdueBySystem.
PastDue(i) == invoice[i].status = "ISSUED" /\ invoice[i].due < today

ReadPastDue(p) ==
    /\ dueTodo[p] = {}
    /\ \E T \in Chunks({i \in Invoices : PastDue(i)},
                       [i \in Invoices |-> invoice[i].due]) :
          dueTodo' = [dueTodo EXCEPT ![p] = T]
    /\ UNCHANGED <<today, contractVars, invoice, reminders>>

\* A faulty variant trusts the candidate list.
MarkOverdueUnchecked(p, i) ==
    /\ i \in dueTodo[p]
    /\ invoice' = [invoice EXCEPT ![i].status = "OVERDUE"]
    /\ reminders' = [reminders EXCEPT ![i] = @ + 1]
    /\ dueTodo' = [dueTodo EXCEPT ![p] = @ \ {i}]
    /\ UNCHANGED <<today, contractVars>>

\* markOverdueBySystem
MarkOverdue(p, i) ==
    /\ i \in dueTodo[p]
    /\ IF PastDue(i)
       THEN /\ invoice' = [invoice EXCEPT ![i].status = "OVERDUE"]
            /\ reminders' = [reminders EXCEPT ![i] = @ + 1]
       ELSE UNCHANGED <<invoice, reminders>>
    /\ dueTodo' = [dueTodo EXCEPT ![p] = @ \ {i}]
    /\ UNCHANGED <<today, contractVars>>

MarkOverdueFails(p, i) ==
    /\ i \in dueTodo[p]
    /\ dueTodo' = [dueTodo EXCEPT ![p] = @ \ {i}]
    /\ UNCHANGED <<today, contractVars, invoice, reminders>>

\* The process dies, or its query throws, and the run is over.
WarnCrash(p) ==
    /\ warnTodo[p] # {}
    /\ warnTodo' = [warnTodo EXCEPT ![p] = {}]
    /\ UNCHANGED <<today, contract, patch, warnings, invoiceVars>>
DueCrash(p) ==
    /\ dueTodo[p] # {}
    /\ dueTodo' = [dueTodo EXCEPT ![p] = {}]
    /\ UNCHANGED <<today, contractVars, invoice, reminders>>

-----------------------------------------------------------------------------

ContractCalls ==
    \/ \E c \in Contracts, start \in Days, end \in Days, currency \in Currencies :
          CreateContract(c, start, end, currency)
    \/ \E k \in Clients, c \in Contracts, status \in ContractStatuses, end \in Days,
          currency \in Currencies : BeginPatch(k, c, status, end, currency)
    \/ \E k \in Clients : CommitPatch(k) \/ AbortPatch(k)

InvoiceCalls ==
    \/ \E i \in Invoices, c \in Contracts, from \in Days, to \in Days \cup {MaxDay + 1},
          due \in DueDays : CreateInvoice(i, c, from, to, due)
    \/ \E i \in Invoices, to \in InvoiceStatuses : ChangeInvoiceStatus(i, to)

WarnSteps(p) ==
    \/ ReadExpiring(p)
    \/ \E c \in Contracts : Warn(p, c) \/ WarnFails(p, c)
    \/ WarnCrash(p)

DueSteps(p) ==
    \/ ReadPastDue(p)
    \/ \E i \in Invoices : MarkOverdue(p, i) \/ MarkOverdueFails(p, i)
    \/ DueCrash(p)

Next ==
    \/ NextDay
    \/ ContractCalls
    \/ InvoiceCalls
    \/ \E p \in WarnJobs : WarnSteps(p)
    \/ \E p \in DueJobs : DueSteps(p)

Spec == Init /\ [][Next]_vars

(*****************************************************************************)
(* The cron of some process ticks every day, and neither a crash nor a       *)
(* failing transaction hits the same row every time.                         *)
(*****************************************************************************)
Fairness ==
    /\ SF_vars(\E p \in DueJobs : ReadPastDue(p))
    /\ \A i \in Invoices : SF_vars(\E p \in DueJobs : MarkOverdue(p, i))

FairSpec == Spec /\ Fairness

-----------------------------------------------------------------------------
(* Properties *)

\* Two contracts of the site are never in force for one day, even when two of
\* them are activated, extended or resumed at once (update, the exclusion
\* constraint).
InForceDisjoint ==
    \A c, d \in Contracts :
        c # d /\ contract[c].status \in InForce /\ contract[d].status \in InForce =>
            ~RangesMeet(contract[c].start, contract[c].end,
                        contract[d].start, contract[d].end)

\* What is charged stays chargeable: whatever becomes of the contract after an
\* invoice was made, its period lies within the contract, and not after the day
\* the contract was terminated.
ChargedWithinContract ==
    \A i \in Invoices : IsCharged(i) =>
        LET row == contract[invoice[i].contract]
        IN  /\ row.status \notin {"ABSENT", "DRAFT"}
            /\ row.start <= invoice[i].from /\ invoice[i].to <= row.end + 1
            /\ row.status = "TERMINATED" => invoice[i].to <= row.terminated + 1

\* No day of a contract is charged twice, although cancelled invoices make room
\* for new ones (hasOverlappingPeriod, the transitions of invoices).
ChargedOnce ==
    \A i, j \in Invoices :
        i # j /\ IsCharged(i) /\ IsCharged(j) /\ invoice[i].contract = invoice[j].contract =>
            ~PeriodsMeet(invoice[i].from, invoice[i].to, invoice[j].from, invoice[j].to)

\* An invoice, cancelled or not, is in the currency its contract has now.
OneCurrency ==
    \A i \in Invoices : invoice[i].status # "ABSENT" =>
        invoice[i].currency = contract[invoice[i].contract].currency

\* A contract in ACTIVE is marked as warned exactly when one warning went out for
\* this end date since it last became ACTIVE, whatever two scans and a PATCH do
\* to it between a scan's query and its transaction.
MarkedIsWarned ==
    \A c \in Contracts : contract[c].status = "ACTIVE" =>
        warnings[c] = (IF contract[c].notified THEN 1 ELSE 0)

\* Nobody is reminded twice of one invoice, nor of one that was never issued.
RemindedOnce ==
    \A i \in Invoices :
        /\ reminders[i] <= 1
        /\ invoice[i].status = "OVERDUE" => reminders[i] = 1
        /\ invoice[i].status \in {"ABSENT", "DRAFT", "ISSUED"} => reminders[i] = 0

\* How a contract and an invoice look to the site.
ServiceOf(status) ==
    CASE status \in {"ABSENT", "DRAFT"} -> "none"
      [] status = "ACTIVE" -> "running"
      [] status = "SUSPENDED" -> "paused"
      [] OTHER -> "over"
TermOf(row) ==
    IF row.status \in {"ABSENT", "DRAFT"} THEN {}
    ELSE row.start .. (WindowEnd(row.end, row.terminated) - 1)
ChargeOf(row) ==
    IF row.status \in {"ABSENT", "CANCELLED"} THEN {}
    ELSE {row.contract} \X (row.from .. (row.to - 1))

Services == [c \in Contracts |-> ServiceOf(contract[c].status)]
Terms == [c \in Contracts |-> TermOf(contract[c])]
Bills == [i \in Invoices |-> invoice[i].status]
Charges == [i \in Invoices |-> ChargeOf(invoice[i])]

Account == INSTANCE SiteAccount WITH
    service <- Services, term <- Terms, bill <- Bills, charge <- Charges

\* Whatever PATCHes, invoices and scans of the site interleave, it looks to the site as
\* in SiteAccount: service and charges change in single steps, a term in force only
\* grows, and a charge is only taken back by a cancellation (update, create,
\* changeStatus, markOverdueBySystem).
ImplementsAccount == Account!Spec

\* An unpaid invoice past its due date is found, although chunks are limited,
\* transactions fail and processes crash.
PastDueIsFound ==
    \A i \in Invoices :
        (invoice[i].status = "ISSUED" /\ invoice[i].due < today) ~>
            (invoice[i].status # "ISSUED")
=============================================================================
