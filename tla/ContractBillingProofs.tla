----------------------- MODULE ContractBillingProofs -----------------------
(****************************************************************************)
(* Proofs about ContractBilling, for any number of contracts, invoices,     *)
(* requests, scans and days.  All rest on one inductive invariant, Inv,     *)
(* whose heart is what an open PATCH may rely on: nobody touches the row it *)
(* has locked, so what it checked of that row still holds when it writes.   *)
(****************************************************************************)
EXTENDS ContractBilling, TLAPS

Open(k) == patch[k] # NoPatch

\* What update has checked of a row before it writes `new` over it.
Checked(row, new) ==
    /\ row.status \in {"DRAFT", "ACTIVE", "SUSPENDED"}
    /\ Mutable(row, new.end, new.currency)
    /\ new.status # row.status => <<row.status, new.status>> \in ContractTransitions
    /\ new.status = "TERMINATED" <=> new.terminated # NoDay
    /\ new.end # row.end \/ new.status # row.status \/ row.status = "DRAFT"

PatchesAreChecked ==
    /\ \A k \in Clients : Open(k) =>
          patch[k].contract \in Contracts /\ Checked(contract[patch[k].contract], patch[k])
    /\ \A k, l \in Clients : Open(k) /\ Open(l) /\ patch[k].contract = patch[l].contract => k = l

\* An invoice, cancelled or not, keeps its contract out of DRAFT, where its
\* currency could still change.
InvoicedIsSettled ==
    \A i \in Invoices : invoice[i].status # "ABSENT" =>
        /\ invoice[i].contract \in Contracts
        /\ contract[invoice[i].contract].status \notin {"ABSENT", "DRAFT"}

Inv ==
    /\ TypeOK
    /\ PatchesAreChecked
    /\ InvoicedIsSettled
    /\ InForceDisjoint
    /\ ChargedWithinContract
    /\ ChargedOnce
    /\ OneCurrency
    /\ MarkedIsWarned
    /\ RemindedOnce

(****************************************************************************)
(* Contracts                                                                *)
(****************************************************************************)

\* What a PATCH makes of a contract in any state.
LEMMA PatchedRow ==
    ASSUME NEW row \in Contract, NEW new \in Patch, Checked(row, new)
    PROVE  /\ Patched(row, new) \in Contract
           /\ Patched(row, new).status = new.status
           /\ Patched(row, new).start = row.start
           /\ Patched(row, new).end = new.end
           /\ Patched(row, new).currency = new.currency
           /\ Patched(row, new).terminated = new.terminated
           /\ new.status # "ABSENT"
           /\ row.status # "DRAFT" => new.status # "DRAFT"
           /\ row.status # "DRAFT" => new.currency = row.currency /\ new.end >= row.end
<1> DEFINE after == Patched(row, new)
<1>1. row \in ContractRow
  BY DEF Contract
<1>2. /\ after \in ContractRow
      /\ after.status = new.status /\ after.start = row.start /\ after.end = new.end
      /\ after.currency = new.currency /\ after.terminated = new.terminated
  BY <1>1 DEF Patched, ContractRow, Patch
<1>3. after \in Contract
  BY <1>2 DEF Contract, Checked
<1>4. new.status # "ABSENT" /\ (row.status # "DRAFT" => new.status # "DRAFT")
  BY DEF Checked, ContractTransitions
<1>5. row.status # "DRAFT" => new.currency = row.currency /\ new.end >= row.end
  BY DEF Checked, Mutable, InForce
<1> QED
  BY <1>2, <1>3, <1>4, <1>5

(****************************************************************************)
(* Steps that leave contracts, warnings, invoices and reminders alone       *)
(****************************************************************************)

Quiet ==
    /\ UNCHANGED <<contract, warnings, invoice, reminders>>
    /\ \A k \in Clients : patch'[k] \in {patch[k], NoPatch}
    /\ TypeOK'

LEMMA QuietKeepsInv == Inv /\ Quiet => Inv'
<1> SUFFICES ASSUME Inv, Quiet PROVE Inv'
  OBVIOUS
<1>1. PatchesAreChecked'
  BY DEF Inv, Quiet, PatchesAreChecked, Open
<1>2. (InvoicedIsSettled /\ InForceDisjoint /\ ChargedWithinContract /\ ChargedOnce)'
  BY DEF Inv, Quiet, InvoicedIsSettled, InForceDisjoint, ChargedWithinContract, ChargedOnce,
         IsCharged
<1>3. (OneCurrency /\ MarkedIsWarned /\ RemindedOnce)'
  BY DEF Inv, Quiet, OneCurrency, MarkedIsWarned, RemindedOnce
<1> QED
  BY <1>1, <1>2, <1>3 DEF Inv, Quiet

LEMMA StutterIsQuiet == TypeOK /\ UNCHANGED vars => Quiet
  BY DEF TypeOK, vars, contractVars, invoiceVars, Quiet

LEMMA NextDayIsQuiet == TypeOK /\ NextDay => Quiet
<1> SUFFICES ASSUME TypeOK, NextDay PROVE Quiet
  OBVIOUS
<1>1. today' \in Days
  BY CalendarAssumption DEF TypeOK, NextDay, Days
<1> QED
  BY <1>1 DEF TypeOK, NextDay, contractVars, invoiceVars, Quiet

LEMMA NoPatchTyped == NoPatch \in [contract : {NoContract}, status : ContractStatuses,
                                   end : Days, currency : {"none"}, terminated : {NoDay}]
  BY CalendarAssumption DEF NoPatch, ContractStatuses, Days

LEMMA AbortIsQuiet ==
    ASSUME TypeOK, NEW k \in Clients, AbortPatch(k)
    PROVE  Quiet
<1>1. NoPatch \in Patch
  BY NoPatchTyped DEF Patch
<1>2. patch' \in [Clients -> Patch] /\ \A l \in Clients : patch'[l] \in {patch[l], NoPatch}
  BY <1>1 DEF TypeOK, AbortPatch
<1> QED
  BY <1>2 DEF TypeOK, AbortPatch, invoiceVars, Quiet

\* Whatever a scan reads, forgets or fails to do touches its list only.
LEMMA WarnListIsQuiet ==
    ASSUME TypeOK, NEW p \in WarnJobs,
           ReadExpiring(p) \/ WarnCrash(p) \/ \E c \in Contracts : WarnFails(p, c)
    PROVE  Quiet
<1>1. warnTodo' \in [WarnJobs -> SUBSET Contracts]
  BY DEF TypeOK, ReadExpiring, Chunks, WarnCrash, WarnFails
<1>2. UNCHANGED <<today, contract, patch, warnings, invoice, reminders, dueTodo>>
  BY DEF ReadExpiring, WarnCrash, WarnFails, invoiceVars
<1> QED
  BY <1>1, <1>2 DEF TypeOK, Quiet

LEMMA DueListIsQuiet ==
    ASSUME TypeOK, NEW p \in DueJobs,
           ReadPastDue(p) \/ DueCrash(p) \/ \E i \in Invoices : MarkOverdueFails(p, i)
    PROVE  Quiet
<1>1. dueTodo' \in [DueJobs -> SUBSET Invoices]
  BY DEF TypeOK, ReadPastDue, Chunks, DueCrash, MarkOverdueFails
<1>2. UNCHANGED <<today, contract, patch, warnings, warnTodo, invoice, reminders>>
  BY DEF ReadPastDue, DueCrash, MarkOverdueFails, contractVars
<1> QED
  BY <1>1, <1>2 DEF TypeOK, Quiet

(****************************************************************************)
(* Steps of contracts                                                       *)
(****************************************************************************)

LEMMA BeginKeepsInv ==
    ASSUME Inv, NEW k \in Clients, NEW c \in Contracts, NEW status \in ContractStatuses,
           NEW end \in Days, NEW currency \in Currencies,
           BeginPatch(k, c, status, end, currency)
    PROVE  Inv'
<1> DEFINE row == contract[c]
           terminated == IF status # row.status /\ status = "TERMINATED" THEN today ELSE NoDay
           new == [contract |-> c, status |-> status, end |-> end, currency |-> currency,
                   terminated |-> terminated]
<1>1. /\ patch[k] = NoPatch /\ row.status # "ABSENT" /\ ~Locked(c)
      /\ <<status, end, currency>> # <<row.status, row.end, row.currency>>
      /\ Mutable(row, end, currency)
      /\ status # row.status => <<row.status, status>> \in ContractTransitions
      /\ patch' = [patch EXCEPT ![k] = new]
      /\ UNCHANGED <<today, contract, warnings, warnTodo, invoice, reminders, dueTodo>>
  BY DEF BeginPatch, MayBecome, invoiceVars
<1>2. row \in Contract /\ row.status \in ContractStatuses
  BY DEF Inv, TypeOK, Contract, ContractRow
<1>3. new \in Patch
  BY DEF Inv, TypeOK, Patch
<1>4. TypeOK'
  BY <1>1, <1>3 DEF Inv, TypeOK
<1>5. Checked(row, new)
  <2>1. row.status \notin {"EXPIRED", "TERMINATED"}
    BY <1>1, <1>2 DEF Mutable, ContractTransitions
  <2>2. status = "TERMINATED" <=> terminated # NoDay
    <3>1. today # NoDay
      BY CalendarAssumption DEF Inv, TypeOK, Days, NoDay
    <3> QED
      BY <2>1, <3>1
  <2>3. end # row.end \/ status # row.status \/ row.status = "DRAFT"
    BY <1>1 DEF Mutable
  <2>4. row.status \in {"DRAFT", "ACTIVE", "SUSPENDED"}
    BY <1>1, <1>2, <2>1 DEF ContractStatuses
  <2> HIDE DEF row, terminated
  <2> QED
    BY <1>1, <2>2, <2>3, <2>4 DEF Checked
<1>6. PatchesAreChecked'
  <2> HIDE DEF row
  <2>1. new # NoPatch
    BY ContractAssumption DEF NoPatch
  <2>2. patch'[k] = new /\ \A l \in Clients \ {k} : patch'[l] = patch[l]
    BY <1>1 DEF Inv, TypeOK
  <2>3. \A l \in Clients \ {k} : Open(l) => patch[l].contract # c
    BY <1>1 DEF Locked
  <2>4. new.contract = c /\ contract' = contract
    BY <1>1
  <2>5. row = contract[c]
    BY DEF row
  <2> HIDE DEF new
  <2> QED
    BY <1>5, <2>1, <2>2, <2>3, <2>4, <2>5 DEF Inv, PatchesAreChecked, Open
<1>7. (InvoicedIsSettled /\ InForceDisjoint /\ ChargedWithinContract /\ ChargedOnce)'
  BY <1>1 DEF Inv, InvoicedIsSettled, InForceDisjoint, ChargedWithinContract, ChargedOnce,
              IsCharged
<1>8. (OneCurrency /\ MarkedIsWarned /\ RemindedOnce)'
  BY <1>1 DEF Inv, OneCurrency, MarkedIsWarned, RemindedOnce
<1> QED
  BY <1>4, <1>6, <1>7, <1>8 DEF Inv

LEMMA CreateContractKeepsInv ==
    ASSUME Inv, NEW c \in Contracts, NEW start \in Days, NEW end \in Days,
           NEW currency \in Currencies, CreateContract(c, start, end, currency)
    PROVE  Inv'
<1> DEFINE new == [status |-> "DRAFT", start |-> start, end |-> end, currency |-> currency,
                   terminated |-> NoDay, notified |-> FALSE]
<1>1. /\ contract[c].status = "ABSENT"
      /\ contract' = [contract EXCEPT ![c] = new]
      /\ UNCHANGED <<today, patch, warnings, warnTodo, invoice, reminders, dueTodo>>
  BY DEF CreateContract, invoiceVars
<1>2. new \in Contract
  BY DEF Contract, ContractRow, ContractStatuses
<1>3. TypeOK'
  BY <1>1, <1>2 DEF Inv, TypeOK
<1>4. new.status = "DRAFT"
  OBVIOUS
<1> HIDE DEF new
<1>5. contract'[c] = new /\ \A d \in Contracts \ {c} : contract'[d] = contract[d]
  BY <1>1 DEF Inv, TypeOK
<1>6. \A i \in Invoices : invoice[i].status # "ABSENT" =>
          invoice[i].contract \in Contracts \ {c}
  BY <1>1 DEF Inv, InvoicedIsSettled
<1>7. PatchesAreChecked'
  <2>1. ASSUME NEW k \in Clients, Open(k)
        PROVE  patch[k].contract \in Contracts \ {c}
    BY <1>1, <2>1 DEF Inv, PatchesAreChecked, Checked
  <2> QED
    BY <1>1, <1>5, <2>1 DEF Inv, PatchesAreChecked, Open
<1>8. (InvoicedIsSettled /\ OneCurrency /\ ChargedWithinContract /\ ChargedOnce)'
  BY <1>1, <1>5, <1>6
     DEF Inv, InvoicedIsSettled, OneCurrency, ChargedWithinContract, ChargedOnce, IsCharged
<1>9. (InForceDisjoint /\ MarkedIsWarned /\ RemindedOnce)'
  BY <1>1, <1>4, <1>5 DEF Inv, InForceDisjoint, InForce, MarkedIsWarned, RemindedOnce
<1> QED
  BY <1>3, <1>7, <1>8, <1>9 DEF Inv

\* The COMMIT of a PATCH.  Nothing was invoiced on a draft, a contract in force
\* was only extended, and the trigger has seen every invoice beyond a termination.
LEMMA CommitKeepsInv ==
    ASSUME Inv, NEW k \in Clients, CommitPatch(k)
    PROVE  Inv'
<1> DEFINE c == patch[k].contract
           row == contract[c]
           new == patch[k]
           after == Patched(row, new)
<1>1. /\ Open(k)
      /\ new.status \in InForce => ~Overlaps(c, row.start, new.end)
      /\ ~TerminationConflict(c, new.status, new.end, new.terminated)
      /\ contract' = [contract EXCEPT ![c] = after]
      /\ warnings' = [warnings EXCEPT ![c] =
            IF new.end # row.end \/ new.status # row.status THEN 0 ELSE @]
      /\ patch' = [patch EXCEPT ![k] = NoPatch]
      /\ UNCHANGED <<today, warnTodo, invoice, reminders, dueTodo>>
  BY DEF CommitPatch, invoiceVars, Open
<1>2. c \in Contracts /\ new \in Patch /\ row \in Contract /\ Checked(row, new)
  BY <1>1 DEF Inv, TypeOK, PatchesAreChecked
<1>3. /\ after \in Contract
      /\ after.status = new.status /\ after.start = row.start /\ after.end = new.end
      /\ after.currency = new.currency /\ after.terminated = new.terminated
      /\ new.status # "ABSENT"
      /\ row.status # "DRAFT" => new.status # "DRAFT"
      /\ row.status # "DRAFT" => new.currency = row.currency /\ new.end >= row.end
  BY <1>2, PatchedRow
<1>4. after.notified = IF new.end # row.end \/ (new.status = "ACTIVE" /\ row.status # "ACTIVE")
                       THEN FALSE ELSE row.notified
  BY <1>2 DEF Patched, Contract, ContractRow
<1>5. NoPatch \in Patch
  BY NoPatchTyped DEF Patch
<1> HIDE DEF after
<1>6. TypeOK'
  BY <1>1, <1>2, <1>3, <1>5 DEF Inv, TypeOK
<1>7. contract'[c] = after /\ \A d \in Contracts \ {c} : contract'[d] = contract[d]
  BY <1>1, <1>2 DEF Inv, TypeOK
<1>8. PatchesAreChecked'
  <2>1. patch'[k] = NoPatch /\ \A l \in Clients \ {k} : patch'[l] = patch[l]
    BY <1>1 DEF Inv, TypeOK
  <2>2. \A l \in Clients \ {k} : Open(l) => patch[l].contract \in Contracts \ {c}
    BY <1>1 DEF Inv, PatchesAreChecked
  <2> HIDE DEF c
  <2> QED
    BY <1>7, <2>1, <2>2 DEF Inv, PatchesAreChecked, Open
<1>9. \A i \in Invoices : invoice[i].status # "ABSENT" /\ invoice[i].contract = c =>
          row.status # "DRAFT"
  BY DEF Inv, InvoicedIsSettled
<1>10. (InvoicedIsSettled /\ OneCurrency)'
  BY <1>1, <1>3, <1>7, <1>9 DEF Inv, InvoicedIsSettled, OneCurrency
<1>11. InForceDisjoint'
  <2>1. ASSUME NEW d \in Contracts \ {c}, contract'[c].status \in InForce,
               contract'[d].status \in InForce
        PROVE  ~RangesMeet(row.start, new.end, contract[d].start, contract[d].end)
    <3>1. ~Overlaps(c, row.start, new.end)
      BY <1>1, <1>3, <1>7, <2>1
    <3> QED
      BY <1>7, <2>1, <3>1 DEF Overlaps, RangesMeet
  <2>2. ASSUME NEW d \in Contracts \ {c}, contract'[c].status \in InForce,
               contract'[d].status \in InForce
        PROVE  /\ ~RangesMeet(contract'[c].start, contract'[c].end,
                              contract'[d].start, contract'[d].end)
               /\ ~RangesMeet(contract'[d].start, contract'[d].end,
                              contract'[c].start, contract'[c].end)
    BY <1>3, <1>7, <2>1, <2>2 DEF RangesMeet
  <2> QED
    BY <1>7, <2>2 DEF Inv, InForceDisjoint
<1>12. ChargedWithinContract'
  <2> SUFFICES ASSUME NEW i \in Invoices, IsCharged(i)
               PROVE  LET at == contract'[invoice[i].contract]
                      IN  /\ at.status \notin {"ABSENT", "DRAFT"}
                          /\ at.start <= invoice[i].from /\ invoice[i].to <= at.end + 1
                          /\ at.status = "TERMINATED" => invoice[i].to <= at.terminated + 1
    BY <1>1 DEF ChargedWithinContract, IsCharged
  <2>1. invoice[i].contract \in Contracts /\ invoice[i].status # "ABSENT"
    BY DEF Inv, InvoicedIsSettled, IsCharged
  <2>2. CASE invoice[i].contract # c
    BY <1>7, <2>1, <2>2 DEF Inv, ChargedWithinContract
  <2>3. CASE invoice[i].contract = c
    <3>1. row.status # "DRAFT" /\ row.start <= invoice[i].from /\ invoice[i].to <= row.end + 1
      BY <1>9, <2>1, <2>3 DEF Inv, ChargedWithinContract
    <3>2. invoice[i].to \in Int /\ row.end \in Int /\ new.end \in Int /\ new.terminated \in Int
      BY <1>2, CalendarAssumption
         DEF Inv, TypeOK, Invoice, Contract, ContractRow, Patch, Days, NoDay
    <3>3. invoice[i].to <= new.end + 1
      BY <1>3, <3>1, <3>2
    <3>4. ASSUME new.status = "TERMINATED"
          PROVE  invoice[i].to <= new.terminated + 1
      <4>1. InvoicesBeyond(c, WindowEnd(new.end, new.terminated)) = {}
        BY <1>1, <3>4 DEF TerminationConflict
      <4>2. ~(invoice[i].to > WindowEnd(new.end, new.terminated))
        BY <2>3, <4>1 DEF InvoicesBeyond, IsCharged
      <4>3. new.terminated # NoDay
        BY <1>2, <3>4 DEF Checked
      <4> QED
        BY <3>2, <4>2, <4>3 DEF WindowEnd
    <3> QED
      BY <1>3, <1>7, <2>3, <3>1, <3>3, <3>4
  <2> QED
    BY <2>2, <2>3
<1>13. (ChargedOnce /\ RemindedOnce)'
  BY <1>1 DEF Inv, ChargedOnce, RemindedOnce, IsCharged
<1>14. MarkedIsWarned'
  <2> SUFFICES ASSUME NEW d \in Contracts, contract'[d].status = "ACTIVE"
               PROVE  warnings'[d] = IF contract'[d].notified THEN 1 ELSE 0
    BY DEF MarkedIsWarned
  <2>1. CASE d # c
    BY <1>1, <1>7, <2>1 DEF Inv, TypeOK, MarkedIsWarned
  <2>2. CASE d = c
    <3>1. new.status = "ACTIVE"
      BY <1>3, <1>7, <2>2
    <3>2. warnings'[c] =
             IF new.end # row.end \/ new.status # row.status THEN 0 ELSE warnings[c]
      BY <1>1, <1>2 DEF Inv, TypeOK
    <3>3. row.status = "ACTIVE" => warnings[c] = IF row.notified THEN 1 ELSE 0
      BY <1>2 DEF Inv, MarkedIsWarned
    <3> QED
      BY <1>4, <1>7, <2>2, <3>1, <3>2, <3>3
  <2> QED
    BY <2>1, <2>2
<1> QED
  BY <1>6, <1>8, <1>10, <1>11, <1>12, <1>13, <1>14 DEF Inv

\* The scan's transaction decides on the row it has locked, not on its list.
LEMMA WarnKeepsInv ==
    ASSUME Inv, NEW p \in WarnJobs, NEW c \in Contracts, Warn(p, c)
    PROVE  Inv'
<1> DEFINE after == [contract[c] EXCEPT !.notified = TRUE]
<1>1. warnTodo' \in [WarnJobs -> SUBSET Contracts]
  BY DEF Inv, TypeOK, Warn
<1>2. CASE ~Expiring(c)
  <2>1. UNCHANGED <<today, contract, patch, warnings, invoice, reminders, dueTodo>>
    BY <1>2 DEF Warn, invoiceVars
  <2>2. Quiet
    BY <1>1, <2>1 DEF Inv, TypeOK, Quiet
  <2> QED
    BY <2>2, QuietKeepsInv
<1>3. CASE Expiring(c)
  <2>1. /\ ~Locked(c)
        /\ contract' = [contract EXCEPT ![c] = after]
        /\ warnings' = [warnings EXCEPT ![c] = warnings[c] + 1]
        /\ UNCHANGED <<today, patch, invoice, reminders, dueTodo>>
    BY <1>3 DEF Warn, invoiceVars
  <2>2. contract[c] \in Contract
    BY DEF Inv, TypeOK
  <2>3. /\ after \in Contract
        /\ after.status = contract[c].status /\ after.start = contract[c].start
        /\ after.end = contract[c].end /\ after.currency = contract[c].currency
        /\ after.terminated = contract[c].terminated /\ after.notified
    BY <2>2 DEF Contract, ContractRow
  <2> HIDE DEF after
  <2>4. TypeOK'
    BY <1>1, <2>1, <2>3 DEF Inv, TypeOK
  <2>5. contract'[c] = after /\ \A d \in Contracts \ {c} : contract'[d] = contract[d]
    BY <2>1 DEF Inv, TypeOK
  <2>6. PatchesAreChecked'
    <3>1. \A k \in Clients : Open(k) => patch[k].contract \in Contracts \ {c}
      BY <2>1 DEF Inv, PatchesAreChecked, Locked
    <3> QED
      BY <2>1, <2>5, <3>1 DEF Inv, PatchesAreChecked, Open
  <2>7. (InvoicedIsSettled /\ OneCurrency /\ InForceDisjoint)'
    BY <2>1, <2>3, <2>5 DEF Inv, InvoicedIsSettled, OneCurrency, InForceDisjoint
  <2>8. (ChargedWithinContract /\ ChargedOnce /\ RemindedOnce)'
    BY <2>1, <2>3, <2>5
       DEF Inv, InvoicedIsSettled, ChargedWithinContract, ChargedOnce, RemindedOnce, IsCharged
  <2>9. MarkedIsWarned'
    <3>1. contract[c].status = "ACTIVE" /\ ~contract[c].notified
      BY <1>3 DEF Expiring
    <3>2. warnings'[c] = 1 /\ \A d \in Contracts \ {c} : warnings'[d] = warnings[d]
      BY <2>1, <3>1 DEF Inv, TypeOK, MarkedIsWarned
    <3> QED
      BY <2>3, <2>5, <3>2 DEF Inv, MarkedIsWarned
  <2> QED
    BY <2>4, <2>6, <2>7, <2>8, <2>9 DEF Inv
<1> QED
  BY <1>2, <1>3

(****************************************************************************)
(* Steps of invoices                                                        *)
(****************************************************************************)

LEMMA CreateInvoiceKeepsInv ==
    ASSUME Inv, NEW i \in Invoices, NEW c \in Contracts, NEW from \in Days,
           NEW to \in Days \cup {MaxDay + 1}, NEW due \in DueDays,
           CreateInvoice(i, c, from, to, due)
    PROVE  Inv'
<1> DEFINE row == contract[c]
           new == [status |-> "DRAFT", contract |-> c, from |-> from, to |-> to, due |-> due,
                   currency |-> row.currency]
<1>1. /\ invoice[i].status = "ABSENT"
      /\ row.status \notin {"ABSENT", "DRAFT", "SUSPENDED"}
      /\ row.start <= from /\ to <= WindowEnd(row.end, row.terminated)
      /\ ~PeriodTaken(c, from, to)
      /\ invoice' = [invoice EXCEPT ![i] = new]
      /\ UNCHANGED <<today, contract, patch, warnings, warnTodo, reminders, dueTodo>>
  BY DEF CreateInvoice, contractVars
<1>2. row \in ContractRow /\ (row.status = "TERMINATED" <=> row.terminated # NoDay)
  BY DEF Inv, TypeOK, Contract
<1>3. new \in Invoice
  BY <1>2 DEF Invoice, InvoiceStatuses, ContractRow
<1>4. TypeOK'
  BY <1>1, <1>3 DEF Inv, TypeOK
<1>5. /\ new.status = "DRAFT" /\ new.contract = c /\ new.from = from /\ new.to = to
      /\ new.currency = row.currency
  OBVIOUS
<1>6. to <= row.end + 1 /\ (row.status = "TERMINATED" => to <= row.terminated + 1)
  <2>1. to \in Int /\ row.end \in Int /\ row.terminated \in Int
    BY <1>2, CalendarAssumption DEF ContractRow, Days, NoDay
  <2> QED
    BY <1>1, <1>2, <2>1 DEF WindowEnd
<1> HIDE DEF row, new
<1>7. invoice'[i] = new /\ \A j \in Invoices \ {i} : invoice'[j] = invoice[j]
  BY <1>1 DEF Inv, TypeOK
<1>8. row = contract[c]
  BY DEF row
<1>9. PatchesAreChecked' /\ (InForceDisjoint /\ MarkedIsWarned)'
  BY <1>1 DEF Inv, PatchesAreChecked, Open, InForceDisjoint, MarkedIsWarned
<1>10. (InvoicedIsSettled /\ OneCurrency)'
  BY <1>1, <1>5, <1>7, <1>8 DEF Inv, InvoicedIsSettled, OneCurrency
<1>11. ChargedWithinContract'
  BY <1>1, <1>5, <1>6, <1>7, <1>8 DEF Inv, ChargedWithinContract, IsCharged
<1>12. ChargedOnce'
  <2>1. \A j \in Invoices \ {i} :
           IsCharged(j) /\ invoice[j].contract = c =>
               ~PeriodsMeet(invoice[j].from, invoice[j].to, from, to)
    BY <1>1 DEF PeriodTaken
  <2> QED
    BY <1>5, <1>7, <2>1 DEF Inv, ChargedOnce, IsCharged, PeriodsMeet
<1>13. RemindedOnce'
  BY <1>1, <1>5, <1>7 DEF Inv, RemindedOnce
<1> QED
  BY <1>4, <1>9, <1>10, <1>11, <1>12, <1>13 DEF Inv

\* A new status, with or without a reminder: no invoice comes back to be charged.
InvoiceMoves(i, to) ==
    /\ invoice' = [invoice EXCEPT ![i].status = to]
    /\ invoice[i].status # "ABSENT" /\ to \in InvoiceStatuses \ {"ABSENT"}
    /\ invoice[i].status \notin {"PAID", "CANCELLED"}
    /\ \/ to \notin {"DRAFT", "OVERDUE"} /\ UNCHANGED reminders
          /\ (to = "ISSUED" => invoice[i].status = "DRAFT")
       \/ to = "OVERDUE" /\ invoice[i].status = "ISSUED"
          /\ reminders' = [reminders EXCEPT ![i] = reminders[i] + 1]
    /\ dueTodo' \in [DueJobs -> SUBSET Invoices]
    /\ UNCHANGED <<today, contract, patch, warnings, warnTodo>>

LEMMA ChangeStatusMoves ==
    ASSUME Inv, NEW i \in Invoices, NEW to \in InvoiceStatuses, ChangeInvoiceStatus(i, to)
    PROVE  InvoiceMoves(i, to)
<1>1. <<invoice[i].status, to>> \in InvoiceTransitions
  BY DEF ChangeInvoiceStatus
<1>2. /\ invoice[i].status \notin {"ABSENT", "PAID", "CANCELLED"}
      /\ to \notin {"ABSENT", "DRAFT", "OVERDUE"}
      /\ to = "ISSUED" => invoice[i].status = "DRAFT"
  BY <1>1 DEF InvoiceTransitions
<1> QED
  BY <1>2 DEF Inv, TypeOK, ChangeInvoiceStatus, contractVars, InvoiceMoves

LEMMA MarkOverdueMoves ==
    ASSUME Inv, NEW p \in DueJobs, NEW i \in Invoices, MarkOverdue(p, i)
    PROVE  InvoiceMoves(i, "OVERDUE") \/ Quiet
<1>1. dueTodo' \in [DueJobs -> SUBSET Invoices]
  BY DEF Inv, TypeOK, MarkOverdue
<1>2. UNCHANGED <<today, contract, patch, warnings, warnTodo>>
  BY DEF MarkOverdue, contractVars
<1>3. CASE PastDue(i)
  BY <1>1, <1>2, <1>3 DEF MarkOverdue, PastDue, InvoiceMoves, InvoiceStatuses
<1>4. CASE ~PastDue(i)
  BY <1>1, <1>2, <1>4 DEF Inv, TypeOK, MarkOverdue, Quiet
<1> QED
  BY <1>3, <1>4

LEMMA MoveKeepsInv ==
    ASSUME Inv, NEW i \in Invoices, NEW to, InvoiceMoves(i, to)
    PROVE  Inv'
<1> DEFINE after == [invoice[i] EXCEPT !.status = to]
<1>1. /\ invoice' = [invoice EXCEPT ![i] = after]
      /\ invoice[i].status \notin {"ABSENT", "PAID", "CANCELLED"}
      /\ to \in InvoiceStatuses \ {"ABSENT"}
      /\ UNCHANGED <<today, contract, patch, warnings, warnTodo>>
  BY DEF InvoiceMoves
<1>2. /\ after \in Invoice /\ after.status = to /\ after.contract = invoice[i].contract
      /\ after.from = invoice[i].from /\ after.to = invoice[i].to
      /\ after.currency = invoice[i].currency
  BY <1>1 DEF Inv, TypeOK, Invoice
<1> HIDE DEF after
<1>3. reminders' \in [Invoices -> Nat]
  BY DEF Inv, TypeOK, InvoiceMoves
<1>4. TypeOK'
  BY <1>1, <1>2, <1>3 DEF Inv, TypeOK, InvoiceMoves
<1>5. invoice'[i] = after /\ \A j \in Invoices \ {i} : invoice'[j] = invoice[j]
  BY <1>1 DEF Inv, TypeOK
<1>6. \A j \in Invoices :
         /\ invoice'[j].contract = invoice[j].contract
         /\ invoice'[j].from = invoice[j].from /\ invoice'[j].to = invoice[j].to
         /\ invoice'[j].currency = invoice[j].currency
         /\ invoice'[j].status # "ABSENT" => invoice[j].status # "ABSENT"
         /\ invoice'[j].status \notin {"ABSENT", "CANCELLED"} => IsCharged(j)
  BY <1>1, <1>2, <1>5 DEF IsCharged
<1>7. (PatchesAreChecked /\ InForceDisjoint /\ MarkedIsWarned)'
  BY <1>1 DEF Inv, PatchesAreChecked, Open, InForceDisjoint, MarkedIsWarned
<1>8. (InvoicedIsSettled /\ OneCurrency)'
  BY <1>1, <1>6 DEF Inv, InvoicedIsSettled, OneCurrency
<1>9. ChargedWithinContract'
  BY <1>1, <1>6 DEF Inv, ChargedWithinContract, IsCharged
<1>10. ChargedOnce'
  BY <1>6 DEF Inv, ChargedOnce, IsCharged
<1>11. RemindedOnce'
  <2>1. CASE to \notin {"DRAFT", "OVERDUE"} /\ UNCHANGED reminders
             /\ (to = "ISSUED" => invoice[i].status = "DRAFT")
    BY <1>1, <1>2, <1>5, <2>1 DEF Inv, RemindedOnce
  <2>2. CASE to = "OVERDUE" /\ invoice[i].status = "ISSUED"
             /\ reminders' = [reminders EXCEPT ![i] = reminders[i] + 1]
    <3>1. reminders'[i] = 1 /\ \A j \in Invoices \ {i} : reminders'[j] = reminders[j]
      BY <2>2 DEF Inv, TypeOK, RemindedOnce
    <3> QED
      BY <1>2, <1>5, <2>2, <3>1 DEF Inv, RemindedOnce
  <2> QED
    BY <2>1, <2>2 DEF InvoiceMoves
<1> QED
  BY <1>4, <1>7, <1>8, <1>9, <1>10, <1>11 DEF Inv

(****************************************************************************)
(* The invariant                                                            *)
(****************************************************************************)

LEMMA InitInv == Init => Inv
<1> SUFFICES ASSUME Init PROVE Inv
  OBVIOUS
<1>1. AbsentContract \in Contract /\ AbsentContract.status = "ABSENT"
  BY CalendarAssumption
     DEF AbsentContract, Contract, ContractRow, ContractStatuses, Days, NoDay
<1>2. NoPatch \in Patch
  BY NoPatchTyped DEF Patch
<1>3. AbsentInvoice \in Invoice /\ AbsentInvoice.status = "ABSENT"
  BY CalendarAssumption DEF AbsentInvoice, Invoice, InvoiceStatuses, Days, NoDay
<1>4. today \in Days
  BY CalendarAssumption DEF Init, Days
<1>5. TypeOK
  BY <1>1, <1>2, <1>3, <1>4 DEF Init, TypeOK
<1>6. PatchesAreChecked /\ InvoicedIsSettled /\ InForceDisjoint /\ MarkedIsWarned
  BY <1>1, <1>3 DEF Init, PatchesAreChecked, Open, InvoicedIsSettled, InForceDisjoint, InForce,
                    MarkedIsWarned
<1>7. ChargedWithinContract /\ ChargedOnce /\ OneCurrency /\ RemindedOnce
  BY <1>3 DEF Init, ChargedWithinContract, ChargedOnce, OneCurrency, RemindedOnce, IsCharged
<1> QED
  BY <1>5, <1>6, <1>7 DEF Inv

LEMMA ContractCallKeepsInv == Inv /\ ContractCalls => Inv'
<1> SUFFICES ASSUME Inv, ContractCalls PROVE Inv'
  OBVIOUS
<1>1. ASSUME NEW c \in Contracts, NEW start \in Days, NEW end \in Days,
             NEW currency \in Currencies, CreateContract(c, start, end, currency)
      PROVE  Inv'
  BY <1>1, CreateContractKeepsInv
<1>2. ASSUME NEW k \in Clients, NEW c \in Contracts, NEW status \in ContractStatuses,
             NEW end \in Days, NEW currency \in Currencies,
             BeginPatch(k, c, status, end, currency)
      PROVE  Inv'
  BY <1>2, BeginKeepsInv
<1>3. ASSUME NEW k \in Clients, CommitPatch(k)
      PROVE  Inv'
  BY <1>3, CommitKeepsInv
<1>4. ASSUME NEW k \in Clients, AbortPatch(k)
      PROVE  Inv'
  BY <1>4, AbortIsQuiet, QuietKeepsInv DEF Inv
<1> QED
  BY <1>1, <1>2, <1>3, <1>4 DEF ContractCalls

LEMMA InvoiceCallKeepsInv == Inv /\ InvoiceCalls => Inv'
<1> SUFFICES ASSUME Inv, InvoiceCalls PROVE Inv'
  OBVIOUS
<1>1. ASSUME NEW i \in Invoices, NEW c \in Contracts, NEW from \in Days,
             NEW to \in Days \cup {MaxDay + 1}, NEW due \in DueDays,
             CreateInvoice(i, c, from, to, due)
      PROVE  Inv'
  BY <1>1, CreateInvoiceKeepsInv
<1>2. ASSUME NEW i \in Invoices, NEW to \in InvoiceStatuses, ChangeInvoiceStatus(i, to)
      PROVE  Inv'
  BY <1>2, ChangeStatusMoves, MoveKeepsInv
<1> QED
  BY <1>1, <1>2 DEF InvoiceCalls

LEMMA ScanKeepsInv ==
    ASSUME Inv, (\E p \in WarnJobs : WarnSteps(p)) \/ (\E p \in DueJobs : DueSteps(p))
    PROVE  Inv'
<1>1. TypeOK
  BY DEF Inv
<1>2. ASSUME NEW p \in WarnJobs, WarnSteps(p)
      PROVE  Inv'
  <2>1. CASE ReadExpiring(p) \/ WarnCrash(p) \/ \E c \in Contracts : WarnFails(p, c)
    BY <1>1, <2>1, WarnListIsQuiet, QuietKeepsInv
  <2>2. ASSUME NEW c \in Contracts, Warn(p, c)
        PROVE  Inv'
    BY <2>2, WarnKeepsInv
  <2> QED
    BY <1>2, <2>1, <2>2 DEF WarnSteps
<1>3. ASSUME NEW p \in DueJobs, DueSteps(p)
      PROVE  Inv'
  <2>1. CASE ReadPastDue(p) \/ DueCrash(p) \/ \E i \in Invoices : MarkOverdueFails(p, i)
    BY <1>1, <2>1, DueListIsQuiet, QuietKeepsInv
  <2>2. ASSUME NEW i \in Invoices, MarkOverdue(p, i)
        PROVE  Inv'
    BY <2>2, MarkOverdueMoves, MoveKeepsInv, QuietKeepsInv
  <2> QED
    BY <1>3, <2>1, <2>2 DEF DueSteps
<1> QED
  BY <1>2, <1>3

LEMMA StepInv == Inv /\ [Next]_vars => Inv'
<1> SUFFICES ASSUME Inv, [Next]_vars PROVE Inv'
  OBVIOUS
<1>1. CASE UNCHANGED vars
  BY <1>1, StutterIsQuiet, QuietKeepsInv DEF Inv
<1>2. CASE NextDay
  BY <1>2, NextDayIsQuiet, QuietKeepsInv DEF Inv
<1>3. CASE ContractCalls
  BY <1>3, ContractCallKeepsInv
<1>4. CASE InvoiceCalls
  BY <1>4, InvoiceCallKeepsInv
<1>5. CASE (\E p \in WarnJobs : WarnSteps(p)) \/ (\E p \in DueJobs : DueSteps(p))
  BY <1>5, ScanKeepsInv
<1> QED
  BY <1>1, <1>2, <1>3, <1>4, <1>5 DEF Next

THEOREM Invariance == Spec => []Inv
<1> QED
  BY InitInv, StepInv, PTL DEF Spec

(****************************************************************************)
(* What follows                                                             *)
(****************************************************************************)

\* Contracts, open patches, invoices and scan lists keep their types; a contract
\* has a termination date exactly when it is terminated (its CHECK constraint).
THEOREM TypeCorrect == Spec => []TypeOK
<1>1. Inv => TypeOK
  BY DEF Inv
<1> QED
  BY <1>1, Invariance, PTL

\* However many PATCHes of a site's contracts overlap, two contracts are never in
\* force on one day.
THEOREM NeverTwoInForce == Spec => []InForceDisjoint
<1>1. Inv => InForceDisjoint
  BY DEF Inv
<1> QED
  BY <1>1, Invariance, PTL

\* Whatever becomes of a contract after it was invoiced, every charged period stays
\* within it, and before the end of the day it was terminated.
THEOREM ChargesStayWithin == Spec => []ChargedWithinContract
<1>1. Inv => ChargedWithinContract
  BY DEF Inv
<1> QED
  BY <1>1, Invariance, PTL

\* No sequence of invoices, cancellations and payments charges a day twice.
THEOREM NeverChargedTwice == Spec => []ChargedOnce
<1>1. Inv => ChargedOnce
  BY DEF Inv
<1> QED
  BY <1>1, Invariance, PTL

\* The currency an invoice copied is still the one of its contract.
THEOREM CurrencySettled == Spec => []OneCurrency
<1>1. Inv => OneCurrency
  BY DEF Inv
<1> QED
  BY <1>1, Invariance, PTL

\* The mark on an active contract stands for exactly one warning of its end date.
THEOREM MarksAreWarnings == Spec => []MarkedIsWarned
<1>1. Inv => MarkedIsWarned
  BY DEF Inv
<1> QED
  BY <1>1, Invariance, PTL

\* Any number of overdue scans remind of an invoice at most once, and of no invoice
\* that is not overdue yet.
THEOREM OneReminder == Spec => []RemindedOnce
<1>1. Inv => RemindedOnce
  BY DEF Inv
<1> QED
  BY <1>1, Invariance, PTL

\* A paid or cancelled invoice stays so (assertTransition).
SettledIsFinal ==
    [][\A i \in Invoices :
          invoice[i].status \in {"PAID", "CANCELLED"} =>
              invoice'[i].status = invoice[i].status]_vars

\* No step of a client, and no stale list of the overdue scan, changes an invoice that
\* was paid or cancelled (changeStatus, markOverdueBySystem).
THEOREM SettledForGood == Spec => SettledIsFinal
<1> DEFINE Keeps == \A i \in Invoices : invoice[i].status \in {"PAID", "CANCELLED"} =>
                        invoice'[i].status = invoice[i].status
<1>1. Inv /\ [Next]_vars => Keeps
  <2> SUFFICES ASSUME Inv, [Next]_vars, NEW i \in Invoices,
                      invoice[i].status \in {"PAID", "CANCELLED"}
               PROVE  invoice'[i].status = invoice[i].status
    OBVIOUS
  <2>1. CASE UNCHANGED invoice
    BY <2>1
  <2>2. ASSUME NEW j \in Invoices, NEW to, InvoiceMoves(j, to)
        PROVE  invoice'[i].status = invoice[i].status
    BY <2>2 DEF Inv, TypeOK, InvoiceMoves
  <2>3. CASE InvoiceCalls
    <3>1. ASSUME NEW j \in Invoices, NEW to \in InvoiceStatuses, ChangeInvoiceStatus(j, to)
          PROVE  invoice'[i].status = invoice[i].status
      BY <2>2, <3>1, ChangeStatusMoves
    <3>2. ASSUME NEW j \in Invoices, NEW c \in Contracts, NEW from \in Days,
                 NEW to \in Days \cup {MaxDay + 1}, NEW due \in DueDays,
                 CreateInvoice(j, c, from, to, due)
          PROVE  invoice'[i].status = invoice[i].status
      BY <3>2 DEF Inv, TypeOK, CreateInvoice
    <3> QED
      BY <2>3, <3>1, <3>2 DEF InvoiceCalls
  <2>4. ASSUME NEW p \in DueJobs, DueSteps(p)
        PROVE  invoice'[i].status = invoice[i].status
    <3>1. ASSUME NEW j \in Invoices, MarkOverdue(p, j)
          PROVE  invoice'[i].status = invoice[i].status
      BY <2>2, <3>1, MarkOverdueMoves DEF Quiet
    <3> QED
      BY <2>4, <3>1 DEF DueSteps, ReadPastDue, MarkOverdueFails, DueCrash
  <2>5. CASE NextDay \/ ContractCalls \/ \E p \in WarnJobs : WarnSteps(p)
    BY <2>5 DEF NextDay, ContractCalls, CreateContract, BeginPatch, CommitPatch, AbortPatch,
                WarnSteps, ReadExpiring, Warn, WarnFails, WarnCrash, invoiceVars
  <2> QED
    BY <2>1, <2>3, <2>4, <2>5 DEF Next, vars, invoiceVars
<1>2. Keeps => [Keeps]_vars
  OBVIOUS
<1> QED
  BY <1>1, Invariance, PTL DEF Spec, SettledIsFinal

(****************************************************************************)
(* What the site sees: the refinement of SiteAccount                        *)
(****************************************************************************)

LEMMA AccountBefore ==
    /\ Services = [d \in Contracts |-> ServiceOf(contract[d].status)]
    /\ Terms = [d \in Contracts |-> TermOf(contract[d])]
    /\ Bills = [j \in Invoices |-> invoice[j].status]
    /\ Charges = [j \in Invoices |-> ChargeOf(invoice[j])]
  BY DEF Services, Terms, Bills, Charges

LEMMA AccountAfter ==
    /\ Services' = [d \in Contracts |-> ServiceOf(contract'[d].status)]
    /\ Terms' = [d \in Contracts |-> TermOf(contract'[d])]
    /\ Bills' = [j \in Invoices |-> invoice'[j].status]
    /\ Charges' = [j \in Invoices |-> ChargeOf(invoice'[j])]
  BY DEF Services, Terms, Bills, Charges

\* A contract's row changes, and no invoice does.
LEMMA RowChanges ==
    ASSUME TypeOK, NEW c \in Contracts, NEW after,
           contract' = [contract EXCEPT ![c] = after], invoice' = invoice
    PROVE  /\ Services' = [Services EXCEPT ![c] = ServiceOf(after.status)]
           /\ Terms' = [Terms EXCEPT ![c] = TermOf(after)]
           /\ Bills' = Bills /\ Charges' = Charges
<1>1. contract'[c] = after /\ \A d \in Contracts \ {c} : contract'[d] = contract[d]
  BY DEF TypeOK
<1>2. \A d \in Contracts \ {c} : /\ ServiceOf(contract'[d].status) = ServiceOf(contract[d].status)
                                /\ TermOf(contract'[d]) = TermOf(contract[d])
  BY <1>1
<1>3. Services' = [Services EXCEPT ![c] = ServiceOf(after.status)]
  BY <1>1, <1>2, AccountBefore, AccountAfter
<1>4. Terms' = [Terms EXCEPT ![c] = TermOf(after)]
  BY <1>1, <1>2, AccountBefore, AccountAfter
<1> QED
  BY <1>3, <1>4, AccountBefore, AccountAfter

\* An invoice's row changes, and no contract does.
LEMMA InvoiceChanges ==
    ASSUME TypeOK, NEW i \in Invoices, NEW after,
           invoice' = [invoice EXCEPT ![i] = after], contract' = contract
    PROVE  /\ Bills' = [Bills EXCEPT ![i] = after.status]
           /\ Charges' = [Charges EXCEPT ![i] = ChargeOf(after)]
           /\ Services' = Services /\ Terms' = Terms
<1>1. invoice'[i] = after /\ \A j \in Invoices \ {i} : invoice'[j] = invoice[j]
  BY DEF TypeOK
<1>2. \A j \in Invoices \ {i} : /\ invoice'[j].status = invoice[j].status
                               /\ ChargeOf(invoice'[j]) = ChargeOf(invoice[j])
  BY <1>1
<1>3. Bills' = [Bills EXCEPT ![i] = after.status]
  BY <1>1, <1>2, AccountBefore, AccountAfter
<1>4. Charges' = [Charges EXCEPT ![i] = ChargeOf(after)]
  BY <1>1, <1>2, AccountBefore, AccountAfter
<1> QED
  BY <1>3, <1>4, AccountBefore, AccountAfter

LEMMA AccountRests ==
    ASSUME UNCHANGED <<contract, invoice>>
    PROVE  UNCHANGED Account!vars
  BY DEF Services, Terms, Bills, Charges, Account!vars

\* The days of a term: up to the end, or to an earlier day of termination.
LEMMA TermDays ==
    ASSUME NEW row \in Contract, row.status \notin {"ABSENT", "DRAFT"}
    PROVE  /\ TermOf(row) \in SUBSET Days
           /\ \A e : e \in TermOf(row) <=>
                 /\ e \in Days /\ row.start <= e /\ e <= row.end
                 /\ row.status = "TERMINATED" => e <= row.terminated
<1>1. /\ row.start \in Nat /\ row.end \in Nat /\ row.start <= MaxDay /\ row.end <= MaxDay
      /\ row.terminated \in Int /\ MaxDay \in Nat
      /\ row.status = "TERMINATED" <=> row.terminated # NoDay
  BY CalendarAssumption DEF Contract, ContractRow, Days, NoDay
<1>2. TermOf(row) = row.start .. (WindowEnd(row.end, row.terminated) - 1)
  BY DEF TermOf
<1>3. ASSUME NEW e
      PROVE  e \in TermOf(row) <=>
                 /\ e \in Days /\ row.start <= e /\ e <= row.end
                 /\ row.status = "TERMINATED" => e <= row.terminated
  BY <1>1, <1>2 DEF WindowEnd, Days
<1> QED
  BY <1>3

\* The days an invoice charges.
LEMMA ChargedDays ==
    ASSUME TypeOK, NEW i \in Invoices, NEW c, NEW e
    PROVE  <<c, e>> \in Charges[i] <=>
              /\ IsCharged(i) /\ invoice[i].contract = c
              /\ e \in Int /\ invoice[i].from <= e /\ e < invoice[i].to
<1>1. invoice[i].from \in Int /\ invoice[i].to \in Int
  BY CalendarAssumption DEF TypeOK, Invoice, Days
<1>2. Charges[i] = ChargeOf(invoice[i])
  BY DEF Charges
<1>3. CASE ~IsCharged(i)
  BY <1>2, <1>3 DEF ChargeOf, IsCharged
<1>4. CASE IsCharged(i)
  <2>1. Charges[i] = {invoice[i].contract} \X (invoice[i].from .. (invoice[i].to - 1))
    BY <1>2, <1>4 DEF ChargeOf, IsCharged
  <2>2. <<c, e>> \in Charges[i] <=>
           c = invoice[i].contract /\ e \in invoice[i].from .. (invoice[i].to - 1)
    BY <2>1
  <2> QED
    BY <1>1, <1>4, <2>2
<1> QED
  BY <1>3, <1>4


\* The new days of a contract meet no others in force: the exclusion constraint.
LEMMA ServesAlone ==
    ASSUME Inv, Inv', NEW c \in Contracts, contract'[c].status \in InForce,
           \A d \in Contracts \ {c} : contract'[d] = contract[d]
    PROVE  Account!Alone(c, TermOf(contract'[c]))
<1> SUFFICES ASSUME NEW d \in Contracts \ {c}, Services[d] \in {"running", "paused"}
             PROVE  Terms[d] \cap TermOf(contract'[c]) = {}
  BY DEF Account!Alone, Account!Serving
<1>1. contract[d] \in Contract /\ contract'[c] \in Contract
  BY DEF Inv, TypeOK
<1>2. contract[d].status \in InForce
  <2>1. Services[d] = ServiceOf(contract[d].status)
    BY AccountBefore
  <2>2. contract[d].status \in ContractStatuses
    BY <1>1 DEF Contract, ContractRow
  <2> QED
    BY <2>1, <2>2 DEF ServiceOf, ContractStatuses, InForce
<1>3. ~RangesMeet(contract'[c].start, contract'[c].end, contract[d].start, contract[d].end)
  BY <1>2 DEF Inv, InForceDisjoint
<1>4. /\ \A e \in TermOf(contract'[c]) : e \in Days /\ contract'[c].start <= e /\ e <= contract'[c].end
      /\ \A e \in Terms[d] : e \in Days /\ contract[d].start <= e /\ e <= contract[d].end
  BY <1>1, <1>2, TermDays, AccountBefore DEF InForce
<1>5. /\ contract[d].start \in Int /\ contract[d].end \in Int
      /\ contract'[c].start \in Int /\ contract'[c].end \in Int /\ \A e \in Days : e \in Int
  BY <1>1 DEF Contract, ContractRow, Days
<1> QED
  BY <1>3, <1>4, <1>5 DEF RangesMeet

\* What has been charged under a contract that has begun lies in its new term.
LEMMA ChargesCovered ==
    ASSUME Inv, Inv', NEW c \in Contracts, UNCHANGED invoice,
           contract'[c].status \notin {"ABSENT", "DRAFT"}
    PROVE  \A i \in Invoices, e \in Days : <<c, e>> \in Charges[i] => e \in TermOf(contract'[c])
<1> SUFFICES ASSUME NEW i \in Invoices, NEW e \in Days, <<c, e>> \in Charges[i]
             PROVE  e \in TermOf(contract'[c])
  OBVIOUS
<1>1. /\ IsCharged(i) /\ invoice[i].contract = c
      /\ e \in Int /\ invoice[i].from <= e /\ e < invoice[i].to
  BY ChargedDays DEF Inv
<1>2. LET row == contract'[c]
      IN  /\ row.start <= invoice[i].from /\ invoice[i].to <= row.end + 1
          /\ row.status = "TERMINATED" => invoice[i].to <= row.terminated + 1
  BY <1>1 DEF Inv, ChargedWithinContract, IsCharged
<1>3. contract'[c] \in Contract
  BY DEF Inv, TypeOK
<1>4. /\ contract'[c].start \in Int /\ contract'[c].end \in Int /\ contract'[c].terminated \in Int
      /\ invoice[i].from \in Int /\ invoice[i].to \in Int
  BY <1>3, CalendarAssumption DEF Inv, TypeOK, Contract, ContractRow, Invoice, Days, NoDay
<1>5. /\ contract'[c].start <= e /\ e <= contract'[c].end
      /\ contract'[c].status = "TERMINATED" => e <= contract'[c].terminated
  BY <1>1, <1>2, <1>4
<1> QED
  BY <1>3, <1>5, TermDays

\* A contract begins, goes on or closes.
LEMMA CommitSeen ==
    ASSUME Inv, Inv', NEW k \in Clients, CommitPatch(k)
    PROVE  [Account!Next]_(Account!vars)
<1> DEFINE c == patch[k].contract
           row == contract[c]
           new == patch[k]
           after == Patched(row, new)
<1>1. /\ Open(k)
      /\ contract' = [contract EXCEPT ![c] = after]
      /\ invoice' = invoice
  BY DEF CommitPatch, invoiceVars, Open
<1>2. c \in Contracts /\ new \in Patch /\ row \in Contract /\ Checked(row, new) /\ TypeOK
  BY <1>1 DEF Inv, TypeOK, PatchesAreChecked
<1>3. /\ after \in Contract
      /\ after.status = new.status /\ after.start = row.start /\ after.end = new.end
      /\ row.status # "DRAFT" => new.end >= row.end
      /\ row.status # "DRAFT" => new.status # "DRAFT"
  BY <1>2, PatchedRow
<1>4. /\ row.status \in {"DRAFT", "ACTIVE", "SUSPENDED"}
      /\ new.status \in {"DRAFT", "ACTIVE", "SUSPENDED", "EXPIRED", "TERMINATED"}
      /\ row.status = "DRAFT" => new.status \in {"DRAFT", "ACTIVE", "TERMINATED"}
  BY <1>2 DEF Checked, ContractTransitions
<1> HIDE DEF after
<1>5. contract'[c] = after /\ \A d \in Contracts \ {c} : contract'[d] = contract[d]
  BY <1>1, <1>2 DEF TypeOK
<1>6. Services[c] = ServiceOf(row.status) /\ Terms[c] = TermOf(row)
  BY <1>2, AccountBefore
<1>7. Account!Becomes(c, ServiceOf(new.status), TermOf(after))
  <2>1. PICK there : there = c
    OBVIOUS
  <2>2. PICK written : written = after
    OBVIOUS
  <2>3. there \in Contracts /\ contract' = [contract EXCEPT ![there] = written]
    BY <1>1, <1>2, <2>1, <2>2
  <2>4. /\ Services' = [Services EXCEPT ![there] = ServiceOf(written.status)]
        /\ Terms' = [Terms EXCEPT ![there] = TermOf(written)]
        /\ Bills' = Bills /\ Charges' = Charges
    BY <1>1, <1>2, <2>3, RowChanges
  <2> HIDE DEF c, new
  <2> QED
    BY <1>3, <2>1, <2>2, <2>4 DEF Account!Becomes
<1>8. CASE new.status = "DRAFT"
  <2>1. row.status = "DRAFT"
    BY <1>3, <1>8
  <2>2. ServiceOf(row.status) = "none" /\ TermOf(row) = {}
    BY <2>1 DEF ServiceOf, TermOf
  <2>3. ServiceOf(new.status) = "none" /\ TermOf(after) = {}
    BY <1>3, <1>8 DEF ServiceOf, TermOf
  <2>4. Services' = Services /\ Terms' = Terms /\ Bills' = Bills /\ Charges' = Charges
    BY <1>2, <1>6, <1>7, <2>2, <2>3, AccountBefore DEF Account!Becomes
  <2> QED
    BY <2>4 DEF Account!vars
<1>9. new.status # "DRAFT" => TermOf(after) \in SUBSET Days
  BY <1>3, <1>4, TermDays
<1>10. CASE new.status \in InForce
  <2>1. Account!Alone(c, TermOf(after))
    BY <1>2, <1>3, <1>5, <1>10, ServesAlone
  <2>2. ServiceOf(new.status) \in {"running", "paused"}
    BY <1>10 DEF ServiceOf, InForce
  <2>3. TermOf(after) \in SUBSET Days
    BY <1>9, <1>10 DEF InForce
  <2>4. CASE row.status = "DRAFT"
    <3>1. Services[c] = "none" /\ ServiceOf(new.status) = "running"
      BY <1>4, <1>6, <1>10, <2>4 DEF ServiceOf, InForce
    <3>2. Account!Begin(c)
      BY <1>7, <2>1, <2>3, <3>1 DEF Account!Begin
    <3> QED
      BY <1>2, <3>2 DEF Account!Next
  <2>5. CASE row.status # "DRAFT"
    <3>1. Services[c] \in {"running", "paused"}
      BY <1>4, <1>6, <2>5 DEF ServiceOf
    <3>2. Terms[c] \subseteq TermOf(after)
      <4>1. \A e \in TermOf(row) : e \in Days /\ row.start <= e /\ e <= row.end
        BY <1>2, <1>4, <2>5, TermDays
      <4>2. row.end \in Int /\ new.end \in Int /\ \A e \in Days : e \in Int
        BY <1>2 DEF Contract, ContractRow, Patch, Days
      <4>3. \A e \in TermOf(row) : e \in Days /\ after.start <= e /\ e <= after.end
        BY <1>3, <2>5, <4>1, <4>2
      <4>4. after.status \notin {"ABSENT", "DRAFT", "TERMINATED"}
        BY <1>3, <1>10 DEF InForce
      <4> QED
        BY <1>3, <1>6, <4>3, <4>4, TermDays
    <3>3. Account!GoOn(c)
      BY <1>7, <2>1, <2>2, <2>3, <3>1, <3>2 DEF Account!GoOn, Account!Serving
    <3> QED
      BY <1>2, <3>3 DEF Account!Next
  <2> QED
    BY <2>4, <2>5
<1>11. CASE new.status \in {"EXPIRED", "TERMINATED"}
  <2>1. ServiceOf(new.status) = "over" /\ Services[c] # "over"
    BY <1>4, <1>6, <1>11 DEF ServiceOf
  <2>2. \A i \in Invoices, e \in Days : <<c, e>> \in Charges[i] => e \in TermOf(after)
    BY <1>1, <1>2, <1>3, <1>5, <1>11, ChargesCovered
  <2>3. TermOf(after) \in SUBSET Days
    BY <1>9, <1>11
  <2>4. Account!Close(c)
    BY <1>7, <2>1, <2>2, <2>3 DEF Account!Close
  <2> QED
    BY <1>2, <2>4 DEF Account!Next
<1> QED
  BY <1>4, <1>8, <1>10, <1>11 DEF InForce

\* A draft is nothing yet, and neither a mark nor a date makes a contract look different.
LEMMA RowLooksSame ==
    ASSUME TypeOK, NEW c \in Contracts, NEW after,
           contract' = [contract EXCEPT ![c] = after], UNCHANGED invoice,
           ServiceOf(after.status) = ServiceOf(contract[c].status),
           TermOf(after) = TermOf(contract[c])
    PROVE  UNCHANGED Account!vars
<1>1. /\ Services' = [Services EXCEPT ![c] = ServiceOf(after.status)]
      /\ Terms' = [Terms EXCEPT ![c] = TermOf(after)]
      /\ Bills' = Bills /\ Charges' = Charges
  BY RowChanges
<1>2. /\ Services[c] = ServiceOf(contract[c].status) /\ Terms[c] = TermOf(contract[c])
      /\ Services = [d \in Contracts |-> ServiceOf(contract[d].status)]
      /\ Terms = [d \in Contracts |-> TermOf(contract[d])]
  BY AccountBefore
<1>3. Services' = Services /\ Terms' = Terms
  BY <1>1, <1>2
<1> QED
  BY <1>1, <1>3 DEF Account!vars

LEMMA CreateContractSeen ==
    ASSUME TypeOK, NEW c \in Contracts, NEW start \in Days, NEW end \in Days,
           NEW currency \in Currencies, CreateContract(c, start, end, currency)
    PROVE  UNCHANGED Account!vars
<1>1. PICK after : after = [status |-> "DRAFT", start |-> start, end |-> end,
                            currency |-> currency, terminated |-> NoDay, notified |-> FALSE]
  OBVIOUS
<1>2. /\ contract[c].status = "ABSENT" /\ UNCHANGED invoice
      /\ contract' = [contract EXCEPT ![c] = after]
  BY <1>1 DEF CreateContract, invoiceVars
<1>3. after.status = "DRAFT"
  BY <1>1
<1>4. /\ ServiceOf(after.status) = ServiceOf(contract[c].status)
      /\ TermOf(after) = TermOf(contract[c])
  BY <1>2, <1>3 DEF ServiceOf, TermOf
<1> QED
  BY <1>2, <1>4, RowLooksSame

LEMMA WarnSeen ==
    ASSUME TypeOK, NEW p \in WarnJobs, NEW c \in Contracts, Warn(p, c)
    PROVE  UNCHANGED Account!vars
<1>1. CASE UNCHANGED contract
  BY <1>1, AccountRests DEF Warn, invoiceVars
<1>2. CASE Expiring(c)
  <2>1. PICK after : after = [contract[c] EXCEPT !.notified = TRUE]
    OBVIOUS
  <2>2. contract' = [contract EXCEPT ![c] = after] /\ UNCHANGED invoice
    BY <1>2, <2>1 DEF Warn, invoiceVars
  <2>3. /\ after.status = contract[c].status /\ after.start = contract[c].start
        /\ after.end = contract[c].end /\ after.terminated = contract[c].terminated
    BY <2>1 DEF TypeOK, Contract, ContractRow
  <2>4. TermOf(after) = TermOf(contract[c])
    BY <2>3 DEF TermOf
  <2> QED
    BY <2>2, <2>3, <2>4, RowLooksSame
<1> QED
  BY <1>1, <1>2 DEF Warn

\* A charge of days that no other invoice charges.
LEMMA CreateInvoiceSeen ==
    ASSUME Inv, NEW i \in Invoices, NEW c \in Contracts, NEW from \in Days,
           NEW to \in Days \cup {MaxDay + 1}, NEW due \in DueDays,
           CreateInvoice(i, c, from, to, due)
    PROVE  Account!Next
<1> DEFINE row == contract[c]
           days == from .. (to - 1)
<1>1. PICK after : after = [status |-> "DRAFT", contract |-> c, from |-> from, to |-> to,
                            due |-> due, currency |-> row.currency]
  OBVIOUS
<1>2. /\ invoice[i].status = "ABSENT"
      /\ row.status \notin {"ABSENT", "DRAFT", "SUSPENDED"}
      /\ from < to /\ row.start <= from /\ to <= WindowEnd(row.end, row.terminated)
      /\ ~PeriodTaken(c, from, to)
      /\ invoice' = [invoice EXCEPT ![i] = after]
      /\ UNCHANGED contract
  BY <1>1 DEF CreateInvoice, contractVars
<1>3. after.status = "DRAFT" /\ ChargeOf(after) = {c} \X days
  BY <1>1 DEF ChargeOf
<1>4. from \in Int /\ to \in Int
  BY CalendarAssumption DEF Days
<1>5. /\ Bills' = [Bills EXCEPT ![i] = "DRAFT"]
      /\ Charges' = [Charges EXCEPT ![i] = {c} \X days]
      /\ Services' = Services /\ Terms' = Terms
  <2>1. /\ Bills' = [Bills EXCEPT ![i] = after.status]
        /\ Charges' = [Charges EXCEPT ![i] = ChargeOf(after)]
        /\ Services' = Services /\ Terms' = Terms
    BY <1>2, InvoiceChanges DEF Inv
  <2> HIDE DEF days
  <2> QED
    BY <1>3, <2>1
<1>6. row \in Contract /\ row.status \in {"ACTIVE", "EXPIRED", "TERMINATED"}
  BY <1>2 DEF Inv, TypeOK, Contract, ContractRow, ContractStatuses
<1>7. Bills[i] = "ABSENT" /\ Services[c] = ServiceOf(row.status) /\ Terms[c] = TermOf(row)
  BY <1>2, AccountBefore
<1>8. Services[c] \in {"running", "over"}
  BY <1>6, <1>7 DEF ServiceOf
<1>9. days \in (SUBSET Terms[c]) \ {{}}
  <2>1. from \in days
    BY <1>2, <1>4
  <2>2. Terms[c] = row.start .. (WindowEnd(row.end, row.terminated) - 1)
    BY <1>6, <1>7 DEF TermOf
  <2>3. row.start \in Int /\ WindowEnd(row.end, row.terminated) \in Int
    BY <1>6 DEF Contract, ContractRow, Days, WindowEnd, NoDay
  <2>4. days \subseteq Terms[c]
    BY <1>2, <1>4, <2>2, <2>3
  <2> QED
    BY <2>1, <2>4
<1>10. \A j \in Invoices : Charges[j] \cap ({c} \X days) = {}
  <2> SUFFICES ASSUME NEW j \in Invoices, NEW e \in days, <<c, e>> \in Charges[j]
               PROVE  FALSE
    OBVIOUS
  <2>1. /\ IsCharged(j) /\ invoice[j].contract = c
        /\ e \in Int /\ invoice[j].from <= e /\ e < invoice[j].to
    BY ChargedDays DEF Inv
  <2>2. ~PeriodsMeet(invoice[j].from, invoice[j].to, from, to)
    BY <1>2, <2>1 DEF PeriodTaken
  <2>3. invoice[j].from \in Int /\ invoice[j].to \in Int
    BY CalendarAssumption DEF Inv, TypeOK, Invoice, Days
  <2> QED
    BY <1>4, <2>1, <2>2, <2>3 DEF PeriodsMeet
<1> HIDE DEF days
<1>11. Account!Bill(i, c)
  BY <1>5, <1>7, <1>8, <1>9, <1>10 DEF Account!Bill
<1> QED
  BY <1>11 DEF Account!Next

\* Every other change of an invoice keeps its charge or takes it back.
LEMMA MoveSeen ==
    ASSUME Inv, NEW i \in Invoices, NEW to,
           <<invoice[i].status, to>> \in InvoiceTransitions \cup {<<"ISSUED", "OVERDUE">>},
           invoice' = [invoice EXCEPT ![i].status = to], UNCHANGED contract
    PROVE  Account!Next
<1>1. PICK after : after = [invoice[i] EXCEPT !.status = to]
  OBVIOUS
<1>2. invoice' = [invoice EXCEPT ![i] = after]
  BY <1>1
<1>3. /\ after.status = to /\ after.contract = invoice[i].contract
      /\ after.from = invoice[i].from /\ after.to = invoice[i].to
  BY <1>1 DEF Inv, TypeOK, Invoice
<1>4. /\ Bills' = [Bills EXCEPT ![i] = to]
      /\ Charges' = [Charges EXCEPT ![i] = ChargeOf(after)]
      /\ Services' = Services /\ Terms' = Terms
  BY <1>2, <1>3, InvoiceChanges DEF Inv
<1>5. Bills[i] = invoice[i].status /\ Charges[i] = ChargeOf(invoice[i])
      /\ Charges = [j \in Invoices |-> ChargeOf(invoice[j])]
  BY AccountBefore
<1>6. CASE to = "CANCELLED"
  <2>1. Bills[i] \in {"DRAFT", "ISSUED", "OVERDUE"} /\ ChargeOf(after) = {}
    BY <1>3, <1>5, <1>6 DEF InvoiceTransitions, ChargeOf
  <2>2. Account!Cancel(i)
    BY <1>4, <1>6, <2>1 DEF Account!Cancel
  <2> QED
    BY <2>2 DEF Account!Next
<1>7. CASE to # "CANCELLED"
  <2>1. <<Bills[i], to>> \in Account!Advances
    BY <1>5, <1>7 DEF InvoiceTransitions, Account!Advances
  <2>2. invoice[i].status \notin {"ABSENT", "CANCELLED"} /\ to \notin {"ABSENT", "CANCELLED"}
    BY <1>7 DEF InvoiceTransitions
  <2>3. ChargeOf(after) = ChargeOf(invoice[i])
    BY <1>3, <2>2 DEF ChargeOf
  <2>4. Charges' = Charges
    BY <1>4, <1>5, <2>3
  <2>5. Account!Advance(i)
    BY <1>4, <2>1, <2>4 DEF Account!Advance
  <2> QED
    BY <2>5 DEF Account!Next
<1> QED
  BY <1>6, <1>7

LEMMA ContractCallSeen == Inv /\ Inv' /\ ContractCalls => [Account!Next]_(Account!vars)
<1> SUFFICES ASSUME Inv, Inv', ContractCalls PROVE [Account!Next]_(Account!vars)
  OBVIOUS
<1>1. CASE UNCHANGED <<contract, invoice>>
  BY <1>1, AccountRests
<1> QED
  BY <1>1, CreateContractSeen, CommitSeen DEF Inv, ContractCalls, BeginPatch, AbortPatch, invoiceVars

LEMMA InvoiceCallSeen == Inv /\ InvoiceCalls => Account!Next
  BY CreateInvoiceSeen, MoveSeen DEF InvoiceCalls, ChangeInvoiceStatus, contractVars

LEMMA ScanSeen ==
    ASSUME Inv, (\E p \in WarnJobs : WarnSteps(p)) \/ (\E p \in DueJobs : DueSteps(p))
    PROVE  [Account!Next]_(Account!vars)
<1>1. CASE UNCHANGED <<contract, invoice>>
  BY <1>1, AccountRests
<1>2. ASSUME NEW p \in WarnJobs, WarnSteps(p)
      PROVE  UNCHANGED <<contract, invoice>> \/ \E c \in Contracts : Warn(p, c)
  BY <1>2 DEF WarnSteps, ReadExpiring, WarnFails, WarnCrash, invoiceVars
<1>3. ASSUME NEW p \in DueJobs, DueSteps(p)
      PROVE  UNCHANGED <<contract, invoice>> \/ Account!Next
  <2>1. ASSUME NEW i \in Invoices, MarkOverdue(p, i)
        PROVE  UNCHANGED <<contract, invoice>> \/ Account!Next
    BY <2>1, MoveSeen DEF MarkOverdue, PastDue, contractVars
  <2> QED
    BY <1>3, <2>1 DEF DueSteps, ReadPastDue, MarkOverdueFails, DueCrash, contractVars
<1> QED
  BY <1>1, <1>2, <1>3, WarnSeen DEF Inv

LEMMA StepSeen == Inv /\ Inv' /\ [Next]_vars => [Account!Next]_(Account!vars)
<1> SUFFICES ASSUME Inv, Inv', [Next]_vars PROVE [Account!Next]_(Account!vars)
  OBVIOUS
<1>1. CASE UNCHANGED <<contract, invoice>>
  BY <1>1, AccountRests
<1> QED
  BY <1>1, ContractCallSeen, InvoiceCallSeen, ScanSeen
     DEF Next, NextDay, vars, contractVars, invoiceVars

LEMMA InitSeen == Init => Account!Init
<1> SUFFICES ASSUME Init PROVE Account!Init
  OBVIOUS
<1>1. AbsentContract.status = "ABSENT" /\ AbsentInvoice.status = "ABSENT"
  BY DEF AbsentContract, AbsentInvoice
<1>2. /\ \A c \in Contracts : ServiceOf(contract[c].status) = "none" /\ TermOf(contract[c]) = {}
      /\ \A i \in Invoices : invoice[i].status = "ABSENT" /\ ChargeOf(invoice[i]) = {}
  BY <1>1 DEF Init, ServiceOf, TermOf, ChargeOf
<1>3. /\ Services = [c \in Contracts |-> "none"] /\ Terms = [c \in Contracts |-> {}]
      /\ Bills = [i \in Invoices |-> "ABSENT"] /\ Charges = [i \in Invoices |-> {}]
  BY <1>2, AccountBefore
<1> QED
  BY <1>3 DEF Account!Init

\* Overlapping PATCHes, invoices and scans show the site nothing but single steps of its
\* account: a term in force only grows, a closed one stands, and a charge lies in its
\* term, is the only one of its days and goes away by a cancellation only (update,
\* create, changeStatus, markOverdueBySystem).
THEOREM AccountImplemented == Spec => ImplementsAccount
<1> QED
  BY InitSeen, StepSeen, Invariance, PTL DEF Spec, ImplementsAccount, Account!Spec
=============================================================================
