# Verification of the site technical-support backend

TLA+ models, TLC runs and TLAPS proofs for the server in this repository: a
NestJS application over one PostgreSQL database (READ COMMITTED, Prisma) that
several processes may run at once.  Everything below is translated from the
code under `src/src`, from the schema (`src/prisma/schema.prisma`) and from the
SQL of the migrations, which holds constraints and triggers the code relies on.

## 1. Inventory

| Component | State it keeps | Operations | Talks to |
|---|---|---|---|
| Outbox, producer (`infrastructure/events/outbox.service.ts`) | `outbox_events` | `publishInTx`, inside the caller's transaction | called by every service that changes something |
| Outbox relay and dispatcher (`modules/notifications/outbox-relay.service.ts`, `notification-dispatcher.service.ts`) | queue columns of `outbox_events`; `notification_deliveries`; audit rows; `isPolling` of each process | poll: sweep, claim, fan out, resolve a failure | reads users and memberships for recipients; writes the delivery rows |
| Delivery relay (`notification-delivery-relay.service.ts`) | queue columns of `notification_deliveries`; audit rows | poll: sweep, claim, send, write the result | the SMS provider |
| Tickets (`modules/tickets`) | `tickets`, `ticket_status_history` | create, update, changeStatus, cancel | contracts (what is active, for the SLA), assignments, outbox |
| Assignments, materials used (`modules/assignments`) | `assignments`, `assignment_materials` | assign or reassign, accept, reject, status events, cancel, add material | moves tickets through `TicketTransitionService` |
| Contracts (`modules/contracts`) | `contracts` | create, PATCH, expiry scan | invoices (termination), outbox |
| Billing (`modules/billing`) | `contract_invoices` | create, change status, overdue scan | locks the contract row, outbox |
| Authentication (`modules/auth`) | `otp_challenges`, `refresh_sessions` | request and verify a code, rotate, log out, revoke all | SMS provider; reads users and memberships |
| Users, memberships, unit assignments (`modules/users`, `modules/memberships`) | `users`, `site_memberships`, `resident_unit_assignments` | onboard, update, deactivate for a site or globally, end a residence | revokes sessions |
| Attachments (`modules/attachments`, `infrastructure/storage`) | `ticket_attachments`, temporary and final files on disk | upload, download | reads tickets and assignments; outbox |
| Facilities, material catalogue, rate limits, development SMS providers, guards, filters, configuration | trees and reference data; counters of a library | mostly reads | – |

### What is hard in this code

* **Leases without tokens.**  A claim of a queue row is a lease.  When it lapses
  a second process claims the row while the first one still works on it; the
  writes of a worker carry no claim number, only status guards.
* **Reads outside the transaction that uses them.**  The recipients of a
  fan-out, the contract of a new ticket, the candidates of a daily scan and the
  overlap check of a contract are all read from rows nobody has locked.
* **The world outside the database.**  An SMS cannot be rolled back and the
  answer of the provider may be lost; so may the acknowledgement of a COMMIT.
* **Crashes** between a claim and its result, possibly at every attempt.
* **Two state machines that must move together**: tickets and assignments,
  driven by calls that technicians, operations and customers make late, twice or
  in an order the tests do not try.
* **Long legal sequences** over contracts and invoices: extend, terminate early,
  cancel and invoice again.
* **Locks of many kinds.**  Logins, rotations and deactivations lock challenges,
  sessions and user rows; onboardings and departures take an advisory lock on a
  phone number, row locks on memberships and residences, and the implicit locks of
  foreign keys and unique indexes.  Who waits for whom is nowhere written down.
* **Two stores that fail apart**: the disk and the database of an upload.
* **Limits**: batch sizes, chunk limits and attempt budgets that could starve a row.

`PROJECT.json` lists every such place with its line under `hazards`, and with the
properties that would notice it going wrong.

### What makes each component correct

* outbox relay – a queued notification belongs to a PROCESSED event, a failure is
  on record once, an event that is done stays done, and each event is resolved;
* delivery relay – at most one SMS per claim, PROCESSED means sent, a result is
  never overwritten, each row settles if the provider answers;
* tickets and assignments – the two state machines agree; the live assignment is
  the one marked current; outcomes are final; a version names one state of a row;
* contracts – two of them are never in force on one day; a warning of the coming
  end goes out once per end date and activation;
* billing – no day is charged twice, nothing is charged outside the contract,
  paid and cancelled invoices stay so, unpaid ones are found;
* authentication – a code is compared a bounded number of times, lets in once and
  gives way to a newer one; a login is a chain of refresh tokens of which one works;
  a deactivated account has no way in but those already open;
* users – a resident of a unit is a member of its site; one phone number has one
  home; a residence ends once; concurrent calls never wait in a circle (those of
  authentication may, where two revocations or two uses of codes of one user meet);
* attachments – a row has its file, a refused upload leaves none, and no upload is
  admitted once the ticket or the assignment no longer allows it.

## 2. Modules

```
LeaseQueue        one queue row: claim, sweep, backoff, failure
    LeaseQueueProofs
  OutboxRelay       outbox relay + dispatcher      implements  EventLedger
    OutboxRelayProofs
  DeliveryRelay     delivery relay + SMS provider
    DeliveryRelayProofs
TicketWorkflow    tickets + assignments          implements  ServiceDesk
  TicketWorkflowProofs
BillingCalendar   days, periods, billable window
  ContractBilling   contracts + invoices + daily scans   implements  SiteAccount
    ContractBillingProofs
AuthSessions      codes + refresh sessions + deactivation   implements  LoginChains
  AuthSessionsProofs
Residents         onboarding, phone numbers, memberships, residences   implements  HousingRegister
  ResidentsProofs
AttachmentUpload  files and rows of uploads
  AttachmentUploadProofs
MC...             small instances of the seven systems for TLC
```

How state and actions correspond to the code (the exact lines are in
`PROJECT.json` under `map`):

* **LeaseQueue** is shared by both relays, as the SQL is the same.  A row is its
  `status`, its `attempt_count` and its `next_attempt_at`, the last one reduced
  to what the queries can tell: `none` (NULL), `later`, `now`.  `Claimable`,
  `Claimed`, `Exhausted` and `Swept` are the WHERE and SET of `claimBatch` and
  `sweepExhausted`; `AfterFailure` is `resolveFailure`.
* **OutboxRelay**: `phase[p]` is where `pollOnce` of process p is (`isPolling`
  keeps it from starting a second poll), `job[p][e]` is one `processClaimedRow`;
  the rows of a batch proceed concurrently.  `commitFanOut` is two actions,
  `InsertDeliveries` and `CommitFanOut`, because its rows are locked in between and
  others wait for them or skip them.  The COMMIT may succeed and still look like a
  failure.  `contacts` stands for the users a recipient lookup finds; it changes
  at any moment.
* **DeliveryRelay**: as above; `SendSms` and `SendSmsFails` are the provider.
  Its rows appear by themselves: a fan-out of OutboxRelay inserts rows that are new
  and due, and nothing else in the relay depends on where they come from.
* **TicketWorkflow**: each handler locks the ticket row first, so each is one
  action that may happen at any time with any arguments.  `create` reads the
  contract before its transaction and is two (`PrepareTicket`, `InsertTicket`).
  `ApplyStatusTransition` is the one place that moves a ticket.  `seen` is the copy
  of a row some client holds and sends back the version of.
* **ContractBilling**: a PATCH is two actions, `BeginPatch` (lock, checks) and
  `CommitPatch` (the UPDATE past the exclusion constraint and the trigger), because
  the overlap check reads unlocked rows.  A scan is a query (`ReadExpiring`,
  `ReadPastDue`) and one transaction per candidate (`Warn`, `MarkOverdue`); between
  them the row may become anything.
* **AuthSessions**: a request of the API is `call[k]`, with the stage it is in, the
  row it is about, the rows its last snapshot saw (`seen`) and those it has locked
  (`held`).  A `SELECT ... FOR UPDATE` waits for the row and sees its newest version.
  An `updateMany` picks its rows in one step – under READ COMMITTED that is how a row
  inserted in between is missed – and then locks them one by one, in any order and those
  that no longer match too (`LockSeen`, `LockOpen`); it keeps what it has while it waits
  for the next.  `verifyOtp` locks from the newest code down, keeps those it passes over
  (`PassOver`), and is then a transaction of up to four steps (`LockChallenge`,
  `FindActiveUser`, `CheckMembership`, `CommitLogin`), as users and memberships
  change between its reads.  A session may be committed and its token never reach the
  client (`LoseAnswer`); `Compensate` is the revocation after a failed signature.
* **Residents**: `onboardResident` is five actions from `TakePhoneLock` to
  `CommitOnboarding`; what it inserts is invisible to others until the commit, but the
  locks it implies are not.  `member` holds the active memberships with role RESIDENT.
  A change of the phone number (`edit`) takes no advisory lock and waits only for the
  locks of the user row and of the unique index.
* **AttachmentUpload**: `stage[u]` is where `upload()` is; `temp`, `final` and `rows`
  are the disk and the database.  Every deletion may fail and is then swallowed.  A
  failed commit may have committed all the same.  `CloseTicket` and `EndAssignment`
  stand for TicketWorkflow, from which this module needs no more.
* **EventLedger**, **ServiceDesk**, **SiteAccount**, **LoginChains** and
  **HousingRegister** say what the outbox promises to producers, what the desk promises to
  customers and technicians, what contracts and invoices promise to the site, what a login
  promises to its user, and what the register of residents promises to the site, without
  rows, leases, versions, constraints or locks.  `ImplementsLedger`, `ImplementsDesk`,
  `ImplementsAccount`, `ImplementsChains` and `ImplementsRegister` are the refinement
  mappings, checked as properties and proved.

Operators whose comment calls them a faulty variant are not part of any
specification: each is the plausible slip that one property has to notice, and
stands in front of the definition it would replace.

What the models leave out of the handlers they contain: text, payloads, pagination,
formatting, logs; audit and outbox rows, except where a property counts them
(failure audits, warnings, reminders); checks of memberships and of a technician's
activity in TicketWorkflow, since those facts change at any time and such a check
only makes a call end without a trace; the urgency URGENT, which no code tells from
STANDARD; rate limits, which only delay calls; access tokens and `token_version`,
which no row depends on; the site's managers, in Residents, beyond what the policy
asks of the target.

## 3. Runs

| Run | Instance | What it shows |
|---|---|---|
| `outbox` | 2 processes, 1 event, 3 claims, 2 phones | bookkeeping invariants, refinement of EventLedger, every event is resolved |
| `outbox_fan_out_once` | 2 processes, 2 phones | the comment that calls the fan-out exactly-once does not hold |
| `delivery` | 2 processes, 2 rows, batch 1, 2 claims | SMS copies bounded by claims, results are final, rows settle, none starves another |
| `delivery_silent_provider` | 1 process, 1 row | the runbook's reclaim of an expired lease needs a provider that answers |
| `tickets` | 1 ticket, 2 technicians, one user per other role, 2 assignments, versions to 11 | agreement of the state machines, who can move a ticket on, versions, final outcomes, refinement of ServiceDesk |
| `ticket_started` | 1 technician | RESUME starts work without `startedAt` |
| `ticket_sla` | 2 contracts | a change of urgency recomputes the SLA target from another contract |
| `contracts_in_force` | 2 contracts, 4 days, 2 PATCHes, 2 scans | contracts in force never overlap; warned exactly once |
| `contract_billing` | 1 contract, 2 invoices, 3 days, 1 PATCH, 2 scans, 2 currencies | invoices against their contract, refinement of SiteAccount, past-due invoices are found |
| `sessions` | 1 user, 2 calls, 2 codes, 3 sessions, 2 attempts | bounded attempts, superseded codes, which calls may deadlock and that nothing else stops one, deactivation, refinement of LoginChains |
| `residents` | 1 user, 2 phone numbers, 2 units on 2 sites, 2 calls, 2 residences | membership of residents, one home per number, one end per residence, refinement of HousingRegister, no deadlock, every call ends |
| `uploads` | one upload of each role | rows have files, refused uploads leave none, late ones dry up |

### Bounds, and why they are enough

* `MaxEvents`, `MaxDeliveries`: rows of a queue interact only through the batch
  limit and through processes that wait for a whole batch.  One row shows every
  race of workers; two rows with `BatchSize = 1` show starvation.
* `Procs = {p1, p2}` with three claims lets two leases overlap, lets the third
  attempt (and the sweep) overtake both, and exhausts the budget.  More workers on
  one row need more claims and add no new pair of steps; the proofs cover them.
* `MaxVersion = 11` lets a ticket go through a rejection, a second assignment, all
  status events, a wait for material and an edit.  `MaxAssignments = 2` gives one
  superseded or rejected assignment beside the live one.
* `MaxDay` and `DueDays`: adjacent, overlapping and disjoint ranges, an early and a
  late termination day and a due date that passes all fit in three or four days.
  `LeadDays = 1` and `ChunkLimit = 1` put candidates inside and outside the warning
  window and of a chunk.  `contract_billing` has one contract, so what SiteAccount says of
  two is left to `InForceDisjoint` in the other run and to the proof.
* `sessions`: two calls at a time are what every race here is made of (two requests, two
  attempts, a rotation twice, a login and a deactivation); with three sessions a chain
  can be rotated twice, or reused while a second login is open.  Two codes give a
  newer and an older one.  Users share nothing, so one is enough.
* `residents`: one user, since calls of different users meet only at phone numbers and
  units; that the numbers of many users stay apart is part of `RegisterImplemented`.  Two
  calls onboard, leave or end in every combination while the phone number changes.  Two
  units on two sites let a home conflict with another one and a departure from one site
  leave the other alone.  Two residences are a home and its successor, or the two that
  an overlapping change of number allows.
* `uploads`: requests share nothing but the ticket and the assignment; one of each role
  is every case.
* History counters (`failAudits`, `fanOuts`, `sms`, `warnings`, `reminders`, `guesses`,
  `ends`) are bounded by the properties themselves; the proofs treat them as naturals.

Symmetry is used only where no liveness property is checked and where the
elements are interchangeable (technicians; contracts, clients, jobs; calls).

Deadlock is checked in every run but `uploads`, where the uploads are finitely many
and the system really stops; elsewhere something can always happen (time or contracts
change, a poll starts, a scan reads, a request comes).  In AuthSessions and Residents
something always may, so that TLC's deadlock check alone would not notice calls that
wait in a circle.  In Residents `NoDeadlock` and `CallsEnd` say that they do not; in
AuthSessions some may, and `OnlyBulkDeadlocks` says which.
Both have two halves.  `NoCircleOfWaits` and `Deadlock` speak of any set of calls, so
that a third call which can go on does not hide two that cannot; `OnlyWaitsStop` says that a
call which cannot go on waits for a lock of another one, and for nothing else.  Whether
a call can go on (`MayProceed`) is said with the very guards its actions have.

The type invariant of each module is a theorem.

### Fairness

* **Outbox and delivery relays.**  Time passes (`WF` of `Elapse`).  A process polls
  again on its timer whatever happened before, and a crashed one is restarted, so
  each step of a poll that is possible again and again is taken (`SF` of `Sweep` and
  `Claim`; `WF` of `EndPoll`).  A step of a worker is a database call, which answers
  or fails (`WF` of all the ways one may end).  Nothing assumes that a call
  succeeds: each may fail or the process may crash every time, and the budget and
  the sweep still resolve the row.
* **The SMS provider.**  `ProviderAnswers` is an assumption about it, since
  the code sets no time limit.  `EventuallySettled` needs it;
  `delivery_silent_provider` shows what happens without.
* **Overdue scan.**  Some process's cron ticks every day (`SF` of a read by some
  process) and neither a crash nor a failure hits the same row every time (`SF` of
  `MarkOverdue`, per invoice).  The latter is a true assumption: the code would
  retry a row that always fails for ever.
* **Residents.**  A call in progress is a transaction of the database, which grants a
  lock in the order of the requests, so a call that can go on again and again does
  (`SF` of `Proceed`, per call, and of `CommitPhoneChange`).  No new call has to come.
* TicketWorkflow, AuthSessions and AttachmentUpload have none.  Nobody has to make any
  call; which calls of AuthSessions may block each other, and that a ticket has
  somebody who can move it on, are invariants.

### Disagreements between documents and code

Four runs expect a violation; the quotes are in `PROJECT.json` under `findings`.

1. `FanOutOnce`: the dispatcher's comment says its bookkeeping is exactly-once.  Two
   workers with overlapping leases whose recipient lists have no phone in common
   both commit, because only the unique key on (event, phone, channel) stops a
   second fan-out.
2. `LeaseExpiryFreesRow`: the runbook has an expired lease reclaimed by itself.  A
   poll waits for all its sends, so a provider call that never returns stops the
   relay of that process.
3. `CompletedWorkStarted`: START is documented as the move from ARRIVED to
   IN_PROGRESS and sets `startedAt`; RESUME makes the same move and does not.
4. `SlaOfFirstContract`: the SLA target is documented as computed only at creation;
   a change of urgency computes it again from the contract active by then.

Smaller ones that the properties are worded around:

* `docs/phase-3-plan.md:31-32` and the reuse detection of
  `docs/implementation-overrides.md` (section 8) revoke all sessions of a user in one
  transaction.  `revokeAllForUser` is an `updateMany` that does not see a session which a
  login or a rotation in flight is about to commit (`users.service.ts:299`,
  `token.service.ts:105`), so a deactivated user may keep a live session.  It does no
  harm for long: `rotate` revokes it when it finds the user inactive, and a second
  deactivation would see it.  `DeactivationDries` states what does hold.
* `docs/architecture.md:1828` orders the locks of tickets and assignments; no document
  orders those of sessions and codes.  `revokeAllForUser` (`refresh-session.repository.ts:74-79`)
  locks a user's sessions one by one, and a reuse detection holds one before it starts.
  Two of them, or one and a global deactivation, can each hold a session the other wants.
  For example: one has updated session A and wants B, which is logged out meanwhile; the
  client presents B, the second detection locks it and wants A.  PostgreSQL ends one of
  the two as a deadlock: the call fails, revokes nothing (or leaves the user active), and
  nothing repeats it.  Two requests for a code of one user, or a request and an attempt
  that passed closed codes over, can meet the same way in `otp_challenges`.
  `OnlyBulkDeadlocks` says that these are the only ways; the run is large enough
  for those over sessions, while those over codes take more codes than it has.
* The documents assume one active unit per resident (`docs/phase-3-plan.md:52`,
  `resident-unit-assignment.repository.ts:29-31`).  The index of the database is per
  unit, and the advisory lock per phone number: if the number changes between two
  overlapping onboardings of one user, both may insert a residence.  `OneHomePerPhone`
  is the promise the lock keeps.
* `onboardResident` finds a user by phone whether or not they are active; a user
  deactivated globally can be onboarded and still not log in.
* `docs/implementation-overrides.md:79-80` has the assignment of an attachment read inside
  the transaction; `assertUploadAllowed` reads it before.  A composite foreign key holds
  the pair together, but the ticket may be closed by then: hence `LateUploadsDry`.
* `docs/phase-6-plan.md` (9, step 8) knows two kinds of orphans, both files without a
  row.  A lost acknowledgement of the commit gives the third: a row whose file the catch
  has deleted (`unconfirmed` in `RowHasFile`); its download answers with a storage error.
* No document says what becomes of an accepted ticket whose technician is deactivated
  (`users.service.ts:283`).  `NoDeadEnd` says what the code has: until the work is done
  nobody but that technician can complete it, operations can put it on hold and no more.
* The check of `attemptCount` that `verifyOtp` makes before it compares a code
  (`auth.service.ts:103-111`) never finds anything: by `AttemptsBounded` no used-up code
  is open.

## 4. Proofs

TLAPS checks these for every value of the constants, from the named assumptions on
them only.

The assumptions say that bounds are natural numbers and at least one where the code
configures them so, and that sets of processes, calls and rows are finite where the
model counts them (`CallsAssumption`: a server handles finitely many requests at once).

**OutboxRelayProofs.**  `TypeCorrect` is inductive by itself.
`DeliveriesSafe`, `FailureAudits` and `ProcessedFinal` come from `SafetyInv`: an
event with queued deliveries is PROCESSED, and its audit count follows from its
status.  Most steps are *quiet* (they move no row between statuses), which
`StepKinds` says once.  `AttemptsIdentify` needs `ClaimInv`: a job's attempt number
has been claimed, so a new claim gets a number nobody holds.
`RelayImplementsLedger` adds `FanOutLock`: while one fan-out transaction holds the
row, no other has one open, and what it inserted is not there yet.

**LeaseQueueProofs** holds what both relays' proofs cite of a queue row: what the claim,
the sweep and the failure do to its status and its attempts.

**DeliveryRelayProofs.**  `TypeCorrect` is inductive by itself, and `FailureAudits` and
`SettledFinal` follow from the status guards, as in the outbox relay.  `SmsOncePerClaim`
needs `SmsInv`: a job's claim has been counted, no other job of the row has its number,
and a copy has gone out under it exactly if its stage says so (`JobHolds`).  So each
claim accounts for one copy at most, although overtaken workers go on sending.
`ProcessedSent` follows, since only a job that has sent marks its row.

**AttachmentUploadProofs.**  `RowsHaveFiles` needs that a request past `Finalize` and
before its undoing has its file; `RefusalsLeaveNothing`, where each file may still be at
each stage; `NoLateUploads` that the set counted by `Behind` only loses members.

**TicketWorkflowProofs.**  One inductive invariant, `Inv`: types, agreement of the
statuses, `is_current` marks the live row, materials stay with active or
completed work, drafts belong to tickets that do not exist, and what clients hold
is old.  The agreement is restated row by row (`AgreeOn`), so that a step is
one of four kinds: quiet, a step of the live row, a new assignment, materials.
`TypeCorrect`, `AssignmentFollows`, `MaterialsAlwaysStay` and `VersionsNameStates` follow; `FinalOutcomes` is an action property from `Inv`;
`VisitsStamped` adds how far the ticket's way went (`StampedSoFar`).
`DeskImplemented` maps each of the four kinds to a step of ServiceDesk or to nothing
(`DeskMove`); it needs that a draft is its reporter's own (`DraftsOfReporters`).
`AlwaysAWayOn` needs besides that a live assignment has a technician (`Staffed`); which
calls may move a ticket is then the table of transitions, restricted to what each
endpoint lets through (`MoversOfTaken`, `MoversOfOthers`).

**ContractBillingProofs.**  `Inv` joins the invariants the runs check with two that
make them inductive.  `PatchesAreChecked`: nobody touches the row an open PATCH has
locked, so what `BeginPatch` checked of it (`Checked`) still holds when `CommitPatch`
writes; this is why a contract in force is only ever extended under its invoices.
`InvoicedIsSettled`: a contract with an invoice, cancelled or not, has left DRAFT, so
its currency cannot change any more.  `NeverTwoInForce`, `ChargesStayWithin`,
`NeverChargedTwice`, `CurrencySettled`, `MarksAreWarnings` and `OneReminder` follow, and
`SettledForGood` is an action property from `Inv`.
`AccountImplemented` looks at contracts and invoices as a site does: the days of a term,
and the days of a contract that an invoice charges (`TermDays`, `ChargedDays`).  The
COMMIT of a PATCH begins a term, lengthens it or closes it (`CommitSeen`); that its days
are nobody else's is the exclusion constraint (`ServesAlone`), and that a closed term
still covers its charges is the trigger (`ChargesCovered`).  An invoice charges free days
of the term once and for all; every other step shows the site nothing.

**ResidentsProofs.**  `Inv` joins the invariants the run checks with what the locks
guarantee.  `LocksExclude`: two calls never hold one phone number, one membership or one
residence.  What a call relies on at its stage (its user, its membership, the
residences it has read) is then true until it commits, since every step that could
change it waits for a lock the call holds.  `ResidentsAreMembers` is the case of an
onboarding that inserts its residence while it holds the membership, and of a departure
that ends membership and residences together; `OneHome` the case of two onboardings
under one number; `EndsOnce` that of a departure and an ending that meet at a residence.
`RegisterImplemented` adds what makes every call atomic to the outside (`CallsKnow`,
`Numbered`): a membership that is being inserted is nobody's yet and always comes with a
residence; the rows a departure is about to end are those of its member; members and
users whose number changes have a number.  A departure that finds no membership, as
another one has just ended it, and meets a new onboarding may end the new home and
leave the membership: that is `MoveOut` in the register, not `Leave`.

**AuthSessionsProofs.**  `Inv` has three layers: `LocksExclude`; what a call knows of
the rows it holds (`Relies`); and facts about the rows themselves, among them that
codes are in the order of their requests, that an open one has been compared fewer than
`MaxAttempts` times, and that the sessions that came from one code have at most one
among them that is not revoked.  `Attempts` and `Superseded` follow.  A step is then
classified by what it does to sessions and calls: `Dries` counts the ways in and shows
that no step adds one for an inactive user, `ChainsImplemented` maps each step to a
move of one login or a stutter.

`DeadlocksConfined` is about locks only.  A call waits only for one of the same user,
and its stage says for which (`WaitsAre`): requests and logins that have found no code yet
for those that hold codes, logins that have for a deactivation, revocations for whoever
holds a session.  A `Deadlock` is a circle with no smaller one inside, so any calls of it
that wait for none of the rest are all of it (`WholeDeadlock`); hence one user, and
revocations either only or not at all.  Two deactivations exclude each other by the user
row, so one of the revocations is a reuse detection; logins take codes from the newest to
the oldest, so logins alone cannot close the circle (`LoginsAlone`) and one of the others
is a request.  `Relies` carries what this needs: whose rows a call has seen and
locked, and that a login's next code is older than those it holds.  `StoppedWaits` goes
through the stages of a call: whatever a guard refuses, it refuses for a row another call
holds.  `SomeoneProceeds` puts the two together: where revocations of a user come one
after the other, and uses of its codes too (`OneAtATime`), one of the user's calls can
always go on.

In Residents `NeverDeadlocked` excludes every circle.  An ending waits for nobody.
Whoever holds a membership waits only for a unit or for residences, and it is an ending
that holds those; whoever waits for a membership waits for a call that holds it already
and is past that stage.  So among any calls the one furthest on can go on.

Only model-checked: the liveness properties (`EventuallyResolved`, `EventuallySettled`,
`PastDueIsFound`, `CallsEnd`), which are out of the prover's reach.  Every other property
of a passing run is a theorem.  Guards that a property speaks of are named operators
which the actions use too (`MayCommitLogin`, `MayAssign`), so no property needs ENABLED.
No module uses a RECURSIVE operator, and no proof needs induction over data.

## 5. Not modelled, and what comes next

| Part | Why not, or when |
|---|---|
| Facilities | an append-only tree; no operation moves or deletes a node |
| Material catalogue | read only in this program |
| Rate limiting, development SMS providers | wrappers and stand-ins without state of their own |
| Guards, filters, validation, logging, health, configuration | stateless plumbing; role checks appear as guards of the actions they protect |

Nothing of the plan is open.  Should the project grow, what comes first are the measures
(claims left, calls ahead in the order of locks) that would carry the liveness properties
from the instances of the runs to any number of processes and rows.
