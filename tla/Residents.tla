------------------------------ MODULE Residents ------------------------------
(****************************************************************************)
(* Who lives where: UsersService.onboardResident, update (the phone         *)
(* number), deactivateSiteMembership and deactivateAssignment over users,   *)
(* site_memberships (role RESIDENT) and resident_unit_assignments, here     *)
(* "residences".                                                            *)
(*                                                                          *)
(* Calls interleave where PostgreSQL lets them (READ COMMITTED).  The locks *)
(* are: the advisory lock on a phone number, the row lock on a user's       *)
(* latest membership of a site, the row lock on a residence, and the key    *)
(* share lock on the user row that an inserted membership takes, which a    *)
(* change of the phone number waits for.                                    *)
(****************************************************************************)
EXTENDS Naturals, FiniteSets

CONSTANTS
    Users,         \* user rows
    Phones,        \* phone numbers
    NoPhone,       \* a user row that does not exist yet
    Sites,         \* sites
    Units,         \* units
    SiteOf,        \* SiteOf[n]: the site unit n belongs to
    Calls,         \* requests the API serves at the same time
    MaxResidences  \* bound: residences ever inserted

ASSUME UsersAssumption == Users # {}
ASSUME PhonesAssumption == Phones # {}
ASSUME UnitsAssumption == Units # {}
ASSUME NoPhoneAssumption == NoPhone \notin Phones
ASSUME SiteOfAssumption == SiteOf \in [Units -> Sites]
ASSUME MaxResidencesAssumption == MaxResidences \in Nat

VARIABLES
    phone,      \* phone[u]: users.phone_number, or NoPhone
    member,     \* <<user, site>> pairs with an active membership
    residence,  \* residence[r]: row r of resident_unit_assignments
    call,       \* call[k]: what request k is doing
    edit        \* the change of a phone number in progress; bound: one at a time

vars == <<phone, member, residence, call, edit>>

Rows == 1 .. MaxResidences

Residence ==
    [status : {"absent", "active", "ended"},
     user   : Users,
     unit   : Units,
     phone  : Phones,  \* the number it was onboarded under (history)
     ends   : 0 .. 1]  \* times it was ended (history)

\* Onboarding: "phone", "user", "membership", "checked".  deactivateSiteMembership:
\* "leave", "membersEnded", "leaving".  deactivateAssignment: "end".
Stages == {"idle", "phone", "user", "membership", "checked",
           "leave", "membersEnded", "leaving", "end"}

\* "row": locks the active membership row; "new": has inserted one.
Locks == {"none", "row", "new"}

Call ==
    [stage  : Stages,
     user   : Users,
     site   : Sites,
     unit   : Units,
     phone  : Phones,
     lock   : Locks,
     insert : BOOLEAN,     \* a residence is to be inserted
     rows   : SUBSET Rows] \* residences of the last snapshot, or the one locked

Edit == [on : BOOLEAN, user : Users, phone : Phones]

TypeOK ==
    /\ phone \in [Users -> Phones \cup {NoPhone}]
    /\ member \in SUBSET (Users \X Sites)
    /\ residence \in [Rows -> Residence]
    /\ call \in [Calls -> Call]
    /\ edit \in Edit

\* An idle call; its user, site, unit and phone mean nothing.
Resting ==
    LET n == CHOOSE m \in Units : TRUE
    IN [stage |-> "idle", user |-> CHOOSE u \in Users : TRUE, site |-> SiteOf[n],
        unit |-> n, phone |-> CHOOSE p \in Phones : TRUE, lock |-> "none",
        insert |-> FALSE, rows |-> {}]

NoEdit == [on |-> FALSE, user |-> Resting.user, phone |-> Resting.phone]

AbsentRow ==
    [status |-> "absent", user |-> Resting.user, unit |-> Resting.unit,
     phone |-> Resting.phone, ends |-> 0]

\* Users may be there already, as members whose residences ended before.
Init ==
    /\ phone \in [Users -> Phones \cup {NoPhone}]
    /\ \A u, v \in Users : phone[u] = phone[v] => u = v \/ phone[u] = NoPhone
    /\ member \in SUBSET ({u \in Users : phone[u] # NoPhone} \X Sites)
    /\ residence = [r \in Rows |-> AbsentRow]
    /\ call = [k \in Calls |-> Resting]
    /\ edit = NoEdit

ActiveOf(u) == {r \in Rows : residence[r].status = "active" /\ residence[r].user = u}
ActiveAt(u, s) == {r \in ActiveOf(u) : SiteOf[residence[r].unit] = s}

Onboards(k) == call[k].stage \in {"phone", "user", "membership", "checked"}
PhoneLocked(p) == \E k \in Calls : Onboards(k) /\ call[k].phone = p
MembershipLocked(u, s) ==
    \E k \in Calls : call[k].lock # "none" /\ call[k].user = u /\ call[k].site = s
ResidenceLocked(r) == \E k \in Calls : call[k].stage = "end" /\ r \in call[k].rows
\* findScopedForUpdate joins facilities: FOR UPDATE locks the unit's row too.
UnitLocked(n) == \E k \in Calls : call[k].stage = "end" /\ call[k].unit = n

\* Rolls back, or commits without a change.
Finish(k) == call' = [call EXCEPT ![k] = Resting]

-----------------------------------------------------------------------------
(* onboardResident                                                          *)

Begins(k, p, n) ==
    call' = [call EXCEPT ![k] =
        [@ EXCEPT !.stage = "phone", !.phone = p, !.unit = n, !.site = SiteOf[n]]]

\* Faulty variant of TakePhoneLock: no advisory lock.
TakeNoLock(k, p, n) ==
    /\ call[k].stage = "idle"
    /\ Begins(k, p, n)
    /\ UNCHANGED <<phone, member, residence, edit>>

TakePhoneLock(k, p, n) ==
    /\ call[k].stage = "idle"
    /\ ~PhoneLocked(p)
    /\ Begins(k, p, n)
    /\ UNCHANGED <<phone, member, residence, edit>>

\* A user row no committed user has and no onboarding is inserting.
Spare(u) ==
    phone[u] = NoPhone /\ \A k \in Calls : ~(Onboards(k) /\ call[k].stage # "phone" /\ call[k].user = u)

\* findByPhone, and create when nobody has the number.
FindUser(k) ==
    /\ call[k].stage = "phone"
    /\ \E u \in Users :
          /\ \/ phone[u] = call[k].phone
             \/ Spare(u) /\ \A v \in Users : phone[v] # call[k].phone
          /\ call' = [call EXCEPT ![k].stage = "user", ![k].user = u]
    /\ UNCHANGED <<phone, member, residence, edit>>

\* The model's bound: an onboarding that needs one more user row is rolled back.
NoUserLeft(k) ==
    /\ call[k].stage = "phone"
    /\ \A u \in Users : phone[u] # call[k].phone /\ ~Spare(u)
    /\ Finish(k)
    /\ UNCHANGED <<phone, member, residence, edit>>

\* Faulty variant of UpsertMembership: the latest row is read without a lock.
UpsertMembershipPlainRead(k) ==
    /\ call[k].stage = "user"
    /\ call' = [call EXCEPT ![k].stage = "membership",
          ![k].lock = IF <<call[k].user, call[k].site>> \in member THEN "none" ELSE "new"]
    /\ UNCHANGED <<phone, member, residence, edit>>

\* upsertActive waits for the row, or for another insertion into its unique index.
MayUpsertMembership(k) ==
    call[k].stage = "user" /\ ~MembershipLocked(call[k].user, call[k].site)

UpsertMembership(k) ==
    /\ MayUpsertMembership(k)
    /\ call' = [call EXCEPT ![k].stage = "membership",
          ![k].lock = IF <<call[k].user, call[k].site>> \in member THEN "row" ELSE "new"]
    /\ UNCHANGED <<phone, member, residence, edit>>

\* findActiveForUser: no residence, or one in this unit.
CheckResidence(k) ==
    /\ call[k].stage = "membership"
    /\ \/ ActiveOf(call[k].user) = {}
       \/ \E r \in ActiveOf(call[k].user) : residence[r].unit = call[k].unit
    /\ call' = [call EXCEPT ![k].stage = "checked",
                            ![k].insert = ActiveOf(call[k].user) = {}]
    /\ UNCHANGED <<phone, member, residence, edit>>

\* Faulty variant of LivesElsewhere: the membership stays, as if it had been
\* committed on its own.
LivesElsewhereStaysMember(k) ==
    /\ call[k].stage = "membership"
    /\ \E r \in ActiveOf(call[k].user) : residence[r].unit # call[k].unit
    /\ member' = member \cup {<<call[k].user, call[k].site>>}
    /\ Finish(k)
    /\ UNCHANGED <<phone, residence, edit>>

LivesElsewhere(k) ==
    /\ call[k].stage = "membership"
    /\ \E r \in ActiveOf(call[k].user) : residence[r].unit # call[k].unit
    /\ Finish(k)
    /\ UNCHANGED <<phone, member, residence, edit>>

TakenFrom(u, p) == \E v \in Users \ {u} : phone[v] = p
PhoneTaken(k) == TakenFrom(call[k].user, call[k].phone)
AlreadyThere(k) ==
    \E r \in ActiveOf(call[k].user) : residence[r].unit = call[k].unit
\* The model's bound: an onboarding that needs one more row is rolled back.
NoRowLeft == \A r \in Rows : residence[r].status # "absent"

\* P2002 of users.phone_number or uq_resident_unit_active.
Conflicts(k) ==
    \/ phone[call[k].user] = NoPhone /\ PhoneTaken(k)
    \/ call[k].insert /\ (AlreadyThere(k) \/ NoRowLeft)

MayCommitOnboarding(k) ==
    /\ call[k].stage = "checked" /\ ~Conflicts(k)
    /\ call[k].insert => ~UnitLocked(call[k].unit)

CommitOnboarding(k) ==
    /\ MayCommitOnboarding(k)
    /\ phone' = [phone EXCEPT ![call[k].user] = IF @ = NoPhone THEN call[k].phone ELSE @]
    /\ member' = IF call[k].lock = "new"
                 THEN member \cup {<<call[k].user, call[k].site>>} ELSE member
    /\ IF call[k].insert
       THEN \E r \in Rows :
              /\ residence[r].status = "absent"
              /\ \A q \in Rows : q < r => residence[q].status # "absent"
              /\ residence' = [residence EXCEPT ![r] =
                    [status |-> "active", user |-> call[k].user, unit |-> call[k].unit,
                     phone |-> call[k].phone, ends |-> 0]]
       ELSE UNCHANGED residence
    /\ Finish(k)
    /\ UNCHANGED edit

OnboardingConflicts(k) ==
    /\ call[k].stage = "checked" /\ Conflicts(k)
    /\ Finish(k)
    /\ UNCHANGED <<phone, member, residence, edit>>

-----------------------------------------------------------------------------
(* update with a phone number, by a site manager: the target must have an   *)
(* active membership when the policy reads them.                            *)

AdmitPhoneChange(u, p) ==
    /\ ~edit.on
    /\ phone[u] # NoPhone /\ phone[u] # p
    /\ \E s \in Sites : <<u, s>> \in member
    /\ edit' = [on |-> TRUE, user |-> u, phone |-> p]
    /\ UNCHANGED <<phone, member, residence, call>>

\* Waits for a membership being inserted for the user, and for a user being
\* inserted with the number; the unique index refuses a number in use.
CommitPhoneChange ==
    /\ edit.on
    /\ \A k \in Calls : call[k].lock = "new" => call[k].user # edit.user
    /\ \A k \in Calls : Onboards(k) /\ call[k].stage # "phone"
          => ~(phone[call[k].user] = NoPhone /\ call[k].phone = edit.phone)
    /\ phone' = IF TakenFrom(edit.user, edit.phone) THEN phone
                ELSE [phone EXCEPT ![edit.user] = edit.phone]
    /\ edit' = NoEdit
    /\ UNCHANGED <<member, residence, call>>

AbortPhoneChange ==
    /\ edit.on
    /\ edit' = NoEdit
    /\ UNCHANGED <<phone, member, residence, call>>

-----------------------------------------------------------------------------
(* deactivateSiteMembership                                                 *)

BeginLeave(k, u, s) ==
    /\ call[k].stage = "idle" /\ <<u, s>> \in member
    /\ call' = [call EXCEPT ![k] = [@ EXCEPT !.stage = "leave", !.user = u, !.site = s]]
    /\ UNCHANGED <<phone, member, residence, edit>>

\* deactivateForSite waits for the row it sees; an uncommitted one it does not see.
MayEndMemberships(k) ==
    /\ call[k].stage = "leave"
    /\ <<call[k].user, call[k].site>> \in member
          => ~MembershipLocked(call[k].user, call[k].site)

EndMemberships(k) ==
    /\ MayEndMemberships(k)
    /\ call' = [call EXCEPT ![k].stage = "membersEnded",
          ![k].lock = IF <<call[k].user, call[k].site>> \in member THEN "row" ELSE @]
    /\ UNCHANGED <<phone, member, residence, edit>>

\* Faulty variant of MayPickResidences: the phone lock is taken after the membership.
MayPickUnderPhoneLock(k) ==
    call[k].stage = "membersEnded" /\ ~PhoneLocked(phone[call[k].user])

MayPickResidences(k) == call[k].stage = "membersEnded"

\* deactivateAllForUserInSite picks its rows ...
PickResidences(k) ==
    /\ MayPickResidences(k)
    /\ call' = [call EXCEPT ![k].stage = "leaving",
                            ![k].rows = ActiveAt(call[k].user, call[k].site)]
    /\ UNCHANGED <<phone, member, residence, edit>>

Ended(r) == [r EXCEPT !.status = "ended", !.ends = @ + 1]

\* ... and, when none of them is locked, ends those still active and commits.
MayCommitLeave(k) ==
    call[k].stage = "leaving" /\ \A r \in call[k].rows : ~ResidenceLocked(r)

CommitLeave(k) ==
    /\ MayCommitLeave(k)
    /\ residence' = [r \in Rows |->
          IF r \in call[k].rows /\ residence[r].status = "active"
          THEN Ended(residence[r]) ELSE residence[r]]
    /\ member' = IF call[k].lock = "row"
                 THEN member \ {<<call[k].user, call[k].site>>} ELSE member
    /\ Finish(k)
    /\ UNCHANGED <<phone, edit>>

-----------------------------------------------------------------------------
(* deactivateAssignment                                                     *)

\* Faulty variant of LockResidence: the row is read without a lock.
LockResidencePlainRead(k, r) ==
    /\ call[k].stage = "idle"
    /\ residence[r].status = "active"
    /\ call' = [call EXCEPT ![k] = [@ EXCEPT
          !.stage = "end", !.rows = {r}, !.unit = residence[r].unit]]
    /\ UNCHANGED <<phone, member, residence, edit>>

\* findScopedForUpdate; a row that is not active ends the call.
LockResidence(k, r) ==
    /\ call[k].stage = "idle"
    /\ residence[r].status = "active"
    /\ ~ResidenceLocked(r) /\ ~UnitLocked(residence[r].unit)
    /\ call' = [call EXCEPT ![k] = [@ EXCEPT
          !.stage = "end", !.rows = {r}, !.unit = residence[r].unit]]
    /\ UNCHANGED <<phone, member, residence, edit>>

CommitEnd(k) ==
    /\ call[k].stage = "end"
    /\ residence' = [r \in Rows |->
          IF r \in call[k].rows THEN Ended(residence[r]) ELSE residence[r]]
    /\ Finish(k)
    /\ UNCHANGED <<phone, member, edit>>

-----------------------------------------------------------------------------
\* A transaction is rolled back: an error, its timeout, or a crash.
Abort(k) ==
    /\ call[k].stage # "idle"
    /\ Finish(k)
    /\ UNCHANGED <<phone, member, residence, edit>>

\* What a call does by itself, unless it fails.
Proceed(k) ==
    \/ FindUser(k)
    \/ NoUserLeft(k)
    \/ UpsertMembership(k)
    \/ CheckResidence(k)
    \/ LivesElsewhere(k)
    \/ CommitOnboarding(k)
    \/ OnboardingConflicts(k)
    \/ EndMemberships(k)
    \/ PickResidences(k)
    \/ CommitLeave(k)
    \/ CommitEnd(k)

Next ==
    \/ \E k \in Calls : Proceed(k) \/ Abort(k)
    \/ \E k \in Calls, p \in Phones, n \in Units : TakePhoneLock(k, p, n)
    \/ \E u \in Users, p \in Phones : AdmitPhoneChange(u, p)
    \/ CommitPhoneChange
    \/ AbortPhoneChange
    \/ \E k \in Calls, u \in Users, s \in Sites : BeginLeave(k, u, s)
    \/ \E k \in Calls, r \in Rows : LockResidence(k, r)

Spec == Init /\ [][Next]_vars

\* PostgreSQL grants a lock in the order of the requests.
Fairness ==
    /\ \A k \in Calls : SF_vars(Proceed(k))
    /\ SF_vars(CommitPhoneChange)
FairSpec == Spec /\ Fairness

-----------------------------------------------------------------------------
(* Properties *)

\* A resident of a unit is a member of its site, whatever onboardings and
\* deactivations run at once (upsertActive, deactivateSiteMembership).
ResidentIsMember ==
    \A r \in Rows : residence[r].status = "active" =>
        <<residence[r].user, SiteOf[residence[r].unit]>> \in member

\* A user has one active residence, or several made under different numbers: the
\* advisory lock orders the onboardings of one number only (acquirePhoneLock).
OneHomePerPhone ==
    \A u \in Users : \A q, r \in ActiveOf(u) :
        residence[q].phone = residence[r].phone => q = r

\* A residence ends once, by deactivateAssignment or with the membership.
EndedOnce ==
    \A r \in Rows : residence[r].ends = (IF residence[r].status = "ended" THEN 1 ELSE 0)

Homes ==
    {<<residence[r].user, residence[r].unit>> :
        r \in {q \in Rows : residence[q].status = "active"}}
Register == INSTANCE HousingRegister WITH
    Numbers <- Phones, NoNumber <- NoPhone,
    number <- phone, members <- member, homes <- Homes

\* However calls interleave, each looks as if it happened at once: nobody becomes a
\* member, or a user, but by moving in; nobody who leaves keeps a home behind; and a
\* number never names two users (onboardResident, deactivateSiteMembership, update).
ImplementsRegister == Register!Spec

\* The guards of Proceed(k).
MayProceed(k) ==
    \/ call[k].stage \in {"phone", "membership", "end"}
    \/ call[k].stage = "checked" /\ Conflicts(k)
    \/ MayUpsertMembership(k)
    \/ MayCommitOnboarding(k)
    \/ MayEndMemberships(k)
    \/ MayPickResidences(k)
    \/ MayCommitLeave(k)

\* Call j cannot go on while call k holds a membership, a unit or a residence it needs.
WaitsFor(j, k) ==
    /\ j # k
    /\ \/ /\ call[j].stage \in {"user", "leave"}
          /\ call[k].lock # "none"
          /\ call[k].user = call[j].user /\ call[k].site = call[j].site
       \/ /\ call[j].stage = "checked" /\ call[j].insert
          /\ call[k].stage = "end" /\ call[k].unit = call[j].unit
       \/ /\ call[j].stage = "leaving"
          /\ call[k].stage = "end" /\ call[k].rows \cap call[j].rows # {}

\* Among any calls, one waits for none of the rest.
NoCircleOfWaits ==
    \A W \in SUBSET Calls : W # {} => \E j \in W : \A k \in W : ~WaitsFor(j, k)

\* Nothing but such a wait stops a call that has begun.
OnlyWaitsStop ==
    \A j \in Calls : call[j].stage # "idle" =>
        MayProceed(j) \/ \E k \in Calls : WaitsFor(j, k)

\* An onboarding takes the phone, the membership and the unit, a departure the
\* membership and the residences, and the end of a residence its row and its unit: they
\* never stop each other (onboardResident, deactivateSiteMembership,
\* deactivateAssignment).  A call that waits for the phone lock holds nothing yet, and
\* nobody waits for a change of a phone number.
NoDeadlock == NoCircleOfWaits /\ OnlyWaitsStop

\* Every call ends: the locks are always taken in an order that has no cycle.
CallsEnd ==
    /\ \A k \in Calls : call[k].stage # "idle" ~> call[k].stage = "idle"
    /\ edit.on ~> ~edit.on
=============================================================================
