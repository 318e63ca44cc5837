--------------------------- MODULE ResidentsProofs ---------------------------
(****************************************************************************)
(* Proofs about Residents, for any number of users, numbers, sites, units   *)
(* and concurrent calls.  All of them rest on one inductive invariant, Inv: *)
(* the locks of the calls in progress exclude each other, and under its     *)
(* locks each call knows something of the rows that nobody can make false   *)
(* before it commits.                                                       *)
(****************************************************************************)
EXTENDS Residents, TLAPS

OnboardingStages == {"phone", "user", "membership", "checked"}

\* Calls c and d hold one lock: an advisory lock, a membership, or a residence.
Clash(c, d) ==
    \/ /\ c.stage \in OnboardingStages /\ d.stage \in OnboardingStages
       /\ c.phone = d.phone
    \/ /\ c.lock # "none" /\ d.lock # "none"
       /\ c.user = d.user /\ c.site = d.site
    \/ c.stage = "end" /\ d.stage = "end" /\ c.rows \cap d.rows # {}

LocksExclude == \A j, k \in Calls : Clash(call[j], call[k]) => j = k

\* What call c relies on, stage by stage.
Relies(c) ==
    /\ c.stage \in {"idle", "phone", "user", "leave", "end"} => c.lock = "none"
    /\ c.stage \in {"membership", "checked"} => c.lock # "none"
    /\ c.stage \in OnboardingStages => c.site = SiteOf[c.unit]
    /\ c.lock = "row" => <<c.user, c.site>> \in member
    /\ c.stage = "leaving" /\ c.lock = "row" => ActiveAt(c.user, c.site) \subseteq c.rows
    /\ c.stage = "checked" /\ c.insert =>
          \A r \in ActiveOf(c.user) : residence[r].phone # c.phone
    /\ c.stage = "end" => \A r \in c.rows : residence[r].status = "active"

Inv ==
    /\ TypeOK
    /\ LocksExclude
    /\ \A k \in Calls : Relies(call[k])
    /\ ResidentIsMember
    /\ OneHomePerPhone
    /\ EndedOnce

(*************************************************************************)
(* The initial states                                                    *)
(*************************************************************************)

\* A call at rest is well typed, and relies on nothing.
LEMMA RestingType ==
    /\ Resting \in Call
    /\ Resting.stage = "idle" /\ Resting.lock = "none"
<1>1. (CHOOSE u \in Users : TRUE) \in Users
  BY UsersAssumption, Zenon
<1>2. (CHOOSE p \in Phones : TRUE) \in Phones
  BY PhonesAssumption, Zenon
<1>3. (CHOOSE n \in Units : TRUE) \in Units
  BY UnitsAssumption, Zenon
<1> QED
  BY <1>1, <1>2, <1>3, SiteOfAssumption DEF Resting, Call, Stages, Locks

LEMMA RestingRelies == Relies(Resting)
  BY RestingType DEF Relies, OnboardingStages

\* A call at rest holds no lock.
LEMMA RestingFree == \A c \in Call : ~Clash(Resting, c) /\ ~Clash(c, Resting)
  BY RestingType DEF Clash, OnboardingStages

LEMMA InitInv == Init => Inv
<1> SUFFICES ASSUME Init PROVE Inv
  OBVIOUS
<1>1. AbsentRow \in Residence /\ AbsentRow.status = "absent" /\ AbsentRow.ends = 0
  BY RestingType DEF AbsentRow, Residence, Call
<1>2. NoEdit \in Edit
  BY RestingType DEF NoEdit, Edit, Call
<1>3. TypeOK
  BY <1>1, <1>2, RestingType DEF Init, TypeOK
<1>4. LocksExclude
  BY RestingType, RestingFree DEF Init, LocksExclude
<1>5. \A k \in Calls : Relies(call[k])
  BY RestingRelies DEF Init
<1>6. \A r \in Rows : residence[r].status = "absent" /\ residence[r].ends = 0
  BY <1>1 DEF Init
<1> QED
  BY <1>3, <1>4, <1>5, <1>6
  DEF Inv, ResidentIsMember, OneHomePerPhone, EndedOnce, ActiveOf

(*************************************************************************)
(* Steps that change what one call is doing and no row                   *)
(*************************************************************************)

\* A call may move on to c when it knows what c relies on and no other call holds
\* a lock of c.
LEMMA CallMoves ==
    ASSUME Inv, NEW k \in Calls, NEW c \in Call,
           call' = [call EXCEPT ![k] = c],
           UNCHANGED <<phone, member, residence, edit>>,
           Relies(c), \A j \in Calls \ {k} : ~Clash(c, call[j])
    PROVE  Inv'
<1>1. TypeOK'
  BY DEF Inv, TypeOK
<1>2. LocksExclude'
  <2> SUFFICES ASSUME NEW i \in Calls, NEW j \in Calls, i # j
               PROVE  ~Clash(call'[i], call'[j])
    BY DEF LocksExclude, Clash
  <2>1. CASE i = k
    BY <2>1 DEF Inv, TypeOK
  <2>2. CASE j = k
    BY <2>2 DEF Inv, TypeOK, Clash
  <2>3. CASE i # k /\ j # k
    BY <2>3 DEF Inv, TypeOK, LocksExclude
  <2> QED
    BY <2>1, <2>2, <2>3
<1>3. ASSUME NEW j \in Calls PROVE Relies(call[j])'
  <2>1. Relies(call'[j])
    BY DEF Inv, TypeOK
  <2> QED
    BY <2>1 DEF Relies, ActiveAt, ActiveOf
<1>4. (ResidentIsMember /\ OneHomePerPhone /\ EndedOnce)'
  BY DEF Inv, ResidentIsMember, OneHomePerPhone, EndedOnce, ActiveOf
<1> QED
  BY <1>1, <1>2, <1>3, <1>4 DEF Inv

\* So it may end without having changed anything.
LEMMA CallRests ==
    ASSUME Inv, NEW k \in Calls, Finish(k), UNCHANGED <<phone, member, residence, edit>>
    PROVE  Inv'
<1>1. \A j \in Calls \ {k} : ~Clash(Resting, call[j])
  BY RestingFree DEF Inv, TypeOK
<1> QED
  BY <1>1, CallMoves, RestingType, RestingRelies DEF Finish

LEMMA TakePhoneLockKeeps ==
    ASSUME Inv, NEW k \in Calls, NEW p \in Phones, NEW n \in Units, TakePhoneLock(k, p, n)
    PROVE  Inv'
<1> DEFINE c == [call[k] EXCEPT !.stage = "phone", !.phone = p, !.unit = n, !.site = SiteOf[n]]
<1>1. c \in Call /\ call[k] \in Call /\ \A j \in Calls : call[j] \in Call
  BY SiteOfAssumption DEF Inv, TypeOK, Call, Stages
<1>2. call[k].lock = "none"
  BY DEF Inv, Relies, TakePhoneLock
<1>3. Relies(c)
  BY <1>1, <1>2 DEF Relies, Call, OnboardingStages
<1>4. \A j \in Calls \ {k} : ~Clash(c, call[j])
  BY <1>1, <1>2 DEF Clash, Call, OnboardingStages, TakePhoneLock, PhoneLocked, Onboards
<1>5. call' = [call EXCEPT ![k] = c] /\ UNCHANGED <<phone, member, residence, edit>>
  BY DEF TakePhoneLock, Begins
<1> QED
  BY <1>1, <1>3, <1>4, <1>5, CallMoves

LEMMA FindUserKeeps ==
    ASSUME Inv, NEW k \in Calls, FindUser(k)
    PROVE  Inv'
<1>1. PICK u \in Users : call' = [call EXCEPT ![k].stage = "user", ![k].user = u]
  BY DEF FindUser
<1> DEFINE c == [call[k] EXCEPT !.stage = "user", !.user = u]
<1>2. c \in Call /\ \A j \in Calls : call[j] \in Call
  BY DEF Inv, TypeOK, Call, Stages
<1>3. call[k].stage = "phone" /\ call[k].lock = "none" /\ call[k].site = SiteOf[call[k].unit]
  BY DEF Inv, Relies, FindUser, OnboardingStages
<1>4. Relies(c)
  BY <1>2, <1>3 DEF Relies, Call, OnboardingStages
<1>5. \A j \in Calls \ {k} : ~Clash(c, call[j])
  BY <1>2, <1>3 DEF Inv, LocksExclude, Clash, Call, OnboardingStages
<1>6. call' = [call EXCEPT ![k] = c] /\ UNCHANGED <<phone, member, residence, edit>>
  BY <1>1 DEF FindUser, Inv, TypeOK
<1> QED
  BY <1>2, <1>4, <1>5, <1>6, CallMoves

LEMMA UpsertMembershipKeeps ==
    ASSUME Inv, NEW k \in Calls, UpsertMembership(k)
    PROVE  Inv'
<1> DEFINE held == IF <<call[k].user, call[k].site>> \in member THEN "row" ELSE "new"
           c == [call[k] EXCEPT !.stage = "membership", !.lock = held]
<1>1. c \in Call /\ \A j \in Calls : call[j] \in Call
  BY DEF Inv, TypeOK, Call, Stages, Locks
<1>2. call[k].stage = "user" /\ call[k].site = SiteOf[call[k].unit]
  BY DEF Inv, Relies, UpsertMembership, MayUpsertMembership, OnboardingStages
<1>3. Relies(c)
  BY <1>1, <1>2 DEF Relies, Call, OnboardingStages
<1>4. \A j \in Calls \ {k} : ~Clash(c, call[j])
  BY <1>1, <1>2 DEF Inv, LocksExclude, Clash, Call, OnboardingStages, UpsertMembership,
      MayUpsertMembership, MembershipLocked
<1>5. call' = [call EXCEPT ![k] = c] /\ UNCHANGED <<phone, member, residence, edit>>
  BY DEF UpsertMembership, MayUpsertMembership, Inv, TypeOK
<1> QED
  BY <1>1, <1>3, <1>4, <1>5, CallMoves

LEMMA CheckResidenceKeeps ==
    ASSUME Inv, NEW k \in Calls, CheckResidence(k)
    PROVE  Inv'
<1> DEFINE none == ActiveOf(call[k].user) = {}
           c == [call[k] EXCEPT !.stage = "checked", !.insert = none]
<1>1. c \in Call /\ \A j \in Calls : call[j] \in Call
  BY DEF Inv, TypeOK, Call, Stages
<1>2. /\ call[k].stage = "membership" /\ call[k].site = SiteOf[call[k].unit]
      /\ call[k].lock # "none"
      /\ call[k].lock = "row" => <<call[k].user, call[k].site>> \in member
  BY DEF Inv, Relies, CheckResidence, OnboardingStages
<1>3. Relies(c)
  BY <1>1, <1>2 DEF Relies, Call, OnboardingStages
<1>4. \A j \in Calls \ {k} : ~Clash(c, call[j])
  BY <1>1, <1>2 DEF Inv, LocksExclude, Clash, Call, OnboardingStages
<1>5. call' = [call EXCEPT ![k] = c] /\ UNCHANGED <<phone, member, residence, edit>>
  BY DEF CheckResidence, Inv, TypeOK
<1> QED
  BY <1>1, <1>3, <1>4, <1>5, CallMoves

LEMMA BeginLeaveKeeps ==
    ASSUME Inv, NEW k \in Calls, NEW u \in Users, NEW s \in Sites, BeginLeave(k, u, s)
    PROVE  Inv'
<1> DEFINE c == [call[k] EXCEPT !.stage = "leave", !.user = u, !.site = s]
<1>1. c \in Call /\ \A j \in Calls : call[j] \in Call
  BY DEF Inv, TypeOK, Call, Stages
<1>2. call[k].lock = "none"
  BY DEF Inv, Relies, BeginLeave
<1>3. Relies(c)
  BY <1>1, <1>2 DEF Relies, Call, OnboardingStages
<1>4. \A j \in Calls \ {k} : ~Clash(c, call[j])
  BY <1>1, <1>2 DEF Clash, Call, OnboardingStages
<1>5. call' = [call EXCEPT ![k] = c] /\ UNCHANGED <<phone, member, residence, edit>>
  BY DEF BeginLeave
<1> QED
  BY <1>1, <1>3, <1>4, <1>5, CallMoves

LEMMA EndMembershipsKeeps ==
    ASSUME Inv, NEW k \in Calls, EndMemberships(k)
    PROVE  Inv'
<1>1. /\ \A j \in Calls : call[j] \in Call
      /\ call[k].stage = "leave" /\ call[k].lock = "none"
  BY DEF Inv, TypeOK, Relies, EndMemberships, MayEndMemberships
<1>2. CASE /\ <<call[k].user, call[k].site>> \in member
           /\ ~MembershipLocked(call[k].user, call[k].site)
           /\ call' = [call EXCEPT ![k].stage = "membersEnded", ![k].lock = "row"]
  <2> DEFINE c == [call[k] EXCEPT !.stage = "membersEnded", !.lock = "row"]
  <2>1. c \in Call
    BY <1>1 DEF Call, Stages, Locks
  <2>2. Relies(c)
    BY <1>1, <1>2, <2>1 DEF Relies, Call, OnboardingStages
  <2>3. \A j \in Calls \ {k} : ~Clash(c, call[j])
    BY <1>1, <1>2, <2>1 DEF Clash, Call, OnboardingStages, MembershipLocked
  <2>4. call' = [call EXCEPT ![k] = c] /\ UNCHANGED <<phone, member, residence, edit>>
    BY <1>2 DEF EndMemberships, MayEndMemberships, Inv, TypeOK
  <2> QED
    BY <2>1, <2>2, <2>3, <2>4, CallMoves
<1>3. CASE call' = [call EXCEPT ![k].stage = "membersEnded"]
  <2> DEFINE c == [call[k] EXCEPT !.stage = "membersEnded"]
  <2>1. c \in Call
    BY <1>1 DEF Call, Stages
  <2>2. Relies(c) /\ \A j \in Calls \ {k} : ~Clash(c, call[j])
    BY <1>1, <2>1 DEF Relies, Clash, Call, OnboardingStages
  <2>3. call' = [call EXCEPT ![k] = c] /\ UNCHANGED <<phone, member, residence, edit>>
    BY <1>3 DEF EndMemberships, MayEndMemberships, Inv, TypeOK
  <2> QED
    BY <2>1, <2>2, <2>3, CallMoves
<1> QED
  BY <1>2, <1>3 DEF EndMemberships, MayEndMemberships

LEMMA PickResidencesKeeps ==
    ASSUME Inv, NEW k \in Calls, PickResidences(k)
    PROVE  Inv'
<1> DEFINE rows == ActiveAt(call[k].user, call[k].site)
           c == [call[k] EXCEPT !.stage = "leaving", !.rows = rows]
<1>0. rows \in SUBSET Rows
  BY DEF ActiveAt, ActiveOf
<1>1. c \in Call /\ \A j \in Calls : call[j] \in Call
  BY <1>0 DEF Inv, TypeOK, Call, Stages
<1>2. /\ call[k].stage = "membersEnded"
      /\ call[k].lock = "row" => <<call[k].user, call[k].site>> \in member
  BY DEF Inv, Relies, PickResidences, MayPickResidences
<1>3. Relies(c)
  BY <1>1, <1>2 DEF Relies, Call, OnboardingStages
<1>4. \A j \in Calls \ {k} : ~Clash(c, call[j])
  BY <1>1, <1>2 DEF Inv, LocksExclude, Clash, Call, OnboardingStages
<1>5. call' = [call EXCEPT ![k] = c] /\ UNCHANGED <<phone, member, residence, edit>>
  BY DEF PickResidences, MayPickResidences, Inv, TypeOK
<1> QED
  BY <1>1, <1>3, <1>4, <1>5, CallMoves

LEMMA LockResidenceKeeps ==
    ASSUME Inv, NEW k \in Calls, NEW r \in Rows, LockResidence(k, r)
    PROVE  Inv'
<1> DEFINE c == [call[k] EXCEPT !.stage = "end", !.rows = {r}, !.unit = residence[r].unit]
<1>1. c \in Call /\ \A j \in Calls : call[j] \in Call
  BY DEF Inv, TypeOK, Call, Residence, Stages
<1>2. call[k].lock = "none" /\ residence[r].status = "active"
  BY DEF Inv, Relies, LockResidence
<1>3. Relies(c)
  BY <1>1, <1>2 DEF Relies, Call, OnboardingStages
<1>4. \A j \in Calls \ {k} : ~Clash(c, call[j])
  BY <1>1, <1>2 DEF Clash, Call, OnboardingStages, LockResidence, ResidenceLocked
<1>5. call' = [call EXCEPT ![k] = c] /\ UNCHANGED <<phone, member, residence, edit>>
  BY DEF LockResidence
<1> QED
  BY <1>1, <1>3, <1>4, <1>5, CallMoves

(*************************************************************************)
(* Steps that write rows                                                 *)
(*************************************************************************)

\* Letting one call rest takes no lock, so locks still exclude each other.
LEMMA FinishKeepsLocks ==
    ASSUME Inv, NEW k \in Calls, Finish(k)
    PROVE  /\ call' \in [Calls -> Call] /\ LocksExclude'
           /\ \A j \in Calls \ {k} : call'[j] = call[j]
           /\ call'[k] = Resting
<1>1. call' \in [Calls -> Call]
  BY RestingType DEF Finish, Inv, TypeOK
<1>2. call'[k] = Resting /\ \A j \in Calls \ {k} : call'[j] = call[j]
  BY DEF Finish, Inv, TypeOK
<1>3. LocksExclude'
  BY <1>1, <1>2, RestingFree DEF LocksExclude, Inv, TypeOK
<1> QED
  BY <1>1, <1>2, <1>3

\* An onboarding commits: nobody else can insert the user's residence under this
\* number, and nobody else holds the membership.
LEMMA CommitOnboardingKeeps ==
    ASSUME Inv, NEW k \in Calls, CommitOnboarding(k)
    PROVE  Inv'
<1> DEFINE c == call[k]
           fresh(r) == [status |-> "active", user |-> c.user, unit |-> c.unit,
                        phone |-> c.phone, ends |-> 0]
<1>1. /\ TypeOK /\ c \in Call /\ c.stage = "checked" /\ c.lock # "none"
      /\ c.site = SiteOf[c.unit]
      /\ c.lock = "row" => <<c.user, c.site>> \in member
      /\ c.insert => \A r \in ActiveOf(c.user) : residence[r].phone # c.phone
  BY DEF Inv, TypeOK, Relies, CommitOnboarding, MayCommitOnboarding, Conflicts, OnboardingStages
<1>2. /\ call' \in [Calls -> Call] /\ LocksExclude'
      /\ \A j \in Calls \ {k} : call'[j] = call[j]
      /\ call'[k] = Resting
  BY FinishKeepsLocks DEF CommitOnboarding, MayCommitOnboarding, Conflicts
<1>3. member \subseteq member' /\ <<c.user, c.site>> \in member'
      /\ member' \in SUBSET (Users \X Sites)
  BY <1>1 DEF CommitOnboarding, MayCommitOnboarding, Conflicts, Locks, Call, TypeOK
<1>4. phone' \in [Users -> Phones \cup {NoPhone}] /\ edit' \in Edit
  BY <1>1 DEF CommitOnboarding, MayCommitOnboarding, Conflicts, TypeOK, Call
<1>5. CASE ~c.insert
  <2>1. UNCHANGED residence
    BY <1>5 DEF CommitOnboarding, MayCommitOnboarding, Conflicts
  <2>2. ASSUME NEW j \in Calls PROVE Relies(call[j])'
    <3>1. CASE j = k
      BY <3>1, <1>2, RestingType DEF Relies, OnboardingStages
    <3>2. CASE j # k
      <4>1. Relies(call[j])
        BY DEF Inv
      <4> QED
        BY <3>2, <2>1, <1>2, <1>3, <4>1 DEF Relies, ActiveAt, ActiveOf
    <3> QED
      BY <3>1, <3>2
  <2> QED
    BY <1>1, <1>2, <1>3, <1>4, <2>1, <2>2
    DEF Inv, TypeOK, ResidentIsMember, OneHomePerPhone, EndedOnce, ActiveOf
<1>6. CASE c.insert
  <2>1. PICK r \in Rows : /\ residence[r].status = "absent"
                          /\ residence' = [residence EXCEPT ![r] = fresh(r)]
    BY <1>6 DEF CommitOnboarding, MayCommitOnboarding, Conflicts
  <2>2. fresh(r) \in Residence
    BY <1>1 DEF Residence, Call
  <2>3. /\ residence' \in [Rows -> Residence]
        /\ residence'[r] = fresh(r)
        /\ \A q \in Rows \ {r} : residence'[q] = residence[q]
    BY <1>1, <2>1, <2>2 DEF TypeOK
  <2>4. ASSUME NEW j \in Calls PROVE Relies(call[j])'
    <3>1. CASE j = k
      BY <3>1, <1>2, RestingType DEF Relies, OnboardingStages
    <3>2. CASE j # k
      <4> DEFINE d == call[j]
      <4>1. Relies(d) /\ ~Clash(d, c) /\ call'[j] = d /\ d \in Call
        BY <3>2, <1>1, <1>2 DEF Inv, TypeOK, LocksExclude
      <4>2. d.stage = "leaving" /\ d.lock = "row" => ActiveAt(d.user, d.site)' \subseteq d.rows
        BY <1>1, <2>3, <4>1 DEF Relies, Clash, ActiveAt, ActiveOf
      <4>3. d.stage = "checked" /\ d.insert =>
              \A q \in ActiveOf(d.user)' : residence'[q].phone # d.phone
        BY <1>1, <2>3, <4>1 DEF Relies, Clash, ActiveOf, OnboardingStages
      <4>4. d.stage = "end" => \A q \in d.rows : residence'[q].status = "active"
        BY <2>1, <2>3, <4>1 DEF Relies, Call
      <4> QED
        BY <1>3, <4>1, <4>2, <4>3, <4>4 DEF Relies
    <3> QED
      BY <3>1, <3>2
  <2>5. ResidentIsMember'
    BY <1>1, <1>3, <2>3 DEF Inv, ResidentIsMember
  <2>6. OneHomePerPhone'
    BY <1>1, <1>6, <2>3 DEF Inv, OneHomePerPhone, ActiveOf
  <2>7. EndedOnce'
    BY <2>3 DEF Inv, EndedOnce
  <2> QED
    BY <1>2, <1>3, <1>4, <2>3, <2>4, <2>5, <2>6, <2>7 DEF Inv, TypeOK
<1> QED
  BY <1>5, <1>6

LEMMA EndedType ==
    ASSUME NEW e \in Residence, NEW n \in 0 .. 1, e.ends + 1 = n
    PROVE  Ended(e) \in Residence /\ Ended(e).status = "ended" /\ Ended(e).ends = n
<1>1. Ended(e) = [e EXCEPT !.status = "ended", !.ends = n]
  BY Zenon DEF Ended
<1>2. [e EXCEPT !.status = "ended", !.ends = n] \in Residence
  BY DEF Residence
<1>3. /\ [e EXCEPT !.status = "ended", !.ends = n].status = "ended"
      /\ [e EXCEPT !.status = "ended", !.ends = n].ends = n
  BY DEF Residence
<1> QED
  BY <1>1, <1>2, <1>3

\* An active residence that is ended has been ended once.
LEMMA EndingOnce ==
    ASSUME TypeOK, EndedOnce, NEW r \in Rows, residence[r].status = "active"
    PROVE  /\ Ended(residence[r]) \in Residence
           /\ Ended(residence[r]).status = "ended" /\ Ended(residence[r]).ends = 1
<1>1. residence[r] \in Residence /\ residence[r].ends + 1 = 1 /\ 1 \in 0 .. 1
  BY DEF TypeOK, EndedOnce
<1> QED
  BY <1>1, EndedType

\* A deactivation commits: it picked every active residence of the membership
\* it ends, and the membership was locked since.
LEMMA CommitLeaveKeeps ==
    ASSUME Inv, NEW k \in Calls, CommitLeave(k)
    PROVE  Inv'
<1> DEFINE c == call[k]
           ends(r) == r \in c.rows /\ residence[r].status = "active"
<1>1. /\ TypeOK /\ c \in Call /\ c.stage = "leaving"
      /\ c.lock = "row" => ActiveAt(c.user, c.site) \subseteq c.rows
  BY DEF Inv, TypeOK, Relies, CommitLeave, MayCommitLeave
<1>2. /\ call' \in [Calls -> Call] /\ LocksExclude'
      /\ \A j \in Calls \ {k} : call'[j] = call[j]
      /\ call'[k] = Resting
  BY FinishKeepsLocks DEF CommitLeave, MayCommitLeave
<1>3. \A r \in Rows : residence'[r] = IF ends(r) THEN Ended(residence[r]) ELSE residence[r]
  BY DEF CommitLeave, MayCommitLeave
<1>4. ASSUME NEW r \in Rows, ends(r)
      PROVE  /\ Ended(residence[r]) \in Residence
             /\ Ended(residence[r]).status = "ended" /\ Ended(residence[r]).ends = 1
  BY <1>4, EndingOnce DEF Inv
<1>5. TypeOK'
  <2>1. residence' \in [Rows -> Residence]
    BY <1>1, <1>3, <1>4 DEF CommitLeave, MayCommitLeave, TypeOK
  <2> QED
    BY <1>1, <1>2, <2>1 DEF CommitLeave, MayCommitLeave, TypeOK
<1>6. \A r \in Rows : residence'[r].status = "active" =>
          residence'[r] = residence[r] /\ ~ends(r)
  BY <1>3, <1>4
<1>7. \A u \in Users : ActiveOf(u)' \subseteq ActiveOf(u)
  BY <1>6 DEF ActiveOf
<1>8. member' \subseteq member /\ \A m \in member \ member' : c.lock = "row" /\ m = <<c.user, c.site>>
  BY DEF CommitLeave, MayCommitLeave
<1>9. ASSUME NEW j \in Calls PROVE Relies(call[j])'
  <2>1. CASE j = k
    BY <2>1, <1>2, RestingType DEF Relies, OnboardingStages
  <2>2. CASE j # k
    <3> DEFINE d == call[j]
    <3>1. Relies(d) /\ ~Clash(d, c) /\ call'[j] = d /\ d \in Call
      BY <2>2, <1>1, <1>2 DEF Inv, TypeOK, LocksExclude
    <3>2. d.lock = "row" => <<d.user, d.site>> \in member'
      BY <1>8, <3>1 DEF Relies, Clash
    <3>3. ActiveAt(d.user, d.site)' \subseteq ActiveAt(d.user, d.site)
      BY <1>6, <1>7, <3>1 DEF ActiveAt, ActiveOf, Call
    <3>4. d.stage = "checked" /\ d.insert =>
            \A q \in ActiveOf(d.user)' : residence'[q].phone # d.phone
      BY <1>6, <3>1 DEF Relies, ActiveOf
    <3>5. d.stage = "end" => \A q \in d.rows : residence'[q].status = "active"
      <4> SUFFICES ASSUME d.stage = "end", NEW q \in d.rows
                   PROVE  residence'[q].status = "active"
        OBVIOUS
      <4>1. q \in Rows /\ residence[q].status = "active"
        BY <3>1 DEF Relies, Call
      <4>2. q \notin c.rows
        BY DEF CommitLeave, MayCommitLeave, ResidenceLocked
      <4> QED
        BY <4>1, <4>2, <1>3
    <3> QED
      BY <3>1, <3>2, <3>3, <3>4, <3>5 DEF Relies
  <2> QED
    BY <2>1, <2>2
<1>10. ResidentIsMember'
  <2> SUFFICES ASSUME NEW r \in Rows, residence'[r].status = "active"
               PROVE  <<residence[r].user, SiteOf[residence[r].unit]>> \in member'
    BY <1>6 DEF ResidentIsMember
  <2>1. r \notin c.rows /\ residence[r].status = "active"
    BY <1>6
  <2>2. <<residence[r].user, SiteOf[residence[r].unit]>> \in member
    BY <2>1 DEF Inv, ResidentIsMember
  <2>3. ~(c.lock = "row" /\ residence[r].user = c.user /\ SiteOf[residence[r].unit] = c.site)
    BY <1>1, <2>1 DEF ActiveAt, ActiveOf
  <2> QED
    BY <1>8, <2>2, <2>3
<1>11. OneHomePerPhone'
  BY <1>6, <1>7 DEF Inv, OneHomePerPhone, ActiveOf
<1>12. EndedOnce'
  BY <1>3, <1>4 DEF Inv, EndedOnce
<1> QED
  BY <1>2, <1>5, <1>9, <1>10, <1>11, <1>12 DEF Inv

\* deactivateAssignment commits: the row it locked is still active, so it is
\* ended once.
LEMMA CommitEndKeeps ==
    ASSUME Inv, NEW k \in Calls, CommitEnd(k)
    PROVE  Inv'
<1> DEFINE c == call[k]
<1>1. /\ TypeOK /\ c \in Call /\ c.stage = "end"
      /\ \A r \in c.rows : residence[r].status = "active"
  BY DEF Inv, TypeOK, Relies, CommitEnd
<1>2. /\ call' \in [Calls -> Call] /\ LocksExclude'
      /\ \A j \in Calls \ {k} : call'[j] = call[j]
      /\ call'[k] = Resting
  BY FinishKeepsLocks DEF CommitEnd
<1>3. \A r \in Rows : residence'[r] = IF r \in c.rows THEN Ended(residence[r]) ELSE residence[r]
  BY DEF CommitEnd
<1>4. ASSUME NEW r \in Rows, r \in c.rows
      PROVE  /\ Ended(residence[r]) \in Residence
             /\ Ended(residence[r]).status = "ended" /\ Ended(residence[r]).ends = 1
  BY <1>1, <1>4, EndingOnce DEF Inv
<1>5. TypeOK'
  <2>1. residence' \in [Rows -> Residence]
    BY <1>1, <1>3, <1>4 DEF CommitEnd, TypeOK
  <2> QED
    BY <1>1, <1>2, <2>1 DEF CommitEnd, TypeOK
<1>6. \A r \in Rows : residence'[r].status = "active" =>
          residence'[r] = residence[r] /\ r \notin c.rows
  BY <1>3, <1>4
<1>7. \A u \in Users : ActiveOf(u)' \subseteq ActiveOf(u)
  BY <1>6 DEF ActiveOf
<1>8. ASSUME NEW j \in Calls PROVE Relies(call[j])'
  <2>1. CASE j = k
    BY <2>1, <1>2, RestingType DEF Relies, OnboardingStages
  <2>2. CASE j # k
    <3> DEFINE d == call[j]
    <3>1. Relies(d) /\ ~Clash(d, c) /\ call'[j] = d /\ d \in Call
      BY <2>2, <1>1, <1>2 DEF Inv, TypeOK, LocksExclude
    <3>2. ActiveAt(d.user, d.site)' \subseteq ActiveAt(d.user, d.site)
      BY <1>6, <1>7, <3>1 DEF ActiveAt, ActiveOf, Call
    <3>3. d.stage = "checked" /\ d.insert =>
            \A q \in ActiveOf(d.user)' : residence'[q].phone # d.phone
      BY <1>6, <3>1 DEF Relies, ActiveOf
    <3>4. d.stage = "end" => \A q \in d.rows : residence'[q].status = "active"
      <4> SUFFICES ASSUME d.stage = "end", NEW q \in d.rows
                   PROVE  residence'[q].status = "active"
        OBVIOUS
      <4>1. q \in Rows /\ residence[q].status = "active"
        BY <3>1 DEF Relies, Call
      <4>2. q \notin c.rows
        BY <1>1, <3>1 DEF Clash
      <4> QED
        BY <4>1, <4>2, <1>3
    <3> QED
      BY <3>1, <3>2, <3>3, <3>4 DEF Relies, CommitEnd
  <2> QED
    BY <2>1, <2>2
<1>9. ResidentIsMember'
  BY <1>6 DEF Inv, ResidentIsMember, CommitEnd
<1>10. OneHomePerPhone'
  BY <1>6, <1>7 DEF Inv, OneHomePerPhone, ActiveOf
<1>11. EndedOnce'
  BY <1>3, <1>4 DEF Inv, EndedOnce
<1> QED
  BY <1>2, <1>5, <1>8, <1>9, <1>10, <1>11 DEF Inv

\* Nothing of Inv is about the phone numbers but their type.
LEMMA PhoneChangeKeeps ==
    ASSUME Inv,
           \/ \E u \in Users, p \in Phones : AdmitPhoneChange(u, p)
           \/ CommitPhoneChange
           \/ AbortPhoneChange
    PROVE  Inv'
<1>1. NoEdit \in Edit
  BY RestingType DEF NoEdit, Edit, Call
<1>2. TypeOK'
  <2>1. CASE \E u \in Users, p \in Phones : AdmitPhoneChange(u, p)
    BY <2>1 DEF Inv, TypeOK, AdmitPhoneChange, Edit
  <2>2. CASE CommitPhoneChange
    <3>1. edit.user \in Users /\ edit.phone \in Phones
      BY DEF Inv, TypeOK, Edit
    <3>2. phone' \in [Users -> Phones \cup {NoPhone}]
      BY <2>2, <3>1 DEF Inv, TypeOK, CommitPhoneChange
    <3> QED
      BY <1>1, <2>2, <3>2 DEF Inv, TypeOK, CommitPhoneChange
  <2>3. CASE AbortPhoneChange
    BY <1>1, <2>3 DEF Inv, TypeOK, AbortPhoneChange
  <2> QED
    BY <2>1, <2>2, <2>3
<1>3. UNCHANGED <<member, residence, call>>
  BY DEF AdmitPhoneChange, CommitPhoneChange, AbortPhoneChange
<1>4. ASSUME NEW j \in Calls PROVE Relies(call[j])'
  BY <1>3 DEF Inv, Relies, ActiveAt, ActiveOf
<1> QED
  BY <1>2, <1>3, <1>4
  DEF Inv, LocksExclude, ResidentIsMember, OneHomePerPhone, EndedOnce, ActiveOf

(*************************************************************************)
(* Inv is inductive.                                                     *)
(*************************************************************************)

LEMMA ProceedKeeps ==
    ASSUME Inv, NEW k \in Calls, Proceed(k) \/ Abort(k)
    PROVE  Inv'
<1>1. CASE FindUser(k)
  BY <1>1, FindUserKeeps
<1>2. CASE UpsertMembership(k)
  BY <1>2, UpsertMembershipKeeps
<1>3. CASE CheckResidence(k)
  BY <1>3, CheckResidenceKeeps
<1>4. CASE CommitOnboarding(k)
  BY <1>4, CommitOnboardingKeeps
<1>5. CASE EndMemberships(k)
  BY <1>5, EndMembershipsKeeps
<1>6. CASE PickResidences(k)
  BY <1>6, PickResidencesKeeps
<1>7. CASE CommitLeave(k)
  BY <1>7, CommitLeaveKeeps
<1>8. CASE CommitEnd(k)
  BY <1>8, CommitEndKeeps
<1>9. CASE NoUserLeft(k) \/ LivesElsewhere(k) \/ OnboardingConflicts(k) \/ Abort(k)
  <2>1. Finish(k) /\ UNCHANGED <<phone, member, residence, edit>>
    BY <1>9 DEF NoUserLeft, LivesElsewhere, OnboardingConflicts, Conflicts, Abort
  <2> QED
    BY <2>1, CallRests
<1> QED
  BY <1>1, <1>2, <1>3, <1>4, <1>5, <1>6, <1>7, <1>8, <1>9 DEF Proceed

LEMMA StepInv == Inv /\ [Next]_vars => Inv'
<1> SUFFICES ASSUME Inv, [Next]_vars PROVE Inv'
  OBVIOUS
<1>1. CASE \E k \in Calls : Proceed(k) \/ Abort(k)
  BY <1>1, ProceedKeeps
<1>2. CASE \E k \in Calls, p \in Phones, n \in Units : TakePhoneLock(k, p, n)
  BY <1>2, TakePhoneLockKeeps
<1>3. CASE \/ \E u \in Users, p \in Phones : AdmitPhoneChange(u, p)
           \/ CommitPhoneChange
           \/ AbortPhoneChange
  BY <1>3, PhoneChangeKeeps
<1>4. CASE \E k \in Calls, u \in Users, s \in Sites : BeginLeave(k, u, s)
  BY <1>4, BeginLeaveKeeps
<1>5. CASE \E k \in Calls, r \in Rows : LockResidence(k, r)
  BY <1>5, LockResidenceKeeps
<1>6. CASE UNCHANGED vars
  <2>1. ASSUME NEW j \in Calls PROVE Relies(call[j])'
    BY <1>6 DEF vars, Inv, Relies, ActiveAt, ActiveOf
  <2> QED
    BY <1>6, <2>1 DEF vars, Inv, TypeOK, LocksExclude, ResidentIsMember,
       OneHomePerPhone, EndedOnce, ActiveOf
<1> QED
  BY <1>1, <1>2, <1>3, <1>4, <1>5, <1>6 DEF Next

\* Locks exclude each other, and what each call relies on under its locks stays so.
THEOREM InvHolds == Spec => []Inv
  BY InitInv, StepInv, PTL DEF Spec

(*************************************************************************)
(* The properties                                                        *)
(*************************************************************************)

\* Rows, locks and calls keep their types.
THEOREM TypeCorrect == Spec => []TypeOK
<1>1. Inv => TypeOK
  BY DEF Inv
<1> QED
  BY <1>1, InvHolds, PTL

\* A resident of a unit is a member of its site, whatever onboardings and
\* deactivations run at once (onboardResident, deactivateSiteMembership).
THEOREM ResidentsAreMembers == Spec => []ResidentIsMember
<1>1. Inv => ResidentIsMember
  BY DEF Inv
<1> QED
  BY <1>1, InvHolds, PTL

\* Onboardings under one number give a user one home (acquirePhoneLock).
THEOREM OneHome == Spec => []OneHomePerPhone
<1>1. Inv => OneHomePerPhone
  BY DEF Inv
<1> QED
  BY <1>1, InvHolds, PTL

\* A residence is ended once, whoever ends it (deactivateAssignment and
\* deactivateAllForUserInSite).
THEOREM EndsOnce == Spec => []EndedOnce
<1>1. Inv => EndedOnce
  BY DEF Inv
<1> QED
  BY <1>1, InvHolds, PTL
(*************************************************************************)
(* The refinement of HousingRegister                                     *)
(*************************************************************************)

\* What c knows besides: a membership it inserts is nobody's yet and comes with a
\* residence; the rows it is about to end are one, or those of one member.
Knows(c) ==
    /\ c.lock = "new" => <<c.user, c.site>> \notin member
    /\ c.stage = "checked" /\ c.lock = "new" => c.insert
    /\ c.stage = "end" => \E r \in Rows : c.rows = {r}
    /\ c.stage = "leaving" => \A r \in c.rows :
          /\ residence[r].status # "absent"
          /\ residence[r].user = c.user /\ SiteOf[residence[r].unit] = c.site

\* Only users that exist are members or change their number.
Numbered ==
    /\ \A u \in Users, s \in Sites : <<u, s>> \in member => phone[u] # NoPhone
    /\ edit.on => phone[edit.user] # NoPhone

CallsKnow == \A k \in Calls : Knows(call[k])

LEMMA RestingKnows == Knows(Resting)
  BY RestingType DEF Knows

LEMMA InitKnows == Init => CallsKnow /\ Numbered
<1> SUFFICES ASSUME Init PROVE CallsKnow /\ Numbered
  OBVIOUS
<1>1. CallsKnow
  BY RestingKnows DEF Init, CallsKnow
<1>2. Numbered
  BY DEF Init, Numbered, NoEdit
<1> QED
  BY <1>1, <1>2

\* Who has a number keeps one, and a row keeps its user and its unit.
RowsStay ==
    /\ \A u \in Users : phone[u] # NoPhone => phone'[u] # NoPhone
    /\ \A r \in Rows : residence[r].status # "absent" =>
          /\ residence'[r].status # "absent"
          /\ residence'[r].user = residence[r].user
          /\ residence'[r].unit = residence[r].unit

LEMMA EndedKeeps ==
    ASSUME NEW e \in Residence
    PROVE  Ended(e).status = "ended" /\ Ended(e).user = e.user /\ Ended(e).unit = e.unit
  BY DEF Ended, Residence

LEMMA StepRows == Inv /\ [Next]_vars => RowsStay
<1> SUFFICES ASSUME Inv, [Next]_vars PROVE RowsStay
  OBVIOUS
<1>1. TypeOK
  BY DEF Inv
<1>2. CASE UNCHANGED <<phone, residence>>
  BY <1>2 DEF RowsStay
<1>3. CASE CommitPhoneChange
  BY <1>1, <1>3, NoPhoneAssumption DEF RowsStay, CommitPhoneChange, TypeOK, Edit
<1>4. ASSUME NEW k \in Calls, CommitOnboarding(k) PROVE RowsStay
  <2>1. call[k] \in Call
    BY <1>1 DEF TypeOK
  <2>2. \A u \in Users : phone[u] # NoPhone => phone'[u] # NoPhone
    BY <1>1, <1>4, <2>1, NoPhoneAssumption DEF CommitOnboarding, MayCommitOnboarding,
        Conflicts, TypeOK, Call
  <2>3. \A r \in Rows : residence[r].status # "absent" => residence'[r] = residence[r]
    BY <1>1, <1>4 DEF CommitOnboarding, MayCommitOnboarding, Conflicts, TypeOK
  <2> QED
    BY <2>2, <2>3 DEF RowsStay
<1>5. ASSUME NEW k \in Calls, CommitLeave(k) PROVE RowsStay
  <2>1. \A r \in Rows : residence'[r] = Ended(residence[r]) \/ residence'[r] = residence[r]
    BY <1>5 DEF CommitLeave, MayCommitLeave
  <2>2. \A r \in Rows : residence[r] \in Residence
    BY <1>1 DEF TypeOK
  <2> QED
    BY <1>5, <2>1, <2>2, EndedKeeps DEF RowsStay, CommitLeave, MayCommitLeave
<1>6. ASSUME NEW k \in Calls, CommitEnd(k) PROVE RowsStay
  <2>1. \A r \in Rows : residence'[r] = Ended(residence[r]) \/ residence'[r] = residence[r]
    BY <1>6 DEF CommitEnd
  <2>2. \A r \in Rows : residence[r] \in Residence
    BY <1>1 DEF TypeOK
  <2> QED
    BY <1>6, <2>1, <2>2, EndedKeeps DEF RowsStay, CommitEnd
<1> QED
  BY <1>2, <1>3, <1>4, <1>5, <1>6
  DEF Next, vars, Proceed, Abort, FindUser, NoUserLeft, UpsertMembership,
      MayUpsertMembership, CheckResidence, LivesElsewhere, OnboardingConflicts, Conflicts,
      EndMemberships, MayEndMemberships, PickResidences, MayPickResidences, TakePhoneLock,
      AdmitPhoneChange, AbortPhoneChange, BeginLeave, LockResidence
\* When call k moves, the others still know what they knew: a membership that
\* appears is the one k has locked.
LEMMA OthersKnow ==
    ASSUME Inv, CallsKnow, RowsStay, NEW k \in Calls,
           \A j \in Calls \ {k} : call'[j] = call[j],
           \A m \in member' \ member :
               call[k].lock = "new" /\ m = <<call[k].user, call[k].site>>
    PROVE  \A j \in Calls \ {k} : Knows(call[j])'
<1> SUFFICES ASSUME NEW j \in Calls \ {k} PROVE Knows(call[j])'
  OBVIOUS
<1>1. /\ Knows(call[j]) /\ call'[j] = call[j] /\ call[j] \in Call
      /\ ~Clash(call[j], call[k])
  BY DEF CallsKnow, Inv, TypeOK, LocksExclude
<1>2. call[j].lock = "new" => <<call[j].user, call[j].site>> \notin member'
  BY <1>1 DEF Knows, Clash
<1>3. call[j].stage = "leaving" => \A r \in call[j].rows :
          /\ residence'[r].status # "absent"
          /\ residence'[r].user = call[j].user /\ SiteOf[residence'[r].unit] = call[j].site
  BY <1>1 DEF Knows, RowsStay, Call
<1> QED
  BY <1>1, <1>2, <1>3 DEF Knows

\* What a call that moves knows in its new stage.
LEMMA MoverKnows ==
    ASSUME Inv, CallsKnow, NEW k \in Calls, Proceed(k) \/ Abort(k)
    PROVE  /\ Knows(call[k])'
           /\ \A j \in Calls \ {k} : call'[j] = call[j]
<1>1. \A j \in Calls : call[j] \in Call
  BY DEF Inv, TypeOK
<1>2. Relies(call[k]) /\ Knows(call[k])
  BY DEF Inv, CallsKnow
<1>3. CASE Finish(k)
  <2>1. call'[k] = Resting /\ \A j \in Calls \ {k} : call'[j] = call[j]
    BY <1>3 DEF Finish, Inv, TypeOK
  <2>2. Resting.lock = "none" /\ Resting.stage = "idle"
    BY RestingType
  <2> QED
    BY <2>1, <2>2 DEF Knows
<1>4. CASE FindUser(k)
  <2>1. /\ call'[k].stage = "user" /\ call'[k].lock = call[k].lock
        /\ \A j \in Calls \ {k} : call'[j] = call[j]
    BY <1>1, <1>4 DEF FindUser, Inv, TypeOK, Call
  <2> QED
    BY <1>2, <1>4, <2>1 DEF FindUser, Relies, Knows
<1>5. CASE UpsertMembership(k)
  <2>1. /\ call'[k].stage = "membership" /\ call'[k].user = call[k].user
        /\ call'[k].site = call[k].site
        /\ call'[k].lock = IF <<call[k].user, call[k].site>> \in member THEN "row" ELSE "new"
        /\ \A j \in Calls \ {k} : call'[j] = call[j]
        /\ UNCHANGED member
    BY <1>1, <1>5 DEF UpsertMembership, MayUpsertMembership, Inv, TypeOK, Call
  <2> QED
    BY <2>1 DEF Knows
<1>6. CASE CheckResidence(k)
  <2>1. /\ call'[k].stage = "checked" /\ call'[k].user = call[k].user
        /\ call'[k].site = call[k].site /\ call'[k].lock = call[k].lock
        /\ \A j \in Calls \ {k} : call'[j] = call[j]
        /\ UNCHANGED member
    BY <1>1, <1>6 DEF CheckResidence, Inv, TypeOK, Call
  <2>2. ActiveOf(call[k].user) = {} => call'[k].insert
    BY <1>1, <1>6 DEF CheckResidence, Inv, TypeOK, Call
  <2>3. ASSUME NEW r \in ActiveOf(call[k].user), residence[r].unit = call[k].unit
        PROVE  <<call[k].user, call[k].site>> \in member
    BY <1>2, <1>6, <2>3 DEF Inv, ResidentIsMember, ActiveOf, CheckResidence, Relies,
        OnboardingStages
  <2>4. call[k].lock = "new" => call'[k].insert
    BY <1>2, <1>6, <2>2, <2>3 DEF CheckResidence, Knows
  <2> QED
    BY <1>2, <2>1, <2>4 DEF Knows
<1>7. CASE EndMemberships(k)
  <2>1. /\ call'[k].stage = "membersEnded" /\ call'[k].lock \in {"row", "none"}
        /\ \A j \in Calls \ {k} : call'[j] = call[j]
    BY <1>1, <1>2, <1>7 DEF EndMemberships, MayEndMemberships, Inv, TypeOK, Call, Relies
  <2> QED
    BY <2>1 DEF Knows
<1>8. CASE PickResidences(k)
  <2>1. /\ call'[k].stage = "leaving" /\ call'[k].user = call[k].user
        /\ call'[k].site = call[k].site /\ call'[k].lock = call[k].lock
        /\ call'[k].rows = ActiveAt(call[k].user, call[k].site)
        /\ \A j \in Calls \ {k} : call'[j] = call[j]
        /\ UNCHANGED <<member, residence>>
    BY <1>1, <1>8 DEF PickResidences, MayPickResidences, Inv, TypeOK, Call
  <2> QED
    BY <1>2, <2>1 DEF Knows, ActiveAt, ActiveOf
<1> QED
  BY <1>3, <1>4, <1>5, <1>6, <1>7, <1>8
  DEF Proceed, Abort, NoUserLeft, LivesElsewhere, CommitOnboarding, MayCommitOnboarding,
      Conflicts, OnboardingConflicts, CommitLeave, MayCommitLeave, CommitEnd

LEMMA StepKnows == Inv /\ CallsKnow /\ [Next]_vars => CallsKnow'
<1> SUFFICES ASSUME Inv, CallsKnow, [Next]_vars PROVE CallsKnow'
  OBVIOUS
<1>1. RowsStay
  BY StepRows
<1>2. \A j \in Calls : call[j] \in Call /\ Relies(call[j]) /\ Knows(call[j])
  BY DEF Inv, TypeOK, CallsKnow
<1>3. ASSUME NEW k \in Calls, Proceed(k) \/ Abort(k) PROVE CallsKnow'
  <2>1. \A m \in member' \ member :
            call[k].lock = "new" /\ m = <<call[k].user, call[k].site>>
    BY <1>3 DEF Proceed, Abort, FindUser, NoUserLeft, UpsertMembership, MayUpsertMembership,
        CheckResidence, LivesElsewhere, CommitOnboarding, MayCommitOnboarding, Conflicts,
        OnboardingConflicts, EndMemberships, MayEndMemberships, PickResidences,
        MayPickResidences, CommitLeave, MayCommitLeave, CommitEnd
  <2> QED
    BY <1>1, <1>3, <2>1, OthersKnow, MoverKnows DEF CallsKnow
<1>4. ASSUME NEW k \in Calls, NEW p \in Phones, NEW n \in Units, TakePhoneLock(k, p, n)
      PROVE  CallsKnow'
  <2>1. /\ call'[k].stage = "phone" /\ call'[k].lock = call[k].lock
        /\ \A j \in Calls \ {k} : call'[j] = call[j]
    BY <1>2, <1>4 DEF TakePhoneLock, Begins, Inv, TypeOK, Call
  <2>2. call[k].lock = "none" /\ UNCHANGED member
    BY <1>2, <1>4 DEF TakePhoneLock, Relies
  <2>3. Knows(call[k])'
    BY <2>1, <2>2 DEF Knows
  <2> QED
    BY <1>1, <2>1, <2>2, <2>3, OthersKnow DEF CallsKnow
<1>5. ASSUME NEW k \in Calls, NEW u \in Users, NEW s \in Sites, BeginLeave(k, u, s)
      PROVE  CallsKnow'
  <2>1. /\ call'[k].stage = "leave" /\ call'[k].lock = call[k].lock
        /\ \A j \in Calls \ {k} : call'[j] = call[j]
    BY <1>2, <1>5 DEF BeginLeave, Inv, TypeOK, Call
  <2>2. call[k].lock = "none" /\ UNCHANGED member
    BY <1>2, <1>5 DEF BeginLeave, Relies
  <2>3. Knows(call[k])'
    BY <2>1, <2>2 DEF Knows
  <2> QED
    BY <1>1, <2>1, <2>2, <2>3, OthersKnow DEF CallsKnow
<1>6. ASSUME NEW k \in Calls, NEW r \in Rows, LockResidence(k, r)
      PROVE  CallsKnow'
  <2>1. /\ call'[k].stage = "end" /\ call'[k].lock = call[k].lock /\ call'[k].rows = {r}
        /\ \A j \in Calls \ {k} : call'[j] = call[j]
    BY <1>2, <1>6 DEF LockResidence, Inv, TypeOK, Call
  <2>2. call[k].lock = "none" /\ UNCHANGED member
    BY <1>2, <1>6 DEF LockResidence, Relies
  <2>3. Knows(call[k])'
    BY <2>1, <2>2 DEF Knows
  <2> QED
    BY <1>1, <2>1, <2>2, <2>3, OthersKnow DEF CallsKnow
<1>7. CASE UNCHANGED <<member, residence, call>>
  BY <1>7 DEF CallsKnow, Knows
<1> QED
  BY <1>3, <1>4, <1>5, <1>6, <1>7
  DEF Next, vars, AdmitPhoneChange, CommitPhoneChange, AbortPhoneChange
LEMMA StepNumbered == Inv /\ Numbered /\ [Next]_vars => Numbered'
<1> SUFFICES ASSUME Inv, Numbered, [Next]_vars PROVE Numbered'
  OBVIOUS
<1>1. /\ TypeOK /\ RowsStay
      /\ \A u \in Users, s \in Sites : <<u, s>> \in member => phone'[u] # NoPhone
  BY StepRows DEF Inv, Numbered, RowsStay
<1>2. edit.on => edit.user \in Users /\ phone'[edit.user] # NoPhone
  BY <1>1 DEF Numbered, RowsStay, TypeOK, Edit
<1>3. CASE member' \subseteq member /\ edit' = edit
  BY <1>1, <1>2, <1>3 DEF Numbered
<1>4. ASSUME NEW k \in Calls, CommitOnboarding(k) PROVE Numbered'
  <2>1. call[k] \in Call
    BY <1>1 DEF TypeOK
  <2>2. phone'[call[k].user] # NoPhone
    BY <1>1, <1>4, <2>1, NoPhoneAssumption DEF CommitOnboarding, MayCommitOnboarding,
        Conflicts, TypeOK, Call
  <2>3. \A m \in member' : m \in member \/ m = <<call[k].user, call[k].site>>
    BY <1>4 DEF CommitOnboarding, MayCommitOnboarding, Conflicts
  <2>4. edit' = edit
    BY <1>4 DEF CommitOnboarding, MayCommitOnboarding, Conflicts
  <2> QED
    BY <1>1, <1>2, <2>1, <2>2, <2>3, <2>4 DEF Numbered
<1>5. ASSUME NEW u \in Users, NEW p \in Phones, AdmitPhoneChange(u, p) PROVE Numbered'
  BY <1>1, <1>5 DEF AdmitPhoneChange, Numbered
<1>6. CASE CommitPhoneChange \/ AbortPhoneChange
  BY <1>1, <1>6 DEF CommitPhoneChange, AbortPhoneChange, Numbered, NoEdit
<1> QED
  BY <1>3, <1>4, <1>5, <1>6
  DEF Next, vars, Proceed, Abort, FindUser, NoUserLeft, UpsertMembership,
      MayUpsertMembership, CheckResidence, LivesElsewhere, OnboardingConflicts, Conflicts,
      EndMemberships, MayEndMemberships, PickResidences, MayPickResidences, CommitLeave,
      MayCommitLeave, CommitEnd, TakePhoneLock, BeginLeave, LockResidence

\* Who lives where, row by row.
LEMMA InHomes ==
    /\ \A u, n : <<u, n>> \in Homes <=>
          \E r \in Rows : /\ residence[r].status = "active"
                          /\ residence[r].user = u /\ residence[r].unit = n
    /\ TypeOK => Homes \subseteq Users \X Units
<1>1. \A u, n : <<u, n>> \in Homes <=>
          \E r \in Rows : /\ residence[r].status = "active"
                          /\ residence[r].user = u /\ residence[r].unit = n
  BY DEF Homes
<1>2. TypeOK => Homes \subseteq Users \X Units
  BY DEF Homes, TypeOK, Residence
<1> QED
  BY <1>1, <1>2

\* The commit of an onboarding moves its user in, or changes nothing.
LEMMA OnboardingRegistered ==
    ASSUME Inv, CallsKnow, Numbered, NEW k \in Calls, CommitOnboarding(k)
    PROVE  [Register!Next]_<<phone, member, Homes>>
<1> DEFINE c == call[k]
<1>1. /\ TypeOK /\ c \in Call /\ c.stage = "checked" /\ c.lock \in {"row", "new"}
      /\ c.site = SiteOf[c.unit]
      /\ c.lock = "row" => <<c.user, c.site>> \in member
      /\ c.lock = "new" => c.insert
  BY DEF Inv, TypeOK, Call, Locks, Relies, CallsKnow, Knows, CommitOnboarding,
      MayCommitOnboarding, Conflicts, OnboardingStages
<1>2. CASE ~c.insert
  <2>1. residence' = residence /\ member' = member
    BY <1>1, <1>2 DEF CommitOnboarding, MayCommitOnboarding, Conflicts
  <2>2. phone[c.user] # NoPhone
    BY <1>1, <1>2 DEF Numbered, Call
  <2>3. phone' = phone
    BY <1>1, <2>2 DEF CommitOnboarding, MayCommitOnboarding, Conflicts, TypeOK
  <2> QED
    BY <2>1, <2>3 DEF Homes
<1>3. CASE c.insert
  <2>1. PICK r \in Rows :
          /\ residence[r].status = "absent"
          /\ residence' = [residence EXCEPT ![r] =
                [status |-> "active", user |-> c.user, unit |-> c.unit,
                 phone |-> c.phone, ends |-> 0]]
    BY <1>3 DEF CommitOnboarding, MayCommitOnboarding, Conflicts
  <2>2. /\ residence'[r].status = "active"
        /\ residence'[r].user = c.user /\ residence'[r].unit = c.unit
        /\ \A q \in Rows \ {r} : residence'[q] = residence[q]
    BY <1>1, <2>1 DEF TypeOK
  <2>3. Homes' = Homes \cup {<<c.user, c.unit>>}
    BY <2>1, <2>2 DEF Homes
  <2>4. <<c.user, c.unit>> \notin Homes
    BY <1>3, InHomes DEF CommitOnboarding, MayCommitOnboarding, Conflicts, AlreadyThere,
        ActiveOf
  <2>5. member' = member \cup {<<c.user, SiteOf[c.unit]>>}
    BY <1>1 DEF CommitOnboarding, MayCommitOnboarding, Conflicts
  <2>6. \/ phone[c.user] # NoPhone /\ UNCHANGED phone
        \/ /\ phone[c.user] = NoPhone /\ Register!Free(c.phone)
           /\ phone' = [phone EXCEPT ![c.user] = c.phone]
    <3>1. CASE phone[c.user] # NoPhone
      BY <1>1, <3>1 DEF CommitOnboarding, MayCommitOnboarding, Conflicts, TypeOK
    <3>2. CASE phone[c.user] = NoPhone
      <4>1. phone' = [phone EXCEPT ![c.user] = c.phone]
        BY <3>2 DEF CommitOnboarding, MayCommitOnboarding, Conflicts
      <4>2. Register!Free(c.phone)
        BY <1>1, <3>2, NoPhoneAssumption
        DEF CommitOnboarding, MayCommitOnboarding, Conflicts, PhoneTaken, TakenFrom,
            Register!Free, Call
      <4> QED
        BY <3>2, <4>1, <4>2
    <3> QED
      BY <3>1, <3>2
  <2>7. c.user \in Users /\ c.unit \in Units /\ c.phone \in Phones
    BY <1>1 DEF Call
  <2>8. Register!MoveIn(c.user, c.unit)
    BY <2>3, <2>4, <2>5, <2>6, <2>7 DEF Register!MoveIn
  <2> QED
    BY <2>7, <2>8 DEF Register!Next
<1> QED
  BY <1>2, <1>3

\* Homes of one user at one site end, and nothing begins.
LEMMA HomesEnd ==
    ASSUME NEW u \in Users, NEW s \in Sites, TypeOK,
           Homes' \subseteq Homes,
           \A h \in Homes \ Homes' : \E n \in Units : h = <<u, n>> /\ SiteOf[n] = s,
           UNCHANGED <<phone, member>>
    PROVE  [Register!Next]_<<phone, member, Homes>>
<1> DEFINE left == {n \in Units : SiteOf[n] = s /\ <<u, n>> \in Homes \ Homes'}
<1>1. left \in SUBSET {n \in Units : SiteOf[n] = s}
  OBVIOUS
<1>2. Homes' = Homes \ ({u} \X left)
  OBVIOUS
<1>3. Register!MoveOut(u, s)
  BY <1>1, <1>2 DEF Register!MoveOut
<1> QED
  BY <1>3 DEF Register!Next
\* When rows of one user at one site end, homes of theirs there end and no others.
LEMMA HomesLess ==
    ASSUME TypeOK, NEW u \in Users, NEW s \in Sites, NEW gone \in SUBSET Rows,
           \A r \in gone : residence[r].user = u /\ SiteOf[residence[r].unit] = s,
           \A r \in Rows \ gone : residence'[r] = residence[r],
           \A r \in gone : residence'[r].status # "active"
    PROVE  /\ Homes' \subseteq Homes
           /\ \A h \in Homes \ Homes' : \E n \in Units : h = <<u, n>> /\ SiteOf[n] = s
<1>1. Homes' \subseteq Homes
  BY DEF Homes
<1>2. ASSUME NEW h \in Homes \ Homes'
      PROVE  \E n \in Units : h = <<u, n>> /\ SiteOf[n] = s
  <2>1. PICK r \in Rows : residence[r].status = "active"
                          /\ h = <<residence[r].user, residence[r].unit>>
    BY <1>2 DEF Homes
  <2>2. r \in gone
    BY <1>2, <2>1 DEF Homes
  <2>3. residence[r].unit \in Units
    BY <2>1 DEF TypeOK, Residence
  <2> QED
    BY <2>1, <2>2, <2>3
<1> QED
  BY <1>1, <1>2

\* The commit of a departure ends the membership with all homes at its site, or,
\* when it found no membership, some homes that have come since.
LEMMA LeaveRegistered ==
    ASSUME Inv, CallsKnow, NEW k \in Calls, CommitLeave(k)
    PROVE  [Register!Next]_<<phone, member, Homes>>
<1> DEFINE c == call[k]
           gone == {r \in c.rows : residence[r].status = "active"}
<1>1. /\ TypeOK /\ c \in Call /\ c.stage = "leaving"
      /\ c.lock = "row" => <<c.user, c.site>> \in member
      /\ c.lock = "row" => ActiveAt(c.user, c.site) \subseteq c.rows
      /\ \A r \in c.rows : residence[r].user = c.user /\ SiteOf[residence[r].unit] = c.site
  BY DEF Inv, TypeOK, Relies, CallsKnow, Knows, CommitLeave, MayCommitLeave
<1>2. c.user \in Users /\ c.site \in Sites /\ gone \in SUBSET Rows
  BY <1>1 DEF Call
<1>3. \A r \in Rows : residence'[r] =
          IF r \in gone THEN Ended(residence[r]) ELSE residence[r]
  BY DEF CommitLeave, MayCommitLeave
<1>4. \A r \in gone : residence'[r].status = "ended"
  BY <1>1, <1>2, <1>3, EndedKeeps DEF TypeOK
<1>5. /\ Homes' \subseteq Homes
      /\ \A h \in Homes \ Homes' : \E n \in Units : h = <<c.user, n>> /\ SiteOf[n] = c.site
  <2> HIDE DEF gone
  <2>1. \A r \in gone : residence[r].user = c.user /\ SiteOf[residence[r].unit] = c.site
    BY <1>1 DEF gone
  <2> QED
    BY <1>1, <1>2, <1>3, <1>4, <2>1, HomesLess
<1>6. CASE c.lock # "row"
  <2>1. UNCHANGED <<phone, member>>
    BY <1>6 DEF CommitLeave, MayCommitLeave
  <2> QED
    BY <1>1, <1>2, <1>5, <2>1, HomesEnd
<1>7. CASE c.lock = "row"
  <2> DEFINE there == {n \in Units : SiteOf[n] = c.site}
  <2>1. ASSUME NEW n \in there PROVE <<c.user, n>> \notin Homes'
    <3> SUFFICES ASSUME NEW r \in Rows, residence'[r].status = "active",
                        residence'[r].user = c.user, residence'[r].unit = n
                 PROVE  FALSE
      BY DEF Homes
    <3>1. r \notin gone /\ residence'[r] = residence[r]
      BY <1>3, <1>4
    <3>2. r \in ActiveAt(c.user, c.site)
      BY <3>1 DEF ActiveAt, ActiveOf
    <3> QED
      BY <1>1, <1>7, <3>1, <3>2
  <2>2. Homes' = Homes \ ({c.user} \X there)
    BY <1>5, <2>1
  <2>3. /\ <<c.user, c.site>> \in member /\ UNCHANGED phone
        /\ member' = member \ {<<c.user, c.site>>}
    BY <1>1, <1>7 DEF CommitLeave, MayCommitLeave
  <2>4. Register!Leave(c.user, c.site)
    BY <2>2, <2>3 DEF Register!Leave
  <2> QED
    BY <1>2, <2>4 DEF Register!Next
<1> QED
  BY <1>6, <1>7

LEMMA EndRegistered ==
    ASSUME Inv, CallsKnow, NEW k \in Calls, CommitEnd(k)
    PROVE  [Register!Next]_<<phone, member, Homes>>
<1>1. TypeOK /\ call[k].stage = "end" /\ Knows(call[k])
  BY DEF Inv, CallsKnow, CommitEnd
<1>2. PICK r \in Rows : call[k].rows = {r}
  BY <1>1 DEF Knows
<1>3. residence[r] \in Residence
  BY <1>1 DEF TypeOK
<1>4. PICK u \in Users, s \in Sites :
          residence[r].user = u /\ SiteOf[residence[r].unit] = s
  BY <1>3, SiteOfAssumption DEF Residence
<1>5. PICK gone \in SUBSET Rows : gone = {r}
  OBVIOUS
<1>6. /\ \A q \in Rows \ gone : residence'[q] = residence[q]
      /\ \A q \in gone : residence'[q] = Ended(residence[q])
      /\ UNCHANGED <<phone, member>>
  BY <1>2, <1>5 DEF CommitEnd
<1>7. /\ \A q \in gone : residence'[q].status # "active"
      /\ \A q \in gone : residence[q].user = u /\ SiteOf[residence[q].unit] = s
  BY <1>3, <1>4, <1>5, <1>6, EndedKeeps
<1>8. /\ Homes' \subseteq Homes
      /\ \A h \in Homes \ Homes' : \E n \in Units : h = <<u, n>> /\ SiteOf[n] = s
  BY <1>1, <1>6, <1>7, HomesLess
<1> QED
  BY <1>1, <1>6, <1>8, HomesEnd

\* The unique index lets a number change only to one nobody has.
LEMMA NumberRegistered ==
    ASSUME Inv, Numbered, CommitPhoneChange
    PROVE  [Register!Next]_<<phone, member, Homes>>
<1>1. TypeOK /\ edit.user \in Users /\ edit.phone \in Phones /\ phone[edit.user] # NoPhone
  BY DEF Inv, TypeOK, Edit, Numbered, CommitPhoneChange
<1>2. UNCHANGED <<member, Homes>>
  BY DEF CommitPhoneChange, Homes
<1>3. CASE TakenFrom(edit.user, edit.phone) \/ phone[edit.user] = edit.phone
  <2>1. phone' = phone
    BY <1>1, <1>3 DEF CommitPhoneChange, TypeOK
  <2> QED
    BY <1>2, <2>1
<1>4. CASE ~TakenFrom(edit.user, edit.phone) /\ phone[edit.user] # edit.phone
  <2>1. Register!Free(edit.phone)
    BY <1>4 DEF TakenFrom, Register!Free
  <2>2. Register!ChangeNumber(edit.user, edit.phone)
    BY <1>1, <1>2, <1>4, <2>1 DEF CommitPhoneChange, Register!ChangeNumber
  <2> QED
    BY <1>1, <2>2 DEF Register!Next
<1> QED
  BY <1>3, <1>4

LEMMA StepRegistered ==
    Inv /\ CallsKnow /\ Numbered /\ [Next]_vars => [Register!Next]_<<phone, member, Homes>>
<1> SUFFICES ASSUME Inv, CallsKnow, Numbered, [Next]_vars
             PROVE  [Register!Next]_<<phone, member, Homes>>
  OBVIOUS
<1>1. CASE UNCHANGED <<phone, member, residence>>
  BY <1>1 DEF Homes
<1> QED
  BY <1>1, OnboardingRegistered, LeaveRegistered, EndRegistered, NumberRegistered
  DEF Next, vars, Proceed, Abort, FindUser, NoUserLeft, UpsertMembership,
      MayUpsertMembership, CheckResidence, LivesElsewhere, OnboardingConflicts, Conflicts,
      EndMemberships, MayEndMemberships, PickResidences, MayPickResidences, TakePhoneLock,
      AdmitPhoneChange, AbortPhoneChange, BeginLeave, LockResidence

LEMMA InitRegistered == Init => Register!Init
<1> SUFFICES ASSUME Init PROVE Register!Init
  OBVIOUS
<1>1. AbsentRow.status = "absent"
  BY DEF AbsentRow
<1>2. Homes = {}
  BY <1>1 DEF Init, Homes
<1> QED
  BY <1>2 DEF Init, Register!Init

\* Onboardings, departures, endings and changes of number interleave, and yet each
\* moves somebody in, ends homes with or without the membership, or gives a number,
\* in one moment (onboardResident, deactivateSiteMembership, deactivateAssignment).
THEOREM RegisterImplemented == Spec => ImplementsRegister
<1>1. Inv /\ CallsKnow /\ Numbered /\ [Next]_vars => [Register!Next]_(Register!vars)
  BY StepRegistered DEF Register!vars
<1>2. Init => Register!Init
  BY InitRegistered
<1> QED
  BY <1>1, <1>2, InvHolds, InitKnows, StepKnows, StepNumbered, PTL
  DEF Spec, ImplementsRegister, Register!Spec

(*************************************************************************)
(* Nobody waits in a circle                                              *)
(*************************************************************************)

\* A call that holds a membership is past the stages that wait for one.
LEMMA HolderIsPast ==
    ASSUME Inv, NEW j \in Calls, NEW k \in Calls, call[k].stage \in {"user", "leave"}
    PROVE  ~(WaitsFor(j, k) /\ call[j].stage \in {"user", "leave"})
  BY DEF WaitsFor, Inv, Relies

\* A call at "end" waits for nobody; one with a membership, for such a call only; any
\* other, for one of these.
LEMMA SomeoneGoesOn ==
    ASSUME Inv, NEW W \in SUBSET Calls, W # {}
    PROVE  \E j \in W : \A k \in W : ~WaitsFor(j, k)
<1>1. CASE \E j \in W : call[j].stage \notin {"user", "leave", "checked", "leaving"}
  BY <1>1 DEF WaitsFor
<1>2. CASE /\ \E j \in W : call[j].stage \in {"checked", "leaving"}
           /\ \A k \in W : call[k].stage # "end"
  BY <1>2 DEF WaitsFor
<1>3. CASE \A k \in W : call[k].stage \in {"user", "leave"}
  BY <1>3, HolderIsPast
<1> QED
  BY <1>1, <1>2, <1>3

\* What a call needs and cannot get is held by another.
LEMMA StoppedWaits == Inv => OnlyWaitsStop
<1> SUFFICES ASSUME Inv, NEW j \in Calls, call[j].stage # "idle",
                    \A k \in Calls : ~WaitsFor(j, k)
             PROVE  MayProceed(j)
  BY DEF OnlyWaitsStop
<1>1. call[j] \in Call /\ Relies(call[j])
  BY DEF Inv, TypeOK
<1>2. CASE call[j].stage \in {"user", "leave"}
  <2>1. ~MembershipLocked(call[j].user, call[j].site)
    BY <1>1, <1>2 DEF WaitsFor, MembershipLocked, Relies
  <2> QED
    BY <1>2, <2>1 DEF MayProceed, MayUpsertMembership, MayEndMemberships
<1>3. CASE call[j].stage = "checked"
  <2>1. call[j].insert => ~UnitLocked(call[j].unit)
    BY <1>3 DEF WaitsFor, UnitLocked
  <2> QED
    BY <1>3, <2>1 DEF MayProceed, MayCommitOnboarding
<1>4. CASE call[j].stage = "leaving"
  BY <1>4 DEF WaitsFor, ResidenceLocked, MayProceed, MayCommitLeave
<1>5. CASE call[j].stage \in {"phone", "membership", "end", "membersEnded"}
  BY <1>5 DEF MayProceed, MayPickResidences
<1>6. call[j].stage \in Stages
  BY <1>1 DEF Call
<1> QED
  BY <1>2, <1>3, <1>4, <1>5, <1>6 DEF Stages

\* However many onboardings, departures and ends of residences run at once, no circle
\* of waits forms, and what stops a call is a wait for another (acquirePhoneLock,
\* upsertActive, deactivateForSite, deactivateAllForUserInSite, findScopedForUpdate).
THEOREM NeverDeadlocked == Spec => []NoDeadlock
<1>1. Inv => NoDeadlock
  BY SomeoneGoesOn, StoppedWaits DEF NoDeadlock, NoCircleOfWaits
<1> QED
  BY <1>1, InvHolds, PTL DEF Spec
=============================================================================
