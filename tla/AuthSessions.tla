---------------------------- MODULE AuthSessions ----------------------------
(****************************************************************************)
(* One-time codes and refresh sessions: OtpService.requestOtp,              *)
(* AuthService.verifyOtp, TokenService.rotate and revoke, and the global    *)
(* deactivation of UsersService, which revokes a user's sessions.           *)
(*                                                                          *)
(* Calls interleave at the points where PostgreSQL lets them (READ          *)
(* COMMITTED): a SELECT ... FOR UPDATE waits for the row and sees its       *)
(* newest version; an updateMany picks its rows in one step ("seen") and    *)
(* then locks them one by one ("held"), in whatever order the plan reaches  *)
(* them, also those that no longer match; it keeps every lock until the     *)
(* commit.  What a call writes to rows it holds is written in its commit    *)
(* step, as no other call reads it before.                                  *)
(*                                                                          *)
(* A user has one phone number here; changing it is in Residents.           *)
(****************************************************************************)
EXTENDS Naturals, FiniteSets

CONSTANTS
    Users,          \* users, each with a phone number
    Calls,          \* requests the API serves at the same time
    MaxChallenges,  \* bound: one-time codes ever asked for
    MaxSessions,    \* bound: refresh sessions ever created
    MaxAttempts     \* OTP_MAX_ATTEMPTS

ASSUME CallsAssumption == IsFiniteSet(Calls)
ASSUME MaxChallengesAssumption == MaxChallenges \in Nat
ASSUME MaxSessionsAssumption == MaxSessions \in Nat
ASSUME MaxAttemptsAssumption == MaxAttempts \in Nat \ {0}

VARIABLES
    active,      \* active[u]: users.is_active
    entitled,    \* entitled[u]: staff role, or an active site membership
    challenge,   \* challenge[c]: row c of otp_challenges
    session,     \* session[s]: row s of refresh_sessions
    call         \* call[k]: what request k is doing

vars == <<active, entitled, challenge, session, call>>

Challenges == 1 .. MaxChallenges
Sessions == 1 .. MaxSessions

\* "pending": the inserting transaction has begun; "dropped": it rolled back.
Challenge ==
    [status   : {"absent", "pending", "dropped", "open", "consumed", "invalidated"},
     user     : Users,
     attempts : 0 .. MaxAttempts,     \* attempt_count
     expired  : BOOLEAN,              \* expires_at has passed
     guesses  : Nat,                  \* comparisons answered (history)
     beside   : SUBSET Challenges]    \* pending when it began (history)

\* "expired": not revoked, but expires_at has passed.
Session ==
    [status : {"absent", "live", "expired", "revoked"},
     origin : 0 .. MaxChallenges,     \* challenge of its login (history)
     known  : BOOLEAN]                \* the client was given its token

Stages == {"idle", "request", "invalidate", "verify", "check", "active", "admit",
           "rotate", "reuse", "sign", "deactivate"}

Call ==
    [stage : Stages,
     user  : Users,
     row   : 0 .. MaxChallenges + MaxSessions,  \* the challenge or session it is about
     seen  : SUBSET (Challenges \cup Sessions), \* rows of the last snapshot
     held  : SUBSET (Challenges \cup Sessions)] \* rows it has locked

Idle(u) == [stage |-> "idle", user |-> u, row |-> 0, seen |-> {}, held |-> {}]

\* Stages whose rows are codes, and sessions.
OnCodes == {"invalidate", "verify", "check", "active", "admit"}
OnSessions == {"rotate", "reuse", "deactivate"}

ChallengesOf(u) == {c \in Challenges : challenge[c].user = u}
OpenChallenges(u) == {c \in ChallengesOf(u) : challenge[c].status = "open"}
Unrevoked(s) == session[s].status \in {"live", "expired"}
UserOf(s) == challenge[session[s].origin].user
UnrevokedSessions(u) == {s \in Sessions : Unrevoked(s) /\ UserOf(s) = u}

HoldsChallenge(k, c) == c \in call[k].held /\ call[k].stage \in OnCodes
HoldsSession(k, s) == s \in call[k].held /\ call[k].stage \in OnSessions
\* Only the UPDATE of a deactivation keeps the user row across a step.
HoldsUser(k, u) ==
    call[k].user = u /\ call[k].stage = "deactivate"

ChallengeLocked(c) == \E k \in Calls : HoldsChallenge(k, c)
SessionLocked(s) == \E k \in Calls : HoldsSession(k, s)
UserLocked(u) == \E k \in Calls : HoldsUser(k, u)

\* The rows of its snapshot that call k still has to lock.
ToLock(k) == call[k].seen \ call[k].held
Lock(k, r) == call' = [call EXCEPT ![k].held = @ \cup {r}]

TypeOK ==
    /\ active \in [Users -> BOOLEAN]
    /\ entitled \in [Users -> BOOLEAN]
    /\ challenge \in [Challenges -> Challenge]
    /\ session \in [Sessions -> Session]
    /\ call \in [Calls -> Call]

Init ==
    /\ active = [u \in Users |-> TRUE]
    /\ entitled \in [Users -> BOOLEAN]
    /\ \E u \in Users :
          /\ challenge = [c \in Challenges |->
                [status |-> "absent", user |-> u, attempts |-> 0,
                 expired |-> FALSE, guesses |-> 0, beside |-> {}]]
          /\ call = [k \in Calls |-> Idle(u)]
    /\ session = [s \in Sessions |->
          [status |-> "absent", origin |-> 0, known |-> FALSE]]

Finish(k) == call' = [call EXCEPT ![k] = Idle(call[k].user)]

-----------------------------------------------------------------------------
(* requestOtp: the eligibility is read before the transaction begins.  The  *)
(* rate limits of requests and attempts only delay them.                    *)

AdmitRequest(k, u) ==
    /\ call[k].stage = "idle" /\ active[u] /\ entitled[u]
    /\ call' = [call EXCEPT ![k] = [Idle(u) EXCEPT !.stage = "request"]]
    /\ UNCHANGED <<active, entitled, challenge, session>>

\* created_at defaults to the time the transaction began: a number is taken now.
InvalidateOpen(k) ==
    /\ call[k].stage = "request"
    /\ \E c \in Challenges :
          /\ challenge[c].status = "absent"
          /\ \A d \in Challenges : d < c => challenge[d].status # "absent"
          /\ challenge' = [challenge EXCEPT
                ![c].status = "pending", ![c].user = call[k].user,
                ![c].beside = {d \in ChallengesOf(call[k].user) :
                                  challenge[d].status = "pending"}]
          /\ call' = [call EXCEPT ![k].stage = "invalidate", ![k].row = c,
                                  ![k].seen = OpenChallenges(call[k].user)]
    /\ UNCHANGED <<active, entitled, session>>

\* Faulty variant of CommitRequest: the open codes are left alone.
CommitRequestInsertOnly(k) ==
    /\ call[k].stage = "invalidate"
    /\ challenge' = [challenge EXCEPT ![call[k].row].status = "open"]
    /\ Finish(k)
    /\ UNCHANGED <<active, entitled, session>>

\* invalidateOpen's UPDATE reaches one of the codes that were open.
MayLockOpen(k, c) ==
    call[k].stage = "invalidate" /\ c \in ToLock(k) /\ ~ChallengeLocked(c)

LockOpen(k) ==
    /\ \E c \in Challenges : MayLockOpen(k, c) /\ Lock(k, c)
    /\ UNCHANGED <<active, entitled, challenge, session>>

MayCommitRequest(k) == call[k].stage = "invalidate" /\ ToLock(k) = {}

CommitRequest(k) ==
    /\ MayCommitRequest(k)
    /\ challenge' = [c \in Challenges |->
          CASE c = call[k].row -> [challenge[c] EXCEPT !.status = "open"]
            [] c \in call[k].seen /\ challenge[c].status = "open"
                 -> [challenge[c] EXCEPT !.status = "invalidated"]
            [] OTHER -> challenge[c]]
    /\ Finish(k)
    /\ UNCHANGED <<active, entitled, session>>

-----------------------------------------------------------------------------
(* verifyOtp: one transaction from findActiveForUpdate to the session.      *)

BeginVerify(k, u) ==
    /\ call[k].stage = "idle"
    /\ LET found == {c \in OpenChallenges(u) : ~challenge[c].expired}
       IN /\ found # {}
          /\ call' = [call EXCEPT ![k] =
                [Idle(u) EXCEPT !.stage = "verify", !.seen = found]]
    /\ UNCHANGED <<active, entitled, challenge, session>>

\* ORDER BY created_at DESC LIMIT 1 FOR UPDATE: the newest code is locked first.
NextCode(k, c) ==
    /\ call[k].stage = "verify" /\ c \in ToLock(k)
    /\ \A d \in ToLock(k) : d <= c

MayLockNext(k, c) == NextCode(k, c) /\ ~ChallengeLocked(c)

LockChallenge(k) ==
    /\ \E c \in Challenges :
          /\ MayLockNext(k, c) /\ challenge[c].status = "open"
          /\ call' = [call EXCEPT ![k].stage = "check", ![k].row = c,
                                  ![k].seen = {}, ![k].held = @ \cup {c}]
    /\ UNCHANGED <<active, entitled, challenge, session>>

\* A code that stopped matching while the call waited for it stays locked, too.
PassOver(k) ==
    /\ \E c \in Challenges :
          MayLockNext(k, c) /\ challenge[c].status # "open" /\ Lock(k, c)
    /\ UNCHANGED <<active, entitled, challenge, session>>

NoChallengeLeft(k) ==
    /\ call[k].stage = "verify" /\ ToLock(k) = {}
    /\ Finish(k)
    /\ UNCHANGED <<active, entitled, challenge, session>>

\* Faulty variant of Invalidated: the limit is compared before counting.
InvalidatedLate(c) ==
    IF c.attempts > MaxAttempts THEN "invalidated" ELSE c.status

Invalidated(c) ==
    IF c.attempts + 1 >= MaxAttempts THEN "invalidated" ELSE c.status

\* incrementAttemptAndMaybeInvalidate.  The check of attemptCount made before the
\* comparison never finds a used-up code: AttemptsBounded says no such code is open.
CountWrongCode(k) ==
    /\ call[k].stage = "check"
    /\ challenge' = [challenge EXCEPT
          ![call[k].row].attempts = @ + 1, ![call[k].row].guesses = @ + 1,
          ![call[k].row].status = Invalidated(challenge[call[k].row])]
    /\ Finish(k)
    /\ UNCHANGED <<active, entitled, session>>

\* The code is right: consume(); the user is read next.
FindActiveUser(k) ==
    /\ call[k].stage = "check"
    /\ active[call[k].user]
    /\ call' = [call EXCEPT ![k].stage = "active"]
    /\ UNCHANGED <<active, entitled, challenge, session>>

CheckMembership(k) ==
    /\ call[k].stage = "active" /\ entitled[call[k].user]
    /\ call' = [call EXCEPT ![k].stage = "admit"]
    /\ UNCHANGED <<active, entitled, challenge, session>>

Consumed(c) == [c EXCEPT !.status = "consumed", !.guesses = @ + 1]

\* NOT_ELIGIBLE is returned, not thrown: the code stays consumed.
RefuseLogin(k) ==
    /\ \/ call[k].stage = "check" /\ ~active[call[k].user]
       \/ call[k].stage = "active" /\ ~entitled[call[k].user]
    /\ challenge' = [challenge EXCEPT ![call[k].row] = Consumed(@)]
    /\ Finish(k)
    /\ UNCHANGED <<active, entitled, session>>

NewSession(s, c, p) ==
    /\ session[s].status = "absent"
    /\ \A r \in Sessions : r < s => session[r].status # "absent"
    /\ session' = [r \in Sessions |->
          CASE r = s -> [status |-> "live", origin |-> c, known |-> FALSE]
            [] r = p -> [session[p] EXCEPT !.status = "revoked"]
            [] OTHER -> session[r]]

\* The transaction has committed and let go of its rows; the answer is next.
Sign(k, s) ==
    call' = [call EXCEPT ![k] = [Idle(call[k].user) EXCEPT !.stage = "sign", !.row = s]]

\* touchLastLogin waits for a deactivation that holds the user row.
MayCommitLogin(k) == call[k].stage = "admit" /\ ~UserLocked(call[k].user)

CommitLogin(k) ==
    /\ MayCommitLogin(k)
    /\ challenge' = [challenge EXCEPT ![call[k].row] = Consumed(@)]
    /\ \E s \in Sessions :
          /\ NewSession(s, call[k].row, 0)
          /\ Sign(k, s)
    /\ UNCHANGED <<active, entitled>>

-----------------------------------------------------------------------------
(* signAccessTokenWithCompensation, after a login or a rotation.            *)

Answer(k) ==
    /\ call[k].stage = "sign"
    /\ session' = [session EXCEPT ![call[k].row].known = TRUE]
    /\ Finish(k)
    /\ UNCHANGED <<active, entitled, challenge>>

\* The process stops, the answer is lost, or signing and revoking both fail.
LoseAnswer(k) ==
    /\ call[k].stage = "sign"
    /\ Finish(k)
    /\ UNCHANGED <<active, entitled, challenge, session>>

\* Nobody else knows the session, but an UPDATE of all the user's may have reached it.
Compensate(k) ==
    /\ call[k].stage = "sign" /\ ~SessionLocked(call[k].row)
    /\ session' = [session EXCEPT ![call[k].row].status = "revoked"]
    /\ Finish(k)
    /\ UNCHANGED <<active, entitled, challenge>>

-----------------------------------------------------------------------------
(* rotate and revoke                                                        *)

Presentable(k, s) == call[k].stage = "idle" /\ session[s].known

Hold(k, s, stage, seen) ==
    call' = [call EXCEPT ![k] = [Idle(UserOf(s)) EXCEPT
                !.stage = stage, !.row = s, !.seen = seen, !.held = {s}]]

\* Faulty variants of LockSession: SELECT without FOR UPDATE; the user is not read.
LockSessionPlainRead(k, s) ==
    /\ Presentable(k, s)
    /\ session[s].status = "live" /\ active[UserOf(s)]
    /\ Hold(k, s, "rotate", {})
    /\ UNCHANGED <<active, entitled, challenge, session>>
LockSessionAnyUser(k, s) ==
    /\ Presentable(k, s) /\ ~SessionLocked(s)
    /\ session[s].status = "live"
    /\ Hold(k, s, "rotate", {})
    /\ UNCHANGED <<active, entitled, challenge, session>>

LockSession(k, s) ==
    /\ Presentable(k, s) /\ ~SessionLocked(s)
    /\ session[s].status = "live" /\ active[UserOf(s)]
    /\ Hold(k, s, "rotate", {})
    /\ UNCHANGED <<active, entitled, challenge, session>>

\* Faulty variant of MayCommitRotation: it updates the user row, as a login does.
MayCommitRotationAndUser(k) == call[k].stage = "rotate" /\ ~UserLocked(call[k].user)

MayCommitRotation(k) == call[k].stage = "rotate"

CommitRotation(k) ==
    /\ MayCommitRotation(k)
    /\ \E s \in Sessions :
          /\ NewSession(s, session[call[k].row].origin, call[k].row)
          /\ Sign(k, s)
    /\ UNCHANGED <<active, entitled, challenge>>

RefuseRotation(k, s) ==
    /\ Presentable(k, s) /\ ~SessionLocked(s)
    /\ session[s].status = "live" /\ ~active[UserOf(s)]
    /\ session' = [session EXCEPT ![s].status = "revoked"]
    /\ UNCHANGED <<active, entitled, challenge, call>>

DetectReuse(k, s) ==
    /\ Presentable(k, s) /\ ~SessionLocked(s)
    /\ session[s].status = "revoked"
    /\ Hold(k, s, "reuse", UnrevokedSessions(UserOf(s)))
    /\ UNCHANGED <<active, entitled, challenge, session>>

\* The UPDATE of revokeAllForUser reaches one of the sessions it saw unrevoked.
MayLockSeen(k, s) ==
    call[k].stage \in {"reuse", "deactivate"} /\ s \in ToLock(k) /\ ~SessionLocked(s)

LockSeen(k) ==
    /\ \E s \in Sessions : MayLockSeen(k, s) /\ Lock(k, s)
    /\ UNCHANGED <<active, entitled, challenge, session>>

\* It has reached them all; the commit.
MayRevokeSeen(k, stage) == call[k].stage = stage /\ ToLock(k) = {}

RevokeSeen(k, stage) ==
    /\ MayRevokeSeen(k, stage)
    /\ session' = [s \in Sessions |->
          IF s \in call[k].seen /\ Unrevoked(s)
          THEN [session[s] EXCEPT !.status = "revoked"] ELSE session[s]]

CommitReuse(k) ==
    /\ RevokeSeen(k, "reuse")
    /\ Finish(k)
    /\ UNCHANGED <<active, entitled, challenge>>

Logout(k, s) ==
    /\ Presentable(k, s) /\ ~SessionLocked(s) /\ Unrevoked(s)
    /\ session' = [session EXCEPT ![s].status = "revoked"]
    /\ UNCHANGED <<active, entitled, challenge, call>>

-----------------------------------------------------------------------------
(* deactivateGlobally: the user row first, then the sessions.  It may be    *)
(* asked for again of a user who is inactive already.                       *)

\* Faulty variant of DeactivateUser: the sessions first, the user row after them.
DeactivateUserLast(k, u) ==
    /\ call[k].stage = "idle"
    /\ call' = [call EXCEPT ![k] = [Idle(u) EXCEPT
          !.stage = "deactivate", !.seen = UnrevokedSessions(u)]]
    /\ UNCHANGED <<active, entitled, challenge, session>>

DeactivateUser(k, u) ==
    /\ call[k].stage = "idle" /\ ~UserLocked(u)
    /\ call' = [call EXCEPT ![k] = [Idle(u) EXCEPT
          !.stage = "deactivate", !.seen = UnrevokedSessions(u)]]
    /\ UNCHANGED <<active, entitled, challenge, session>>

CommitDeactivation(k) ==
    /\ RevokeSeen(k, "deactivate")
    /\ active' = [active EXCEPT ![call[k].user] = FALSE]
    /\ Finish(k)
    /\ UNCHANGED <<entitled, challenge>>

-----------------------------------------------------------------------------
(* Failures, time and memberships.                                          *)

\* A transaction is rolled back: an error, its timeout, a crash, or PostgreSQL ends
\* it as one of a deadlock.
Abort(k) ==
    /\ call[k].stage \notin {"idle", "sign"}
    /\ challenge' = IF call[k].stage = "invalidate"
                    THEN [challenge EXCEPT ![call[k].row].status = "dropped"]
                    ELSE challenge
    /\ Finish(k)
    /\ UNCHANGED <<active, entitled, session>>

ExpireChallenge(c) ==
    /\ challenge[c].status = "open" /\ ~challenge[c].expired
    /\ challenge' = [challenge EXCEPT ![c].expired = TRUE]
    /\ UNCHANGED <<active, entitled, session, call>>

ExpireSession(s) ==
    /\ session[s].status = "live"
    /\ session' = [session EXCEPT ![s].status = "expired"]
    /\ UNCHANGED <<active, entitled, challenge, call>>

MembershipChanges(u) ==
    /\ entitled' = [entitled EXCEPT ![u] = ~@]
    /\ UNCHANGED <<active, challenge, session, call>>

-----------------------------------------------------------------------------
\* What a call does by itself, unless it fails.
Proceed(k) ==
    \/ InvalidateOpen(k)
    \/ LockOpen(k)
    \/ CommitRequest(k)
    \/ LockChallenge(k)
    \/ PassOver(k)
    \/ NoChallengeLeft(k)
    \/ CountWrongCode(k)
    \/ FindActiveUser(k)
    \/ CheckMembership(k)
    \/ RefuseLogin(k)
    \/ CommitLogin(k)
    \/ Answer(k)
    \/ LoseAnswer(k)
    \/ Compensate(k)
    \/ CommitRotation(k)
    \/ LockSeen(k)
    \/ CommitReuse(k)
    \/ CommitDeactivation(k)

Next ==
    \/ \E k \in Calls : Proceed(k) \/ Abort(k)
    \/ \E k \in Calls, u \in Users :
          AdmitRequest(k, u) \/ BeginVerify(k, u) \/ DeactivateUser(k, u)
    \/ \E k \in Calls, s \in Sessions :
          LockSession(k, s) \/ RefuseRotation(k, s) \/ DetectReuse(k, s) \/ Logout(k, s)
    \/ \E c \in Challenges : ExpireChallenge(c)
    \/ \E s \in Sessions : ExpireSession(s)
    \/ \E u \in Users : MembershipChanges(u)

Spec == Init /\ [][Next]_vars

-----------------------------------------------------------------------------
(* Properties *)

\* A code is compared at most MaxAttempts times, whatever calls try it at once,
\* and one that was compared so often is no longer open (findActiveForUpdate,
\* incrementAttemptAndMaybeInvalidate).
AttemptsBounded ==
    \A c \in Challenges :
        /\ challenge[c].guesses <= MaxAttempts
        /\ challenge[c].status = "open" => challenge[c].guesses < MaxAttempts

\* A new code makes the older ones unusable, except one whose request had begun
\* and not committed when the newer one looked for open codes (invalidateOpen).
SupersededUnlessOverlapping ==
    \A c, d \in Challenges :
        /\ c < d /\ challenge[c].user = challenge[d].user
        /\ challenge[c].status = "open"
        /\ challenge[d].status \in {"open", "consumed", "invalidated"}
        => c \in challenge[d].beside

\* Stopped only by the bounds of the model.
OutOfNumbers(k) ==
    \/ call[k].stage = "request" /\ \A c \in Challenges : challenge[c].status # "absent"
    \/ call[k].stage \in {"admit", "rotate"}
          /\ \A s \in Sessions : session[s].status # "absent"

\* The guards of Proceed(k).
MayProceed(k) ==
    \/ call[k].stage \in {"check", "active", "sign"}
    \/ call[k].stage = "request" /\ ~OutOfNumbers(k)
    \/ MayCommitRequest(k)
    \/ \E c \in Challenges : MayLockOpen(k, c) \/ MayLockNext(k, c)
    \/ call[k].stage = "verify" /\ ToLock(k) = {}
    \/ (MayCommitLogin(k) \/ MayCommitRotation(k)) /\ ~OutOfNumbers(k)
    \/ \E s \in Sessions : MayLockSeen(k, s)
    \/ \E stage \in {"reuse", "deactivate"} : MayRevokeSeen(k, stage)

\* Call k holds a row that call j has to lock before it can commit: j cannot end
\* before k does.  Calls that wait for a row and hold none are idle here.
WaitsFor(j, k) ==
    /\ j # k
    /\ \/ call[j].stage = "invalidate" /\ \E c \in ToLock(j) : HoldsChallenge(k, c)
       \/ \E c \in Challenges : NextCode(j, c) /\ HoldsChallenge(k, c)
       \/ call[j].stage = "admit" /\ HoldsUser(k, call[j].user)
       \/ /\ call[j].stage \in {"reuse", "deactivate"}
          /\ \E s \in ToLock(j) : HoldsSession(k, s)

Circle(W) == W # {} /\ \A j \in W : \E k \in W : WaitsFor(j, k)

\* A circle in which every call is needed.
Deadlock(W) == Circle(W) /\ \A V \in (SUBSET W) \ {W} : ~Circle(V)

StagesOf(W) == {call[j].stage : j \in W}

\* Two reuse detections, or one and a deactivation, may have locked some of the
\* user's sessions each and want the others'; so may two requests, or one and a
\* login that passed codes over.
BulkDeadlock(W) ==
    /\ \A j, k \in W : call[j].user = call[k].user
    /\ \/ "reuse" \in StagesOf(W) /\ StagesOf(W) \subseteq {"reuse", "deactivate"}
       \/ "invalidate" \in StagesOf(W) /\ StagesOf(W) \subseteq {"invalidate", "verify"}

\* Nothing but such a wait, or the model's bounds, stops a call.
OnlyWaitsStop ==
    \A j \in Calls : call[j].stage # "idle" =>
        MayProceed(j) \/ OutOfNumbers(j) \/ \E k \in Calls : WaitsFor(j, k)

\* Calls deadlock only where an UPDATE of several rows of one user meets another
\* lock of the same rows: a login that has found its code, a rotation, or calls of
\* different users never are part of it, and otherwise a call is stopped only until
\* another ends (verifyOtp, rotate, invalidateOpen, revokeAllForUser).
OnlyBulkDeadlocks ==
    /\ \A W \in SUBSET Calls : Deadlock(W) => BulkDeadlock(W)
    /\ OnlyWaitsStop

Admitted(u) ==
    {k \in Calls : call[k].user = u /\ call[k].stage \in {"active", "admit", "rotate"}}
WaysIn(u) == Cardinality(UnrevokedSessions(u)) + Cardinality(Admitted(u))

\* The ways into the account of a deactivated user only get fewer: the calls
\* that had read the user as active may still finish, and no other begins.
DeactivationDries == [][\A u \in Users : ~active[u] => WaysIn(u)' <= WaysIn(u)]_vars

Chain(c) == {s \in Sessions : session[s].origin = c}
LoginState ==
    [c \in Challenges |->
        CASE challenge[c].status \in {"absent", "pending", "dropped"} -> "none"
          [] challenge[c].status = "open" -> "open"
          [] OTHER -> "closed"]
Logins == INSTANCE LoginChains WITH
    Codes <- Challenges,
    Tokens <- Sessions,
    code <- LoginState,
    valid <- [c \in Challenges |-> {s \in Chain(c) : Unrevoked(s)}],
    spent <- [c \in Challenges |-> {s \in Chain(c) : session[s].status = "revoked"}]

\* A code lets in once, however many calls send it together, and every login is a
\* chain of tokens of which at most one is valid, each replaced by a fresh one; an
\* ended chain never goes on (LoginChains; verifyOtp, rotate, revokeAllForUser).
ImplementsChains == Logins!Spec
=============================================================================
