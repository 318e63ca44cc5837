------------------------- MODULE AuthSessionsProofs -------------------------
(****************************************************************************)
(* Proofs about AuthSessions, for any number of users, calls, codes and     *)
(* sessions.  All of them rest on one inductive invariant, Inv: the row     *)
(* locks of the calls in progress exclude each other, a call that holds a   *)
(* row finds it as it read it, and the rows of codes and sessions fit       *)
(* together.                                                                *)
(****************************************************************************)
EXTENDS AuthSessions, FiniteSetTheorems, TLAPS

CodeStages == {"check", "active", "admit"}
SessionStages == {"rotate", "reuse"}

\* Calls c and d hold one row: a code or a session, the user of a deactivation, a
\* new code, or a new session.
Clash(c, d) ==
    \/ /\ \/ c.stage \in OnCodes /\ d.stage \in OnCodes
          \/ c.stage \in OnSessions /\ d.stage \in OnSessions
       /\ c.held \cap d.held # {}
    \/ c.stage = "deactivate" /\ d.stage = "deactivate" /\ c.user = d.user
    \/ /\ \/ c.stage = "invalidate" /\ d.stage = "invalidate"
          \/ c.stage = "sign" /\ d.stage = "sign"
       /\ c.row = d.row

LocksExclude == \A j, k \in Calls : Clash(call[j], call[k]) => j = k

\* What call c relies on, stage by stage.
Relies(c) ==
    /\ c.stage = "request" => c.held = {}
    /\ c.stage = "invalidate" =>
          c.row \in Challenges /\ challenge[c.row].status = "pending"
    /\ c.stage \in OnCodes => \A d \in c.seen \cup c.held :
          /\ d \in Challenges /\ challenge[d].user = c.user
          /\ challenge[d].status \notin {"absent", "pending"}
    /\ c.stage \in OnSessions => \A s \in c.seen \cup c.held :
          s \in Sessions /\ session[s].status # "absent" /\ UserOf(s) = c.user
    /\ c.stage = "verify" => \A d \in c.held, e \in c.seen \ c.held : e < d
    /\ c.stage \in CodeStages =>
          /\ c.row \in c.held /\ c.row \in Challenges /\ challenge[c.row].status = "open"
          /\ challenge[c.row].user = c.user
    /\ c.stage \in SessionStages =>
          c.row \in c.held /\ c.row \in Sessions /\ session[c.row].known
    /\ c.stage = "rotate" => Unrevoked(c.row) /\ UserOf(c.row) = c.user
    /\ c.stage = "sign" =>
          c.row \in Sessions /\ session[c.row].status # "absent" /\ ~session[c.row].known

\* Codes get their numbers in order.
CodesInOrder ==
    \A c, d \in Challenges :
        c < d /\ challenge[d].status # "absent" => challenge[c].status # "absent"

\* Every comparison is counted, and an open code has some left.
CodesCounted ==
    \A c \in Challenges :
        /\ challenge[c].guesses <= MaxAttempts
        /\ challenge[c].status \in {"absent", "pending"} =>
              challenge[c].attempts = 0 /\ challenge[c].guesses = 0
        /\ challenge[c].status = "open" =>
              challenge[c].attempts = challenge[c].guesses /\ challenge[c].guesses < MaxAttempts

\* A code whose request commits finds the older ones closed, in its snapshot, or
\* of a request that overlapped its own.
Superseding ==
    \A c, d \in Challenges :
        c < d /\ challenge[c].user = challenge[d].user
              /\ challenge[d].status \notin {"absent", "dropped"} =>
            /\ challenge[c].status = "pending" => c \in challenge[d].beside
            /\ challenge[c].status = "open" /\ c \notin challenge[d].beside =>
                  \E k \in Calls : /\ call[k].stage = "invalidate" /\ call[k].row = d
                                   /\ c \in call[k].seen

\* A session comes from a consumed code.
SessionsOfCodes ==
    \A s \in Sessions :
        /\ session[s].status = "absent" => session[s].origin = 0 /\ ~session[s].known
        /\ session[s].status # "absent" =>
              /\ session[s].origin \in Challenges
              /\ challenge[session[s].origin].status = "consumed"

\* A login has one session that can be exchanged.
OneUnrevoked ==
    \A r, s \in Sessions :
        Unrevoked(r) /\ Unrevoked(s) /\ session[r].origin = session[s].origin => r = s

CodeInv == CodesInOrder /\ CodesCounted /\ Superseding
SessionInv == SessionsOfCodes /\ OneUnrevoked
CallInv == LocksExclude /\ \A k \in Calls : Relies(call[k])

Inv == TypeOK /\ CallInv /\ CodeInv /\ SessionInv

(*************************************************************************)
(* The initial states                                                    *)
(*************************************************************************)

LEMMA IdleType ==
    ASSUME NEW u \in Users
    PROVE  /\ Idle(u) \in Call
           /\ Idle(u).stage = "idle" /\ Idle(u).user = u /\ Idle(u).held = {}
  BY MaxChallengesAssumption, MaxSessionsAssumption DEF Idle, Call, Stages

\* An idle call relies on nothing and holds nothing.
LEMMA IdleRelies == \A u \in Users : Relies(Idle(u))
  BY IdleType DEF Relies, CodeStages, SessionStages, OnCodes, OnSessions

LEMMA IdleFree ==
    \A u \in Users, c \in Call : ~Clash(Idle(u), c) /\ ~Clash(c, Idle(u))
  BY IdleType DEF Clash, CodeStages, SessionStages, OnCodes, OnSessions

LEMMA InitInv == Init => Inv
<1> SUFFICES ASSUME Init PROVE Inv
  OBVIOUS
<1>1. PICK u \in Users :
        /\ challenge = [c \in Challenges |->
              [status |-> "absent", user |-> u, attempts |-> 0,
               expired |-> FALSE, guesses |-> 0, beside |-> {}]]
        /\ call = [k \in Calls |-> Idle(u)]
  BY DEF Init
<1>2. \A s \in Sessions : /\ session[s].status = "absent"
                          /\ session[s].origin = 0 /\ ~session[s].known
  BY DEF Init
<1>3. \A c \in Challenges : /\ challenge[c].status = "absent"
                            /\ challenge[c].attempts = 0 /\ challenge[c].guesses = 0
  BY <1>1
<1>4. TypeOK
  <2>1. challenge \in [Challenges -> Challenge]
    BY <1>1, MaxAttemptsAssumption DEF Challenge
  <2>2. session \in [Sessions -> Session]
    BY MaxChallengesAssumption DEF Init, Session
  <2> QED
    BY <1>1, <2>1, <2>2, IdleType DEF Init, TypeOK
<1>5. CallInv
  BY <1>1, IdleType, IdleFree, IdleRelies DEF CallInv, LocksExclude
<1>6. CodeInv
  BY <1>3, MaxAttemptsAssumption DEF CodeInv, CodesInOrder, CodesCounted, Superseding
<1>7. SessionInv
  BY <1>2 DEF SessionInv, SessionsOfCodes, OneUnrevoked, Unrevoked
<1> QED
  BY <1>4, <1>5, <1>6, <1>7 DEF Inv

(*************************************************************************)
(* Steps that change what one call is doing and no code or session       *)
(*************************************************************************)

\* Calls other than k do what they did, and k does c.
Goes(k, c) ==
    /\ call' = [call EXCEPT ![k] = c]
    /\ c \in Call

LEMMA CallGoes ==
    ASSUME Inv, NEW k \in Calls, NEW c, Goes(k, c)
    PROVE  /\ call' \in [Calls -> Call]
           /\ call'[k] = c
           /\ \A j \in Calls \ {k} : call'[j] = call[j]
  BY DEF Goes, Inv, TypeOK

\* The locks still exclude each other if c clashes with no other call.
LEMMA LocksKept ==
    ASSUME Inv, NEW k \in Calls, NEW c, Goes(k, c), \A j \in Calls \ {k} : ~Clash(c, call[j])
    PROVE  LocksExclude'
<1>1. call'[k] = c /\ \A j \in Calls \ {k} : call'[j] = call[j]
  BY CallGoes
<1> SUFFICES ASSUME NEW i \in Calls, NEW j \in Calls, i # j
             PROVE  ~Clash(call'[i], call'[j])
  BY DEF LocksExclude
<1>2. CASE i = k
  BY <1>1, <1>2
<1>3. CASE j = k
  BY <1>1, <1>3 DEF Clash
<1>4. CASE i # k /\ j # k
  BY <1>1, <1>4 DEF Inv, CallInv, LocksExclude
<1> QED
  BY <1>2, <1>3, <1>4

\* A call may do c next when it knows what c relies on and holds what c holds.
LEMMA CallMoves ==
    ASSUME Inv, NEW k \in Calls, NEW c, Goes(k, c),
           UNCHANGED <<active, challenge, session>>,
           entitled' \in [Users -> BOOLEAN],
           call[k].stage = "invalidate" =>
               c.stage = "invalidate" /\ c.row = call[k].row /\ c.seen = call[k].seen,
           Relies(c), \A j \in Calls \ {k} : ~Clash(c, call[j])
    PROVE  Inv'
<1>1. /\ call' \in [Calls -> Call] /\ call'[k] = c
      /\ \A j \in Calls \ {k} : call'[j] = call[j]
  BY CallGoes
<1>2. TypeOK'
  BY <1>1 DEF Inv, TypeOK
<1>3. ASSUME NEW j \in Calls PROVE Relies(call[j])'
  <2>1. Relies(call'[j])
    BY <1>1 DEF Inv, CallInv
  <2> QED
    BY <2>1 DEF Relies, Unrevoked, UserOf
<1>4. CallInv'
  BY <1>3, LocksKept DEF CallInv
<1>5. CodeInv'
  <2>1. Superseding'
    <3> SUFFICES ASSUME NEW a \in Challenges, NEW d \in Challenges,
                        a < d, challenge[a].user = challenge[d].user,
                        challenge[d].status \notin {"absent", "dropped"}
                 PROVE  /\ challenge[a].status = "pending" => a \in challenge[d].beside
                        /\ challenge[a].status = "open" /\ a \notin challenge[d].beside =>
                              \E j \in Calls : /\ call'[j].stage = "invalidate"
                                               /\ call'[j].row = d /\ a \in call'[j].seen
      BY DEF Superseding
    <3>1. /\ challenge[a].status = "pending" => a \in challenge[d].beside
          /\ challenge[a].status = "open" /\ a \notin challenge[d].beside =>
                \E j \in Calls : /\ call[j].stage = "invalidate"
                                 /\ call[j].row = d /\ a \in call[j].seen
      BY DEF Inv, CodeInv, Superseding
    <3> QED
      BY <1>1, <3>1
  <2> QED
    BY <2>1 DEF Inv, CodeInv, CodesInOrder, CodesCounted
<1>6. SessionInv'
  BY DEF Inv, SessionInv, SessionsOfCodes, OneUnrevoked, Unrevoked
<1> QED
  BY <1>2, <1>4, <1>5, <1>6 DEF Inv

\* So it may end without having written anything.
LEMMA CallEnds ==
    ASSUME Inv, NEW k \in Calls, Finish(k), call[k].stage # "invalidate",
           UNCHANGED <<active, entitled, challenge, session>>
    PROVE  Inv'
<1>1. call[k].user \in Users /\ \A j \in Calls : call[j] \in Call
  BY DEF Inv, TypeOK, Call
<1>2. PICK c : c = Idle(call[k].user)
  OBVIOUS
<1>3. Relies(c) /\ \A j \in Calls \ {k} : ~Clash(c, call[j])
  BY <1>1, <1>2, IdleFree, IdleRelies
<1>4. Goes(k, c)
  BY <1>1, <1>2, IdleType DEF Finish, Goes
<1>5. entitled' \in [Users -> BOOLEAN]
  BY DEF Inv, TypeOK
<1> QED
  BY <1>3, <1>4, <1>5, CallMoves

\* Steps that begin a call, or move it on.
LEMMA BeginningsKeep ==
    ASSUME Inv, NEW k \in Calls, NEW u \in Users,
           AdmitRequest(k, u) \/ BeginVerify(k, u) \/ DeactivateUser(k, u)
    PROVE  Inv'
<1>1. call[k].stage = "idle" /\ UNCHANGED <<active, entitled, challenge, session>>
  BY DEF AdmitRequest, BeginVerify, DeactivateUser
<1>2. ASSUME NEW c, Goes(k, c), Relies(c), c.held = {},
             \/ c.stage \in {"request", "verify"}
             \/ c.stage = "deactivate" /\ c.user = u /\ ~UserLocked(u)
      PROVE  Inv'
  <2>1. \A j \in Calls \ {k} : ~Clash(c, call[j])
    BY <1>2 DEF Clash, UserLocked, HoldsUser
  <2>2. entitled' \in [Users -> BOOLEAN]
    BY <1>1 DEF Inv, TypeOK
  <2> QED
    BY <1>1, <1>2, <2>1, <2>2, CallMoves
<1>3. CASE AdmitRequest(k, u)
  <2> DEFINE c == [Idle(u) EXCEPT !.stage = "request"]
  <2>1. c \in Call /\ c.stage = "request" /\ c.held = {}
    BY IdleType DEF Call, Stages
  <2>2. Goes(k, c) /\ Relies(c)
    BY <1>3, <2>1 DEF Goes, AdmitRequest, Relies, CodeStages, SessionStages, OnCodes, OnSessions
  <2> QED
    BY <1>2, <2>1, <2>2
<1>4. CASE BeginVerify(k, u)
  <2>0. Idle(u) \in Call /\ Idle(u).user = u
    BY IdleType
  <2> DEFINE found == {d \in OpenChallenges(u) : ~challenge[d].expired}
             c == [Idle(u) EXCEPT !.stage = "verify", !.seen = found]
  <2>1. \A d \in found : /\ d \in Challenges /\ challenge[d].user = u
                         /\ challenge[d].status = "open"
    BY DEF OpenChallenges, ChallengesOf
  <2>2. call' = [call EXCEPT ![k] = c]
    BY <1>4 DEF BeginVerify
  <2> HIDE DEF found
  <2>3. found \in SUBSET (Challenges \cup Sessions)
    BY <2>1
  <2>4. /\ c \in Call /\ c.stage = "verify" /\ c.seen = found /\ c.user = u
        /\ c.held = {}
    BY <2>0, <2>3, IdleType DEF Call, Stages
  <2>5. Goes(k, c) /\ Relies(c)
    BY <2>1, <2>2, <2>4 DEF Goes, Relies, CodeStages, SessionStages, OnCodes, OnSessions
  <2> QED
    BY <1>2, <2>4, <2>5
<1>5. CASE DeactivateUser(k, u)
  <2>0. Idle(u) \in Call
    BY IdleType
  <2> DEFINE all == UnrevokedSessions(u)
             c == [Idle(u) EXCEPT !.stage = "deactivate", !.seen = all]
  <2>1. /\ all \in SUBSET (Challenges \cup Sessions)
        /\ \A s \in all : s \in Sessions /\ session[s].status # "absent" /\ UserOf(s) = u
    BY DEF UnrevokedSessions, Unrevoked
  <2>2. call' = [call EXCEPT ![k] = c] /\ ~UserLocked(u)
    BY <1>5 DEF DeactivateUser
  <2> HIDE DEF all
  <2>3. /\ c \in Call /\ c.stage = "deactivate" /\ c.user = u /\ c.seen = all
        /\ c.held = {}
    BY <2>0, <2>1, IdleType DEF Call, Stages
  <2>4. Goes(k, c) /\ Relies(c)
    BY <2>1, <2>2, <2>3 DEF Goes, Relies, CodeStages, SessionStages, OnCodes, OnSessions
  <2> QED
    BY <1>2, <2>2, <2>3, <2>4
<1> QED
  BY <1>3, <1>4, <1>5

\* A call locks one more row of its snapshot.
LEMMA LockingKeeps ==
    ASSUME Inv, NEW k \in Calls, LockOpen(k) \/ PassOver(k) \/ LockSeen(k)
    PROVE  Inv'
<1>1. PICK d : /\ d \in ToLock(k) /\ Lock(k, d)
               /\ \/ call[k].stage = "invalidate" /\ ~ChallengeLocked(d)
                  \/ NextCode(k, d) /\ ~ChallengeLocked(d)
                  \/ call[k].stage \in {"reuse", "deactivate"} /\ ~SessionLocked(d)
  BY DEF LockOpen, MayLockOpen, PassOver, MayLockNext, NextCode, LockSeen, MayLockSeen
<1>2. /\ call[k] \in Call /\ Relies(call[k])
      /\ \A j \in Calls \ {k} : ~Clash(call[k], call[j])
  BY DEF Inv, TypeOK, CallInv, LocksExclude
<1>3. /\ d \in call[k].seen /\ d \in Challenges \cup Sessions
      /\ call[k].stage \in {"invalidate", "verify", "reuse", "deactivate"}
  BY <1>1, <1>2 DEF ToLock, Call, NextCode
<1>4. PICK held : held = call[k].held \cup {d}
  OBVIOUS
<1> DEFINE c == [call[k] EXCEPT !.held = held]
<1>5. held \in SUBSET (Challenges \cup Sessions)
  BY <1>2, <1>3, <1>4 DEF Call
<1>6. /\ c \in Call /\ c.stage = call[k].stage /\ c.row = call[k].row
      /\ c.user = call[k].user /\ c.seen = call[k].seen /\ c.held = held
  BY <1>2, <1>5 DEF Call
<1>7. Goes(k, c)
  BY <1>1, <1>4, <1>6 DEF Goes, Lock
<1> HIDE DEF c
<1>8. Relies(c)
  <2>1. c.stage = "verify" => \A e \in c.held, f \in c.seen \ c.held : f < e
    <3> SUFFICES ASSUME c.stage = "verify", NEW e \in c.held, NEW f \in c.seen \ c.held
                 PROVE  f < e
      OBVIOUS
    <3>1. f \in call[k].seen \ call[k].held /\ f # d
      BY <1>4, <1>6
    <3>2. CASE e = d
      <4>1. f <= d /\ f \in Challenges /\ d \in Challenges
        BY <1>1, <1>2, <1>3, <1>6, <3>1 DEF NextCode, ToLock, Relies, OnCodes
      <4> QED
        BY <3>1, <3>2, <4>1, MaxChallengesAssumption DEF Challenges
    <3>3. CASE e # d
      BY <1>2, <1>4, <1>6, <3>1, <3>3 DEF Relies
    <3> QED
      BY <3>2, <3>3
  <2>2. c.seen \cup c.held = call[k].seen \cup call[k].held
    BY <1>3, <1>4, <1>6
  <2>3. c.stage \in OnCodes => \A e \in c.seen \cup c.held :
          /\ e \in Challenges /\ challenge[e].user = c.user
          /\ challenge[e].status \notin {"absent", "pending"}
    BY <1>2, <1>6, <2>2 DEF Relies
  <2>4. c.stage \in OnSessions => \A s \in c.seen \cup c.held :
          s \in Sessions /\ session[s].status # "absent" /\ UserOf(s) = c.user
    BY <1>2, <1>6, <2>2 DEF Relies
  <2>5. c.stage = "invalidate" => c.row \in Challenges /\ challenge[c.row].status = "pending"
    BY <1>2, <1>6 DEF Relies
  <2>6. c.stage = "reuse" => c.row \in c.held /\ c.row \in Sessions /\ session[c.row].known
    BY <1>2, <1>4, <1>6 DEF Relies, SessionStages
  <2>7. c.stage \in {"invalidate", "verify", "reuse", "deactivate"}
    BY <1>3, <1>6
  <2> HIDE DEF ToLock
  <2> QED
    BY <2>1, <2>3, <2>4, <2>5, <2>6, <2>7 DEF Relies, CodeStages, SessionStages
<1>9. ASSUME NEW j \in Calls \ {k} PROVE ~Clash(c, call[j])
  <2>1. \/ c.stage \in OnCodes /\ call[j].stage \in OnCodes
        \/ c.stage \in OnSessions /\ call[j].stage \in OnSessions
        => d \notin call[j].held
    BY <1>1, <1>3, <1>6
    DEF ChallengeLocked, HoldsChallenge, SessionLocked, HoldsSession, NextCode, OnCodes,
        OnSessions
  <2> QED
    BY <1>2, <1>4, <1>6, <2>1 DEF Clash
<1>10. UNCHANGED <<active, challenge, session>> /\ entitled' \in [Users -> BOOLEAN]
  BY DEF LockOpen, PassOver, LockSeen, Inv, TypeOK
<1> QED
  BY <1>6, <1>7, <1>8, <1>9, <1>10, CallMoves

LEMMA LockChallengeKeeps ==
    ASSUME Inv, NEW k \in Calls, LockChallenge(k)
    PROVE  Inv'
<1>1. PICK d \in call[k].seen :
        /\ challenge[d].status = "open" /\ ~ChallengeLocked(d)
        /\ call' = [call EXCEPT ![k].stage = "check", ![k].row = d,
                                ![k].seen = {}, ![k].held = @ \cup {d}]
  BY DEF LockChallenge, MayLockNext, NextCode, ToLock
<1>2. /\ call[k] \in Call /\ call[k].stage = "verify" /\ Relies(call[k])
      /\ \A j \in Calls \ {k} : ~Clash(call[k], call[j])
  BY DEF LockChallenge, MayLockNext, NextCode, Inv, TypeOK, CallInv, LocksExclude
<1>3. d \in Challenges /\ challenge[d].user = call[k].user
  BY <1>1, <1>2 DEF Relies, OnCodes
<1>4. PICK held, none : held = call[k].held \cup {d} /\ none = {}
  OBVIOUS
<1> DEFINE c == [call[k] EXCEPT !.stage = "check", !.row = d, !.seen = none, !.held = held]
<1>5. d \in 0 .. MaxChallenges + MaxSessions
  BY <1>3, MaxChallengesAssumption, MaxSessionsAssumption DEF Challenges
<1>6. held \in SUBSET (Challenges \cup Sessions) /\ none \in SUBSET (Challenges \cup Sessions)
  BY <1>2, <1>3, <1>4 DEF Call
<1>7. /\ c \in Call /\ c.stage = "check" /\ c.row = d /\ c.user = call[k].user
      /\ c.seen = none /\ c.held = held
  BY <1>2, <1>5, <1>6 DEF Call, Stages
<1>8. Goes(k, c)
  <2>1. call' = [call EXCEPT ![k] = c]
    BY <1>1, <1>4
  <2> QED
    BY <1>7, <2>1 DEF Goes
<1> HIDE DEF c
<1>9. Relies(c)
  BY <1>1, <1>2, <1>3, <1>4, <1>7 DEF Relies, CodeStages, SessionStages, OnCodes, OnSessions
<1>10. ASSUME NEW j \in Calls \ {k} PROVE ~Clash(c, call[j])
  <2>1. call[j].stage \in OnCodes => d \notin call[j].held
    BY <1>1 DEF ChallengeLocked, HoldsChallenge
  <2> QED
    BY <1>2, <1>4, <1>7, <2>1 DEF Clash, OnCodes, OnSessions
<1>11. UNCHANGED <<active, challenge, session>> /\ entitled' \in [Users -> BOOLEAN]
  BY DEF LockChallenge, Inv, TypeOK
<1> QED
  BY <1>2, <1>8, <1>9, <1>10, <1>11, CallMoves

\* A call that holds a code goes on with it.
LEMMA ChecksKeep ==
    ASSUME Inv, NEW k \in Calls, FindActiveUser(k) \/ CheckMembership(k)
    PROVE  Inv'
<1>1. PICK to \in {"active", "admit"} : call' = [call EXCEPT ![k].stage = to]
  BY DEF FindActiveUser, CheckMembership
<1>2. /\ call[k] \in Call /\ call[k].stage \in {"check", "active"} /\ Relies(call[k])
      /\ \A j \in Calls \ {k} : ~Clash(call[k], call[j])
  BY DEF FindActiveUser, CheckMembership, Inv, TypeOK, CallInv, LocksExclude
<1> DEFINE c == [call[k] EXCEPT !.stage = to]
<1>3. /\ c \in Call /\ c.stage = to /\ c.row = call[k].row /\ c.user = call[k].user
      /\ c.seen = call[k].seen /\ c.held = call[k].held
  BY <1>2 DEF Call, Stages
<1>4. Goes(k, c)
  BY <1>1, <1>3 DEF Goes, Inv, TypeOK
<1>5. Relies(c) /\ \A j \in Calls \ {k} : ~Clash(c, call[j])
  BY <1>2, <1>3 DEF Relies, Clash, CodeStages, SessionStages, OnCodes, OnSessions
<1>6. UNCHANGED <<active, challenge, session>> /\ entitled' \in [Users -> BOOLEAN]
  BY DEF FindActiveUser, CheckMembership, Inv, TypeOK
<1> HIDE DEF c
<1> QED
  BY <1>2, <1>4, <1>5, <1>6, CallMoves

\* A call that only read ends; a membership begins or ends.
LEMMA QuietKeeps ==
    ASSUME Inv, NEW k \in Calls,
           \/ NoChallengeLeft(k)
           \/ LoseAnswer(k)
           \/ Abort(k) /\ call[k].stage # "invalidate"
    PROVE  Inv'
<1>1. /\ call[k].stage # "invalidate" /\ Finish(k)
      /\ UNCHANGED <<active, entitled, challenge, session>>
  BY DEF NoChallengeLeft, LoseAnswer, Abort
<1> QED
  BY <1>1, CallEnds

LEMMA MembershipChangesKeeps ==
    ASSUME Inv, NEW u \in Users, MembershipChanges(u)
    PROVE  Inv'
<1>1. UNCHANGED <<active, challenge, session, call>> /\ entitled' \in [Users -> BOOLEAN]
  BY DEF MembershipChanges, Inv, TypeOK
<1>2. TypeOK'
  BY <1>1 DEF Inv, TypeOK
<1>3. CallInv'
  BY <1>1 DEF Inv, CallInv, LocksExclude, Relies, Unrevoked, UserOf
<1>4. CodeInv' /\ SessionInv'
  BY <1>1 DEF Inv, CodeInv, CodesInOrder, CodesCounted, Superseding,
              SessionInv, SessionsOfCodes, OneUnrevoked, Unrevoked
<1> QED
  BY <1>2, <1>3, <1>4 DEF Inv

LEMMA StutterKeeps == Inv /\ UNCHANGED vars => Inv'
<1> SUFFICES ASSUME Inv, UNCHANGED vars PROVE Inv'
  OBVIOUS
<1>1. TypeOK'
  BY DEF vars, Inv, TypeOK
<1>2. CallInv'
  BY DEF vars, Inv, CallInv, LocksExclude, Relies, Unrevoked, UserOf
<1>3. CodeInv' /\ SessionInv'
  BY DEF vars, Inv, CodeInv, CodesInOrder, CodesCounted, Superseding,
         SessionInv, SessionsOfCodes, OneUnrevoked, Unrevoked
<1> QED
  BY <1>1, <1>2, <1>3 DEF Inv

\* A call takes the lock of a session.
LEMMA HoldKeeps ==
    ASSUME Inv, NEW k \in Calls, NEW s \in Sessions,
           LockSession(k, s) \/ DetectReuse(k, s)
    PROVE  Inv'
<1>1. /\ call[k].stage = "idle" /\ session[s].known /\ ~SessionLocked(s)
      /\ UNCHANGED <<active, entitled, challenge, session>>
  BY DEF LockSession, DetectReuse, Presentable
<1>2. /\ session[s].origin \in Challenges /\ UserOf(s) \in Users
      /\ s \in 0 .. MaxChallenges + MaxSessions
  <2>1. session[s].origin \in Challenges
    BY <1>1 DEF Inv, SessionInv, SessionsOfCodes
  <2>2. challenge[session[s].origin] \in Challenge
    BY <2>1 DEF Inv, TypeOK
  <2> QED
    BY <2>1, <2>2, MaxChallengesAssumption, MaxSessionsAssumption
    DEF Challenge, Sessions, UserOf
<1>3. PICK u \in Users : u = UserOf(s)
  BY <1>2
<1>4. PICK stage, seen :
        /\ \/ stage = "rotate" /\ seen = {} /\ session[s].status = "live"
           \/ stage = "reuse" /\ seen = UnrevokedSessions(UserOf(s))
        /\ call' = [call EXCEPT ![k] = [Idle(u) EXCEPT
                       !.stage = stage, !.row = s, !.seen = seen, !.held = {s}]]
  <2>1. CASE LockSession(k, s)
    BY <1>3, <2>1 DEF LockSession, Hold
  <2>2. CASE DetectReuse(k, s)
    BY <1>3, <2>2 DEF DetectReuse, Hold
  <2> QED
    BY <2>1, <2>2
<1>5. /\ stage \in SessionStages /\ seen \in SUBSET (Challenges \cup Sessions)
      /\ \A r \in seen : r \in Sessions /\ session[r].status # "absent" /\ UserOf(r) = u
  BY <1>3, <1>4 DEF SessionStages, UnrevokedSessions, Unrevoked
<1>6. PICK held : held = {s} /\ held \in SUBSET (Challenges \cup Sessions)
  OBVIOUS
<1> DEFINE c == [Idle(u) EXCEPT !.stage = stage, !.row = s, !.seen = seen, !.held = held]
<1>7. /\ c \in Call /\ c.stage = stage /\ c.row = s /\ c.user = u
      /\ c.seen = seen /\ c.held = held
  <2>1. Idle(u) \in Call /\ Idle(u).user = u
    BY IdleType
  <2> QED
    BY <1>2, <1>5, <1>6, <2>1 DEF Call, Stages, SessionStages
<1>8. Goes(k, c)
  BY <1>4, <1>6, <1>7 DEF Goes
<1> HIDE DEF c
<1>9. Relies(c)
  <2>1. session[s].status # "absent"
    BY <1>1 DEF Inv, SessionInv, SessionsOfCodes
  <2>2. stage = "rotate" => Unrevoked(s)
    BY <1>4 DEF Unrevoked
  <2> QED
    BY <1>1, <1>3, <1>5, <1>6, <1>7, <2>1, <2>2
    DEF Relies, CodeStages, SessionStages, OnCodes, OnSessions
<1>10. \A j \in Calls \ {k} : ~Clash(c, call[j])
  BY <1>1, <1>5, <1>6, <1>7
  DEF Clash, SessionStages, OnCodes, OnSessions, SessionLocked, HoldsSession
<1>11. entitled' \in [Users -> BOOLEAN]
  BY <1>1 DEF Inv, TypeOK
<1> QED
  BY <1>1, <1>8, <1>9, <1>10, <1>11, CallMoves

(*************************************************************************)
(* Steps that change sessions                                            *)
(*************************************************************************)

\* Codes fit together while the calls that have inserted one go on with it.
LEMMA CodesKept ==
    ASSUME Inv, challenge' = challenge,
           \A j \in Calls : call[j].stage = "invalidate" => call'[j] = call[j]
    PROVE  CodeInv'
<1>1. Superseding'
  <2> SUFFICES ASSUME NEW a \in Challenges, NEW d \in Challenges,
                      a < d, challenge[a].user = challenge[d].user,
                      challenge[d].status \notin {"absent", "dropped"}
               PROVE  /\ challenge[a].status = "pending" => a \in challenge[d].beside
                      /\ challenge[a].status = "open" /\ a \notin challenge[d].beside =>
                            \E j \in Calls : /\ call'[j].stage = "invalidate"
                                             /\ call'[j].row = d /\ a \in call'[j].seen
    BY DEF Superseding
  <2>1. /\ challenge[a].status = "pending" => a \in challenge[d].beside
        /\ challenge[a].status = "open" /\ a \notin challenge[d].beside =>
              \E j \in Calls : /\ call[j].stage = "invalidate"
                               /\ call[j].row = d /\ a \in call[j].seen
    BY DEF Inv, CodeInv, Superseding
  <2> QED
    BY <2>1
<1> QED
  BY <1>1 DEF Inv, CodeInv, CodesInOrder, CodesCounted

\* Calls k and the others go on if they find the rows they rely on.
LEMMA CallsServed ==
    ASSUME Inv, NEW k \in Calls, NEW c, Goes(k, c),
           \A j \in Calls \ {k} : ~Clash(c, call[j]),
           Relies(c)',
           \A d \in Call : (\E j \in Calls \ {k} : d = call[j]) => Relies(d)'
    PROVE  CallInv'
<1>1. /\ call' \in [Calls -> Call] /\ call'[k] = c
      /\ \A j \in Calls \ {k} : call'[j] = call[j]
  BY CallGoes
<1>2. ASSUME NEW j \in Calls PROVE Relies(call[j])'
  <2>1. PICK d \in Call : d = call'[j]
    BY <1>1
  <2>2. Relies(d)'
    BY <1>1, <2>1
  <2> QED
    BY <2>1, <2>2 DEF Relies, Unrevoked, UserOf
<1> QED
  BY <1>2, LocksKept DEF CallInv

\* The sessions of S are revoked, and no call is exchanging one of them.
Revokes(S) ==
    session' = [s \in Sessions |->
        IF s \in S /\ Unrevoked(s)
        THEN [session[s] EXCEPT !.status = "revoked"] ELSE session[s]]

LEMMA RowsRevoked ==
    ASSUME Inv, NEW S, Revokes(S)
    PROVE  /\ session' \in [Sessions -> Session]
           /\ \A s \in Sessions :
                 /\ session'[s].origin = session[s].origin
                 /\ session'[s].known = session[s].known
                 /\ session'[s].status = IF s \in S /\ Unrevoked(s) THEN "revoked"
                                         ELSE session[s].status
<1>1. ASSUME NEW s \in Sessions
      PROVE  /\ session'[s] \in Session
             /\ session'[s].origin = session[s].origin
             /\ session'[s].known = session[s].known
             /\ session'[s].status = IF s \in S /\ Unrevoked(s) THEN "revoked"
                                     ELSE session[s].status
  <2>1. session[s] \in Session
    BY DEF Inv, TypeOK
  <2> QED
    BY <2>1 DEF Revokes, Session
<1> QED
  BY <1>1 DEF Revokes

LEMMA RevokingKeeps ==
    ASSUME Inv, NEW k \in Calls, NEW c, Goes(k, c), c.stage = "idle",
           call[k].stage # "invalidate",
           NEW S, Revokes(S), challenge' = challenge,
           active' \in [Users -> BOOLEAN], entitled' \in [Users -> BOOLEAN],
           \A j \in Calls \ {k} : call[j].stage = "rotate" => call[j].row \notin S
    PROVE  Inv'
<1>1. /\ call' \in [Calls -> Call] /\ call'[k] = c
      /\ \A j \in Calls \ {k} : call'[j] = call[j]
  BY CallGoes
<1>2. TypeOK'
  BY <1>1, RowsRevoked DEF Inv, TypeOK
<1>3. CallInv'
  <2>1. ASSUME NEW d \in Call, NEW j \in Calls \ {k}, d = call[j]
        PROVE  Relies(d)'
    <3>1. Relies(d) /\ (d.stage = "rotate" => d.row \notin S)
      BY <2>1 DEF Inv, CallInv
    <3>2. \A s \in Sessions :
            /\ session'[s].origin = session[s].origin
            /\ session'[s].known = session[s].known
            /\ session'[s].status = "absent" => session[s].status = "absent"
            /\ s \notin S => session'[s].status = session[s].status
      BY RowsRevoked
    <3> QED
      BY <3>1, <3>2 DEF Relies, Unrevoked, UserOf, CodeStages, SessionStages
  <2>2. Relies(c)' /\ \A j \in Calls \ {k} : ~Clash(c, call[j])
    BY DEF Relies, Clash, CodeStages, SessionStages, OnCodes, OnSessions
  <2> QED
    BY <2>1, <2>2, CallsServed
<1>4. CodeInv'
  BY <1>1, CodesKept
<1>5. SessionInv'
  BY RowsRevoked DEF Inv, SessionInv, SessionsOfCodes, OneUnrevoked, Unrevoked
<1> QED
  BY <1>2, <1>3, <1>4, <1>5 DEF Inv

\* A refused exchange and a logout are one step, and wait for the session's lock.
LEMMA EndsSessionKeeps ==
    ASSUME Inv, NEW k \in Calls, NEW s \in Sessions, RefuseRotation(k, s) \/ Logout(k, s)
    PROVE  Inv'
<1>1. /\ call[k].stage = "idle" /\ ~SessionLocked(s) /\ Unrevoked(s)
      /\ session' = [session EXCEPT ![s].status = "revoked"]
      /\ UNCHANGED <<active, entitled, challenge, call>>
  BY DEF RefuseRotation, Logout, Presentable, Unrevoked
<1>2. PICK S : S = {s}
  OBVIOUS
<1>3. Revokes(S)
  BY <1>1, <1>2 DEF Revokes, Inv, TypeOK
<1>4. PICK c : c = call[k]
  OBVIOUS
<1>5. Goes(k, c)
  BY <1>1, <1>4 DEF Goes, Inv, TypeOK
<1>6. \A j \in Calls \ {k} : call[j].stage = "rotate" => call[j].row \notin S
  BY <1>1, <1>2
  DEF SessionLocked, HoldsSession, Inv, CallInv, Relies, SessionStages, OnSessions
<1>7. active' \in [Users -> BOOLEAN] /\ entitled' \in [Users -> BOOLEAN]
  BY <1>1 DEF Inv, TypeOK
<1> QED
  BY <1>1, <1>3, <1>4, <1>5, <1>6, <1>7, RevokingKeeps

\* A call that ends becomes idle again.
LEMMA FinishGoes ==
    ASSUME Inv, NEW k \in Calls, Finish(k)
    PROVE  \E c : /\ Goes(k, c) /\ c.stage = "idle" /\ Relies(c)'
                  /\ \A j \in Calls : ~Clash(c, call[j])
<1>1. call[k].user \in Users /\ \A j \in Calls : call[j] \in Call
  BY DEF Inv, TypeOK, Call
<1>2. PICK c : c = Idle(call[k].user)
  OBVIOUS
<1>3. c \in Call /\ c.stage = "idle"
  BY <1>1, <1>2, IdleType
<1>4. Goes(k, c) /\ Relies(c)' /\ \A j \in Calls : ~Clash(c, call[j])
  BY <1>1, <1>2, <1>3, IdleFree DEF Finish, Goes, Relies, CodeStages, SessionStages, OnCodes, OnSessions
<1> QED
  BY <1>3, <1>4

LEMMA RevokeSeenKeeps ==
    ASSUME Inv, NEW k \in Calls, CommitReuse(k) \/ CommitDeactivation(k)
    PROVE  Inv'
<1>1. /\ call[k].stage \in {"reuse", "deactivate"} /\ Finish(k)
      /\ \E stage \in {"reuse", "deactivate"} : RevokeSeen(k, stage)
      /\ challenge' = challenge /\ entitled' \in [Users -> BOOLEAN]
      /\ active' \in [Users -> BOOLEAN]
  BY DEF CommitReuse, CommitDeactivation, RevokeSeen, MayRevokeSeen, Inv, TypeOK
<1>2. PICK c : Goes(k, c) /\ c.stage = "idle"
  BY <1>1, FinishGoes
<1>3. PICK S : S = call[k].seen
  OBVIOUS
<1>4. Revokes(S)
  BY <1>1, <1>3 DEF RevokeSeen, MayRevokeSeen, Revokes
<1>5. ASSUME NEW j \in Calls \ {k}, call[j].stage = "rotate"
      PROVE  call[j].row \notin S
  <2>1. call[j].row \in call[j].held
    BY <1>5 DEF Inv, CallInv, Relies, SessionStages
  <2>2. ~Clash(call[k], call[j])
    BY DEF Inv, CallInv, LocksExclude
  <2>3. S \subseteq call[k].held
    BY <1>1, <1>3 DEF RevokeSeen, MayRevokeSeen, ToLock
  <2> QED
    BY <1>1, <1>5, <2>1, <2>2, <2>3 DEF Clash, OnSessions
<1> QED
  BY <1>1, <1>2, <1>4, <1>5, RevokingKeeps

\* The session was not given to the client: nobody exchanges it.
LEMMA CompensateKeeps ==
    ASSUME Inv, NEW k \in Calls, Compensate(k)
    PROVE  Inv'
<1>1. /\ call[k].stage = "sign" /\ Finish(k)
      /\ session' = [session EXCEPT ![call[k].row].status = "revoked"]
      /\ UNCHANGED <<active, entitled, challenge>>
  BY DEF Compensate
<1>2. /\ call[k].row \in Sessions /\ session[call[k].row].status # "absent"
      /\ ~session[call[k].row].known
  BY <1>1 DEF Inv, CallInv, Relies
<1>3. PICK c : Goes(k, c) /\ c.stage = "idle"
  BY <1>1, FinishGoes
<1>4. PICK S : S = {call[k].row}
  OBVIOUS
<1>5. Revokes(S)
  <2>1. session[call[k].row] \in Session
    BY <1>2 DEF Inv, TypeOK
  <2>2. ~Unrevoked(call[k].row) => session[call[k].row].status = "revoked"
    BY <1>2, <2>1 DEF Unrevoked, Session
  <2>3. ASSUME session[call[k].row].status = "revoked"
        PROVE  [session[call[k].row] EXCEPT !.status = "revoked"] = session[call[k].row]
    BY <2>1, <2>3 DEF Session
  <2> QED
    BY <1>1, <1>2, <1>4, <2>2, <2>3 DEF Revokes, Inv, TypeOK
<1>6. \A j \in Calls \ {k} : call[j].stage = "rotate" => call[j].row \notin S
  BY <1>2, <1>4 DEF Inv, CallInv, Relies, SessionStages
<1>7. active' \in [Users -> BOOLEAN] /\ entitled' \in [Users -> BOOLEAN]
  BY <1>1 DEF Inv, TypeOK
<1> QED
  BY <1>1, <1>3, <1>5, <1>6, <1>7, RevokingKeeps

LEMMA AnswerKeeps ==
    ASSUME Inv, NEW k \in Calls, Answer(k)
    PROVE  Inv'
<1>1. /\ call[k].stage = "sign" /\ Finish(k)
      /\ UNCHANGED <<active, entitled, challenge>>
  BY DEF Answer
<1>2. PICK r \in Sessions : r = call[k].row /\ session[r].status # "absent"
  BY <1>1 DEF Inv, CallInv, Relies
<1>3. session' = [session EXCEPT ![r].known = TRUE]
  BY <1>2 DEF Answer
<1>4. session' \in [Sessions -> Session]
  <2>1. session[r] \in Session
    BY DEF Inv, TypeOK
  <2>2. [session[r] EXCEPT !.known = TRUE] \in Session
    BY <2>1 DEF Session
  <2> QED
    BY <1>3, <2>2 DEF Inv, TypeOK
<1>5. \A s \in Sessions :
        /\ session'[s].status = session[s].status /\ session'[s].origin = session[s].origin
        /\ session'[s].known = IF s = r THEN TRUE ELSE session[s].known
  <2>1. session[r] \in Session
    BY DEF Inv, TypeOK
  <2> QED
    BY <1>3, <2>1 DEF Inv, TypeOK, Session
<1>6. PICK c : Goes(k, c) /\ c.stage = "idle" /\ Relies(c)' /\ \A j \in Calls : ~Clash(c, call[j])
  BY <1>1, FinishGoes
<1>7. /\ call' \in [Calls -> Call] /\ \A j \in Calls \ {k} : call'[j] = call[j]
  BY <1>6, CallGoes
<1>8. CallInv'
  <2>1. ASSUME NEW d \in Call, NEW j \in Calls \ {k}, d = call[j]
        PROVE  Relies(d)'
    <3>1. Relies(d) /\ (d.stage = "sign" => d.row # r)
      BY <1>1, <1>2, <2>1 DEF Inv, CallInv, LocksExclude, Clash
    <3> QED
      BY <1>1, <1>5, <3>1 DEF Relies, Unrevoked, UserOf, SessionStages, OnSessions
  <2> QED
    BY <1>6, <2>1, CallsServed
<1>9. CodeInv'
  BY <1>1, <1>7, CodesKept
<1>10. SessionInv'
  <2>1. \A s \in Sessions : s # r /\ ~session[s].known => ~session'[s].known
    BY <1>5
  <2>2. SessionsOfCodes'
    <3> SUFFICES ASSUME NEW s \in Sessions
                 PROVE  /\ session'[s].status = "absent" =>
                              session'[s].origin = 0 /\ ~session'[s].known
                        /\ session'[s].status # "absent" =>
                              /\ session'[s].origin \in Challenges
                              /\ challenge'[session'[s].origin].status = "consumed"
      BY DEF SessionsOfCodes
    <3>1. /\ session[s].status = "absent" => session[s].origin = 0 /\ ~session[s].known
          /\ session[s].status # "absent" =>
                /\ session[s].origin \in Challenges
                /\ challenge[session[s].origin].status = "consumed"
      BY DEF Inv, SessionInv, SessionsOfCodes
    <3> QED
      BY <1>1, <1>2, <1>5, <2>1, <3>1
  <2>3. OneUnrevoked'
    BY <1>5 DEF Inv, SessionInv, OneUnrevoked, Unrevoked
  <2> QED
    BY <2>2, <2>3 DEF SessionInv
<1>11. TypeOK'
  BY <1>1, <1>4, <1>7 DEF Inv, TypeOK
<1> QED
  BY <1>8, <1>9, <1>10, <1>11 DEF Inv

LEMMA ExpireSessionKeeps ==
    ASSUME Inv, NEW s \in Sessions, ExpireSession(s)
    PROVE  Inv'
<1>1. /\ session[s].status = "live" /\ session' = [session EXCEPT ![s].status = "expired"]
      /\ UNCHANGED <<active, entitled, challenge, call>>
  BY DEF ExpireSession
<1>2. session[s] \in Session
  BY DEF Inv, TypeOK
<1>3. session' \in [Sessions -> Session]
  <2>1. [session[s] EXCEPT !.status = "expired"] \in Session
    BY <1>2 DEF Session
  <2> QED
    BY <1>1, <2>1 DEF Inv, TypeOK
<1>4. \A r \in Sessions :
        /\ session'[r].origin = session[r].origin /\ session'[r].known = session[r].known
        /\ session'[r].status = IF r = s THEN "expired" ELSE session[r].status
  BY <1>1, <1>2 DEF Inv, TypeOK, Session
<1>5. \A r \in Sessions :
        /\ Unrevoked(r)' <=> Unrevoked(r)
        /\ session'[r].status = "absent" <=> session[r].status = "absent"
  BY <1>1, <1>4 DEF Unrevoked
<1>6. CallInv'
  BY <1>1, <1>4, <1>5 DEF Inv, CallInv, LocksExclude, Relies, UserOf, SessionStages
<1>7. CodeInv'
  BY <1>1, CodesKept
<1>8. SessionInv'
  <2>1. SessionsOfCodes'
    BY <1>1, <1>4, <1>5 DEF Inv, SessionInv, SessionsOfCodes
  <2>2. OneUnrevoked'
    BY <1>4, <1>5 DEF Inv, SessionInv, OneUnrevoked
  <2> QED
    BY <2>1, <2>2 DEF SessionInv
<1>9. TypeOK'
  BY <1>1, <1>3 DEF Inv, TypeOK
<1> QED
  BY <1>6, <1>7, <1>8, <1>9 DEF Inv

(*************************************************************************)
(* Steps that change codes                                               *)
(*************************************************************************)

\* Call k used the code d it holds: compared it once more, and closed it unless
\* comparisons are left.
Used(k, d, e) ==
    /\ call[k].stage \in CodeStages /\ call[k].row = d
    /\ challenge' = [challenge EXCEPT ![d] = e]
    /\ e.user = challenge[d].user /\ e.beside = challenge[d].beside
    /\ e.guesses = challenge[d].guesses + 1
    /\ \/ e.status \in {"consumed", "invalidated"}
       \/ e.status = "open" /\ e.attempts = e.guesses /\ e.guesses < MaxAttempts

LEMMA HeldCode ==
    ASSUME Inv, NEW k \in Calls, call[k].stage \in CodeStages
    PROVE  /\ call[k].row \in Challenges /\ challenge[call[k].row] \in Challenge
           /\ challenge[call[k].row].status = "open"
           /\ challenge[call[k].row].user = call[k].user
           /\ challenge[call[k].row].attempts = challenge[call[k].row].guesses
           /\ challenge[call[k].row].guesses < MaxAttempts
<1>1. /\ call[k].row \in Challenges /\ challenge[call[k].row].status = "open"
      /\ challenge[call[k].row].user = call[k].user
  BY DEF Inv, CallInv, Relies
<1> QED
  BY <1>1 DEF Inv, TypeOK, CodeInv, CodesCounted

LEMMA UsedCodes ==
    ASSUME Inv, NEW k \in Calls, NEW d, NEW e \in Challenge, Used(k, d, e),
           \A j \in Calls : call[j].stage = "invalidate" => call'[j] = call[j]
    PROVE  /\ challenge' \in [Challenges -> Challenge] /\ CodeInv'
           /\ challenge'[d] = e
           /\ \A c \in Challenges \ {d} : challenge'[c] = challenge[c]
<1>1. /\ d \in Challenges /\ challenge[d] \in Challenge /\ challenge[d].status = "open"
      /\ challenge[d].guesses < MaxAttempts
  BY HeldCode DEF Used
<1>2. /\ challenge' \in [Challenges -> Challenge] /\ challenge'[d] = e
      /\ \A c \in Challenges \ {d} : challenge'[c] = challenge[c]
  BY <1>1 DEF Used, Inv, TypeOK
<1>3. /\ e.status \in {"open", "consumed", "invalidated"}
      /\ e.user = challenge[d].user /\ e.beside = challenge[d].beside
  BY DEF Used
<1>4. CodesInOrder'
  BY <1>1, <1>2, <1>3 DEF Inv, CodeInv, CodesInOrder
<1>5. CodesCounted'
  <2>1. /\ e.guesses <= MaxAttempts
        /\ e.status = "open" => e.attempts = e.guesses /\ e.guesses < MaxAttempts
    BY <1>1, MaxAttemptsAssumption DEF Used, Challenge
  <2> QED
    BY <1>2, <1>3, <2>1 DEF Inv, CodeInv, CodesCounted
<1>6. Superseding'
  <2> SUFFICES ASSUME NEW a \in Challenges, NEW b \in Challenges,
                      a < b, challenge'[a].user = challenge'[b].user,
                      challenge'[b].status \notin {"absent", "dropped"}
               PROVE  /\ challenge'[a].status = "pending" => a \in challenge'[b].beside
                      /\ challenge'[a].status = "open" /\ a \notin challenge'[b].beside =>
                            \E j \in Calls : /\ call'[j].stage = "invalidate"
                                             /\ call'[j].row = b /\ a \in call'[j].seen
    BY DEF Superseding
  <2>1. /\ challenge[a].user = challenge'[a].user /\ challenge[b].user = challenge'[b].user
        /\ challenge[b].beside = challenge'[b].beside
        /\ challenge[b].status \notin {"absent", "dropped"}
        /\ challenge'[a].status = "pending" => challenge[a].status = "pending"
        /\ challenge'[a].status = "open" => challenge[a].status = "open"
    BY <1>1, <1>2, <1>3
  <2>2. /\ challenge[a].status = "pending" => a \in challenge[b].beside
        /\ challenge[a].status = "open" /\ a \notin challenge[b].beside =>
              \E j \in Calls : /\ call[j].stage = "invalidate"
                               /\ call[j].row = b /\ a \in call[j].seen
    BY <2>1 DEF Inv, CodeInv, Superseding
  <2> QED
    BY <2>1, <2>2
<1> QED
  BY <1>2, <1>4, <1>5, <1>6 DEF CodeInv

\* The others do not hold the code.
LEMMA UsedServes ==
    ASSUME Inv, NEW k \in Calls, NEW d, NEW e \in Challenge, Used(k, d, e),
           \A s \in Sessions : session[s].status # "absent" => session'[s] = session[s],
           NEW j \in Calls \ {k}, NEW o, o = call[j]
    PROVE  Relies(o)'
<1>1. /\ d \in Challenges /\ challenge[d].status = "open"
  BY HeldCode DEF Used
<1>2. \A c \in Challenges :
        /\ challenge'[c].user = challenge[c].user
        /\ challenge[c].status \notin {"absent", "pending"} =>
              challenge'[c].status \notin {"absent", "pending"}
        /\ c # d => challenge'[c].status = challenge[c].status
  BY <1>1 DEF Used, Inv, TypeOK
<1>3. Relies(o) /\ (o.stage \in CodeStages => o.row # d)
  <2>1. Relies(call[k]) /\ Relies(o) /\ ~Clash(call[k], o)
    BY DEF Inv, CallInv, LocksExclude
  <2>2. call[k].stage \in OnCodes /\ d \in call[k].held
    BY <2>1 DEF Used, Relies, CodeStages, OnCodes
  <2>3. o.stage \in CodeStages => o.stage \in OnCodes /\ o.row \in o.held
    BY <2>1 DEF Relies, CodeStages, OnCodes
  <2> QED
    BY <2>1, <2>2, <2>3 DEF Clash
<1>4. ASSUME NEW r \in Sessions, session[r].status # "absent"
      PROVE  /\ session'[r] = session[r] /\ UserOf(r)' = UserOf(r)
             /\ Unrevoked(r)' <=> Unrevoked(r)
  <2>1. session[r].origin \in Challenges /\ session'[r] = session[r]
    BY <1>4 DEF Inv, SessionInv, SessionsOfCodes
  <2> QED
    BY <1>2, <2>1 DEF UserOf, Unrevoked
<1>5. o.stage \in OnCodes => \A c \in o.seen \cup o.held :
        /\ c \in Challenges /\ challenge'[c].user = o.user
        /\ challenge'[c].status \notin {"absent", "pending"}
  BY <1>2, <1>3 DEF Relies
<1>6. o.stage \in OnSessions => \A s \in o.seen \cup o.held :
        s \in Sessions /\ session'[s].status # "absent" /\ UserOf(s)' = o.user
  BY <1>3, <1>4 DEF Relies
<1>7. o.stage \in CodeStages \cup {"invalidate", "request", "verify"} => Relies(o)'
  BY <1>1, <1>2, <1>3, <1>5 DEF Relies, SessionStages, OnSessions, CodeStages
<1>8. o.stage \in SessionStages => Relies(o)'
  <2>1. o.stage \in SessionStages =>
          /\ o.row \in o.held /\ o.row \in Sessions /\ session[o.row].known
          /\ session[o.row].status # "absent" /\ o.stage \in OnSessions
    BY <1>3 DEF Relies, SessionStages, OnSessions
  <2> QED
    BY <1>3, <1>4, <1>6, <2>1 DEF Relies, SessionStages, OnCodes, CodeStages
<1>9. o.stage = "sign" => Relies(o)'
  BY <1>3, <1>4 DEF Relies, SessionStages, OnCodes, OnSessions, CodeStages
<1>10. o.stage \notin CodeStages \cup SessionStages \cup {"invalidate", "request", "verify", "sign"}
         => Relies(o)'
  BY <1>3, <1>6 DEF Relies, SessionStages, OnCodes, CodeStages
<1> QED
  BY <1>7, <1>8, <1>9, <1>10

\* No session comes from an open code; the others' codes did not change.
LEMMA UsedSessions ==
    ASSUME Inv, NEW k \in Calls, NEW d, NEW e \in Challenge, Used(k, d, e), session' = session
    PROVE  SessionInv'
<1>1. challenge[d].status = "open" /\ \A c \in Challenges \ {d} : challenge'[c] = challenge[c]
  BY HeldCode DEF Used, Inv, TypeOK
<1> QED
  BY <1>1 DEF Inv, SessionInv, SessionsOfCodes, OneUnrevoked, Unrevoked

\* What is written when a code is compared.
LEMMA CountedCode ==
    ASSUME Inv, NEW k \in Calls, CountWrongCode(k)
    PROVE  \E e \in Challenge : Used(k, call[k].row, e)
<1>1. PICK old \in Challenge :
        /\ old = challenge[call[k].row] /\ call[k].row \in Challenges
        /\ old.attempts = old.guesses /\ old.guesses < MaxAttempts /\ old.status = "open"
  BY HeldCode DEF CountWrongCode, CodeStages
<1>2. PICK n \in 0 .. MaxAttempts : n = old.attempts + 1 /\ n = old.guesses + 1
  <2>1. old.guesses \in Nat
    BY DEF Challenge
  <2> QED
    BY <1>1, <2>1, MaxAttemptsAssumption
<1>3. PICK st : st = Invalidated(old)
  OBVIOUS
<1>4. /\ st \in {"open", "invalidated"}
      /\ st = "open" => n < MaxAttempts
  BY <1>1, <1>2, <1>3, MaxAttemptsAssumption DEF Invalidated
<1> DEFINE e == [old EXCEPT !.attempts = n, !.guesses = n, !.status = st]
<1>5. challenge' = [challenge EXCEPT ![call[k].row] = e]
  BY <1>1, <1>2, <1>3 DEF CountWrongCode
<1>6. /\ e \in Challenge /\ e.user = old.user /\ e.beside = old.beside
      /\ e.guesses = n /\ e.attempts = n /\ e.status = st
  <2>1. n \in Nat
    BY MaxAttemptsAssumption
  <2> QED
    BY <1>4, <2>1 DEF Challenge
<1> HIDE DEF e
<1>7. Used(k, call[k].row, e)
  BY <1>1, <1>2, <1>4, <1>5, <1>6 DEF Used, CountWrongCode, CodeStages
<1> QED
  BY <1>6, <1>7

LEMMA ConsumedCode ==
    ASSUME Inv, NEW k \in Calls, call[k].stage \in CodeStages,
           challenge' = [challenge EXCEPT ![call[k].row] = Consumed(@)]
    PROVE  \E e \in Challenge : e.status = "consumed" /\ Used(k, call[k].row, e)
<1>1. PICK old \in Challenge :
        /\ old = challenge[call[k].row] /\ call[k].row \in Challenges
        /\ old.guesses < MaxAttempts
  BY HeldCode
<1>2. PICK n \in Nat : n = old.guesses + 1
  BY DEF Challenge
<1> DEFINE e == [old EXCEPT !.status = "consumed", !.guesses = n]
<1>3. challenge' = [challenge EXCEPT ![call[k].row] = e]
  BY <1>1, <1>2 DEF Consumed
<1>4. /\ e \in Challenge /\ e.user = old.user /\ e.beside = old.beside
      /\ e.guesses = n /\ e.status = "consumed"
  BY DEF Challenge
<1> HIDE DEF e
<1>5. Used(k, call[k].row, e)
  BY <1>1, <1>2, <1>3, <1>4 DEF Used
<1> QED
  BY <1>4, <1>5

\* A code is used up, or counted wrong, and no login comes of it.
LEMMA NoLoginKeeps ==
    ASSUME Inv, NEW k \in Calls, CountWrongCode(k) \/ RefuseLogin(k)
    PROVE  Inv'
<1>1. /\ call[k].stage \in CodeStages /\ Finish(k)
      /\ UNCHANGED <<active, entitled, session>>
  BY DEF CountWrongCode, RefuseLogin, CodeStages
<1>2. PICK d, e : d = call[k].row /\ e \in Challenge /\ Used(k, d, e)
  <2>1. CASE CountWrongCode(k)
    BY <2>1, CountedCode
  <2>2. CASE RefuseLogin(k)
    BY <1>1, <2>2, ConsumedCode DEF RefuseLogin
  <2> QED
    BY <2>1, <2>2
<1>3. PICK c : Goes(k, c) /\ c.stage = "idle" /\ Relies(c)' /\ \A j \in Calls : ~Clash(c, call[j])
  BY <1>1, FinishGoes
<1>4. call' \in [Calls -> Call] /\ \A j \in Calls \ {k} : call'[j] = call[j]
  BY <1>3, CallGoes
<1>5. challenge' \in [Challenges -> Challenge] /\ CodeInv'
  BY <1>1, <1>2, <1>4, UsedCodes DEF CodeStages
<1>6. CallInv'
  BY <1>1, <1>2, <1>3, UsedServes, CallsServed
<1>7. SessionInv'
  BY <1>1, <1>2, UsedSessions
<1>8. TypeOK'
  BY <1>1, <1>4, <1>5 DEF Inv, TypeOK
<1> QED
  BY <1>5, <1>6, <1>7, <1>8 DEF Inv

(*************************************************************************)
(* Steps that create sessions                                            *)
(*************************************************************************)

LEMMA NewSessionRows ==
    ASSUME Inv, NEW s \in Sessions, NEW c \in Challenges, NEW p, NewSession(s, c, p),
           p \in Sessions => session[p].status # "absent"
    PROVE  /\ session' \in [Sessions -> Session]
           /\ session[s].status = "absent" /\ s # p
           /\ session'[s].status = "live" /\ session'[s].origin = c /\ ~session'[s].known
           /\ \A r \in Sessions \ {s, p} : session'[r] = session[r]
           /\ p \in Sessions => /\ session'[p].status = "revoked"
                                /\ session'[p].origin = session[p].origin
                                /\ session'[p].known = session[p].known
<1>1. session[s].status = "absent" /\ s # p
  BY DEF NewSession
<1>2. \A r \in Sessions :
        session'[r] = IF r = s THEN [status |-> "live", origin |-> c, known |-> FALSE]
                      ELSE IF r = p THEN [session[p] EXCEPT !.status = "revoked"]
                      ELSE session[r]
  BY <1>1 DEF NewSession
<1>3. c \in 0 .. MaxChallenges
  BY MaxChallengesAssumption DEF Challenges
<1>4. [status |-> "live", origin |-> c, known |-> FALSE] \in Session
  BY <1>3 DEF Session
<1>5. p \in Sessions => session[p] \in Session
  BY DEF Inv, TypeOK
<1>6. p \in Sessions => [session[p] EXCEPT !.status = "revoked"] \in Session
  BY <1>5 DEF Session
<1>7. \A r \in Sessions : session'[r] \in Session
  BY <1>2, <1>4, <1>6 DEF Inv, TypeOK
<1>8. session' \in [Sessions -> Session]
  BY <1>7 DEF NewSession
<1>9. p \in Sessions => /\ session'[p].status = "revoked"
                        /\ session'[p].origin = session[p].origin
                        /\ session'[p].known = session[p].known
  BY <1>1, <1>2, <1>5 DEF Session
<1> QED
  BY <1>1, <1>2, <1>8, <1>9

\* The call that made session s goes on to sign for it; no other call has it.
LEMMA SignGoes ==
    ASSUME Inv, NEW k \in Calls, NEW s \in Sessions, session[s].status = "absent",
           Sign(k, s)
    PROVE  \E c : /\ Goes(k, c) /\ c.stage = "sign" /\ c.row = s
                  /\ \A j \in Calls : ~Clash(c, call[j])
<1>1. PICK old \in Call : old = Idle(call[k].user)
  BY IdleType DEF Inv, TypeOK, Call
<1>2. s \in 0 .. MaxChallenges + MaxSessions
  BY MaxChallengesAssumption, MaxSessionsAssumption DEF Sessions
<1> DEFINE c == [old EXCEPT !.stage = "sign", !.row = s]
<1>3. c \in Call /\ c.stage = "sign" /\ c.row = s
  BY <1>2 DEF Call, Stages
<1>4. Goes(k, c)
  BY <1>1, <1>3 DEF Goes, Sign
<1>5. \A j \in Calls : ~Clash(c, call[j])
  BY <1>3 DEF Clash, CodeStages, SessionStages, OnCodes, OnSessions, Inv, CallInv, Relies
<1> HIDE DEF c
<1> QED
  BY <1>3, <1>4, <1>5

LEMMA CommitLoginKeeps ==
    ASSUME Inv, NEW k \in Calls, CommitLogin(k)
    PROVE  Inv'
<1>1. /\ call[k].stage = "admit" /\ UNCHANGED <<active, entitled>>
      /\ call[k].stage \in CodeStages
  BY DEF CommitLogin, MayCommitLogin, CodeStages
<1>2. PICK d : d = call[k].row
  OBVIOUS
<1>3. PICK e \in Challenge : e.status = "consumed" /\ Used(k, d, e)
  BY <1>1, <1>2, ConsumedCode DEF CommitLogin, MayCommitLogin
<1>4. PICK s \in Sessions :
        NewSession(s, d, 0) /\ Sign(k, s)
  BY <1>2 DEF CommitLogin, MayCommitLogin
<1>5. d \in Challenges /\ challenge[d].status = "open"
  BY <1>1, <1>2, HeldCode
<1>6. 0 \notin Sessions
  BY MaxSessionsAssumption DEF Sessions
<1>7. /\ session' \in [Sessions -> Session] /\ session[s].status = "absent"
      /\ session'[s].status = "live" /\ session'[s].origin = d /\ ~session'[s].known
      /\ \A r \in Sessions \ {s} : session'[r] = session[r]
  BY <1>4, <1>5, <1>6, NewSessionRows
<1>8. PICK c : /\ Goes(k, c) /\ c.stage = "sign" /\ c.row = s
               /\ \A j \in Calls : ~Clash(c, call[j])
  BY <1>4, <1>7, SignGoes
<1>9. call' \in [Calls -> Call] /\ \A j \in Calls \ {k} : call'[j] = call[j]
  BY <1>8, CallGoes
<1>10. /\ challenge' \in [Challenges -> Challenge] /\ CodeInv'
       /\ challenge'[d] = e /\ \A a \in Challenges \ {d} : challenge'[a] = challenge[a]
  BY <1>1, <1>3, <1>9, UsedCodes
<1>11. CallInv'
  <2>1. Relies(c)'
    BY <1>7, <1>8 DEF Relies, CodeStages, SessionStages, OnCodes, OnSessions
  <2>2. \A r \in Sessions : session[r].status # "absent" => session'[r] = session[r]
    BY <1>7
  <2>3. ASSUME NEW o \in Call, NEW j \in Calls \ {k}, o = call[j]
        PROVE  Relies(o)'
    BY <1>3, <2>2, <2>3, UsedServes
  <2> QED
    BY <1>8, <2>1, <2>3, CallsServed
<1>12. SessionsOfCodes'
  BY <1>3, <1>5, <1>7, <1>10 DEF Inv, SessionInv, SessionsOfCodes
<1>13. OneUnrevoked'
  BY <1>5, <1>7 DEF Inv, SessionInv, SessionsOfCodes, OneUnrevoked, Unrevoked
<1>14. TypeOK'
  BY <1>1, <1>7, <1>9, <1>10 DEF Inv, TypeOK
<1> QED
  BY <1>10, <1>11, <1>12, <1>13, <1>14 DEF Inv, SessionInv

LEMMA CommitRotationKeeps ==
    ASSUME Inv, NEW k \in Calls, CommitRotation(k)
    PROVE  Inv'
<1>1. call[k].stage = "rotate" /\ UNCHANGED <<active, entitled, challenge>>
  BY DEF CommitRotation, MayCommitRotation
<1>2. PICK p \in Sessions : /\ p = call[k].row /\ session[p].known
                            /\ session[p].status \in {"live", "expired"}
  BY <1>1 DEF Inv, CallInv, Relies, SessionStages, Unrevoked
<1>3. PICK o \in Challenges : o = session[p].origin /\ challenge[o].status = "consumed"
  BY <1>2 DEF Inv, SessionInv, SessionsOfCodes
<1>4. PICK s \in Sessions :
        NewSession(s, o, p) /\ Sign(k, s)
  BY <1>2, <1>3 DEF CommitRotation, MayCommitRotation
<1>5. /\ session' \in [Sessions -> Session] /\ session[s].status = "absent" /\ s # p
      /\ session'[s].status = "live" /\ session'[s].origin = o /\ ~session'[s].known
      /\ \A r \in Sessions \ {s, p} : session'[r] = session[r]
      /\ session'[p].status = "revoked" /\ session'[p].origin = session[p].origin
      /\ session'[p].known = session[p].known
  <2>1. NewSession(s, o, p) /\ (p \in Sessions => session[p].status # "absent")
    BY <1>2, <1>4
  <2>2. /\ session' \in [Sessions -> Session] /\ session[s].status = "absent" /\ s # p
        /\ session'[s].status = "live" /\ session'[s].origin = o /\ ~session'[s].known
    BY <2>1, NewSessionRows
  <2>3. \A r \in Sessions \ {s, p} : session'[r] = session[r]
    BY <2>1, NewSessionRows
  <2>4. /\ session'[p].status = "revoked" /\ session'[p].origin = session[p].origin
        /\ session'[p].known = session[p].known
    BY <2>1, NewSessionRows
  <2> QED
    BY <2>2, <2>3, <2>4
<1>6. PICK c : /\ Goes(k, c) /\ c.stage = "sign" /\ c.row = s
               /\ \A j \in Calls : ~Clash(c, call[j])
  BY <1>4, <1>5, SignGoes
<1>7. call' \in [Calls -> Call] /\ \A j \in Calls \ {k} : call'[j] = call[j]
  BY <1>6, CallGoes
<1>8. CallInv'
  <2>1. Relies(c)'
    BY <1>5, <1>6 DEF Relies, CodeStages, SessionStages, OnCodes, OnSessions
  <2>2. ASSUME NEW d \in Call, NEW j \in Calls \ {k}, d = call[j]
        PROVE  Relies(d)'
    <3>1. /\ Relies(d)
          /\ d.stage \in SessionStages => d.row # p
      <4>1. Relies(call[k]) /\ Relies(d) /\ ~Clash(call[k], d)
        BY <2>2 DEF Inv, CallInv, LocksExclude
      <4>2. call[k].stage \in OnSessions /\ p \in call[k].held
        BY <1>1, <1>2, <4>1 DEF Relies, SessionStages, OnSessions
      <4>3. d.stage \in SessionStages => d.stage \in OnSessions /\ d.row \in d.held
        BY <4>1 DEF Relies, SessionStages, OnSessions
      <4> QED
        BY <4>1, <4>2, <4>3 DEF Clash
    <3>2. d.stage \in SessionStages \cup {"sign"} =>
             d.row \in Sessions \ {s, p} /\ session'[d.row] = session[d.row]
      <4>1. session[s].status = "absent" => ~session[s].known
        BY DEF Inv, SessionInv, SessionsOfCodes
      <4> QED
        BY <1>2, <1>5, <3>1, <4>1 DEF Relies
    <3>3. \A r \in Sessions : session[r].status # "absent" =>
            session'[r].status # "absent" /\ session'[r].origin = session[r].origin
      BY <1>5
    <3>4. \A r \in Sessions : session[r].status # "absent" =>
            session'[r].status # "absent" /\ UserOf(r)' = UserOf(r)
      BY <1>1, <3>3 DEF UserOf
    <3>5. d.stage \in OnSessions => \A r \in d.seen \cup d.held :
            r \in Sessions /\ session'[r].status # "absent" /\ UserOf(r)' = d.user
      BY <3>1, <3>4 DEF Relies
    <3>6. d.stage \in SessionStages \cup {"sign"} => Relies(d)'
      BY <1>1, <3>1, <3>2, <3>5
      DEF Relies, Unrevoked, UserOf, SessionStages, CodeStages, OnCodes, OnSessions
    <3>7. d.stage \notin SessionStages \cup {"sign"} => Relies(d)'
      BY <1>1, <3>1, <3>5 DEF Relies, SessionStages
    <3> QED
      BY <3>6, <3>7
  <2> QED
    BY <1>6, <2>1, <2>2, CallsServed
<1>9. CodeInv'
  BY <1>1, <1>7, CodesKept
<1>10. SessionsOfCodes'
  BY <1>1, <1>2, <1>3, <1>5 DEF Inv, SessionInv, SessionsOfCodes
<1>11. OneUnrevoked'
  BY <1>2, <1>3, <1>5 DEF Inv, SessionInv, OneUnrevoked, Unrevoked
<1>12. TypeOK'
  BY <1>1, <1>5, <1>7 DEF Inv, TypeOK
<1> QED
  BY <1>8, <1>9, <1>10, <1>11, <1>12 DEF Inv, SessionInv

(*************************************************************************)
(* Steps of a request for a code, and time                               *)
(*************************************************************************)

\* Sessions and the calls that hold some do not notice codes that had not been
\* consumed.
LEMMA ConsumedKept ==
    ASSUME Inv, session' = session,
           \A c \in Challenges : challenge[c].status = "consumed" =>
               /\ challenge'[c].status = "consumed"
               /\ challenge'[c].user = challenge[c].user
    PROVE  /\ SessionInv'
           /\ \A r \in Sessions : session[r].status # "absent" => UserOf(r)' = UserOf(r)
<1>1. \A r \in Sessions : session[r].status # "absent" =>
        /\ session[r].origin \in Challenges
        /\ challenge[session[r].origin].status = "consumed"
  BY DEF Inv, SessionInv, SessionsOfCodes
<1>2. SessionsOfCodes'
  BY <1>1 DEF Inv, SessionInv, SessionsOfCodes
<1>3. OneUnrevoked'
  BY DEF Inv, SessionInv, OneUnrevoked, Unrevoked
<1>4. \A r \in Sessions : session[r].status # "absent" => UserOf(r)' = UserOf(r)
  BY <1>1 DEF UserOf
<1> QED
  BY <1>2, <1>3, <1>4 DEF SessionInv

\* The other calls go on: codes that had been asked for keep their users, the ones
\* that others hold or insert their status, and none becomes absent or pending.
LEMMA CodesServe ==
    ASSUME Inv, session' = session,
           NEW d, Relies(d),
           \A c \in Challenges : challenge[c].status \notin {"absent", "pending"} =>
               /\ challenge'[c].status \notin {"absent", "pending"}
               /\ challenge'[c].user = challenge[c].user,
           \A c \in Challenges : challenge[c].status = "consumed" =>
               challenge'[c].status = "consumed",
           d.stage \in CodeStages => challenge'[d.row].status = "open",
           d.stage = "invalidate" => challenge'[d.row].status = "pending"
    PROVE  Relies(d)'
<1>1. \A r \in Sessions : session[r].status # "absent" => UserOf(r)' = UserOf(r)
  <2>1. \A c \in Challenges : challenge[c].status = "consumed" =>
               /\ challenge'[c].status = "consumed"
               /\ challenge'[c].user = challenge[c].user
    OBVIOUS
  <2> QED
    BY <2>1, ConsumedKept
<1>2. d.stage \in SessionStages \cup {"sign"} => Relies(d)'
  BY <1>1 DEF Relies, CodeStages, SessionStages, OnCodes, OnSessions, Unrevoked
<1>3. d.stage = "verify" => Relies(d)'
  BY DEF Relies, CodeStages, SessionStages, OnCodes, OnSessions
<1>4. d.stage \in CodeStages => Relies(d)'
  BY DEF Relies, CodeStages, SessionStages, OnCodes, OnSessions
<1>5. d.stage \notin CodeStages \cup SessionStages \cup {"sign", "verify"} => Relies(d)'
  <2>1. d.stage \in OnSessions => \A r \in d.seen \cup d.held :
          r \in Sessions /\ session'[r].status # "absent" /\ UserOf(r)' = d.user
    BY <1>1 DEF Relies
  <2>2. d.stage \in OnCodes => \A c \in d.seen \cup d.held :
          /\ c \in Challenges /\ challenge'[c].user = d.user
          /\ challenge'[c].status \notin {"absent", "pending"}
    BY DEF Relies
  <2> QED
    BY <2>1, <2>2 DEF Relies, CodeStages, SessionStages
<1> QED
  BY <1>2, <1>3, <1>4, <1>5

LEMMA ExpireChallengeKeeps ==
    ASSUME Inv, NEW c \in Challenges, ExpireChallenge(c)
    PROVE  Inv'
<1>1. /\ challenge' = [challenge EXCEPT ![c].expired = TRUE]
      /\ UNCHANGED <<active, entitled, session, call>>
  BY DEF ExpireChallenge
<1>2. /\ challenge' \in [Challenges -> Challenge]
      /\ \A d \in Challenges :
           /\ challenge'[d].status = challenge[d].status
           /\ challenge'[d].user = challenge[d].user
           /\ challenge'[d].attempts = challenge[d].attempts
           /\ challenge'[d].guesses = challenge[d].guesses
           /\ challenge'[d].beside = challenge[d].beside
  <2>1. challenge[c] \in Challenge
    BY DEF Inv, TypeOK
  <2>2. [challenge[c] EXCEPT !.expired = TRUE] \in Challenge
    BY <2>1 DEF Challenge
  <2> QED
    BY <1>1, <2>1, <2>2 DEF Inv, TypeOK, Challenge
<1>3. CallInv'
  <2>1. ASSUME NEW j \in Calls PROVE Relies(call[j])'
    <3>1. PICK d : d = call[j]
      OBVIOUS
    <3>2. Relies(d)
      BY <3>1 DEF Inv, CallInv
    <3>3. /\ d.stage \in CodeStages => challenge'[d.row].status = "open"
          /\ d.stage = "invalidate" => challenge'[d.row].status = "pending"
      BY <1>2, <3>2 DEF Relies
    <3>4. Relies(d)'
      BY <1>1, <1>2, <3>2, <3>3, CodesServe
    <3> QED
      BY <1>1, <3>1, <3>4 DEF Relies, Unrevoked, UserOf
  <2> QED
    BY <1>1, <2>1 DEF Inv, CallInv, LocksExclude
<1>4. CodesInOrder' /\ CodesCounted'
  BY <1>2 DEF Inv, CodeInv, CodesInOrder, CodesCounted
<1>5. Superseding'
  BY <1>1, <1>2 DEF Inv, CodeInv, Superseding
<1>6. SessionInv'
  BY <1>1, <1>2, ConsumedKept
<1>7. TypeOK'
  BY <1>1, <1>2 DEF Inv, TypeOK
<1> QED
  BY <1>3, <1>4, <1>5, <1>6, <1>7 DEF Inv, CodeInv

\* A request has inserted its code, with the open ones of the user in its snapshot.
LEMMA InvalidateOpenKeeps ==
    ASSUME Inv, NEW k \in Calls, InvalidateOpen(k)
    PROVE  Inv'
<1>1. /\ call[k].stage = "request" /\ UNCHANGED <<active, entitled, session>>
  BY DEF InvalidateOpen
<1>2. PICK u, n, besides, opens :
        /\ n \in Challenges /\ challenge[n].status = "absent" /\ u = call[k].user
        /\ \A a \in Challenges : a < n => challenge[a].status # "absent"
        /\ besides = {a \in ChallengesOf(u) : challenge[a].status = "pending"}
        /\ opens = OpenChallenges(u)
        /\ challenge' = [challenge EXCEPT
              ![n].status = "pending", ![n].user = u, ![n].beside = besides]
        /\ call' = [call EXCEPT ![k].stage = "invalidate", ![k].row = n, ![k].seen = opens]
  <2>1. PICK n \in Challenges :
          /\ challenge[n].status = "absent"
          /\ \A a \in Challenges : a < n => challenge[a].status # "absent"
          /\ challenge' = [challenge EXCEPT
                ![n].status = "pending", ![n].user = call[k].user,
                ![n].beside = {a \in ChallengesOf(call[k].user) :
                                  challenge[a].status = "pending"}]
          /\ call' = [call EXCEPT ![k].stage = "invalidate", ![k].row = n,
                                  ![k].seen = OpenChallenges(call[k].user)]
    BY DEF InvalidateOpen
  <2>2. PICK u : u = call[k].user
    OBVIOUS
  <2>3. PICK besides : besides = {a \in ChallengesOf(u) : challenge[a].status = "pending"}
    OBVIOUS
  <2>4. PICK opens : opens = OpenChallenges(u)
    OBVIOUS
  <2> QED
    BY <2>1, <2>2, <2>3, <2>4
<1>3. /\ u \in Users /\ call[k] \in Call /\ challenge[n] \in Challenge
      /\ besides \in SUBSET Challenges /\ opens \in SUBSET (Challenges \cup Sessions)
      /\ n \in 0 .. MaxChallenges + MaxSessions
  <2>1. call[k] \in Call /\ challenge[n] \in Challenge
    BY <1>2 DEF Inv, TypeOK
  <2>2. n \in 0 .. MaxChallenges + MaxSessions
    BY <1>2, MaxChallengesAssumption, MaxSessionsAssumption DEF Challenges
  <2> QED
    BY <1>2, <2>1, <2>2 DEF Call, ChallengesOf, OpenChallenges
<1>4. PICK e \in Challenge :
        /\ e.status = "pending" /\ e.user = u /\ e.beside = besides
        /\ e.attempts = challenge[n].attempts /\ e.guesses = challenge[n].guesses
        /\ challenge' = [challenge EXCEPT ![n] = e]
  <2> DEFINE e == [challenge[n] EXCEPT !.status = "pending", !.user = u, !.beside = besides]
  <2>1. e \in Challenge
    BY <1>3 DEF Challenge
  <2>2. /\ e.status = "pending" /\ e.user = u /\ e.beside = besides
        /\ e.attempts = challenge[n].attempts /\ e.guesses = challenge[n].guesses
    BY <1>3 DEF Challenge
  <2>3. challenge' = [challenge EXCEPT ![n] = e]
    BY <1>2
  <2> HIDE DEF e
  <2> QED
    BY <2>1, <2>2, <2>3
<1>5. /\ challenge' \in [Challenges -> Challenge] /\ challenge'[n] = e
      /\ \A a \in Challenges \ {n} : challenge'[a] = challenge[a]
  BY <1>2, <1>4 DEF Inv, TypeOK
<1>6. PICK c \in Call :
        /\ c.stage = "invalidate" /\ c.row = n /\ c.seen = opens
        /\ c.user = u /\ c.held = {}
        /\ call' = [call EXCEPT ![k] = c]
  <2> DEFINE c == [call[k] EXCEPT !.stage = "invalidate", !.row = n, !.seen = opens]
  <2>1. /\ c \in Call /\ c.stage = "invalidate" /\ c.row = n /\ c.seen = opens
        /\ c.user = call[k].user /\ c.held = call[k].held
    BY <1>3 DEF Call, Stages
  <2>2. call' = [call EXCEPT ![k] = c]
    BY <1>2
  <2>3. call[k].held = {}
    BY <1>1 DEF Inv, CallInv, Relies
  <2> HIDE DEF c
  <2> QED
    BY <1>2, <2>1, <2>2, <2>3
<1>7. Goes(k, c)
  BY <1>6 DEF Goes
<1>8. call' \in [Calls -> Call] /\ call'[k] = c /\ \A j \in Calls \ {k} : call'[j] = call[j]
  BY <1>7, CallGoes
<1>9. CallInv'
  <2>1. ASSUME NEW d \in Call, NEW j \in Calls \ {k}, d = call[j]
        PROVE  Relies(d)'
    <3>1. Relies(d)
      BY <2>1 DEF Inv, CallInv
    <3>2. /\ d.stage \in CodeStages => challenge'[d.row].status = "open"
          /\ d.stage = "invalidate" => challenge'[d.row].status = "pending"
      BY <1>2, <1>5, <3>1 DEF Relies
    <3> QED
      BY <1>1, <1>2, <1>5, <3>1, <3>2, CodesServe
  <2>2. Relies(c)'
    <3>1. \A a \in opens : /\ a \in Challenges /\ a # n /\ challenge[a].user = u
                           /\ challenge[a].status = "open"
      BY <1>2 DEF OpenChallenges, ChallengesOf
    <3>2. \A a \in c.seen \cup c.held :
            /\ a \in Challenges /\ challenge'[a].user = c.user
            /\ challenge'[a].status \notin {"absent", "pending"}
      BY <1>5, <1>6, <3>1
    <3> QED
      BY <1>2, <1>4, <1>5, <1>6, <3>2 DEF Relies, CodeStages, SessionStages, OnSessions
  <2>3. \A j \in Calls \ {k} : ~Clash(c, call[j])
    BY <1>2, <1>6 DEF Inv, CallInv, Relies, Clash, CodeStages, SessionStages, OnCodes, OnSessions
  <2> QED
    BY <1>7, <2>1, <2>2, <2>3, CallsServed
<1>10. CodesInOrder'
  BY <1>2, <1>4, <1>5 DEF Inv, CodeInv, CodesInOrder
<1>11. CodesCounted'
  BY <1>2, <1>4, <1>5 DEF Inv, CodeInv, CodesCounted
<1>12. Superseding'
  <2> SUFFICES ASSUME NEW a \in Challenges, NEW b \in Challenges,
                      a < b, challenge'[a].user = challenge'[b].user,
                      challenge'[b].status \notin {"absent", "dropped"}
               PROVE  /\ challenge'[a].status = "pending" => a \in challenge'[b].beside
                      /\ challenge'[a].status = "open" /\ a \notin challenge'[b].beside =>
                            \E j \in Calls : /\ call'[j].stage = "invalidate"
                                             /\ call'[j].row = b /\ a \in call'[j].seen
    BY DEF Superseding
  <2>1. CASE b = n
    <3>1. challenge'[a] = challenge[a] /\ challenge[a].user = u
      BY <1>4, <1>5, <2>1 DEF Challenges
    <3>2. challenge[a].status = "pending" => a \in besides
      BY <1>2, <3>1 DEF ChallengesOf
    <3>3. challenge[a].status = "open" => a \in opens
      BY <1>2, <3>1 DEF OpenChallenges, ChallengesOf
    <3> QED
      BY <1>4, <1>5, <1>6, <1>8, <2>1, <3>1, <3>2, <3>3
  <2>2. CASE b # n
    <3>1. a # n
      BY <1>2, <1>5, <2>2 DEF Inv, CodeInv, CodesInOrder
    <3>2. /\ challenge[a].status = "pending" => a \in challenge[b].beside
          /\ challenge[a].status = "open" /\ a \notin challenge[b].beside =>
                \E j \in Calls : /\ call[j].stage = "invalidate"
                                 /\ call[j].row = b /\ a \in call[j].seen
      BY <1>5, <2>2, <3>1 DEF Inv, CodeInv, Superseding
    <3> QED
      BY <1>1, <1>5, <1>8, <2>2, <3>1, <3>2
  <2> QED
    BY <2>1, <2>2
<1>13. SessionInv'
  BY <1>1, <1>2, <1>5, ConsumedKept
<1>14. TypeOK'
  BY <1>1, <1>5, <1>8 DEF Inv, TypeOK
<1> QED
  BY <1>9, <1>10, <1>11, <1>12, <1>13, <1>14 DEF Inv, CodeInv

\* A request commits its code and closes those of its snapshot that are open, or is
\* rolled back: its code leaves "pending", and the others' codes only close.
Settles(k, n) ==
    /\ call[k].stage = "invalidate" /\ call[k].row = n
    /\ challenge' \in [Challenges -> Challenge]
    /\ \A c \in Challenges :
          /\ challenge'[c].user = challenge[c].user
          /\ challenge'[c].beside = challenge[c].beside
          /\ challenge'[c].attempts = challenge[c].attempts
          /\ challenge'[c].guesses = challenge[c].guesses
    /\ challenge'[n].status \in {"open", "dropped"}
    /\ \A c \in Challenges \ {n} :
          \/ challenge'[c].status = challenge[c].status
          \/ challenge[c].status = "open" /\ challenge'[c].status = "invalidated"
    /\ challenge'[n].status = "open" => \A c \in (call[k].seen \cap Challenges) \ {n} :
          /\ \A j \in Calls \ {k} : ~HoldsChallenge(j, c)
          /\ challenge'[c].status # "open"
    /\ challenge'[n].status = "dropped" => \A c \in Challenges \ {n} :
          challenge'[c].status = challenge[c].status
    /\ \A c \in Challenges \ call[k].seen :
          c # n => challenge'[c].status = challenge[c].status

LEMMA SettlingKeeps ==
    ASSUME Inv, NEW k \in Calls, NEW n, Settles(k, n), Finish(k),
           UNCHANGED <<active, entitled, session>>
    PROVE  Inv'
<1>1. /\ call[k].stage = "invalidate" /\ call[k].row = n
      /\ n \in Challenges /\ challenge[n].status = "pending"
      /\ challenge[n].attempts = 0 /\ challenge[n].guesses = 0
  BY DEF Settles, Inv, CallInv, Relies, CodeInv, CodesCounted
<1>2. PICK c : Goes(k, c) /\ c.stage = "idle" /\ Relies(c)' /\ \A j \in Calls : ~Clash(c, call[j])
  BY FinishGoes
<1>3. call' \in [Calls -> Call] /\ call'[k] = c /\ \A j \in Calls \ {k} : call'[j] = call[j]
  BY <1>2, CallGoes
<1>4. \A j \in Calls \ {k} : call[j].stage = "invalidate" => call[j].row # n
  BY <1>1 DEF Inv, CallInv, LocksExclude, Clash
<1>5. CallInv'
  <2>1. ASSUME NEW d \in Call, NEW j \in Calls \ {k}, d = call[j]
        PROVE  Relies(d)'
    <3>1. Relies(d)
      BY <2>1 DEF Inv, CallInv
    <3>2. d.stage \in CodeStages => challenge'[d.row].status = "open"
      <4> SUFFICES ASSUME d.stage \in CodeStages
                   PROVE  challenge'[d.row].status = "open"
        OBVIOUS
      <4>1. d.row \in Challenges /\ d.row # n /\ challenge[d.row].status = "open"
        BY <1>1, <3>1 DEF Relies
      <4>2. HoldsChallenge(j, d.row)
        BY <2>1, <3>1 DEF HoldsChallenge, Relies, CodeStages, OnCodes
      <4> QED
        BY <4>1, <4>2 DEF Settles
    <3>3. d.stage = "invalidate" => challenge'[d.row].status = "pending"
      BY <1>4, <2>1, <3>1 DEF Relies, Settles
    <3>4. \A a \in Challenges : challenge[a].status \notin {"absent", "pending"} =>
               /\ challenge'[a].status \notin {"absent", "pending"}
               /\ challenge'[a].user = challenge[a].user
      BY <1>1 DEF Settles
    <3>5. \A a \in Challenges : challenge[a].status = "consumed" =>
               challenge'[a].status = "consumed"
      BY <1>1 DEF Settles
    <3> QED
      BY <3>1, <3>2, <3>3, <3>4, <3>5, CodesServe
  <2> QED
    BY <1>2, <2>1, CallsServed
<1>6. CodesInOrder'
  BY <1>1 DEF Settles, Inv, CodeInv, CodesInOrder
<1>7. CodesCounted'
  BY <1>1, MaxAttemptsAssumption DEF Settles, Inv, CodeInv, CodesCounted
<1>8. Superseding'
  <2> SUFFICES ASSUME NEW a \in Challenges, NEW b \in Challenges,
                      a < b, challenge'[a].user = challenge'[b].user,
                      challenge'[b].status \notin {"absent", "dropped"}
               PROVE  /\ challenge'[a].status = "pending" => a \in challenge'[b].beside
                      /\ challenge'[a].status = "open" /\ a \notin challenge'[b].beside =>
                            \E j \in Calls : /\ call'[j].stage = "invalidate"
                                             /\ call'[j].row = b /\ a \in call'[j].seen
    BY DEF Superseding
  <2>1. /\ challenge[a].user = challenge[b].user /\ challenge'[b].beside = challenge[b].beside
        /\ challenge[b].status \notin {"absent", "dropped"}
        /\ challenge'[a].status = "pending" => challenge[a].status = "pending"
        /\ challenge'[a].status = "open" /\ a # n => challenge[a].status = "open"
    BY <1>1 DEF Settles
  <2>2. /\ challenge[a].status = "pending" => a \in challenge[b].beside
        /\ challenge[a].status = "open" /\ a \notin challenge[b].beside =>
              \E j \in Calls : /\ call[j].stage = "invalidate"
                               /\ call[j].row = b /\ a \in call[j].seen
    BY <2>1 DEF Inv, CodeInv, Superseding
  <2>3. ASSUME challenge'[a].status = "open", a \notin challenge'[b].beside
        PROVE  \E j \in Calls : /\ call'[j].stage = "invalidate"
                                /\ call'[j].row = b /\ a \in call'[j].seen
    <3>1. a # n
      BY <1>1, <2>1, <2>2, <2>3
    <3>2. PICK j \in Calls : /\ call[j].stage = "invalidate"
                             /\ call[j].row = b /\ a \in call[j].seen
      BY <2>1, <2>2, <2>3, <3>1
    <3>3. ASSUME j = k PROVE FALSE
      <4>1. b = n /\ a \in call[k].seen
        BY <1>1, <3>2, <3>3
      <4>2. challenge'[n].status = "open"
        BY <4>1 DEF Settles
      <4> QED
        BY <2>3, <3>1, <4>1, <4>2 DEF Settles
    <3> QED
      BY <1>3, <3>2, <3>3
  <2> QED
    BY <2>1, <2>2, <2>3
<1>9. SessionInv'
  <2>1. \A a \in Challenges : challenge[a].status = "consumed" =>
             /\ challenge'[a].status = "consumed"
             /\ challenge'[a].user = challenge[a].user
    BY <1>1 DEF Settles
  <2> QED
    BY <2>1, ConsumedKept
<1>10. TypeOK'
  BY <1>3 DEF Settles, Inv, TypeOK
<1> QED
  BY <1>5, <1>6, <1>7, <1>8, <1>9, <1>10 DEF Inv, CodeInv

LEMMA CommitRequestKeeps ==
    ASSUME Inv, NEW k \in Calls, CommitRequest(k)
    PROVE  Inv'
<1>1. call[k].stage = "invalidate" /\ Finish(k) /\ UNCHANGED <<active, entitled, session>>
  BY DEF CommitRequest, MayCommitRequest
<1>2. PICK n \in Challenges : n = call[k].row /\ challenge[n].status = "pending"
  BY <1>1 DEF Inv, CallInv, Relies
<1>3. ASSUME NEW c \in Challenges
      PROVE  /\ challenge'[c] \in Challenge
             /\ challenge'[c].user = challenge[c].user
             /\ challenge'[c].beside = challenge[c].beside
             /\ challenge'[c].attempts = challenge[c].attempts
             /\ challenge'[c].guesses = challenge[c].guesses
             /\ challenge'[c].status =
                   IF c = n THEN "open"
                   ELSE IF c \in call[k].seen /\ challenge[c].status = "open" THEN "invalidated"
                   ELSE challenge[c].status
  <2>1. challenge[c] \in Challenge
    BY DEF Inv, TypeOK
  <2>2. CASE c = n
    <3>1. challenge'[c] = [challenge[c] EXCEPT !.status = "open"]
      BY <1>2, <2>2 DEF CommitRequest, MayCommitRequest
    <3> QED
      BY <2>1, <2>2, <3>1 DEF Challenge
  <2>3. CASE c # n /\ c \in call[k].seen /\ challenge[c].status = "open"
    <3>1. challenge'[c] = [challenge[c] EXCEPT !.status = "invalidated"]
      BY <1>2, <2>3 DEF CommitRequest, MayCommitRequest
    <3> QED
      BY <2>1, <2>3, <3>1 DEF Challenge
  <2>4. CASE c # n /\ ~(c \in call[k].seen /\ challenge[c].status = "open")
    <3>1. challenge'[c] = challenge[c]
      BY <1>2, <2>4 DEF CommitRequest, MayCommitRequest
    <3> QED
      BY <2>1, <2>4, <3>1
  <2> QED
    BY <2>2, <2>3, <2>4
<1>4. challenge' \in [Challenges -> Challenge]
  BY <1>3 DEF CommitRequest, MayCommitRequest
<1>5. ASSUME NEW c \in call[k].seen, NEW j \in Calls \ {k}
      PROVE  ~HoldsChallenge(j, c)
  <2>1. c \in call[k].held
    BY DEF CommitRequest, MayCommitRequest, ToLock
  <2>2. ~Clash(call[k], call[j])
    BY DEF Inv, CallInv, LocksExclude
  <2> QED
    BY <1>1, <2>1, <2>2 DEF Clash, HoldsChallenge, OnCodes
<1>6. Settles(k, n)
  BY <1>1, <1>2, <1>3, <1>4, <1>5 DEF Settles
<1> QED
  BY <1>1, <1>6, SettlingKeeps

LEMMA AbortedRequestKeeps ==
    ASSUME Inv, NEW k \in Calls, Abort(k), call[k].stage = "invalidate"
    PROVE  Inv'
<1>1. Finish(k) /\ UNCHANGED <<active, entitled, session>>
  BY DEF Abort
<1>2. PICK n \in Challenges : n = call[k].row
  BY DEF Inv, CallInv, Relies
<1>3. challenge' = [challenge EXCEPT ![n].status = "dropped"]
  BY <1>2 DEF Abort
<1>4. challenge[n] \in Challenge
  BY DEF Inv, TypeOK
<1>5. PICK e \in Challenge :
        /\ e.status = "dropped" /\ e.user = challenge[n].user /\ e.beside = challenge[n].beside
        /\ e.attempts = challenge[n].attempts /\ e.guesses = challenge[n].guesses
        /\ e = [challenge[n] EXCEPT !.status = "dropped"]
  BY <1>4 DEF Challenge
<1>6. Settles(k, n)
  BY <1>2, <1>3, <1>5 DEF Settles, Inv, TypeOK
<1> QED
  BY <1>1, <1>6, SettlingKeeps

(*************************************************************************)
(* Every step keeps the invariant                                        *)
(*************************************************************************)

LEMMA ProceedKeeps ==
    ASSUME Inv, NEW k \in Calls, Proceed(k) \/ Abort(k)
    PROVE  Inv'
<1>1. CASE Proceed(k)
  BY <1>1, InvalidateOpenKeeps, LockingKeeps, CommitRequestKeeps, LockChallengeKeeps,
     QuietKeeps, NoLoginKeeps, ChecksKeep, CommitLoginKeeps, AnswerKeeps, CompensateKeeps,
     CommitRotationKeeps, RevokeSeenKeeps
  DEF Proceed
<1>2. CASE Abort(k)
  BY <1>2, QuietKeeps, AbortedRequestKeeps
<1> QED
  BY <1>1, <1>2

LEMMA StepInv == Inv /\ [Next]_vars => Inv'
<1> SUFFICES ASSUME Inv, Next PROVE Inv'
  BY StutterKeeps
<1>1. CASE \E k \in Calls : Proceed(k) \/ Abort(k)
  BY <1>1, ProceedKeeps
<1>2. CASE \E k \in Calls, u \in Users :
              AdmitRequest(k, u) \/ BeginVerify(k, u) \/ DeactivateUser(k, u)
  BY <1>2, BeginningsKeep
<1>3. CASE \E k \in Calls, s \in Sessions :
              LockSession(k, s) \/ RefuseRotation(k, s) \/ DetectReuse(k, s) \/ Logout(k, s)
  BY <1>3, HoldKeeps, EndsSessionKeeps
<1>4. CASE \E c \in Challenges : ExpireChallenge(c)
  BY <1>4, ExpireChallengeKeeps
<1>5. CASE \E s \in Sessions : ExpireSession(s)
  BY <1>5, ExpireSessionKeeps
<1>6. CASE \E u \in Users : MembershipChanges(u)
  BY <1>6, MembershipChangesKeeps
<1> QED
  BY <1>1, <1>2, <1>3, <1>4, <1>5, <1>6 DEF Next

\* The invariant holds in every reachable state: the row locks of PostgreSQL
\* exclude each other, and what a call holds stays as it read it (verifyOtp, rotate,
\* requestOtp).
THEOREM InvHolds == Spec => []Inv
<1> QED
  BY InitInv, StepInv, PTL DEF Spec

(*************************************************************************)
(* What follows from it                                                  *)
(*************************************************************************)

\* Every row and every call has its type.
THEOREM TypeCorrect == Spec => []TypeOK
<1>1. Inv => TypeOK
  BY DEF Inv
<1> QED
  BY <1>1, InvHolds, PTL

\* A code is compared at most MaxAttempts times, and is closed by the last of them
\* (incrementAttemptAndMaybeInvalidate).
THEOREM Attempts == Spec => []AttemptsBounded
<1>1. Inv => AttemptsBounded
  BY DEF Inv, CodeInv, CodesCounted, AttemptsBounded
<1> QED
  BY <1>1, InvHolds, PTL

\* A committed code leaves no older one of its user open, except those of requests
\* that had not committed when it looked for open codes (invalidateOpen).
THEOREM Superseded == Spec => []SupersededUnlessOverlapping
<1>1. Inv => SupersededUnlessOverlapping
  <2> SUFFICES ASSUME Inv, NEW c \in Challenges, NEW d \in Challenges,
                      c < d, challenge[c].user = challenge[d].user,
                      challenge[c].status = "open",
                      challenge[d].status \in {"open", "consumed", "invalidated"}
               PROVE  c \in challenge[d].beside
    BY DEF SupersededUnlessOverlapping
  <2>1. \A k \in Calls : call[k].stage = "invalidate" /\ call[k].row = d =>
           challenge[d].status = "pending"
    BY DEF Inv, CallInv, Relies
  <2> QED
    BY <2>1 DEF Inv, CodeInv, Superseding
<1> QED
  BY <1>1, InvHolds, PTL

(*************************************************************************)
(* What a step does to codes and sessions                                *)
(*************************************************************************)

Standing(status) ==
    CASE status \in {"absent", "pending", "dropped"} -> "none"
      [] status = "open" -> "open"
      [] OTHER -> "closed"

\* A code belongs to one user from its request on.
UsersFixed ==
    \A c \in Challenges :
        challenge[c].status # "absent" => challenge'[c].user = challenge[c].user

SameCodes ==
    \A c \in Challenges : Standing(challenge'[c].status) = Standing(challenge[c].status)

\* n opens, and others may close with it.
Opens(n) ==
    /\ n \in Challenges
    /\ Standing(challenge[n].status) = "none" /\ Standing(challenge'[n].status) = "open"
    /\ \A c \in Challenges \ {n} :
          \/ Standing(challenge'[c].status) = Standing(challenge[c].status)
          \/ /\ Standing(challenge[c].status) = "open"
             /\ Standing(challenge'[c].status) = "closed"

Closes(d) ==
    /\ d \in Challenges
    /\ Standing(challenge[d].status) = "open" /\ Standing(challenge'[d].status) = "closed"
    /\ \A c \in Challenges \ {d} :
          Standing(challenge'[c].status) = Standing(challenge[c].status)

\* Those of "ended" are revoked, those of "new" are created.
Changes(new, ended) ==
    /\ \A s \in new : s \in Sessions /\ session[s].status = "absent" /\ session'[s].status = "live"
    /\ \A s \in Sessions \ new :
          /\ session'[s].origin = session[s].origin
          /\ Unrevoked(s)' <=> Unrevoked(s) /\ s \notin ended
          /\ session'[s].status = "revoked" <=>
                session[s].status = "revoked" \/ (Unrevoked(s) /\ s \in ended)

\* Call k logs in with code d, or exchanges session p, and gets session s.
LogsIn(k, d, s) ==
    /\ CommitLogin(k) /\ d = call[k].row
    /\ Closes(d) /\ Changes({s}, {}) /\ session'[s].origin = d
Exchanges(k, p, s) ==
    /\ CommitRotation(k) /\ p = call[k].row /\ p \in Sessions /\ Unrevoked(p)
    /\ SameCodes /\ Changes({s}, {p}) /\ session'[s].origin = session[p].origin

RowsStep ==
    \/ \E ended : SameCodes /\ Changes({}, ended)
    \/ \E n : Opens(n) /\ Changes({}, {})
    \/ \E d : Closes(d) /\ Changes({}, {})
    \/ \E k \in Calls : \E d, s : LogsIn(k, d, s)
    \/ \E k \in Calls : \E p, s : Exchanges(k, p, s)

LEMMA RowsUnchanged ==
    ASSUME challenge' = challenge, session' = session
    PROVE  UsersFixed /\ RowsStep
<1>1. SameCodes /\ Changes({}, {})
  BY DEF SameCodes, Changes, Unrevoked
<1> QED
  BY <1>1 DEF UsersFixed, RowsStep

LEMMA RevokingRows ==
    ASSUME Inv, NEW S, Revokes(S), challenge' = challenge
    PROVE  UsersFixed /\ RowsStep
<1>1. SameCodes /\ Changes({}, S)
  BY RowsRevoked DEF SameCodes, Changes, Unrevoked
<1> QED
  BY <1>1 DEF UsersFixed, RowsStep

\* One session is revoked.
LEMMA RevokeOne ==
    ASSUME Inv, NEW r \in Sessions, session[r].status # "absent",
           session' = [session EXCEPT ![r].status = "revoked"]
    PROVE  Revokes({r})
<1>1. session[r] \in Session
  BY DEF Inv, TypeOK
<1>2. ~Unrevoked(r) => session[r].status = "revoked"
  BY <1>1 DEF Unrevoked, Session
<1>3. ASSUME session[r].status = "revoked"
      PROVE  [session[r] EXCEPT !.status = "revoked"] = session[r]
  BY <1>1, <1>3 DEF Session
<1> QED
  BY <1>2, <1>3 DEF Revokes, Inv, TypeOK

LEMMA EndingRows ==
    ASSUME Inv, NEW k \in Calls,
           \/ \E s \in Sessions : RefuseRotation(k, s) \/ Logout(k, s)
           \/ Compensate(k)
           \/ CommitReuse(k) \/ CommitDeactivation(k)
    PROVE  UsersFixed /\ RowsStep
<1>1. challenge' = challenge
  BY DEF RefuseRotation, Logout, Compensate, CommitReuse, CommitDeactivation, RevokeSeen,
      MayRevokeSeen
<1>2. CASE \E s \in Sessions : RefuseRotation(k, s) \/ Logout(k, s)
  <2>1. PICK s \in Sessions : /\ session[s].status # "absent"
                              /\ session' = [session EXCEPT ![s].status = "revoked"]
    BY <1>2 DEF RefuseRotation, Logout, Unrevoked
  <2> QED
    BY <1>1, <2>1, RevokeOne, RevokingRows
<1>3. CASE Compensate(k)
  <2>1. PICK s \in Sessions : /\ session[s].status # "absent"
                              /\ session' = [session EXCEPT ![s].status = "revoked"]
    BY <1>3 DEF Compensate, Inv, CallInv, Relies
  <2> QED
    BY <1>1, <2>1, RevokeOne, RevokingRows
<1>4. CASE CommitReuse(k) \/ CommitDeactivation(k)
  <2>1. Revokes(call[k].seen)
    BY <1>4 DEF CommitReuse, CommitDeactivation, RevokeSeen, MayRevokeSeen, Revokes
  <2> QED
    BY <1>1, <2>1, RevokingRows
<1> QED
  BY <1>2, <1>3, <1>4

LEMMA MarkingRows ==
    ASSUME Inv,
           \/ \E k \in Calls : Answer(k)
           \/ \E s \in Sessions : ExpireSession(s)
           \/ \E c \in Challenges : ExpireChallenge(c)
    PROVE  UsersFixed /\ RowsStep
<1>1. CASE \E k \in Calls : Answer(k)
  <2>1. PICK r \in Sessions : session' = [session EXCEPT ![r].known = TRUE]
    BY <1>1 DEF Answer, Inv, CallInv, Relies
  <2>2. session[r] \in Session
    BY DEF Inv, TypeOK
  <2>3. Changes({}, {})
    BY <2>1, <2>2 DEF Changes, Unrevoked, Inv, TypeOK, Session
  <2>4. UsersFixed /\ SameCodes
    BY <1>1 DEF Answer, UsersFixed, SameCodes
  <2> QED
    BY <2>3, <2>4 DEF RowsStep
<1>2. CASE \E s \in Sessions : ExpireSession(s)
  <2>1. PICK r \in Sessions : /\ session[r].status = "live"
                              /\ session' = [session EXCEPT ![r].status = "expired"]
    BY <1>2 DEF ExpireSession
  <2>2. session[r] \in Session
    BY DEF Inv, TypeOK
  <2>3. Changes({}, {})
    BY <2>1, <2>2 DEF Changes, Unrevoked, Inv, TypeOK, Session
  <2>4. UsersFixed /\ SameCodes
    BY <1>2 DEF ExpireSession, UsersFixed, SameCodes
  <2> QED
    BY <2>3, <2>4 DEF RowsStep
<1>3. CASE \E c \in Challenges : ExpireChallenge(c)
  <2>1. PICK c \in Challenges : challenge' = [challenge EXCEPT ![c].expired = TRUE]
    BY <1>3 DEF ExpireChallenge
  <2>2. challenge[c] \in Challenge
    BY DEF Inv, TypeOK
  <2>3. UsersFixed /\ SameCodes
    BY <2>1, <2>2 DEF UsersFixed, SameCodes, Inv, TypeOK, Challenge
  <2>4. Changes({}, {})
    BY <1>3 DEF ExpireChallenge, Changes, Unrevoked
  <2> QED
    BY <2>3, <2>4 DEF RowsStep
<1> QED
  BY <1>1, <1>2, <1>3

LEMMA RequestRows ==
    ASSUME Inv, NEW k \in Calls,
           \/ InvalidateOpen(k)
           \/ CommitRequest(k)
           \/ Abort(k)
    PROVE  UsersFixed /\ RowsStep
<1>1. session' = session
  BY DEF InvalidateOpen, CommitRequest, MayCommitRequest, Abort
<1>2. Changes({}, {})
  BY <1>1 DEF Changes, Unrevoked
<1>3. CASE InvalidateOpen(k)
  <2>1. PICK n, u, besides :
          /\ n \in Challenges /\ challenge[n].status = "absent"
          /\ challenge' = [challenge EXCEPT
                ![n].status = "pending", ![n].user = u, ![n].beside = besides]
    <3>1. PICK n \in Challenges :
            /\ challenge[n].status = "absent"
            /\ challenge' = [challenge EXCEPT
                  ![n].status = "pending", ![n].user = call[k].user,
                  ![n].beside = {d \in ChallengesOf(call[k].user) :
                                    challenge[d].status = "pending"}]
      BY <1>3 DEF InvalidateOpen
    <3> QED
      BY <3>1
  <2>2. challenge[n] \in Challenge
    BY <2>1 DEF Inv, TypeOK
  <2>3. challenge'[n].status = "pending" /\ \A c \in Challenges \ {n} : challenge'[c] = challenge[c]
    BY <2>1, <2>2 DEF Inv, TypeOK, Challenge
  <2>4. UsersFixed /\ SameCodes
    BY <2>1, <2>3 DEF UsersFixed, SameCodes, Standing
  <2> QED
    BY <1>2, <2>4 DEF RowsStep
<1>4. CASE CommitRequest(k)
  <2>1. PICK n \in Challenges : n = call[k].row /\ challenge[n].status = "pending"
    BY <1>4 DEF CommitRequest, MayCommitRequest, Inv, CallInv, Relies
  <2>2. ASSUME NEW c \in Challenges
        PROVE  /\ challenge'[c].user = challenge[c].user
               /\ c = n => challenge'[c].status = "open"
               /\ c # n => \/ challenge'[c].status = challenge[c].status
                           \/ challenge[c].status = "open" /\ challenge'[c].status = "invalidated"
    <3>1. challenge[c] \in Challenge
      BY DEF Inv, TypeOK
    <3>2. CASE c = n
      <4>1. challenge'[c] = [challenge[c] EXCEPT !.status = "open"]
        BY <1>4, <2>1, <3>2 DEF CommitRequest, MayCommitRequest
      <4> QED
        BY <3>1, <3>2, <4>1 DEF Challenge
    <3>3. CASE c # n /\ c \in call[k].seen /\ challenge[c].status = "open"
      <4>1. challenge'[c] = [challenge[c] EXCEPT !.status = "invalidated"]
        BY <1>4, <2>1, <3>3 DEF CommitRequest, MayCommitRequest
      <4> QED
        BY <3>1, <3>3, <4>1 DEF Challenge
    <3>4. CASE c # n /\ ~(c \in call[k].seen /\ challenge[c].status = "open")
      BY <1>4, <2>1, <3>4 DEF CommitRequest, MayCommitRequest
    <3> QED
      BY <3>2, <3>3, <3>4
  <2>3. UsersFixed /\ Opens(n)
    BY <2>1, <2>2 DEF UsersFixed, Opens, Standing
  <2> QED
    BY <1>2, <2>3 DEF RowsStep
<1>5. CASE Abort(k)
  <2>1. CASE call[k].stage = "invalidate"
    <3>1. PICK n \in Challenges : /\ challenge[n].status = "pending"
                                  /\ challenge' = [challenge EXCEPT ![n].status = "dropped"]
      BY <1>5, <2>1 DEF Abort, Inv, CallInv, Relies
    <3>2. challenge[n] \in Challenge
      BY DEF Inv, TypeOK
    <3>3. /\ challenge'[n].status = "dropped" /\ challenge'[n].user = challenge[n].user
          /\ \A c \in Challenges \ {n} : challenge'[c] = challenge[c]
      BY <3>1, <3>2 DEF Inv, TypeOK, Challenge
    <3>4. UsersFixed /\ SameCodes
      BY <3>1, <3>3 DEF UsersFixed, SameCodes, Standing
    <3> QED
      BY <1>2, <3>4 DEF RowsStep
  <2>2. CASE call[k].stage # "invalidate"
    BY <1>1, <1>5, <2>2, RowsUnchanged DEF Abort
  <2> QED
    BY <2>1, <2>2
<1> QED
  BY <1>3, <1>4, <1>5

\* A compared code keeps its user, and closes unless comparisons are left.
LEMMA UsedRow ==
    ASSUME Inv, NEW k \in Calls, NEW d, NEW e \in Challenge, Used(k, d, e)
    PROVE  /\ d \in Challenges /\ UsersFixed
           /\ e.status = "open" => SameCodes
           /\ e.status # "open" => Closes(d)
<1>1. d \in Challenges /\ challenge[d].status = "open"
  BY HeldCode DEF Used
<1>2. /\ challenge'[d] = e /\ e.user = challenge[d].user
      /\ e.status \in {"open", "consumed", "invalidated"}
      /\ \A c \in Challenges \ {d} : challenge'[c] = challenge[c]
  BY <1>1 DEF Used, Inv, TypeOK
<1> QED
  BY <1>1, <1>2 DEF UsersFixed, SameCodes, Closes, Standing

LEMMA NoLoginRows ==
    ASSUME Inv, NEW k \in Calls, CountWrongCode(k) \/ RefuseLogin(k)
    PROVE  UsersFixed /\ RowsStep
<1>1. Changes({}, {})
  BY DEF CountWrongCode, RefuseLogin, Changes, Unrevoked
<1>2. PICK d, e : e \in Challenge /\ Used(k, d, e)
  <2>1. CASE CountWrongCode(k)
    BY <2>1, CountedCode
  <2>2. CASE RefuseLogin(k)
    BY <2>2, ConsumedCode DEF RefuseLogin, CodeStages
  <2> QED
    BY <2>1, <2>2
<1> QED
  BY <1>1, <1>2, UsedRow DEF RowsStep

LEMMA CreatingRows ==
    ASSUME Inv, NEW k \in Calls, CommitLogin(k) \/ CommitRotation(k)
    PROVE  UsersFixed /\ RowsStep
<1>1. CASE CommitLogin(k)
  <2>1. PICK d : d = call[k].row
    OBVIOUS
  <2>2. PICK e \in Challenge : e.status = "consumed" /\ Used(k, d, e)
    BY <1>1, <2>1, ConsumedCode DEF CommitLogin, MayCommitLogin, CodeStages
  <2>3. PICK s \in Sessions : NewSession(s, d, 0)
    BY <1>1, <2>1 DEF CommitLogin, MayCommitLogin
  <2>4. UsersFixed /\ Closes(d) /\ d \in Challenges
    BY <2>2, UsedRow
  <2>5. 0 \notin Sessions
    BY MaxSessionsAssumption DEF Sessions
  <2>6. /\ session[s].status = "absent"
        /\ session'[s].status = "live" /\ session'[s].origin = d
        /\ \A r \in Sessions \ {s} : session'[r] = session[r]
    BY <2>3, <2>4, <2>5, NewSessionRows
  <2>7. Changes({s}, {})
    BY <2>6 DEF Changes, Unrevoked
  <2>8. LogsIn(k, d, s)
    BY <1>1, <2>1, <2>4, <2>6, <2>7 DEF LogsIn
  <2> QED
    BY <2>4, <2>8 DEF RowsStep
<1>2. CASE CommitRotation(k)
  <2>1. PICK p \in Sessions : p = call[k].row /\ Unrevoked(p)
    BY <1>2 DEF CommitRotation, MayCommitRotation, Inv, CallInv, Relies, SessionStages
  <2>2. PICK o \in Challenges : o = session[p].origin /\ session[p].status # "absent"
    BY <2>1 DEF Unrevoked, Inv, SessionInv, SessionsOfCodes
  <2>3. PICK s \in Sessions : NewSession(s, o, p)
    BY <1>2, <2>1, <2>2 DEF CommitRotation, MayCommitRotation
  <2>4. /\ session[s].status = "absent"
        /\ session'[s].status = "live" /\ session'[s].origin = o
    BY <2>2, <2>3, NewSessionRows
  <2>5. \A r \in Sessions \ {s, p} : session'[r] = session[r]
    BY <2>2, <2>3, NewSessionRows
  <2>6. session'[p].status = "revoked" /\ session'[p].origin = session[p].origin
    BY <2>2, <2>3, NewSessionRows
  <2>7. Changes({s}, {p})
    BY <2>1, <2>4, <2>5, <2>6 DEF Changes, Unrevoked
  <2>8. UsersFixed /\ SameCodes
    BY <1>2 DEF CommitRotation, MayCommitRotation, UsersFixed, SameCodes
  <2>9. Exchanges(k, p, s)
    BY <1>2, <2>1, <2>2, <2>4, <2>7, <2>8 DEF Exchanges
  <2> QED
    BY <2>8, <2>9 DEF RowsStep
<1> QED
  BY <1>1, <1>2

\* Every other step leaves the rows as they are.
LEMMA StepRows == Inv /\ [Next]_vars => UsersFixed /\ RowsStep
<1> SUFFICES ASSUME Inv, Next PROVE UsersFixed /\ RowsStep
  BY RowsUnchanged DEF vars
<1>1. CASE \E k \in Calls : Proceed(k) \/ Abort(k)
  <2>1. PICK k \in Calls : Proceed(k) \/ Abort(k)
    BY <1>1
  <2>2. CASE \/ LockOpen(k) \/ LockChallenge(k) \/ PassOver(k) \/ NoChallengeLeft(k)
             \/ FindActiveUser(k) \/ CheckMembership(k) \/ LoseAnswer(k) \/ LockSeen(k)
    BY <2>2, RowsUnchanged
    DEF LockOpen, LockChallenge, PassOver, NoChallengeLeft, FindActiveUser, CheckMembership,
        LoseAnswer, LockSeen
  <2> QED
    BY <2>1, <2>2, RequestRows, NoLoginRows, CreatingRows, MarkingRows, EndingRows DEF Proceed
<1>2. CASE \E k \in Calls, u \in Users :
              AdmitRequest(k, u) \/ BeginVerify(k, u) \/ DeactivateUser(k, u)
  BY <1>2, RowsUnchanged DEF AdmitRequest, BeginVerify, DeactivateUser
<1>3. CASE \E k \in Calls, s \in Sessions :
              LockSession(k, s) \/ RefuseRotation(k, s) \/ DetectReuse(k, s) \/ Logout(k, s)
  BY <1>3, RowsUnchanged, EndingRows DEF LockSession, DetectReuse
<1>4. CASE \E c \in Challenges : ExpireChallenge(c)
  BY <1>4, MarkingRows
<1>5. CASE \E s \in Sessions : ExpireSession(s)
  BY <1>5, MarkingRows
<1>6. CASE \E u \in Users : MembershipChanges(u)
  BY <1>6, RowsUnchanged DEF MembershipChanges
<1> QED
  BY <1>1, <1>2, <1>3, <1>4, <1>5, <1>6 DEF Next

(*************************************************************************)
(* The ways into a deactivated account                                   *)
(*************************************************************************)

LEMMA FewerWays ==
    ASSUME NEW S, NEW T, IsFiniteSet(S), IsFiniteSet(T),
           NEW X, NEW Y, NEW s, NEW k,
           \/ X \subseteq S /\ Y \subseteq T
           \/ X \subseteq S \cup {s} /\ k \in T /\ Y \subseteq T \ {k}
    PROVE  Cardinality(X) + Cardinality(Y) <= Cardinality(S) + Cardinality(T)
<1>1. Cardinality(S) \in Nat /\ Cardinality(T) \in Nat
  BY FS_CardinalityType
<1>2. CASE X \subseteq S /\ Y \subseteq T
  <2>1. /\ IsFiniteSet(X) /\ Cardinality(X) <= Cardinality(S)
        /\ IsFiniteSet(Y) /\ Cardinality(Y) <= Cardinality(T)
    BY <1>2, FS_Subset
  <2>2. Cardinality(X) \in Nat /\ Cardinality(Y) \in Nat
    BY <2>1, FS_CardinalityType
  <2> QED
    BY <1>1, <2>1, <2>2
<1>3. CASE X \subseteq S \cup {s} /\ k \in T /\ Y \subseteq T \ {k}
  <2>1. /\ IsFiniteSet(S \cup {s})
        /\ Cardinality(S \cup {s}) = IF s \in S THEN Cardinality(S) ELSE Cardinality(S) + 1
    BY FS_AddElement
  <2>2. IsFiniteSet(T \ {k}) /\ Cardinality(T \ {k}) = Cardinality(T) - 1
    BY <1>3, FS_RemoveElement
  <2>3. IsFiniteSet(X) /\ Cardinality(X) <= Cardinality(S \cup {s})
    BY <1>3, <2>1, FS_Subset
  <2>4. IsFiniteSet(Y) /\ Cardinality(Y) <= Cardinality(T \ {k})
    BY <1>3, <2>2, FS_Subset
  <2>5. Cardinality(X) \in Nat /\ Cardinality(Y) \in Nat
    BY <2>3, <2>4, FS_CardinalityType
  <2> QED
    BY <1>1, <2>1, <2>2, <2>3, <2>4, <2>5
<1> QED
  BY <1>2, <1>3

\* No call is let in for a user who is inactive.
LEMMA NobodyAdmitted ==
    ASSUME Inv, [Next]_vars, NEW u \in Users, ~active[u]
    PROVE  /\ \A j \in Calls : j \in Admitted(u)' => j \in Admitted(u)
           /\ \A k \in Calls : CommitLogin(k) \/ CommitRotation(k) => k \notin Admitted(u)'
<1> DEFINE In(c) == c.user = u /\ c.stage \in {"active", "admit", "rotate"}
<1>1. ASSUME NEW k \in Calls, NEW c, call' = [call EXCEPT ![k] = c], In(c) => In(call[k])
      PROVE  \A j \in Calls : j \in Admitted(u)' => j \in Admitted(u)
  BY <1>1 DEF Admitted, Inv, TypeOK
<1>2. ASSUME call' = call
      PROVE  \A j \in Calls : j \in Admitted(u)' => j \in Admitted(u)
  BY <1>2 DEF Admitted
<1>3. ASSUME NEW k \in Calls, Finish(k)
      PROVE  \A j \in Calls : j \in Admitted(u)' => j \in Admitted(u)
  <2>1. ~In(Idle(call[k].user))
    BY DEF Idle
  <2> QED
    BY <1>1, <1>3, <2>1 DEF Finish
<1>4. ASSUME NEW k \in Calls, Proceed(k) \/ Abort(k)
      PROVE  \A j \in Calls : j \in Admitted(u)' => j \in Admitted(u)
  <2>0. call[k] \in Call
    BY DEF Inv, TypeOK
  <2>1. CASE \/ CommitRequest(k) \/ NoChallengeLeft(k) \/ CountWrongCode(k)
             \/ RefuseLogin(k) \/ Answer(k) \/ LoseAnswer(k) \/ Compensate(k)
             \/ CommitReuse(k) \/ CommitDeactivation(k) \/ Abort(k)
    BY <1>3, <2>1
    DEF CommitRequest, MayCommitRequest, NoChallengeLeft, CountWrongCode, RefuseLogin,
        Answer, LoseAnswer, Compensate, CommitReuse, CommitDeactivation, RevokeSeen,
        MayRevokeSeen, Abort
  <2>2. CASE InvalidateOpen(k)
    <3>1. PICK n, seen : call' = [call EXCEPT ![k].stage = "invalidate", ![k].row = n,
                                              ![k].seen = seen]
      BY <2>2 DEF InvalidateOpen
    <3>2. call'[k].stage = "invalidate" /\ \A j \in Calls \ {k} : call'[j] = call[j]
      BY <2>0, <3>1 DEF Inv, TypeOK, Call
    <3> QED
      BY <3>2 DEF Admitted
  <2>3. CASE LockChallenge(k)
    <3>1. PICK n, none, held :
            call' = [call EXCEPT ![k].stage = "check", ![k].row = n,
                                 ![k].seen = none, ![k].held = held]
      BY <2>3 DEF LockChallenge
    <3>2. call'[k].stage = "check" /\ \A j \in Calls \ {k} : call'[j] = call[j]
      BY <2>0, <3>1 DEF Inv, TypeOK, Call
    <3> QED
      BY <3>2 DEF Admitted
  <2>4. CASE FindActiveUser(k)
    <3>1. call'[k].user = call[k].user /\ \A j \in Calls \ {k} : call'[j] = call[j]
      BY <2>0, <2>4 DEF FindActiveUser, Inv, TypeOK, Call
    <3>2. call[k].user # u
      BY <2>4 DEF FindActiveUser
    <3> QED
      BY <3>1, <3>2 DEF Admitted
  <2>5. CASE CheckMembership(k)
    <3>1. /\ call'[k].user = call[k].user /\ \A j \in Calls \ {k} : call'[j] = call[j]
          /\ call[k].stage = "active"
      BY <2>0, <2>5 DEF CheckMembership, Inv, TypeOK, Call
    <3> QED
      BY <3>1 DEF Admitted
  <2>6. CASE CommitLogin(k) \/ CommitRotation(k)
    <3>1. PICK n : Sign(k, n)
      BY <2>6 DEF CommitLogin, CommitRotation
    <3>2. call'[k].stage = "sign" /\ \A j \in Calls \ {k} : call'[j] = call[j]
      BY <3>1 DEF Sign, Idle, Inv, TypeOK
    <3> QED
      BY <3>2 DEF Admitted
  <2>7. CASE LockOpen(k) \/ PassOver(k) \/ LockSeen(k)
    <3>1. PICK n : Lock(k, n)
      BY <2>7 DEF LockOpen, PassOver, LockSeen
    <3>2. PICK held : call' = [call EXCEPT ![k].held = held]
      BY <3>1 DEF Lock
    <3>3. /\ call'[k].user = call[k].user /\ call'[k].stage = call[k].stage
          /\ \A j \in Calls \ {k} : call'[j] = call[j]
      BY <2>0, <3>2 DEF Inv, TypeOK, Call
    <3> QED
      BY <3>3 DEF Admitted
  <2> QED
    BY <1>4, <2>1, <2>2, <2>3, <2>4, <2>5, <2>6, <2>7 DEF Proceed
<1>5. ASSUME NEW k \in Calls, NEW v \in Users,
             AdmitRequest(k, v) \/ BeginVerify(k, v) \/ DeactivateUser(k, v)
      PROVE  \A j \in Calls : j \in Admitted(u)' => j \in Admitted(u)
  <2>1. CASE AdmitRequest(k, v)
    <3>1. call' = [call EXCEPT ![k] = [Idle(v) EXCEPT !.stage = "request"]]
      BY <2>1 DEF AdmitRequest
    <3>2. [Idle(v) EXCEPT !.stage = "request"].stage = "request"
      BY DEF Idle
    <3> QED
      BY <1>1, <3>1, <3>2
  <2>2. CASE BeginVerify(k, v)
    <3>1. PICK found : call' = [call EXCEPT ![k] =
                                   [Idle(v) EXCEPT !.stage = "verify", !.seen = found]]
      BY <2>2 DEF BeginVerify
    <3>2. [Idle(v) EXCEPT !.stage = "verify", !.seen = found].stage = "verify"
      BY DEF Idle
    <3> QED
      BY <1>1, <3>1, <3>2
  <2>3. CASE DeactivateUser(k, v)
    <3>1. PICK all : call' = [call EXCEPT ![k] =
                                 [Idle(v) EXCEPT !.stage = "deactivate", !.seen = all]]
      BY <2>3 DEF DeactivateUser
    <3>2. [Idle(v) EXCEPT !.stage = "deactivate", !.seen = all].stage = "deactivate"
      BY DEF Idle
    <3> QED
      BY <1>1, <3>1, <3>2
  <2> QED
    BY <1>5, <2>1, <2>2, <2>3
<1>6. ASSUME NEW k \in Calls, NEW s \in Sessions,
             LockSession(k, s) \/ RefuseRotation(k, s) \/ DetectReuse(k, s) \/ Logout(k, s)
      PROVE  \A j \in Calls : j \in Admitted(u)' => j \in Admitted(u)
  <2>1. CASE RefuseRotation(k, s) \/ Logout(k, s)
    BY <1>2, <2>1 DEF RefuseRotation, Logout
  <2>2. CASE LockSession(k, s)
    <3>1. /\ call' = [call EXCEPT ![k] = [Idle(UserOf(s)) EXCEPT
                        !.stage = "rotate", !.row = s, !.seen = {}, !.held = {s}]]
          /\ active[UserOf(s)]
      BY <2>2 DEF LockSession, Hold
    <3>2. [Idle(UserOf(s)) EXCEPT !.stage = "rotate", !.row = s, !.seen = {},
                                  !.held = {s}].user = UserOf(s)
      BY DEF Idle
    <3> QED
      BY <1>1, <3>1, <3>2
  <2>3. CASE DetectReuse(k, s)
    <3>1. PICK v, all : call' = [call EXCEPT ![k] = [Idle(v) EXCEPT
                                    !.stage = "reuse", !.row = s, !.seen = all,
                                    !.held = {s}]]
      BY <2>3 DEF DetectReuse, Hold
    <3>2. [Idle(v) EXCEPT !.stage = "reuse", !.row = s, !.seen = all,
                          !.held = {s}].stage = "reuse"
      BY DEF Idle
    <3> QED
      BY <1>1, <3>1, <3>2
  <2> QED
    BY <1>6, <2>1, <2>2, <2>3
<1>7. \A j \in Calls : j \in Admitted(u)' => j \in Admitted(u)
  BY <1>2, <1>4, <1>5, <1>6
  DEF Next, vars, ExpireChallenge, ExpireSession, MembershipChanges
<1>8. ASSUME NEW k \in Calls, CommitLogin(k) \/ CommitRotation(k)
      PROVE  k \notin Admitted(u)'
  <2>1. PICK n : Sign(k, n)
    BY <1>8 DEF CommitLogin, CommitRotation
  <2>2. call'[k].stage = "sign"
    BY <2>1 DEF Sign, Idle, Inv, TypeOK
  <2> QED
    BY <2>2 DEF Admitted
<1> QED
  BY <1>7, <1>8

\* Sessions of user u after a step: those there were, and one more if a call of u
\* that was let in ends with it.
LEMMA WaysNext ==
    ASSUME Inv, [Next]_vars, NEW u \in Users, ~active[u]
    PROVE  \/ /\ UnrevokedSessions(u)' \subseteq UnrevokedSessions(u)
              /\ Admitted(u)' \subseteq Admitted(u)
           \/ \E s, k : /\ UnrevokedSessions(u)' \subseteq UnrevokedSessions(u) \cup {s}
                        /\ k \in Admitted(u) /\ Admitted(u)' \subseteq Admitted(u) \ {k}
<1>1. UsersFixed /\ RowsStep
  BY StepRows
<1>2. Admitted(u)' \subseteq Admitted(u)
  BY NobodyAdmitted DEF Admitted
<1>3. ASSUME NEW r \in Sessions, Unrevoked(r)', Unrevoked(r),
             session'[r].origin = session[r].origin, UserOf(r)' = u
      PROVE  r \in UnrevokedSessions(u)
  <2>1. session[r].origin \in Challenges /\ challenge[session[r].origin].status # "absent"
    BY <1>3 DEF Unrevoked, Inv, SessionInv, SessionsOfCodes
  <2>2. UserOf(r) = u
    BY <1>1, <1>3, <2>1 DEF UserOf, UsersFixed
  <2> QED
    BY <1>3, <2>2 DEF UnrevokedSessions
<1>4. ASSUME NEW ended, Changes({}, ended)
      PROVE  UnrevokedSessions(u)' \subseteq UnrevokedSessions(u)
  BY <1>3, <1>4 DEF Changes, UnrevokedSessions
<1>5. ASSUME NEW s, NEW ended, Changes({s}, ended), UserOf(s)' # u
      PROVE  UnrevokedSessions(u)' \subseteq UnrevokedSessions(u)
  BY <1>3, <1>5 DEF Changes, UnrevokedSessions
<1>6. ASSUME NEW s, NEW ended, Changes({s}, ended)
      PROVE  UnrevokedSessions(u)' \subseteq UnrevokedSessions(u) \cup {s}
  BY <1>3, <1>6 DEF Changes, UnrevokedSessions
<1>7. ASSUME NEW k \in Calls, CommitLogin(k) \/ CommitRotation(k), call[k].user = u
      PROVE  k \in Admitted(u) /\ Admitted(u)' \subseteq Admitted(u) \ {k}
  BY <1>2, <1>7, NobodyAdmitted DEF Admitted, CommitLogin, MayCommitLogin, CommitRotation,
      MayCommitRotation
<1>8. ASSUME NEW k \in Calls, NEW d, NEW s, LogsIn(k, d, s)
      PROVE  UserOf(s)' = call[k].user
  <2>1. d \in Challenges /\ challenge[d].status = "open" /\ challenge[d].user = call[k].user
    BY <1>8, HeldCode DEF LogsIn, CommitLogin, MayCommitLogin, CodeStages
  <2> QED
    BY <1>1, <1>8, <2>1 DEF LogsIn, UserOf, UsersFixed
<1>9. ASSUME NEW k \in Calls, NEW p, NEW s, Exchanges(k, p, s)
      PROVE  UserOf(s)' = call[k].user
  <2>1. /\ session[p].origin \in Challenges
        /\ challenge[session[p].origin].status # "absent"
        /\ challenge[session[p].origin].user = call[k].user
    BY <1>9 DEF Exchanges, CommitRotation, MayCommitRotation, Unrevoked, UserOf, Inv,
        CallInv, Relies, SessionInv, SessionsOfCodes
  <2> QED
    BY <1>1, <1>9, <2>1 DEF Exchanges, UserOf, UsersFixed
<1>10. CASE \E ended : Changes({}, ended)
  BY <1>2, <1>4, <1>10
<1>11. ASSUME NEW k \in Calls, NEW s, NEW ended, CommitLogin(k) \/ CommitRotation(k),
              Changes({s}, ended), UserOf(s)' = call[k].user
       PROVE  \/ /\ UnrevokedSessions(u)' \subseteq UnrevokedSessions(u)
                 /\ Admitted(u)' \subseteq Admitted(u)
              \/ \E x, j : /\ UnrevokedSessions(u)' \subseteq UnrevokedSessions(u) \cup {x}
                           /\ j \in Admitted(u) /\ Admitted(u)' \subseteq Admitted(u) \ {j}
  <2>1. CASE call[k].user = u
    BY <1>6, <1>7, <1>11, <2>1
  <2>2. CASE call[k].user # u
    BY <1>2, <1>5, <1>11, <2>2
  <2> QED
    BY <2>1, <2>2
<1>12. CASE \E k \in Calls : \E d, s : LogsIn(k, d, s)
  BY <1>8, <1>11, <1>12 DEF LogsIn
<1>13. CASE \E k \in Calls : \E p, s : Exchanges(k, p, s)
  BY <1>9, <1>11, <1>13 DEF Exchanges
<1> QED
  BY <1>1, <1>10, <1>12, <1>13 DEF RowsStep

\* Once a user is inactive, the ways into the account only get fewer: a login or a
\* rotation that was let in before ends with one session at most (verifyOtp,
\* rotate, deactivateGlobally).
THEOREM Dries == Spec => DeactivationDries
<1>1. Inv /\ [Next]_vars => [\A u \in Users : ~active[u] => WaysIn(u)' <= WaysIn(u)]_vars
  <2> SUFFICES ASSUME Inv, [Next]_vars, NEW u \in Users, ~active[u]
               PROVE  WaysIn(u)' <= WaysIn(u)
    OBVIOUS
  <2>1. IsFiniteSet(Sessions)
    BY MaxSessionsAssumption, FS_Interval DEF Sessions
  <2>2. IsFiniteSet(UnrevokedSessions(u))
    BY <2>1, FS_Subset DEF UnrevokedSessions
  <2>3. IsFiniteSet(Admitted(u))
    BY CallsAssumption, FS_Subset DEF Admitted
  <2> QED
    BY <2>2, <2>3, WaysNext, FewerWays DEF WaysIn
<1> QED
  BY <1>1, InvHolds, PTL DEF Spec, DeactivationDries

(*************************************************************************)
(* Codes and sessions implement the chains of logins                     *)
(*************************************************************************)

ValidOf(c) == {s \in Chain(c) : Unrevoked(s)}
SpentOf(c) == {s \in Chain(c) : session[s].status = "revoked"}
Valid == [c \in Challenges |-> ValidOf(c)]
Spent == [c \in Challenges |-> SpentOf(c)]

LEMMA LoginStateIs ==
    LoginState = [c \in Challenges |-> Standing(challenge[c].status)]
  BY DEF LoginState, Standing

LEMMA ChainsChange ==
    ASSUME NEW new, NEW ended, Changes(new, ended), NEW c
    PROVE  /\ ValidOf(c)' = (ValidOf(c) \ ended) \cup {s \in new : session'[s].origin = c}
           /\ SpentOf(c)' = SpentOf(c) \cup (ValidOf(c) \cap ended)
           /\ \A s \in new : s \notin ValidOf(c) \cup SpentOf(c)
<1>1. \A s \in new : s \in Sessions /\ ~Unrevoked(s) /\ session[s].status # "revoked"
  BY DEF Changes, Unrevoked
<1>2. \A s \in new : Unrevoked(s)' /\ session'[s].status # "revoked"
  BY DEF Changes, Unrevoked
<1>3. \A s : s \in ValidOf(c)' <=>
               s \in (ValidOf(c) \ ended) \cup {r \in new : session'[r].origin = c}
  BY <1>1, <1>2 DEF Changes, ValidOf, Chain
<1>4. \A s : s \in SpentOf(c)' <=> s \in SpentOf(c) \cup (ValidOf(c) \cap ended)
  BY <1>1, <1>2 DEF Changes, ValidOf, SpentOf, Chain
<1>5. \A s \in new : s \notin ValidOf(c) \cup SpentOf(c)
  BY <1>1 DEF ValidOf, SpentOf
<1> QED
  BY <1>3, <1>4, <1>5

\* Nothing happens to sessions.
LEMMA ChainsKept ==
    ASSUME Changes({}, {})
    PROVE  Valid' = Valid /\ Spent' = Spent
<1>1. PICK none : none = {}
  OBVIOUS
<1>2. Changes(none, none)
  BY <1>1
<1>3. \A c : ValidOf(c)' = ValidOf(c) /\ SpentOf(c)' = SpentOf(c)
  BY <1>1, <1>2, ChainsChange
<1> QED
  BY <1>3 DEF Valid, Spent

LEMMA OneValid ==
    ASSUME Inv, NEW c
    PROVE  /\ \A r, s \in ValidOf(c) : r = s
           /\ \A s \in ValidOf(c) : challenge[c].status = "consumed"
  BY DEF ValidOf, Chain, Unrevoked, Inv, SessionInv, OneUnrevoked, SessionsOfCodes

LEMMA InitChains == Init => Logins!Init
<1> SUFFICES ASSUME Init PROVE Logins!Init
  OBVIOUS
<1>1. \A c \in Challenges : challenge[c].status = "absent"
  BY DEF Init
<1>2. LoginState = [c \in Challenges |-> "none"]
  BY <1>1 DEF LoginState
<1>3. \A s \in Sessions : session[s].status = "absent"
  BY DEF Init
<1>4. \A c \in Challenges : ValidOf(c) = {} /\ SpentOf(c) = {}
  BY <1>3 DEF ValidOf, SpentOf, Chain, Unrevoked
<1>5. Valid = [c \in Challenges |-> {}] /\ Spent = [c \in Challenges |-> {}]
  BY <1>4 DEF Valid, Spent
<1> QED
  BY <1>2, <1>5 DEF Logins!Init, Valid, Spent, ValidOf, SpentOf

LEMMA EndsChains ==
    ASSUME Inv, NEW ended, SameCodes, Changes({}, ended)
    PROVE  Logins!End
<1>1. PICK none : none = {}
  OBVIOUS
<1>2. Changes(none, ended)
  BY <1>1
<1>3. \A c : /\ ValidOf(c)' = ValidOf(c) \ ended
             /\ SpentOf(c)' = SpentOf(c) \cup (ValidOf(c) \cap ended)
  BY <1>1, <1>2, ChainsChange
<1> DEFINE over == {c \in Challenges : ValidOf(c) \cap ended # {}}
<1>4. Valid' = [c \in Challenges |-> IF c \in over THEN {} ELSE Valid[c]]
  <2>1. \A c \in Challenges : ValidOf(c)' = IF c \in over THEN {} ELSE ValidOf(c)
    BY <1>3, OneValid
  <2> QED
    BY <2>1 DEF Valid
<1>5. Spent' = [c \in Challenges |-> IF c \in over THEN Spent[c] \cup Valid[c] ELSE Spent[c]]
  <2>1. \A c \in Challenges :
          SpentOf(c)' = IF c \in over THEN SpentOf(c) \cup ValidOf(c) ELSE SpentOf(c)
    BY <1>3, OneValid
  <2> QED
    BY <2>1 DEF Valid, Spent
<1>6. LoginState' = LoginState
  BY LoginStateIs DEF SameCodes, LoginState, Standing
<1>7. over \in SUBSET Challenges
  OBVIOUS
<1> HIDE DEF over
<1> QED
  BY <1>4, <1>5, <1>6, <1>7 DEF Logins!End, Valid, Spent, ValidOf, SpentOf

LEMMA IssuesChains ==
    ASSUME Inv, NEW n, Opens(n), Changes({}, {})
    PROVE  Logins!Issue
<1>1. Valid' = Valid /\ Spent' = Spent
  BY ChainsKept
<1> DEFINE old == {c \in Challenges \ {n} : /\ Standing(challenge[c].status) = "open"
                                            /\ Standing(challenge'[c].status) = "closed"}
<1>2. /\ n \in Challenges /\ old \in SUBSET Challenges
      /\ LoginState[n] = "none" /\ \A d \in old : LoginState[d] = "open"
  BY LoginStateIs DEF Opens
<1>3. LoginState' = [d \in Challenges |->
         IF d = n THEN "open" ELSE IF d \in old THEN "closed" ELSE LoginState[d]]
  <2>1. \A d \in Challenges : Standing(challenge'[d].status) =
          IF d = n THEN "open" ELSE IF d \in old THEN "closed"
          ELSE Standing(challenge[d].status)
    BY DEF Opens
  <2>2. LoginState' = [d \in Challenges |-> Standing(challenge'[d].status)]
    BY DEF LoginState, Standing
  <2> HIDE DEF old
  <2> QED
    BY <2>1, <2>2, LoginStateIs
<1> HIDE DEF old
<1> QED
  BY <1>1, <1>2, <1>3 DEF Logins!Issue, Valid, Spent, ValidOf, SpentOf

\* A code closes.
LEMMA ClosedCode ==
    ASSUME NEW d, Closes(d)
    PROVE  /\ d \in Challenges /\ LoginState[d] = "open"
           /\ LoginState' = [LoginState EXCEPT ![d] = "closed"]
<1>1. LoginState' = [c \in Challenges |-> Standing(challenge'[c].status)]
  BY DEF LoginState, Standing
<1> QED
  BY <1>1, LoginStateIs DEF Closes

LEMMA ClosesChains ==
    ASSUME Inv, NEW d, Closes(d), Changes({}, {})
    PROVE  Logins!Close
<1>1. Valid' = Valid /\ Spent' = Spent
  BY ChainsKept
<1> QED
  BY <1>1, ClosedCode DEF Logins!Close, Valid, Spent, ValidOf, SpentOf

\* A session that is created was never valid.
LEMMA CreatedFresh ==
    ASSUME NEW s, NEW ended, Changes({s}, ended)
    PROVE  s \in Sessions /\ Logins!Fresh(s)
<1>1. PICK new : new = {s}
  OBVIOUS
<1>2. Changes(new, ended)
  BY <1>1
<1>3. \A c \in Challenges : s \notin Valid[c] \cup Spent[c]
  BY <1>1, <1>2, ChainsChange DEF Valid, Spent
<1>4. s \in Sessions
  BY DEF Changes
<1> QED
  BY <1>3, <1>4 DEF Logins!Fresh, Valid, Spent, ValidOf, SpentOf

LEMMA LoginChainsStep ==
    ASSUME Inv, NEW k, NEW d, NEW s, LogsIn(k, d, s)
    PROVE  Logins!Login
<1>1. /\ d \in Challenges /\ LoginState[d] = "open"
      /\ LoginState' = [LoginState EXCEPT ![d] = "closed"]
  BY ClosedCode DEF LogsIn
<1>2. s \in Sessions /\ Logins!Fresh(s)
  BY CreatedFresh DEF LogsIn
<1>3. PICK new, none : new = {s} /\ none = {}
  OBVIOUS
<1>4. Changes(new, none) /\ session'[s].origin = d
  BY <1>3 DEF LogsIn
<1>5. \A c : /\ ValidOf(c)' = (ValidOf(c) \ none) \cup {r \in new : session'[r].origin = c}
             /\ SpentOf(c)' = SpentOf(c) \cup (ValidOf(c) \cap none)
  BY <1>4, ChainsChange
<1>6. ValidOf(d) = {}
  BY <1>1, OneValid, LoginStateIs DEF Standing
<1>7. Valid' = [Valid EXCEPT ![d] = {s}]
  <2>1. \A c \in Challenges : ValidOf(c)' = IF c = d THEN {s} ELSE ValidOf(c)
    BY <1>3, <1>4, <1>5, <1>6
  <2> QED
    BY <1>1, <2>1 DEF Valid
<1>8. Spent' = Spent
  BY <1>3, <1>5 DEF Spent
<1> QED
  BY <1>1, <1>2, <1>7, <1>8 DEF Logins!Login, Valid, Spent, ValidOf, SpentOf

LEMMA ExchangeStep ==
    ASSUME Inv, NEW k, NEW p, NEW s, Exchanges(k, p, s)
    PROVE  Logins!Exchange
<1>1. PICK o \in Challenges : o = session[p].origin
  BY DEF Exchanges, Unrevoked, Inv, SessionInv, SessionsOfCodes
<1>2. s \in Sessions /\ Logins!Fresh(s)
  BY CreatedFresh DEF Exchanges
<1>3. PICK new, ended : new = {s} /\ ended = {p}
  OBVIOUS
<1>4. Changes(new, ended) /\ session'[s].origin = o /\ p \in Sessions
  BY <1>1, <1>3 DEF Exchanges
<1>5. \A c : /\ ValidOf(c)' = (ValidOf(c) \ ended) \cup {r \in new : session'[r].origin = c}
             /\ SpentOf(c)' = SpentOf(c) \cup (ValidOf(c) \cap ended)
  BY <1>4, ChainsChange
<1>6. ValidOf(o) = {p}
  <2>1. p \in ValidOf(o)
    BY <1>1, <1>4 DEF Exchanges, ValidOf, Chain
  <2> QED
    BY <2>1, OneValid
<1>7. \A c \in Challenges : c # o => p \notin ValidOf(c)
  BY <1>1 DEF ValidOf, Chain
<1>8. Valid' = [Valid EXCEPT ![o] = {s}]
  <2>1. \A c \in Challenges : ValidOf(c)' = IF c = o THEN {s} ELSE ValidOf(c)
    BY <1>3, <1>4, <1>5, <1>6, <1>7
  <2> QED
    BY <2>1 DEF Valid
<1>9. Spent' = [Spent EXCEPT ![o] = Spent[o] \cup {p}]
  <2>1. \A c \in Challenges : SpentOf(c)' = IF c = o THEN SpentOf(c) \cup {p} ELSE SpentOf(c)
    BY <1>3, <1>5, <1>6, <1>7
  <2> QED
    BY <2>1 DEF Spent
<1>10. LoginState' = LoginState
  BY LoginStateIs DEF Exchanges, SameCodes, LoginState, Standing
<1>11. Valid[o] = {p}
  BY <1>6 DEF Valid
<1> QED
  BY <1>2, <1>4, <1>8, <1>9, <1>10, <1>11 DEF Logins!Exchange, Valid, Spent, ValidOf, SpentOf

\* A code lets in once, a login is a chain of tokens with at most one valid, and an
\* ended chain never goes on: the transactions of AuthService and TokenService
\* implement LoginChains (verifyOtp, rotate, revokeAllForUser).
THEOREM ChainsImplemented == Spec => ImplementsChains
<1>1. Inv /\ [Next]_vars => [Logins!Next]_(Logins!vars)
  <2> SUFFICES ASSUME Inv, [Next]_vars PROVE Logins!Next
    OBVIOUS
  <2>1. RowsStep
    BY StepRows
  <2> QED
    BY <2>1, EndsChains, IssuesChains, ClosesChains, LoginChainsStep, ExchangeStep
    DEF RowsStep, Logins!Next
<1> QED
  BY <1>1, InitChains, InvHolds, PTL DEF Spec, ImplementsChains, Logins!Spec

(*************************************************************************)
(* Waits                                                                 *)
(*************************************************************************)

Revoking == {"reuse", "deactivate"}
Waiting == {"invalidate", "verify"}

\* Only calls of these stages wait for another one, which is of the same user.
LEMMA WaitsAre ==
    ASSUME Inv, NEW j \in Calls, NEW k \in Calls, WaitsFor(j, k)
    PROVE  /\ call[j].user = call[k].user
           /\ \/ call[j].stage \in Waiting /\ call[k].stage \in OnCodes
              \/ call[j].stage = "admit" /\ call[k].stage = "deactivate"
              \/ call[j].stage \in Revoking /\ call[k].stage \in OnSessions
<1>1. Relies(call[j]) /\ Relies(call[k])
  BY DEF Inv, CallInv
<1>2. CASE /\ call[j].stage \in Waiting
           /\ \E c \in ToLock(j) : HoldsChallenge(k, c)
  BY <1>1, <1>2 DEF Relies, ToLock, HoldsChallenge, Waiting, OnCodes
<1>3. CASE call[j].stage = "admit" /\ HoldsUser(k, call[j].user)
  BY <1>3 DEF HoldsUser
<1>4. CASE /\ call[j].stage \in Revoking
           /\ \E s \in ToLock(j) : HoldsSession(k, s)
  BY <1>1, <1>4 DEF Relies, ToLock, HoldsSession, Revoking, OnSessions
<1> QED
  BY <1>2, <1>3, <1>4 DEF WaitsFor, NextCode, Waiting, Revoking

\* A deadlock is the only circle in itself: calls of it that wait for none of the
\* others are all of it.
LEMMA WholeDeadlock ==
    ASSUME NEW W, Deadlock(W), NEW V \in SUBSET W, V # {},
           \A j \in V, k \in W : WaitsFor(j, k) => k \in V
    PROVE  V = W
<1>1. Circle(V)
  BY DEF Deadlock, Circle
<1> QED
  BY <1>1 DEF Deadlock

\* Some codes have a newest one among them.
LEMMA NewestCode ==
    ASSUME NEW S \in SUBSET Challenges, S # {}
    PROVE  \E c \in S : \A d \in S : d <= c
<1> DEFINE newer == {{d \in Challenges : c < d} : c \in S}
<1>1. IsFiniteSet(Challenges)
  BY MaxChallengesAssumption, FS_Interval DEF Challenges
<1>2. \A c \in S : {d \in Challenges : c < d} \in FiniteSubsetsOf(Challenges)
  BY <1>1, FS_FiniteSubsetsOfFinite
<1>3. newer \subseteq FiniteSubsetsOf(Challenges) /\ newer # {}
  BY <1>2
<1>4. IsWellFoundedOn(StrictSubsetOrdering(Challenges), FiniteSubsetsOf(Challenges))
  BY FS_StrictSubsetOrderingWellFounded
<1>5. PICK x \in newer : \A y \in newer : ~(<<y, x>> \in StrictSubsetOrdering(Challenges))
  <2> HIDE DEF newer
  <2> QED
    BY <1>3, <1>4, WFMin
<1>6. PICK c \in S : x = {d \in Challenges : c < d}
  BY <1>5
<1>7. ASSUME NEW d \in S, ~(d <= c) PROVE FALSE
  <2>1. c \in Int /\ d \in Int /\ d \in Challenges
    BY MaxChallengesAssumption DEF Challenges
  <2>2. PICK y : y = {e \in Challenges : d < e}
    OBVIOUS
  <2>3. d \in x /\ d \notin y
    BY <1>6, <1>7, <2>1, <2>2
  <2>4. y \subseteq x /\ x \subseteq Challenges
    BY <1>6, <1>7, <2>1, <2>2, MaxChallengesAssumption DEF Challenges
  <2>5. <<y, x>> \in StrictSubsetOrdering(Challenges)
    BY <2>3, <2>4 DEF StrictSubsetOrdering
  <2>6. y \in newer
    BY <2>2
  <2> QED
    BY <1>5, <2>5, <2>6
<1> QED
  BY <1>7

\* And an oldest one.
LEMMA OldestCode ==
    ASSUME NEW S \in SUBSET Challenges, S # {}
    PROVE  \E c \in S : \A d \in S : c <= d
<1> DEFINE mirrored == {MaxChallenges + 1 - c : c \in S}
<1>1. mirrored \in SUBSET Challenges /\ mirrored # {}
  <2>1. ASSUME NEW c \in S PROVE MaxChallenges + 1 - c \in Challenges
    BY MaxChallengesAssumption DEF Challenges
  <2> QED
    BY <2>1
<1>2. PICK m \in mirrored : \A n \in mirrored : n <= m
  <2> HIDE DEF mirrored
  <2> QED
    BY <1>1, NewestCode
<1>3. PICK c \in S : m = MaxChallenges + 1 - c
  BY <1>2
<1>4. ASSUME NEW d \in S PROVE c <= d
  <2>1. MaxChallenges + 1 - d <= m
    BY <1>2
  <2> QED
    BY <1>3, <2>1, MaxChallengesAssumption DEF Challenges
<1> QED
  BY <1>4

\* Logins that pass codes over do not deadlock among themselves: each takes its codes
\* from the newest to the oldest, so the next one of a holder is older still.
LEMMA LoginsAlone ==
    ASSUME Inv, NEW W \in SUBSET Calls, Circle(W),
           \A j \in W : call[j].stage = "verify"
    PROVE  FALSE
<1> DEFINE next == {c \in Challenges : \E j \in W : NextCode(j, c)}
<1>1. ASSUME NEW j \in W
      PROVE  \E c \in Challenges, k \in W : NextCode(j, c) /\ HoldsChallenge(k, c)
  BY <1>1 DEF Circle, WaitsFor
<1>2. next # {}
  BY <1>1 DEF Circle
<1>3. PICK c \in next : \A d \in next : c <= d
  <2>1. next \in SUBSET Challenges
    OBVIOUS
  <2> HIDE DEF next
  <2> QED
    BY <1>2, <2>1, OldestCode
<1>4. PICK j \in W : NextCode(j, c)
  BY <1>3
<1>5. PICK d \in Challenges, k \in W : NextCode(j, d) /\ HoldsChallenge(k, d)
  BY <1>1
<1>6. d = c
  BY <1>4, <1>5, MaxChallengesAssumption DEF NextCode, Challenges
<1>7. PICK e \in Challenges : NextCode(k, e)
  BY <1>1
<1>8. e < c
  BY <1>5, <1>6, <1>7 DEF NextCode, ToLock, HoldsChallenge, Inv, CallInv, Relies
<1>9. e \in next
  BY <1>7
<1> QED
  BY <1>3, <1>8, <1>9, MaxChallengesAssumption DEF Challenges

\* A deadlock is one of revocations, or of requests and logins, of one user.
LEMMA DeadlocksAreBulk ==
    ASSUME Inv, NEW W \in SUBSET Calls, Deadlock(W)
    PROVE  BulkDeadlock(W)
<1>1. W # {} /\ \A j \in W : \E k \in W : WaitsFor(j, k)
  BY DEF Deadlock, Circle
<1>2. \A j, k \in W : call[j].user = call[k].user
  <2> SUFFICES ASSUME NEW j \in W, NEW k \in W PROVE call[j].user = call[k].user
    OBVIOUS
  <2> DEFINE V == {i \in W : call[i].user = call[j].user}
  <2>1. \A i \in V, m \in W : WaitsFor(i, m) => m \in V
    BY WaitsAre
  <2>2. V \in SUBSET W /\ V # {}
    OBVIOUS
  <2>3. V = W
    <3> HIDE DEF V
    <3> QED
      BY <2>1, <2>2, WholeDeadlock
  <2> QED
    BY <2>3
<1>3. \A j \in W : call[j].stage \in Waiting \cup Revoking \cup {"admit"}
  BY <1>1, WaitsAre
<1>4. CASE \E j \in W : call[j].stage \in Revoking
  <2> DEFINE V == {i \in W : call[i].stage \in Revoking}
  <2>1. \A i \in V, m \in W : WaitsFor(i, m) => m \in V
    BY <1>3, WaitsAre DEF Waiting, Revoking, OnSessions
  <2>2. V \in SUBSET W /\ V # {}
    BY <1>4
  <2>3. V = W
    <3> HIDE DEF V
    <3> QED
      BY <2>1, <2>2, WholeDeadlock
  <2>4. \A j \in W : call[j].stage \in {"reuse", "deactivate"}
    BY <2>3 DEF Revoking
  <2>5. \E j \in W : call[j].stage = "reuse"
    <3> SUFFICES ASSUME \A j \in W : call[j].stage = "deactivate" PROVE FALSE
      BY <2>4
    <3>1. PICK j \in W, k \in W : WaitsFor(j, k)
      BY <1>1
    <3>2. Clash(call[j], call[k]) /\ j # k
      BY <1>2, <3>1 DEF Clash, WaitsFor
    <3> QED
      BY <3>2 DEF Inv, CallInv, LocksExclude
  <2> QED
    BY <1>2, <2>4, <2>5 DEF BulkDeadlock, StagesOf
<1>5. CASE \A j \in W : call[j].stage \notin Revoking
  <2>1. \A j \in W : call[j].stage \in {"invalidate", "verify"}
    BY <1>1, <1>3, <1>5, WaitsAre DEF Waiting, Revoking, OnCodes
  <2>2. \E j \in W : call[j].stage = "invalidate"
    BY <2>1, LoginsAlone DEF Deadlock
  <2> QED
    BY <1>2, <2>1, <2>2 DEF BulkDeadlock, StagesOf
<1> QED
  BY <1>4, <1>5

\* A row that a call has to lock and cannot is held by another call.
LEMMA StoppedWaits == Inv => OnlyWaitsStop
<1> SUFFICES ASSUME Inv, NEW j \in Calls, call[j].stage # "idle",
                    \A k \in Calls : ~WaitsFor(j, k), ~OutOfNumbers(j)
             PROVE  MayProceed(j)
  BY DEF OnlyWaitsStop
<1>1. call[j].stage \in Stages /\ Relies(call[j])
  BY DEF Inv, TypeOK, Call, CallInv
<1>2. CASE call[j].stage = "invalidate"
  <2>1. CASE ToLock(j) = {}
    BY <1>2, <2>1 DEF MayProceed, MayCommitRequest
  <2>2. CASE ToLock(j) # {}
    <3>1. PICK c \in Challenges : c \in ToLock(j)
      BY <1>1, <1>2, <2>2 DEF ToLock, Relies, OnCodes
    <3>2. ~ChallengeLocked(c)
      BY <1>2, <3>1 DEF ChallengeLocked, HoldsChallenge, WaitsFor, ToLock
    <3> QED
      BY <1>2, <3>1, <3>2 DEF MayProceed, MayLockOpen
  <2> QED
    BY <2>1, <2>2
<1>3. CASE call[j].stage = "verify"
  <2>1. CASE ToLock(j) = {}
    BY <1>3, <2>1 DEF MayProceed
  <2>2. CASE ToLock(j) # {}
    <3>1. ToLock(j) \in SUBSET Challenges
      BY <1>1, <1>3 DEF ToLock, Relies, OnCodes
    <3>2. PICK c \in ToLock(j) : \A d \in ToLock(j) : d <= c
      BY <2>2, <3>1, NewestCode
    <3>3. NextCode(j, c) /\ c \in Challenges
      BY <1>3, <3>1, <3>2 DEF NextCode
    <3>4. ~ChallengeLocked(c)
      BY <3>3 DEF ChallengeLocked, HoldsChallenge, WaitsFor, ToLock, NextCode
    <3> QED
      BY <3>3, <3>4 DEF MayProceed, MayLockNext
  <2> QED
    BY <2>1, <2>2
<1>4. CASE call[j].stage \in {"admit", "rotate"}
  <2>1. call[j].stage = "admit" => ~UserLocked(call[j].user)
    BY DEF WaitsFor, UserLocked, HoldsUser
  <2> QED
    BY <1>4, <2>1 DEF MayProceed, MayCommitLogin, MayCommitRotation
<1>5. CASE call[j].stage \in {"reuse", "deactivate"}
  <2>1. CASE ToLock(j) = {}
    BY <1>5, <2>1 DEF MayProceed, MayRevokeSeen
  <2>2. CASE ToLock(j) # {}
    <3>1. PICK s \in Sessions : s \in ToLock(j)
      BY <1>1, <1>5, <2>2 DEF ToLock, Relies, OnSessions
    <3>2. ~SessionLocked(s)
      BY <1>5, <3>1 DEF SessionLocked, HoldsSession, WaitsFor, ToLock
    <3> QED
      BY <1>5, <3>1, <3>2 DEF MayProceed, MayLockSeen
  <2> QED
    BY <2>1, <2>2
<1>6. CASE call[j].stage \in {"request", "check", "active", "sign"}
  BY <1>6 DEF MayProceed
<1> QED
  BY <1>1, <1>2, <1>3, <1>4, <1>5, <1>6 DEF Stages

\* Whatever logins, requests, rotations, reuse detections and deactivations run at
\* once, and however many: they deadlock only where an UPDATE of all the codes, or of
\* all the sessions, of a user meets another call that wants several of them, and
\* nothing else stops a call for good (findActiveForUpdate, findByHashForUpdate,
\* invalidateOpen, revokeAllForUser, touchLastLogin).
THEOREM DeadlocksConfined == Spec => []OnlyBulkDeadlocks
<1>1. Inv => OnlyBulkDeadlocks
  BY DeadlocksAreBulk, StoppedWaits DEF OnlyBulkDeadlocks
<1> QED
  BY <1>1, InvHolds, PTL

\* At most one call revokes the sessions of user u, and at most one works on codes
\* of u and has not found its own yet.
OneAtATime(u) ==
    \A j, k \in Calls :
        /\ call[j].user = u /\ call[k].user = u
        /\ \/ call[j].stage \in Revoking /\ call[k].stage \in Revoking
           \/ call[j].stage \in Waiting /\ call[k].stage \in Waiting
        => j = k

\* What stops a call then is a call of the same user that goes on.
SomeCallProceeds ==
    \A u \in Users :
        /\ OneAtATime(u)
        /\ \E k \in Calls : call[k].user = u /\ call[k].stage # "idle"
        => \E k \in Calls : call[k].user = u /\ (MayProceed(k) \/ OutOfNumbers(k))

\* As long as the revocations of a user's sessions come one after the other, and the
\* requests and attempts for codes of the user too, some call of the user may always
\* take its next step, whatever those of other users do (requestOtp, verifyOtp,
\* rotate, deactivateGlobally).
THEOREM SomeoneProceeds == Spec => []SomeCallProceeds
<1>1. Inv => SomeCallProceeds
  <2> SUFFICES ASSUME Inv, NEW u \in Users, OneAtATime(u), NEW i \in Calls,
                      call[i].user = u, call[i].stage # "idle",
                      \A k \in Calls : call[k].user = u => ~MayProceed(k) /\ ~OutOfNumbers(k)
               PROVE  FALSE
    BY DEF SomeCallProceeds
  <2>1. ASSUME NEW j \in Calls, call[j].user = u, call[j].stage # "idle"
        PROVE  \E k \in Calls : WaitsFor(j, k) /\ k # j /\ call[k].user = u
    <3>1. PICK k \in Calls : WaitsFor(j, k)
      BY <2>1, StoppedWaits DEF OnlyWaitsStop
    <3> QED
      BY <2>1, <3>1, WaitsAre DEF WaitsFor
  <2>2. ASSUME NEW j \in Calls, call[j].user = u
        PROVE  call[j].stage \notin Revoking
    <3> SUFFICES ASSUME call[j].stage \in Revoking PROVE FALSE
      OBVIOUS
    <3>1. PICK k \in Calls : WaitsFor(j, k) /\ k # j /\ call[k].user = u
      BY <2>1, <2>2 DEF Revoking
    <3>2. call[k].stage = "rotate"
      BY <2>2, <3>1, WaitsAre DEF OneAtATime, Revoking, Waiting, OnSessions
    <3> QED
      BY <2>1, <3>1, <3>2, WaitsAre DEF Revoking, Waiting
  <2>3. ASSUME NEW j \in Calls, call[j].user = u
        PROVE  call[j].stage # "admit"
    BY <2>1, <2>2, <2>3, WaitsAre DEF Revoking, Waiting
  <2>4. ASSUME NEW j \in Calls, call[j].user = u
        PROVE  call[j].stage \notin Waiting
    <3> SUFFICES ASSUME call[j].stage \in Waiting PROVE FALSE
      OBVIOUS
    <3>1. PICK k \in Calls : WaitsFor(j, k) /\ k # j /\ call[k].user = u
      BY <2>1, <2>4 DEF Waiting
    <3>2. call[k].stage \in {"check", "active"}
      BY <2>3, <2>4, <3>1, WaitsAre DEF OneAtATime, Revoking, Waiting, OnCodes
    <3> QED
      BY <2>1, <3>1, <3>2, WaitsAre DEF Revoking, Waiting
  <2> QED
    BY <2>1, <2>2, <2>3, <2>4, WaitsAre
<1> QED
  BY <1>1, InvHolds, PTL
=============================================================================
