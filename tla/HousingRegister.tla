--------------------------- MODULE HousingRegister ---------------------------
(****************************************************************************)
(* What the register of residents promises, without rows, locks or calls:   *)
(* whoever moves in becomes a member of the unit's site in the same moment, *)
(* and gets a number if they had none; whoever leaves a site leaves their   *)
(* homes there in the same moment; a number names one user.                 *)
(****************************************************************************)
CONSTANTS
    Users,     \* people the register may know
    Numbers,   \* phone numbers
    NoNumber,  \* of a person the register does not know
    Sites,     \* sites
    Units,     \* units
    SiteOf     \* SiteOf[n]: the site of unit n

VARIABLES
    number,    \* number[u]: u's phone number, or NoNumber
    members,   \* <<user, site>>: who belongs where
    homes      \* <<user, unit>>: who lives where

vars == <<number, members, homes>>

Init ==
    /\ number \in [Users -> Numbers \cup {NoNumber}]
    /\ \A u, v \in Users : number[u] = number[v] => u = v \/ number[u] = NoNumber
    /\ members \in SUBSET ({u \in Users : number[u] # NoNumber} \X Sites)
    /\ homes = {}

Free(p) == \A u \in Users : number[u] # p

MoveIn(u, n) ==
    /\ <<u, n>> \notin homes
    /\ homes' = homes \cup {<<u, n>>}
    /\ members' = members \cup {<<u, SiteOf[n]>>}
    /\ \/ number[u] # NoNumber /\ UNCHANGED number
       \/ \E p \in Numbers : /\ number[u] = NoNumber /\ Free(p)
                             /\ number' = [number EXCEPT ![u] = p]

\* Some homes at one site end.
MoveOut(u, s) ==
    /\ \E left \in SUBSET {n \in Units : SiteOf[n] = s} : homes' = homes \ ({u} \X left)
    /\ UNCHANGED <<number, members>>

Leave(u, s) ==
    /\ <<u, s>> \in members
    /\ members' = members \ {<<u, s>>}
    /\ homes' = homes \ ({u} \X {n \in Units : SiteOf[n] = s})
    /\ UNCHANGED number

ChangeNumber(u, p) ==
    /\ number[u] # NoNumber /\ Free(p)
    /\ number' = [number EXCEPT ![u] = p]
    /\ UNCHANGED <<members, homes>>

Next ==
    \/ \E u \in Users, n \in Units : MoveIn(u, n)
    \/ \E u \in Users, s \in Sites : MoveOut(u, s) \/ Leave(u, s)
    \/ \E u \in Users, p \in Numbers : ChangeNumber(u, p)

Spec == Init /\ [][Next]_vars
=============================================================================
