----------------------- MODULE AttachmentUploadProofs -----------------------
(*************************************************************************)
(* Proofs about AttachmentUpload, for any number of uploads of any role:  *)
(* types, each row has its file, a refused request leaves nothing, and    *)
(* no upload is admitted late.                                            *)
(*************************************************************************)
EXTENDS AttachmentUpload, FiniteSetTheorems, TLAPS

\* Which files and rows an upload may have at each stage.
Held(u) ==
    /\ stage[u] = "none" => u \notin temp \cup final \cup rows
    /\ stage[u] \in {"received", "admitted"} => u \notin final \cup rows
    /\ stage[u] = "stored" => u \in final /\ u \notin rows
    /\ stage[u] = "created" => u \in final
    /\ stage[u] \in {"error", "refused"} /\ u \in final => <<"final", u>> \in undeleted
    /\ stage[u] = "refused" /\ u \in temp => <<"temp", u>> \in undeleted
    /\ u \in rows \ unconfirmed => stage[u] = "created"

Inv == TypeOK /\ \A u \in Uploads : Held(u)

(*************************************************************************)
(* Inv is inductive.                                                     *)
(*************************************************************************)

LEMMA InitInv == Init => Inv
  BY DEF Init, Inv, TypeOK, Held, Stages

\* A step of one upload leaves the files and rows of the others alone.
LEMMA UploadSteps ==
    ASSUME Inv, NEW u \in Uploads, Receive(u) \/ Step(u)
    PROVE  Inv'
<1> USE DEF Inv, TypeOK, Held, Goes, rules, files, database, Stages
<1>1. CASE Receive(u)
  BY <1>1 DEF Receive
<1>2. CASE RejectRequest(u)
  BY <1>2 DEF RejectRequest
<1>3. CASE RejectFile(u)
  BY <1>3 DEF RejectFile, DeleteTemp
<1>4. CASE Admit(u)
  BY <1>4 DEF Admit
<1>5. CASE Finalize(u)
  BY <1>5 DEF Finalize
<1>6. CASE FinalizeFails(u)
  BY <1>6 DEF FinalizeFails, DeleteTemp
<1>7. CASE Commit(u)
  BY <1>7 DEF Commit
<1>8. CASE CommitFails(u)
  BY <1>8 DEF CommitFails
<1>9. CASE CommitUnconfirmed(u)
  BY <1>9 DEF CommitUnconfirmed
<1>10. CASE Undo(u)
  BY <1>10 DEF Undo, DeleteFinal
<1>11. CASE CleanUp(u)
  BY <1>11 DEF CleanUp, DeleteTemp
<1> QED
  BY <1>1, <1>2, <1>3, <1>4, <1>5, <1>6, <1>7, <1>8, <1>9, <1>10, <1>11 DEF Step

LEMMA StepInv == Inv /\ [Next]_vars => Inv'
<1> SUFFICES ASSUME Inv, [Next]_vars PROVE Inv'
  OBVIOUS
<1>1. ASSUME NEW u \in Uploads, Receive(u) \/ Step(u) PROVE Inv'
  BY <1>1, UploadSteps
<1>2. CASE Crash
  BY <1>2 DEF Crash, Running, Inv, TypeOK, Held, rules, files, database, Stages
<1>3. CASE CloseTicket
  BY <1>3 DEF CloseTicket, Inv, TypeOK, Held, files, database
<1>4. CASE EndAssignment
  BY <1>4 DEF EndAssignment, Inv, TypeOK, Held, files, database
<1>5. CASE UNCHANGED vars
  BY <1>5 DEF vars, Inv, TypeOK, Held
<1> QED
  BY <1>1, <1>2, <1>3, <1>4, <1>5 DEF Next

\* The files, rows and stages of uploads always fit together.
THEOREM InvHolds == Spec => []Inv
  BY InitInv, StepInv, PTL DEF Spec

(*************************************************************************)
(* The properties                                                        *)
(*************************************************************************)

\* Files, rows and stages keep their types; a file is never in both places.
THEOREM TypeCorrect == Spec => []TypeOK
<1>1. Inv => TypeOK
  BY DEF Inv
<1> QED
  BY <1>1, InvHolds, PTL

\* No failure or crash leaves a row without its file, except the failure that
\* was none: a commit whose answer was lost (upload).
THEOREM RowsHaveFiles == Spec => []RowHasFile
<1>1. Inv => RowHasFile
  BY DEF Inv, TypeOK, Held, RowHasFile
<1> QED
  BY <1>1, InvHolds, PTL

\* A request that was refused left no file that could be deleted (upload, intercept).
THEOREM RefusalsLeaveNothing == Spec => []RefusedLeavesNothing
<1>1. Inv => RefusedLeavesNothing
  BY DEF Inv, Held, RefusedLeavesNothing
<1> QED
  BY <1>1, InvHolds, PTL

\* A set of uploads that does not grow does not get larger.
LEMMA SmallerSets ==
    ASSUME NEW S \in SUBSET Uploads, NEW T \in SUBSET S
    PROVE  Cardinality(T) <= Cardinality(S)
  BY UploadsAssumption, FS_Subset

\* Once nobody of a role is allowed any more, none is admitted (assertUploadAllowed).
LEMMA NoneLate ==
    ASSUME Next, NEW role \in {"customer", "technician"}, TypeOK,
           role = "customer" => closed, role = "technician" => ~working
    PROVE  Behind(role)' <= Behind(role)
<1> DEFINE S == {u \in Uploads : Role[u] = role /\ (u \in rows \/ stage[u] \in {"admitted", "stored"})}
<1>1. S' \subseteq S
  <2>1. ASSUME NEW u \in Uploads, Receive(u) \/ Step(u) PROVE S' \subseteq S
    BY <2>1 DEF TypeOK, Receive, Step, RejectRequest, RejectFile, Admit, Allowed, Finalize,
       FinalizeFails, Commit, CommitFails, CommitUnconfirmed, Undo, CleanUp, Goes,
       DeleteTemp, DeleteFinal, rules, files, database
  <2>2. CASE Crash
    BY <2>2 DEF Crash, TypeOK, database
  <2>3. CASE CloseTicket \/ EndAssignment
    BY <2>3 DEF CloseTicket, EndAssignment, database
  <2> QED
    BY <2>1, <2>2, <2>3 DEF Next
<1> QED
  BY <1>1, SmallerSets DEF Behind

\* After the ticket is closed, or the assignment over, the uploads that may still
\* become attachments only get fewer, though the check holds no lock.
THEOREM NoLateUploads == Spec => LateUploadsDry
<1>1. Inv /\ [Next]_vars =>
        [/\ closed => Behind("customer")' <= Behind("customer")
         /\ ~working => Behind("technician")' <= Behind("technician")]_vars
  BY NoneLate DEF Inv
<1> QED
  BY <1>1, InvHolds, PTL DEF Spec, LateUploadsDry
=============================================================================
