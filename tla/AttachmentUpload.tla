-------------------------- MODULE AttachmentUpload --------------------------
(****************************************************************************)
(* AttachmentService.upload: a file goes from multer's temporary directory  *)
(* to its final place and only then gets its ticket_attachments row, so     *)
(* that every failure has to be undone by hand.  The disk and the database  *)
(* fail separately, the process may stop anywhere, and the ticket and the   *)
(* assignment that allowed the upload go on changing, for nothing is locked *)
(* while they are read.                                                     *)
(*                                                                          *)
(* All uploads here are to one ticket.  Each has a temporary file and a     *)
(* storage key of its own (randomUUID), named like the upload.              *)
(****************************************************************************)
EXTENDS Naturals, FiniteSets

CONSTANTS
    Uploads,     \* upload requests
    Role         \* Role[u]: "customer", "technician" or "operations"

ASSUME UploadsAssumption == IsFiniteSet(Uploads)
ASSUME RoleAssumption == Role \in [Uploads -> {"customer", "technician", "operations"}]

VARIABLES
    closed,      \* the ticket is CLOSED or CANCELLED
    working,     \* the technician's assignment is current and ACCEPTED or ACTIVE
    stage,       \* stage[u]: where the request is
    temp,        \* uploads with a temporary file
    final,       \* uploads with a file under its storage key
    rows,        \* uploads with a committed ticket_attachments row
    unconfirmed, \* rows whose commit was reported as an error (history)
    undeleted    \* <<kind, upload>>: the last unlink of it failed (history)

files == <<temp, final, undeleted>>
database == <<rows, unconfirmed>>
rules == <<closed, working>>
vars == <<closed, working, stage, temp, final, rows, unconfirmed, undeleted>>

\* "undo": the transaction failed; "error": the cleanup interceptor is next.
\* "lost": the process stopped before it answered.
Stages == {"none", "received", "admitted", "stored", "undo", "error",
           "created", "refused", "lost"}
Running == {"received", "admitted", "stored", "undo", "error"}

TypeOK ==
    /\ closed \in BOOLEAN
    /\ working \in BOOLEAN
    /\ stage \in [Uploads -> Stages]
    /\ temp \in SUBSET Uploads
    /\ final \in SUBSET (Uploads \ temp)
    /\ rows \in SUBSET Uploads
    /\ unconfirmed \in SUBSET rows
    /\ undeleted \in SUBSET ({"temp", "final"} \X Uploads)

Init ==
    /\ closed = FALSE
    /\ working \in BOOLEAN
    /\ stage = [u \in Uploads |-> "none"]
    /\ temp = {} /\ final = {} /\ rows = {}
    /\ unconfirmed = {} /\ undeleted = {}

Goes(u, from, to) == stage[u] = from /\ stage' = [stage EXCEPT ![u] = to]

\* safeUnlink: a missing file is no error; any other error is swallowed by the
\* callers and the file stays.
DeleteTemp(u) ==
    /\ \/ temp' = temp \ {u} /\ undeleted' = undeleted \ {<<"temp", u>>}
       \/ u \in temp /\ UNCHANGED temp /\ undeleted' = undeleted \cup {<<"temp", u>>}
    /\ UNCHANGED final
DeleteFinal(u) ==
    /\ \/ final' = final \ {u} /\ undeleted' = undeleted \ {<<"final", u>>}
       \/ u \in final /\ UNCHANGED final /\ undeleted' = undeleted \cup {<<"final", u>>}
    /\ UNCHANGED temp

-----------------------------------------------------------------------------
\* multer has written the whole file.
Receive(u) ==
    /\ Goes(u, "none", "received")
    /\ temp' = temp \cup {u}
    /\ UNCHANGED <<closed, working, final, undeleted, rows, unconfirmed>>

\* The body does not validate, or the file cannot be read: upload() does not
\* run, or throws, without touching the file.
RejectRequest(u) ==
    /\ Goes(u, "received", "error")
    /\ UNCHANGED <<rules, files, database>>

\* Empty, not the declared image type, or not allowed by the policies.
RejectFile(u) ==
    /\ Goes(u, "received", "error")
    /\ DeleteTemp(u)
    /\ UNCHANGED <<rules, database>>

\* Faulty variant of Allowed: the state of the assignment is not looked at.
AllowedAlways(u) == Role[u] = "customer" => ~closed

\* assertCanUpload, on the rows as they are when it reads them.
Allowed(u) ==
    CASE Role[u] = "customer" -> ~closed
      [] Role[u] = "technician" -> working
      [] Role[u] = "operations" -> TRUE

Admit(u) ==
    /\ Allowed(u)
    /\ Goes(u, "received", "admitted")
    /\ UNCHANGED <<rules, files, database>>

\* Faulty variant of Finalize: the failure of rename() is missed.
FinalizeUnawaited(u) ==
    /\ Goes(u, "admitted", "stored")
    /\ UNCHANGED <<rules, files, database>>

\* finalize: rename() is the only step that moves anything.
Finalize(u) ==
    /\ Goes(u, "admitted", "stored")
    /\ temp' = temp \ {u} /\ final' = final \cup {u}
    /\ UNCHANGED <<rules, undeleted, database>>

FinalizeFails(u) ==
    /\ Goes(u, "admitted", "error")
    /\ DeleteTemp(u)
    /\ UNCHANGED <<rules, database>>

-----------------------------------------------------------------------------
\* The transaction: row, audit and AttachmentUploaded event.
Commit(u) ==
    /\ Goes(u, "stored", "created")
    /\ rows' = rows \cup {u}
    /\ UNCHANGED <<rules, files, unconfirmed>>

CommitFails(u) ==
    /\ Goes(u, "stored", "undo")
    /\ UNCHANGED <<rules, files, database>>

\* The database committed, but the connection broke before it said so.
CommitUnconfirmed(u) ==
    /\ Goes(u, "stored", "undo")
    /\ rows' = rows \cup {u} /\ unconfirmed' = unconfirmed \cup {u}
    /\ UNCHANGED <<rules, files>>

\* Faulty variant of Undo: only the temporary file is deleted, by CleanUp.
UndoNothing(u) ==
    /\ Goes(u, "undo", "error")
    /\ UNCHANGED <<rules, files, database>>

Undo(u) ==
    /\ Goes(u, "undo", "error")
    /\ DeleteFinal(u)
    /\ UNCHANGED <<rules, database>>

\* AttachmentUploadCleanupInterceptor, on every error.
CleanUp(u) ==
    /\ Goes(u, "error", "refused")
    /\ DeleteTemp(u)
    /\ UNCHANGED <<rules, database>>

-----------------------------------------------------------------------------
\* The process stops; a transaction that was not committed is rolled back.
Crash ==
    /\ \E u \in Uploads : stage[u] \in Running
    /\ stage' = [u \in Uploads |-> IF stage[u] \in Running THEN "lost" ELSE stage[u]]
    /\ UNCHANGED <<rules, files, database>>

CloseTicket ==
    /\ ~closed /\ closed' = TRUE
    /\ UNCHANGED <<working, stage, files, database>>

EndAssignment ==
    /\ working /\ working' = FALSE
    /\ UNCHANGED <<closed, stage, files, database>>

Step(u) ==
    \/ RejectRequest(u)
    \/ RejectFile(u)
    \/ Admit(u)
    \/ Finalize(u)
    \/ FinalizeFails(u)
    \/ Commit(u)
    \/ CommitFails(u)
    \/ CommitUnconfirmed(u)
    \/ Undo(u)
    \/ CleanUp(u)

Next ==
    \/ \E u \in Uploads : Receive(u) \/ Step(u)
    \/ Crash
    \/ CloseTicket
    \/ EndAssignment

Spec == Init /\ [][Next]_vars

-----------------------------------------------------------------------------
(* Properties *)

\* An attachment can be downloaded: its row never stands without the file, but
\* for a commit the service took for a failure (upload, openDownloadStream).
RowHasFile == rows \ unconfirmed \subseteq final

\* A request answered with an error leaves no file behind, unless the last
\* attempt to delete it failed: what is left on the disk otherwise is the file of
\* a row, or of a request a crash cut off (upload, intercept).
RefusedLeavesNothing ==
    \A u \in Uploads : stage[u] = "refused" =>
        /\ u \in temp => <<"temp", u>> \in undeleted
        /\ u \in final => <<"final", u>> \in undeleted

Behind(role) ==
    Cardinality({u \in Uploads : /\ Role[u] = role
                                 /\ \/ u \in rows
                                    \/ stage[u] \in {"admitted", "stored"}})

\* Once the ticket is closed, or the assignment has ended, only the uploads
\* already admitted may still become attachments; their number never grows.
LateUploadsDry ==
    [][/\ closed => Behind("customer")' <= Behind("customer")
       /\ ~working => Behind("technician")' <= Behind("technician")]_vars
=============================================================================
