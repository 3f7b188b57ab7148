------------------------- MODULE OrganizerVerification -------------------------
(***************************************************************************)
(* How one organizer is verified: documents are uploaded, confirmed and    *)
(* deleted, policies are accepted, the verification status follows from    *)
(* both, and an administrator approves or rejects.                         *)
(*                                                                         *)
(* Of the handlers of modules/organizer only confirmDocumentUpload runs a  *)
(* transaction, and only for its two UPDATEs of document rows.  Everything *)
(* else is one statement after another, each reading what is committed at  *)
(* that moment: maybeUpdateOrganizerVerificationStatus reads documents,    *)
(* then the organizer row, then the policies, and writes the organizer row *)
(* by id.  The administrator's UPDATEs are conditional and atomic.         *)
(***************************************************************************)
EXTENDS Integers, FiniteSets

CONSTANTS Types,        \* the required document types
          Copies,       \* how often a document of one type may be uploaded
          Requests,     \* concurrent requests of the organizer
          NoDocument    \* a request that works on no document

Documents == Types \X Copies
TypeOf(d) == d[1]

ASSUME VerificationAssumption == Types # {} /\ NoDocument \notin Documents

VARIABLES
    docs,                       \* the status of each verification_documents row
    policiesAccepted,           \* every required policy, at its current version
    verificationStatus,         \* columns of the organizer row:
    isVerified,
    submitted, reviewed, reason,   \* submitted_for_review_at, reviewed_at and
                                   \* rejection_reason: set or NULL
    lastDecision,               \* the newest review row of the audit log
    everComplete,               \* history: all types were uploaded at one moment
    unevaluated,                \* history: a request died with a change it had
                                \* committed not evaluated, or two ran at once, and
                                \* no evaluation has begun alone since
    alone,                      \* history: no two requests ever ran at once
    req

reviewVars == <<submitted, reviewed, reason>>
orgVars == <<verificationStatus, isVerified, reviewVars, lastDecision>>
vars == <<docs, policiesAccepted, orgVars, everComplete, unevaluated, alone, req>>

-----------------------------------------------------------------------------
DocumentStatuses == {"none", "pending", "uploaded", "replaced", "deleted"}
VerificationStatuses == {"pending_documents", "pending_review", "approved", "rejected"}

UploadedTypes == {TypeOf(d) : d \in {x \in Documents : docs[x] = "uploaded"}}
AllDocsUploaded == UploadedTypes = Types
ReadyForReview == AllDocsUploaded /\ policiesAccepted

(* The locals of a request: the document it works on, the rows its first    *)
(* UPDATE found (`rows'), whether it saw all types uploaded (`complete'),   *)
(* and a status: the one it read, later the one it is about to write.      *)
Handlers == [pc : {"idle", "head", "discard", "snapshot", "replace", "commit",
                   "erase", "delete", "documents", "organizer", "policies", "update"},
             doc : Documents \cup {NoDocument},
             rows : SUBSET Documents,
             complete : BOOLEAN,
             seen : VerificationStatuses]
Handler(at, d, rows, complete, seen) ==
    [pc |-> at, doc |-> d, rows |-> rows, complete |-> complete, seen |-> seen]
At(at, d) == Handler(at, d, {}, FALSE, "pending_documents")
Idle == At("idle", NoDocument)
Evaluating == At("documents", NoDocument)

(* A row that an open transaction has updated and not yet committed. *)
LockedForOthers(r, d) ==
    \E s \in Requests \ {r} : req[s].pc = "commit" /\ d \in req[s].rows

Init ==
    /\ docs = [d \in Documents |-> "none"]
    /\ policiesAccepted = FALSE
    /\ verificationStatus = "pending_documents"
    /\ isVerified = FALSE
    /\ submitted = FALSE /\ reviewed = FALSE /\ reason = FALSE
    /\ lastDecision = "none"
    /\ everComplete = FALSE
    /\ unevaluated = FALSE
    /\ alone = TRUE
    /\ req = [r \in Requests |-> Idle]

-----------------------------------------------------------------------------
(* requestDocumentUpload inserts a new pending row. *)
RequestDocumentUpload(d) ==
    /\ docs[d] = "none"
    /\ docs' = [docs EXCEPT ![d] = "pending"]
    /\ UNCHANGED <<policiesAccepted, orgVars, everComplete, unevaluated, alone, req>>

Beside(r) == \E s \in Requests \ {r} : req[s].pc # "idle"

Goto(r, handler) ==
    /\ req' = [req EXCEPT ![r] = handler]
    /\ alone' = (alone /\ ~Beside(r))
DocumentsUntouched == UNCHANGED <<docs, everComplete>>
OrganizerUntouched == UNCHANGED <<policiesAccepted, orgVars, unevaluated>>

(* confirmDocumentUpload: the row is read, and nothing keeps it pending. *)
BeginConfirm(r, d) ==
    /\ req[r].pc = "idle"
    /\ docs[d] = "pending"
    /\ Goto(r, At("head", d))
    /\ unevaluated' = (unevaluated \/ Beside(r))
    /\ DocumentsUntouched
    /\ UNCHANGED <<policiesAccepted, orgVars>>

(* headObject: the object is not there (an error), is too big (its row is  *)
(* discarded, and the request ends in an error) or is as it should be.     *)
HeadObject(r) ==
    /\ req[r].pc = "head"
    /\ \/ Goto(r, Idle)
       \/ Goto(r, At("discard", req[r].doc))
       \/ Goto(r, At("snapshot", req[r].doc))
    /\ DocumentsUntouched /\ OrganizerUntouched

(* The transaction begins: its first UPDATE takes a snapshot and finds the *)
(* uploaded rows of the same type ...                                      *)
FindUploaded(r) ==
    LET d == req[r].doc
        found == {x \in Documents : TypeOf(x) = TypeOf(d) /\ docs[x] = "uploaded"}
    IN /\ req[r].pc = "snapshot"
       /\ Goto(r, Handler("replace", d, found, FALSE, "pending_documents"))
       /\ DocumentsUntouched /\ OrganizerUntouched

(* ... waits for those that are locked, and marks the ones still uploaded. *)
ReplaceUploaded(r) ==
    /\ req[r].pc = "replace"
    /\ \A x \in req[r].rows : ~LockedForOthers(r, x)
    /\ Goto(r, Handler("commit", req[r].doc,
                       {x \in req[r].rows : docs[x] = "uploaded"},
                       FALSE, "pending_documents"))
    /\ DocumentsUntouched /\ OrganizerUntouched

KeepPrevious(d, rows, x) ==                                             \* mutant
    IF x = d THEN "uploaded" ELSE docs[x]
AfterConfirm(d, rows, x) ==
    IF x = d THEN "uploaded" ELSE IF x \in rows THEN "replaced" ELSE docs[x]

(* The second UPDATE is by id alone, whatever the row has become; COMMIT.  *)
CommitUpload(r) ==
    LET d == req[r].doc IN
    /\ req[r].pc = "commit"
    /\ ~LockedForOthers(r, d)
    /\ docs' = [x \in Documents |-> AfterConfirm(d, req[r].rows, x)]
    /\ everComplete' = (everComplete \/ AllDocsUploaded')
    /\ Goto(r, Evaluating)
    /\ OrganizerUntouched

(* deleteVerificationDocument: read the row, delete the object (a failure  *)
(* is only logged), mark the row by id.                                    *)
BeginDelete(r, d) ==
    /\ req[r].pc = "idle"
    /\ docs[d] \in {"pending", "uploaded"}
    /\ Goto(r, At("erase", d))
    /\ unevaluated' = (unevaluated \/ Beside(r))
    /\ DocumentsUntouched
    /\ UNCHANGED <<policiesAccepted, orgVars>>

EraseObject(r) ==
    /\ req[r].pc = "erase"
    /\ Goto(r, At("delete", req[r].doc))
    /\ DocumentsUntouched /\ OrganizerUntouched

NeverEvaluated(handler) == Idle                                         \* mutant
AfterDeletion(handler) == IF handler.pc = "delete" THEN Evaluating ELSE Idle

(* Only a deletion the organizer asked for is followed by an evaluation.   *)
MarkDeleted(r) ==
    /\ req[r].pc \in {"delete", "discard"}
    /\ ~LockedForOthers(r, req[r].doc)
    /\ docs' = [docs EXCEPT ![req[r].doc] = "deleted"]
    /\ Goto(r, AfterDeletion(req[r]))
    /\ UNCHANGED everComplete
    /\ OrganizerUntouched

(* acceptPolicies, for some or for all that were still missing, and the    *)
(* route's evaluation after it.                                            *)
AcceptPolicies(r) ==
    /\ req[r].pc = "idle"
    /\ policiesAccepted' \in {policiesAccepted, TRUE}
    /\ Goto(r, Evaluating)
    /\ unevaluated' = (unevaluated \/ Beside(r))
    /\ DocumentsUntouched
    /\ UNCHANGED orgVars

-----------------------------------------------------------------------------
(* maybeUpdateOrganizerVerificationStatus, one query after the other. *)
CountPending ==                                                         \* mutant
    {TypeOf(d) : d \in {x \in Documents : docs[x] \in {"pending", "uploaded"}}} = Types
SeesAllUploaded == AllDocsUploaded

ReadDocuments(r) ==
    /\ req[r].pc = "documents"
    /\ Goto(r, Handler("organizer", NoDocument, {}, SeesAllUploaded, "pending_documents"))
    /\ unevaluated' = Beside(r)
    /\ DocumentsUntouched
    /\ UNCHANGED <<policiesAccepted, orgVars>>

ReadOrganizer(r) ==
    /\ req[r].pc = "organizer"
    /\ \/ /\ verificationStatus = "approved"
          /\ Goto(r, Idle)
       \/ /\ verificationStatus # "approved"
          /\ Goto(r, Handler("policies", NoDocument, {}, req[r].complete, verificationStatus))
    /\ DocumentsUntouched /\ OrganizerUntouched

(* The new status, or the current one when nothing is to be written. *)
NewStatus(ready, current) ==
    IF ready /\ current \in {"pending_documents", "rejected"} THEN "pending_review"
    ELSE IF ~ready /\ current = "pending_review" THEN "pending_documents"
    ELSE current

ReadPolicies(r) ==
    LET current == req[r].seen
        new == NewStatus(req[r].complete /\ policiesAccepted, current)
    IN /\ req[r].pc = "policies"
       /\ \/ /\ new # current
             /\ Goto(r, Handler("update", NoDocument, {}, FALSE, new))
          \/ /\ new = current
             /\ Goto(r, Idle)
       /\ DocumentsUntouched /\ OrganizerUntouched

KeepReviewFields(new) ==                                                \* mutant
    submitted' = (new = "pending_review") /\ UNCHANGED <<reviewed, reason>>
ResetReviewFields(new) ==
    /\ submitted' = (new = "pending_review")
    /\ reviewed' = FALSE
    /\ reason' = FALSE

(* The UPDATE names the organizer by id, without the status it was read in.*)
UpdateStatus(r) ==
    /\ req[r].pc = "update"
    /\ verificationStatus' = req[r].seen
    /\ ResetReviewFields(req[r].seen)
    /\ Goto(r, Idle)
    /\ DocumentsUntouched
    /\ UNCHANGED <<policiesAccepted, isVerified, lastDecision, unevaluated>>

-----------------------------------------------------------------------------
RecordDecisionOnly(decision, verified) ==                               \* mutant
    lastDecision' = decision /\ UNCHANGED isVerified
RecordDecision(decision, verified) ==
    /\ lastDecision' = decision
    /\ isVerified' = verified

(* approveOrganizer and rejectOrganizer: a conditional UPDATE and its audit*)
(* row in one transaction.                                                 *)
ApproveOrganizer ==
    /\ verificationStatus = "pending_review"
    /\ verificationStatus' = "approved"
    /\ reviewed' = TRUE
    /\ RecordDecision("approve", TRUE)
    /\ DocumentsUntouched
    /\ UNCHANGED <<policiesAccepted, submitted, reason, unevaluated, alone, req>>

RejectOrganizer ==
    /\ verificationStatus = "pending_review"
    /\ verificationStatus' = "rejected"
    /\ reviewed' = TRUE
    /\ reason' = TRUE
    /\ RecordDecision("reject", FALSE)
    /\ DocumentsUntouched
    /\ UNCHANGED <<policiesAccepted, submitted, unevaluated, alone, req>>

(* The API process dies: an open transaction is rolled back, and what the  *)
(* request had committed is left without its evaluation.                   *)
Crash(r) ==
    /\ req[r].pc # "idle"
    /\ Goto(r, Idle)
    /\ unevaluated' =
          (unevaluated \/ req[r].pc \in {"documents", "organizer", "policies", "update"})
    /\ DocumentsUntouched
    /\ UNCHANGED <<policiesAccepted, orgVars>>

RequestStep(r) ==
    \/ HeadObject(r) \/ FindUploaded(r) \/ ReplaceUploaded(r) \/ CommitUpload(r)
    \/ EraseObject(r) \/ MarkDeleted(r)
    \/ ReadDocuments(r) \/ ReadOrganizer(r) \/ ReadPolicies(r) \/ UpdateStatus(r)

Next ==
    \/ \E d \in Documents : RequestDocumentUpload(d)
    \/ \E r \in Requests, d \in Documents : BeginConfirm(r, d) \/ BeginDelete(r, d)
    \/ \E r \in Requests : RequestStep(r) \/ AcceptPolicies(r) \/ Crash(r)
    \/ ApproveOrganizer
    \/ RejectOrganizer

Spec == Init /\ [][Next]_vars

-----------------------------------------------------------------------------
(* Every column and every local stays within the values it may hold.       *)
TypeOK ==
    /\ docs \in [Documents -> DocumentStatuses]
    /\ policiesAccepted \in BOOLEAN
    /\ verificationStatus \in VerificationStatuses
    /\ isVerified \in BOOLEAN
    /\ submitted \in BOOLEAN /\ reviewed \in BOOLEAN /\ reason \in BOOLEAN
    /\ lastDecision \in {"none", "approve", "reject"}
    /\ everComplete \in BOOLEAN
    /\ unevaluated \in BOOLEAN /\ alone \in BOOLEAN
    /\ req \in [Requests -> Handlers]

(* No organizer is decided upon before a document of every required type   *)
(* had been uploaded at one moment and all policies were accepted, however *)
(* the evaluation's three reads fall between the writes of other requests. *)
DecidedOnlyAfterComplete ==
    lastDecision # "none" => everComplete /\ policiesAccepted

(* The review columns tell the status of the review they belong to: an     *)
(* organizer in the queue carries nothing of an earlier review, and an     *)
(* approved one no rejection reason, also after overlapping evaluations    *)
(* and decisions have written the row in any order.                        *)
ReviewFieldsAgree ==
    /\ submitted <=> verificationStatus # "pending_documents"
    /\ reviewed <=> verificationStatus \in {"approved", "rejected"}
    /\ reason <=> verificationStatus = "rejected"

(* is_verified, which opens publishing, is what the newest review row of   *)
(* the audit log says, although evaluations move the status under both.    *)
VerifiedAsAudited == isVerified <=> lastDecision = "approve"

Settled == ~unevaluated /\ \A r \in Requests : req[r].pc = "idle"

(* Once an evaluation has begun with no other request running and none has *)
(* begun beside it or died since, the status fits the documents and        *)
(* policies, whatever happened before: only a ready organizer is in the    *)
(* review queue and a ready one is not left waiting for documents.         *)
SettledStatusFitsReadiness ==
    Settled => /\ verificationStatus = "pending_review" => ReadyForReview
               /\ verificationStatus = "pending_documents" => ~ReadyForReview

(* A new document replaces the one uploaded before: as long as requests    *)
(* come one after the other, no type is ever uploaded twice, whatever is   *)
(* confirmed, deleted or cut short in which order.                         *)
OneUploadedPerType ==
    alone => \A c, d \in Documents :
        docs[c] = "uploaded" /\ docs[d] = "uploaded" /\ TypeOf(c) = TypeOf(d) => c = d

(* What the comment of maybeUpdateOrganizerVerificationStatus promises:    *)
(* status "approved" is never changed.                                     *)
ApprovedIsNeverChanged ==
    [][verificationStatus = "approved" => verificationStatus' = "approved"]_vars
=============================================================================
