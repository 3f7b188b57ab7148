---------------------- MODULE OrganizerVerificationProofs ----------------------
(***************************************************************************)
(* Proofs about OrganizerVerification for every set of document types,     *)
(* every number of uploads of each and every number of requests.           *)
(***************************************************************************)
EXTENDS OrganizerVerification, TLAPS

Points == {"idle", "head", "discard", "snapshot", "replace", "commit", "erase",
           "delete", "documents", "organizer", "policies", "update"}

(* The locals a handler is given are well-formed and are what was put in.  *)
LEMMA HandlerType ==
    /\ \A at \in Points, d \in Documents \cup {NoDocument}, rows \in SUBSET Documents,
          complete \in BOOLEAN, seen \in VerificationStatuses :
          /\ Handler(at, d, rows, complete, seen) \in Handlers
          /\ Handler(at, d, rows, complete, seen).pc = at
          /\ Handler(at, d, rows, complete, seen).complete = complete
          /\ Handler(at, d, rows, complete, seen).seen = seen
    /\ \A at \in Points, d \in Documents \cup {NoDocument} :
          /\ At(at, d) \in Handlers
          /\ At(at, d).pc = at
          /\ At(at, d).complete = FALSE
          /\ At(at, d).seen = "pending_documents"
    /\ Idle \in Handlers /\ Idle.pc = "idle" /\ Idle.complete = FALSE
    /\ Evaluating \in Handlers /\ Evaluating.pc = "documents"
    /\ Evaluating.complete = FALSE
BY DEF Handler, At, Idle, Evaluating, Handlers, Points, VerificationStatuses

(* The fields of a handler that is known to be one. *)
LEMMA HandlerOfType ==
    ASSUME NEW h \in Handlers
    PROVE  /\ h.pc \in Points
           /\ h.doc \in Documents \cup {NoDocument}
           /\ h.rows \in SUBSET Documents
           /\ h.complete \in BOOLEAN
           /\ h.seen \in VerificationStatuses
BY DEF Handlers, Points

(* An evaluation writes a status other than the one it read, and then only *)
(* one of the two that are no decision.                                    *)
LEMMA NewStatusCases ==
    \A ready \in BOOLEAN, current \in VerificationStatuses :
       /\ NewStatus(ready, current) \in VerificationStatuses
       /\ NewStatus(ready, current) # current =>
             \/ NewStatus(ready, current) = "pending_review" /\ ready
             \/ NewStatus(ready, current) = "pending_documents"
BY DEF NewStatus, VerificationStatuses

-----------------------------------------------------------------------------
(* The inductive invariant.  What a request remembers was true at some     *)
(* moment: it saw all types uploaded only if they once were, and it is     *)
(* about to move the organizer into the queue only if the policies were    *)
(* accepted as well.  Both facts last, so they still hold when it writes.  *)
Sound(h) ==
    /\ h.complete => everComplete
    /\ h.pc = "update" =>
          \/ h.seen = "pending_review" /\ everComplete /\ policiesAccepted
          \/ h.seen = "pending_documents"

RequestsSound ==
    /\ req \in [Requests -> Handlers]
    /\ alone \in BOOLEAN
    /\ \A r \in Requests : Sound(req[r])

DocumentsSound ==
    /\ docs \in [Documents -> DocumentStatuses]
    /\ everComplete \in BOOLEAN
    /\ AllDocsUploaded => everComplete

OrganizerSound ==
    /\ policiesAccepted \in BOOLEAN
    /\ verificationStatus \in VerificationStatuses
    /\ isVerified \in BOOLEAN
    /\ submitted \in BOOLEAN /\ reviewed \in BOOLEAN /\ reason \in BOOLEAN
    /\ lastDecision \in {"none", "approve", "reject"}
    /\ unevaluated \in BOOLEAN
    /\ verificationStatus # "pending_documents" => everComplete /\ policiesAccepted
    /\ DecidedOnlyAfterComplete
    /\ ReviewFieldsAgree
    /\ VerifiedAsAudited

Inv == RequestsSound /\ DocumentsSound /\ OrganizerSound

(* Replacing the locals of one request by sound ones keeps all sound, as   *)
(* long as the two facts they rest on stay true.                           *)
LEMMA ReplaceLocals ==
    ASSUME RequestsSound, NEW r \in Requests, NEW h \in Handlers, Sound(h)',
           everComplete => everComplete', policiesAccepted => policiesAccepted',
           Goto(r, h)
    PROVE  RequestsSound'
<1>1. req' \in [Requests -> Handlers] /\ alone' \in BOOLEAN
  BY DEF RequestsSound, Goto
<1>2. ASSUME NEW s \in Requests PROVE Sound(req[s])'
  <2>1. CASE s = r
    BY <2>1 DEF Goto, RequestsSound, Sound
  <2>2. CASE s # r
    <3>1. req'[s] = req[s] /\ Sound(req[s])
      BY <2>2 DEF Goto, RequestsSound
    <3> QED
      BY <3>1 DEF Sound
  <2> QED
    BY <2>1, <2>2
<1> QED
  BY <1>1, <1>2 DEF RequestsSound

(* At leaves nothing to be sound about, unless it begins an UPDATE. *)
LEMMA BlankLocals ==
    /\ \A at \in Points \ {"update"}, d \in Documents \cup {NoDocument} :
          At(at, d) \in Handlers /\ Sound(At(at, d))'
    /\ Idle \in Handlers /\ Sound(Idle)'
    /\ Evaluating \in Handlers /\ Sound(Evaluating)'
<1>1. /\ \A at \in Points, d \in Documents \cup {NoDocument} :
            /\ At(at, d) \in Handlers
            /\ At(at, d).pc = at /\ ~At(at, d).complete
      /\ Idle \in Handlers /\ Idle.pc = "idle" /\ ~Idle.complete
      /\ Evaluating \in Handlers /\ Evaluating.pc = "documents" /\ ~Evaluating.complete
  BY HandlerType, Zenon
<1>2. ASSUME NEW h \in Handlers, ~h.complete, h.pc # "update" PROVE Sound(h)'
  BY <1>2 DEF Sound
<1> QED
  BY <1>1, <1>2

(* Rewriting document rows can complete the set only through a new upload. *)
LEMMA NoNewUploads ==
    ASSUME docs \in [Documents -> DocumentStatuses],
           docs' \in [Documents -> DocumentStatuses],
           \A d \in Documents : docs'[d] = "uploaded" => docs[d] = "uploaded"
    PROVE  AllDocsUploaded' => AllDocsUploaded
<1>1. UploadedTypes' \subseteq UploadedTypes
  BY DEF UploadedTypes
<1>2. UploadedTypes \subseteq Types
  BY DEF UploadedTypes, Documents, TypeOf
<1> QED
  BY <1>1, <1>2 DEF AllDocsUploaded

(* The steps that leave the documents alone, and those that leave the      *)
(* organizer row alone, keep what is known of each.                        *)
LEMMA DocumentsKept ==
    ASSUME DocumentsSound, DocumentsUntouched
    PROVE  DocumentsSound' /\ everComplete' = everComplete
BY DEF DocumentsSound, DocumentsUntouched, AllDocsUploaded, UploadedTypes

LEMMA OrganizerKept ==
    ASSUME OrganizerSound, OrganizerUntouched, everComplete => everComplete',
           everComplete' \in BOOLEAN
    PROVE  OrganizerSound' /\ policiesAccepted' = policiesAccepted
BY DEF OrganizerSound, OrganizerUntouched, orgVars, reviewVars,
       DecidedOnlyAfterComplete, ReviewFieldsAgree, VerifiedAsAudited

-----------------------------------------------------------------------------
(* The steps of a request that has begun. *)
LEMMA RequestSteps ==
    ASSUME Inv, NEW r \in Requests, RequestStep(r)
    PROVE  Inv'
<1> DEFINE h == req[r]
<1>1. /\ h \in Handlers /\ Sound(h)
      /\ h.doc \in Documents \cup {NoDocument} /\ h.rows \in SUBSET Documents
      /\ h.complete \in BOOLEAN /\ h.seen \in VerificationStatuses
  BY HandlerOfType DEF Inv, RequestsSound
<1>2. policiesAccepted \in BOOLEAN /\ verificationStatus \in VerificationStatuses
  BY DEF Inv, OrganizerSound
<1>3. ASSUME NEW g \in Handlers, Sound(g)', Goto(r, g), DocumentsUntouched,
             OrganizerUntouched
      PROVE  Inv'
  <2>1. DocumentsSound' /\ everComplete' = everComplete
    BY <1>3, DocumentsKept DEF Inv
  <2>2. OrganizerSound' /\ policiesAccepted' = policiesAccepted
    BY <1>3, <2>1, OrganizerKept DEF Inv, DocumentsSound
  <2>3. RequestsSound'
    BY <1>3, <2>1, <2>2, ReplaceLocals DEF Inv
  <2> QED
    BY <2>1, <2>2, <2>3 DEF Inv
<1>4. ASSUME HeadObject(r) PROVE Inv'
  BY <1>1, <1>3, <1>4, BlankLocals DEF HeadObject, Points
<1>5. ASSUME NEW at \in {"replace", "commit"}, NEW d \in Documents \cup {NoDocument},
             NEW rows \in SUBSET Documents,
             Goto(r, Handler(at, d, rows, FALSE, "pending_documents")),
             DocumentsUntouched, OrganizerUntouched
      PROVE  Inv'
  <2> DEFINE g == Handler(at, d, rows, FALSE, "pending_documents")
  <2>1. g \in Handlers /\ g.pc = at /\ g.complete = FALSE
    BY DEF Handler, Handlers, VerificationStatuses
  <2>2. Goto(r, g)
    BY <1>5
  <2>3. PICK k \in Handlers : k = g
    BY <2>1
  <2>4. Sound(k)' /\ Goto(r, k)
    BY <2>1, <2>2, <2>3 DEF Sound
  <2> QED
    BY <1>3, <1>5, <2>4
<1>6. ASSUME FindUploaded(r) PROVE Inv'
  <2> DEFINE rows == {x \in Documents : TypeOf(x) = TypeOf(h.doc) /\ docs[x] = "uploaded"}
  <2>1. /\ Goto(r, Handler("replace", h.doc, rows, FALSE, "pending_documents"))
        /\ DocumentsUntouched /\ OrganizerUntouched
    BY <1>6 DEF FindUploaded
  <2>2. rows \in SUBSET Documents
    OBVIOUS
  <2> HIDE DEF rows
  <2> QED
    BY <1>1, <1>5, <2>1, <2>2
<1>7. ASSUME ReplaceUploaded(r) PROVE Inv'
  <2> DEFINE rows == {x \in h.rows : docs[x] = "uploaded"}
  <2>1. rows \in SUBSET Documents
    BY <1>1
  <2>2. Goto(r, Handler("commit", h.doc, rows, FALSE, "pending_documents"))
    BY <1>7 DEF ReplaceUploaded
  <2> HIDE DEF rows
  <2>3. DocumentsUntouched /\ OrganizerUntouched
    BY <1>7 DEF ReplaceUploaded
  <2> QED
    BY <1>1, <1>5, <2>1, <2>2, <2>3
<1>8. ASSUME CommitUpload(r) PROVE Inv'
  <2>1. docs' \in [Documents -> DocumentStatuses]
    BY <1>8 DEF CommitUpload, AfterConfirm, Inv, DocumentsSound, DocumentStatuses
  <2>2. AllDocsUploaded' \in BOOLEAN
    BY DEF AllDocsUploaded
  <2>3. DocumentsSound' /\ (everComplete => everComplete')
    BY <1>8, <2>1, <2>2 DEF CommitUpload, Inv, DocumentsSound
  <2>4. OrganizerSound' /\ policiesAccepted' = policiesAccepted
    BY <1>8, <2>3, OrganizerKept DEF CommitUpload, Inv, DocumentsSound
  <2>5. RequestsSound'
    BY <1>8, <2>3, <2>4, BlankLocals, ReplaceLocals DEF CommitUpload, Inv
  <2> QED
    BY <2>3, <2>4, <2>5 DEF Inv
<1>9. ASSUME EraseObject(r) PROVE Inv'
  BY <1>1, <1>3, <1>9, BlankLocals DEF EraseObject, Points
<1>10. ASSUME MarkDeleted(r) PROVE Inv'
  <2>1. docs' \in [Documents -> DocumentStatuses]
    BY <1>10 DEF MarkDeleted, Inv, DocumentsSound, DocumentStatuses
  <2>2. AllDocsUploaded' => AllDocsUploaded
    BY <1>10, <2>1, NoNewUploads DEF MarkDeleted, Inv, DocumentsSound
  <2>3. DocumentsSound' /\ everComplete' = everComplete
    BY <1>10, <2>1, <2>2 DEF MarkDeleted, Inv, DocumentsSound
  <2>4. OrganizerSound' /\ policiesAccepted' = policiesAccepted
    BY <1>10, <2>3, OrganizerKept DEF MarkDeleted, Inv, DocumentsSound
  <2>5. RequestsSound'
    BY <1>10, <2>3, <2>4, BlankLocals, ReplaceLocals DEF MarkDeleted, AfterDeletion, Inv
  <2> QED
    BY <2>3, <2>4, <2>5 DEF Inv
<1>11. ASSUME ReadDocuments(r) PROVE Inv'
  <2> DEFINE g == Handler("organizer", NoDocument, {}, SeesAllUploaded, "pending_documents")
  <2>1. SeesAllUploaded \in BOOLEAN /\ (SeesAllUploaded => everComplete)
    BY DEF SeesAllUploaded, AllDocsUploaded, Inv, DocumentsSound
  <2>2. /\ g \in Handlers /\ g.pc = "organizer" /\ (g.complete => everComplete)
        /\ Goto(r, g)
    BY <1>11, <2>1 DEF Handler, Handlers, VerificationStatuses, ReadDocuments
  <2>3. DocumentsSound' /\ everComplete' = everComplete
    BY <1>11, DocumentsKept DEF ReadDocuments, Inv
  <2>4. OrganizerSound' /\ policiesAccepted' = policiesAccepted
    BY <1>11, <2>3 DEF ReadDocuments, Beside, Inv, OrganizerSound, orgVars, reviewVars,
       DecidedOnlyAfterComplete, ReviewFieldsAgree, VerifiedAsAudited
  <2>5. RequestsSound'
    <3>1. PICK k \in Handlers : k = g
      BY <2>2
    <3>2. Sound(k)' /\ Goto(r, k)
      BY <2>2, <2>3, <3>1 DEF Sound
    <3> QED
      BY <2>3, <2>4, <3>2, ReplaceLocals DEF Inv
  <2> QED
    BY <2>3, <2>4, <2>5 DEF Inv
<1>12. ASSUME ReadOrganizer(r) PROVE Inv'
  <2>1. CASE Goto(r, Idle)
    BY <1>3, <1>12, <2>1, BlankLocals DEF ReadOrganizer
  <2>2. CASE Goto(r, Handler("policies", NoDocument, {}, req[r].complete, verificationStatus))
    <3> DEFINE g == Handler("policies", NoDocument, {}, h.complete, verificationStatus)
    <3>0. g \in Handlers /\ g.pc = "policies" /\ g.complete = h.complete
      BY <1>1, <1>2 DEF Handler, Handlers
    <3>1. PICK k \in Handlers : k = g
      BY <3>0
    <3>2. everComplete' = everComplete
      BY <1>12 DEF ReadOrganizer, DocumentsUntouched
    <3>3. Sound(k)' /\ Goto(r, k)
      BY <1>1, <2>2, <3>0, <3>1, <3>2 DEF Sound
    <3> QED
      BY <1>3, <1>12, <3>3 DEF ReadOrganizer
  <2> QED
    BY <1>12, <2>1, <2>2 DEF ReadOrganizer
<1>13. ASSUME ReadPolicies(r) PROVE Inv'
  <2> DEFINE ready == h.complete /\ policiesAccepted
             new == NewStatus(ready, h.seen)
  <2>1. CASE Goto(r, Idle)
    BY <1>3, <1>13, <2>1, BlankLocals DEF ReadPolicies
  <2>2. CASE new # h.seen /\ Goto(r, Handler("update", NoDocument, {}, FALSE, new))
    <3>1. ready \in BOOLEAN /\ (ready => everComplete /\ policiesAccepted)
      BY <1>1, <1>2 DEF Sound
    <3>2. /\ new \in VerificationStatuses
          /\ \/ new = "pending_review" /\ everComplete /\ policiesAccepted
             \/ new = "pending_documents"
      BY <1>1, <2>2, <3>1, NewStatusCases
    <3> DEFINE g == Handler("update", NoDocument, {}, FALSE, new)
    <3> HIDE DEF new
    <3>6. g \in Handlers /\ g.complete = FALSE /\ g.seen = new
      BY <3>2 DEF Handler, Handlers
    <3>3. PICK k \in Handlers : k = g
      BY <3>6
    <3>4. everComplete' = everComplete /\ policiesAccepted' = policiesAccepted
      BY <1>13 DEF ReadPolicies, DocumentsUntouched, OrganizerUntouched
    <3>5. Sound(k)' /\ Goto(r, k)
      BY <2>2, <3>2, <3>6, <3>3, <3>4 DEF Sound
    <3> QED
      BY <1>3, <1>13, <3>5 DEF ReadPolicies
  <2> QED
    BY <1>13, <2>1, <2>2 DEF ReadPolicies
<1>14. ASSUME UpdateStatus(r) PROVE Inv'
  <2>1. /\ h.seen = "pending_review" /\ everComplete /\ policiesAccepted
        \/ h.seen = "pending_documents"
    BY <1>1, <1>14 DEF UpdateStatus, Sound
  <2>2. DocumentsSound' /\ everComplete' = everComplete
    BY <1>14, DocumentsKept DEF UpdateStatus, Inv
  <2>3. OrganizerSound' /\ policiesAccepted' = policiesAccepted
    BY <1>1, <1>14, <2>1, <2>2 DEF UpdateStatus, ResetReviewFields, Inv, OrganizerSound,
       VerificationStatuses, DecidedOnlyAfterComplete, ReviewFieldsAgree, VerifiedAsAudited
  <2>4. RequestsSound'
    BY <1>14, <2>2, <2>3, BlankLocals, ReplaceLocals DEF UpdateStatus, Inv
  <2> QED
    BY <2>2, <2>3, <2>4 DEF Inv
<1> QED
  BY <1>4, <1>6, <1>7, <1>8, <1>9, <1>10, <1>11, <1>12, <1>13, <1>14 DEF RequestStep

(* Every step keeps the invariant: those of a request that has begun (above),*)
LEMMA Inductive ==
    ASSUME Inv, [Next]_vars
    PROVE  Inv'
<1>1. ASSUME NEW r \in Requests, RequestStep(r) PROVE Inv'
  BY <1>1, RequestSteps
<1>2. ASSUME NEW d \in Documents, RequestDocumentUpload(d) PROVE Inv'
  <2>1. docs' \in [Documents -> DocumentStatuses]
    BY <1>2 DEF RequestDocumentUpload, Inv, DocumentsSound, DocumentStatuses
  <2>2. AllDocsUploaded' => AllDocsUploaded
    BY <1>2, <2>1, NoNewUploads DEF RequestDocumentUpload, Inv, DocumentsSound
  <2> QED
    BY <1>2, <2>1, <2>2 DEF RequestDocumentUpload, Inv, DocumentsSound, OrganizerSound,
       RequestsSound, Sound, orgVars, reviewVars,
       DecidedOnlyAfterComplete, ReviewFieldsAgree, VerifiedAsAudited
<1>3. ASSUME NEW r \in Requests, NEW d \in Documents, BeginConfirm(r, d) \/ BeginDelete(r, d)
      PROVE  Inv'
  <2>1. /\ DocumentsUntouched /\ UNCHANGED <<policiesAccepted, orgVars>>
        /\ unevaluated' \in BOOLEAN
        /\ \E at \in {"head", "erase"} : Goto(r, At(at, d))
    BY <1>3 DEF BeginConfirm, BeginDelete, Inv, OrganizerSound
  <2>2. /\ DocumentsSound' /\ everComplete' = everComplete
        /\ OrganizerSound' /\ policiesAccepted' = policiesAccepted
    BY <2>1, DocumentsKept DEF Inv, OrganizerSound, orgVars, reviewVars,
       DecidedOnlyAfterComplete, ReviewFieldsAgree, VerifiedAsAudited
  <2>3. RequestsSound'
    BY <2>1, <2>2, BlankLocals, ReplaceLocals DEF Inv, Points
  <2> QED
    BY <2>2, <2>3 DEF Inv
<1>4. ASSUME NEW r \in Requests, AcceptPolicies(r) \/ Crash(r) PROVE Inv'
  <2>1. DocumentsSound' /\ everComplete' = everComplete
    BY <1>4, DocumentsKept DEF AcceptPolicies, Crash, Inv
  <2>2. /\ policiesAccepted' \in BOOLEAN /\ (policiesAccepted => policiesAccepted')
        /\ unevaluated' \in BOOLEAN /\ UNCHANGED orgVars
    BY <1>4 DEF AcceptPolicies, Crash, Inv, OrganizerSound
  <2>5. OrganizerSound'
    BY <2>1, <2>2 DEF Inv, OrganizerSound, orgVars, reviewVars,
       DecidedOnlyAfterComplete, ReviewFieldsAgree, VerifiedAsAudited
  <2>3. RequestsSound'
    BY <1>4, <2>1, <2>2, BlankLocals, ReplaceLocals DEF AcceptPolicies, Crash, Inv
  <2> QED
    BY <2>1, <2>5, <2>3 DEF Inv
<1>5. ASSUME ApproveOrganizer PROVE Inv'
  <2>1. DocumentsSound' /\ everComplete' = everComplete
    BY <1>5, DocumentsKept DEF ApproveOrganizer, Inv
  <2>2. policiesAccepted' = policiesAccepted /\ req' = req /\ alone' = alone
    BY <1>5 DEF ApproveOrganizer
  <2>3. RequestsSound'
    BY <2>1, <2>2 DEF Inv, RequestsSound, Sound
  <2>4. OrganizerSound'
    BY <1>5, <2>1 DEF ApproveOrganizer, RecordDecision, Inv, OrganizerSound,
       VerificationStatuses, DecidedOnlyAfterComplete, ReviewFieldsAgree, VerifiedAsAudited
  <2> QED
    BY <2>1, <2>3, <2>4 DEF Inv
<1>6. ASSUME RejectOrganizer PROVE Inv'
  <2>1. DocumentsSound' /\ everComplete' = everComplete
    BY <1>6, DocumentsKept DEF RejectOrganizer, Inv
  <2>2. policiesAccepted' = policiesAccepted /\ req' = req /\ alone' = alone
    BY <1>6 DEF RejectOrganizer
  <2>3. RequestsSound'
    BY <2>1, <2>2 DEF Inv, RequestsSound, Sound
  <2>4. OrganizerSound'
    BY <1>6, <2>1 DEF RejectOrganizer, RecordDecision, Inv, OrganizerSound,
       VerificationStatuses, DecidedOnlyAfterComplete, ReviewFieldsAgree, VerifiedAsAudited
  <2> QED
    BY <2>1, <2>3, <2>4 DEF Inv
<1>7. ASSUME UNCHANGED vars PROVE Inv'
  BY <1>7 DEF vars, orgVars, reviewVars, Inv, DocumentsSound, AllDocsUploaded,
     UploadedTypes, OrganizerSound, RequestsSound, Sound,
     DecidedOnlyAfterComplete, ReviewFieldsAgree, VerifiedAsAudited
<1> QED
  BY <1>1, <1>2, <1>3, <1>4, <1>5, <1>6, <1>7, Zenon DEF Next

(* Inv holds of every reachable state. *)
LEMMA Invariance == Spec => []Inv
<1>1. Init => Inv
  <2> SUFFICES ASSUME Init PROVE Inv
    OBVIOUS
  <2>1. UploadedTypes = {}
    BY DEF Init, UploadedTypes
  <2>2. DocumentsSound
    BY <2>1, VerificationAssumption DEF Init, DocumentsSound, AllDocsUploaded, DocumentStatuses
  <2>3. OrganizerSound
    BY DEF Init, OrganizerSound, VerificationStatuses, DecidedOnlyAfterComplete,
       ReviewFieldsAgree, VerifiedAsAudited
  <2>4. RequestsSound
    BY HandlerType DEF Init, RequestsSound, Sound
  <2> QED
    BY <2>2, <2>3, <2>4 DEF Inv
<1> QED
  BY <1>1, Inductive, PTL DEF Spec

(* Every column and every local stays in its type, whatever overlaps.      *)
THEOREM TypeCorrect == Spec => []TypeOK
<1>1. Inv => TypeOK
  BY DEF Inv, RequestsSound, DocumentsSound, OrganizerSound, TypeOK
<1> QED
  BY <1>1, Invariance, PTL

(* No administrator decides upon an organizer who never had all documents  *)
(* uploaded at one moment, or who has not accepted all policies.           *)
THEOREM DecisionAfterComplete == Spec => []DecidedOnlyAfterComplete
<1>1. Inv => DecidedOnlyAfterComplete
  BY DEF Inv, OrganizerSound
<1> QED
  BY <1>1, Invariance, PTL

(* The review columns always belong to the status beside them.             *)
THEOREM ReviewFields == Spec => []ReviewFieldsAgree
<1>1. Inv => ReviewFieldsAgree
  BY DEF Inv, OrganizerSound
<1> QED
  BY <1>1, Invariance, PTL

(* is_verified is what the newest review row of the audit log says.        *)
THEOREM VerifiedIsAudited == Spec => []VerifiedAsAudited
<1>1. Inv => VerifiedAsAudited
  BY DEF Inv, OrganizerSound
<1> QED
  BY <1>1, Invariance, PTL

-----------------------------------------------------------------------------
(* As long as no two requests ran at once, the rows a confirmation has     *)
(* found are all that are uploaded of its type, so it leaves none beside   *)
(* its own.                                                                *)
FoundAll(h) ==
    h.pc \in {"replace", "commit"} =>
        \A x \in Documents : TypeOf(x) = TypeOf(h.doc) /\ docs[x] = "uploaded" => x \in h.rows

OneInv == alone => OneUploadedPerType /\ \A r \in Requests : FoundAll(req[r])

(* A step of r on locals h: nobody else is between its first and last step.*)
LEMMA OneStep ==
    ASSUME Inv, OneInv, NEW r \in Requests, NEW h \in Handlers, Goto(r, h),
           alone' => OneUploadedPerType' /\ FoundAll(h)'
    PROVE  OneInv'
<1> SUFFICES ASSUME alone' PROVE OneUploadedPerType' /\ \A s \in Requests : FoundAll(req[s])'
  BY DEF OneInv
<1>1. /\ \A s \in Requests \ {r} : req'[s] = req[s] /\ req[s].pc = "idle"
      /\ req'[r] = h
  BY DEF Goto, Beside, Inv, RequestsSound
<1>2. ASSUME NEW s \in Requests PROVE FoundAll(req[s])'
  BY <1>1 DEF FoundAll
<1> QED
  BY <1>2

(* Steps that upload nothing keep a single upload single. *)
LEMMA NothingUploaded ==
    ASSUME OneUploadedPerType, alone' => alone,
           \A d \in Documents : docs'[d] = "uploaded" => docs[d] = "uploaded"
    PROVE  OneUploadedPerType'
BY DEF OneUploadedPerType

LEMMA HandlerFieldsRows ==
    \A at, d, rows, complete, seen :
        /\ Handler(at, d, rows, complete, seen).pc = at
        /\ Handler(at, d, rows, complete, seen).doc = d
        /\ Handler(at, d, rows, complete, seen).rows = rows
        /\ Handler(at, d, rows, complete, seen).complete = complete
        /\ Handler(at, d, rows, complete, seen).seen = seen
BY DEF Handler

LEMMA OneInductive ==
    ASSUME Inv, OneInv, [Next]_vars
    PROVE  OneInv'
<1>1. ASSUME NEW r \in Requests, NEW h \in Handlers, Goto(r, h),
             h.pc \notin {"replace", "commit"},
             \A d \in Documents : docs'[d] = "uploaded" => docs[d] = "uploaded"
      PROVE  OneInv'
  <2>1. alone' => alone /\ OneUploadedPerType
    BY <1>1 DEF Goto, OneInv
  <2>2. FoundAll(h)'
    BY <1>1 DEF FoundAll
  <2> QED
    BY <1>1, <2>1, <2>2, OneStep, NothingUploaded
<1>2. ASSUME NEW r \in Requests, FindUploaded(r) PROVE OneInv'
  <2> DEFINE d == req[r].doc
             found == {x \in Documents : TypeOf(x) = TypeOf(d) /\ docs[x] = "uploaded"}
             h == Handler("replace", d, found, FALSE, "pending_documents")
  <2>1. d \in Documents \cup {NoDocument}
    BY HandlerOfType DEF Inv, RequestsSound
  <2>2. Goto(r, h) /\ docs' = docs
    BY <1>2 DEF FindUploaded, DocumentsUntouched
  <2>3. h \in Handlers
    BY <2>1 DEF Handler, Handlers, VerificationStatuses
  <2>4. h.doc = d /\ h.rows = found
    BY HandlerFieldsRows
  <2>5. PICK k \in Handlers : k = h
    BY <2>3
  <2>6. Goto(r, k) /\ k.doc = d /\ k.rows = found
    BY <2>2, <2>4, <2>5
  <2> HIDE DEF h
  <2>7. \A x \in Documents : TypeOf(x) = TypeOf(k.doc) /\ docs[x] = "uploaded" => x \in k.rows
    BY <2>6
  <2>8. FoundAll(k)'
    BY <2>2, <2>7 DEF FoundAll
  <2>9. alone' => OneUploadedPerType'
    BY <2>2, NothingUploaded DEF OneInv, Goto
  <2> QED
    BY <2>6, <2>8, <2>9, OneStep
<1>3. ASSUME NEW r \in Requests, ReplaceUploaded(r) PROVE OneInv'
  <2> DEFINE d == req[r].doc
             still == {x \in req[r].rows : docs[x] = "uploaded"}
             h == Handler("commit", d, still, FALSE, "pending_documents")
  <2>1. d \in Documents \cup {NoDocument} /\ req[r].rows \in SUBSET Documents
    BY HandlerOfType DEF Inv, RequestsSound
  <2>2. Goto(r, h) /\ docs' = docs /\ req[r].pc = "replace"
    BY <1>3 DEF ReplaceUploaded, DocumentsUntouched
  <2>3. h \in Handlers
    BY <2>1 DEF Handler, Handlers, VerificationStatuses
  <2>4. h.doc = d /\ h.rows = still
    BY HandlerFieldsRows
  <2>5. PICK k \in Handlers : k = h
    BY <2>3
  <2>6. Goto(r, k) /\ k.doc = d /\ k.rows = still
    BY <2>2, <2>4, <2>5
  <2> HIDE DEF h
  <2>7. alone => \A x \in Documents :
                    TypeOf(x) = TypeOf(k.doc) /\ docs[x] = "uploaded" => x \in k.rows
    BY <2>2, <2>6 DEF OneInv, FoundAll
  <2>8. alone' => FoundAll(k)'
    BY <2>2, <2>7 DEF FoundAll, Goto
  <2>9. alone' => OneUploadedPerType'
    BY <2>2, NothingUploaded DEF OneInv, Goto
  <2> QED
    BY <2>6, <2>8, <2>9, OneStep
<1>4. ASSUME NEW r \in Requests, CommitUpload(r) PROVE OneInv'
  <2> DEFINE d == req[r].doc
  <2>1. /\ Goto(r, Evaluating) /\ req[r].pc = "commit"
        /\ docs' = [x \in Documents |-> AfterConfirm(d, req[r].rows, x)]
    BY <1>4 DEF CommitUpload
  <2>2. Evaluating \in Handlers /\ Evaluating.pc = "documents"
    BY HandlerType
  <2>3. FoundAll(Evaluating)'
    BY <2>2 DEF FoundAll
  <2>4. alone' => alone /\ OneUploadedPerType /\ FoundAll(req[r])
    BY <2>1 DEF OneInv, Goto
  <2>5. ASSUME alone', NEW b \in Documents, NEW c \in Documents,
               docs'[b] = "uploaded", docs'[c] = "uploaded", TypeOf(b) = TypeOf(c)
        PROVE  b = c
    <3>1. ASSUME NEW x \in Documents, docs'[x] = "uploaded", x # d
          PROVE  docs[x] = "uploaded" /\ x \notin req[r].rows
      BY <2>1, <3>1 DEF AfterConfirm
    <3>2. ASSUME NEW x \in Documents, docs'[x] = "uploaded", x # d
          PROVE  TypeOf(x) # TypeOf(d)
      BY <2>1, <2>4, <2>5, <3>1, <3>2 DEF FoundAll
    <3> QED
      BY <2>4, <2>5, <3>1, <3>2 DEF OneUploadedPerType
  <2>6. alone' => OneUploadedPerType'
    BY <2>5 DEF OneUploadedPerType
  <2> QED
    BY <2>1, <2>2, <2>3, <2>6, OneStep
<1>5. ASSUME NEW r \in Requests,
             \/ HeadObject(r) \/ EraseObject(r) \/ MarkDeleted(r)
             \/ UpdateStatus(r) \/ AcceptPolicies(r) \/ Crash(r)
      PROVE  OneInv'
  <2>1. req[r].doc \in Documents \cup {NoDocument}
    BY HandlerOfType DEF Inv, RequestsSound
  <2>2. \A x \in Documents : docs'[x] = "uploaded" => docs[x] = "uploaded"
    BY <1>5 DEF HeadObject, EraseObject, MarkDeleted, UpdateStatus, AcceptPolicies, Crash,
       DocumentsUntouched, Inv, DocumentsSound
  <2>3. \E h \in Handlers : Goto(r, h) /\ h.pc \notin {"replace", "commit"}
    <3>1. /\ \A at \in {"discard", "snapshot", "delete"} :
                /\ At(at, req[r].doc) \in Handlers
                /\ At(at, req[r].doc).pc \notin {"replace", "commit"}
          /\ Idle \in Handlers /\ Idle.pc \notin {"replace", "commit"}
          /\ Evaluating \in Handlers /\ Evaluating.pc \notin {"replace", "commit"}
      BY <2>1, HandlerType DEF Points
    <3>2. \/ \E at \in {"discard", "snapshot", "delete"} : Goto(r, At(at, req[r].doc))
          \/ Goto(r, Idle)
          \/ Goto(r, Evaluating)
      BY <1>5 DEF HeadObject, EraseObject, MarkDeleted, AfterDeletion, UpdateStatus,
         AcceptPolicies, Crash
    <3> QED
      BY <3>1, <3>2
  <2> QED
    BY <1>1, <2>2, <2>3
<1>6. ASSUME NEW r \in Requests, ReadDocuments(r) \/ ReadOrganizer(r) \/ ReadPolicies(r)
      PROVE  OneInv'
  <2>1. PICK h : Goto(r, h) /\ h.pc \in {"organizer", "policies", "update", "idle"}
    <3>1. CASE ReadDocuments(r)
      BY <3>1, HandlerFieldsRows DEF ReadDocuments
    <3>2. CASE ReadOrganizer(r)
      <4>1. \/ Goto(r, Idle)
            \/ \E complete, seen : Goto(r, Handler("policies", NoDocument, {}, complete, seen))
        BY <3>2 DEF ReadOrganizer
      <4> QED
        BY <4>1, HandlerFieldsRows, HandlerType
    <3>3. CASE ReadPolicies(r)
      <4>1. Goto(r, Idle) \/ \E new : Goto(r, Handler("update", NoDocument, {}, FALSE, new))
        BY <3>3 DEF ReadPolicies
      <4>2. CASE Goto(r, Idle)
        BY <4>2, HandlerType
      <4>3. ASSUME NEW new, Goto(r, Handler("update", NoDocument, {}, FALSE, new))
            PROVE  \E h : Goto(r, h) /\ h.pc \in {"organizer", "policies", "update", "idle"}
        <5>1. PICK h : h = Handler("update", NoDocument, {}, FALSE, new)
          OBVIOUS
        <5>2. h.pc = "update"
          BY <5>1 DEF Handler
        <5> QED
          BY <4>3, <5>1, <5>2
      <4> QED
        BY <4>1, <4>2, <4>3
    <3> QED
      BY <1>6, <3>1, <3>2, <3>3
  <2>2. docs' = docs
    BY <1>6 DEF ReadDocuments, ReadOrganizer, ReadPolicies, DocumentsUntouched
  <2>3. Inv'
    BY <1>6, RequestSteps DEF RequestStep
  <2>4. req'[r] = h /\ req'[r] \in Handlers
    BY <2>1, <2>3 DEF Goto, Inv, RequestsSound
  <2> QED
    BY <1>1, <2>1, <2>2, <2>4
<1>7. ASSUME NEW r \in Requests, NEW d \in Documents, BeginConfirm(r, d) \/ BeginDelete(r, d)
      PROVE  OneInv'
  <2>1. \E h \in Handlers : Goto(r, h) /\ h.pc \in {"head", "erase"}
    BY <1>7, HandlerType DEF BeginConfirm, BeginDelete, Points
  <2> QED
    BY <1>1, <1>7, <2>1 DEF BeginConfirm, BeginDelete, DocumentsUntouched
<1>8. ASSUME NEW d \in Documents, RequestDocumentUpload(d) PROVE OneInv'
  BY <1>8 DEF RequestDocumentUpload, OneInv, OneUploadedPerType, FoundAll, Inv, DocumentsSound
<1>9. ASSUME ApproveOrganizer \/ RejectOrganizer \/ UNCHANGED vars PROVE OneInv'
  <2>1. UNCHANGED <<docs, req, alone>>
    BY <1>9 DEF ApproveOrganizer, RejectOrganizer, DocumentsUntouched, vars
  <2> QED
    BY <2>1 DEF OneInv, OneUploadedPerType, FoundAll
<1> QED
  BY <1>2, <1>3, <1>4, <1>5, <1>6, <1>7, <1>8, <1>9, Zenon DEF Next, RequestStep

(* While requests come one after the other, no type is uploaded twice,     *)
(* however many are confirmed, deleted, discarded or cut short.            *)
THEOREM SingleUpload == Spec => []OneUploadedPerType
<1>1. Init => OneInv
  BY HandlerType DEF Init, OneInv, OneUploadedPerType, FoundAll
<1>2. OneInv => OneUploadedPerType
  BY DEF OneInv, OneUploadedPerType
<1> QED
  BY <1>1, <1>2, Invariance, OneInductive, PTL DEF Spec

-----------------------------------------------------------------------------
(* While every change has been or is being evaluated, one request at most  *)
(* is running, what it remembers is still so, and only its own evaluation  *)
(* can be what keeps the status from fitting the documents and policies.   *)
EvaluationPoints == {"documents", "organizer", "policies", "update"}

Fits ==
    /\ verificationStatus = "pending_review" => ReadyForReview
    /\ verificationStatus = "pending_documents" => ~ReadyForReview

Current(h) ==
    /\ h.pc \in {"head", "discard"} => docs[h.doc] = "pending"
    /\ h.pc \in {"organizer", "policies"} => (h.complete <=> AllDocsUploaded)
    /\ h.pc = "policies" =>
          h.seen = verificationStatus \/ verificationStatus \in {"approved", "rejected"}
    /\ h.pc = "update" =>
          \/ h.seen = "pending_review" /\ ReadyForReview
          \/ h.seen = "pending_documents" /\ ~ReadyForReview

Evaluated ==
    /\ \A r \in Requests : req[r].pc # "idle" => ~Beside(r)
    /\ \A r \in Requests : Current(req[r])
    /\ (\A r \in Requests : req[r].pc \notin EvaluationPoints) => Fits

FitInv == ~unevaluated => Evaluated

(* A step of the only request that runs. *)
LEMMA OnlyStep ==
    ASSUME Inv, NEW r \in Requests, NEW k \in Handlers, ~Beside(r), Goto(r, k),
           Current(k)', k.pc \notin EvaluationPoints => Fits'
    PROVE  Evaluated'
<1>1. /\ \A s \in Requests \ {r} : req'[s].pc = "idle"
      /\ req'[r] = k
  BY DEF Goto, Beside, Inv, RequestsSound
<1>2. ASSUME NEW s \in Requests PROVE Current(req[s])'
  BY <1>1 DEF Current
<1>3. ASSUME NEW s \in Requests, req'[s].pc # "idle" PROVE ~Beside(s)'
  BY <1>1, <1>3 DEF Beside
<1> QED
  BY <1>1, <1>2, <1>3 DEF Evaluated

(* Whether the organizer is ready depends on which rows are uploaded.      *)
LEMMA SameUploads ==
    ASSUME \A d \in Documents : docs'[d] = "uploaded" <=> docs[d] = "uploaded"
    PROVE  AllDocsUploaded' <=> AllDocsUploaded
<1>1. UploadedTypes' = UploadedTypes
  BY DEF UploadedTypes
<1> QED
  BY <1>1 DEF AllDocsUploaded

LEMMA SameFit ==
    ASSUME AllDocsUploaded' <=> AllDocsUploaded,
           UNCHANGED <<policiesAccepted, verificationStatus>>
    PROVE  (ReadyForReview' <=> ReadyForReview) /\ (Fits' <=> Fits)
BY DEF ReadyForReview, Fits

(* A step of the only request outside its evaluation.                      *)
LEMMA OutsideStep ==
    ASSUME Inv, Evaluated, NEW r \in Requests, NEW k \in Handlers, ~Beside(r), Goto(r, k),
           AllDocsUploaded' <=> AllDocsUploaded,
           UNCHANGED <<policiesAccepted, verificationStatus>>,
           req[r].pc \notin EvaluationPoints,
           k.pc \notin {"organizer", "policies", "update"},
           k.pc \in {"head", "discard"} => docs'[k.doc] = "pending"
    PROVE  Evaluated'
<1>1. \A s \in Requests : req[s].pc \notin EvaluationPoints
  BY DEF Beside, EvaluationPoints
<1>2. Fits'
  BY <1>1, SameFit DEF Evaluated
<1>3. Current(k)'
  BY DEF Current
<1> QED
  BY <1>2, <1>3, OnlyStep

LEMMA AtFields ==
    \A at, d : At(at, d).pc = at /\ At(at, d).doc = d
BY DEF At, Handler

(* What an evaluation does with a readiness and a status it has read.      *)
LEMMA NewStatusFits ==
    \A ready \in BOOLEAN, current \in VerificationStatuses :
       \/ /\ NewStatus(ready, current) # current
          /\ NewStatus(ready, current) =
                (IF ready THEN "pending_review" ELSE "pending_documents")
       \/ /\ NewStatus(ready, current) = current
          /\ current = "pending_review" => ready
          /\ current = "pending_documents" => ~ready
BY DEF NewStatus, VerificationStatuses

LEMMA FitRequestSteps ==
    ASSUME Inv, Evaluated, NEW r \in Requests, ~unevaluated', req[r].pc # "idle",
           RequestStep(r) \/ Crash(r)
    PROVE  Evaluated'
<1>1. ~Beside(r) /\ Current(req[r])
  BY DEF Evaluated
<1>2. /\ req[r].doc \in Documents \cup {NoDocument}
      /\ req[r].rows \in SUBSET Documents
      /\ req[r].complete \in BOOLEAN
      /\ req[r].seen \in VerificationStatuses
  BY HandlerOfType DEF Inv, RequestsSound
<1>3. ASSUME DocumentsUntouched PROVE AllDocsUploaded' <=> AllDocsUploaded
  BY <1>3 DEF DocumentsUntouched, AllDocsUploaded, UploadedTypes
<1>4. ASSUME OrganizerUntouched PROVE UNCHANGED <<policiesAccepted, verificationStatus>>
  BY <1>4 DEF OrganizerUntouched, orgVars
<1>5. ASSUME NEW k \in Handlers, Goto(r, k), DocumentsUntouched, OrganizerUntouched,
             req[r].pc \notin EvaluationPoints,
             k.pc \notin {"organizer", "policies", "update"},
             k.pc \in {"head", "discard"} => docs[k.doc] = "pending"
      PROVE  Evaluated'
  <2>1. docs' = docs
    BY <1>5 DEF DocumentsUntouched
  <2> QED
    BY <1>1, <1>3, <1>4, <1>5, <2>1, OutsideStep
<1>6. ASSUME HeadObject(r) PROVE Evaluated'
  <2>1. PICK k \in Handlers :
           /\ Goto(r, k)
           /\ \/ k.pc = "idle"
              \/ k.pc \in {"discard", "snapshot"} /\ k.doc = req[r].doc
    BY <1>2, <1>6, HandlerType, AtFields DEF HeadObject, Points
  <2>2. req[r].pc = "head" /\ docs[req[r].doc] = "pending"
    BY <1>1, <1>6 DEF HeadObject, Current
  <2> QED
    BY <1>5, <1>6, <2>1, <2>2 DEF HeadObject, EvaluationPoints
<1>7. ASSUME FindUploaded(r) PROVE Evaluated'
  <2>1. PICK rows \in SUBSET Documents :
           Goto(r, Handler("replace", req[r].doc, rows, FALSE, "pending_documents"))
    BY <1>7 DEF FindUploaded
  <2>2. PICK k \in Handlers : k = Handler("replace", req[r].doc, rows, FALSE, "pending_documents")
    BY <1>2 DEF Handler, Handlers, VerificationStatuses
  <2>3. Goto(r, k) /\ k.pc = "replace"
    BY <2>1, <2>2 DEF Handler
  <2> QED
    BY <1>5, <1>7, <2>3 DEF FindUploaded, EvaluationPoints
<1>8. ASSUME ReplaceUploaded(r) PROVE Evaluated'
  <2>1. PICK rows \in SUBSET Documents :
           Goto(r, Handler("commit", req[r].doc, rows, FALSE, "pending_documents"))
    BY <1>2, <1>8 DEF ReplaceUploaded
  <2>2. PICK k \in Handlers : k = Handler("commit", req[r].doc, rows, FALSE, "pending_documents")
    BY <1>2 DEF Handler, Handlers, VerificationStatuses
  <2>3. Goto(r, k) /\ k.pc = "commit"
    BY <2>1, <2>2 DEF Handler
  <2> QED
    BY <1>5, <1>8, <2>3 DEF ReplaceUploaded, EvaluationPoints
<1>9. ASSUME CommitUpload(r) PROVE Evaluated'
  <2>1. Goto(r, Evaluating) /\ Evaluating \in Handlers /\ Evaluating.pc = "documents"
    BY <1>9, HandlerType DEF CommitUpload
  <2>2. Current(Evaluating)'
    BY <2>1 DEF Current
  <2> QED
    BY <1>1, <2>1, <2>2, OnlyStep DEF EvaluationPoints
<1>10. ASSUME EraseObject(r) PROVE Evaluated'
  <2>1. PICK k \in Handlers : Goto(r, k) /\ k.pc = "delete"
    BY <1>2, <1>10, HandlerType DEF EraseObject, Points
  <2> QED
    BY <1>5, <1>10, <2>1 DEF EraseObject, EvaluationPoints
<1>11. ASSUME MarkDeleted(r) PROVE Evaluated'
  <2>1. CASE req[r].pc = "delete"
    <3>1. Goto(r, Evaluating) /\ Evaluating \in Handlers /\ Evaluating.pc = "documents"
      BY <1>11, <2>1, HandlerType DEF MarkDeleted, AfterDeletion
    <3>2. Current(Evaluating)'
      BY <3>1 DEF Current
    <3> QED
      BY <1>1, <3>1, <3>2, OnlyStep DEF EvaluationPoints
  <2>2. CASE req[r].pc = "discard"
    <3>1. Goto(r, Idle) /\ Idle \in Handlers /\ Idle.pc = "idle"
      BY <1>11, <2>2, HandlerType DEF MarkDeleted, AfterDeletion
    <3>2. docs[req[r].doc] = "pending"
      BY <1>1, <2>2 DEF Current
    <3>3. \A d \in Documents : docs'[d] = "uploaded" <=> docs[d] = "uploaded"
      BY <1>11, <3>2 DEF MarkDeleted, Inv, DocumentsSound
    <3> QED
      BY <1>1, <1>4, <1>11, <2>2, <3>1, <3>3, SameUploads, OutsideStep
      DEF MarkDeleted, EvaluationPoints
  <2> QED
    BY <1>11, <2>1, <2>2 DEF MarkDeleted
<1>12. ASSUME ReadDocuments(r) PROVE Evaluated'
  <2>1. SeesAllUploaded \in BOOLEAN /\ (SeesAllUploaded <=> AllDocsUploaded)
    BY DEF SeesAllUploaded, AllDocsUploaded
  <2>2. Goto(r, Handler("organizer", NoDocument, {}, SeesAllUploaded, "pending_documents"))
    BY <1>12 DEF ReadDocuments
  <2> HIDE DEF SeesAllUploaded
  <2>3. PICK k \in Handlers : Goto(r, k) /\ k.pc = "organizer" /\ k.complete = SeesAllUploaded
    BY <2>1, <2>2, HandlerType DEF Points, VerificationStatuses
  <2>4. Current(k)'
    BY <1>3, <1>12, <2>1, <2>3 DEF Current, ReadDocuments
  <2> QED
    BY <1>1, <2>3, <2>4, OnlyStep DEF EvaluationPoints
<1>13. ASSUME ReadOrganizer(r) PROVE Evaluated'
  <2>1. /\ req[r].pc = "organizer" /\ (req[r].complete <=> AllDocsUploaded)
        /\ AllDocsUploaded' <=> AllDocsUploaded
        /\ verificationStatus' = verificationStatus
        /\ verificationStatus \in VerificationStatuses
    BY <1>1, <1>3, <1>4, <1>13 DEF ReadOrganizer, Current, Inv, OrganizerSound
  <2>2. CASE Goto(r, Idle) /\ verificationStatus = "approved"
    <3>1. Idle \in Handlers /\ Idle.pc = "idle"
      BY HandlerType
    <3>2. Fits' /\ Current(Idle)'
      BY <2>1, <2>2, <3>1 DEF Fits, Current
    <3> QED
      BY <1>1, <2>2, <3>1, <3>2, OnlyStep
  <2>3. CASE Goto(r, Handler("policies", NoDocument, {}, req[r].complete, verificationStatus))
    <3>1. PICK k \in Handlers : /\ Goto(r, k) /\ k.pc = "policies"
                                /\ k.complete = req[r].complete
                                /\ k.seen = verificationStatus
      BY <1>2, <2>1, <2>3, HandlerType DEF Points
    <3>2. Current(k)'
      BY <2>1, <3>1 DEF Current
    <3> QED
      BY <1>1, <3>1, <3>2, OnlyStep DEF EvaluationPoints
  <2> QED
    BY <1>13, <2>2, <2>3 DEF ReadOrganizer
<1>14. ASSUME ReadPolicies(r) PROVE Evaluated'
  <2>1. PICK ready \in BOOLEAN, current \in VerificationStatuses :
           ready = (req[r].complete /\ policiesAccepted) /\ current = req[r].seen
    BY <1>2
  <2>2. PICK new : new = NewStatus(ready, current)
    OBVIOUS
  <2>3. \/ new # current /\ Goto(r, Handler("update", NoDocument, {}, FALSE, new))
        \/ new = current /\ Goto(r, Idle)
    BY <1>14, <2>1, <2>2 DEF ReadPolicies
  <2>4. /\ ready <=> ReadyForReview
        /\ current = verificationStatus \/ verificationStatus \in {"approved", "rejected"}
    BY <1>1, <1>14, <2>1 DEF ReadPolicies, Current, ReadyForReview
  <2>5. /\ ReadyForReview' <=> ReadyForReview
        /\ verificationStatus' = verificationStatus
    BY <1>3, <1>4, <1>14, SameFit DEF ReadPolicies
  <2>6. CASE new # current /\ Goto(r, Handler("update", NoDocument, {}, FALSE, new))
    <3>1. \/ new = "pending_review" /\ ready
          \/ new = "pending_documents" /\ ~ready
      BY <2>2, <2>6, NewStatusFits
    <3>2. PICK k \in Handlers : k = Handler("update", NoDocument, {}, FALSE, new)
      BY <3>1 DEF Handler, Handlers, VerificationStatuses
    <3>3. Goto(r, k) /\ k.pc = "update" /\ k.seen = new
      BY <2>6, <3>2 DEF Handler
    <3>4. Current(k)'
      BY <2>4, <2>5, <3>1, <3>3 DEF Current
    <3> QED
      BY <1>1, <3>3, <3>4, OnlyStep DEF EvaluationPoints
  <2>7. CASE new = current /\ Goto(r, Idle)
    <3>1. Idle \in Handlers /\ Idle.pc = "idle"
      BY HandlerType
    <3>2. /\ current = "pending_review" => ready
          /\ current = "pending_documents" => ~ready
      BY <2>2, <2>7, NewStatusFits
    <3>3. Fits'
      BY <2>4, <2>5, <3>2 DEF Fits
    <3>4. Current(Idle)'
      BY <3>1 DEF Current
    <3> QED
      BY <1>1, <2>7, <3>1, <3>3, <3>4, OnlyStep
  <2> QED
    BY <2>3, <2>6, <2>7
<1>15. ASSUME UpdateStatus(r) PROVE Evaluated'
  <2>1. /\ verificationStatus' = req[r].seen
        /\ policiesAccepted' = policiesAccepted
        /\ AllDocsUploaded' <=> AllDocsUploaded
        /\ Goto(r, Idle) /\ Idle \in Handlers /\ Idle.pc = "idle"
    BY <1>3, <1>15, HandlerType DEF UpdateStatus
  <2>2. \/ req[r].seen = "pending_review" /\ ReadyForReview
        \/ req[r].seen = "pending_documents" /\ ~ReadyForReview
    BY <1>1, <1>15 DEF UpdateStatus, Current
  <2>3. Fits'
    BY <2>1, <2>2 DEF Fits, ReadyForReview
  <2>4. Current(Idle)'
    BY <2>1 DEF Current
  <2> QED
    BY <1>1, <2>1, <2>3, <2>4, OnlyStep
<1>16. ASSUME Crash(r) PROVE Evaluated'
  <2>1. /\ Goto(r, Idle) /\ Idle \in Handlers /\ Idle.pc = "idle"
        /\ req[r].pc \notin EvaluationPoints
        /\ UNCHANGED <<policiesAccepted, verificationStatus>>
    BY <1>16, HandlerType DEF Crash, EvaluationPoints, orgVars
  <2> QED
    BY <1>1, <1>3, <1>16, <2>1, OutsideStep DEF Crash
<1> QED
  BY <1>6, <1>7, <1>8, <1>9, <1>10, <1>11, <1>12, <1>13, <1>14, <1>15, <1>16 DEF RequestStep

LEMMA FitInductive ==
    ASSUME Inv, FitInv, [Next]_vars
    PROVE  FitInv'
<1> SUFFICES ASSUME ~unevaluated' PROVE Evaluated'
  BY DEF FitInv
<1>1. ASSUME NEW r \in Requests, RequestStep(r) PROVE Evaluated'
  <2>1. CASE ReadDocuments(r)
    <3>1. /\ ~Beside(r) /\ docs' = docs
          /\ Goto(r, Handler("organizer", NoDocument, {}, SeesAllUploaded, "pending_documents"))
      BY <2>1 DEF ReadDocuments, DocumentsUntouched
    <3>2. PICK saw \in BOOLEAN : saw = SeesAllUploaded /\ (saw <=> AllDocsUploaded)
      BY DEF SeesAllUploaded, AllDocsUploaded
    <3>3. PICK k \in Handlers : k = Handler("organizer", NoDocument, {}, saw, "pending_documents")
      BY <3>2 DEF Handler, Handlers, VerificationStatuses
    <3>4. Goto(r, k) /\ k.pc = "organizer" /\ k.complete = saw
      BY <3>1, <3>2, <3>3 DEF Handler
    <3>5. AllDocsUploaded' <=> AllDocsUploaded
      BY <3>1, SameUploads
    <3>6. Current(k)'
      BY <3>2, <3>4, <3>5 DEF Current
    <3> QED
      BY <3>1, <3>4, <3>6, OnlyStep DEF EvaluationPoints
  <2>2. CASE ~ReadDocuments(r)
    <3>1. unevaluated' = unevaluated /\ req[r].pc # "idle"
      BY <1>1, <2>2 DEF RequestStep, HeadObject, FindUploaded, ReplaceUploaded, CommitUpload,
         EraseObject, MarkDeleted, ReadOrganizer, ReadPolicies, UpdateStatus, OrganizerUntouched
    <3> QED
      BY <1>1, <3>1, FitRequestSteps DEF FitInv, Inv, OrganizerSound
  <2> QED
    BY <2>1, <2>2
<1>2. ASSUME NEW r \in Requests, Crash(r) PROVE Evaluated'
  BY <1>2, FitRequestSteps DEF Crash, FitInv, Inv, OrganizerSound
<1>3. ASSUME NEW r \in Requests, NEW d \in Documents, BeginConfirm(r, d) \/ BeginDelete(r, d)
      PROVE  Evaluated'
  <2>1. /\ ~Beside(r) /\ ~unevaluated /\ req[r].pc = "idle" /\ docs' = docs
        /\ UNCHANGED <<policiesAccepted, verificationStatus>>
    BY <1>3 DEF BeginConfirm, BeginDelete, DocumentsUntouched, orgVars, Inv, OrganizerSound
  <2>2. PICK k \in Handlers : /\ Goto(r, k) /\ k.pc \in {"head", "erase"}
                              /\ k.pc = "head" => docs'[k.doc] = "pending"
    BY <1>3, <2>1, HandlerType, AtFields DEF BeginConfirm, BeginDelete, Points
  <2>3. AllDocsUploaded' <=> AllDocsUploaded
    BY <2>1, SameUploads
  <2> QED
    BY <2>1, <2>2, <2>3, OutsideStep DEF FitInv, EvaluationPoints
<1>4. ASSUME NEW r \in Requests, AcceptPolicies(r) PROVE Evaluated'
  <2>1. ~Beside(r) /\ Goto(r, Evaluating)
    BY <1>4 DEF AcceptPolicies, Inv, OrganizerSound
  <2>2. Evaluating \in Handlers /\ Evaluating.pc = "documents"
    BY HandlerType
  <2>3. Current(Evaluating)'
    BY <2>2 DEF Current
  <2> QED
    BY <2>1, <2>2, <2>3, OnlyStep DEF EvaluationPoints
<1>5. ASSUME NEW d \in Documents, RequestDocumentUpload(d) PROVE Evaluated'
  <2>1. /\ req' = req /\ ~unevaluated
        /\ docs' = [docs EXCEPT ![d] = "pending"] /\ docs[d] = "none"
        /\ UNCHANGED <<policiesAccepted, verificationStatus>>
    BY <1>5 DEF RequestDocumentUpload, orgVars, Inv, OrganizerSound
  <2>2. \A x \in Documents : docs'[x] = "uploaded" <=> docs[x] = "uploaded"
    BY <2>1 DEF Inv, DocumentsSound
  <2>3. /\ AllDocsUploaded' <=> AllDocsUploaded
        /\ (ReadyForReview' <=> ReadyForReview) /\ (Fits' <=> Fits)
    BY <2>1, <2>2, SameUploads, SameFit
  <2>4. ASSUME NEW r \in Requests PROVE Current(req[r])'
    <3>1. Current(req[r]) /\ req[r].doc \in Documents \cup {NoDocument}
      BY <2>1, HandlerOfType DEF FitInv, Evaluated, Inv, RequestsSound
    <3>2. docs[req[r].doc] = "pending" => docs'[req[r].doc] = "pending"
      BY <2>1, <3>1 DEF Inv, DocumentsSound
    <3> QED
      BY <2>1, <2>3, <3>1, <3>2 DEF Current
  <2> QED
    BY <2>1, <2>3, <2>4 DEF FitInv, Evaluated, Beside
<1>6. ASSUME ApproveOrganizer \/ RejectOrganizer PROVE Evaluated'
  <2>1. /\ req' = req /\ docs' = docs /\ policiesAccepted' = policiesAccepted /\ ~unevaluated
        /\ verificationStatus' \in {"approved", "rejected"}
    BY <1>6 DEF ApproveOrganizer, RejectOrganizer, DocumentsUntouched, Inv, OrganizerSound
  <2>2. AllDocsUploaded' <=> AllDocsUploaded
    BY <2>1, SameUploads
  <2>3. ReadyForReview' <=> ReadyForReview
    BY <2>1, <2>2 DEF ReadyForReview
  <2>4. Fits'
    BY <2>1 DEF Fits
  <2>5. ASSUME NEW r \in Requests PROVE Current(req[r])'
    BY <2>1, <2>2, <2>3 DEF FitInv, Evaluated, Current
  <2> QED
    BY <2>1, <2>4, <2>5 DEF FitInv, Evaluated, Beside
<1>7. ASSUME UNCHANGED vars PROVE Evaluated'
  <2>1. /\ req' = req /\ docs' = docs /\ policiesAccepted' = policiesAccepted
        /\ verificationStatus' = verificationStatus /\ ~unevaluated
    BY <1>7 DEF vars, orgVars, Inv, OrganizerSound
  <2>2. AllDocsUploaded' <=> AllDocsUploaded
    BY <2>1, SameUploads
  <2>3. (ReadyForReview' <=> ReadyForReview) /\ (Fits' <=> Fits)
    BY <2>1, <2>2, SameFit
  <2>4. ASSUME NEW r \in Requests PROVE Current(req[r])'
    BY <2>1, <2>2, <2>3 DEF FitInv, Evaluated, Current
  <2> QED
    BY <2>1, <2>3, <2>4 DEF FitInv, Evaluated, Beside
<1> QED
  BY <1>1, <1>2, <1>3, <1>4, <1>5, <1>6, <1>7, Zenon DEF Next

(* An evaluation that began alone and ended leaves the status fitting the  *)
(* documents and policies, whatever raced or died before it.               *)
THEOREM StatusFits == Spec => []SettledStatusFitsReadiness
<1>1. Init => FitInv
  BY HandlerType DEF Init, FitInv, Evaluated, Beside, Current, Fits, ReadyForReview
<1>2. Inv /\ FitInv => SettledStatusFitsReadiness
  BY DEF Inv, OrganizerSound, FitInv, Evaluated, Fits, EvaluationPoints, Settled,
     SettledStatusFitsReadiness
<1> QED
  BY <1>1, <1>2, Invariance, FitInductive, PTL DEF Spec
=============================================================================
