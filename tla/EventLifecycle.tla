---------------------------- MODULE EventLifecycle ----------------------------
(***************************************************************************)
(* The life of one organizer's events: draft, under_review, published.     *)
(*                                                                         *)
(* Every mutating handler of apps/api/src/modules/events/service.ts runs   *)
(* in a READ COMMITTED transaction that takes the event row FOR UPDATE, so *)
(* `lock' keeps two handlers of one event apart.  What the row lock does   *)
(* not cover is modelled step by step: the organizer row is read without a *)
(* lock (by publishEvent even before the event is locked), the admin-      *)
(* review count reads the other events of the organizer, and the cache     *)
(* invalidation is issued after the commit by a process that may die first.*)
(***************************************************************************)
EXTENDS Integers, FiniteSets

CONSTANTS Events,           \* the events of one organizer
          Requests,         \* concurrent HTTP handlers of the API
          Categories,       \* distance categories an event may offer
          Texts,            \* non-blank policy texts
          NoText,           \* a policy column that is NULL or blank
          Hidden,           \* what the public sees of an event not published
          NoRequest,        \* an event row nobody has locked
          NoEvent,          \* an idle request works on no event
          ReviewThreshold,  \* 3 in requiresAdminReview
          MaxTime           \* bound on the clock

ASSUME LifecycleAssumption ==
    /\ IsFiniteSet(Events)
    /\ NoRequest \notin Requests
    /\ NoEvent \notin Events
    /\ NoText \notin Texts
    /\ Hidden \notin Texts \cup {NoText}
    /\ ReviewThreshold \in Nat
    /\ MaxTime \in Nat \ {0}

VARIABLES
    status, publishedAt, firstPublishedAt, submittedForReviewAt, startAt,
    policies, categories, pricing, hero,      \* the event rows and their children
    organizer, everEligible,                  \* the organizer row; a history bit
    lock,                                     \* the holder of each event row
    req,                                      \* the requests in flight
    clock,
    lastPurged, lostPurge                     \* the public caches, as invalidated

stampVars  == <<publishedAt, firstPublishedAt, submittedForReviewAt>>
configVars == <<startAt, categories, pricing, hero>>
orgVars    == <<organizer, everEligible>>
purgeVars  == <<lastPurged, lostPurge>>
vars == <<status, stampVars, configVars, policies, orgVars, lock, req, clock,
          purgeVars>>

-----------------------------------------------------------------------------
NULL  == 0                      \* an unset timestamp: the clock starts at 1
Times == 1 .. MaxTime
StartTimes == 1 .. MaxTime + 1
Statuses == {"draft", "under_review", "published"}

(* The row of the organizer, as far as publishing reads it. *)
Organizers == [isVerified : BOOLEAN, razorpayActive : BOOLEAN]
Eligible(o) == o.isVerified /\ o.razorpayActive

(* What a public reader who misses every cache is shown of event e. *)
PublicView(e) == IF status[e] = "published" THEN policies[e] ELSE Hidden

(* Events counted by getPublishedPaidEventCount; every event is paid. *)
FirstPublished == {e \in Events : firstPublishedAt[e] # NULL}
RequiresReviewBelowThreshold == Cardinality(FirstPublished) < ReviewThreshold \* mutant
RequiresAdminReview == Cardinality(FirstPublished) <= ReviewThreshold

(* The readiness items that depend on rows the event lock protects. *)
ConfigReady(e) == /\ categories[e] # {}
                  /\ pricing[e] = categories[e]
                  /\ hero[e]

ReadyForAnyOrganizer(e, eligible) ==                                    \* mutant
    ConfigReady(e) /\ policies[e] # NoText /\ startAt[e] > clock

(* The items of buildPublishReadinessForEvent, given whether the organizer *)
(* row that was read passes its two items; without slug_available and      *)
(* active_pricing (a tier above zero), which only forbid more.             *)
Ready(e, eligible) == /\ eligible
                      /\ ConfigReady(e)
                      /\ policies[e] # NoText
                      /\ startAt[e] > clock

(* The locals of a handler: where it is, whether the organizer row it read *)
(* was eligible and whether readiness.wouldRequireAdminReview came out TRUE.*)
Handlers == [pc : {"idle", "lock", "assess", "write", "purge"},
             op : {"publish", "approve"},
             event : Events \cup {NoEvent},
             eligible : BOOLEAN,
             needsReview : BOOLEAN]
Handler(at, kind, e, ok, review) ==
    [pc |-> at, op |-> kind, event |-> e, eligible |-> ok, needsReview |-> review]
Idle == Handler("idle", "publish", NoEvent, FALSE, TRUE)
Purging(e) == Handler("purge", "publish", e, FALSE, TRUE)

Init ==
    /\ status = [e \in Events |-> "draft"]
    /\ publishedAt = [e \in Events |-> NULL]
    /\ firstPublishedAt = [e \in Events |-> NULL]
    /\ submittedForReviewAt = [e \in Events |-> NULL]
    /\ startAt = [e \in Events |-> MaxTime + 1]
    /\ policies = [e \in Events |-> NoText]
    /\ categories = [e \in Events |-> {}]
    /\ pricing = [e \in Events |-> {}]
    /\ hero = [e \in Events |-> FALSE]
    /\ organizer = [isVerified |-> FALSE, razorpayActive |-> FALSE]
    /\ everEligible = FALSE
    /\ lock = [e \in Events |-> NoRequest]
    /\ req = [r \in Requests |-> Idle]
    /\ clock = 1
    /\ lastPurged = [e \in Events |-> Hidden]
    /\ lostPurge = {}

-----------------------------------------------------------------------------
(* publishEvent: the organizer row is read first, without a lock ...       *)
BeginPublish(r, e) ==
    /\ req[r].pc = "idle"
    /\ req' = [req EXCEPT ![r] = Handler("lock", "publish", e, Eligible(organizer), TRUE)]
    /\ UNCHANGED <<status, stampVars, configVars, policies, orgVars, lock, clock,
                   purgeVars>>

(* ... then SELECT ... FOR UPDATE waits for the event row.  An event that  *)
(* is no draft any more ends the transaction as a no-op, and the no-op is  *)
(* followed by a cache invalidation like every other outcome.              *)
LockForPublish(r) ==
    LET e == req[r].event IN
    /\ req[r].pc = "lock"
    /\ lock[e] = NoRequest
    /\ \/ /\ status[e] = "draft"
          /\ lock' = [lock EXCEPT ![e] = r]
          /\ req' = [req EXCEPT ![r] =
                         Handler("assess", "publish", e, req[r].eligible, TRUE)]
       \/ /\ status[e] \in {"under_review", "published"}
          /\ req' = [req EXCEPT ![r] = Purging(e)]
          /\ UNCHANGED lock
    /\ UNCHANGED <<status, stampVars, configVars, policies, orgVars, clock, purgeVars>>

(* adminApproveEvent: the event is locked first, the organizer read after. *)
BeginApproval(r, e) ==
    /\ req[r].pc = "idle"
    /\ lock[e] = NoRequest
    /\ status[e] = "under_review"
    /\ lock' = [lock EXCEPT ![e] = r]
    /\ req' = [req EXCEPT ![r] = Handler("assess", "approve", e, Eligible(organizer), TRUE)]
    /\ UNCHANGED <<status, stampVars, configVars, policies, orgVars, clock, purgeVars>>

(* buildPublishReadinessForEvent, ending with the count of the events this *)
(* organizer has ever published.                                           *)
AssessReadiness(r) ==
    /\ req[r].pc = "assess"
    /\ Ready(req[r].event, req[r].eligible)
    /\ req' = [req EXCEPT ![r] = Handler("write", req[r].op, req[r].event,
                                         req[r].eligible, RequiresAdminReview)]
    /\ UNCHANGED <<status, stampVars, configVars, policies, orgVars, lock, clock,
                   purgeVars>>

RollbackKeepingLock(r) ==                                               \* mutant
    /\ req' = [req EXCEPT ![r] = Idle]
    /\ UNCHANGED lock

Rollback(r) ==
    /\ lock' = [lock EXCEPT ![req[r].event] = NoRequest]
    /\ req' = [req EXCEPT ![r] = Idle]

(* Some readiness item fails and the transaction rolls back.  The item     *)
(* slug_available may fail for rows this module does not hold.             *)
DenyReadiness(r) ==
    /\ req[r].pc = "assess"
    /\ Rollback(r)
    /\ UNCHANGED <<status, stampVars, configVars, policies, orgVars, clock, purgeVars>>

CommitUnannounced(r, e) ==                                              \* mutant
    /\ lock' = [lock EXCEPT ![e] = NoRequest]
    /\ req' = [req EXCEPT ![r] = Idle]

(* The end of a transaction of r that wrote event e: COMMIT frees the row, *)
(* and the cache invalidation is still to come.                            *)
Commit(r, e) ==
    /\ lock' = [lock EXCEPT ![e] = NoRequest]
    /\ req' = [req EXCEPT ![r] = Purging(e)]

MarkPublishedAfresh(e) ==                                               \* mutant
    /\ status' = [status EXCEPT ![e] = "published"]
    /\ publishedAt' = [publishedAt EXCEPT ![e] = clock]
    /\ firstPublishedAt' = [firstPublishedAt EXCEPT ![e] = clock]

MarkPublished(e) ==
    /\ status' = [status EXCEPT ![e] = "published"]
    /\ publishedAt' = [publishedAt EXCEPT ![e] = clock]
    /\ firstPublishedAt' =
          [firstPublishedAt EXCEPT ![e] = IF @ = NULL THEN clock ELSE @]

MarkDraftKeepingDate(e) ==                                              \* mutant
    /\ status' = [status EXCEPT ![e] = "draft"]
    /\ UNCHANGED publishedAt

MarkDraft(e) ==
    /\ status' = [status EXCEPT ![e] = "draft"]
    /\ publishedAt' = [publishedAt EXCEPT ![e] = NULL]

(* publishEvent, transition draft_to_under_review. *)
SubmitForReview(r) ==
    LET e == req[r].event IN
    /\ req[r].pc = "write" /\ req[r].op = "publish" /\ req[r].needsReview
    /\ status[e] = "draft"
    /\ status' = [status EXCEPT ![e] = "under_review"]
    /\ publishedAt' = [publishedAt EXCEPT ![e] = NULL]
    /\ submittedForReviewAt' = [submittedForReviewAt EXCEPT ![e] = clock]
    /\ Commit(r, e)
    /\ UNCHANGED <<firstPublishedAt, configVars, policies, orgVars,
                   clock, purgeVars>>

(* publishEvent, transition draft_to_published: no administrator involved. *)
PublishDirectly(r) ==
    LET e == req[r].event IN
    /\ req[r].pc = "write" /\ req[r].op = "publish" /\ ~req[r].needsReview
    /\ status[e] = "draft"
    /\ MarkPublished(e)
    /\ submittedForReviewAt' = [submittedForReviewAt EXCEPT ![e] = NULL]
    /\ Commit(r, e)
    /\ UNCHANGED <<configVars, policies, orgVars, clock, purgeVars>>

(* adminApproveEvent, the UPDATE. *)
ApproveEvent(r) ==
    LET e == req[r].event IN
    /\ req[r].pc = "write" /\ req[r].op = "approve"
    /\ status[e] = "under_review"
    /\ MarkPublished(e)
    /\ Commit(r, e)
    /\ UNCHANGED <<submittedForReviewAt, configVars, policies, orgVars,
                   clock, purgeVars>>

(* unpublishEvent and adminRejectEvent: back to draft in one transaction. *)
ReturnToDraft(r, e, from) ==
    /\ req[r].pc = "idle"
    /\ lock[e] = NoRequest
    /\ status[e] = from
    /\ MarkDraft(e)
    /\ req' = [req EXCEPT ![r] = Purging(e)]
    /\ UNCHANGED <<firstPublishedAt, submittedForReviewAt, configVars, policies,
                   orgVars, lock, clock, purgeVars>>

UnpublishEvent(r, e) == ReturnToDraft(r, e, "published")
AdminRejectEvent(r, e) == ReturnToDraft(r, e, "under_review")

-----------------------------------------------------------------------------
EditDraftUnlocked(e) ==                                                 \* mutant
    /\ status[e] = "draft"
    /\ UNCHANGED <<status, stampVars, policies, orgVars, lock, req, clock, purgeVars>>

(* The edits.  Each locks the row, checks the status and commits without   *)
(* reading a row that some other transaction could change meanwhile.       *)
EditDraft(e) ==
    /\ lock[e] = NoRequest
    /\ status[e] = "draft"
    /\ UNCHANGED <<status, stampVars, policies, orgVars, lock, req,
                   clock, purgeVars>>

(* updateDraftEvent: the new date only has to be well-formed. *)
UpdateDraftEvent(e) ==
    /\ EditDraft(e)
    /\ \E t \in StartTimes : startAt' = [startAt EXCEPT ![e] = t]
    /\ UNCHANGED <<categories, pricing, hero>>

(* replaceEventCategories is refused once a price exists. *)
ReplaceEventCategories(e) ==
    /\ EditDraft(e)
    /\ pricing[e] = {}
    /\ \E cs \in SUBSET Categories \ {{}} :
          categories' = [categories EXCEPT ![e] = cs]
    /\ UNCHANGED <<startAt, pricing, hero>>

(* replaceEventPricing: one tier for each configured category. *)
ReplaceEventPricing(e) ==
    /\ EditDraft(e)
    /\ categories[e] # {}
    /\ pricing' = [pricing EXCEPT ![e] = categories[e]]
    /\ UNCHANGED <<startAt, categories, hero>>

(* confirmEventImageUpload and deleteEventImage, for the hero image. *)
ChangeHeroImage(e) ==
    /\ EditDraft(e)
    /\ \E uploaded \in BOOLEAN : hero' = [hero EXCEPT ![e] = uploaded]
    /\ UNCHANGED <<startAt, categories, pricing>>

(* The two handlers that may change an event the public can see.           *)
EditPolicies(r, e, text, purge) ==
    /\ req[r].pc = "idle"
    /\ lock[e] = NoRequest
    /\ policies' = [policies EXCEPT ![e] = text]
    /\ req' = IF purge THEN [req EXCEPT ![r] = Purging(e)] ELSE req
    /\ UNCHANGED <<status, stampVars, configVars, orgVars, lock, clock, purgeVars>>

(* updateEventPolicies: its schema wants non-blank texts, and it purges    *)
(* only if a published event really changed.                               *)
UpdateEventPolicies(r, e) ==
    /\ status[e] \in {"draft", "published"}
    /\ \E text \in Texts :
          EditPolicies(r, e, text, status[e] = "published" /\ text # policies[e])

(* updatePublishedEvent: its patch schema also takes null and blank texts. *)
UpdatePublishedEvent(r, e) ==
    /\ status[e] = "published"
    /\ \E text \in Texts \cup {NoText} : EditPolicies(r, e, text, TRUE)

-----------------------------------------------------------------------------
(* invalidateEventCache, called after the commit. *)
InvalidateEventCache(r) ==
    LET e == req[r].event IN
    /\ req[r].pc = "purge"
    /\ req' = [req EXCEPT ![r] = Idle]
    /\ lastPurged' = [lastPurged EXCEPT ![e] = PublicView(e)]
    /\ lostPurge' = lostPurge \ {e}
    /\ UNCHANGED <<status, stampVars, configVars, policies, orgVars, lock, clock>>

(* The API process dies: PostgreSQL rolls an open transaction back and     *)
(* frees its locks; an invalidation not yet issued is lost.                *)
Crash(r) ==
    LET e == req[r].event IN
    /\ req[r].pc # "idle"
    /\ req' = [req EXCEPT ![r] = Idle]
    /\ lock' = [lock EXCEPT ![e] = IF @ = r THEN NoRequest ELSE @]
    /\ lostPurge' = IF req[r].pc = "purge" THEN lostPurge \cup {e} ELSE lostPurge
    /\ UNCHANGED <<status, stampVars, configVars, policies, orgVars,
                   clock, lastPurged>>

(* The organizer row changes under the handlers' feet: approveOrganizer,   *)
(* rejectOrganizer and the linked-account worker write it.                 *)
OrganizerChanges ==
    /\ \E o \in Organizers :
          /\ \/ o.isVerified /\ ~o.razorpayActive
             \/ ~o.isVerified /\ o.razorpayActive = organizer.razorpayActive
             \/ o.razorpayActive /\ o.isVerified = organizer.isVerified
          /\ organizer' = o
    /\ everEligible' = (everEligible \/ Eligible(organizer'))
    /\ UNCHANGED <<status, stampVars, configVars, policies, lock, req,
                   clock, purgeVars>>

Tick ==
    /\ clock < MaxTime
    /\ clock' = clock + 1
    /\ UNCHANGED <<status, stampVars, configVars, policies, orgVars, lock, req, purgeVars>>

RequestStep(r) ==
    \/ LockForPublish(r) \/ AssessReadiness(r) \/ DenyReadiness(r)
    \/ SubmitForReview(r) \/ PublishDirectly(r) \/ ApproveEvent(r)
    \/ InvalidateEventCache(r)

Next ==
    \/ \E r \in Requests : RequestStep(r) \/ Crash(r)
    \/ \E r \in Requests, e \in Events :
          \/ BeginPublish(r, e) \/ BeginApproval(r, e)
          \/ UnpublishEvent(r, e) \/ AdminRejectEvent(r, e)
          \/ UpdateEventPolicies(r, e) \/ UpdatePublishedEvent(r, e)
    \/ \E e \in Events :
          \/ UpdateDraftEvent(e) \/ ReplaceEventCategories(e)
          \/ ReplaceEventPricing(e) \/ ChangeHeroImage(e)
    \/ OrganizerChanges
    \/ Tick

Spec == Init /\ [][Next]_vars

(* PostgreSQL grants a row lock to its waiters in turn (strong fairness);  *)
(* the other steps of a running handler need nothing but to be scheduled.  *)
Fairness == \A r \in Requests : /\ SF_vars(LockForPublish(r))
                               /\ WF_vars(RequestStep(r))
FairSpec == Spec /\ Fairness

-----------------------------------------------------------------------------
RowsOK ==
    /\ status \in [Events -> Statuses]
    /\ publishedAt \in [Events -> Times \cup {NULL}]
    /\ firstPublishedAt \in [Events -> Times \cup {NULL}]
    /\ submittedForReviewAt \in [Events -> Times \cup {NULL}]
    /\ startAt \in [Events -> StartTimes]
    /\ policies \in [Events -> Texts \cup {NoText}]
    /\ categories \in [Events -> SUBSET Categories]
    /\ pricing \in [Events -> SUBSET Categories]
    /\ hero \in [Events -> BOOLEAN]
    /\ organizer \in Organizers
    /\ everEligible \in BOOLEAN
    /\ clock \in Times
    /\ lastPurged \in [Events -> Texts \cup {NoText, Hidden}]
    /\ lostPurge \subseteq Events

HandlersOK ==
    /\ req \in [Requests -> Handlers]
    /\ \A r \in Requests : req[r].pc # "idle" => req[r].event \in Events
    /\ lock \in [Events -> Requests \cup {NoRequest}]

(* Every column and every local stays within the values it may hold.       *)
TypeOK == RowsOK /\ HandlersOK

(* An event the organizer can no longer edit is complete: it has a         *)
(* category, a price for each and a hero image.  Readiness is assessed one *)
(* step before the status is written, so this rests on the row lock        *)
(* keeping every edit out in between, and on edits being draft-only after. *)
CompleteOncePublic ==
    \A e \in Events : status[e] \in {"under_review", "published"} => ConfigReady(e)

(* Nothing is ever published for an organizer who was at no moment both    *)
(* verified and linked to an active payout account, whatever row version   *)
(* the handler read and however long it then waited for the event lock.    *)
PublishedOnlyIfEverEligible ==
    (\E e \in Events : status[e] # "draft" \/ firstPublishedAt[e] # NULL) => everEligible

(* The three timestamps of a row tell one story across publish, unpublish, *)
(* review and rejection: published_at is set exactly while the event is    *)
(* published, first_published_at is no later, and an event approved after  *)
(* a submission was submitted no later than it was published.              *)
TimestampsAgree ==
    \A e \in Events :
        /\ status[e] = "published" <=> publishedAt[e] # NULL
        /\ status[e] = "published" =>
              /\ firstPublishedAt[e] \in 1 .. publishedAt[e]
              /\ submittedForReviewAt[e] <= publishedAt[e]
        /\ status[e] = "under_review" => submittedForReviewAt[e] # NULL

(* Once the last handler of an event is done and none of them died between *)
(* its commit and its invalidation, the caches were last purged when the   *)
(* event already looked the way it looks now: no commit goes unannounced   *)
(* and no announcement runs ahead of the commit it announces.              *)
CachesPurgedAfterCommit ==
    \A e \in Events :
        \/ lastPurged[e] = PublicView(e)
        \/ e \in lostPurge
        \/ \E r \in Requests : req[r].pc = "purge" /\ req[r].event = e

(* The admin-review gate: an event that goes from draft to published       *)
(* without an administrator belongs to an organizer with more than         *)
(* ReviewThreshold events published before, counted when the status is     *)
(* written although the handler counted them earlier.                      *)
UnreviewedOnlyAboveThreshold ==
    [][\A e \in Events :
          status[e] = "draft" /\ status'[e] = "published"
             => Cardinality(FirstPublished) > ReviewThreshold]_vars

(* first_published_at is written once: no republication, rejection or      *)
(* unpublishing clears it or moves it, so the review count cannot fall.    *)
FirstPublishedAtWrittenOnce ==
    [][\A e \in Events :
          firstPublishedAt[e] # NULL => firstPublishedAt'[e] = firstPublishedAt[e]]_vars

(* The handlers implement EventWorkflow, in which each is one step: what   *)
(* publishEvent and adminApproveEvent read before they write - the         *)
(* organizer, the readiness items, the review count - is still good for    *)
(* their decision when they write, whatever commits in between.            *)
Workflow == INSTANCE EventWorkflow WITH
    stage <- status, complete <- {e \in Events : ConfigReady(e)},
    vetted <- everEligible, first <- firstPublishedAt,
    Moments <- Times, Never <- NULL, Unreviewed <- ReviewThreshold

RefinesEventWorkflow == Workflow!FlowSpec

(* Every handler that waits for an event row gets it and runs to its end,  *)
(* whichever way it ends, and leaves the row unlocked.                     *)
RequestsFinish ==
    \A r \in Requests : req[r].pc # "idle" ~> req[r].pc = "idle"
=============================================================================
