------------------------ MODULE EventLifecycleProofs ------------------------
(***************************************************************************)
(* Proofs about EventLifecycle for every number of events, handlers,       *)
(* categories and policy texts, and every review threshold.                *)
(***************************************************************************)
EXTENDS EventLifecycle, FiniteSetTheorems, TLAPS

(* The actions grouped by what they can disturb: those of a handler that   *)
(* has begun, and the ones that only touch the organizer or the clock.     *)
LEMMA NextCases ==
    ASSUME [Next]_vars
    PROVE  \/ \E r \in Requests : RequestStep(r) \/ Crash(r)
           \/ \E r \in Requests, e \in Events :
                 \/ BeginPublish(r, e) \/ BeginApproval(r, e)
                 \/ UnpublishEvent(r, e) \/ AdminRejectEvent(r, e)
                 \/ UpdateEventPolicies(r, e) \/ UpdatePublishedEvent(r, e)
           \/ \E e \in Events :
                 \/ UpdateDraftEvent(e) \/ ReplaceEventCategories(e)
                 \/ ReplaceEventPricing(e) \/ ChangeHeroImage(e)
           \/ OrganizerChanges
           \/ Tick
           \/ UNCHANGED vars
BY Zenon DEF Next

(* Handler, Idle and Purging build records of the right type ...           *)
LEMMA HandlerType ==
    /\ \A at \in {"idle", "lock", "assess", "write", "purge"},
          kind \in {"publish", "approve"}, e \in Events, ok, review \in BOOLEAN :
          Handler(at, kind, e, ok, review) \in Handlers
    /\ Idle \in Handlers
    /\ \A e \in Events : Purging(e) \in Handlers
BY DEF Handler, Handlers, Idle, Purging

(* ... with the fields that were put in.                                   *)
LEMMA HandlerFields ==
    /\ \A at, kind, e, ok, review :
          /\ Handler(at, kind, e, ok, review).pc = at
          /\ Handler(at, kind, e, ok, review).op = kind
          /\ Handler(at, kind, e, ok, review).event = e
          /\ Handler(at, kind, e, ok, review).eligible = ok
          /\ Handler(at, kind, e, ok, review).needsReview = review
    /\ Idle.pc = "idle"
    /\ Idle.eligible = FALSE
    /\ \A e : /\ Purging(e).pc = "purge"
             /\ Purging(e).event = e
             /\ Purging(e).eligible = FALSE
BY DEF Handler, Idle, Purging

(* The fields of a handler that is known to be one. *)
LEMMA HandlerOfType ==
    ASSUME NEW h \in Handlers
    PROVE  /\ h.pc \in {"idle", "lock", "assess", "write", "purge"}
           /\ h.op \in {"publish", "approve"}
           /\ h.event \in Events \cup {NoEvent}
           /\ h.eligible \in BOOLEAN
           /\ h.needsReview \in BOOLEAN
BY DEF Handlers

(* Overwriting the locals of one handler keeps all of them well-formed.    *)
LEMMA ReplaceHandler ==
    ASSUME HandlersOK, NEW r \in Requests, NEW h \in Handlers,
           h.pc # "idle" => h.event \in Events,
           req' = [req EXCEPT ![r] = h],
           lock' \in [Events -> Requests \cup {NoRequest}]
    PROVE  HandlersOK'
BY DEF HandlersOK

(* What HandlersOK says of a handler that has begun. *)
LEMMA BusyHandler ==
    ASSUME HandlersOK, NEW r \in Requests, req[r].pc # "idle"
    PROVE  /\ req[r].event \in Events
           /\ req[r].op \in {"publish", "approve"}
           /\ req[r].eligible \in BOOLEAN
           /\ req[r].needsReview \in BOOLEAN
           /\ Idle \in Handlers /\ Idle.pc = "idle"
           /\ Purging(req[r].event) \in Handlers
           /\ Purging(req[r].event).event = req[r].event
<1>1. req[r] \in Handlers /\ req[r].event \in Events
  BY DEF HandlersOK
<1> QED
  BY <1>1, HandlerType, HandlerFields, HandlerOfType

(* The type correctness of the model: no handler, crash or concurrent      *)
(* change of the organizer takes a column or a local out of its type.      *)
THEOREM TypeCorrect == Spec => []TypeOK
<1>1. Init => TypeOK
  <2> SUFFICES ASSUME Init PROVE RowsOK /\ HandlersOK
    BY DEF TypeOK
  <2>1. /\ 1 \in Times /\ NULL \in Times \cup {NULL} /\ MaxTime + 1 \in StartTimes
        /\ "draft" \in Statuses
    BY LifecycleAssumption DEF Times, StartTimes, NULL, Statuses
  <2>2. RowsOK
    BY <2>1 DEF Init, RowsOK, Organizers
  <2>3. HandlersOK
    BY HandlerType, HandlerFields DEF Init, HandlersOK
  <2> QED
    BY <2>2, <2>3
<1>2. TypeOK /\ [Next]_vars => TypeOK'
  <2> SUFFICES ASSUME RowsOK, HandlersOK, [Next]_vars PROVE RowsOK' /\ HandlersOK'
    BY DEF TypeOK
  <2>1. ASSUME NEW r \in Requests, LockForPublish(r) PROVE RowsOK' /\ HandlersOK'
    <3> DEFINE e == req[r].event
    <3>1. /\ e \in Events /\ req[r].pc # "idle"
          /\ req[r].op \in {"publish", "approve"} /\ req[r].eligible \in BOOLEAN
      BY <2>1, BusyHandler DEF LockForPublish, Commit
    <3>2. RowsOK'
      BY <2>1, <3>1 DEF RowsOK, LockForPublish, stampVars, configVars, orgVars, purgeVars
    <3>3. HandlersOK'
      <4>1. /\ Handler("assess", "publish", e, req[r].eligible, TRUE) \in Handlers
            /\ Handler("assess", "publish", e, req[r].eligible, TRUE).event = e
            /\ Purging(e) \in Handlers /\ Purging(e).event = e
        BY <3>1 DEF Handler, Handlers, Purging
      <4>2. lock' \in [Events -> Requests \cup {NoRequest}]
        BY <2>1, <3>1 DEF HandlersOK, LockForPublish
      <4> QED
        BY <2>1, <3>1, <4>1, <4>2, ReplaceHandler DEF LockForPublish
    <3> QED
      BY <3>2, <3>3
  <2>2. ASSUME NEW r \in Requests, AssessReadiness(r) PROVE RowsOK' /\ HandlersOK'
    <3> DEFINE e == req[r].event
    <3>1. /\ e \in Events /\ req[r].pc # "idle"
          /\ req[r].op \in {"publish", "approve"} /\ req[r].eligible \in BOOLEAN
      BY <2>2, BusyHandler DEF AssessReadiness, Commit
    <3>2. RowsOK'
      BY <2>2, <3>1 DEF RowsOK, AssessReadiness, stampVars, configVars, orgVars, purgeVars
    <3>3. HandlersOK'
      <4> DEFINE h == Handler("write", req[r].op, e, req[r].eligible,
                              RequiresAdminReview)
      <4>1. RequiresAdminReview \in BOOLEAN
        BY DEF RequiresAdminReview
      <4>2. h \in Handlers /\ h.event = e
        BY <3>1, <4>1 DEF Handler, Handlers
      <4>3. req' = [req EXCEPT ![r] = h] /\ lock' = lock
        BY <2>2 DEF AssessReadiness
      <4> HIDE DEF h
      <4> QED
        BY <3>1, <4>2, <4>3, ReplaceHandler DEF HandlersOK
    <3> QED
      BY <3>2, <3>3
  <2>3. ASSUME NEW r \in Requests, DenyReadiness(r) PROVE RowsOK' /\ HandlersOK'
    <3> DEFINE e == req[r].event
    <3>1. /\ e \in Events /\ req[r].pc # "idle"
          /\ req[r].op \in {"publish", "approve"} /\ req[r].eligible \in BOOLEAN
      BY <2>3, BusyHandler DEF DenyReadiness, Rollback, Commit
    <3>2. RowsOK'
      BY <2>3, <3>1 DEF RowsOK, DenyReadiness, Rollback, stampVars, configVars, orgVars, purgeVars
    <3>3. HandlersOK'
      BY <2>3, <3>1, HandlerType, HandlerFields, ReplaceHandler DEF HandlersOK, DenyReadiness, Rollback
    <3> QED
      BY <3>2, <3>3
  <2>4. ASSUME NEW r \in Requests, SubmitForReview(r) PROVE RowsOK' /\ HandlersOK'
    <3> DEFINE e == req[r].event
    <3>1. /\ e \in Events /\ req[r].pc # "idle"
          /\ req[r].op \in {"publish", "approve"} /\ req[r].eligible \in BOOLEAN
      BY <2>4, BusyHandler DEF SubmitForReview, Commit
    <3>2. RowsOK'
      BY <2>4, <3>1 DEF RowsOK, SubmitForReview, configVars, orgVars, purgeVars, Times, StartTimes, NULL, Statuses
    <3>3. HandlersOK'
      BY <2>4, <3>1, HandlerType, HandlerFields, ReplaceHandler DEF HandlersOK, SubmitForReview, Commit
    <3> QED
      BY <3>2, <3>3
  <2>5. ASSUME NEW r \in Requests, PublishDirectly(r) PROVE RowsOK' /\ HandlersOK'
    <3> DEFINE e == req[r].event
    <3>1. /\ e \in Events /\ req[r].pc # "idle"
          /\ req[r].op \in {"publish", "approve"} /\ req[r].eligible \in BOOLEAN
      BY <2>5, BusyHandler DEF PublishDirectly, Commit
    <3>2. RowsOK'
      BY <2>5, <3>1 DEF RowsOK, PublishDirectly, MarkPublished, configVars, orgVars, purgeVars, Times, StartTimes, NULL, Statuses
    <3>3. HandlersOK'
      BY <2>5, <3>1, HandlerType, HandlerFields, ReplaceHandler DEF HandlersOK, PublishDirectly, Commit
    <3> QED
      BY <3>2, <3>3
  <2>6. ASSUME NEW r \in Requests, ApproveEvent(r) PROVE RowsOK' /\ HandlersOK'
    <3> DEFINE e == req[r].event
    <3>1. /\ e \in Events /\ req[r].pc # "idle"
          /\ req[r].op \in {"publish", "approve"} /\ req[r].eligible \in BOOLEAN
      BY <2>6, BusyHandler DEF ApproveEvent, Commit
    <3>2. RowsOK'
      BY <2>6, <3>1 DEF RowsOK, ApproveEvent, MarkPublished, configVars, orgVars, purgeVars, Times, StartTimes, NULL, Statuses
    <3>3. HandlersOK'
      BY <2>6, <3>1, HandlerType, HandlerFields, ReplaceHandler DEF HandlersOK, ApproveEvent, Commit
    <3> QED
      BY <3>2, <3>3
  <2>7. ASSUME NEW r \in Requests, InvalidateEventCache(r) PROVE RowsOK' /\ HandlersOK'
    <3> DEFINE e == req[r].event
    <3>1. /\ e \in Events /\ req[r].pc # "idle"
          /\ req[r].op \in {"publish", "approve"} /\ req[r].eligible \in BOOLEAN
      BY <2>7, BusyHandler DEF InvalidateEventCache, Commit
    <3>2. RowsOK'
      BY <2>7, <3>1 DEF RowsOK, InvalidateEventCache, PublicView, stampVars, configVars, orgVars
    <3>3. HandlersOK'
      BY <2>7, <3>1, HandlerType, HandlerFields, ReplaceHandler DEF HandlersOK, InvalidateEventCache
    <3> QED
      BY <3>2, <3>3
  <2>8. ASSUME NEW r \in Requests, Crash(r) PROVE RowsOK' /\ HandlersOK'
    <3> DEFINE e == req[r].event
    <3>1. /\ e \in Events /\ req[r].pc # "idle"
          /\ req[r].op \in {"publish", "approve"} /\ req[r].eligible \in BOOLEAN
      BY <2>8, BusyHandler DEF Crash, Commit
    <3>2. RowsOK'
      BY <2>8, <3>1 DEF RowsOK, Crash, stampVars, configVars, orgVars
    <3>3. HandlersOK'
      BY <2>8, <3>1, HandlerType, HandlerFields, ReplaceHandler DEF HandlersOK, Crash
    <3> QED
      BY <3>2, <3>3
  <2>9. ASSUME NEW r \in Requests, NEW e \in Events, BeginPublish(r, e)
        PROVE  RowsOK' /\ HandlersOK'
    <3>1. RowsOK'
      BY <2>9 DEF RowsOK, BeginPublish, stampVars, configVars, orgVars, purgeVars
    <3>2. HandlersOK'
      <4> DEFINE h == Handler("lock", "publish", e, Eligible(organizer), TRUE)
      <4>1. Eligible(organizer) \in BOOLEAN
        BY DEF Eligible, RowsOK, Organizers
      <4>2. h \in Handlers /\ h.event = e
        BY <4>1 DEF Handler, Handlers
      <4>3. req' = [req EXCEPT ![r] = h] /\ lock' = lock
        BY <2>9 DEF BeginPublish
      <4> HIDE DEF h
      <4> QED
        BY <4>2, <4>3, ReplaceHandler DEF HandlersOK
    <3> QED
      BY <3>1, <3>2
  <2>10. ASSUME NEW r \in Requests, NEW e \in Events, BeginApproval(r, e)
        PROVE  RowsOK' /\ HandlersOK'
    <3>1. RowsOK'
      BY <2>10 DEF RowsOK, BeginApproval, stampVars, configVars, orgVars, purgeVars
    <3>2. HandlersOK'
      <4> DEFINE h == Handler("assess", "approve", e, Eligible(organizer), TRUE)
      <4>1. Eligible(organizer) \in BOOLEAN
        BY DEF Eligible, RowsOK, Organizers
      <4>2. h \in Handlers /\ h.event = e
        BY <4>1 DEF Handler, Handlers
      <4>3. req' = [req EXCEPT ![r] = h] /\ lock' = [lock EXCEPT ![e] = r]
        BY <2>10 DEF BeginApproval
      <4> HIDE DEF h
      <4> QED
        BY <4>2, <4>3, ReplaceHandler DEF HandlersOK
    <3> QED
      BY <3>1, <3>2
  <2>11. ASSUME NEW r \in Requests, NEW e \in Events, UnpublishEvent(r, e) \/ AdminRejectEvent(r, e)
        PROVE  RowsOK' /\ HandlersOK'
    <3>1. RowsOK'
      BY <2>11 DEF RowsOK, UnpublishEvent, AdminRejectEvent, ReturnToDraft, MarkDraft, configVars, orgVars,
                   purgeVars, Times, StartTimes, NULL, Statuses
    <3>2. HandlersOK'
      BY <2>11, HandlerType, HandlerFields, ReplaceHandler DEF HandlersOK, UnpublishEvent, AdminRejectEvent,
                                                            ReturnToDraft, MarkDraft
    <3> QED
      BY <3>1, <3>2
  <2>12. ASSUME NEW r \in Requests, NEW e \in Events, UpdateEventPolicies(r, e) \/ UpdatePublishedEvent(r, e)
        PROVE  RowsOK' /\ HandlersOK'
    <3>1. RowsOK'
      BY <2>12 DEF RowsOK, UpdateEventPolicies, UpdatePublishedEvent, EditPolicies,
                   stampVars, configVars, orgVars, purgeVars
    <3>2. HandlersOK'
      BY <2>12, HandlerType, HandlerFields, ReplaceHandler DEF HandlersOK, UpdateEventPolicies,
                                        UpdatePublishedEvent, EditPolicies
    <3> QED
      BY <3>1, <3>2
  <2>13. ASSUME NEW e \in Events,
                \/ UpdateDraftEvent(e) \/ ReplaceEventCategories(e)
                \/ ReplaceEventPricing(e) \/ ChangeHeroImage(e)
         PROVE  RowsOK' /\ HandlersOK'
    BY <2>13 DEF RowsOK, HandlersOK, UpdateDraftEvent, ReplaceEventCategories,
                 ReplaceEventPricing, ChangeHeroImage, EditDraft, stampVars, orgVars,
                 purgeVars
  <2>14. CASE OrganizerChanges
    BY <2>14 DEF RowsOK, HandlersOK, OrganizerChanges, Eligible, Organizers, stampVars,
                 configVars, purgeVars
  <2>15. CASE Tick
    BY <2>15, LifecycleAssumption
    DEF RowsOK, HandlersOK, Tick, Times, stampVars, configVars, orgVars, purgeVars
  <2>16. CASE UNCHANGED vars
    BY <2>16 DEF RowsOK, HandlersOK, vars, stampVars, configVars, orgVars, purgeVars
  <2> QED
    BY <2>1, <2>2, <2>3, <2>4, <2>5, <2>6, <2>7, <2>8, <2>9, <2>10, <2>11, <2>12,
       <2>13, <2>14, <2>15, <2>16, NextCases, Zenon DEF RequestStep
<1> QED
  BY <1>1, <1>2, PTL DEF Spec

-----------------------------------------------------------------------------
(* A handler between its SELECT ... FOR UPDATE and its COMMIT holds the    *)
(* lock of its event.                                                      *)
LockInv == \A r \in Requests :
              req[r].pc \in {"assess", "write"} => lock[req[r].event] = r

(* The row lock is exclusive: the two windows in which publishing and      *)
(* approving rely on rows read earlier are covered by it, whatever other   *)
(* handlers do and whichever of them die.                                  *)
THEOREM RowLockHeld == Spec => []LockInv
<1>1. Init => LockInv
  BY HandlerFields DEF Init, LockInv
<1>2. TypeOK /\ LockInv /\ [Next]_vars => LockInv'
  <2> SUFFICES ASSUME HandlersOK, LockInv, [Next]_vars PROVE LockInv'
    BY DEF TypeOK
  <2> USE LifecycleAssumption DEF LockInv, HandlersOK
  <2>1. ASSUME NEW r \in Requests, LockForPublish(r) PROVE LockInv'
    <3>1. /\ req[r].event \in Events
          /\ \A q \in Requests \ {r} : req'[q] = req[q]
          /\ \A e \in Events : lock[e] # NoRequest => lock'[e] = lock[e]
          /\ req'[r].pc = "assess" => /\ req'[r].event = req[r].event
                                     /\ lock'[req[r].event] = r
          /\ req'[r].pc \in {"assess", "purge"}
      BY <2>1, HandlerFields DEF LockForPublish, Handler
    <3> QED
      BY <3>1
  <2>2. ASSUME NEW r \in Requests, AssessReadiness(r) PROVE LockInv'
    BY <2>2, HandlerFields DEF AssessReadiness
  <2>3. ASSUME NEW r \in Requests, DenyReadiness(r) PROVE LockInv'
    BY <2>3, HandlerFields DEF DenyReadiness, Rollback
  <2>4. ASSUME NEW r \in Requests,
               SubmitForReview(r) \/ PublishDirectly(r) \/ ApproveEvent(r)
        PROVE  LockInv'
    BY <2>4, HandlerFields DEF SubmitForReview, PublishDirectly, ApproveEvent, Commit
  <2>5. ASSUME NEW r \in Requests, InvalidateEventCache(r) \/ Crash(r)
        PROVE  LockInv'
    <3>1. /\ \A q \in Requests \ {r} : req'[q] = req[q]
          /\ \A e \in Events : lock[e] # r => lock'[e] = lock[e]
          /\ req'[r].pc = "idle"
      BY <2>5, HandlerFields DEF InvalidateEventCache, Crash
    <3> QED
      BY <3>1
  <2>6. ASSUME NEW r \in Requests, NEW e \in Events, BeginPublish(r, e)
        PROVE  LockInv'
    <3>1. /\ \A q \in Requests \ {r} : req'[q] = req[q]
          /\ req'[r].pc = "lock"
          /\ lock' = lock
      BY <2>6, HandlerFields DEF BeginPublish, Handler
    <3> QED
      BY <3>1
  <2>7. ASSUME NEW r \in Requests, NEW e \in Events, BeginApproval(r, e)
        PROVE  LockInv'
    BY <2>7, HandlerFields DEF BeginApproval, Handler
  <2>8. ASSUME NEW r \in Requests, NEW e \in Events,
               \/ UnpublishEvent(r, e) \/ AdminRejectEvent(r, e)
               \/ UpdateEventPolicies(r, e) \/ UpdatePublishedEvent(r, e)
        PROVE  LockInv'
    BY <2>8, HandlerFields DEF UnpublishEvent, AdminRejectEvent, ReturnToDraft, MarkDraft,
       UpdateEventPolicies, UpdatePublishedEvent, EditPolicies
  <2>9. CASE /\ req' = req
             /\ lock' = lock
    BY <2>9
  <2>10. ASSUME \/ OrganizerChanges \/ Tick \/ UNCHANGED vars
                \/ \E e \in Events :
                      \/ UpdateDraftEvent(e) \/ ReplaceEventCategories(e)
                      \/ ReplaceEventPricing(e) \/ ChangeHeroImage(e)
         PROVE  req' = req /\ lock' = lock
    BY <2>10 DEF OrganizerChanges, Tick, vars, UpdateDraftEvent, ReplaceEventCategories,
                 ReplaceEventPricing, ChangeHeroImage, EditDraft
  <2> QED
    BY <2>1, <2>2, <2>3, <2>4, <2>5, <2>6, <2>7, <2>8, <2>9, <2>10, NextCases, Zenon
    DEF RequestStep
<1> QED
  BY <1>1, <1>2, TypeCorrect, PTL DEF Spec

-----------------------------------------------------------------------------
(* A handler that has passed the readiness check works on an event that is *)
(* still complete.                                                         *)
AssessedInv == \A r \in Requests :
                  req[r].pc = "write" => ConfigReady(req[r].event)

CompleteInv == AssessedInv /\ CompleteOncePublic

(* What a step may do to the rows that make an event complete: an edit     *)
(* finds the event unlocked and in draft and touches nothing else.         *)
LEMMA ConfigSteps ==
    ASSUME TypeOK, [Next]_vars
    PROVE  \/ UNCHANGED <<categories, pricing, hero>>
           \/ /\ UNCHANGED <<status, req, lock>>
              /\ \E e \in Events :
                    /\ lock[e] = NoRequest
                    /\ status[e] = "draft"
                    /\ \A x \in Events \ {e} :
                          /\ categories'[x] = categories[x]
                          /\ pricing'[x] = pricing[x]
                          /\ hero'[x] = hero[x]
<1> USE DEF TypeOK, RowsOK
<1>1. ASSUME NEW r \in Requests, RequestStep(r) \/ Crash(r)
      PROVE  UNCHANGED <<categories, pricing, hero>>
  BY <1>1 DEF RequestStep, LockForPublish, AssessReadiness, DenyReadiness,
     SubmitForReview, PublishDirectly, ApproveEvent, InvalidateEventCache, Crash, configVars
<1>2. ASSUME NEW r \in Requests, NEW e \in Events,
             \/ BeginPublish(r, e) \/ BeginApproval(r, e)
             \/ UnpublishEvent(r, e) \/ AdminRejectEvent(r, e)
             \/ UpdateEventPolicies(r, e) \/ UpdatePublishedEvent(r, e)
      PROVE  UNCHANGED <<categories, pricing, hero>>
  BY <1>2 DEF BeginPublish, BeginApproval, UnpublishEvent, AdminRejectEvent,
     ReturnToDraft, MarkDraft, UpdateEventPolicies, UpdatePublishedEvent, EditPolicies, configVars
<1>3. ASSUME NEW e \in Events,
             \/ UpdateDraftEvent(e) \/ ReplaceEventCategories(e)
             \/ ReplaceEventPricing(e) \/ ChangeHeroImage(e)
      PROVE  /\ UNCHANGED <<status, req, lock>>
             /\ lock[e] = NoRequest
             /\ status[e] = "draft"
             /\ \A x \in Events \ {e} :
                   /\ categories'[x] = categories[x]
                   /\ pricing'[x] = pricing[x]
                   /\ hero'[x] = hero[x]
  BY <1>3 DEF UpdateDraftEvent, ReplaceEventCategories, ReplaceEventPricing,
     ChangeHeroImage, EditDraft
<1>4. ASSUME OrganizerChanges \/ Tick \/ UNCHANGED vars
      PROVE  UNCHANGED <<categories, pricing, hero>>
  BY <1>4 DEF OrganizerChanges, Tick, vars, configVars
<1> QED
  BY <1>1, <1>2, <1>3, <1>4, NextCases, Zenon

(* How a handler comes to hold a passed readiness check, and how an event  *)
(* comes to be under review or published: through such a handler.          *)
Passed == \A r \in Requests :
    req'[r].pc = "write" =>
        \/ req'[r] = req[r]
        \/ /\ req'[r].event = req[r].event
           /\ req'[r].eligible = req[r].eligible
           /\ req[r].pc = "assess"
           /\ ConfigReady(req[r].event)
           /\ req[r].eligible
           /\ req'[r].needsReview = RequiresAdminReview
           /\ UNCHANGED firstPublishedAt

Entered == \A e \in Events :
    status'[e] \in {"under_review", "published"} =>
        \/ status[e] = status'[e]
        \/ \E r \in Requests :
              /\ req[r].pc = "write"
              /\ req[r].event = e
              /\ status[e] = "draft" /\ status'[e] = "published" =>
                    req[r].op = "publish" /\ ~req[r].needsReview

LEMMA PublishSteps ==
    ASSUME TypeOK, [Next]_vars
    PROVE  Passed /\ Entered
<1> USE HandlerFields DEF TypeOK, RowsOK, HandlersOK, Passed, Entered
<1>1. ASSUME NEW r \in Requests,
             LockForPublish(r) \/ DenyReadiness(r) \/ InvalidateEventCache(r) \/ Crash(r)
      PROVE  Passed /\ Entered
  BY <1>1 DEF LockForPublish, DenyReadiness, Rollback, InvalidateEventCache, Crash, Handler
<1>2. ASSUME NEW r \in Requests, AssessReadiness(r) PROVE Passed /\ Entered
  BY <1>2 DEF AssessReadiness, Ready, Handler, stampVars
<1>3. ASSUME NEW r \in Requests,
             SubmitForReview(r) \/ PublishDirectly(r) \/ ApproveEvent(r)
      PROVE  Passed /\ Entered
  BY <1>3 DEF SubmitForReview, PublishDirectly, ApproveEvent, MarkPublished, Commit
<1>4. ASSUME NEW r \in Requests, NEW e \in Events, BeginPublish(r, e) \/ BeginApproval(r, e)
      PROVE  Passed /\ Entered
  BY <1>4 DEF BeginPublish, BeginApproval, Handler
<1>5. ASSUME NEW r \in Requests, NEW e \in Events,
             \/ UnpublishEvent(r, e) \/ AdminRejectEvent(r, e)
             \/ UpdateEventPolicies(r, e) \/ UpdatePublishedEvent(r, e)
      PROVE  Passed /\ Entered
  BY <1>5 DEF UnpublishEvent, AdminRejectEvent, ReturnToDraft, MarkDraft, UpdateEventPolicies,
     UpdatePublishedEvent, EditPolicies
<1>6. ASSUME \/ OrganizerChanges \/ Tick \/ UNCHANGED vars
             \/ \E e \in Events :
                   \/ UpdateDraftEvent(e) \/ ReplaceEventCategories(e)
                   \/ ReplaceEventPricing(e) \/ ChangeHeroImage(e)
      PROVE  Passed /\ Entered
  <2>1. UNCHANGED <<req, status>>
    BY <1>6 DEF OrganizerChanges, Tick, vars, UpdateDraftEvent, ReplaceEventCategories,
       ReplaceEventPricing, ChangeHeroImage, EditDraft
  <2> QED
    BY <2>1
<1> HIDE DEF Passed, Entered
<1> QED
  BY <1>1, <1>2, <1>3, <1>4, <1>5, <1>6, NextCases, Zenon DEF RequestStep

(* The invariant carries the handlers that have assessed and not yet       *)
(* written: an edit in that window would need the row lock, and            *)
(* RowLockHeld says who has it.                                            *)
LEMMA CompleteInvariance == Spec => []CompleteInv
<1>1. Init => CompleteInv
  BY HandlerFields DEF Init, CompleteInv, AssessedInv, CompleteOncePublic
<1>2. TypeOK /\ LockInv /\ CompleteInv /\ [Next]_vars => CompleteInv'
  <2> SUFFICES ASSUME TypeOK, LockInv, CompleteInv, [Next]_vars PROVE CompleteInv'
    OBVIOUS
  <2>1. CASE UNCHANGED <<categories, pricing, hero>>
    <3>1. \A e \in Events : ConfigReady(e)' <=> ConfigReady(e)
      BY <2>1 DEF ConfigReady
    <3>2. AssessedInv'
      BY <3>1, PublishSteps DEF Passed, TypeOK, HandlersOK, CompleteInv, AssessedInv
    <3>3. CompleteOncePublic'
      BY <3>1, PublishSteps DEF Entered, CompleteInv, AssessedInv, CompleteOncePublic
    <3> QED
      BY <3>2, <3>3 DEF CompleteInv
  <2>2. ASSUME NEW e \in Events, lock[e] = NoRequest, status[e] = "draft",
               UNCHANGED <<status, req, lock>>,
               \A x \in Events \ {e} : /\ categories'[x] = categories[x]
                                       /\ pricing'[x] = pricing[x]
                                       /\ hero'[x] = hero[x]
        PROVE  CompleteInv'
    <3>1. \A x \in Events : x # e => (ConfigReady(x)' <=> ConfigReady(x))
      BY <2>2 DEF ConfigReady
    <3>2. \A r \in Requests : req[r].pc = "write" =>
              req[r].event \in Events /\ req[r].event # e
      BY <2>2, LifecycleAssumption DEF LockInv, TypeOK, HandlersOK
    <3>3. AssessedInv'
      BY <2>2, <3>1, <3>2 DEF CompleteInv, AssessedInv
    <3>4. CompleteOncePublic'
      BY <2>2, <3>1 DEF CompleteInv, CompleteOncePublic
    <3> QED
      BY <3>3, <3>4 DEF CompleteInv
  <2> QED
    BY <2>1, <2>2, ConfigSteps
<1> QED
  BY <1>1, <1>2, TypeCorrect, RowLockHeld, PTL DEF Spec

(* An event under review or published is complete, as readiness is         *)
(* assessed and the status written under one row lock.                     *)
THEOREM CompletePublication == Spec => []CompleteOncePublic
BY CompleteInvariance, PTL DEF CompleteInv

-----------------------------------------------------------------------------
(* first_published_at is written once: COALESCE keeps the value a row has. *)
LEMMA FirstPublishedSteps ==
    ASSUME TypeOK, [Next]_vars
    PROVE  \A e \in Events :
              firstPublishedAt[e] # NULL => firstPublishedAt'[e] = firstPublishedAt[e]
<1> USE DEF TypeOK, RowsOK
<1>1. ASSUME NEW r \in Requests, PublishDirectly(r) \/ ApproveEvent(r)
      PROVE  \A e \in Events :
                firstPublishedAt[e] # NULL => firstPublishedAt'[e] = firstPublishedAt[e]
  BY <1>1 DEF PublishDirectly, ApproveEvent, MarkPublished
<1>2. ASSUME NEW r \in Requests,
             \/ LockForPublish(r) \/ AssessReadiness(r) \/ DenyReadiness(r)
             \/ SubmitForReview(r) \/ InvalidateEventCache(r) \/ Crash(r)
      PROVE  UNCHANGED firstPublishedAt
  BY <1>2 DEF LockForPublish, AssessReadiness, DenyReadiness, Rollback, SubmitForReview,
     InvalidateEventCache, Crash, stampVars
<1>3. ASSUME NEW r \in Requests, NEW e \in Events,
             \/ BeginPublish(r, e) \/ BeginApproval(r, e)
             \/ UnpublishEvent(r, e) \/ AdminRejectEvent(r, e)
             \/ UpdateEventPolicies(r, e) \/ UpdatePublishedEvent(r, e)
      PROVE  UNCHANGED firstPublishedAt
  BY <1>3 DEF BeginPublish, BeginApproval, UnpublishEvent, AdminRejectEvent,
     ReturnToDraft, MarkDraft, UpdateEventPolicies, UpdatePublishedEvent, EditPolicies, stampVars
<1>4. ASSUME \/ OrganizerChanges \/ Tick \/ UNCHANGED vars
             \/ \E e \in Events :
                   \/ UpdateDraftEvent(e) \/ ReplaceEventCategories(e)
                   \/ ReplaceEventPricing(e) \/ ChangeHeroImage(e)
      PROVE  UNCHANGED firstPublishedAt
  BY <1>4 DEF OrganizerChanges, Tick, vars, stampVars, UpdateDraftEvent,
     ReplaceEventCategories, ReplaceEventPricing, ChangeHeroImage, EditDraft
<1> QED
  BY <1>1, <1>2, <1>3, <1>4, NextCases DEF RequestStep

(* The date of the first publication never changes again. *)
THEOREM FirstPublishedOnce == Spec => FirstPublishedAtWrittenOnce
<1>1. TypeOK /\ [Next]_vars =>
        [\A e \in Events : firstPublishedAt[e] # NULL =>
                             firstPublishedAt'[e] = firstPublishedAt[e]]_vars
  BY FirstPublishedSteps
<1> QED
  BY <1>1, TypeCorrect, PTL DEF Spec, FirstPublishedAtWrittenOnce

(* Hence the number of events ever published cannot fall ...               *)
LEMMA ReviewCountMonotone ==
    ASSUME TypeOK, [Next]_vars
    PROVE  /\ Cardinality(FirstPublished) \in Nat
           /\ Cardinality(FirstPublished)' \in Nat
           /\ Cardinality(FirstPublished) <= Cardinality(FirstPublished)'
<1>1. FirstPublished \subseteq FirstPublished'
  BY FirstPublishedSteps DEF FirstPublished
<1>2. IsFiniteSet(FirstPublished')
  BY FS_Subset, LifecycleAssumption DEF FirstPublished
<1> QED
  BY <1>1, <1>2, FS_Subset, FS_CardinalityType

(* ... and a handler that was told no review is needed remains right.      *)
GateInv == \A r \in Requests :
    req[r].pc = "write" /\ ~req[r].needsReview =>
        Cardinality(FirstPublished) > ReviewThreshold

LEMMA GateInvariance == Spec => []GateInv
<1>1. Init => GateInv
  BY HandlerFields DEF Init, GateInv
<1>2. TypeOK /\ GateInv /\ [Next]_vars => GateInv'
  <2> SUFFICES ASSUME TypeOK, GateInv, [Next]_vars, NEW r \in Requests,
                      req'[r].pc = "write", ~req'[r].needsReview
               PROVE  Cardinality(FirstPublished)' > ReviewThreshold
    BY DEF GateInv
  <2>1. CASE req'[r] = req[r]
    BY <2>1, ReviewCountMonotone, LifecycleAssumption DEF GateInv
  <2>2. CASE req'[r].needsReview = RequiresAdminReview
    <3>1. Cardinality(FirstPublished) > ReviewThreshold
      <4>1. ~RequiresAdminReview
        BY <2>2, Zenon
      <4> QED
        BY <4>1, ReviewCountMonotone, LifecycleAssumption DEF RequiresAdminReview
    <3> QED
      BY <3>1, ReviewCountMonotone, LifecycleAssumption
  <2> QED
    BY <2>1, <2>2, PublishSteps DEF Passed
<1> QED
  BY <1>1, <1>2, TypeCorrect, PTL DEF Spec

(* No organizer gets an event from draft to published without a review     *)
(* before more than ReviewThreshold of their events have been published,   *)
(* whatever the other handlers publish between the count and the UPDATE.   *)
THEOREM ReviewGate == Spec => UnreviewedOnlyAboveThreshold
<1>1. TypeOK /\ GateInv /\ [Next]_vars =>
        [\A e \in Events : status[e] = "draft" /\ status'[e] = "published"
                             => Cardinality(FirstPublished) > ReviewThreshold]_vars
  BY PublishSteps DEF Entered, GateInv
<1> QED
  BY <1>1, GateInvariance, TypeCorrect, PTL DEF Spec, UnreviewedOnlyAboveThreshold

-----------------------------------------------------------------------------
(* Where a handler's knowledge of an eligible organizer comes from, and    *)
(* who sets first_published_at.                                            *)
EligibleKnown ==
    /\ Eligible(organizer) => everEligible
    /\ \A r \in Requests : req[r].eligible => everEligible
    /\ \A r \in Requests : req[r].pc = "write" => req[r].eligible

EligibleInv == EligibleKnown /\ PublishedOnlyIfEverEligible

EligibleMoves ==
    /\ everEligible => everEligible'
    /\ (Eligible(organizer) => everEligible) => (Eligible(organizer)' => everEligible')
    /\ \A r \in Requests : req'[r].eligible => req[r].eligible \/ Eligible(organizer)
    /\ \A e \in Events : firstPublishedAt'[e] # NULL =>
          \/ firstPublishedAt[e] # NULL
          \/ \E r \in Requests : req[r].pc = "write"

LEMMA EligibleSteps ==
    ASSUME TypeOK, [Next]_vars
    PROVE  EligibleMoves
<1> USE HandlerFields DEF TypeOK, RowsOK, HandlersOK, orgVars, stampVars, EligibleMoves
<1>1. ASSUME NEW r \in Requests,
             \/ LockForPublish(r) \/ DenyReadiness(r)
             \/ InvalidateEventCache(r) \/ Crash(r)
      PROVE  EligibleMoves
  BY <1>1 DEF LockForPublish, DenyReadiness, Rollback, InvalidateEventCache, Crash, Handler
<1>2. ASSUME NEW r \in Requests, AssessReadiness(r) PROVE EligibleMoves
  <2>1. /\ \A q \in Requests : req'[q].eligible = req[q].eligible
        /\ UNCHANGED <<organizer, everEligible, firstPublishedAt>>
    BY <1>2 DEF AssessReadiness, Handler
  <2> QED
    BY <2>1 DEF Eligible
<1>3. ASSUME NEW r \in Requests,
             SubmitForReview(r) \/ PublishDirectly(r) \/ ApproveEvent(r)
      PROVE  EligibleMoves
  BY <1>3 DEF SubmitForReview, PublishDirectly, ApproveEvent, Commit
<1>4. ASSUME NEW r \in Requests, NEW e \in Events,
             BeginPublish(r, e) \/ BeginApproval(r, e)
      PROVE  EligibleMoves
  BY <1>4 DEF BeginPublish, BeginApproval, Handler
<1>5. ASSUME NEW r \in Requests, NEW e \in Events,
             \/ UnpublishEvent(r, e) \/ AdminRejectEvent(r, e)
             \/ UpdateEventPolicies(r, e) \/ UpdatePublishedEvent(r, e)
      PROVE  EligibleMoves
  BY <1>5 DEF UnpublishEvent, AdminRejectEvent, ReturnToDraft, MarkDraft, UpdateEventPolicies,
     UpdatePublishedEvent, EditPolicies
<1>6. ASSUME NEW e \in Events,
             \/ UpdateDraftEvent(e) \/ ReplaceEventCategories(e)
             \/ ReplaceEventPricing(e) \/ ChangeHeroImage(e)
      PROVE  EligibleMoves
  BY <1>6 DEF UpdateDraftEvent, ReplaceEventCategories, ReplaceEventPricing,
     ChangeHeroImage, EditDraft
<1>7. CASE OrganizerChanges
  BY <1>7 DEF OrganizerChanges
<1>8. CASE Tick \/ UNCHANGED vars
  BY <1>8 DEF Tick, vars
<1> HIDE DEF EligibleMoves
<1> QED
  BY <1>1, <1>2, <1>3, <1>4, <1>5, <1>6, <1>7, <1>8, NextCases, Zenon DEF RequestStep

LEMMA EligibleInvariance == Spec => []EligibleInv
<1>1. Init => EligibleInv
  BY HandlerFields
  DEF Init, EligibleInv, EligibleKnown, PublishedOnlyIfEverEligible, Eligible
<1>2. TypeOK /\ TypeOK' /\ EligibleInv /\ [Next]_vars => EligibleInv'
  <2> SUFFICES ASSUME TypeOK, TypeOK', EligibleInv, [Next]_vars PROVE EligibleInv'
    OBVIOUS
  <2>1. EligibleKnown'
    BY EligibleSteps, PublishSteps DEF EligibleMoves, EligibleInv, EligibleKnown, Passed
  <2>2. PublishedOnlyIfEverEligible'
    <3> SUFFICES ASSUME NEW e \in Events,
                        status'[e] # "draft" \/ firstPublishedAt'[e] # NULL
                 PROVE  everEligible'
      BY DEF PublishedOnlyIfEverEligible
    <3>1. everEligible
      BY EligibleSteps, PublishSteps
      DEF EligibleMoves, EligibleInv, EligibleKnown, PublishedOnlyIfEverEligible, Entered,
          TypeOK, RowsOK, Statuses
    <3> QED
      BY <3>1, EligibleSteps DEF EligibleMoves
  <2> QED
    BY <2>1, <2>2 DEF EligibleInv
<1> QED
  BY <1>1, <1>2, TypeCorrect, PTL DEF Spec

(* An event leaves draft only for an organizer who was once verified and   *)
(* linked at the same time, although publishEvent reads the organizer      *)
(* before it waits for the event.                                          *)
THEOREM OrganizerGate == Spec => []PublishedOnlyIfEverEligible
BY EligibleInvariance, PTL DEF EligibleInv

-----------------------------------------------------------------------------
(* Every commit is announced: unless the process died in between, the last *)
(* purge of an event's caches saw what a reader is shown now.              *)
THEOREM PurgeAfterCommit == Spec => []CachesPurgedAfterCommit
<1>1. Init => CachesPurgedAfterCommit
  BY DEF Init, CachesPurgedAfterCommit, PublicView
<1>2. TypeOK /\ CachesPurgedAfterCommit /\ [Next]_vars => CachesPurgedAfterCommit'
  <2> SUFFICES ASSUME TypeOK, CachesPurgedAfterCommit, [Next]_vars
               PROVE  CachesPurgedAfterCommit'
    OBVIOUS
  <2> USE HandlerFields DEF TypeOK, RowsOK, HandlersOK, CachesPurgedAfterCommit,
          PublicView, purgeVars
  <2>1. ASSUME NEW r \in Requests, LockForPublish(r) PROVE CachesPurgedAfterCommit'
    BY <2>1 DEF LockForPublish, Handler
  <2>2. ASSUME NEW r \in Requests, AssessReadiness(r) \/ DenyReadiness(r)
        PROVE  CachesPurgedAfterCommit'
    BY <2>2 DEF AssessReadiness, DenyReadiness, Rollback, Handler
  <2>3. ASSUME NEW r \in Requests,
               SubmitForReview(r) \/ PublishDirectly(r) \/ ApproveEvent(r)
        PROVE  CachesPurgedAfterCommit'
    BY <2>3 DEF SubmitForReview, PublishDirectly, ApproveEvent, MarkPublished, Commit
  <2>4. ASSUME NEW r \in Requests, InvalidateEventCache(r)
        PROVE  CachesPurgedAfterCommit'
    BY <2>4 DEF InvalidateEventCache
  <2>5. ASSUME NEW r \in Requests, Crash(r) PROVE CachesPurgedAfterCommit'
    BY <2>5 DEF Crash
  <2>6. ASSUME NEW r \in Requests, NEW e \in Events,
               BeginPublish(r, e) \/ BeginApproval(r, e)
        PROVE  CachesPurgedAfterCommit'
    BY <2>6 DEF BeginPublish, BeginApproval, Handler
  <2>7. ASSUME NEW r \in Requests, NEW e \in Events,
               UnpublishEvent(r, e) \/ AdminRejectEvent(r, e)
        PROVE  CachesPurgedAfterCommit'
    BY <2>7 DEF UnpublishEvent, AdminRejectEvent, ReturnToDraft, MarkDraft
  <2>8. ASSUME NEW r \in Requests, NEW e \in Events,
               UpdateEventPolicies(r, e) \/ UpdatePublishedEvent(r, e)
        PROVE  CachesPurgedAfterCommit'
    BY <2>8 DEF UpdateEventPolicies, UpdatePublishedEvent, EditPolicies
  <2>9. ASSUME \/ OrganizerChanges \/ Tick \/ UNCHANGED vars
               \/ \E e \in Events :
                     \/ UpdateDraftEvent(e) \/ ReplaceEventCategories(e)
                     \/ ReplaceEventPricing(e) \/ ChangeHeroImage(e)
        PROVE  CachesPurgedAfterCommit'
    BY <2>9 DEF OrganizerChanges, Tick, vars, UpdateDraftEvent, ReplaceEventCategories,
       ReplaceEventPricing, ChangeHeroImage, EditDraft
  <2> QED
    BY <2>1, <2>2, <2>3, <2>4, <2>5, <2>6, <2>7, <2>8, <2>9, NextCases, Zenon
    DEF RequestStep
<1> QED
  BY <1>1, <1>2, TypeCorrect, PTL DEF Spec

-----------------------------------------------------------------------------
(* No moment a row records lies in the future. *)
NotAhead == \A e \in Events : firstPublishedAt[e] <= clock /\ submittedForReviewAt[e] <= clock

StampInv == NotAhead /\ TimestampsAgree

(* The three timestamps keep telling one story, whatever sequence of       *)
(* submissions, rejections, publications and withdrawals an event goes     *)
(* through: the event that is written records the present, which no other  *)
(* timestamp of its row is ahead of.                                       *)
THEOREM TimestampsTellOneStory == Spec => []TimestampsAgree
<1>1. Init => StampInv
  BY DEF Init, StampInv, NotAhead, TimestampsAgree, NULL
<1>2. TypeOK /\ TypeOK' /\ StampInv /\ [Next]_vars => StampInv'
  <2> SUFFICES ASSUME RowsOK, RowsOK', HandlersOK, StampInv, [Next]_vars PROVE StampInv'
    BY DEF TypeOK
  <2> USE LifecycleAssumption DEF StampInv, NotAhead, TimestampsAgree, NULL, Times
  <2>1. ASSUME NEW r \in Requests, SubmitForReview(r) PROVE StampInv'
    BY <2>1, BusyHandler DEF SubmitForReview, RowsOK
  <2>2. ASSUME NEW r \in Requests, PublishDirectly(r) PROVE StampInv'
    BY <2>2, BusyHandler DEF PublishDirectly, MarkPublished, RowsOK
  <2>3. ASSUME NEW r \in Requests, ApproveEvent(r) PROVE StampInv'
    BY <2>3, BusyHandler DEF ApproveEvent, MarkPublished, RowsOK
  <2>4. ASSUME NEW r \in Requests, NEW e \in Events,
               UnpublishEvent(r, e) \/ AdminRejectEvent(r, e)
        PROVE  StampInv'
    BY <2>4 DEF UnpublishEvent, AdminRejectEvent, ReturnToDraft, MarkDraft, RowsOK
  <2>5. CASE Tick
    BY <2>5 DEF Tick, stampVars, RowsOK
  <2>6. CASE UNCHANGED <<status, stampVars, clock>>
    BY <2>6 DEF stampVars
  <2>7. ASSUME NEW r \in Requests,
               \/ LockForPublish(r) \/ AssessReadiness(r) \/ DenyReadiness(r)
               \/ InvalidateEventCache(r) \/ Crash(r)
        PROVE  UNCHANGED <<status, stampVars, clock>>
    BY <2>7 DEF LockForPublish, AssessReadiness, DenyReadiness, InvalidateEventCache, Crash
  <2>8. ASSUME NEW r \in Requests, NEW e \in Events,
               \/ BeginPublish(r, e) \/ BeginApproval(r, e)
               \/ UpdateEventPolicies(r, e) \/ UpdatePublishedEvent(r, e)
        PROVE  UNCHANGED <<status, stampVars, clock>>
    BY <2>8 DEF BeginPublish, BeginApproval, UpdateEventPolicies, UpdatePublishedEvent,
       EditPolicies
  <2>9. ASSUME \/ OrganizerChanges \/ UNCHANGED vars
               \/ \E e \in Events :
                     \/ UpdateDraftEvent(e) \/ ReplaceEventCategories(e)
                     \/ ReplaceEventPricing(e) \/ ChangeHeroImage(e)
        PROVE  UNCHANGED <<status, stampVars, clock>>
    BY <2>9 DEF OrganizerChanges, vars, UpdateDraftEvent, ReplaceEventCategories,
       ReplaceEventPricing, ChangeHeroImage, EditDraft
  <2> HIDE DEF StampInv
  <2> QED
    BY <2>1, <2>2, <2>3, <2>4, <2>5, <2>6, <2>7, <2>8, <2>9, NextCases, Zenon
    DEF RequestStep
<1> QED
  BY <1>1, <1>2, TypeCorrect, PTL DEF Spec, StampInv

-----------------------------------------------------------------------------
(***************************************************************************)
(* The refinement of EventWorkflow.  A handler's write is the step; what   *)
(* it read earlier is still good then by the three invariants above, and   *)
(* its other steps stutter.                                                *)
(***************************************************************************)
CompleteEvents == {e \in Events : ConfigReady(e)}

LEMMA CompleteEventsKept ==
    ASSUME UNCHANGED configVars
    PROVE  CompleteEvents' = CompleteEvents
BY DEF configVars, CompleteEvents, ConfigReady

LEMMA WorkflowStutters ==
    ASSUME UNCHANGED <<status, configVars, everEligible, firstPublishedAt>>
    PROVE  UNCHANGED Workflow!flowVars
<1>1. CompleteEvents' = CompleteEvents
  BY CompleteEventsKept
<1> QED
  BY <1>1 DEF Workflow!flowVars, CompleteEvents

(* A handler that is about to write has what the abstract step asks for.   *)
LEMMA WriterMayPass ==
    ASSUME HandlersOK, AssessedInv, EligibleKnown, NEW r \in Requests, req[r].pc = "write"
    PROVE  req[r].event \in Events /\ req[r].event \in CompleteEvents /\ everEligible
<1>1. req[r].event \in Events
  BY DEF HandlersOK
<1> QED
  BY <1>1 DEF AssessedInv, EligibleKnown, CompleteEvents

(* The three writes that take an event out of the drafts or the review.    *)
LEMMA WritesPass ==
    ASSUME TypeOK, AssessedInv, EligibleKnown, GateInv, NEW r \in Requests,
           SubmitForReview(r) \/ PublishDirectly(r) \/ ApproveEvent(r)
    PROVE  Workflow!FlowNext
<1> DEFINE e == req[r].event
<1>1. e \in Events /\ e \in CompleteEvents /\ everEligible
  BY WriterMayPass DEF TypeOK, SubmitForReview, PublishDirectly, ApproveEvent
<1>2. CompleteEvents' = CompleteEvents /\ everEligible' = everEligible
  BY CompleteEventsKept DEF SubmitForReview, PublishDirectly, ApproveEvent, orgVars
<1>3. ASSUME MarkPublished(e), clock \in Times PROVE Workflow!Show(e)
  BY <1>1, <1>3 DEF MarkPublished, Workflow!Show
<1>4. clock \in Times
  BY DEF TypeOK, RowsOK
<1>5. CASE SubmitForReview(r)
  <2>1. Workflow!Submit(e)
    BY <1>1, <1>2, <1>5 DEF SubmitForReview, Workflow!Submit, Workflow!Pass, CompleteEvents
  <2> QED
    BY <1>1, <2>1 DEF Workflow!FlowNext
<1>6. CASE PublishDirectly(r)
  <2>1. Workflow!Cardinality(Workflow!PublishedBefore) > ReviewThreshold
    <3>1. Workflow!PublishedBefore = FirstPublished
      BY DEF Workflow!PublishedBefore, FirstPublished
    <3>2. Workflow!Cardinality(FirstPublished) = Cardinality(FirstPublished)
      BY Zenon DEF Workflow!Cardinality, Cardinality
    <3> QED
      BY <1>6, <3>1, <3>2 DEF PublishDirectly, GateInv
  <2>2. Workflow!Pass(e, "draft", "published")
    BY <1>1, <1>2, <1>6 DEF PublishDirectly, MarkPublished, Workflow!Pass, CompleteEvents
  <2>3. Workflow!PublishUnreviewed(e)
    BY <1>3, <1>4, <1>6, <2>1, <2>2 DEF PublishDirectly, Workflow!PublishUnreviewed
  <2> QED
    BY <1>1, <2>3 DEF Workflow!FlowNext
<1>7. CASE ApproveEvent(r)
  <2>1. Workflow!Pass(e, "under_review", "published")
    BY <1>1, <1>2, <1>7 DEF ApproveEvent, MarkPublished, Workflow!Pass, CompleteEvents
  <2>2. Workflow!PublishReviewed(e)
    BY <1>3, <1>4, <1>7, <2>1 DEF ApproveEvent, Workflow!PublishReviewed
  <2> QED
    BY <1>1, <2>2 DEF Workflow!FlowNext
<1> QED
  BY <1>5, <1>6, <1>7

LEMMA ReturnsReturn ==
    ASSUME NEW r \in Requests, NEW e \in Events,
           UnpublishEvent(r, e) \/ AdminRejectEvent(r, e)
    PROVE  Workflow!FlowNext
<1>1. CompleteEvents' = CompleteEvents
  BY CompleteEventsKept DEF UnpublishEvent, AdminRejectEvent, ReturnToDraft
<1>2. Workflow!Return(e)
  BY <1>1 DEF UnpublishEvent, AdminRejectEvent, ReturnToDraft, MarkDraft, orgVars,
              Workflow!Return, CompleteEvents
<1> QED
  BY <1>2 DEF Workflow!FlowNext

(* An edit completes its own event, or undoes it, and no other.            *)
LEMMA EditsEdit ==
    ASSUME TypeOK, NEW e \in Events,
           \/ UpdateDraftEvent(e) \/ ReplaceEventCategories(e)
           \/ ReplaceEventPricing(e) \/ ChangeHeroImage(e)
    PROVE  Workflow!FlowNext
<1>1. EditDraft(e)
  BY DEF UpdateDraftEvent, ReplaceEventCategories, ReplaceEventPricing, ChangeHeroImage
<1>2. \A x \in Events : x # e => /\ categories'[x] = categories[x]
                                 /\ pricing'[x] = pricing[x]
                                 /\ hero'[x] = hero[x]
  BY DEF UpdateDraftEvent, ReplaceEventCategories, ReplaceEventPricing, ChangeHeroImage,
         TypeOK, RowsOK
<1>3. \A x \in Events : x # e => (x \in CompleteEvents' <=> x \in CompleteEvents)
  BY <1>2 DEF CompleteEvents, ConfigReady
<1>4. CompleteEvents \subseteq Events /\ CompleteEvents' \subseteq Events
  BY DEF CompleteEvents
<1>5. CompleteEvents' \in {CompleteEvents \cup {e}, CompleteEvents \ {e}}
  <2>1. CASE e \in CompleteEvents'
    <3>1. CompleteEvents' = CompleteEvents \cup {e}
      BY <1>3, <1>4, <2>1
    <3> QED
      BY <3>1
  <2>2. CASE e \notin CompleteEvents'
    <3>1. CompleteEvents' = CompleteEvents \ {e}
      BY <1>3, <1>4, <2>2
    <3> QED
      BY <3>1
  <2> QED
    BY <2>1, <2>2
<1>6. Workflow!Edit(e)
  BY <1>1, <1>5 DEF EditDraft, stampVars, orgVars, Workflow!Edit, CompleteEvents
<1> QED
  BY <1>6 DEF Workflow!FlowNext

LEMMA OrganizerVets ==
    ASSUME TypeOK, OrganizerChanges
    PROVE  Workflow!FlowNext \/ UNCHANGED Workflow!flowVars
<1>1. everEligible \in BOOLEAN /\ (everEligible => everEligible') /\ everEligible' \in BOOLEAN
  BY DEF TypeOK, RowsOK, OrganizerChanges, Eligible
<1>2. CompleteEvents' = CompleteEvents
  BY CompleteEventsKept DEF OrganizerChanges
<1>3. CASE everEligible' = TRUE
  <2>1. Workflow!Vet
    BY <1>2, <1>3 DEF OrganizerChanges, stampVars, Workflow!Vet, CompleteEvents
  <2> QED
    BY <2>1 DEF Workflow!FlowNext
<1>4. CASE everEligible' = everEligible
  BY <1>4, WorkflowStutters DEF OrganizerChanges, stampVars
<1> QED
  BY <1>1, <1>3, <1>4, Zenon

LEMMA OtherStepsStutter ==
    ASSUME \/ Tick \/ UNCHANGED vars
           \/ \E r \in Requests :
                 \/ LockForPublish(r) \/ AssessReadiness(r) \/ DenyReadiness(r)
                 \/ InvalidateEventCache(r) \/ Crash(r)
           \/ \E r \in Requests, e \in Events :
                 \/ BeginPublish(r, e) \/ BeginApproval(r, e)
                 \/ UpdateEventPolicies(r, e) \/ UpdatePublishedEvent(r, e)
    PROVE  UNCHANGED Workflow!flowVars
<1>1. UNCHANGED <<status, configVars, everEligible, firstPublishedAt>>
  BY DEF Tick, vars, LockForPublish, AssessReadiness, DenyReadiness, InvalidateEventCache,
         Crash, BeginPublish, BeginApproval, UpdateEventPolicies, UpdatePublishedEvent,
         EditPolicies, stampVars, orgVars
<1> QED
  BY <1>1, WorkflowStutters

(* The handlers of one organizer's events, with all that they read before  *)
(* they lock and announce after they commit, implement a workflow in which *)
(* every request is decided in one step.                                   *)
THEOREM PublishingIsAtomic == Spec => RefinesEventWorkflow
<1>1. Init => Workflow!FlowInit
  BY DEF Init, Workflow!FlowInit, ConfigReady
<1>2. /\ TypeOK /\ AssessedInv /\ EligibleKnown /\ GateInv
      /\ [Next]_vars
      => [Workflow!FlowNext]_(Workflow!flowVars)
  <2> SUFFICES ASSUME TypeOK, AssessedInv, EligibleKnown, GateInv, [Next]_vars
               PROVE  Workflow!FlowNext \/ UNCHANGED Workflow!flowVars
    OBVIOUS
  <2> QED
    BY NextCases, WritesPass, ReturnsReturn, EditsEdit, OrganizerVets, OtherStepsStutter, Zenon
    DEF RequestStep
<1>3. CompleteInv => AssessedInv
  BY DEF CompleteInv
<1>4. EligibleInv => EligibleKnown
  BY DEF EligibleInv
<1> QED
  BY <1>1, <1>2, <1>3, <1>4, TypeCorrect, CompleteInvariance, EligibleInvariance,
     GateInvariance, PTL
  DEF Spec, RefinesEventWorkflow, Workflow!FlowSpec
=============================================================================
