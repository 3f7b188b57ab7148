----------------------------- MODULE LinkedAccount -----------------------------
(***************************************************************************)
(* The payout account of one organizer: the approval that asks for it, the *)
(* razorpay-account queue, the worker that creates it at Razorpay, and the *)
(* administrator's retry.                                                  *)
(*                                                                         *)
(* createLinkedAccount is a sequence of single statements.  A compare-and- *)
(* set to "pending" lets one job in; the account is made at Razorpay, then *)
(* recorded, and every error writes "failed", by id alone.  A statement    *)
(* fails before or after it took effect, and a worker dies at either.      *)
(*                                                                         *)
(* Jobs are numbers: 0 is the approval's, whose id is fixed, the others    *)
(* are retries, each with an id of its own.  Accounts are numbered as      *)
(* Razorpay creates them.                                                  *)
(***************************************************************************)
EXTENDS Integers, FiniteSets

CONSTANTS Retries,        \* how many retries of an administrator are retained
          Attempts,       \* attempts of QUEUE_CONFIGS
          Slots,          \* jobs that run at once; none where startWorkers is
                          \* given no razorpayDeps
          MaxAccounts,    \* bound on accounts at Razorpay
          MaxApprovals    \* bound on approvals

ASSUME AccountAssumption ==
    /\ Retries \in Nat /\ Slots \in Nat
    /\ Attempts \in Nat \ {0}
    /\ MaxAccounts \in Nat /\ MaxApprovals \in Nat

Jobs == 0 .. Retries
ApprovalJob == 0
NoAccount == 0

VARIABLES
    mode,                   \* of the Razorpay client: "live" or "disabled"
    reviewable,             \* verification_status is pending_review
    status, accountId,      \* columns of the organizer row
    created,                \* accounts that exist at Razorpay
    jobState, failures, stalls,   \* what BullMQ keeps of each job
    pc,                     \* where the run of an active job is
    holding,                \* the account it has created and not recorded, or
                            \* recorded without being told so
    adding,                 \* approvals that have committed and not enqueued
    retrying,               \* a retry request has passed its check
    approvals,              \* how often the organizer was approved
    reasons,                \* history: how often an account may be asked for
    reopenings,             \* history: how often others were let in although the
                            \* one before had not ended: by an approval that
                            \* reset a status which was not retryable, and by a
                            \* recorded "needs_action" whose reply was lost
    faulty                  \* history: a statement failed or a process died

jobVars == <<jobState, failures, stalls, pc, holding>>
rowVars == <<status, accountId>>
askVars == <<reviewable, adding, retrying, approvals>>
histVars == <<reasons, reopenings>>
vars == <<mode, askVars, rowVars, created, jobVars, histVars, faulty>>

-----------------------------------------------------------------------------
Statuses == {"not_started", "pending", "active", "needs_action", "suspended", "failed"}
RetryablePending ==                                                     \* mutant
    {"not_started", "failed", "needs_action", "pending"}
Retryable == {"not_started", "failed", "needs_action"}

RazorpayStatuses ==                                                     \* mutant
    {"created", "activated", "needs_clarification", "suspended"}
(* What mapRazorpayStatus makes of the status in Razorpay's answer. *)
MappedStatuses == {"pending", "active", "needs_action", "suspended"}

Active == {j \in Jobs : jobState[j] = "active"}
Creating == {j \in Jobs : pc[j] \in {"disabled", "call", "record", "blame"}}

Init ==
    /\ mode \in {"live", "disabled"}
    /\ reviewable = TRUE
    /\ status = "not_started" /\ accountId = NoAccount
    /\ created = 0
    /\ jobState = [j \in Jobs |-> "absent"]
    /\ failures = [j \in Jobs |-> 0]
    /\ stalls = [j \in Jobs |-> 0]
    /\ pc = [j \in Jobs |-> "none"]
    /\ adding = 0 /\ retrying = FALSE
    /\ holding = [j \in Jobs |-> NoAccount]
    /\ approvals = 0 /\ reasons = 1 /\ reopenings = 0 /\ faulty = FALSE

-----------------------------------------------------------------------------
(* Queue.add with a job id does nothing when a job of that id is retained. *)
Enqueue(j) ==
    IF jobState[j] = "absent"
    THEN /\ jobState' = [jobState EXCEPT ![j] = "waiting"]
         /\ failures' = [failures EXCEPT ![j] = 0]
         /\ stalls' = [stalls EXCEPT ![j] = 0]
         /\ UNCHANGED <<pc, holding>>
    ELSE UNCHANGED jobVars

(* approveOrganizer commits; whatever the account's status was is reset.   *)
Approve ==
    /\ reviewable
    /\ approvals < MaxApprovals
    /\ reviewable' = FALSE
    /\ status' = "not_started"
    /\ adding' = adding + 1
    /\ approvals' = approvals + 1
    /\ reasons' = IF status \in Retryable THEN reasons ELSE reasons + 1
    /\ reopenings' = IF status \in Retryable THEN reopenings ELSE reopenings + 1
    /\ UNCHANGED <<mode, accountId, created, jobVars, retrying, faulty>>

(* The enqueue after the commit; its error is logged, the process may die. *)
EnqueueApproved ==
    /\ adding > 0
    /\ adding' = adding - 1
    /\ \/ Enqueue(ApprovalJob) /\ UNCHANGED faulty
       \/ faulty' = TRUE /\ UNCHANGED jobVars
    /\ UNCHANGED <<mode, reviewable, retrying, approvals, rowVars, created, histVars>>

(* Evaluations move the organizer into the review queue and out of it, and *)
(* an approved one back into it when one is overtaken by the approval.     *)
ReviewQueueMoves ==
    /\ reviewable' = ~reviewable
    /\ UNCHANGED <<mode, adding, retrying, approvals, rowVars, created, jobVars,
                   histVars, faulty>>

(* retryRazorpayAccount reads the status, then adds a job.                 *)
BeginRetry ==
    /\ ~retrying
    /\ status \in Retryable
    /\ retrying' = TRUE
    /\ UNCHANGED <<mode, reviewable, adding, approvals, rowVars, created, jobVars,
                   histVars, faulty>>

EnqueueRetry ==
    /\ retrying
    /\ retrying' = FALSE
    /\ \/ /\ \E j \in Jobs \ {ApprovalJob} : jobState[j] = "absent" /\ Enqueue(j)
          /\ UNCHANGED faulty
       \/ faulty' = TRUE /\ UNCHANGED jobVars
    /\ UNCHANGED <<mode, reviewable, adding, approvals, rowVars, created, histVars>>

-----------------------------------------------------------------------------
GotoWith(j, at, account) ==
    /\ pc' = [pc EXCEPT ![j] = at]
    /\ holding' = [holding EXCEPT ![j] = account]
    /\ UNCHANGED <<jobState, failures, stalls>>
Goto(j, at) == GotoWith(j, at, NoAccount)

(* The run of a job ends. *)
Leave(j, state) ==
    /\ jobState' = [jobState EXCEPT ![j] = state]
    /\ pc' = [pc EXCEPT ![j] = "none"]
    /\ holding' = [holding EXCEPT ![j] = NoAccount]

(* The processor returns, or throws: tried again until attempts are used up*)
Complete(j) == Leave(j, "completed") /\ UNCHANGED <<failures, stalls>>
ThrowUncounted(j) == Leave(j, "waiting") /\ UNCHANGED <<failures, stalls>>   \* mutant
Throw(j) ==
    /\ failures' = [failures EXCEPT ![j] = failures[j] + 1]
    /\ Leave(j, IF failures[j] + 1 < Attempts THEN "waiting" ELSE "failed")
    /\ UNCHANGED stalls

-----------------------------------------------------------------------------
(* What the statement or the call that a job is at does when it succeeds.  *)
AnyState == TRUE                                                        \* mutant
MayCreate == status \in Retryable

MarkPending ==
    MayCreate /\ status' = "pending" /\ UNCHANGED <<accountId, created, histVars>>
MarkNotStarted ==
    status' = "not_started" /\ UNCHANGED <<accountId, created, histVars>>
CreateAtRazorpay ==
    created < MaxAccounts /\ created' = created + 1 /\ UNCHANGED <<rowVars, histVars>>
WriteStatus(j) ==                                                       \* mutant
    status' \in MappedStatuses /\ UNCHANGED <<accountId, created, histVars>>
(* A "needs_action" is retryable: one more account may be asked for.       *)
WriteAccount(j) ==
    /\ accountId' = holding[j]
    /\ status' \in MappedStatuses
    /\ reasons' = IF status' = "needs_action" THEN reasons + 1 ELSE reasons
    /\ UNCHANGED <<created, reopenings>>
MarkFailed ==
    status' = "failed" /\ UNCHANGED <<accountId, created, histVars>>
Nothing == UNCHANGED <<rowVars, created, histVars>>

TakeJob(j) ==
    /\ jobState[j] = "waiting"
    /\ Cardinality(Active) < Slots
    /\ jobState' = [jobState EXCEPT ![j] = "active"]
    /\ pc' = [pc EXCEPT ![j] = "read"]
    /\ UNCHANGED <<mode, askVars, rowVars, created, failures, stalls, holding, histVars, faulty>>

(* 1 and 2: skip when there is an account in a state that is not retryable.*)
ReadOrganizer(j) ==
    /\ pc[j] = "read"
    /\ \/ /\ IF accountId # NoAccount /\ status \in {"active", "pending"}
             THEN Complete(j) ELSE Goto(j, "guard")
          /\ UNCHANGED faulty
       \/ Throw(j) /\ faulty' = TRUE
    /\ Nothing
    /\ UNCHANGED <<mode, askVars>>

(* 3: the compare-and-set.  A job that loses it completes.                 *)
GuardStatus(j) ==
    /\ pc[j] = "guard"
    /\ \/ /\ MarkPending
          /\ Goto(j, IF mode = "disabled" THEN "disabled" ELSE "call")
          /\ UNCHANGED faulty
       \/ ~MayCreate /\ Nothing /\ Complete(j) /\ UNCHANGED faulty
       \/ (MarkPending \/ Nothing) /\ Throw(j) /\ faulty' = TRUE
    /\ UNCHANGED <<mode, askVars>>

(* 4: without keys nothing is created. *)
LeaveDisabled(j) ==
    /\ pc[j] = "disabled"
    /\ \/ MarkNotStarted /\ Complete(j) /\ UNCHANGED faulty
       \/ (MarkNotStarted \/ Nothing) /\ Throw(j) /\ faulty' = TRUE
    /\ UNCHANGED <<mode, askVars>>

(* 5: Razorpay creates the account and answers, or the answer is lost, or  *)
(* the call is refused.                                                    *)
CreateAccount(j) ==
    /\ pc[j] = "call"
    /\ \/ CreateAtRazorpay /\ GotoWith(j, "record", created') /\ UNCHANGED faulty
       \/ /\ created < MaxAccounts /\ created' = created + 1
          /\ reasons' = reasons + 1 /\ UNCHANGED <<rowVars, reopenings>>
          /\ Goto(j, "blame") /\ faulty' = TRUE
       \/ Nothing /\ Goto(j, "blame") /\ UNCHANGED faulty
    /\ UNCHANGED <<mode, askVars>>

(* 6: the account and its mapped status are written, by id.  If only the   *)
(* reply is lost, the catch below takes a recorded account for a failure.  *)
RecordAccount(j) ==
    /\ pc[j] = "record"
    /\ \/ WriteAccount(j) /\ Complete(j) /\ UNCHANGED faulty
       \/ /\ accountId' = holding[j]
          /\ status' \in MappedStatuses
          /\ IF status' = "needs_action"
             THEN reasons' = reasons + 2 /\ reopenings' = reopenings + 1
             ELSE reasons' = reasons + 1 /\ UNCHANGED reopenings
          /\ GotoWith(j, "blame", holding[j]) /\ faulty' = TRUE
          /\ UNCHANGED created
       \/ /\ reasons' = reasons + 1 /\ UNCHANGED <<rowVars, created, reopenings>>
          /\ Goto(j, "blame") /\ faulty' = TRUE
    /\ UNCHANGED <<mode, askVars>>

(* 8: the error is recorded and thrown, so that BullMQ retries.            *)
Blame(j) ==
    /\ pc[j] = "blame"
    /\ \/ MarkFailed /\ Throw(j) /\ UNCHANGED faulty
       \/ Nothing /\ Throw(j) /\ faulty' = TRUE
    /\ UNCHANGED <<mode, askVars>>

-----------------------------------------------------------------------------
(* The worker dies in the middle of a job, before or after the statement   *)
(* or the call it is at has taken effect.                                  *)
Crash(j) ==
    /\ pc[j] \notin {"none", "lost"}
    /\ Goto(j, "lost")
    /\ \/ Nothing
       \/ pc[j] = "guard" /\ MarkPending
       \/ pc[j] = "disabled" /\ MarkNotStarted
       \/ pc[j] = "call" /\ CreateAtRazorpay
       \/ pc[j] = "record" /\ WriteAccount(j)
       \/ pc[j] = "blame" /\ MarkFailed
    /\ faulty' = TRUE
    /\ UNCHANGED <<mode, askVars>>

(* BullMQ finds the job stalled: it waits once more, then it has failed.   *)
Stall(j) ==
    /\ pc[j] = "lost"
    /\ Leave(j, IF stalls[j] = 0 THEN "waiting" ELSE "failed")
    /\ stalls' = [stalls EXCEPT ![j] = 1]
    /\ UNCHANGED <<mode, askVars, rowVars, created, failures, histVars, faulty>>

(* removeOnComplete and removeOnFail: pushed out by later jobs.            *)
Evict(j) ==
    /\ jobState[j] \in {"completed", "failed"}
    /\ jobState' = [jobState EXCEPT ![j] = "absent"]
    /\ UNCHANGED <<mode, askVars, rowVars, created, failures, stalls, pc, holding, histVars, faulty>>

JobStep(j) ==
    \/ ReadOrganizer(j) \/ GuardStatus(j) \/ LeaveDisabled(j) \/ CreateAccount(j)
    \/ RecordAccount(j) \/ Blame(j) \/ Stall(j)

Next ==
    \/ Approve \/ EnqueueApproved \/ ReviewQueueMoves
    \/ BeginRetry \/ EnqueueRetry
    \/ \E j \in Jobs : TakeJob(j) \/ JobStep(j) \/ Crash(j) \/ Evict(j)

Spec == Init /\ [][Next]_vars

(* A worker that is alive goes on, stalled jobs are looked for, and a      *)
(* waiting job gets a free slot although others are enqueued meanwhile.    *)
Fairness == \A j \in Jobs : WF_vars(JobStep(j)) /\ SF_vars(TakeJob(j))
FairSpec == Spec /\ Fairness

-----------------------------------------------------------------------------
TypeOK ==
    /\ mode \in {"live", "disabled"}
    /\ reviewable \in BOOLEAN /\ retrying \in BOOLEAN
    /\ reopenings \in Nat /\ faulty \in BOOLEAN
    /\ status \in Statuses
    /\ created \in Nat
    /\ accountId \in 0 .. created
    /\ jobState \in [Jobs -> {"absent", "waiting", "active", "completed", "failed"}]
    /\ failures \in [Jobs -> 0 .. Attempts]
    /\ stalls \in [Jobs -> {0, 1}]
    /\ pc \in [Jobs -> {"none", "read", "guard", "disabled", "call", "record", "blame", "lost"}]
    /\ holding \in [Jobs -> 0 .. created]
    /\ \A j \in Jobs : /\ pc[j] # "none" <=> jobState[j] = "active"
                       /\ pc[j] = "record" => holding[j] # NoAccount
                       /\ holding[j] # NoAccount => pc[j] \in {"record", "blame"}
    /\ adding \in Nat /\ approvals \in Nat /\ reasons \in Nat

(* However approvals, retries by administrators, BullMQ's own retries and  *)
(* crashes overlap, no more accounts are created at Razorpay than there    *)
(* were reasons to: one for the organizer, and one for each answer or      *)
(* reply that was lost, each account that could not be recorded, each      *)
(* recorded "needs_action", and each approval that reset a status which    *)
(* was not retryable.                                                      *)
EveryAccountHasAReason == created <= reasons

(* One job at a time is between the compare-and-set and its outcome, and   *)
(* one more for each time the status was opened to others under it.        *)
OneCreator == Cardinality(Creating) <= 1 + reopenings

(* A status that says something of an account has one behind it; and while *)
(* nothing fails, "pending" without an account means a job is at it.       *)
StatusHasAccount ==
    /\ status \in {"active", "needs_action", "suspended"} => accountId # NoAccount
    /\ status = "pending" /\ accountId = NoAccount /\ ~faulty => Creating # {}

(* Jobs that recorded an account and take the lost reply for a failure.    *)
Unsure == {j \in Jobs : pc[j] = "blame" /\ holding[j] # NoAccount}

(* Unless others were let in, only the job that recorded an account as     *)
(* active, and did not learn that it had, takes "active" away again: no    *)
(* other late failure, retry, duplicate or repeated job does.              *)
ActiveSurvives ==
    [][status = "active" /\ reopenings' = 0 /\ Unsure = {} => status' = "active"]_vars

(* Every job that is enqueued is worked off, through retries, stalls and   *)
(* crashes of its worker.                                                  *)
JobsAreWorkedOff ==
    \A j \in Jobs : jobState[j] = "waiting" ~> jobState[j] \in {"completed", "failed", "absent"}

(* "Idempotent: skips if account already exists": with Razorpay enabled,   *)
(* the job of a worker that died, run again, skips only where there is an  *)
(* account or another job is at it.                                        *)
RepeatedJobSkipsForAnAccount ==
    [][\A j \in Jobs :
         mode = "live" /\ stalls[j] = 1 /\ pc[j] = "guard" /\ jobState'[j] = "completed"
           => accountId # NoAccount \/ Creating # {}]_vars
=============================================================================
