------------------------- MODULE LinkedAccountProofs -------------------------
(***************************************************************************)
(* The safety properties of LinkedAccount, for any number of retries,      *)
(* attempts, slots, accounts and approvals.                                *)
(*                                                                         *)
(* Three strengthenings carry them.  Ledger counts, beside the accounts    *)
(* that exist, what may still lead to one: the jobs that have passed the   *)
(* compare-and-set and the status that lets the next one pass.  Balance    *)
(* counts the same status beside the jobs that have passed.  ActiveHeld    *)
(* says who may still write while the status is "active".                  *)
(***************************************************************************)
EXTENDS LinkedAccount, FiniteSetTheorems, TLAPS

RowOK ==
    /\ mode \in {"live", "disabled"}
    /\ reviewable \in BOOLEAN /\ retrying \in BOOLEAN
    /\ reopenings \in Nat /\ faulty \in BOOLEAN
    /\ status \in Statuses
    /\ created \in Nat
    /\ accountId \in 0 .. created
    /\ adding \in Nat /\ approvals \in Nat /\ reasons \in Nat

JobsOK ==
    /\ jobState \in [Jobs -> {"absent", "waiting", "active", "completed", "failed"}]
    /\ failures \in [Jobs -> 0 .. Attempts]
    /\ stalls \in [Jobs -> {0, 1}]
    /\ pc \in [Jobs -> {"none", "read", "guard", "disabled", "call", "record", "blame", "lost"}]
    /\ holding \in [Jobs -> 0 .. created]
    /\ \A j \in Jobs : /\ pc[j] # "none" <=> jobState[j] = "active"
                       /\ pc[j] = "record" => holding[j] # NoAccount
                       /\ holding[j] # NoAccount => pc[j] \in {"record", "blame"}

(* A job that may run again has not used its attempts up. *)
AttemptsLeft ==
    \A j \in Jobs : jobState[j] \in {"waiting", "active"} => failures[j] < Attempts

Typed == RowOK /\ JobsOK /\ AttemptsLeft

(* Past the compare-and-set, before the account exists or the failure is   *)
(* written down; and before the outcome is written, whichever it is.       *)
OwingPhases == {"disabled", "call", "blame"}
CreatingPhases == {"disabled", "call", "record", "blame"}
At(P) == {j \in Jobs : pc[j] \in P}
Owing == At(OwingPhases)
Ticket == IF status \in Retryable THEN 1 ELSE 0

(* Whatever has led to an account or still may was asked for once.         *)
Ledger == created + Cardinality(Owing) + Ticket <= reasons

(* The status lets the next job in only when the one before has ended, or  *)
(* as often as it was opened to others.                                    *)
Balance == Cardinality(Creating) + Ticket <= 1 + reopenings

(* Who may still write over an active account does not know that it is.    *)
ActiveHeld == status = "active" /\ reopenings = 0 => Creating \subseteq Unsure

IInv == Typed /\ Ledger /\ Balance /\ ActiveHeld /\ StatusHasAccount

-----------------------------------------------------------------------------
(* Adding a job leaves rows and runs alone.                                *)
LEMMA EnqueueTypes ==
    ASSUME Typed, NEW j \in Jobs, Enqueue(j) \/ UNCHANGED jobVars, UNCHANGED created
    PROVE  JobsOK' /\ AttemptsLeft' /\ UNCHANGED <<pc, holding>>
<1> USE DEF Typed, JobsOK, AttemptsLeft
<1>1. CASE jobState[j] = "absent" /\ Enqueue(j)
  <2>1. /\ jobState' = [jobState EXCEPT ![j] = "waiting"]
        /\ failures' = [failures EXCEPT ![j] = 0]
        /\ stalls' = [stalls EXCEPT ![j] = 0]
        /\ UNCHANGED <<pc, holding, created>>
    BY <1>1 DEF Enqueue
  <2>2. 0 \in 0 .. Attempts /\ 0 < Attempts
    BY AccountAssumption
  <2> QED
    BY <1>1, <2>1, <2>2
<1>2. CASE UNCHANGED jobVars
  BY <1>2 DEF jobVars
<1> QED
  BY <1>1, <1>2 DEF Enqueue

(* A run that goes on, to a phase that holds an account exactly if it is   *)
(* the one that records it.                                                *)
LEMMA GotoTypes ==
    ASSUME Typed, NEW j \in Jobs, pc[j] # "none",
           NEW at \in {"guard", "disabled", "call", "record", "blame", "lost"},
           NEW account \in 0 .. created', created' \in Nat, created <= created',
           at = "record" => account # NoAccount,
           account # NoAccount => at \in {"record", "blame"},
           GotoWith(j, at, account)
    PROVE  JobsOK' /\ AttemptsLeft'
BY DEF Typed, JobsOK, AttemptsLeft, GotoWith, NoAccount, RowOK

(* A run that ends, with the job finished or waiting for another attempt.  *)
LEMMA LeaveTypes ==
    ASSUME Typed, NEW j \in Jobs, pc[j] # "none", created' = created,
           Complete(j) \/ Throw(j)
    PROVE  JobsOK' /\ AttemptsLeft' /\ pc' = [pc EXCEPT ![j] = "none"]
<1> USE DEF Typed, JobsOK, AttemptsLeft, Leave, NoAccount
<1>1. failures[j] \in Nat /\ failures[j] + 1 \in 0 .. Attempts /\ Attempts \in Nat
  BY AccountAssumption
<1>2. 0 \in 0 .. created'
  BY DEF RowOK
<1>3. CASE Complete(j)
  BY <1>2, <1>3 DEF Complete
<1>4. CASE Throw(j)
  <2>1. failures' \in [Jobs -> 0 .. Attempts]
    BY <1>1, <1>4 DEF Throw
  <2>2. jobState'[j] = "waiting" => failures'[j] < Attempts
    BY <1>1, <1>4 DEF Throw
  <2>3. jobState' = [jobState EXCEPT ![j] = "waiting"] \/ jobState' = [jobState EXCEPT ![j] = "failed"]
    BY <1>4 DEF Throw
  <2>4. /\ pc' = [pc EXCEPT ![j] = "none"] /\ holding' = [holding EXCEPT ![j] = NoAccount]
        /\ UNCHANGED stalls /\ \A k \in Jobs \ {j} : failures'[k] = failures[k]
    BY <1>4 DEF Throw
  <2> QED
    BY <1>2, <2>1, <2>2, <2>3, <2>4
<1> QED
  BY <1>3, <1>4

(* What a statement or a call that takes effect writes is well-typed.      *)
LEMMA EffectTypes ==
    ASSUME Typed, NEW j \in Jobs,
           \/ MarkPending \/ MarkNotStarted \/ CreateAtRazorpay \/ WriteAccount(j)
           \/ MarkFailed \/ Nothing
    PROVE  /\ status' \in Statuses
           /\ created' \in Nat /\ created <= created' /\ accountId' \in 0 .. created'
           /\ reasons' \in Nat /\ reopenings' \in Nat
<1> USE DEF Typed, RowOK, Statuses, MappedStatuses
<1>1. holding[j] \in 0 .. created
  BY DEF JobsOK
<1>2. CASE MarkPending \/ MarkNotStarted \/ MarkFailed \/ Nothing
  BY <1>2 DEF MarkPending, MarkNotStarted, MarkFailed, Nothing, rowVars, histVars
<1>3. CASE CreateAtRazorpay
  BY <1>3 DEF CreateAtRazorpay, rowVars, histVars
<1>4. CASE WriteAccount(j)
  <2>1. accountId' \in 0 .. created /\ created' = created /\ status' \in MappedStatuses
        /\ reopenings' = reopenings
    BY <1>1, <1>4, Zenon DEF WriteAccount
  <2>2. reasons' \in Nat
    BY <1>4 DEF WriteAccount
  <2> QED
    BY <2>1, <2>2
<1> QED
  BY <1>2, <1>3, <1>4

(* The columns and the histories stay well-typed.                          *)
LEMMA RowStep ==
    ASSUME Typed, [Next]_vars
    PROVE  RowOK' /\ created <= created'
<1> DEFINE Row == /\ status' \in Statuses
                  /\ created' \in Nat /\ created <= created' /\ accountId' \in 0 .. created'
                  /\ reasons' \in Nat /\ reopenings' \in Nat
           Ask == /\ mode' \in {"live", "disabled"}
                  /\ reviewable' \in BOOLEAN /\ retrying' \in BOOLEAN
                  /\ adding' \in Nat /\ approvals' \in Nat
<1>0. /\ RowOK /\ created <= created /\ TRUE \in BOOLEAN /\ FALSE \in BOOLEAN
      /\ UNCHANGED <<mode, askVars>> => Ask
      /\ Nothing => Row
  BY DEF Typed, RowOK, askVars, Nothing, rowVars, histVars
<1> HIDE DEF Ask, Row
<1>1. ASSUME Approve PROVE Row /\ Ask /\ faulty' \in BOOLEAN
  <2>1. Row
    BY <1>0, <1>1 DEF Approve, RowOK, Row, Statuses
  <2>2. Ask
    <3>1. adding' \in Nat /\ approvals' \in Nat
      BY <1>0, <1>1 DEF Approve, RowOK
    <3>2. UNCHANGED <<mode, retrying>> /\ reviewable' \in BOOLEAN
      BY <1>0, <1>1, Zenon DEF Approve, RowOK
    <3> QED
      BY <1>0, <3>1, <3>2, Zenon DEF RowOK, Ask
  <2> QED
    BY <1>0, <1>1, <2>1, <2>2, Zenon DEF Approve, RowOK
<1>2. ASSUME EnqueueApproved \/ EnqueueRetry PROVE Row /\ Ask /\ faulty' \in BOOLEAN
  <2>1. Ask
    <3>1. adding' \in Nat
      BY <1>0, <1>2 DEF EnqueueApproved, EnqueueRetry, RowOK
    <3>2. UNCHANGED <<mode, reviewable, approvals>> /\ retrying' \in BOOLEAN
      BY <1>0, <1>2, Zenon DEF EnqueueApproved, EnqueueRetry, RowOK
    <3> QED
      BY <1>0, <3>1, <3>2, Zenon DEF RowOK, Ask
  <2>2. Nothing
    BY <1>2, Zenon DEF EnqueueApproved, EnqueueRetry, Nothing
  <2>3. faulty' \in BOOLEAN
    BY <1>0, <1>2, Zenon DEF EnqueueApproved, EnqueueRetry, RowOK
  <2> QED
    BY <1>0, <2>1, <2>2, <2>3
<1>3. ASSUME ReviewQueueMoves \/ BeginRetry PROVE Row /\ Ask /\ faulty' \in BOOLEAN
  <2>1. Ask
    BY <1>0, <1>3 DEF ReviewQueueMoves, BeginRetry, RowOK, Ask
  <2>2. Nothing /\ faulty' = faulty
    BY <1>3, Zenon DEF ReviewQueueMoves, BeginRetry, Nothing
  <2> QED
    BY <1>0, <2>1, <2>2, Zenon DEF RowOK
<1>4. ASSUME NEW j \in Jobs, TakeJob(j) \/ Stall(j) \/ Evict(j)
      PROVE  Row /\ Ask /\ faulty' \in BOOLEAN
  <2>1. Nothing /\ faulty' = faulty /\ UNCHANGED <<mode, askVars>>
    BY <1>4, Zenon DEF TakeJob, Stall, Evict, Nothing
  <2> QED
    BY <1>0, <2>1, Zenon DEF RowOK
<1>5. ASSUME NEW j \in Jobs,
             ReadOrganizer(j) \/ GuardStatus(j) \/ LeaveDisabled(j) \/ Blame(j) \/ Crash(j)
      PROVE  Row /\ Ask /\ faulty' \in BOOLEAN
  <2>1. /\ \/ MarkPending \/ MarkNotStarted \/ CreateAtRazorpay \/ WriteAccount(j)
           \/ MarkFailed \/ Nothing
        /\ UNCHANGED <<mode, askVars>>
    BY <1>5, Zenon DEF ReadOrganizer, GuardStatus, LeaveDisabled, Blame, Crash
  <2>2. faulty' \in BOOLEAN
    BY <1>0, <1>5, Zenon DEF ReadOrganizer, GuardStatus, LeaveDisabled, Blame, Crash, RowOK
  <2>3. Row
    BY <2>1, EffectTypes DEF Row
  <2> QED
    BY <1>0, <2>1, <2>2, <2>3
<1>6. ASSUME NEW j \in Jobs, CreateAccount(j) PROVE Row /\ Ask /\ faulty' \in BOOLEAN
  <2>1. UNCHANGED <<mode, askVars>> /\ faulty' \in BOOLEAN
    BY <1>0, <1>6, Zenon DEF CreateAccount, RowOK
  <2>2. CASE CreateAtRazorpay \/ Nothing
    BY <1>0, <2>1, <2>2, EffectTypes DEF Row
  <2>3. CASE created' = created + 1 /\ reasons' = reasons + 1 /\ UNCHANGED <<rowVars, reopenings>>
    BY <1>0, <2>1, <2>3 DEF Row, RowOK, rowVars
  <2> QED
    BY <1>6, <2>2, <2>3, Zenon DEF CreateAccount
<1>7. ASSUME NEW j \in Jobs, RecordAccount(j) PROVE Row /\ Ask /\ faulty' \in BOOLEAN
  <2>1. UNCHANGED <<mode, askVars>> /\ faulty' \in BOOLEAN
    BY <1>0, <1>7, Zenon DEF RecordAccount, RowOK
  <2>2. CASE WriteAccount(j)
    BY <1>0, <2>1, <2>2, EffectTypes DEF Row
  <2>3. CASE /\ accountId' = holding[j] /\ status' \in MappedStatuses
             /\ IF status' = "needs_action"
                THEN reasons' = reasons + 2 /\ reopenings' = reopenings + 1
                ELSE reasons' = reasons + 1 /\ UNCHANGED reopenings
             /\ UNCHANGED created
    <3>1. accountId' \in 0 .. created' /\ status' \in Statuses
      BY <2>3 DEF Typed, JobsOK, Statuses, MappedStatuses
    <3> QED
      BY <1>0, <2>1, <2>3, <3>1 DEF Row, RowOK
  <2>4. CASE reasons' = reasons + 1 /\ UNCHANGED <<rowVars, created, reopenings>>
    BY <1>0, <2>1, <2>4 DEF Row, RowOK, rowVars
  <2> QED
    BY <1>7, <2>2, <2>3, <2>4, Zenon DEF RecordAccount
<1>8. ASSUME UNCHANGED vars PROVE Row /\ Ask /\ faulty' \in BOOLEAN
  <2>1. Nothing /\ UNCHANGED <<mode, askVars, faulty>>
    BY <1>8, Zenon DEF vars, Nothing
  <2> QED
    BY <1>0, <2>1, Zenon DEF RowOK
<1>9. Row /\ Ask /\ faulty' \in BOOLEAN
  BY <1>1, <1>2, <1>3, <1>4, <1>5, <1>6, <1>7, <1>8, Zenon DEF Next, JobStep
<1> QED
  BY <1>9 DEF Row, Ask, RowOK

(* So does what BullMQ and the workers keep of each job; and an attempt is *)
(* counted where one is used, so that no job runs more than Attempts times.*)
LEMMA JobsStep ==
    ASSUME Typed, [Next]_vars
    PROVE  JobsOK' /\ AttemptsLeft'
<1>0. /\ created \in Nat /\ created' \in Nat /\ created <= created' /\ 0 \in 0 .. created'
      /\ \A j \in Jobs : holding[j] \in 0 .. created
  BY RowStep DEF Typed, RowOK, JobsOK
<1>1. ASSUME Approve \/ ReviewQueueMoves \/ BeginRetry PROVE JobsOK' /\ AttemptsLeft'
  <2>1. UNCHANGED <<created, jobState, failures, stalls, pc, holding>>
    BY <1>1 DEF Approve, ReviewQueueMoves, BeginRetry, jobVars
  <2> QED
    BY <2>1 DEF Typed, JobsOK, AttemptsLeft
<1>2. ASSUME EnqueueApproved PROVE JobsOK' /\ AttemptsLeft'
  <2>1. ApprovalJob \in Jobs
    BY AccountAssumption DEF ApprovalJob, Jobs
  <2> QED
    BY <1>2, <2>1, EnqueueTypes DEF EnqueueApproved
<1>3. ASSUME EnqueueRetry PROVE JobsOK' /\ AttemptsLeft'
  <2>1. UNCHANGED created
    BY <1>3 DEF EnqueueRetry
  <2>2. CASE \E j \in Jobs \ {ApprovalJob} : Enqueue(j)
    BY <2>1, <2>2, EnqueueTypes
  <2>3. CASE UNCHANGED jobVars
    <3>1. 0 \in Jobs
      BY AccountAssumption DEF Jobs
    <3> QED
      BY <2>1, <2>3, <3>1, EnqueueTypes
  <2> QED
    BY <1>3, <2>2, <2>3 DEF EnqueueRetry
<1>4. ASSUME NEW j \in Jobs, TakeJob(j) PROVE JobsOK' /\ AttemptsLeft'
  BY <1>4 DEF TakeJob, Typed, JobsOK, AttemptsLeft, NoAccount
<1>5. ASSUME NEW j \in Jobs, pc[j] # "none", Complete(j) \/ Throw(j), UNCHANGED created
      PROVE  JobsOK' /\ AttemptsLeft'
  BY <1>5, LeaveTypes
<1>6. ASSUME NEW j \in Jobs, pc[j] # "none",
             NEW at \in {"guard", "disabled", "call", "blame", "lost"}, Goto(j, at)
      PROVE  JobsOK' /\ AttemptsLeft'
  BY <1>0, <1>6, GotoTypes DEF Goto, NoAccount
<1>7. ASSUME NEW j \in Jobs, ReadOrganizer(j) PROVE JobsOK' /\ AttemptsLeft'
  <2>1. pc[j] # "none" /\ UNCHANGED created
    BY <1>7 DEF ReadOrganizer, Nothing
  <2>2. Complete(j) \/ Throw(j) \/ Goto(j, "guard")
    BY <1>7, Zenon DEF ReadOrganizer
  <2> QED
    BY <1>5, <1>6, <2>1, <2>2
<1>8. ASSUME NEW j \in Jobs, GuardStatus(j) PROVE JobsOK' /\ AttemptsLeft'
  <2>1. pc[j] # "none" /\ UNCHANGED created
    BY <1>8 DEF GuardStatus, MarkPending, Nothing
  <2>2. Complete(j) \/ Throw(j) \/ Goto(j, "disabled") \/ Goto(j, "call")
    BY <1>8 DEF GuardStatus
  <2> QED
    BY <1>5, <1>6, <2>1, <2>2
<1>9. ASSUME NEW j \in Jobs, LeaveDisabled(j) \/ Blame(j) PROVE JobsOK' /\ AttemptsLeft'
  <2>1. pc[j] # "none" /\ UNCHANGED created
    BY <1>9 DEF LeaveDisabled, Blame, MarkNotStarted, MarkFailed, Nothing
  <2>2. Complete(j) \/ Throw(j)
    BY <1>9, Zenon DEF LeaveDisabled, Blame
  <2> QED
    BY <1>5, <2>1, <2>2
<1>10. ASSUME NEW j \in Jobs, CreateAccount(j) PROVE JobsOK' /\ AttemptsLeft'
  <2>1. pc[j] # "none"
    BY <1>10 DEF CreateAccount
  <2>2. CASE CreateAtRazorpay /\ GotoWith(j, "record", created')
    BY <1>0, <2>1, <2>2, GotoTypes DEF CreateAtRazorpay, NoAccount
  <2>3. CASE Goto(j, "blame")
    BY <1>6, <2>1, <2>3
  <2> QED
    BY <1>10, <2>2, <2>3, Zenon DEF CreateAccount
<1>11. ASSUME NEW j \in Jobs, RecordAccount(j) PROVE JobsOK' /\ AttemptsLeft'
  <2>1. pc[j] # "none" /\ UNCHANGED created
    BY <1>11 DEF RecordAccount, WriteAccount
  <2>2. CASE GotoWith(j, "blame", holding[j])
    BY <1>0, <2>1, <2>2, GotoTypes DEF NoAccount
  <2>3. CASE Complete(j) \/ Goto(j, "blame")
    BY <1>5, <1>6, <2>1, <2>3
  <2> QED
    BY <1>11, <2>2, <2>3, Zenon DEF RecordAccount
<1>12. ASSUME NEW j \in Jobs, Stall(j) PROVE JobsOK' /\ AttemptsLeft'
  <2>1. jobState' = [jobState EXCEPT ![j] = "waiting"] \/ jobState' = [jobState EXCEPT ![j] = "failed"]
    BY <1>12 DEF Stall, Leave
  <2>2. /\ pc' = [pc EXCEPT ![j] = "none"] /\ holding' = [holding EXCEPT ![j] = NoAccount]
        /\ stalls' = [stalls EXCEPT ![j] = 1] /\ UNCHANGED <<failures, created>>
    BY <1>12 DEF Stall, Leave
  <2>3. jobState[j] = "active"
    BY <1>12 DEF Stall, Typed, JobsOK
  <2> QED
    BY <1>0, <2>1, <2>2, <2>3 DEF Typed, JobsOK, AttemptsLeft, NoAccount
<1>13. ASSUME NEW j \in Jobs, Crash(j) PROVE JobsOK' /\ AttemptsLeft'
  <2>1. pc[j] # "none" /\ Goto(j, "lost")
    BY <1>13 DEF Crash
  <2> QED
    BY <1>6, <2>1
<1>14. ASSUME NEW j \in Jobs, Evict(j) PROVE JobsOK' /\ AttemptsLeft'
  BY <1>14 DEF Evict, Typed, JobsOK, AttemptsLeft
<1>15. ASSUME UNCHANGED vars PROVE JobsOK' /\ AttemptsLeft'
  BY <1>15 DEF vars, jobVars, Typed, JobsOK, AttemptsLeft
<1> QED
  BY <1>1, <1>2, <1>3, <1>4, <1>7, <1>8, <1>9, <1>10, <1>11, <1>12, <1>13, <1>14, <1>15,
     Zenon DEF Next, JobStep

-----------------------------------------------------------------------------
LEMMA AtIsFinite ==
    ASSUME NEW P
    PROVE  IsFiniteSet(At(P)) /\ Cardinality(At(P)) \in Nat
<1>1. IsFiniteSet(Jobs)
  BY FS_Interval, AccountAssumption DEF Jobs
<1> QED
  BY <1>1, FS_Subset, FS_CardinalityType DEF At

LEMMA CreatingIsAt == Creating = At(CreatingPhases)
BY DEF Creating, At, CreatingPhases

Counts(phase, P) == IF phase \in P THEN 1 ELSE 0

(* How many jobs are in some phases changes as one job's phase does.       *)
LEMMA AtMoves ==
    ASSUME Typed, NEW P, NEW j \in Jobs, NEW at, pc' = [pc EXCEPT ![j] = at]
    PROVE  /\ Cardinality(At(P)) \in Nat /\ Cardinality(At(P)') \in Nat
           /\ Cardinality(At(P)') + Counts(pc[j], P) = Cardinality(At(P)) + Counts(at, P)
<1>1. IsFiniteSet(Jobs)
  BY FS_Interval, AccountAssumption DEF Jobs
<1>2. IsFiniteSet(At(P)) /\ IsFiniteSet(At(P)')
  BY <1>1, FS_Subset DEF At
<1>3. Cardinality(At(P)) \in Nat /\ Cardinality(At(P)') \in Nat
  BY <1>2, FS_CardinalityType
<1>4. \A k \in Jobs : pc'[k] = IF k = j THEN at ELSE pc[k]
  BY DEF Typed, JobsOK
<1>5. CASE (pc[j] \in P) = (at \in P)
  <2>1. At(P)' = At(P)
    BY <1>4, <1>5 DEF At
  <2> QED
    BY <1>3, <1>5, <2>1 DEF Counts
<1>6. CASE pc[j] \in P /\ at \notin P
  <2>1. At(P)' = At(P) \ {j} /\ j \in At(P)
    BY <1>4, <1>6 DEF At
  <2>2. Cardinality(At(P)') = Cardinality(At(P)) - 1
    BY <1>2, <2>1, FS_RemoveElement
  <2> QED
    BY <1>3, <1>6, <2>2 DEF Counts
<1>7. CASE pc[j] \notin P /\ at \in P
  <2>1. At(P)' = At(P) \cup {j} /\ j \notin At(P)
    BY <1>4, <1>7 DEF At
  <2>2. Cardinality(At(P)') = Cardinality(At(P)) + 1
    BY <1>2, <2>1, FS_AddElement
  <2> QED
    BY <1>3, <1>7, <2>2 DEF Counts
<1> QED
  BY <1>5, <1>6, <1>7

(* Both books balance after a step if what it adds is paid for.            *)
LEMMA Books ==
    ASSUME Typed, RowOK', Ledger, Balance, NEW j \in Jobs, NEW at,
           pc' = [pc EXCEPT ![j] = at],
           created' + Ticket' + Counts(at, OwingPhases) + reasons
             <= created + Ticket + Counts(pc[j], OwingPhases) + reasons',
           Ticket' + Counts(at, CreatingPhases) + reopenings
             <= Ticket + Counts(pc[j], CreatingPhases) + reopenings'
    PROVE  Ledger' /\ Balance'
<1>1. /\ created \in Nat /\ created' \in Nat /\ reasons \in Nat /\ reasons' \in Nat
      /\ reopenings \in Nat /\ reopenings' \in Nat /\ Ticket \in Nat /\ Ticket' \in Nat
  BY DEF Typed, RowOK, Ticket
<1>2. \A phase, P : Counts(phase, P) \in Nat
  BY DEF Counts
<1>3. Ledger'
  <2>1. /\ Cardinality(Owing) \in Nat /\ Cardinality(Owing') \in Nat
        /\ Cardinality(Owing') + Counts(pc[j], OwingPhases)
             = Cardinality(Owing) + Counts(at, OwingPhases)
    BY AtMoves DEF Owing
  <2> QED
    BY <1>1, <1>2, <2>1 DEF Ledger
<1>4. Balance'
  <2>1. Creating = At(CreatingPhases) /\ Creating' = At(CreatingPhases)'
    BY DEF Creating, At, CreatingPhases
  <2>2. /\ Cardinality(Creating) \in Nat /\ Cardinality(Creating') \in Nat
        /\ Cardinality(Creating') + Counts(pc[j], CreatingPhases)
             = Cardinality(Creating) + Counts(at, CreatingPhases)
    BY <2>1, AtMoves
  <2> QED
    BY <1>1, <1>2, <2>2 DEF Balance
<1> QED
  BY <1>3, <1>4

(* When the status was never opened to others, who is past the compare-    *)
(* and-set is there alone.                                                 *)
LEMMA Alone ==
    ASSUME Typed, Balance, reopenings = 0, NEW j \in Creating
    PROVE  Creating = {j} /\ status \notin Retryable
<1>1. IsFiniteSet(Creating) /\ Cardinality(Creating) \in Nat
  BY CreatingIsAt, AtIsFinite
<1>2. IsFiniteSet(Creating \ {j}) /\ Cardinality(Creating \ {j}) = Cardinality(Creating) - 1
  BY <1>1, FS_RemoveElement
<1>3. Cardinality(Creating \ {j}) \in Nat
  BY <1>2, FS_CardinalityType
<1>4. Cardinality(Creating) = 1 /\ status \notin Retryable
  BY <1>1, <1>2, <1>3 DEF Balance, Ticket
<1>5. Creating \ {j} = {}
  BY <1>2, <1>4, FS_EmptySet
<1> QED
  BY <1>4, <1>5

-----------------------------------------------------------------------------
(* Steps that neither write the row nor touch a run past its compare-and-  *)
(* set: what the strengthenings say is about the same jobs as before.      *)
LEMMA Bystanders ==
    ASSUME IInv, Nothing, faulty => faulty',
           \A j \in Jobs : \/ pc'[j] = pc[j] /\ holding'[j] = holding[j]
                           \/ {pc[j], pc'[j]} \subseteq {"none", "read", "guard", "lost"}
    PROVE  Ledger' /\ Balance' /\ ActiveHeld' /\ StatusHasAccount'
<1> USE DEF IInv
<1>1. Owing' = Owing /\ Creating' = Creating /\ Unsure' = Unsure
  BY DEF Owing, At, OwingPhases, Creating, Unsure
<1>2. Ledger' /\ Balance'
  BY <1>1 DEF Ledger, Balance, Ticket, Nothing, rowVars, histVars
<1>3. ActiveHeld'
  BY <1>1, Zenon DEF ActiveHeld, Nothing, rowVars, histVars
<1>4. StatusHasAccount'
  BY <1>1, Zenon DEF StatusHasAccount, Nothing, rowVars
<1> QED
  BY <1>2, <1>3, <1>4

(* Where a run goes.                                                       *)
LEMMA Moves ==
    ASSUME Typed, NEW j \in Jobs
    PROVE  /\ \A at : Goto(j, at) => /\ pc' = [pc EXCEPT ![j] = at]
                                     /\ holding' = [holding EXCEPT ![j] = NoAccount]
           /\ \A at, account : GotoWith(j, at, account)
                => /\ pc' = [pc EXCEPT ![j] = at]
                   /\ holding' = [holding EXCEPT ![j] = account]
           /\ Complete(j) \/ Throw(j)
                => /\ pc' = [pc EXCEPT ![j] = "none"]
                   /\ holding' = [holding EXCEPT ![j] = NoAccount]
BY DEF Goto, GotoWith, Complete, Throw, Leave

(* The books, step by step.  Whatever a statement does is the same whether *)
(* the job hears of it (at = "none" or the next phase) or dies ("lost").   *)
LEMMA BooksKept ==
    ASSUME Typed, RowOK', Ledger, Balance, NEW j \in Jobs,
           GuardStatus(j) \/ LeaveDisabled(j) \/ CreateAccount(j) \/ RecordAccount(j)
             \/ Blame(j) \/ (Crash(j) /\ pc[j] # "read")
    PROVE  Ledger' /\ Balance'
<1> DEFINE Paid(at) ==
      /\ created' + Ticket' + Counts(at, OwingPhases) + reasons
           <= created + Ticket + Counts(pc[j], OwingPhases) + reasons'
      /\ Ticket' + Counts(at, CreatingPhases) + reopenings
           <= Ticket + Counts(pc[j], CreatingPhases) + reopenings'
<1>0. ASSUME NEW at, pc' = [pc EXCEPT ![j] = at], Paid(at)
      PROVE  Ledger' /\ Balance'
  BY <1>0, Books
<1> USE DEF Typed, RowOK
<1>1. ASSUME pc[j] = "guard", NEW at \in {"disabled", "call", "none", "lost"},
             MarkPending \/ (Nothing /\ at \in {"none", "lost"}), pc' = [pc EXCEPT ![j] = at]
      PROVE  Ledger' /\ Balance'
  <2>1. CASE MarkPending
    <3>1. Paid(at)
      BY <1>1, <2>1 DEF MarkPending, MayCreate, histVars, Counts, OwingPhases,
         CreatingPhases, Ticket, Retryable
    <3> QED
      BY <1>0, <1>1, <3>1
  <2>2. CASE Nothing /\ at \in {"none", "lost"}
    <3>1. Paid(at)
      BY <1>1, <2>2 DEF Nothing, rowVars, histVars, Counts, OwingPhases,
         CreatingPhases, Ticket, Retryable
    <3> QED
      BY <1>0, <1>1, <3>1
  <2> QED
    BY <1>1, <2>1, <2>2
<1>2. ASSUME pc[j] = "disabled", NEW at \in {"none", "lost"},
             MarkNotStarted \/ Nothing, pc' = [pc EXCEPT ![j] = at]
      PROVE  Ledger' /\ Balance'
  <2>1. Paid(at)
    <3>1. CASE MarkNotStarted
      BY <1>2, <3>1 DEF MarkNotStarted, histVars, Counts, OwingPhases,
         CreatingPhases, Ticket, Retryable
    <3>2. CASE Nothing
      BY <1>2, <3>2 DEF Nothing, rowVars, histVars, Counts, OwingPhases,
         CreatingPhases, Ticket, Retryable
    <3> QED
      BY <1>2, <3>1, <3>2
  <2> QED
    BY <1>0, <1>2, <2>1
<1>3. ASSUME pc[j] = "call", NEW at \in {"record", "blame", "lost"},
             \/ CreateAtRazorpay /\ at # "blame"
             \/ Nothing /\ at # "record"
             \/ /\ created' = created + 1 /\ reasons' = reasons + 1 /\ at = "blame"
                /\ UNCHANGED <<rowVars, reopenings>>,
             pc' = [pc EXCEPT ![j] = at]
      PROVE  Ledger' /\ Balance'
  <2>1. Paid(at)
    <3>1. CASE CreateAtRazorpay /\ at # "blame"
      BY <1>3, <3>1 DEF CreateAtRazorpay, rowVars, histVars, Counts, OwingPhases,
         CreatingPhases, Ticket, Retryable
    <3>2. CASE Nothing /\ at # "record"
      BY <1>3, <3>2 DEF Nothing, rowVars, histVars, Counts, OwingPhases,
         CreatingPhases, Ticket, Retryable
    <3>3. CASE /\ created' = created + 1 /\ reasons' = reasons + 1 /\ at = "blame"
               /\ UNCHANGED <<rowVars, reopenings>>
      BY <1>3, <3>3 DEF rowVars, Counts, OwingPhases,
         CreatingPhases, Ticket, Retryable
    <3> QED
      BY <1>3, <3>1, <3>2, <3>3
  <2> QED
    BY <1>0, <1>3, <2>1
<1>4. ASSUME pc[j] = "record", NEW at \in {"none", "lost"},
             WriteAccount(j) \/ Nothing, pc' = [pc EXCEPT ![j] = at]
      PROVE  Ledger' /\ Balance'
  <2>1. Paid(at)
    <3>1. CASE WriteAccount(j) /\ status' = "needs_action"
      BY <1>4, <3>1 DEF WriteAccount, Counts, OwingPhases,
         CreatingPhases, Ticket, Retryable
    <3>2. CASE WriteAccount(j) /\ status' # "needs_action"
      BY <1>4, <3>2 DEF WriteAccount, MappedStatuses, Counts, OwingPhases,
         CreatingPhases, Ticket, Retryable
    <3>3. CASE Nothing
      BY <1>4, <3>3 DEF Nothing, rowVars, histVars, Counts, OwingPhases,
         CreatingPhases, Ticket, Retryable
    <3> QED
      BY <1>4, <3>1, <3>2, <3>3
  <2> QED
    BY <1>0, <1>4, <2>1
<1>5. ASSUME pc[j] = "record", pc' = [pc EXCEPT ![j] = "blame"],
             \/ /\ status' \in MappedStatuses
                /\ IF status' = "needs_action"
                   THEN reasons' = reasons + 2 /\ reopenings' = reopenings + 1
                   ELSE reasons' = reasons + 1 /\ UNCHANGED reopenings
                /\ UNCHANGED created
             \/ reasons' = reasons + 1 /\ UNCHANGED <<rowVars, created, reopenings>>
      PROVE  Ledger' /\ Balance'
  <2>1. Paid("blame")
    <3>1. CASE status' = "needs_action" /\ reasons' = reasons + 2 /\ reopenings' = reopenings + 1
               /\ UNCHANGED created
      BY <1>5, <3>1 DEF Counts, OwingPhases,
         CreatingPhases, Ticket, Retryable
    <3>2. CASE status' \in MappedStatuses \ {"needs_action"} /\ reasons' = reasons + 1
               /\ UNCHANGED <<created, reopenings>>
      BY <1>5, <3>2 DEF MappedStatuses, Counts, OwingPhases,
         CreatingPhases, Ticket, Retryable
    <3>3. CASE reasons' = reasons + 1 /\ UNCHANGED <<rowVars, created, reopenings>>
      BY <1>5, <3>3 DEF rowVars, Counts, OwingPhases,
         CreatingPhases, Ticket, Retryable
    <3> QED
      BY <1>5, <3>1, <3>2, <3>3
  <2> QED
    BY <1>0, <1>5, <2>1
<1>6. ASSUME pc[j] = "blame", NEW at \in {"none", "lost"},
             MarkFailed \/ Nothing, pc' = [pc EXCEPT ![j] = at]
      PROVE  Ledger' /\ Balance'
  <2>1. Paid(at)
    <3>1. CASE MarkFailed
      BY <1>6, <3>1 DEF MarkFailed, histVars, Counts, OwingPhases,
         CreatingPhases, Ticket, Retryable
    <3>2. CASE Nothing
      BY <1>6, <3>2 DEF Nothing, rowVars, histVars, Counts, OwingPhases,
         CreatingPhases, Ticket, Retryable
    <3> QED
      BY <1>6, <3>1, <3>2
  <2> QED
    BY <1>0, <1>6, <2>1
<1> HIDE DEF RowOK
<1>7. CASE GuardStatus(j)
  <2>1. CASE MarkPending /\ Goto(j, IF mode = "disabled" THEN "disabled" ELSE "call")
    <3>1. pc' = [pc EXCEPT ![j] = "disabled"] \/ pc' = [pc EXCEPT ![j] = "call"]
      BY <2>1, Moves
    <3>2. pc[j] = "guard"
      BY <1>7 DEF GuardStatus
    <3>3. CASE pc' = [pc EXCEPT ![j] = "disabled"]
      BY <1>1, <2>1, <3>2, <3>3
    <3>4. CASE pc' = [pc EXCEPT ![j] = "call"]
      BY <1>1, <2>1, <3>2, <3>4
    <3> QED
      BY <3>1, <3>3, <3>4
  <2>2. CASE (MarkPending \/ Nothing) /\ (Complete(j) \/ Throw(j))
    BY <1>1, <1>7, <2>2, Moves DEF GuardStatus
  <2> QED
    BY <1>7, <2>1, <2>2, Zenon DEF GuardStatus
<1>8. CASE LeaveDisabled(j)
  BY <1>2, <1>8, Moves DEF LeaveDisabled
<1>9. CASE CreateAccount(j)
  BY <1>3, <1>9, Moves DEF CreateAccount
<1>10. CASE RecordAccount(j)
  BY <1>4, <1>5, <1>10, Moves DEF RecordAccount
<1>11. CASE Blame(j)
  BY <1>6, <1>11, Moves DEF Blame
<1>12. CASE Crash(j) /\ pc[j] # "read"
  <2>1. pc' = [pc EXCEPT ![j] = "lost"]
    BY <1>12, Moves DEF Crash
  <2>2. pc[j] \in {"guard", "disabled", "call", "record", "blame"}
    BY <1>12 DEF Crash, JobsOK
  <2> QED
    BY <1>1, <1>2, <1>3, <1>4, <1>6, <1>12, <2>1, <2>2 DEF Crash
<1> QED
  BY <1>7, <1>8, <1>9, <1>10, <1>11, <1>12

(* Only a recording makes a status active, and whoever is past the compare-*)
(* and-set then is the job that recorded it, if it does not know.          *)
LEMMA ActiveKept ==
    ASSUME IInv, NEW j \in Jobs, RowOK',
           GuardStatus(j) \/ LeaveDisabled(j) \/ CreateAccount(j) \/ RecordAccount(j)
             \/ Blame(j) \/ Crash(j)
    PROVE  ActiveHeld'
<1> SUFFICES ASSUME status' = "active", reopenings' = 0
             PROVE  Creating' \subseteq Unsure'
  BY DEF ActiveHeld
<1>1. Typed /\ Balance /\ ActiveHeld
  BY DEF IInv
<1>2. reopenings = 0
  BY <1>1 DEF Typed, RowOK, GuardStatus, LeaveDisabled, CreateAccount, RecordAccount, Blame, Crash,
     MarkPending, MarkNotStarted, CreateAtRazorpay, WriteAccount, MarkFailed, Nothing, histVars
<1>3. ASSUME NEW at, pc' = [pc EXCEPT ![j] = at], at \in {"none", "lost", "guard"}
      PROVE  Creating' = Creating \ {j}
  BY <1>1, <1>3 DEF Typed, JobsOK, Creating
<1>4. ASSUME NEW at, pc' = [pc EXCEPT ![j] = at], at \notin CreatingPhases,
             holding' = [holding EXCEPT ![j] = NoAccount]
      PROVE  \A k \in Creating' : k # j /\ k \in Creating /\ (k \in Unsure => k \in Unsure')
  BY <1>1, <1>4 DEF Typed, JobsOK, Creating, Unsure, CreatingPhases
<1>5. CASE status = "active"
  <2>1. Creating \subseteq Unsure
    BY <1>1, <1>2, <1>5 DEF ActiveHeld
  <2>2. ~MayCreate
    BY <1>5 DEF MayCreate, Retryable
  <2>3. pc[j] \notin {"disabled", "call", "record"}
    BY <2>1 DEF Creating, Unsure
  <2>4. GuardStatus(j) \/ Blame(j) \/ Crash(j)
    BY <2>3 DEF LeaveDisabled, CreateAccount, RecordAccount
  <2>5. /\ pc' = [pc EXCEPT ![j] = "none"] \/ pc' = [pc EXCEPT ![j] = "lost"]
        /\ holding' = [holding EXCEPT ![j] = NoAccount]
    BY <1>1, <2>2, <2>4, Moves, Zenon DEF GuardStatus, Blame, Crash, MarkPending
  <2> QED
    BY <1>4, <2>1, <2>5 DEF CreatingPhases
<1>6. CASE status # "active"
  <2>1. pc[j] = "record" /\ holding[j] # NoAccount
        /\ (RecordAccount(j) \/ (Crash(j) /\ WriteAccount(j)))
    <3>1. ~MarkPending /\ ~MarkNotStarted /\ ~CreateAtRazorpay /\ ~MarkFailed /\ ~Nothing
      BY <1>6 DEF MarkPending, MarkNotStarted, CreateAtRazorpay, MarkFailed, Nothing, rowVars
    <3>2. ~GuardStatus(j) /\ ~LeaveDisabled(j) /\ ~Blame(j)
      BY <3>1, Zenon DEF GuardStatus, LeaveDisabled, Blame
    <3>3. ~CreateAccount(j)
      BY <1>6, <3>1 DEF CreateAccount, rowVars
    <3>4. RecordAccount(j) \/ (Crash(j) /\ pc[j] = "record" /\ WriteAccount(j))
      <4>1. Crash(j) => pc[j] = "record" /\ WriteAccount(j)
        BY <3>1, Zenon DEF Crash
      <4> QED
        BY <3>2, <3>3, <4>1, Zenon
    <3> QED
      BY <1>1, <3>4 DEF RecordAccount, Typed, JobsOK
  <2>2. Creating = {j}
    <3>1. j \in Creating
      BY <2>1 DEF Creating
    <3> QED
      BY <1>1, <1>2, <3>1, Alone
  <2>3. CASE Complete(j) \/ Goto(j, "lost")
    <3>1. /\ pc' = [pc EXCEPT ![j] = "none"] \/ pc' = [pc EXCEPT ![j] = "lost"]
          /\ holding' = [holding EXCEPT ![j] = NoAccount]
      BY <1>1, <2>3, Moves, Zenon
    <3> QED
      BY <1>4, <2>2, <3>1 DEF CreatingPhases
  <2>4. CASE GotoWith(j, "blame", holding[j])
    <3>1. pc' = [pc EXCEPT ![j] = "blame"] /\ holding' = holding
      BY <1>1, <2>4, Moves DEF Typed, JobsOK
    <3>2. \A k \in Creating' : k = j
      BY <1>1, <2>2, <3>1 DEF Creating, Typed, JobsOK
    <3>3. j \in Unsure'
      BY <1>1, <2>1, <3>1 DEF Unsure, Typed, JobsOK
    <3> QED
      BY <3>2, <3>3
  <2> QED
    BY <1>6, <2>1, <2>3, <2>4 DEF RecordAccount, Crash, rowVars
<1> QED
  BY <1>5, <1>6

(* A status that speaks of an account is written together with it, and a   *)
(* job that makes the status "pending" stays with it or has failed.        *)
LEMMA BackedKept ==
    ASSUME Typed, StatusHasAccount, NEW j \in Jobs,
           GuardStatus(j) \/ LeaveDisabled(j) \/ CreateAccount(j) \/ RecordAccount(j)
             \/ Blame(j) \/ Crash(j)
    PROVE  StatusHasAccount'
<1>1. CASE /\ MarkPending \/ MarkNotStarted \/ CreateAtRazorpay \/ MarkFailed \/ Nothing
           /\ faulty'
  BY <1>1, Zenon DEF StatusHasAccount, MarkPending, MarkNotStarted, CreateAtRazorpay, MarkFailed,
     Nothing, rowVars
<1>2. CASE pc[j] = "record" /\ accountId' = holding[j]
  BY <1>2 DEF StatusHasAccount, Typed, JobsOK
<1>3. CASE GuardStatus(j) /\ ~faulty'
  <2>1. CASE MarkPending
    <3>1. Goto(j, "disabled") \/ Goto(j, "call")
      BY <1>3, <2>1 DEF GuardStatus, MarkPending
    <3>2. pc'[j] \in {"disabled", "call"}
      BY <3>1, Moves DEF Typed, JobsOK
    <3>3. j \in Creating'
      BY <3>2 DEF Creating
    <3> QED
      BY <2>1, <3>3 DEF StatusHasAccount, MarkPending
  <2>2. CASE Nothing /\ Complete(j) /\ UNCHANGED faulty
    <3>1. Creating' = Creating
      BY <1>3, <2>2, Moves DEF GuardStatus, Typed, JobsOK, Creating
    <3> QED
      BY <2>2, <3>1, Zenon DEF StatusHasAccount, Nothing, rowVars
  <2> QED
    BY <1>3, <2>1, <2>2, Zenon DEF GuardStatus
<1>4. CASE MarkNotStarted \/ MarkFailed
  BY <1>4 DEF StatusHasAccount, MarkNotStarted, MarkFailed
<1>5. CASE CreateAccount(j)
  <2>1. pc'[j] \in {"record", "blame"}
    BY <1>5, Moves DEF CreateAccount, Typed, JobsOK
  <2>2. j \in Creating' /\ UNCHANGED rowVars
    BY <1>5, <2>1 DEF CreateAccount, CreateAtRazorpay, Nothing, Creating
  <2> QED
    BY <2>2 DEF StatusHasAccount, rowVars
<1>6. CASE RecordAccount(j)
  <2>1. CASE UNCHANGED rowVars /\ faulty' = TRUE
    BY <2>1 DEF StatusHasAccount, rowVars
  <2> QED
    BY <1>2, <1>6, <2>1 DEF RecordAccount, WriteAccount
<1>7. CASE LeaveDisabled(j) \/ Blame(j)
  BY <1>1, <1>4, <1>7, Zenon DEF LeaveDisabled, Blame
<1>8. CASE Crash(j)
  BY <1>1, <1>2, <1>8, Zenon DEF Crash, WriteAccount
<1>9. CASE GuardStatus(j) /\ faulty'
  BY <1>1, <1>9, Zenon DEF GuardStatus
<1> QED
  BY <1>3, <1>5, <1>6, <1>7, <1>8, <1>9

(* The strengthened invariant survives every step.                         *)
LEMMA Inductive ==
    ASSUME IInv, [Next]_vars
    PROVE  IInv'
<1> DEFINE Kept == Ledger' /\ Balance' /\ ActiveHeld' /\ StatusHasAccount'
<1>0. Typed /\ Ledger /\ Balance /\ ActiveHeld /\ StatusHasAccount
  BY DEF IInv
<1>1. RowOK' /\ Typed'
  BY <1>0, RowStep, JobsStep DEF Typed
<1>2. ASSUME Approve PROVE Kept
  <2>1. UNCHANGED <<accountId, created, pc, faulty>> /\ status' = "not_started"
    BY <1>2 DEF Approve, jobVars
  <2>2. Owing' = Owing /\ Creating' = Creating
    BY <2>1 DEF Owing, At, Creating
  <2>3. Ledger' /\ Balance'
    <3>1. /\ reasons' = reasons + 1 - Ticket /\ reopenings' = reopenings + 1 - Ticket
          /\ Ticket' = 1
      BY <1>0, <1>2, <2>1 DEF Approve, Ticket, Retryable, Typed, RowOK
    <3>2. /\ Cardinality(Owing) \in Nat /\ Cardinality(Creating) \in Nat /\ created \in Nat
          /\ reasons \in Nat /\ reopenings \in Nat /\ Ticket \in {0, 1}
      BY <1>0, AtIsFinite, CreatingIsAt DEF Typed, RowOK, Ticket, Owing
    <3> QED
      BY <1>0, <2>1, <2>2, <3>1, <3>2 DEF Ledger, Balance
  <2>4. ActiveHeld' /\ StatusHasAccount'
    BY <2>1 DEF ActiveHeld, StatusHasAccount
  <2> QED
    BY <2>3, <2>4
<1>3. ASSUME \/ EnqueueApproved \/ ReviewQueueMoves \/ BeginRetry \/ EnqueueRetry
             \/ UNCHANGED vars
      PROVE  Kept
  <2>1. UNCHANGED <<pc, holding>>
    BY <1>3 DEF EnqueueApproved, ReviewQueueMoves, BeginRetry, EnqueueRetry, Enqueue, jobVars, vars
  <2>2. Nothing
    BY <1>3, Zenon DEF EnqueueApproved, ReviewQueueMoves, BeginRetry, EnqueueRetry, vars, Nothing
  <2>3. faulty => faulty'
    BY <1>3 DEF EnqueueApproved, ReviewQueueMoves, BeginRetry, EnqueueRetry, vars
  <2> QED
    BY <2>1, <2>2, <2>3, Bystanders
<1>4. ASSUME NEW j \in Jobs,
             \/ TakeJob(j) \/ ReadOrganizer(j) \/ Stall(j) \/ Evict(j)
             \/ Crash(j) /\ pc[j] = "read"
      PROVE  Kept
  <2>1. Nothing
    BY <1>4, Zenon DEF TakeJob, ReadOrganizer, Stall, Evict, Crash, Nothing
  <2>2. faulty => faulty'
    BY <1>4 DEF TakeJob, ReadOrganizer, Stall, Evict, Crash
  <2>3. \A k \in Jobs : \/ pc'[k] = pc[k] /\ holding'[k] = holding[k]
                        \/ {pc[k], pc'[k]} \subseteq {"none", "read", "guard", "lost"}
    <3>0. /\ pc \in [Jobs -> {"none", "read", "guard", "disabled", "call", "record", "blame", "lost"}]
          /\ holding \in [Jobs -> 0 .. created]
      BY <1>0 DEF Typed, JobsOK
    <3>1. CASE TakeJob(j)
      <4>1. pc[j] = "none" /\ pc' = [pc EXCEPT ![j] = "read"] /\ UNCHANGED holding
        BY <1>0, <3>1 DEF TakeJob, Typed, JobsOK
      <4> QED
        BY <3>0, <4>1
    <3>2. CASE ReadOrganizer(j) \/ (Crash(j) /\ pc[j] = "read")
      <4>1. /\ pc[j] = "read" /\ holding' = [holding EXCEPT ![j] = NoAccount]
            /\ \/ pc' = [pc EXCEPT ![j] = "none"] \/ pc' = [pc EXCEPT ![j] = "guard"]
               \/ pc' = [pc EXCEPT ![j] = "lost"]
        BY <1>0, <3>2, Moves, Zenon DEF ReadOrganizer, Crash
      <4> QED
        BY <3>0, <4>1
    <3>3. CASE Stall(j)
      <4>1. /\ pc[j] = "lost" /\ pc' = [pc EXCEPT ![j] = "none"]
            /\ holding' = [holding EXCEPT ![j] = NoAccount]
        BY <3>3 DEF Stall, Leave
      <4> QED
        BY <3>0, <4>1
    <3>4. CASE Evict(j)
      BY <3>4 DEF Evict
    <3> QED
      BY <1>4, <3>1, <3>2, <3>3, <3>4, Zenon
  <2> QED
    BY <2>1, <2>2, <2>3, Bystanders
<1>5. ASSUME NEW j \in Jobs,
             GuardStatus(j) \/ LeaveDisabled(j) \/ CreateAccount(j) \/ RecordAccount(j)
               \/ Blame(j) \/ (Crash(j) /\ pc[j] # "read")
      PROVE  Kept
  BY <1>0, <1>1, <1>5, BooksKept, ActiveKept, BackedKept
<1>6. Kept
  BY <1>2, <1>3, <1>4, <1>5, Zenon DEF Next, JobStep
<1> QED
  BY <1>1, <1>6 DEF IInv

LEMMA Invariance == Spec => []IInv
<1>1. Init => IInv
  <2> SUFFICES ASSUME Init PROVE IInv
    OBVIOUS
  <2>1. Typed
    <3>1. RowOK
      <4>1. 0 \in Nat /\ 1 \in Nat /\ 0 \in 0 .. 0
        OBVIOUS
      <4> QED
        BY <4>1, Zenon DEF Init, RowOK, Statuses, NoAccount
    <3>2. 0 \in 0 .. Attempts /\ 0 < Attempts
      BY AccountAssumption
    <3> QED
      BY <3>1, <3>2 DEF Init, Typed, JobsOK, AttemptsLeft, NoAccount
  <2>2. Owing = {} /\ Creating = {}
    BY DEF Init, Owing, At, OwingPhases, Creating
  <2>3. Ledger /\ Balance
    BY <2>2, FS_EmptySet DEF Init, Ledger, Balance, Ticket, Retryable
  <2>4. ActiveHeld /\ StatusHasAccount
    BY <2>2 DEF Init, ActiveHeld, StatusHasAccount
  <2> QED
    BY <2>1, <2>3, <2>4 DEF IInv
<1> QED
  BY <1>1, Inductive, PTL DEF Spec

-----------------------------------------------------------------------------
(* Every column and all that BullMQ keeps of a job stay in their ranges; a *)
(* job never starts more often than its attempts allow.                    *)
THEOREM TypeCorrect == Spec => []TypeOK
<1>1. IInv => TypeOK
  BY DEF IInv, Typed, RowOK, JobsOK, TypeOK
<1> QED
  BY <1>1, Invariance, PTL

(* Razorpay is never asked for an account without a reason, however many   *)
(* jobs, retries, crashes and approvals overlap.                           *)
THEOREM AccountsHaveReasons == Spec => []EveryAccountHasAReason
<1>1. IInv => EveryAccountHasAReason
  <2> SUFFICES ASSUME IInv PROVE created <= reasons
    BY DEF EveryAccountHasAReason
  <2>1. /\ Cardinality(Owing) \in Nat /\ created \in Nat /\ reasons \in Nat /\ Ticket \in {0, 1}
        /\ created + Cardinality(Owing) + Ticket <= reasons
    BY AtIsFinite DEF IInv, Typed, RowOK, Ticket, Ledger, Owing
  <2> QED
    BY <2>1
<1> QED
  BY <1>1, Invariance, PTL

(* The compare-and-set lets one job at a time through, and one more each   *)
(* time an approval or a recording whose reply was lost opened the status  *)
(* under a job at work.                                                    *)
THEOREM CompareAndSetExcludes == Spec => []OneCreator
<1>1. IInv => OneCreator
  <2> SUFFICES ASSUME IInv PROVE Cardinality(Creating) <= 1 + reopenings
    BY DEF OneCreator
  <2>1. /\ Cardinality(Creating) \in Nat /\ reopenings \in Nat /\ Ticket \in {0, 1}
        /\ Cardinality(Creating) + Ticket <= 1 + reopenings
    BY AtIsFinite, CreatingIsAt DEF IInv, Typed, RowOK, Ticket, Balance
  <2> QED
    BY <2>1
<1> QED
  BY <1>1, Invariance, PTL

(* A status that speaks of an account has one, and a "pending" without one *)
(* is some job's as long as nothing has failed.                            *)
THEOREM StatusIsBacked == Spec => []StatusHasAccount
<1>1. IInv => StatusHasAccount
  BY DEF IInv
<1> QED
  BY <1>1, Invariance, PTL

(* Only a job that recorded an active account without learning of it, or   *)
(* one that was let in beside another, takes an active account down.       *)
THEOREM ActiveStays == Spec => ActiveSurvives
<1>1. IInv /\ [Next]_vars
        => [status = "active" /\ reopenings' = 0 /\ Unsure = {} => status' = "active"]_vars
  <2> SUFFICES ASSUME IInv, [Next]_vars, status = "active", reopenings' = 0, Unsure = {}
               PROVE  status' = "active"
    BY Zenon
  <2>1. ~Approve
    BY DEF Approve, Retryable, IInv, Typed, RowOK
  <2>2. ASSUME NEW j \in Jobs, reopenings = 0
        PROVE  pc[j] \notin {"disabled", "record", "blame"}
    BY <2>2 DEF IInv, ActiveHeld, Creating
  <2>3. ASSUME NEW j \in Jobs, TakeJob(j) \/ JobStep(j) \/ Crash(j) \/ Evict(j)
        PROVE  status' = "active"
    <3>1. reopenings = 0
      BY <2>3 DEF TakeJob, JobStep, Crash, Evict, ReadOrganizer, GuardStatus, LeaveDisabled,
         CreateAccount, RecordAccount, Blame, Stall, MarkPending, MarkNotStarted, CreateAtRazorpay,
         WriteAccount, MarkFailed, Nothing, histVars, IInv, Typed, RowOK
    <3>2. pc[j] \notin {"disabled", "record", "blame"}
      BY <2>2, <3>1
    <3>3. ~MarkPending
      BY DEF MarkPending, MayCreate, Retryable
    <3> QED
      BY <2>3, <3>2, <3>3 DEF TakeJob, JobStep, Crash, Evict, ReadOrganizer, GuardStatus,
         LeaveDisabled, CreateAccount, RecordAccount, Blame, Stall, CreateAtRazorpay, Nothing, rowVars
  <2>4. CASE \/ EnqueueApproved \/ ReviewQueueMoves \/ BeginRetry \/ EnqueueRetry
             \/ UNCHANGED vars
    BY <2>4 DEF EnqueueApproved, ReviewQueueMoves, BeginRetry, EnqueueRetry, vars, rowVars
  <2> QED
    BY <2>1, <2>3, <2>4, Zenon DEF Next
<1> QED
  BY <1>1, Invariance, PTL DEF Spec, ActiveSurvives
=============================================================================
