------------------------- MODULE EmailVerification -------------------------
(***************************************************************************)
(* How a user proves an e-mail address: sendVerificationEmail and          *)
(* verifyEmailToken of apps/api/src/modules/auth/                          *)
(* email-verification-service.ts, the email queue, and its worker.         *)
(*                                                                         *)
(* A token is named by the request that made it; requests that find the    *)
(* user's rate-limit key change nothing and are left out.  Both requests   *)
(* are transactions of several statements, which wait for the rows, and    *)
(* for the entries of the unique index, that the other has written; what a *)
(* transaction writes is in the tables from its commit on.                 *)
(***************************************************************************)
EXTENDS Naturals, FiniteSets

CONSTANTS Users, Addresses, NoAddress,
          MaxTokens,     \* bound: requests that pass the rate limit
          Attempts       \* attempts of the email queue

ASSUME EmailAssumption ==
    /\ NoAddress \notin Addresses
    /\ MaxTokens \in Nat \ {0} /\ Attempts \in Nat \ {0}

Tokens == 1 .. MaxTokens

VARIABLES limited,        \* the users whose rate-limit key exists
          keyHeld,        \* history: the users whose key never went while a
                          \* request of theirs was running
          owner, addr,    \* the request's user and address
          pc,             \* the request
          doomed,         \* the rows its DELETE has seen and then locked
          token,          \* the row of email_verifications
          verifying,      \* the transaction of verifyEmailToken that holds it
          mail, tries,    \* its job in the email queue
          role, email     \* the users table

requestVars == <<owner, addr, pc, doomed>>
rowVars == <<token, verifying>>
mailVars == <<mail, tries>>
userVars == <<role, email>>
emailVars == <<limited, keyHeld, requestVars, rowVars, mailVars, userVars>>

UserRoles == {"participant", "organizer", "admin"}

EmailInit ==
    /\ limited = {} /\ keyHeld = Users
    /\ owner \in [Tokens -> Users] /\ addr \in [Tokens -> Addresses]
    /\ pc = [t \in Tokens |-> "idle"]
    /\ doomed = [t \in Tokens |-> {}]
    /\ token = [t \in Tokens |-> "none"]
    /\ verifying = [t \in Tokens |-> "no"]
    /\ mail = [t \in Tokens |-> "none"]
    /\ tries = [t \in Tokens |-> 0]
    /\ role \in [Users -> UserRoles]
    /\ email = [u \in Users |-> NoAddress]

Goto(t, at) == pc' = [pc EXCEPT ![t] = at]
InFlight(t) == pc[t] \in {"delete", "wait", "insert", "enqueue"}

(* Rows with verified_at NULL, expired or not. *)
Unverified(t) == token[t] \in {"pending", "expired"}

(* Who wants a row that a transaction has locked waits for its end. *)
Locked(t) == verifying[t] # "no" \/ \E r \in Tokens : pc[r] = "insert" /\ t \in doomed[r]

-----------------------------------------------------------------------------
MaySend(u) == u \notin limited

(* SET NX EX; a lost answer or a dead process leaves the key. *)
AcquireRateLimit(t) ==
    /\ pc[t] = "idle"
    /\ t > 1 => pc[t - 1] # "idle"
    /\ MaySend(owner[t])
    /\ limited' = limited \cup {owner[t]}
    /\ \E at \in {"delete", "failed"} : Goto(t, at)
    /\ UNCHANGED <<keyHeld, owner, addr, doomed, rowVars, mailVars, userVars>>

(* The key goes with its TTL, which a slow database outlasts, or before it *)
(* when Redis evicts it (volatile-lru).                                    *)
RateLimitExpires(u) ==
    /\ u \in limited
    /\ limited' = limited \ {u}
    /\ keyHeld' = {v \in keyHeld : v = u => \A t \in Tokens : owner[t] = u => ~InFlight(t)}
    /\ UNCHANGED <<requestVars, rowVars, mailVars, userVars>>

(* The DELETE sees the rows committed when it begins,                      *)
DeletePending(t) ==
    /\ pc[t] = "delete"
    /\ doomed' = [doomed EXCEPT ![t] = {d \in Tokens : owner[d] = owner[t] /\ Unverified(d)}]
    /\ Goto(t, "wait")
    /\ UNCHANGED <<limited, keyHeld, owner, addr, rowVars, mailVars, userVars>>

(* waits for those that others have locked, and takes the ones that are    *)
(* still unverified then.                                                  *)
LockPending(t) ==
    /\ pc[t] = "wait"
    /\ \A d \in doomed[t] : ~Locked(d)
    /\ doomed' = [doomed EXCEPT ![t] = {d \in doomed[t] : Unverified(d)}]
    /\ Goto(t, "insert")
    /\ UNCHANGED <<limited, keyHeld, owner, addr, rowVars, mailVars, userVars>>

Replaced(t) ==
    [d \in Tokens |-> IF d = t THEN "pending"
                      ELSE IF d \in doomed[t] THEN "deleted" ELSE token[d]]

(* The INSERT and the commit. *)
CommitToken(t) ==
    /\ pc[t] = "insert"
    /\ token' = Replaced(t)
    /\ doomed' = [doomed EXCEPT ![t] = {}]
    /\ \E at \in {"enqueue", "failed"} : Goto(t, at)
    /\ UNCHANGED <<limited, keyHeld, owner, addr, verifying, mailVars, userVars>>

RollBack(t) ==
    /\ pc[t] \in {"delete", "wait", "insert"}
    /\ doomed' = [doomed EXCEPT ![t] = {}]
    /\ Goto(t, "failed")
    /\ UNCHANGED <<limited, keyHeld, owner, addr, rowVars, mailVars, userVars>>

(* emailQueue.add, after the commit: if it fails, the token is there, the  *)
(* e-mail is not, and the rate limit stays.                                *)
EnqueueMail(t) ==
    /\ pc[t] = "enqueue"
    /\ \/ mail' = [mail EXCEPT ![t] = "queued"] /\ \E at \in {"done", "failed"} : Goto(t, at)
       \/ UNCHANGED mail /\ Goto(t, "failed")
    /\ UNCHANGED <<limited, keyHeld, owner, addr, doomed, rowVars, tries, userVars>>

-----------------------------------------------------------------------------
(* The email worker.  sendEmail without a RESEND_API_KEY writes the mail to *)
(* the log and succeeds, which counts as sent; a provider that took the    *)
(* mail may still answer an error, and the job is tried again.             *)
SendMail(t) ==
    /\ mail[t] \in {"queued", "retried"}
    /\ mail' = [mail EXCEPT ![t] = "sent"]
    /\ UNCHANGED <<limited, keyHeld, requestVars, rowVars, tries, userVars>>

RetryForever(t) == IF mail[t] = "queued" THEN "retried" ELSE "queued"   \* mutant
FailedStatus(t) == "failed"                                             \* mutant
AfterFailure(t) == IF tries[t] + 1 < Attempts THEN "retried" ELSE "dead"

SendFails(t) ==
    /\ mail[t] \in {"queued", "retried"}
    /\ tries' = [tries EXCEPT ![t] = IF @ < Attempts THEN @ + 1 ELSE @]
    /\ mail' = [mail EXCEPT ![t] = AfterFailure(t)]
    /\ UNCHANGED <<limited, keyHeld, requestVars, rowVars, userVars>>

WorkMail(t) == SendMail(t) \/ SendFails(t)

-----------------------------------------------------------------------------
(* expires_at is compared with the beginning of the transaction, so a row  *)
(* expires for who asks next, not for who has it or waits for it.          *)
TokenExpires(t) ==
    /\ token[t] = "pending" /\ ~Locked(t)
    /\ token' = [token EXCEPT ![t] = "expired"]
    /\ UNCHANGED <<limited, keyHeld, requestVars, verifying, mailVars, userVars>>

Unconsumed == {"pending", "deleted"}                                    \* mutant
Consumable == {"pending"}

Verifying(t, at) ==
    /\ verifying' = [verifying EXCEPT ![t] = at]
    /\ UNCHANGED <<limited, keyHeld, requestVars, mailVars>>

(* verifyEmailToken by the owner, who has the link from the mail: the      *)
(* UPDATE of the token.                                                    *)
ConsumeToken(t) ==
    /\ mail[t] = "sent"
    /\ token[t] \in Consumable /\ ~Locked(t)
    /\ Verifying(t, "consumed")
    /\ UNCHANGED <<token, userVars>>

(* The UPDATE of the user waits for another one of the same user, and, at  *)
(* users_email_unique, for one that brings or takes away the same address; *)
(* then the address of another user is a conflict.                         *)
AtUsersRow(t) ==
    /\ verifying[t] = "consumed"
    /\ \A r \in Tokens : verifying[r] = "elevated" =>
          /\ owner[r] # owner[t]
          /\ addr[t] \notin {addr[r], email[owner[r]]}

TakenBy(e, u) == \E v \in Users \ {u} : email[v] = e

Elevate(t) ==
    /\ AtUsersRow(t) /\ ~TakenBy(addr[t], owner[t])
    /\ Verifying(t, "elevated")
    /\ UNCHANGED <<token, userVars>>

ConsumeInConflict(t) == token' = [token EXCEPT ![t] = "verified"]       \* mutant

(* The whole transaction is rolled back, the token is as it was, and the   *)
(* request is answered with a conflict.                                    *)
RollBackConflict(t) == UNCHANGED token

VerifyConflict(t) ==
    /\ AtUsersRow(t) /\ TakenBy(addr[t], owner[t])
    /\ RollBackConflict(t)
    /\ Verifying(t, "no")
    /\ UNCHANGED userVars

(* A statement fails, the process dies, or two transactions that wait for  *)
(* each other are told apart by the database.                              *)
VerifyTokenFails(t) ==
    /\ verifying[t] # "no"
    /\ Verifying(t, "no")
    /\ UNCHANGED <<token, userVars>>

(* A participant becomes an organizer, everybody else keeps the role.      *)
CommitVerified(t) ==
    /\ verifying[t] = "elevated"
    /\ token' = [token EXCEPT ![t] = "verified"]
    /\ role' = [role EXCEPT ![owner[t]] = IF @ = "participant" THEN "organizer" ELSE @]
    /\ email' = [email EXCEPT ![owner[t]] = addr[t]]
    /\ Verifying(t, "no")

VerifyTokenStep(t) ==
    \/ ConsumeToken(t) \/ Elevate(t) \/ VerifyConflict(t) \/ VerifyTokenFails(t)
    \/ CommitVerified(t)

-----------------------------------------------------------------------------
RequestStep(t) ==
    \/ DeletePending(t) \/ LockPending(t) \/ CommitToken(t) \/ RollBack(t) \/ EnqueueMail(t)

EmailNext ==
    \/ \E t \in Tokens : \/ AcquireRateLimit(t) \/ RequestStep(t) \/ WorkMail(t)
                         \/ TokenExpires(t) \/ VerifyTokenStep(t)
    \/ \E u \in Users : RateLimitExpires(u)

EmailSpec == EmailInit /\ [][EmailNext]_emailVars

(* A worker runs; nobody has to ask or to verify.                          *)
EmailFairSpec == EmailSpec /\ \A t \in Tokens : WF_emailVars(WorkMail(t))

-----------------------------------------------------------------------------
EmailTypeOK ==
    /\ limited \subseteq Users /\ keyHeld \subseteq Users
    /\ owner \in [Tokens -> Users] /\ addr \in [Tokens -> Addresses]
    /\ pc \in [Tokens -> {"idle", "delete", "wait", "insert", "enqueue", "done", "failed"}]
    /\ doomed \in [Tokens -> SUBSET Tokens]
    /\ token \in [Tokens -> {"none", "pending", "deleted", "verified", "expired"}]
    /\ verifying \in [Tokens -> {"no", "consumed", "elevated"}]
    /\ mail \in [Tokens -> {"none", "queued", "retried", "sent", "dead"}]
    /\ tries \in [Tokens -> 0 .. Attempts]
    /\ role \in [Users -> UserRoles]
    /\ email \in [Users -> Addresses \cup {NoAddress}]

(* A link is worth nothing once a newer one was stored: no overlap of a    *)
(* resend and a verification lets the old token through, unless the rate-  *)
(* limit key went before the transaction that replaces the token ended     *)
(* (sendVerificationEmail).                                                *)
NewestTokenVerifies ==
    [][\A t \in Tokens :
          owner[t] \in keyHeld /\ token[t] # "verified" /\ token'[t] = "verified"
          => /\ token[t] = "pending"
             /\ \A d \in Tokens : owner[d] = owner[t] /\ d > t => token[d] = "none"]_emailVars

(* The two tables tell the same story, however verifications of one user,  *)
(* of two users who claim one address, and resends overlap, conflict and   *)
(* fail: a user has an address once a token of theirs was consumed, and    *)
(* that of the newest one consumed unless the rate-limit key went early;   *)
(* they are no participant any more; and no other user has the address     *)
(* (verifyEmailToken).                                                     *)
Proofs(u) == {t \in Tokens : owner[t] = u /\ token[t] = "verified"}

AddressIsProved ==
    \A u \in Users :
        /\ email[u] = NoAddress <=> Proofs(u) = {}
        /\ u \in keyHeld => \A t \in Proofs(u) :
              email[u] = addr[t] \/ \E later \in Proofs(u) : later > t
        /\ Proofs(u) # {} => role[u] # "participant"
        /\ \A v \in Users \ {u} : email[v] = email[u] => email[u] = NoAddress

(* A mail that is queued is handed to the provider, or given up after its  *)
(* attempts.                                                               *)
MailIsSettled ==
    \A t \in Tokens : mail[t] = "queued" ~> mail[t] \in {"sent", "dead"}
=============================================================================
