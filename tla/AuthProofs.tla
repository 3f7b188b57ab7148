------------------------------ MODULE AuthProofs ------------------------------
(***************************************************************************)
(* Proofs about the two models of apps/api/src/modules/auth that meet in   *)
(* verifyEmailToken: Sessions, for any number of logins, logouts and       *)
(* verifications at once, and EmailVerification, for any number of users,  *)
(* addresses and tokens.                                                   *)
(***************************************************************************)
EXTENDS Sessions, EmailVerification, TLAPS

-----------------------------------------------------------------------------
(* Sessions.  The invariants hold because a login that has a cookie is     *)
(* over, because only a cookie starts a logout or a verification, and      *)
(* because roles only rise.                                                *)

(* A login's way: no cookie before it is done, no row taken back, no role  *)
(* above the user's.                                                       *)
LoginInv(s) ==
    /\ cookie[s] => login[s] = "done"
    /\ login[s] \in {"answer", "done"} => row[s] # "none"
    /\ login[s] \notin {"accepted", "failed"} => user # "none"
    /\ Rank(seen[s]) <= Rank(user)
    /\ Rank(redis[s]) <= Rank(user)

LogoutInv(s) ==
    /\ logout[s] # "idle" => login[s] = "done"
    /\ logout[s] = "revoke" => redis[s] = "none"
    /\ row[s] = "revoked" => login[s] = "done" /\ redis[s] = "none"

VerifyInv(s) ==
    /\ verify[s] # "idle" => login[s] = "done"
    /\ verify[s] = "refresh" => user \in {"organizer", "admin"}
    /\ s \in refreshed => /\ login[s] = "done" /\ user \in {"organizer", "admin"}
                          /\ redis[s] \in {"none", user}

IInv == TypeOK /\ \A s \in Sids : LoginInv(s) /\ LogoutInv(s) /\ VerifyInv(s)

LEMMA InitIInv == Init => IInv
BY DEF Init, IInv, TypeOK, LoginInv, LogoutInv, VerifyInv, Roles, Rank

(* What a step of the login of s leaves alone keeps the others' parts.     *)
LEMMA LoginIInv ==
    ASSUME IInv, NEW s \in Sids, LoginStep(s)
    PROVE  IInv'
<1> USE DEF IInv, TypeOK, Login, loginVars
<1>1. CASE UpsertUser(s)
  <2>1. TypeOK'
    BY <1>1 DEF UpsertUser, Rank, Roles
  <2>2. ASSUME NEW t \in Sids PROVE LoginInv(t)'
    BY <1>1 DEF UpsertUser, Rank, LoginInv, LogoutInv, VerifyInv, Roles
  <2>3. ASSUME NEW t \in Sids PROVE LogoutInv(t)'
    BY <1>1 DEF UpsertUser, Rank, LoginInv, LogoutInv, VerifyInv, Roles
  <2>4. ASSUME NEW t \in Sids PROVE VerifyInv(t)'
    BY <1>1 DEF UpsertUser, Rank, LoginInv, LogoutInv, VerifyInv, Roles
  <2> QED BY <2>1, <2>2, <2>3, <2>4
<1>2. CASE SelectUser(s)
  <2>1. TypeOK'
    BY <1>2 DEF SelectUser, Roles
  <2>2. ASSUME NEW t \in Sids PROVE LoginInv(t)'
    BY <1>2 DEF SelectUser, Rank, LoginInv, LogoutInv, VerifyInv, Roles
  <2>3. ASSUME NEW t \in Sids PROVE LogoutInv(t)'
    BY <1>2 DEF SelectUser, LoginInv, LogoutInv, VerifyInv, Roles
  <2>4. ASSUME NEW t \in Sids PROVE VerifyInv(t)'
    BY <1>2 DEF SelectUser, LoginInv, LogoutInv, VerifyInv, Roles
  <2> QED BY <2>1, <2>2, <2>3, <2>4
<1>3. CASE CreateRedisSession(s)
  <2>1. TypeOK'
    BY <1>3 DEF CreateRedisSession, Redis, Roles
  <2>2. ASSUME NEW t \in Sids PROVE LoginInv(t)'
    BY <1>3 DEF CreateRedisSession, Redis, LoginInv, LogoutInv, VerifyInv, Roles
  <2>3. ASSUME NEW t \in Sids PROVE LogoutInv(t)'
    BY <1>3 DEF CreateRedisSession, Redis, LoginInv, LogoutInv, VerifyInv, Roles
  <2>4. ASSUME NEW t \in Sids PROVE VerifyInv(t)'
    BY <1>3 DEF CreateRedisSession, Redis, LoginInv, LogoutInv, VerifyInv, Roles
  <2> QED BY <2>1, <2>2, <2>3, <2>4
<1>4. CASE InsertRow(s)
  <2>1. TypeOK'
    BY <1>4 DEF InsertRow, Roles
  <2>2. ASSUME NEW t \in Sids PROVE LoginInv(t)'
    BY <1>4 DEF InsertRow, LoginInv, LogoutInv, VerifyInv, Roles
  <2>3. ASSUME NEW t \in Sids PROVE LogoutInv(t)'
    BY <1>4 DEF InsertRow, LoginInv, LogoutInv, VerifyInv, Roles
  <2>4. ASSUME NEW t \in Sids PROVE VerifyInv(t)'
    BY <1>4 DEF InsertRow, LoginInv, LogoutInv, VerifyInv, Roles
  <2> QED BY <2>1, <2>2, <2>3, <2>4
<1>5. CASE UndoRedisSession(s)
  <2>1. TypeOK'
    BY <1>5 DEF UndoRedisSession, Redis, Rank, Roles
  <2>2. ASSUME NEW t \in Sids PROVE LoginInv(t)'
    BY <1>5 DEF UndoRedisSession, Redis, Rank, LoginInv, LogoutInv, VerifyInv, Roles
  <2>3. ASSUME NEW t \in Sids PROVE LogoutInv(t)'
    BY <1>5 DEF UndoRedisSession, Redis, Rank, LoginInv, LogoutInv, VerifyInv, Roles
  <2>4. ASSUME NEW t \in Sids PROVE VerifyInv(t)'
    BY <1>5 DEF UndoRedisSession, Redis, Rank, LoginInv, LogoutInv, VerifyInv, Roles
  <2> QED BY <2>1, <2>2, <2>3, <2>4
<1>6. CASE AnswerLogin(s)
  <2>1. TypeOK'
    BY <1>6 DEF AnswerLogin, Roles
  <2>2. ASSUME NEW t \in Sids PROVE LoginInv(t)'
    BY <1>6 DEF AnswerLogin, LoginInv, LogoutInv, VerifyInv, Roles
  <2>3. ASSUME NEW t \in Sids PROVE LogoutInv(t)'
    BY <1>6 DEF AnswerLogin, LoginInv, LogoutInv, VerifyInv, Roles
  <2>4. ASSUME NEW t \in Sids PROVE VerifyInv(t)'
    BY <1>6 DEF AnswerLogin, LoginInv, LogoutInv, VerifyInv, Roles
  <2> QED BY <2>1, <2>2, <2>3, <2>4
<1>7. CASE LoginFails(s)
  <2>1. TypeOK'
    BY <1>7 DEF LoginFails, Roles
  <2>2. ASSUME NEW t \in Sids PROVE LoginInv(t)'
    BY <1>7 DEF LoginFails, LoginInv, LogoutInv, VerifyInv, Roles
  <2>3. ASSUME NEW t \in Sids PROVE LogoutInv(t)'
    BY <1>7 DEF LoginFails, LoginInv, LogoutInv, VerifyInv, Roles
  <2>4. ASSUME NEW t \in Sids PROVE VerifyInv(t)'
    BY <1>7 DEF LoginFails, LoginInv, LogoutInv, VerifyInv, Roles
  <2> QED BY <2>1, <2>2, <2>3, <2>4
<1> QED BY <1>1, <1>2, <1>3, <1>4, <1>5, <1>6, <1>7 DEF LoginStep

LEMMA LogoutIInv ==
    ASSUME IInv, NEW s \in Sids, LogoutStep(s)
    PROVE  IInv'
<1> USE DEF IInv, TypeOK, Logout, loginVars
<1>1. CASE BeginLogout(s)
  <2>1. TypeOK'
    BY <1>1 DEF BeginLogout, Authenticated, Roles
  <2>2. ASSUME NEW t \in Sids PROVE LoginInv(t)'
    BY <1>1 DEF BeginLogout, Authenticated, LoginInv, LogoutInv, VerifyInv, Roles
  <2>3. ASSUME NEW t \in Sids PROVE LogoutInv(t)'
    BY <1>1 DEF BeginLogout, Authenticated, LoginInv, LogoutInv, VerifyInv, Roles
  <2>4. ASSUME NEW t \in Sids PROVE VerifyInv(t)'
    BY <1>1 DEF BeginLogout, Authenticated, LoginInv, LogoutInv, VerifyInv, Roles
  <2> QED BY <2>1, <2>2, <2>3, <2>4
<1>2. CASE DeleteSession(s)
  <2>1. TypeOK'
    BY <1>2 DEF DeleteSession, Redis, Rank, Roles
  <2>2. ASSUME NEW t \in Sids PROVE LoginInv(t)'
    BY <1>2 DEF DeleteSession, Redis, Rank, LoginInv, LogoutInv, VerifyInv, Roles
  <2>3. ASSUME NEW t \in Sids PROVE LogoutInv(t)'
    BY <1>2 DEF DeleteSession, Redis, Rank, LoginInv, LogoutInv, VerifyInv, Roles
  <2>4. ASSUME NEW t \in Sids PROVE VerifyInv(t)'
    BY <1>2 DEF DeleteSession, Redis, Rank, LoginInv, LogoutInv, VerifyInv, Roles
  <2> QED BY <2>1, <2>2, <2>3, <2>4
<1>3. CASE RevokeRow(s)
  <2>1. TypeOK'
    BY <1>3 DEF RevokeRow, Roles
  <2>2. ASSUME NEW t \in Sids PROVE LoginInv(t)'
    BY <1>3 DEF RevokeRow, LoginInv, LogoutInv, VerifyInv, Roles
  <2>3. ASSUME NEW t \in Sids PROVE LogoutInv(t)'
    BY <1>3 DEF RevokeRow, LoginInv, LogoutInv, VerifyInv, Roles
  <2>4. ASSUME NEW t \in Sids PROVE VerifyInv(t)'
    BY <1>3 DEF RevokeRow, LoginInv, LogoutInv, VerifyInv, Roles
  <2> QED BY <2>1, <2>2, <2>3, <2>4
<1>4. CASE AnswerLogout(s)
  <2>1. TypeOK'
    BY <1>4 DEF AnswerLogout, Roles
  <2>2. ASSUME NEW t \in Sids PROVE LoginInv(t)'
    BY <1>4 DEF AnswerLogout, LoginInv, LogoutInv, VerifyInv, Roles
  <2>3. ASSUME NEW t \in Sids PROVE LogoutInv(t)'
    BY <1>4 DEF AnswerLogout, LoginInv, LogoutInv, VerifyInv, Roles
  <2>4. ASSUME NEW t \in Sids PROVE VerifyInv(t)'
    BY <1>4 DEF AnswerLogout, LoginInv, LogoutInv, VerifyInv, Roles
  <2> QED BY <2>1, <2>2, <2>3, <2>4
<1>5. CASE LogoutCrashes(s)
  <2>1. TypeOK'
    BY <1>5 DEF LogoutCrashes, Roles
  <2>2. ASSUME NEW t \in Sids PROVE LoginInv(t)'
    BY <1>5 DEF LogoutCrashes, LoginInv, LogoutInv, VerifyInv, Roles
  <2>3. ASSUME NEW t \in Sids PROVE LogoutInv(t)'
    BY <1>5 DEF LogoutCrashes, LoginInv, LogoutInv, VerifyInv, Roles
  <2>4. ASSUME NEW t \in Sids PROVE VerifyInv(t)'
    BY <1>5 DEF LogoutCrashes, LoginInv, LogoutInv, VerifyInv, Roles
  <2> QED BY <2>1, <2>2, <2>3, <2>4
<1> QED BY <1>1, <1>2, <1>3, <1>4, <1>5 DEF LogoutStep

LEMMA VerifyIInv ==
    ASSUME IInv, NEW s \in Sids, VerifyStep(s)
    PROVE  IInv'
<1> USE DEF IInv, TypeOK, Verify, loginVars
<1>1. CASE BeginVerify(s)
  <2>1. TypeOK'
    BY <1>1 DEF BeginVerify, Authenticated, Roles
  <2>2. ASSUME NEW t \in Sids PROVE LoginInv(t)'
    BY <1>1 DEF BeginVerify, Authenticated, LoginInv, LogoutInv, VerifyInv, Roles
  <2>3. ASSUME NEW t \in Sids PROVE LogoutInv(t)'
    BY <1>1 DEF BeginVerify, Authenticated, LoginInv, LogoutInv, VerifyInv, Roles
  <2>4. ASSUME NEW t \in Sids PROVE VerifyInv(t)'
    BY <1>1 DEF BeginVerify, Authenticated, LoginInv, LogoutInv, VerifyInv, Roles
  <2> QED BY <2>1, <2>2, <2>3, <2>4
<1>2. CASE CommitElevation(s)
  <2>1. TypeOK'
    BY <1>2 DEF CommitElevation, Elevated, Rank, Roles
  <2>2. ASSUME NEW t \in Sids PROVE LoginInv(t)'
    BY <1>2 DEF CommitElevation, Elevated, Rank, LoginInv, LogoutInv, VerifyInv, Roles
  <2>3. ASSUME NEW t \in Sids PROVE LogoutInv(t)'
    BY <1>2 DEF CommitElevation, Elevated, Rank, LoginInv, LogoutInv, VerifyInv, Roles
  <2>4. ASSUME NEW t \in Sids PROVE VerifyInv(t)'
    <3>1. CASE user \in {"organizer", "admin"}
      BY <1>2, <3>1 DEF CommitElevation, Elevated, VerifyInv
    <3>2. CASE user \notin {"organizer", "admin"}
      BY <1>2, <3>2 DEF CommitElevation, Elevated, VerifyInv, LoginInv, Roles, Rank
    <3> QED BY <3>1, <3>2
  <2> QED BY <2>1, <2>2, <2>3, <2>4
<1>3. CASE VerifyFails(s)
  <2>1. TypeOK'
    BY <1>3 DEF VerifyFails, Roles
  <2>2. ASSUME NEW t \in Sids PROVE LoginInv(t)'
    BY <1>3 DEF VerifyFails, LoginInv, LogoutInv, VerifyInv, Roles
  <2>3. ASSUME NEW t \in Sids PROVE LogoutInv(t)'
    BY <1>3 DEF VerifyFails, LoginInv, LogoutInv, VerifyInv, Roles
  <2>4. ASSUME NEW t \in Sids PROVE VerifyInv(t)'
    BY <1>3 DEF VerifyFails, LoginInv, LogoutInv, VerifyInv, Roles
  <2> QED BY <2>1, <2>2, <2>3, <2>4
<1>4. CASE RefreshRole(s)
  <2>1. TypeOK'
    BY <1>4 DEF RefreshRole, MayRefresh, SetRoleOfLive, Redis, Elevated, Rank, Roles
  <2>2. ASSUME NEW t \in Sids PROVE LoginInv(t)'
    BY <1>4 DEF RefreshRole, MayRefresh, SetRoleOfLive, Redis, Elevated, Rank, LoginInv, LogoutInv, VerifyInv, Roles
  <2>3. ASSUME NEW t \in Sids PROVE LogoutInv(t)'
    BY <1>4 DEF RefreshRole, MayRefresh, SetRoleOfLive, Redis, Elevated, Rank, LoginInv, LogoutInv, VerifyInv, Roles
  <2>4. ASSUME NEW t \in Sids PROVE VerifyInv(t)'
    BY <1>4 DEF RefreshRole, MayRefresh, SetRoleOfLive, Redis, Elevated, Rank, LoginInv, LogoutInv, VerifyInv, Roles
  <2> QED BY <2>1, <2>2, <2>3, <2>4
<1> QED BY <1>1, <1>2, <1>3, <1>4 DEF VerifyStep

LEMMA HookIInv ==
    ASSUME IInv, NEW s \in Sids, ClearStaleCookie(s) \/ SessionExpires(s)
    PROVE  IInv'
<1> USE DEF IInv, TypeOK, loginVars, ClearStaleCookie, SessionExpires, Redis
<1>1. TypeOK'
  BY DEF Roles
<1>2. ASSUME NEW t \in Sids PROVE LoginInv(t)'
  BY DEF LoginInv, Rank, Roles
<1>3. ASSUME NEW t \in Sids PROVE LogoutInv(t)' /\ VerifyInv(t)'
  BY DEF LogoutInv, VerifyInv
<1> QED BY <1>1, <1>2, <1>3

LEMMA Inductive == IInv /\ [Next]_vars => IInv'
<1>1. IInv /\ UNCHANGED vars => IInv'
  BY DEF IInv, TypeOK, LoginInv, LogoutInv, VerifyInv, vars, loginVars
<1> QED BY <1>1, LoginIInv, LogoutIInv, VerifyIInv, HookIInv DEF Next

(* The types, and the four relations between the two stores, the cookie    *)
(* and the user's role.                                                    *)
THEOREM TypeCorrect == Spec => []TypeOK
BY InitIInv, Inductive, PTL DEF Spec, IInv

(* No browser holds a session that the audit trail does not have.          *)
THEOREM CookiesHaveRows == Spec => []CookieHasRow
<1>1. IInv => CookieHasRow
  BY DEF IInv, LoginInv, CookieHasRow
<1> QED BY InitIInv, Inductive, <1>1, PTL DEF Spec

(* A revoked session cannot be used. *)
THEOREM RevokedStayGone == Spec => []RevokedIsGone
<1>1. IInv => RevokedIsGone
  BY DEF IInv, LogoutInv, RevokedIsGone
<1> QED BY InitIInv, Inductive, <1>1, PTL DEF Spec

(* A session never outranks its user, and a refreshed one is current.      *)
THEOREM RolesAgree == Spec => []RolesFollow
<1>1. IInv => RolesFollow
  BY DEF IInv, TypeOK, LoginInv, VerifyInv, RolesFollow
<1> QED BY InitIInv, Inductive, <1>1, PTL DEF Spec

(* A session that is gone never comes back. *)
THEOREM NoResurrection == Spec => DeletedStaysDeleted
<1> DEFINE Stays == \A s \in Sids :
                       /\ redis[s] = "none"
                       /\ login[s] \notin {"accepted", "select", "redis"}
                       => redis'[s] = "none"
<1>1. ASSUME IInv, [Next]_vars PROVE Stays
  <2> USE DEF IInv, TypeOK, Redis
  <2>1. CASE UNCHANGED vars
    BY <1>1, <2>1 DEF vars
  <2>2. ASSUME NEW t \in Sids, LoginStep(t) PROVE Stays
    BY <1>1, <2>2 DEF LoginStep, UpsertUser, SelectUser, CreateRedisSession, InsertRow,
                UndoRedisSession, AnswerLogin, LoginFails
  <2>3. ASSUME NEW t \in Sids, LogoutStep(t) PROVE Stays
    BY <1>1, <2>3 DEF LogoutStep, BeginLogout, DeleteSession, RevokeRow, AnswerLogout, LogoutCrashes
  <2>4. ASSUME NEW t \in Sids, VerifyStep(t) PROVE Stays
    BY <1>1, <2>4 DEF VerifyStep, BeginVerify, CommitElevation, VerifyFails, RefreshRole, SetRoleOfLive
  <2>5. ASSUME NEW t \in Sids, ClearStaleCookie(t) \/ SessionExpires(t) PROVE Stays
    BY <1>1, <2>5 DEF ClearStaleCookie, SessionExpires
  <2> QED BY <1>1, <2>1, <2>2, <2>3, <2>4, <2>5 DEF Next
<1>2. IInv /\ [Next]_vars => [Stays]_vars
  BY <1>1
<1> QED BY InitIInv, Inductive, <1>2, PTL DEF Spec, DeletedStaysDeleted

-----------------------------------------------------------------------------
(* EmailVerification *)

(* Every column, request and mail stays in its range. *)
LEMMA EmailTypeStep ==
    ASSUME EmailTypeOK, [EmailNext]_emailVars
    PROVE  EmailTypeOK'
<1> USE EmailAssumption DEF EmailTypeOK, requestVars, rowVars, mailVars, userVars, Goto, Verifying
<1>1. ASSUME NEW t \in Tokens, AcquireRateLimit(t) PROVE EmailTypeOK'
  BY <1>1 DEF AcquireRateLimit
<1>2. ASSUME NEW t \in Tokens, DeletePending(t) PROVE EmailTypeOK'
  BY <1>2 DEF DeletePending
<1>3. ASSUME NEW t \in Tokens, CommitToken(t) PROVE EmailTypeOK'
  BY <1>3 DEF CommitToken, Replaced
<1>4. ASSUME NEW t \in Tokens, RollBack(t) PROVE EmailTypeOK'
  BY <1>4 DEF RollBack
<1>5. ASSUME NEW t \in Tokens, EnqueueMail(t) PROVE EmailTypeOK'
  BY <1>5 DEF EnqueueMail
<1>6. ASSUME NEW t \in Tokens, SendMail(t) PROVE EmailTypeOK'
  BY <1>6 DEF SendMail
<1>7. ASSUME NEW t \in Tokens, SendFails(t) PROVE EmailTypeOK'
  <2>1. AfterFailure(t) \in {"retried", "dead"}
    BY DEF AfterFailure
  <2>2. tries' \in [Tokens -> 0 .. Attempts]
    BY <1>7 DEF SendFails
  <2> QED
    BY <1>7, <2>1, <2>2 DEF SendFails
<1>8. ASSUME NEW t \in Tokens, TokenExpires(t) PROVE EmailTypeOK'
  BY <1>8 DEF TokenExpires
<1>9. ASSUME NEW t \in Tokens, CommitVerified(t) PROVE EmailTypeOK'
  <2>1. role' \in [Users -> UserRoles]
    BY <1>9 DEF CommitVerified, UserRoles
  <2> QED
    BY <1>9, <2>1 DEF CommitVerified
<1>10. ASSUME NEW t \in Tokens,
              ConsumeToken(t) \/ Elevate(t) \/ VerifyConflict(t) \/ VerifyTokenFails(t)
       PROVE  EmailTypeOK'
  BY <1>10 DEF ConsumeToken, Elevate, VerifyConflict, RollBackConflict, VerifyTokenFails
<1>11. ASSUME NEW u \in Users, RateLimitExpires(u) PROVE EmailTypeOK'
  BY <1>11 DEF RateLimitExpires
<1>12. ASSUME UNCHANGED emailVars PROVE EmailTypeOK'
  BY <1>12 DEF emailVars
<1>13. ASSUME NEW t \in Tokens, LockPending(t) PROVE EmailTypeOK'
  BY <1>13 DEF LockPending
<1> QED
  BY <1>1, <1>2, <1>3, <1>4, <1>5, <1>6, <1>7, <1>8, <1>9, <1>10, <1>11, <1>12, <1>13, Zenon
     DEF EmailNext, RequestStep, WorkMail, VerifyTokenStep


(***************************************************************************)
(* Why an older link is worth nothing.  While a user's rate-limit key has  *)
(* never gone under a running request, the key serialises the requests of  *)
(* the user; so what the DELETE saw is still all there is to replace when  *)
(* the INSERT commits, and at most the newest stored token is pending.     *)
(***************************************************************************)
Covered(t) == owner[t] \in keyHeld

InOrder == \A d, t \in Tokens : d < t /\ pc[t] # "idle" => pc[d] # "idle"

KeyCovers == \A t \in Tokens : Covered(t) /\ InFlight(t) => owner[t] \in limited

OneAtATime ==
    \A d, t \in Tokens :
        owner[d] = owner[t] /\ Covered(t) /\ d < t /\ pc[t] # "idle" => ~InFlight(d)

NotYetStored == \A t \in Tokens : pc[t] \in {"idle", "delete", "wait", "insert"} => token[t] = "none"

DoomedAreOwn ==
    \A t \in Tokens : \A d \in doomed[t] : owner[d] = owner[t] /\ token[d] # "none"

DoomedAreAll ==
    \A t \in Tokens : pc[t] \in {"wait", "insert"} /\ Covered(t) =>
        \A d \in Tokens : owner[d] = owner[t] /\ token[d] = "pending" => d \in doomed[t]

Newest ==
    \A d, t \in Tokens :
        owner[d] = owner[t] /\ Covered(t) /\ d < t /\ token[t] # "none" => token[d] # "pending"

EmailInv ==
    /\ EmailTypeOK /\ InOrder /\ KeyCovers /\ OneAtATime
    /\ NotYetStored /\ DoomedAreOwn /\ DoomedAreAll /\ Newest

(* Outside the requests, rows only leave "pending".                        *)
RowsOnlyEnd ==
    /\ UNCHANGED <<pc, doomed>>
    /\ \A d \in Tokens : /\ token'[d] = "pending" => token[d] = "pending"
                         /\ token'[d] = "none" <=> token[d] = "none"

LEMMA RowsEnd ==
    ASSUME EmailTypeOK, NEW t \in Tokens, WorkMail(t) \/ TokenExpires(t) \/ VerifyTokenStep(t),
           verifying[t] = "elevated" => token[t] = "pending"
    PROVE  RowsOnlyEnd /\ UNCHANGED <<limited, keyHeld, owner>>
<1> USE DEF EmailTypeOK, requestVars, rowVars, userVars, mailVars, RowsOnlyEnd, Verifying
<1>1. ASSUME WorkMail(t) PROVE RowsOnlyEnd /\ UNCHANGED <<limited, keyHeld, owner>>
  BY <1>1 DEF WorkMail, SendMail, SendFails
<1>2. CASE TokenExpires(t)
  BY <1>2 DEF TokenExpires
<1>3. CASE CommitVerified(t)
  BY <1>3 DEF CommitVerified
<1>4. CASE ConsumeToken(t) \/ Elevate(t) \/ VerifyConflict(t) \/ VerifyTokenFails(t)
  BY <1>4 DEF ConsumeToken, Elevate, VerifyConflict, RollBackConflict, VerifyTokenFails
<1> QED
  BY <1>1, <1>2, <1>3, <1>4, Zenon DEF VerifyTokenStep

LEMMA RowsEndKeep ==
    ASSUME EmailInv, RowsOnlyEnd, UNCHANGED <<limited, keyHeld, owner>>, EmailTypeOK'
    PROVE  EmailInv'
<1>1. InOrder'
  BY DEF EmailInv, RowsOnlyEnd, InOrder
<1>2. KeyCovers' /\ OneAtATime'
  BY DEF EmailInv, RowsOnlyEnd, KeyCovers, OneAtATime, Covered, InFlight
<1>3. NotYetStored'
  BY DEF EmailInv, RowsOnlyEnd, NotYetStored
<1>4. DoomedAreOwn'
  BY DEF EmailInv, EmailTypeOK, RowsOnlyEnd, DoomedAreOwn
<1>5. DoomedAreAll'
  BY DEF EmailInv, RowsOnlyEnd, DoomedAreAll, Covered
<1>6. Newest'
  BY DEF EmailInv, RowsOnlyEnd, Newest, Covered
<1> QED
  BY <1>1, <1>2, <1>3, <1>4, <1>5, <1>6 DEF EmailInv

LEMMA AcquireKeeps ==
    ASSUME EmailInv, NEW t \in Tokens, AcquireRateLimit(t), EmailTypeOK'
    PROVE  EmailInv'
<1> USE DEF EmailInv, AcquireRateLimit, MaySend, rowVars, userVars, mailVars
<1>0. PICK at \in {"delete", "failed"} : pc' = [pc EXCEPT ![t] = at]
  BY DEF Goto
<1>a. /\ pc'[t] = at /\ \A d \in Tokens : d # t => pc'[d] = pc[d]
  BY <1>0 DEF EmailTypeOK
<1>b. Tokens \subseteq Nat
  BY DEF Tokens
<1>1. InOrder'
  <2>1. ASSUME NEW d \in Tokens, d < t PROVE pc[d] # "idle"
    <3>0. d \in Nat /\ t \in Nat /\ d >= 1 /\ t <= MaxTokens /\ MaxTokens \in Nat
      BY EmailAssumption DEF Tokens
    <3>1. t > 1 /\ (d = t - 1 \/ d < t - 1)
      BY <2>1, <3>0
    <3>2. t - 1 \in Tokens
      BY <3>0, <3>1 DEF Tokens
    <3>3. pc[t - 1] # "idle"
      BY <3>1
    <3> QED
      BY <3>1, <3>2, <3>3 DEF InOrder
  <2>2. ASSUME NEW d \in Tokens, d < t PROVE d # t
    BY <2>2, <1>b
  <2> QED
    BY <1>a, <2>1, <2>2 DEF InOrder
<1>2. KeyCovers'
  BY <1>a DEF KeyCovers, Covered, InFlight
<1>3. OneAtATime'
  <2> SUFFICES ASSUME NEW d \in Tokens, NEW e \in Tokens, owner[d] = owner[e], Covered(e), d < e,
                      pc'[e] # "idle"
               PROVE  ~InFlight(d)'
    BY DEF OneAtATime, Covered
  <2>0. d # e
    BY <1>b
  <2>1. CASE e = t
    BY <2>1, <2>0, <1>a DEF KeyCovers, Covered, InFlight
  <2>2. CASE d = t
    BY <2>2, <2>0, <1>a DEF InOrder
  <2>3. CASE e # t /\ d # t
    BY <2>3, <1>a DEF OneAtATime, InFlight
  <2> QED
    BY <2>1, <2>2, <2>3
<1>4. NotYetStored'
  BY <1>a DEF NotYetStored
<1>5. DoomedAreOwn' /\ Newest'
  BY DEF DoomedAreOwn, Newest, Covered
<1>6. DoomedAreAll'
  BY <1>a DEF DoomedAreAll, Covered
<1> QED
  BY <1>1, <1>2, <1>3, <1>4, <1>5, <1>6

LEMMA ExpiryKeeps ==
    ASSUME EmailInv, NEW u \in Users, RateLimitExpires(u), EmailTypeOK'
    PROVE  EmailInv'
<1> USE DEF EmailInv, RateLimitExpires, requestVars, rowVars, userVars, mailVars, Covered
<1>1. InOrder' /\ NotYetStored' /\ DoomedAreOwn'
  BY DEF InOrder, NotYetStored, DoomedAreOwn
<1>2. KeyCovers'
  BY DEF KeyCovers, InFlight
<1>3. OneAtATime'
  BY DEF OneAtATime, InFlight
<1>4. DoomedAreAll' /\ Newest'
  BY DEF DoomedAreAll, Newest
<1> QED
  BY <1>1, <1>2, <1>3, <1>4

(* Steps of a request that store nothing and take no new key.              *)
LEMMA RequestMoves ==
    ASSUME EmailInv, NEW t \in Tokens, NEW at \in {"wait", "insert", "enqueue", "done", "failed"},
           InFlight(t), pc' = [pc EXCEPT ![t] = at], UNCHANGED <<limited, keyHeld, owner>>
    PROVE  InOrder' /\ KeyCovers' /\ OneAtATime'
<1> USE DEF EmailInv, InFlight
<1>1. pc[t] # "idle" /\ pc'[t] # "idle" /\ \A d \in Tokens : d # t => pc'[d] = pc[d]
  BY DEF EmailTypeOK
<1>2. \A d \in Tokens : /\ pc'[d] = "idle" <=> pc[d] = "idle"
                        /\ InFlight(d)' => InFlight(d)
  BY <1>1
<1> HIDE DEF InFlight
<1>3. InOrder'
  BY <1>2 DEF InOrder
<1>4. KeyCovers'
  BY <1>2 DEF KeyCovers, Covered
<1>5. OneAtATime'
  BY <1>2 DEF OneAtATime, Covered
<1> QED
  BY <1>3, <1>4, <1>5

LEMMA DeleteKeeps ==
    ASSUME EmailInv, NEW t \in Tokens, DeletePending(t), EmailTypeOK'
    PROVE  EmailInv'
<1> USE DEF EmailInv, DeletePending, Goto, rowVars, mailVars, userVars
<1>1. InOrder' /\ KeyCovers' /\ OneAtATime'
  BY RequestMoves DEF InFlight
<1>2. /\ pc'[t] = "wait"
      /\ doomed'[t] = {d \in Tokens : owner[d] = owner[t] /\ Unverified(d)}
      /\ \A d \in Tokens : d # t => pc'[d] = pc[d] /\ doomed'[d] = doomed[d]
  BY DEF EmailTypeOK
<1>3. NotYetStored'
  BY <1>2 DEF NotYetStored
<1>4. DoomedAreOwn'
  BY <1>2 DEF DoomedAreOwn, Unverified
<1>5. DoomedAreAll'
  BY <1>2 DEF DoomedAreAll, Unverified, Covered
<1>6. Newest'
  BY DEF Newest, Covered
<1> QED
  BY <1>1, <1>3, <1>4, <1>5, <1>6

LEMMA LockKeeps ==
    ASSUME EmailInv, NEW t \in Tokens, LockPending(t), EmailTypeOK'
    PROVE  EmailInv'
<1> USE DEF EmailInv, LockPending, Goto, rowVars, mailVars, userVars
<1>1. InOrder' /\ KeyCovers' /\ OneAtATime'
  BY RequestMoves DEF InFlight
<1>2. /\ pc'[t] = "insert" /\ doomed'[t] = {d \in doomed[t] : Unverified(d)}
      /\ \A d \in Tokens : d # t => pc'[d] = pc[d] /\ doomed'[d] = doomed[d]
  BY DEF EmailTypeOK
<1>3. NotYetStored'
  BY <1>2 DEF NotYetStored
<1>4. DoomedAreOwn'
  BY <1>2 DEF DoomedAreOwn
<1>5. DoomedAreAll'
  BY <1>2 DEF DoomedAreAll, Unverified, Covered
<1>6. Newest'
  BY DEF Newest, Covered
<1> QED
  BY <1>1, <1>3, <1>4, <1>5, <1>6

LEMMA CommitKeeps ==
    ASSUME EmailInv, NEW t \in Tokens, CommitToken(t), EmailTypeOK'
    PROVE  EmailInv'
<1> USE DEF EmailInv, CommitToken, Goto, mailVars, userVars
<1>0. PICK at \in {"enqueue", "failed"} : pc' = [pc EXCEPT ![t] = at]
  OBVIOUS
<1>1. InOrder' /\ KeyCovers' /\ OneAtATime'
  BY <1>0, RequestMoves DEF InFlight
<1>2. /\ pc'[t] = at /\ doomed'[t] = {}
      /\ \A d \in Tokens : d # t => pc'[d] = pc[d] /\ doomed'[d] = doomed[d]
  BY <1>0 DEF EmailTypeOK
<1>3. /\ token'[t] = "pending"
      /\ \A d \in Tokens : d # t => token'[d] = IF d \in doomed[t] THEN "deleted" ELSE token[d]
  BY DEF Replaced
<1>4. NotYetStored'
  BY <1>2, <1>3 DEF NotYetStored, DoomedAreOwn
<1>5. DoomedAreOwn'
  BY <1>2, <1>3 DEF DoomedAreOwn, EmailTypeOK
<1>6. Tokens \subseteq Nat
  BY DEF Tokens
<1>7. ASSUME NEW r \in Tokens, owner[r] = owner[t], Covered(r), r # t
      PROVE  ~InFlight(r) /\ (t < r => token[r] = "none")
  <2>1. r < t \/ t < r
    BY <1>6, <1>7
  <2>2. pc[t] # "idle" /\ InFlight(t)
    BY DEF InFlight
  <2>3. t < r => pc[r] = "idle"
    BY <1>7, <2>2 DEF OneAtATime, Covered
  <2> QED
    BY <1>7, <2>1, <2>2, <2>3 DEF OneAtATime, Covered, InFlight, NotYetStored
<1>8. DoomedAreAll'
  <2> SUFFICES ASSUME NEW r \in Tokens, pc'[r] \in {"wait", "insert"}, Covered(r),
                      NEW d \in Tokens, owner[d] = owner[r], token'[d] = "pending"
               PROVE  d \in doomed'[r]
    BY DEF DoomedAreAll, Covered
  <2>1. r # t /\ InFlight(r)
    BY <1>2 DEF InFlight
  <2>2. owner[r] # owner[t]
    BY <1>7, <2>1
  <2>3. d # t /\ token[d] = "pending"
    BY <1>3, <2>2
  <2> QED
    BY <2>1, <2>3, <1>2 DEF DoomedAreAll
<1>9. Newest'
  <2> SUFFICES ASSUME NEW d \in Tokens, NEW r \in Tokens, owner[d] = owner[r], Covered(r),
                      d < r, token'[r] # "none"
               PROVE  token'[d] # "pending"
    BY DEF Newest, Covered
  <2>0. d # r
    BY <1>6
  <2>1. CASE r = t
    BY <2>0, <2>1, <1>3 DEF DoomedAreAll, Covered
  <2>2. CASE d = t
    <3>1. r # t /\ token[r] = "none"
      BY <2>0, <2>2, <1>7
    <3>2. r \notin doomed[t]
      BY <3>1 DEF DoomedAreOwn
    <3> QED
      BY <3>1, <3>2, <1>3
  <2>3. CASE r # t /\ d # t
    <3>1. token[r] # "none"
      BY <2>3, <1>3 DEF DoomedAreOwn
    <3> QED
      BY <2>3, <3>1, <1>3 DEF Newest
  <2> QED
    BY <2>1, <2>2, <2>3
<1> QED
  BY <1>1, <1>4, <1>5, <1>8, <1>9

LEMMA RollBackKeeps ==
    ASSUME EmailInv, NEW t \in Tokens, RollBack(t) \/ EnqueueMail(t), EmailTypeOK'
    PROVE  EmailInv'
<1> USE DEF EmailInv, rowVars, mailVars, userVars
<1>0. PICK at \in {"done", "failed"} : pc' = [pc EXCEPT ![t] = at]
  BY DEF RollBack, EnqueueMail, Goto
<1>1. InFlight(t) /\ UNCHANGED <<limited, keyHeld, owner, token>>
  BY DEF RollBack, EnqueueMail, InFlight
<1>2. InOrder' /\ KeyCovers' /\ OneAtATime'
  BY <1>0, <1>1, RequestMoves
<1>3. pc'[t] = at /\ \A d \in Tokens : d # t => pc'[d] = pc[d] /\ doomed'[d] = doomed[d]
  BY <1>0 DEF EmailTypeOK, RollBack, EnqueueMail
<1>4. doomed'[t] \subseteq doomed[t]
  BY DEF EmailTypeOK, RollBack, EnqueueMail
<1>5. NotYetStored'
  BY <1>1, <1>3 DEF NotYetStored
<1>6. DoomedAreOwn'
  BY <1>1, <1>3, <1>4 DEF DoomedAreOwn
<1>7. DoomedAreAll' /\ Newest'
  BY <1>1, <1>3 DEF DoomedAreAll, Newest, Covered
<1> QED
  BY <1>2, <1>5, <1>6, <1>7

-----------------------------------------------------------------------------
(* What the locks keep apart: a row is held by one transaction, which      *)
(* found it pending or, to replace it, unverified; and two verifications   *)
(* that have written the users table are of two users, who want addresses  *)
(* that differ and that nobody else has.                                   *)
HeldIsPending == \A t \in Tokens : verifying[t] # "no" => token[t] = "pending"

DoomedAreLocked ==
    \A t \in Tokens : pc[t] = "insert" =>
        \A d \in doomed[t] :
            /\ Unverified(d) /\ verifying[d] = "no"
            /\ \A r \in Tokens \ {t} : pc[r] = "insert" => d \notin doomed[r]

ElevatedApart ==
    \A t \in Tokens : verifying[t] = "elevated" =>
        /\ ~TakenBy(addr[t], owner[t])
        /\ \A r \in Tokens \ {t} : verifying[r] = "elevated" =>
              owner[r] # owner[t] /\ addr[r] # addr[t]

Locks == HeldIsPending /\ DoomedAreLocked /\ ElevatedApart

(* Steps that leave the verifications and the users alone.                 *)
LEMMA ElevatedStay ==
    ASSUME ElevatedApart, UNCHANGED <<owner, addr, verifying, email>>
    PROVE  ElevatedApart'
BY DEF ElevatedApart, TakenBy

LEMMA RequestLocks ==
    ASSUME EmailTypeOK, NotYetStored, Locks, NEW t \in Tokens,
           AcquireRateLimit(t) \/ RequestStep(t)
    PROVE  Locks'
<1> USE DEF Locks, Goto, rowVars, userVars, mailVars, EmailTypeOK
<1>1. UNCHANGED <<owner, addr, verifying, email>>
  BY DEF AcquireRateLimit, RequestStep, DeletePending, LockPending, CommitToken, RollBack,
     EnqueueMail
<1>2. ElevatedApart'
  BY <1>1, ElevatedStay
<1>3. CASE CommitToken(t)
  <2>1. /\ pc'[t] # "insert" /\ token'[t] = "pending" /\ token[t] = "none"
        /\ \A d \in Tokens : d # t => pc'[d] = pc[d] /\ doomed'[d] = doomed[d]
                            /\ token'[d] = IF d \in doomed[t] THEN "deleted" ELSE token[d]
    BY <1>3 DEF CommitToken, Replaced, NotYetStored
  <2>2. \A d \in doomed[t] : verifying[d] = "no"
    BY <1>3 DEF CommitToken, DoomedAreLocked
  <2>3. HeldIsPending'
    BY <1>1, <2>1, <2>2 DEF HeldIsPending
  <2>4. ASSUME NEW r \in Tokens, r # t, pc[r] = "insert", NEW d \in doomed[r]
        PROVE  d \notin doomed[t] /\ d # t
    <3>1. pc[t] = "insert"
      BY <1>3 DEF CommitToken
    <3> QED
      BY <2>1, <2>4, <3>1 DEF DoomedAreLocked, Unverified
  <2>5. DoomedAreLocked'
    BY <1>1, <2>1, <2>4 DEF DoomedAreLocked, Unverified
  <2> QED
    BY <1>2, <2>3, <2>5
<1>4. CASE LockPending(t)
  <2>1. /\ UNCHANGED token
        /\ \A d \in doomed'[t] :
              /\ Unverified(d) /\ verifying[d] = "no"
              /\ \A r \in Tokens : pc[r] = "insert" => d \notin doomed[r]
        /\ \A d \in Tokens : d # t => pc'[d] = pc[d] /\ doomed'[d] = doomed[d]
    BY <1>4 DEF LockPending, Locked
  <2> QED
    BY <1>1, <1>2, <2>1 DEF HeldIsPending, DoomedAreLocked, Unverified
<1>5. CASE AcquireRateLimit(t) \/ DeletePending(t) \/ RollBack(t) \/ EnqueueMail(t)
  <2>1. /\ UNCHANGED token /\ pc'[t] # "insert"
        /\ \A d \in Tokens : d # t => pc'[d] = pc[d] /\ doomed'[d] = doomed[d]
    BY <1>5 DEF AcquireRateLimit, DeletePending, RollBack, EnqueueMail
  <2> QED
    BY <1>1, <1>2, <2>1 DEF HeldIsPending, DoomedAreLocked, Unverified
<1> QED
  BY <1>3, <1>4, <1>5, Zenon DEF RequestStep

LEMMA VerifyLocks ==
    ASSUME EmailTypeOK, Locks, NEW t \in Tokens, VerifyTokenStep(t)
    PROVE  Locks'
<1> USE DEF Locks, Verifying, requestVars, userVars, mailVars, EmailTypeOK
<1>0. \A d \in Tokens : d # t => verifying'[d] = verifying[d]
  BY DEF VerifyTokenStep, ConsumeToken, Elevate, VerifyConflict, VerifyTokenFails, CommitVerified
<1>1. CASE ConsumeToken(t)
  <2>1. /\ token' = token /\ token[t] = "pending" /\ verifying'[t] = "consumed"
        /\ \A r \in Tokens : pc[r] = "insert" => t \notin doomed[r]
    BY <1>1 DEF ConsumeToken, Consumable, Locked
  <2>2. UNCHANGED <<owner, addr, email, pc, doomed>>
    BY <1>1 DEF ConsumeToken
  <2>3. HeldIsPending' /\ DoomedAreLocked'
    BY <1>0, <2>1, <2>2 DEF HeldIsPending, DoomedAreLocked, Unverified
  <2>4. ElevatedApart'
    BY <1>0, <2>1, <2>2 DEF ElevatedApart, TakenBy
  <2> QED
    BY <2>3, <2>4
<1>2. CASE Elevate(t)
  <2>1. /\ token' = token /\ verifying[t] = "consumed" /\ verifying'[t] = "elevated"
        /\ ~TakenBy(addr[t], owner[t])
        /\ \A r \in Tokens : verifying[r] = "elevated" => owner[r] # owner[t] /\ addr[r] # addr[t]
    BY <1>2 DEF Elevate, AtUsersRow
  <2>2. UNCHANGED <<owner, addr, email, pc, doomed>>
    BY <1>2 DEF Elevate
  <2>3. HeldIsPending' /\ DoomedAreLocked'
    BY <1>0, <2>1, <2>2 DEF HeldIsPending, DoomedAreLocked, Unverified
  <2>4. ElevatedApart'
    BY <1>0, <2>1, <2>2 DEF ElevatedApart, TakenBy
  <2> QED
    BY <2>3, <2>4
<1>3. CASE VerifyConflict(t) \/ VerifyTokenFails(t)
  <2>1. token' = token /\ verifying'[t] = "no" /\ UNCHANGED <<owner, addr, email, pc, doomed>>
    BY <1>3 DEF VerifyConflict, RollBackConflict, VerifyTokenFails
  <2>2. HeldIsPending' /\ DoomedAreLocked'
    BY <1>0, <2>1 DEF HeldIsPending, DoomedAreLocked, Unverified
  <2>3. ElevatedApart'
    BY <1>0, <2>1 DEF ElevatedApart, TakenBy
  <2> QED
    BY <2>2, <2>3
<1>4. CASE CommitVerified(t)
  <2>1. /\ verifying[t] = "elevated" /\ verifying'[t] = "no"
        /\ \A d \in Tokens : d # t => token'[d] = token[d]
        /\ \A v \in Users : email'[v] = IF v = owner[t] THEN addr[t] ELSE email[v]
        /\ UNCHANGED <<owner, addr, pc, doomed>>
    BY <1>4 DEF CommitVerified
  <2>2. \A r \in Tokens : pc[r] = "insert" => t \notin doomed[r]
    BY <2>1 DEF DoomedAreLocked
  <2>3. HeldIsPending' /\ DoomedAreLocked'
    BY <1>0, <2>1, <2>2 DEF HeldIsPending, DoomedAreLocked, Unverified
  <2>4. ElevatedApart'
    BY <1>0, <2>1 DEF ElevatedApart, TakenBy
  <2> QED
    BY <2>3, <2>4
<1> QED
  BY <1>1, <1>2, <1>3, <1>4, Zenon DEF VerifyTokenStep

LEMMA OtherLocks ==
    ASSUME EmailTypeOK, Locks,
           \/ \E t \in Tokens : WorkMail(t) \/ TokenExpires(t)
           \/ \E u \in Users : RateLimitExpires(u)
           \/ UNCHANGED emailVars
    PROVE  Locks'
<1> USE DEF Locks, emailVars, requestVars, rowVars, userVars, mailVars, EmailTypeOK
<1>1. UNCHANGED <<owner, addr, pc, doomed, verifying, email>>
  BY DEF WorkMail, SendMail, SendFails, TokenExpires, RateLimitExpires
<1>2. ElevatedApart'
  BY <1>1, ElevatedStay
<1>3. \/ UNCHANGED token
      \/ \E t \in Tokens : /\ token[t] = "pending" /\ verifying[t] = "no"
                           /\ token' = [token EXCEPT ![t] = "expired"]
  BY DEF WorkMail, SendMail, SendFails, TokenExpires, RateLimitExpires, Locked
<1>4. HeldIsPending' /\ DoomedAreLocked'
  BY <1>1, <1>3 DEF HeldIsPending, DoomedAreLocked, Unverified
<1> QED
  BY <1>2, <1>4

LEMMA EmailInductive ==
    ASSUME EmailInv, Locks, [EmailNext]_emailVars
    PROVE  EmailInv' /\ Locks'
<1>0. EmailTypeOK /\ EmailTypeOK' /\ NotYetStored
  BY EmailTypeStep DEF EmailInv
<1>a. \A t \in Tokens : verifying[t] = "elevated" => token[t] = "pending"
  BY DEF Locks, HeldIsPending
<1>1. ASSUME NEW t \in Tokens, AcquireRateLimit(t) PROVE EmailInv' /\ Locks'
  BY <1>0, <1>1, AcquireKeeps, RequestLocks
<1>2. ASSUME NEW t \in Tokens, RequestStep(t) PROVE EmailInv' /\ Locks'
  <2>1. EmailInv'
    BY <1>0, <1>2, DeleteKeeps, LockKeeps, CommitKeeps, RollBackKeeps, Zenon DEF RequestStep
  <2> QED
    BY <1>0, <1>2, <2>1, RequestLocks, Zenon
<1>3. ASSUME NEW t \in Tokens, WorkMail(t) \/ TokenExpires(t) \/ VerifyTokenStep(t)
      PROVE  EmailInv' /\ Locks'
  <2>1. RowsOnlyEnd /\ UNCHANGED <<limited, keyHeld, owner>>
    BY <1>0, <1>a, <1>3, RowsEnd, Zenon
  <2>2. EmailInv'
    BY <1>0, <2>1, RowsEndKeep, Zenon
  <2> QED
    BY <1>0, <1>3, <2>2, OtherLocks, VerifyLocks, Zenon
<1>4. ASSUME NEW u \in Users, RateLimitExpires(u) PROVE EmailInv' /\ Locks'
  BY <1>0, <1>4, ExpiryKeeps, OtherLocks, Zenon
<1>5. ASSUME UNCHANGED emailVars PROVE EmailInv' /\ Locks'
  <2>1. RowsOnlyEnd /\ UNCHANGED <<limited, keyHeld, owner>>
    BY <1>5 DEF emailVars, requestVars, rowVars, RowsOnlyEnd
  <2> QED
    BY <1>0, <1>5, <2>1, RowsEndKeep, OtherLocks, Zenon
<1> QED
  BY <1>1, <1>2, <1>3, <1>4, <1>5, Zenon DEF EmailNext

LEMMA EmailInitially == EmailInit => EmailInv /\ Locks /\ AddressIsProved
<1> SUFFICES ASSUME EmailInit PROVE EmailInv /\ Locks /\ AddressIsProved
  OBVIOUS
<1> USE EmailAssumption DEF EmailInit
<1>1. EmailTypeOK
  BY DEF EmailTypeOK
<1>2. InOrder /\ KeyCovers /\ OneAtATime /\ NotYetStored
  BY DEF InOrder, KeyCovers, OneAtATime, NotYetStored, InFlight
<1>3. DoomedAreOwn /\ DoomedAreAll /\ Newest
  BY DEF DoomedAreOwn, DoomedAreAll, Newest
<1>4. AddressIsProved
  BY DEF AddressIsProved, Proofs
<1>5. Locks
  BY DEF Locks, HeldIsPending, DoomedAreLocked, ElevatedApart
<1> QED
  BY <1>1, <1>2, <1>3, <1>4, <1>5 DEF EmailInv

LEMMA EmailInvariance == EmailSpec => [](EmailInv /\ Locks)
BY EmailInitially, EmailInductive, PTL DEF EmailSpec

(* The types of the e-mail verification hold in every state of             *)
(* email-verification-service.ts.                                          *)
THEOREM EmailTypeCorrect == EmailSpec => []EmailTypeOK
<1>1. EmailInv => EmailTypeOK
  BY DEF EmailInv
<1> QED
  BY <1>1, EmailInvariance, PTL

(* A step that consumes no token and touches neither table of users.       *)
LEMMA ProofsStay ==
    ASSUME AddressIsProved, UNCHANGED <<owner, addr, role, email>>, keyHeld' \subseteq keyHeld,
           \A d \in Tokens : token'[d] = "verified" <=> token[d] = "verified"
    PROVE  AddressIsProved'
<1>1. \A u \in Users : Proofs(u)' = Proofs(u)
  BY DEF Proofs
<1> QED
  BY <1>1 DEF AddressIsProved

(* What a verification commits is newer than all that the user has         *)
(* consumed, and nobody else's.                                            *)
LEMMA CommitProves ==
    ASSUME EmailInv, Locks, AddressIsProved, NEW t \in Tokens, CommitVerified(t)
    PROVE  AddressIsProved'
<1> SUFFICES ASSUME NEW u \in Users
             PROVE  /\ email'[u] = NoAddress <=> Proofs(u)' = {}
                    /\ u \in keyHeld' => \A d \in Proofs(u)' :
                          email'[u] = addr'[d] \/ \E later \in Proofs(u)' : later > d
                    /\ Proofs(u)' # {} => role'[u] # "participant"
                    /\ \A v \in Users \ {u} : email'[v] = email'[u] => email'[u] = NoAddress
  BY DEF AddressIsProved
<1> USE DEF EmailInv, EmailTypeOK, Locks
<1>1. /\ verifying[t] = "elevated" /\ token[t] = "pending"
      /\ token' = [token EXCEPT ![t] = "verified"]
      /\ role' = [role EXCEPT ![owner[t]] = IF @ = "participant" THEN "organizer" ELSE @]
      /\ email' = [email EXCEPT ![owner[t]] = addr[t]]
      /\ UNCHANGED <<owner, addr, keyHeld>>
  BY DEF CommitVerified, Verifying, requestVars, HeldIsPending
<1>2. /\ owner[t] \in Users /\ addr[t] \in Addresses /\ addr[t] # NoAddress
      /\ \A v \in Users : v # owner[t] => email[v] # addr[t]
  BY <1>1, EmailAssumption DEF ElevatedApart, TakenBy
<1>3. Proofs(u)' = IF u = owner[t] THEN Proofs(u) \cup {t} ELSE Proofs(u)
  BY <1>1 DEF Proofs
<1>4. \A v \in Users : email'[v] = IF v = owner[t] THEN addr[t] ELSE email[v]
  BY <1>1
<1>5. \A v \in Users \ {u} : email'[v] = email'[u] => email'[u] = NoAddress
  BY <1>2, <1>4 DEF AddressIsProved
<1>6. CASE u # owner[t]
  <2>1. Proofs(u)' = Proofs(u) /\ email'[u] = email[u] /\ role'[u] = role[u]
    BY <1>1, <1>3, <1>4, <1>6
  <2> QED
    BY <1>1, <1>5, <2>1 DEF AddressIsProved
<1>7. CASE u = owner[t]
  <2>1. role'[u] # "participant"
    BY <1>1, <1>7
  <2>2. ASSUME u \in keyHeld, NEW d \in Proofs(u), d # t PROVE t > d
    <3>1. d \in Tokens /\ owner[d] = owner[t] /\ token[d] = "verified" /\ d \in Nat /\ t \in Nat
      BY <1>7 DEF Proofs, Tokens
    <3>2. ~(t < d)
      BY <1>1, <1>7, <2>2, <3>1 DEF Newest, Covered
    <3> QED
      BY <2>2, <3>1, <3>2
  <2>3. email'[u] = addr[t] /\ Proofs(u)' = Proofs(u) \cup {t}
    BY <1>3, <1>4, <1>7
  <2> QED
    BY <1>1, <1>2, <1>5, <2>1, <2>2, <2>3
<1> QED
  BY <1>6, <1>7

LEMMA AddressStep ==
    ASSUME EmailInv, Locks, AddressIsProved, [EmailNext]_emailVars
    PROVE  AddressIsProved'
<1> USE DEF requestVars, rowVars, mailVars, userVars, Verifying
<1>0. EmailTypeOK
  BY DEF EmailInv
<1>1. ASSUME NEW t \in Tokens, CommitVerified(t) PROVE AddressIsProved'
  BY <1>1, CommitProves
<1>2. ASSUME NEW t \in Tokens, CommitToken(t) PROVE AddressIsProved'
  <2>1. \A d \in doomed[t] : token[d] # "verified"
    BY <1>2 DEF CommitToken, Locks, DoomedAreLocked, Unverified
  <2>2. token[t] = "none"
    BY <1>2 DEF CommitToken, EmailInv, NotYetStored
  <2>3. \A d \in Tokens : token'[d] = "verified" <=> token[d] = "verified"
    BY <1>2, <2>1, <2>2 DEF CommitToken, Replaced
  <2> QED
    BY <1>2, <2>3, ProofsStay DEF CommitToken
<1>3. ASSUME NEW t \in Tokens, TokenExpires(t) PROVE AddressIsProved'
  BY <1>0, <1>3, ProofsStay DEF TokenExpires, EmailTypeOK
<1>4. ASSUME NEW t \in Tokens,
             \/ AcquireRateLimit(t) \/ DeletePending(t) \/ LockPending(t) \/ RollBack(t)
             \/ EnqueueMail(t)
      PROVE  AddressIsProved'
  BY <1>4, ProofsStay DEF AcquireRateLimit, DeletePending, LockPending, RollBack, EnqueueMail
<1>5. ASSUME NEW t \in Tokens, WorkMail(t) PROVE AddressIsProved'
  BY <1>5, ProofsStay DEF WorkMail, SendMail, SendFails
<1>6. ASSUME NEW t \in Tokens,
             ConsumeToken(t) \/ Elevate(t) \/ VerifyConflict(t) \/ VerifyTokenFails(t)
      PROVE  AddressIsProved'
  BY <1>6, ProofsStay DEF ConsumeToken, Elevate, VerifyConflict, RollBackConflict, VerifyTokenFails
<1>7. ASSUME NEW u \in Users, RateLimitExpires(u) PROVE AddressIsProved'
  BY <1>7, ProofsStay DEF RateLimitExpires
<1>8. ASSUME UNCHANGED emailVars PROVE AddressIsProved'
  BY <1>8, ProofsStay DEF emailVars
<1> QED
  BY <1>1, <1>2, <1>3, <1>4, <1>5, <1>6, <1>7, <1>8, Zenon DEF EmailNext, RequestStep, VerifyTokenStep

(* The tokens and the users table never tell two stories, for any number   *)
(* of users and requests: who consumed a token has the address of the      *)
(* newest one and is no participant, who has an address consumed a token   *)
(* for it, and no two users have the same (verifyEmailToken).              *)
THEOREM AddressesAreProved == EmailSpec => []AddressIsProved
<1>1. EmailInv /\ Locks /\ AddressIsProved /\ [EmailNext]_emailVars => AddressIsProved'
  BY AddressStep
<1>2. EmailInit => AddressIsProved
  BY EmailInitially
<1> QED
  BY <1>1, <1>2, EmailInvariance, PTL DEF EmailSpec

LEMMA OnlyVerifyConsumes ==
    ASSUME EmailTypeOK, HeldIsPending, [EmailNext]_emailVars, NEW t \in Tokens,
           token[t] # "verified", token'[t] = "verified"
    PROVE  token[t] = "pending"
<1> USE DEF EmailTypeOK, requestVars, rowVars, mailVars, userVars, Verifying
<1>1. ASSUME NEW r \in Tokens, CommitVerified(r) PROVE token[t] = "pending"
  BY <1>1 DEF CommitVerified, HeldIsPending
<1>2. ASSUME NEW r \in Tokens, CommitToken(r) PROVE FALSE
  BY <1>2 DEF CommitToken, Replaced
<1>3. ASSUME NEW r \in Tokens, TokenExpires(r) PROVE FALSE
  BY <1>3 DEF TokenExpires
<1>4. ASSUME NEW r \in Tokens,
             \/ AcquireRateLimit(r) \/ DeletePending(r) \/ LockPending(r) \/ RollBack(r)
             \/ EnqueueMail(r)
      PROVE  FALSE
  BY <1>4 DEF AcquireRateLimit, DeletePending, LockPending, RollBack, EnqueueMail
<1>5. ASSUME NEW r \in Tokens, WorkMail(r) PROVE FALSE
  BY <1>5 DEF WorkMail, SendMail, SendFails
<1>6. ASSUME NEW r \in Tokens,
             ConsumeToken(r) \/ Elevate(r) \/ VerifyConflict(r) \/ VerifyTokenFails(r)
      PROVE  FALSE
  BY <1>6 DEF ConsumeToken, Elevate, VerifyConflict, RollBackConflict, VerifyTokenFails
<1>7. ASSUME NEW u \in Users, RateLimitExpires(u) PROVE FALSE
  BY <1>7 DEF RateLimitExpires
<1>8. ASSUME UNCHANGED emailVars PROVE FALSE
  BY <1>8 DEF emailVars
<1> QED
  BY <1>1, <1>2, <1>3, <1>4, <1>5, <1>6, <1>7, <1>8, Zenon DEF EmailNext, RequestStep, VerifyTokenStep

(* Only the newest stored token of a user can be consumed, however a       *)
(* resend and a verification overlap, while the rate-limit key outlived    *)
(* the user's requests (sendVerificationEmail, verifyEmailToken).          *)
THEOREM NewestVerifies == EmailSpec => NewestTokenVerifies
<1>1. ASSUME EmailInv, Locks, [EmailNext]_emailVars, NEW t \in Tokens,
             owner[t] \in keyHeld, token[t] # "verified", token'[t] = "verified"
      PROVE  /\ token[t] = "pending"
             /\ \A d \in Tokens : owner[d] = owner[t] /\ d > t => token[d] = "none"
  <2>1. token[t] = "pending"
    BY <1>1, OnlyVerifyConsumes DEF EmailInv, Locks
  <2>2. \A d \in Tokens : d > t <=> t < d
    BY DEF Tokens
  <2>3. ASSUME NEW d \in Tokens, owner[d] = owner[t], t < d PROVE token[d] = "none"
    BY <1>1, <2>1, <2>3 DEF EmailInv, Newest, Covered
  <2> QED
    BY <2>1, <2>2, <2>3
<1>2. EmailInv /\ Locks /\ [EmailNext]_emailVars =>
      [\A t \in Tokens :
          owner[t] \in keyHeld /\ token[t] # "verified" /\ token'[t] = "verified"
          => /\ token[t] = "pending"
             /\ \A d \in Tokens : owner[d] = owner[t] /\ d > t => token[d] = "none"]_emailVars
  BY <1>1, Zenon
<1> QED
  BY <1>2, EmailInvariance, PTL DEF EmailSpec, NewestTokenVerifies
=============================================================================
