------------------------------ MODULE Sessions ------------------------------
(***************************************************************************)
(* The sessions of one account: the login that follows an accepted code    *)
(* (verifyOtpAndCreateSession, apps/api/src/modules/auth/service.ts), the  *)
(* cookie's way through the onRequest hook of plugins/auth.ts, logout, and *)
(* the role refresh at the end of verifyEmailToken.  A session is written  *)
(* to Redis, which decides, and to the sessions table, which is kept for   *)
(* audit; the browser holds its id in a cookie.                            *)
(*                                                                         *)
(* Every command may fail, before or after the store carried it out, and   *)
(* the process may die between any two.  Nothing in the code lowers a role *)
(* or deletes a user.                                                      *)
(***************************************************************************)
EXTENDS Naturals

CONSTANT Sids        \* session ids, one for each login

VARIABLES user,      \* the account's role, none before its first login
          redis,     \* the role in sess:<id>, none when there is no key
          row,       \* the row of the sessions table
          cookie,    \* does the browser hold the id?
          login, seen,      \* each login, and the role it read
          logout,    \* a logout that carries the id
          verify,    \* an email verification that carries the id
          refreshed  \* history: sessions whose role was refreshed

loginVars == <<login, seen>>
vars == <<user, redis, row, cookie, loginVars, logout, verify, refreshed>>

Roles == {"participant", "organizer", "admin"}
Rank(role) == IF role = "admin" THEN 3 ELSE IF role = "organizer" THEN 2
              ELSE IF role = "participant" THEN 1 ELSE 0

Init ==
    /\ user \in Roles \cup {"none"}
    /\ redis = [s \in Sids |-> "none"]
    /\ row = [s \in Sids |-> "none"]
    /\ cookie = [s \in Sids |-> FALSE]
    /\ login = [s \in Sids |-> "accepted"]
    /\ seen = [s \in Sids |-> "none"]
    /\ logout = [s \in Sids |-> "idle"]
    /\ verify = [s \in Sids |-> "idle"]
    /\ refreshed = {}

Login(s, at)  == login' = [login EXCEPT ![s] = at]
Logout(s, at) == logout' = [logout EXCEPT ![s] = at]
Verify(s, at) == verify' = [verify EXCEPT ![s] = at]
Redis(s, role) == redis' = [redis EXCEPT ![s] = role]

-----------------------------------------------------------------------------
(* The login whose code was accepted.  INSERT ... ON CONFLICT DO NOTHING,  *)
(* RETURNING a row only for a new user.                                    *)
UpsertUser(s) ==
    /\ login[s] = "accepted"
    /\ \/ /\ user = "none"
          /\ user' = "participant"
          /\ seen' = [seen EXCEPT ![s] = "participant"]
          /\ Login(s, "redis")
       \/ user # "none" /\ Login(s, "select") /\ UNCHANGED <<user, seen>>
    /\ UNCHANGED <<redis, row, cookie, logout, verify, refreshed>>

SelectUser(s) ==
    /\ login[s] = "select"
    /\ seen' = [seen EXCEPT ![s] = user]
    /\ Login(s, "redis")
    /\ UNCHANGED <<user, redis, row, cookie, logout, verify, refreshed>>

(* createRedisSession stands before the try: nothing makes up for its      *)
(* failure.                                                                *)
CreateRedisSession(s) ==
    /\ login[s] = "redis"
    /\ \/ Redis(s, seen[s]) /\ \E at \in {"row", "failed"} : Login(s, at)
       \/ UNCHANGED redis /\ Login(s, "failed")
    /\ UNCHANGED <<user, row, cookie, seen, logout, verify, refreshed>>

InsertRowAnyway(s) ==                                                   \* mutant
    /\ login[s] = "row"
    /\ row' \in {row, [row EXCEPT ![s] = "active"]}
    /\ Login(s, "answer")
    /\ UNCHANGED <<user, redis, cookie, seen, logout, verify, refreshed>>

(* The row of the audit trail; without it the login does not count.        *)
InsertRow(s) ==
    /\ login[s] = "row"
    /\ \/ row' = [row EXCEPT ![s] = "active"] /\ \E at \in {"answer", "undo"} : Login(s, at)
       \/ UNCHANGED row /\ Login(s, "undo")
    /\ UNCHANGED <<user, redis, cookie, seen, logout, verify, refreshed>>

(* deleteRedisSession as compensation, which may fail as well. *)
UndoRedisSession(s) ==
    /\ login[s] = "undo"
    /\ Redis(s, "none") \/ UNCHANGED redis
    /\ Login(s, "failed")
    /\ UNCHANGED <<user, row, cookie, seen, logout, verify, refreshed>>

(* The response sets the cookie, if it arrives. *)
AnswerLogin(s) ==
    /\ login[s] = "answer"
    /\ \/ cookie' = [cookie EXCEPT ![s] = TRUE] /\ Login(s, "done")
       \/ UNCHANGED cookie /\ Login(s, "failed")
    /\ UNCHANGED <<user, redis, row, seen, logout, verify, refreshed>>

(* A database error before the session, or a dead process. *)
LoginFails(s) ==
    /\ login[s] \notin {"done", "failed"}
    /\ Login(s, "failed")
    /\ UNCHANGED <<user, redis, row, cookie, seen, logout, verify, refreshed>>

-----------------------------------------------------------------------------
(* onRequest: the session Redis holds for the cookie.  A request that      *)
(* passed goes on with what was read, whatever happens to the session.     *)
Authenticated(s) == cookie[s] /\ redis[s] # "none"

ClearStaleCookie(s) ==
    /\ cookie[s] /\ redis[s] = "none"
    /\ cookie' = [cookie EXCEPT ![s] = FALSE]
    /\ UNCHANGED <<user, redis, row, loginVars, logout, verify, refreshed>>

(* The TTL runs out, or the hook finds expiresAt in the past. *)
SessionExpires(s) ==
    /\ redis[s] # "none"
    /\ Redis(s, "none")
    /\ UNCHANGED <<user, row, cookie, loginVars, logout, verify, refreshed>>

-----------------------------------------------------------------------------
BeginLogout(s) ==
    /\ Authenticated(s)
    /\ logout[s] = "idle"
    /\ Logout(s, "delete")
    /\ UNCHANGED <<user, redis, row, cookie, loginVars, verify, refreshed>>

DeleteSessionAnyway(s) ==                                               \* mutant
    /\ logout[s] = "delete"
    /\ Redis(s, "none") \/ UNCHANGED redis
    /\ Logout(s, "revoke")
    /\ UNCHANGED <<user, row, cookie, loginVars, verify, refreshed>>

(* logoutSession deletes the key first; its failure fails the request. *)
DeleteSession(s) ==
    /\ logout[s] = "delete"
    /\ \/ Redis(s, "none") /\ \E at \in {"revoke", "idle"} : Logout(s, at)
       \/ UNCHANGED redis /\ Logout(s, "idle")
    /\ UNCHANGED <<user, row, cookie, loginVars, verify, refreshed>>

(* The row is revoked; an error is logged and the logout goes on. *)
RevokeRow(s) ==
    /\ logout[s] = "revoke"
    /\ row' \in {row, [row EXCEPT ![s] = IF @ = "none" THEN @ ELSE "revoked"]}
    /\ Logout(s, "answer")
    /\ UNCHANGED <<user, redis, cookie, loginVars, verify, refreshed>>

AnswerLogout(s) ==
    /\ logout[s] = "answer"
    /\ cookie' \in {cookie, [cookie EXCEPT ![s] = FALSE]}
    /\ Logout(s, "idle")
    /\ UNCHANGED <<user, redis, row, loginVars, verify, refreshed>>

LogoutCrashes(s) ==
    /\ logout[s] # "idle"
    /\ Logout(s, "idle")
    /\ UNCHANGED <<user, redis, row, cookie, loginVars, verify, refreshed>>

-----------------------------------------------------------------------------
(* verifyEmailToken, seen from the session: a transaction that may make    *)
(* the user an organizer, and the refresh of the session after it.         *)
BeginVerify(s) ==
    /\ Authenticated(s)
    /\ verify[s] = "idle"
    /\ Verify(s, "tx")
    /\ UNCHANGED <<user, redis, row, cookie, loginVars, logout, refreshed>>

Elevated == IF user = "participant" THEN "organizer" ELSE user

(* The commit; the request may fail without hearing of it. *)
CommitElevation(s) ==
    /\ verify[s] = "tx"
    /\ user' = Elevated
    /\ \E at \in {"refresh", "idle"} : Verify(s, at)
    /\ UNCHANGED <<redis, row, cookie, loginVars, logout, refreshed>>

VerifyFails(s) ==
    /\ verify[s] # "idle"
    /\ Verify(s, "idle")
    /\ UNCHANGED <<user, redis, row, cookie, loginVars, logout, refreshed>>

SetRole(s)    == Redis(s, Elevated)                                     \* mutant
MayRefreshEarly(s) == verify[s] \in {"tx", "refresh"}                   \* mutant
MayRefresh(s) == verify[s] = "refresh"

(* REFRESH_SESSION_ROLE_LUA sets the role of a key that exists.  The role  *)
(* is the one the transaction read at its end.                             *)
SetRoleOfLive(s) ==
    IF redis[s] # "none" THEN Redis(s, Elevated) ELSE UNCHANGED redis

RefreshRole(s) ==
    /\ MayRefresh(s)
    /\ SetRoleOfLive(s)
    /\ refreshed' = refreshed \cup {s}
    /\ Verify(s, "idle")
    /\ UNCHANGED <<user, row, cookie, loginVars, logout>>

-----------------------------------------------------------------------------
LoginStep(s) ==
    \/ UpsertUser(s) \/ SelectUser(s) \/ CreateRedisSession(s) \/ InsertRow(s)
    \/ UndoRedisSession(s) \/ AnswerLogin(s) \/ LoginFails(s)

LogoutStep(s) ==
    \/ BeginLogout(s) \/ DeleteSession(s) \/ RevokeRow(s) \/ AnswerLogout(s)
    \/ LogoutCrashes(s)

VerifyStep(s) ==
    \/ BeginVerify(s) \/ CommitElevation(s) \/ VerifyFails(s) \/ RefreshRole(s)

Next ==
    \E s \in Sids : \/ LoginStep(s) \/ LogoutStep(s) \/ VerifyStep(s)
                    \/ ClearStaleCookie(s) \/ SessionExpires(s)

Spec == Init /\ [][Next]_vars

-----------------------------------------------------------------------------
TypeOK ==
    /\ user \in Roles \cup {"none"}
    /\ redis \in [Sids -> Roles \cup {"none"}]
    /\ row \in [Sids -> {"none", "active", "revoked"}]
    /\ cookie \in [Sids -> BOOLEAN]
    /\ login \in [Sids -> {"accepted", "select", "redis", "row", "undo", "answer",
                           "done", "failed"}]
    /\ seen \in [Sids -> Roles \cup {"none"}]
    /\ logout \in [Sids -> {"idle", "delete", "revoke", "answer"}]
    /\ verify \in [Sids -> {"idle", "tx", "refresh"}]
    /\ refreshed \subseteq Sids

(* No step after a login brings back a session that is gone: not a refresh *)
(* that overlaps a logout, an expiry or a failed login                     *)
(* (REFRESH_SESSION_ROLE_LUA).                                             *)
DeletedStaysDeleted ==
    [][\A s \in Sids : /\ redis[s] = "none"
                       /\ login[s] \notin {"accepted", "select", "redis"}
                       => redis'[s] = "none"]_vars

(* A browser that holds a session has a row in the audit trail: a login is *)
(* answered only when both stores have it, and one that was given up in    *)
(* Redis alone has no cookie (verifyOtpAndCreateSession).                  *)
CookieHasRow == \A s \in Sids : cookie[s] => row[s] # "none"

(* A session the audit trail calls revoked cannot be used (logoutSession). *)
RevokedIsGone == \A s \in Sids : row[s] = "revoked" => redis[s] = "none"

(* A session never gives a role that the user does not have, and one that *)
(* was refreshed and still lives has the user's role, also when several    *)
(* verifications overlap: the refresh follows the commit, and a login      *)
(* copies a role that was committed (verifyEmailToken).                    *)
RolesFollow ==
    /\ \A s \in Sids : Rank(redis[s]) <= Rank(user)
    /\ \A s \in refreshed : redis[s] # "none" => redis[s] = user
=============================================================================
