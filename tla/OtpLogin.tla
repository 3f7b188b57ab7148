------------------------------ MODULE OtpLogin ------------------------------
(***************************************************************************)
(* One phone number that asks for login codes and types them in:           *)
(* sendOtpForPhone and the first step of verifyOtpAndCreateSession         *)
(* (apps/api/src/modules/auth/service.ts), over the two Redis keys of      *)
(* lib/otp.ts, cooldown:<phone> and <phone>, and the gateway of            *)
(* lib/msg91.ts.  OTP_DELIVERY_MODE is msg91, as production requires.      *)
(*                                                                         *)
(* A request that finds the cooldown key changes nothing, so only those    *)
(* that take it are modelled, numbered in the order they do; a code is     *)
(* named by the request that generated it, and 0 is a guess that matches   *)
(* none.  The chance that two codes are the same digits is left out.       *)
(***************************************************************************)
EXTENDS Integers, FiniteSets

CONSTANTS MaxSends,       \* bound: requests that take the cooldown key
          Window,         \* OTP_RATE_LIMIT_WINDOW_SECONDS
          ShortWait,      \* the cooldown after a failed delivery
          Timeout,        \* MSG91_TIMEOUT_MS
          CodeTtl,        \* OTP_TTL_SECONDS
          MaxAttempts     \* OTP_MAX_ATTEMPTS

ASSUME OtpAssumption ==
    /\ MaxSends \in Nat \ {0} /\ MaxAttempts \in Nat \ {0}
    /\ Window \in Nat /\ ShortWait \in Nat \ {0} /\ Timeout \in Nat \ {0}
    /\ ShortWait < Window /\ 2 * Timeout < Window
    /\ CodeTtl \in Nat \ {0}

Requests == 1 .. MaxSends

VARIABLES cooldown,     \* TTL of cooldown:<phone>, 0 when there is no key
          code,         \* whose code <phone> holds, 0 when there is no key
          attempts,     \* its attempts field
          codeTtl,      \* its TTL, as TTL reports it: 0 in the last half second
          pc, timer,    \* each request, and how long it waits for the gateway
          age,          \* history: time since a request took the key
          texted,       \* history: codes the SMS gateway took into a message
          stored, used, \* history: codes stored, and codes accepted
          wrong,        \* history: wrong guesses counted
          prompt        \* history: every request ended within Window

sendVars == <<pc, timer, age, texted>>
codeKey  == <<code, attempts, codeTtl>>
vars == <<cooldown, codeKey, sendVars, stored, used, wrong, prompt>>

-----------------------------------------------------------------------------
Waiting  == {"sms", "whatsapp"}                    \* under the abort timer
Untimed  == {"smsBody", "waBody", "store", "shorten", "release"}
InFlight == Waiting \cup Untimed
Ended    == {"sent", "failed", "error"}

Goto(n, at) ==
    /\ pc' = [pc EXCEPT ![n] = at]
    /\ timer' = [timer EXCEPT ![n] = 0]

Init ==
    /\ cooldown = 0 /\ code = 0 /\ attempts = 0 /\ codeTtl = 0
    /\ pc = [n \in Requests |-> "none"]
    /\ timer = [n \in Requests |-> 0]
    /\ age = [n \in Requests |-> 0]
    /\ texted = {} /\ stored = {} /\ used = {}
    /\ wrong = [n \in Requests |-> 0]
    /\ prompt = TRUE

-----------------------------------------------------------------------------
AnyTime == TRUE                                                         \* mutant
KeyIsAbsent == cooldown = 0
BriefLock == ShortWait                                                  \* mutant
LockTtl == Window

(* acquireOtpSendLock, SET NX EX, and what precedes the delivery.  The     *)
(* answer may be lost, or the process die: the key stays.                  *)
AcquireSendLock(n) ==
    /\ pc[n] = "none"
    /\ n > 1 => pc[n - 1] # "none"
    /\ KeyIsAbsent
    /\ cooldown' = LockTtl
    /\ \E at \in {"sms", "error"} : Goto(n, at)
    /\ UNCHANGED <<codeKey, age, texted, stored, used, wrong, prompt>>

(* sendSmsOtp: the headers arrive, the fetch throws, or the abort timer    *)
(* fires.  A message whose request failed may have been taken all the same.*)
NeverAborts(n) == FALSE                                                 \* mutant
SmsAborts(n) == timer[n] = Timeout

SmsFails(n) ==
    /\ pc[n] = "sms"
    /\ texted' \in {texted, texted \cup {n}}
    /\ Goto(n, "whatsapp")
    /\ UNCHANGED <<cooldown, codeKey, age, stored, used, wrong, prompt>>

SmsTimesOut(n) == SmsAborts(n) /\ SmsFails(n)

SmsHeaders(n) ==
    /\ pc[n] = "sms"
    /\ Goto(n, "smsBody")
    /\ UNCHANGED <<cooldown, codeKey, age, texted, stored, used, wrong, prompt>>

(* response.text() or response.json(), read after the timer was cleared.   *)
SmsBody(n) ==
    /\ pc[n] = "smsBody"
    /\ \/ texted' = texted \cup {n} /\ Goto(n, "store")
       \/ texted' \in {texted, texted \cup {n}} /\ Goto(n, "whatsapp")
    /\ UNCHANGED <<cooldown, codeKey, age, stored, used, wrong, prompt>>

(* sendWhatsAppOtp: the message names a template and leaves the code out.  *)
WhatsAppAborts(n) == timer[n] = Timeout

WhatsAppFails(n) ==
    /\ pc[n] = "whatsapp"
    /\ Goto(n, "shorten")
    /\ UNCHANGED <<cooldown, codeKey, age, texted, stored, used, wrong, prompt>>

WhatsAppTimesOut(n) == WhatsAppAborts(n) /\ WhatsAppFails(n)

WhatsAppHeaders(n) ==
    /\ pc[n] = "whatsapp"
    /\ \E at \in {"store", "waBody"} : Goto(n, at)
    /\ UNCHANGED <<cooldown, codeKey, age, texted, stored, used, wrong, prompt>>

(* The error text of a refused message. *)
WhatsAppBody(n) ==
    /\ pc[n] = "waBody"
    /\ Goto(n, "shorten")
    /\ UNCHANGED <<cooldown, codeKey, age, texted, stored, used, wrong, prompt>>

(* sendOtpWithFallback throws, which neither sender lets happen by itself. *)
DeliveryThrows(n) ==
    /\ pc[n] \in {"sms", "whatsapp"}
    /\ Goto(n, "release")
    /\ UNCHANGED <<cooldown, codeKey, age, texted, stored, used, wrong, prompt>>

(* releaseOtpSendLock deletes the key, whoever took it. *)
ReleaseLock(n) ==
    /\ pc[n] = "release"
    /\ cooldown' \in {0, cooldown}              \* the DEL may fail
    /\ Goto(n, "error")
    /\ UNCHANGED <<codeKey, age, texted, stored, used, wrong, prompt>>

(* shortenOtpCooldown: EXPIRE sets the TTL of whatever key there is.       *)
Shortened == IF cooldown > 0 THEN ShortWait ELSE 0

ShortenCooldown(n) ==
    /\ pc[n] = "shorten"
    /\ \/ cooldown' = Shortened /\ Goto(n, "failed")
       \/ UNCHANGED cooldown /\ Goto(n, "error")
    /\ UNCHANGED <<codeKey, age, texted, stored, used, wrong, prompt>>

(* storeOtp: a pipeline of one SET EX.  exec() resolves with the errors of *)
(* its commands, which nobody reads: a failed SET is a success to the      *)
(* caller.                                                                 *)
StoreCode(n) ==
    /\ pc[n] = "store"
    /\ \/ /\ code' = n /\ attempts' = 0 /\ codeTtl' = CodeTtl
          /\ stored' = stored \cup {n}
       \/ UNCHANGED <<codeKey, stored>>
    /\ Goto(n, "sent")
    /\ UNCHANGED <<cooldown, age, texted, used, wrong, prompt>>

(* The API process dies. *)
Crash(n) ==
    /\ pc[n] \in InFlight
    /\ Goto(n, "error")
    /\ UNCHANGED <<cooldown, codeKey, age, texted, stored, used, wrong, prompt>>

-----------------------------------------------------------------------------
ForgetCode == code' = 0 /\ attempts' = 0 /\ codeTtl' = 0
KeepCode == UNCHANGED codeKey                                           \* mutant

(* VERIFY_OTP_LUA, one atomic script.  Without a key it changes nothing.   *)
ConsumeCode == ForgetCode

AcceptGuess ==
    /\ code # 0
    /\ ConsumeCode
    /\ used' = used \cup {code}
    /\ UNCHANGED <<cooldown, sendVars, stored, wrong, prompt>>

(* A miss in the last half second finds TTL 0 and changes nothing.         *)
LastAttempt == attempts + 1 >= MaxAttempts

RefuseGuess ==
    /\ code # 0
    /\ \/ /\ LastAttempt
          /\ ForgetCode
          /\ wrong' = [wrong EXCEPT ![code] = @ + 1]
       \/ /\ ~LastAttempt /\ codeTtl > 0
          /\ attempts' = attempts + 1
          /\ wrong' = [wrong EXCEPT ![code] = @ + 1]
          /\ UNCHANGED <<code, codeTtl>>
    /\ UNCHANGED <<cooldown, sendVars, stored, used, prompt>>

-----------------------------------------------------------------------------
Older(t, cap) == IF t < cap THEN t + 1 ELSE t
Sooner(t)     == IF t > 0 THEN t - 1 ELSE 0

(* Time passes.  No fetch outlasts its timer; a body once its headers have *)
(* come, and Redis, may take any time.                                     *)
Tick ==
    /\ \A n \in Requests : pc[n] \in Waiting => timer[n] < Timeout
    /\ cooldown' = Sooner(cooldown)
    /\ IF code # 0 /\ codeTtl = 0 THEN ForgetCode
       ELSE codeTtl' = Sooner(codeTtl) /\ UNCHANGED <<code, attempts>>
    /\ timer' = [n \in Requests |-> IF pc[n] \in Waiting THEN timer[n] + 1 ELSE 0]
    /\ age' = [n \in Requests |-> IF pc[n] = "none" THEN 0 ELSE Older(age[n], Window)]
    /\ prompt' = (prompt /\ \A n \in Requests : pc[n] \in InFlight => age'[n] < Window)
    /\ UNCHANGED <<pc, texted, stored, used, wrong>>

GatewayAnswers(n) ==
    \/ SmsHeaders(n) \/ SmsFails(n) \/ WhatsAppHeaders(n) \/ WhatsAppFails(n)

SendStep(n) ==
    \/ SmsTimesOut(n) \/ SmsBody(n) \/ WhatsAppTimesOut(n) \/ WhatsAppBody(n)
    \/ ReleaseLock(n) \/ ShortenCooldown(n) \/ StoreCode(n)

Next ==
    \/ Tick
    \/ AcceptGuess
    \/ RefuseGuess
    \/ \E n \in Requests : \/ AcquireSendLock(n) \/ GatewayAnswers(n)
                           \/ SendStep(n) \/ DeliveryThrows(n) \/ Crash(n)

Spec == Init /\ [][Next]_vars

(* Time passes, timers fire and Redis answers.  The gateway need not send  *)
(* headers, but a body it began comes or breaks off: fetchWithTimeout has  *)
(* cleared its timer by then, and only the body timeout of Node's fetch    *)
(* ends the wait.                                                          *)
Fairness == WF_vars(Tick) /\ \A n \in Requests : WF_vars(SendStep(n))
FairSpec == Spec /\ Fairness

-----------------------------------------------------------------------------
TypeOK ==
    /\ cooldown \in 0 .. Window
    /\ code \in 0 .. MaxSends /\ attempts \in 0 .. MaxAttempts - 1
    /\ codeTtl \in 0 .. CodeTtl
    /\ pc \in [Requests -> {"none"} \cup InFlight \cup Ended]
    /\ timer \in [Requests -> 0 .. Timeout] /\ age \in [Requests -> 0 .. Window]
    /\ texted \subseteq Requests /\ stored \subseteq Requests /\ used \subseteq Requests
    /\ wrong \in [Requests -> Nat] /\ prompt \in BOOLEAN

(* storeOtp and VERIFY_OTP_LUA implement OneTimeCode: whatever requests    *)
(* overlap, a code is accepted at most once, never after MaxAttempts       *)
(* counted misses, never after a newer one was stored.                     *)
Life == [n \in Requests |-> IF n = code THEN "valid"
                            ELSE IF n \in used THEN "used"
                            ELSE IF n \in stored THEN "dead" ELSE "unborn"]

Codes == INSTANCE OneTimeCode WITH Codes <- Requests, life <- Life

RefinesOneTimeCode == Codes!CodesSpec

(* No code is refused more often than MaxAttempts, counted in the key that *)
(* a resend replaces (verifyAndConsumeOtp).                                *)
AttemptsBounded == \A n \in Requests : wrong[n] <= MaxAttempts

(* While no request has outlasted the cooldown it took, none gets through  *)
(* within Window of one that was answered with success: neither EXPIRE nor *)
(* DEL ends a cooldown that is not the caller's own (sendOtpForPhone).     *)
NoResendWithinWindow ==
    [][\A n, m \in Requests :
          prompt /\ pc[n] = "none" /\ pc'[n] # "none" /\ pc[m] = "sent"
             => age[m] >= Window]_vars

(* Nor does a slow delivery then overwrite a later code: the code that is  *)
(* stored is the one asked for last among those stored.                    *)
LatestCodeStands == prompt /\ code # 0 => \A n \in stored : n <= code

(* Every request ends, although the gateway never sends headers, if the    *)
(* bodies it began come or break off.                                      *)
RequestsEnd == \A n \in Requests : (pc[n] \in InFlight) ~> (pc[n] \in Ended)
=============================================================================
