--------------------------- MODULE OtpLoginProofs ---------------------------
(***************************************************************************)
(* The requests of one phone keep their types, and the two scripts on the  *)
(* code's key implement OneTimeCode, for any number of requests, any       *)
(* window, timeout, lifetime and number of attempts, and however slow the  *)
(* gateway and Redis are.                                                  *)
(***************************************************************************)
EXTENDS OtpLogin, TLAPS

(* What the refinement rests on: a code in the key is one that a request   *)
(* stored before it ended, that nobody used, and whose misses are those    *)
(* the key counts.                                                         *)
CodeInv ==
    /\ \A n \in stored : pc[n] = "sent"
    /\ used \subseteq stored
    /\ code # 0 => code \in stored /\ code \notin used /\ wrong[code] = attempts
    /\ \A n \in Requests \ stored : wrong[n] = 0
    /\ \A n \in Requests : wrong[n] <= MaxAttempts

IInv == TypeOK /\ CodeInv

States == {"none"} \cup InFlight \cup Ended

LEMMA GotoType ==
    ASSUME NEW n \in Requests, NEW at \in States, TypeOK, Goto(n, at)
    PROVE  /\ pc' \in [Requests -> States] /\ timer' \in [Requests -> 0 .. Timeout]
           /\ pc'[n] = at
           /\ \A m \in Requests \ {n} : pc'[m] = pc[m]
BY OtpAssumption DEF TypeOK, Goto, States, InFlight, Ended, Waiting, Untimed

(* A step of a request that leaves the code's key and its history alone    *)
(* keeps CodeInv as long as it leaves the requests that have ended.        *)
LEMMA AsideKeepsCodeInv ==
    ASSUME CodeInv, NEW n \in Requests, pc[n] # "sent",
           \A m \in Requests \ {n} : pc'[m] = pc[m],
           stored \subseteq Requests,
           UNCHANGED <<codeKey, stored, used, wrong>>
    PROVE  CodeInv'
BY DEF CodeInv, codeKey

LEMMA InitIInv == Init => IInv
BY OtpAssumption DEF Init, IInv, TypeOK, CodeInv, Requests, InFlight, Ended, Waiting, Untimed

(* The steps of a request that store nothing. *)
Aside(n) ==
    \/ AcquireSendLock(n) \/ GatewayAnswers(n) \/ SmsTimesOut(n) \/ SmsBody(n)
    \/ WhatsAppTimesOut(n) \/ WhatsAppBody(n) \/ ReleaseLock(n)
    \/ ShortenCooldown(n) \/ DeliveryThrows(n) \/ Crash(n)

LEMMA AsideStep ==
    ASSUME NEW n \in Requests, Aside(n)
    PROVE  /\ \E at \in States : Goto(n, at)
           /\ pc[n] \in {"none"} \cup InFlight
           /\ texted' \in {texted, texted \cup {n}}
           /\ cooldown' \in {0, cooldown, ShortWait, Window}
           /\ UNCHANGED <<codeKey, age, stored, used, wrong, prompt>>
<1> USE DEF States, InFlight, Ended, Waiting, Untimed
<1>1. CASE AcquireSendLock(n)
  BY <1>1 DEF AcquireSendLock, LockTtl
<1>2. CASE GatewayAnswers(n)
  BY <1>2 DEF GatewayAnswers, SmsHeaders, SmsFails, WhatsAppHeaders, WhatsAppFails
<1>3. CASE SmsTimesOut(n) \/ SmsBody(n)
  BY <1>3 DEF SmsTimesOut, SmsFails, SmsBody
<1>4. CASE WhatsAppTimesOut(n) \/ WhatsAppBody(n)
  BY <1>4 DEF WhatsAppTimesOut, WhatsAppFails, WhatsAppBody
<1>5. CASE ReleaseLock(n)
  BY <1>5 DEF ReleaseLock
<1>6. CASE ShortenCooldown(n)
  BY <1>6 DEF ShortenCooldown, Shortened
<1>7. CASE DeliveryThrows(n) \/ Crash(n)
  BY <1>7 DEF DeliveryThrows, Crash
<1> QED BY <1>1, <1>2, <1>3, <1>4, <1>5, <1>6, <1>7 DEF Aside

LEMMA AsideIInv ==
    ASSUME IInv, NEW n \in Requests, Aside(n)
    PROVE  IInv'
<1> USE DEF IInv
<1>1. PICK at \in States : Goto(n, at)
  BY AsideStep
<1>2. /\ pc' \in [Requests -> States] /\ timer' \in [Requests -> 0 .. Timeout]
      /\ \A m \in Requests \ {n} : pc'[m] = pc[m]
  BY <1>1, GotoType
<1>3. TypeOK'
  BY <1>2, AsideStep, OtpAssumption DEF TypeOK, States, codeKey
<1>4. CodeInv'
  BY <1>2, AsideStep, AsideKeepsCodeInv DEF TypeOK, InFlight, Waiting, Untimed
<1> QED BY <1>3, <1>4

LEMMA StoreIInv ==
    ASSUME IInv, NEW n \in Requests, StoreCode(n)
    PROVE  IInv'
<1> USE DEF IInv
<1>1. Goto(n, "sent") /\ pc[n] = "store" /\ "sent" \in States
  BY DEF StoreCode, States, Ended
<1>2. /\ pc' \in [Requests -> States] /\ timer' \in [Requests -> 0 .. Timeout]
      /\ pc'[n] = "sent"
      /\ \A m \in Requests \ {n} : pc'[m] = pc[m]
  BY <1>1, GotoType
<1>3. CASE UNCHANGED <<codeKey, stored>>
  <2>1. TypeOK'
    BY <1>2, <1>3 DEF StoreCode, TypeOK, States, codeKey
  <2>2. CodeInv'
    BY <1>1, <1>2, <1>3, AsideKeepsCodeInv DEF StoreCode, TypeOK
  <2> QED BY <2>1, <2>2
<1>4. CASE code' = n /\ attempts' = 0 /\ codeTtl' = CodeTtl /\ stored' = stored \cup {n}
  <2>0. n \in 0 .. MaxSends /\ 0 \in 0 .. MaxAttempts - 1 /\ CodeTtl \in 0 .. CodeTtl
    BY OtpAssumption DEF Requests
  <2>1. TypeOK'
    BY <1>2, <1>4, <2>0 DEF StoreCode, TypeOK, States
  <2>2. n \notin stored /\ n \notin used /\ wrong[n] = 0
    BY <1>1 DEF CodeInv
  <2>3. CodeInv'
    BY <1>2, <1>4, <2>2 DEF StoreCode, TypeOK, CodeInv
  <2> QED BY <2>1, <2>3
<1> QED BY <1>3, <1>4 DEF StoreCode

LEMMA CodeIsRequest ==
    ASSUME TypeOK, code # 0
    PROVE  code \in Requests
BY DEF TypeOK, Requests

LEMMA AcceptIInv == IInv /\ AcceptGuess => IInv'
<1> SUFFICES ASSUME IInv, AcceptGuess PROVE IInv'
  OBVIOUS
<1>1. code \in Requests
  BY CodeIsRequest DEF IInv, AcceptGuess
<1> QED BY <1>1, OtpAssumption DEF IInv, TypeOK, CodeInv, AcceptGuess, ConsumeCode,
                                  ForgetCode, sendVars

LEMMA RefuseIInv == IInv /\ RefuseGuess => IInv'
<1> SUFFICES ASSUME IInv, RefuseGuess PROVE IInv'
  OBVIOUS
<1> USE DEF IInv
<1>1. code \in Requests /\ code \in stored /\ wrong[code] = attempts
  BY CodeIsRequest DEF RefuseGuess, CodeInv
<1>2. attempts \in Nat /\ attempts <= MaxAttempts - 1 /\ MaxAttempts \in Nat
  BY OtpAssumption DEF TypeOK
<1>4. CASE /\ ForgetCode
           /\ wrong' = [wrong EXCEPT ![code] = @ + 1]
  BY <1>1, <1>2, <1>4, OtpAssumption DEF RefuseGuess, TypeOK, CodeInv, ForgetCode, sendVars
<1>5. CASE /\ ~LastAttempt
           /\ attempts' = attempts + 1
           /\ wrong' = [wrong EXCEPT ![code] = @ + 1]
           /\ UNCHANGED <<code, codeTtl>>
  BY <1>1, <1>2, <1>5, OtpAssumption DEF RefuseGuess, TypeOK, CodeInv, LastAttempt, sendVars
<1> QED BY <1>4, <1>5 DEF RefuseGuess

LEMMA TickIInv == IInv /\ Tick => IInv'
<1> SUFFICES ASSUME IInv, Tick PROVE IInv'
  OBVIOUS
<1> USE DEF IInv
<1>1. timer' \in [Requests -> 0 .. Timeout]
  BY OtpAssumption DEF Tick, TypeOK
<1>2. age' \in [Requests -> 0 .. Window]
  BY OtpAssumption DEF Tick, TypeOK, Older
<1>3. cooldown' \in 0 .. Window /\ codeTtl' \in 0 .. CodeTtl
  BY OtpAssumption DEF Tick, TypeOK, Sooner, ForgetCode
<1>4. code' \in 0 .. MaxSends /\ attempts' \in 0 .. MaxAttempts - 1
  BY OtpAssumption DEF Tick, TypeOK, ForgetCode
<1>5. TypeOK'
  BY <1>1, <1>2, <1>3, <1>4 DEF Tick, TypeOK
<1>6. CodeInv'
  BY DEF Tick, CodeInv, ForgetCode
<1> QED BY <1>5, <1>6

LEMMA NextSplit ==
    ASSUME Next
    PROVE  \/ Tick \/ AcceptGuess \/ RefuseGuess
           \/ \E n \in Requests : Aside(n) \/ StoreCode(n)
BY Zenon DEF Next, SendStep, Aside

(* No interleaving of requests and guesses leaves the types. *)
THEOREM TypeCorrect == Spec => []TypeOK
<1>1. IInv /\ [Next]_vars => IInv'
  <2>1. IInv /\ UNCHANGED vars => IInv'
    BY DEF IInv, TypeOK, CodeInv, vars, codeKey, sendVars
  <2> QED BY <2>1, NextSplit, TickIInv, AcceptIInv, RefuseIInv, AsideIInv, StoreIInv
<1> QED BY InitIInv, <1>1, PTL DEF Spec, IInv

(* A code is refused at most MaxAttempts times by the key that counts.     *)
THEOREM AttemptsAlwaysBounded == Spec => []AttemptsBounded
<1>1. IInv /\ [Next]_vars => IInv'
  <2>1. IInv /\ UNCHANGED vars => IInv'
    BY DEF IInv, TypeOK, CodeInv, vars, codeKey, sendVars
  <2> QED BY <2>1, NextSplit, TickIInv, AcceptIInv, RefuseIInv, AsideIInv, StoreIInv
<1>2. IInv => AttemptsBounded
  BY DEF IInv, CodeInv, AttemptsBounded
<1> QED BY InitIInv, <1>1, <1>2, PTL DEF Spec

-----------------------------------------------------------------------------
(* The refinement, one lemma for each kind of step. *)
LEMMA LifeUnchanged ==
    ASSUME UNCHANGED <<code, stored, used, wrong>>
    PROVE  UNCHANGED Codes!codeVars
BY DEF Codes!codeVars, Life

LEMMA StoreIssues ==
    ASSUME IInv, NEW n \in Requests, StoreCode(n)
    PROVE  Codes!CodesNext \/ UNCHANGED Codes!codeVars
<1>1. CASE UNCHANGED <<codeKey, stored>>
  BY <1>1, LifeUnchanged DEF StoreCode, codeKey
<1>2. CASE code' = n /\ stored' = stored \cup {n}
  <2>1. n \notin stored /\ n \notin used /\ n # code /\ n # 0
    BY DEF IInv, CodeInv, StoreCode, Requests
  <2>2. Life[n] = "unborn"
    BY <2>1 DEF Life
  <2>3. ASSUME NEW d \in Requests
        PROVE  Life'[d] = IF d = n THEN "valid"
                          ELSE IF Life[d] = "valid" THEN "dead" ELSE Life[d]
    <3>1. CASE d = n
      BY <1>2, <3>1 DEF Life
    <3>2. CASE d # n /\ d = code
      BY <1>2, <2>1, <3>2 DEF Life, StoreCode, IInv, CodeInv, Requests
    <3>3. CASE d # n /\ d # code
      BY <1>2, <3>3 DEF Life, StoreCode
    <3> QED BY <3>1, <3>2, <3>3
  <2>4. Life' = [d \in Requests |-> IF d = n THEN "valid"
                                    ELSE IF Life[d] = "valid" THEN "dead" ELSE Life[d]]
    BY <2>3 DEF Life
  <2>5. Codes!Issue(n)
    BY <2>2, <2>4 DEF Codes!Issue, StoreCode
  <2> QED BY <2>5 DEF Codes!CodesNext
<1> QED BY <1>1, <1>2 DEF StoreCode

LEMMA AcceptAccepts ==
    ASSUME IInv, AcceptGuess
    PROVE  Codes!CodesNext
<1>1. code \in Requests /\ code # 0 /\ Life[code] = "valid"
  BY CodeIsRequest DEF IInv, AcceptGuess, Life
<1>2. ASSUME NEW d \in Requests
      PROVE  Life'[d] = IF d = code THEN "used" ELSE Life[d]
  BY <1>1 DEF Life, AcceptGuess, ConsumeCode, ForgetCode, Requests
<1>3. Life' = [Life EXCEPT ![code] = "used"]
  BY <1>1, <1>2 DEF Life
<1>4. Codes!Accept(code)
  BY <1>1, <1>3 DEF Codes!Accept, AcceptGuess
<1> QED BY <1>1, <1>4 DEF Codes!CodesNext

(* The code's key goes, and nobody has used the code. *)
LEMMA ForgottenIsDead ==
    ASSUME IInv, code # 0, ForgetCode, UNCHANGED <<stored, used>>
    PROVE  Life' = [Life EXCEPT ![code] = "dead"]
<1>1. code \in Requests /\ code \in stored /\ code \notin used
  BY CodeIsRequest DEF IInv, CodeInv
<1>2. ASSUME NEW d \in Requests
      PROVE  Life'[d] = IF d = code THEN "dead" ELSE Life[d]
  BY <1>1 DEF Life, ForgetCode, Requests
<1> QED BY <1>1, <1>2 DEF Life

LEMMA RefuseMisses ==
    ASSUME IInv, RefuseGuess
    PROVE  Codes!CodesNext \/ UNCHANGED Codes!codeVars
<1>1. /\ code \in Requests /\ code # 0 /\ Life[code] = "valid"
      /\ wrong[code] = attempts
  BY CodeIsRequest DEF IInv, CodeInv, RefuseGuess, Life
<1>2. attempts \in Nat /\ attempts <= MaxAttempts - 1 /\ MaxAttempts \in Nat
  BY OtpAssumption DEF IInv, TypeOK
<1>3. CASE UNCHANGED <<codeKey, wrong>>
  BY <1>3, LifeUnchanged DEF RefuseGuess, codeKey
<1>4. CASE LastAttempt /\ ForgetCode /\ wrong' = [wrong EXCEPT ![code] = @ + 1]
  <2>1. wrong[code] + 1 = MaxAttempts
    BY <1>1, <1>2, <1>4 DEF LastAttempt
  <2>2. Life' = [Life EXCEPT ![code] = "dead"]
    BY <1>1, <1>4, ForgottenIsDead DEF RefuseGuess
  <2>3. Codes!Miss(code)
    BY <1>1, <1>2, <1>4, <2>1, <2>2 DEF Codes!Miss
  <2> QED BY <1>1, <2>3 DEF Codes!CodesNext
<1>5. CASE ~LastAttempt /\ UNCHANGED code /\ wrong' = [wrong EXCEPT ![code] = @ + 1]
  <2>1. wrong[code] + 1 < MaxAttempts
    BY <1>1, <1>2, <1>5 DEF LastAttempt
  <2>2. Life' = Life
    BY <1>5 DEF Life, RefuseGuess
  <2>3. Life' = [Life EXCEPT ![code] = IF wrong[code] + 1 = MaxAttempts THEN "dead" ELSE @]
    BY <1>1, <1>2, <2>1, <2>2 DEF Life
  <2>4. Codes!Miss(code)
    BY <1>1, <1>2, <1>5, <2>1, <2>3 DEF Codes!Miss
  <2> QED BY <1>1, <2>4 DEF Codes!CodesNext
<1> QED BY <1>4, <1>5 DEF RefuseGuess

LEMMA TickExpires ==
    ASSUME IInv, Tick
    PROVE  Codes!CodesNext \/ UNCHANGED Codes!codeVars
<1>1. CASE UNCHANGED code
  BY <1>1, LifeUnchanged DEF Tick
<1>2. CASE code # 0 /\ ForgetCode
  <2>1. code \in Requests /\ Life[code] = "valid"
    BY <1>2, CodeIsRequest DEF IInv, Life
  <2>2. Life' = [Life EXCEPT ![code] = "dead"]
    BY <1>2, ForgottenIsDead DEF Tick
  <2>3. Codes!Expire(code)
    BY <2>1, <2>2 DEF Codes!Expire, Tick
  <2> QED BY <2>1, <2>3 DEF Codes!CodesNext
<1> QED BY <1>1, <1>2 DEF Tick, ForgetCode

(* The Redis keys implement the promise of a one-time code.                *)
THEOREM Refinement == Spec => RefinesOneTimeCode
<1>1. Init => Codes!CodesInit
  BY DEF Init, Codes!CodesInit, Life, Requests
<1>2. IInv /\ [Next]_vars => [Codes!CodesNext]_(Codes!codeVars)
  <2>1. SUFFICES ASSUME IInv, [Next]_vars
                 PROVE  Codes!CodesNext \/ UNCHANGED Codes!codeVars
    OBVIOUS
  <2>2. CASE UNCHANGED vars
    BY <2>2, LifeUnchanged DEF vars, codeKey
  <2>3. CASE \E n \in Requests : Aside(n)
    BY <2>3, AsideStep, LifeUnchanged DEF codeKey
  <2> QED BY <2>1, <2>2, <2>3, NextSplit, StoreIssues, AcceptAccepts, RefuseMisses, TickExpires
<1>3. IInv /\ [Next]_vars => IInv'
  <2>1. IInv /\ UNCHANGED vars => IInv'
    BY DEF IInv, TypeOK, CodeInv, vars, codeKey, sendVars
  <2> QED BY <2>1, NextSplit, TickIInv, AcceptIInv, RefuseIInv, AsideIInv, StoreIInv
<1> QED BY InitIInv, <1>1, <1>2, <1>3, PTL DEF Spec, RefinesOneTimeCode, Codes!CodesSpec

-----------------------------------------------------------------------------
(* Why requests that keep to their cooldown do not meet.  The key outlives *)
(* everyone who took it and did not fail, so whoever takes it next finds   *)
(* those before it ended, and their window over: what a failed request     *)
(* does to the key then concerns nobody else.                              *)
Covered ==
    /\ \A n \in Requests : pc[n] \in InFlight \cup {"sent"} => cooldown + age[n] >= Window
    /\ \A n \in Requests : pc[n] \in InFlight => age[n] < Window
    /\ \A n, m \in Requests :
          pc[n] \in InFlight /\ pc[m] \in InFlight \cup {"sent"} /\ m # n => age[m] >= Window

(* Requests start in order, and the one in flight is the last to start.    *)
InOrder ==
    /\ \A n, m \in Requests : pc[n] = "none" /\ n < m => pc[m] = "none"
    /\ \A n \in Requests : pc[n] = "none" => age[n] = 0

LastInFlight ==
    \A n, m \in Requests : pc[n] \in InFlight /\ pc[m] # "none" => m <= n

Spacing == InOrder /\ (prompt => Covered /\ LastInFlight) /\ LatestCodeStands

LEMMA InitSpacing == Init => Spacing
BY DEF Init, Spacing, Covered, InOrder, LastInFlight, LatestCodeStands, InFlight, Waiting,
       Untimed

(* A request that finds the key absent. *)
LEMMA AcquireSpacing ==
    ASSUME IInv, Spacing, NEW n \in Requests, AcquireSendLock(n)
    PROVE  Spacing'
<1>1. /\ cooldown = 0 /\ cooldown' = Window /\ pc[n] = "none" /\ (n > 1 => pc[n - 1] # "none")
      /\ \A m \in Requests \ {n} : pc'[m] = pc[m]
      /\ pc'[n] \in {"sms", "error"}
      /\ UNCHANGED <<age, prompt, code, stored>>
  BY DEF AcquireSendLock, KeyIsAbsent, LockTtl, Goto, IInv, TypeOK, codeKey
<1>2. /\ age \in [Requests -> 0 .. Window] /\ Window \in Nat \ {0}
      /\ "none" \notin InFlight \cup {"sent"}
      /\ "error" \notin InFlight \cup {"sent"}
  BY OtpAssumption DEF IInv, TypeOK, InFlight, Waiting, Untimed
<1>3. InOrder'
  <2>1. ASSUME NEW k \in Requests, NEW m \in Requests, pc'[k] = "none", k < m
        PROVE  pc'[m] = "none"
    <3>1. k # n /\ pc[k] = "none" /\ pc[m] = "none"
      BY <1>1, <2>1 DEF Spacing, InOrder
    <3>2. ASSUME m = n PROVE FALSE
      <4>1. n - 1 \in Requests /\ n > 1 /\ (k = n - 1 \/ k < n - 1)
        BY <2>1, <3>2, OtpAssumption DEF Requests
      <4> QED BY <1>1, <3>1, <4>1 DEF Spacing, InOrder
    <3> QED BY <1>1, <3>1, <3>2
  <2> QED BY <1>1, <2>1 DEF Spacing, InOrder
<1>4. ASSUME prompt PROVE \A m \in Requests : pc[m] \notin InFlight
  BY <1>1, <1>2, <1>4 DEF Spacing, Covered
<1>5. ASSUME prompt' PROVE Covered'
  <2>1. \A m \in Requests : pc'[m] \in InFlight => m = n /\ age[m] = 0
    BY <1>1, <1>4, <1>5 DEF Spacing, InOrder
  <2>2. \A m \in Requests \ {n} : pc'[m] \in InFlight \cup {"sent"} => age[m] >= Window
    BY <1>1, <1>2, <1>5 DEF Spacing, Covered
  <2> QED BY <1>1, <1>2, <2>1, <2>2 DEF Covered
<1>6. ASSUME prompt' PROVE LastInFlight'
  <2>1. \A m \in Requests : pc[m] # "none" => m < n
    BY <1>1 DEF Spacing, InOrder, Requests
  <2> QED BY <1>1, <1>4, <1>6, <2>1 DEF LastInFlight, Requests
<1>7. LatestCodeStands'
  BY <1>1 DEF Spacing, LatestCodeStands
<1> QED BY <1>3, <1>5, <1>6, <1>7 DEF Spacing

(* The other steps of a request in flight: it goes on, is answered with    *)
(* success, or fails, and only then does it touch the key.                 *)
LEMMA FlightSpacing ==
    ASSUME IInv, Spacing, NEW n \in Requests, pc[n] \in InFlight,
           \A m \in Requests \ {n} : pc'[m] = pc[m],
           pc'[n] \in InFlight \cup Ended,
           cooldown' \in 0 .. Window,
           cooldown' = cooldown \/ pc'[n] \in {"failed", "error"},
           UNCHANGED <<age, prompt>>
    PROVE  InOrder' /\ (prompt' => Covered' /\ LastInFlight')
<1>1. /\ "none" \notin InFlight \cup Ended
      /\ InFlight \cap {"failed", "error", "sent"} = {}
      /\ age \in [Requests -> 0 .. Window] /\ Window \in Nat /\ cooldown \in 0 .. Window
  BY OtpAssumption DEF IInv, TypeOK, InFlight, Waiting, Untimed, Ended
<1>2. InOrder'
  BY <1>1 DEF Spacing, InOrder
<1>3. ASSUME prompt PROVE \A m \in Requests \ {n} : pc[m] \notin InFlight
  BY <1>1, <1>3 DEF Spacing, Covered
<1>4. ASSUME prompt' PROVE LastInFlight'
  BY <1>1, <1>3, <1>4 DEF Spacing, LastInFlight
<1>5. ASSUME prompt' PROVE Covered'
  <2>1. \A m \in Requests \ {n} : pc'[m] \in InFlight \cup {"sent"} => age[m] >= Window
    BY <1>5 DEF Spacing, Covered
  <2>2. CASE cooldown' = cooldown
    BY <1>1, <1>3, <1>5, <2>1, <2>2 DEF Spacing, Covered
  <2>3. CASE pc'[n] \in {"failed", "error"}
    BY <1>1, <1>3, <1>5, <2>1, <2>3 DEF Covered
  <2> QED BY <2>2, <2>3
<1> QED BY <1>2, <1>4, <1>5

(* The steps of a request that store nothing, told apart by the key. *)
LEMMA AsideCooldown ==
    ASSUME IInv, NEW n \in Requests, Aside(n), ~AcquireSendLock(n)
    PROVE  /\ pc[n] \in InFlight
           /\ pc'[n] \in InFlight \cup Ended
           /\ cooldown' = cooldown \/ pc'[n] \in {"failed", "error"}
<1> USE DEF InFlight, Ended, Waiting, Untimed, Goto, IInv, TypeOK
<1>2. CASE GatewayAnswers(n)
  BY <1>2 DEF GatewayAnswers, SmsHeaders, SmsFails, WhatsAppHeaders, WhatsAppFails
<1>3. CASE SmsTimesOut(n) \/ SmsBody(n)
  BY <1>3 DEF SmsTimesOut, SmsFails, SmsBody
<1>4. CASE WhatsAppTimesOut(n) \/ WhatsAppBody(n)
  BY <1>4 DEF WhatsAppTimesOut, WhatsAppFails, WhatsAppBody
<1>5. CASE ReleaseLock(n)
  BY <1>5 DEF ReleaseLock
<1>6. CASE ShortenCooldown(n)
  BY <1>6 DEF ShortenCooldown
<1>7. CASE DeliveryThrows(n) \/ Crash(n)
  BY <1>7 DEF DeliveryThrows, Crash
<1> QED BY <1>2, <1>3, <1>4, <1>5, <1>6, <1>7 DEF Aside

LEMMA AsideSpacing ==
    ASSUME IInv, IInv', Spacing, NEW n \in Requests, Aside(n)
    PROVE  Spacing'
<1>1. CASE AcquireSendLock(n)
  BY <1>1, AcquireSpacing
<1>2. CASE ~AcquireSendLock(n)
  <2>1. PICK at \in States : Goto(n, at)
    BY AsideStep
  <2>2. \A m \in Requests \ {n} : pc'[m] = pc[m]
    BY <2>1, GotoType DEF IInv
  <2>3. cooldown' \in 0 .. Window /\ UNCHANGED <<age, prompt, code, stored>>
    BY AsideStep DEF IInv, TypeOK, codeKey
  <2>4. InOrder' /\ (prompt' => Covered' /\ LastInFlight')
    BY <1>2, <2>2, <2>3, AsideCooldown, FlightSpacing
  <2> QED BY <2>3, <2>4 DEF Spacing, LatestCodeStands
<1> QED BY <1>1, <1>2

LEMMA StoreSpacing ==
    ASSUME IInv, Spacing, NEW n \in Requests, StoreCode(n)
    PROVE  Spacing'
<1>1. /\ pc[n] = "store" /\ pc'[n] = "sent" /\ "store" \in InFlight /\ "sent" \in Ended
      /\ \A m \in Requests \ {n} : pc'[m] = pc[m]
      /\ UNCHANGED <<cooldown, age, prompt>> /\ cooldown \in 0 .. Window
  BY DEF StoreCode, Goto, IInv, TypeOK, InFlight, Waiting, Untimed, Ended
<1>2. InOrder' /\ (prompt' => Covered' /\ LastInFlight')
  BY <1>1, FlightSpacing
<1>3. CASE UNCHANGED <<codeKey, stored>>
  BY <1>1, <1>2, <1>3 DEF Spacing, LatestCodeStands, codeKey
<1>4. CASE code' = n /\ stored' = stored \cup {n}
  <2>1. \A m \in stored : m \in Requests /\ pc[m] = "sent"
    BY DEF IInv, TypeOK, CodeInv
  <2>2. prompt => \A m \in stored : m <= n
    BY <1>1, <2>1 DEF Spacing, LastInFlight
  <2>3. LatestCodeStands'
    BY <1>1, <1>4, <2>2 DEF LatestCodeStands, Requests
  <2> QED BY <1>2, <2>3 DEF Spacing
<1> QED BY <1>3, <1>4 DEF StoreCode

LEMMA GuessSpacing ==
    ASSUME Spacing, AcceptGuess \/ RefuseGuess
    PROVE  Spacing'
<1>1. UNCHANGED <<cooldown, pc, age, stored, prompt>> /\ code' \in {0, code}
  BY DEF AcceptGuess, RefuseGuess, ConsumeCode, ForgetCode, sendVars
<1> QED BY <1>1 DEF Spacing, Covered, InOrder, LastInFlight, LatestCodeStands

LEMMA TickSpacing ==
    ASSUME IInv, Spacing, Tick
    PROVE  Spacing'
<1>1. /\ UNCHANGED <<pc, stored>> /\ code' \in {0, code} /\ (prompt' => prompt)
      /\ cooldown' = Sooner(cooldown)
      /\ \A n \in Requests : age'[n] = IF pc[n] = "none" THEN 0 ELSE Older(age[n], Window)
      /\ prompt' => \A n \in Requests : pc[n] \in InFlight => age'[n] < Window
  BY DEF Tick, ForgetCode
<1>2. /\ age \in [Requests -> 0 .. Window] /\ Window \in Nat /\ cooldown \in 0 .. Window
      /\ "none" \notin InFlight \cup {"sent"}
  BY OtpAssumption DEF IInv, TypeOK, InFlight, Waiting, Untimed
<1>3. InOrder'
  BY <1>1 DEF Spacing, InOrder
<1>4. ASSUME prompt' PROVE Covered'
  BY <1>1, <1>2, <1>4 DEF Spacing, Covered, Sooner, Older
<1>5. ASSUME prompt' PROVE LastInFlight'
  BY <1>1, <1>5 DEF Spacing, LastInFlight
<1>6. LatestCodeStands'
  BY <1>1 DEF Spacing, LatestCodeStands
<1> QED BY <1>3, <1>4, <1>5, <1>6 DEF Spacing

LEMMA SpacingInvariant == Spec => [](IInv /\ Spacing)
<1>1. IInv /\ Spacing /\ [Next]_vars => (IInv /\ Spacing)'
  <2> SUFFICES ASSUME IInv, Spacing, [Next]_vars PROVE IInv' /\ Spacing'
    OBVIOUS
  <2>1. CASE UNCHANGED vars
    <3>1. IInv'
      BY <2>1 DEF IInv, TypeOK, CodeInv, vars, codeKey, sendVars
    <3>2. Spacing'
      BY <2>1 DEF Spacing, Covered, InOrder, LastInFlight, LatestCodeStands, vars, codeKey,
         sendVars
    <3> QED BY <3>1, <3>2
  <2> QED BY <2>1, NextSplit, TickIInv, AcceptIInv, RefuseIInv, AsideIInv, StoreIInv,
             TickSpacing, GuessSpacing, AsideSpacing, StoreSpacing
<1> QED BY InitIInv, InitSpacing, <1>1, PTL DEF Spec

(* While every request ends within its cooldown, the code that is stored   *)
(* is the newest, however long each delivery took.                         *)
THEOREM LatestStands == Spec => []LatestCodeStands
<1>1. Spacing => LatestCodeStands
  BY DEF Spacing
<1> QED BY <1>1, SpacingInvariant, PTL

(* And nobody gets a second message within the window of a first that was  *)
(* delivered, whichever requests failed, died, shortened or freed the key  *)
(* in between.                                                             *)
THEOREM NoEarlyResend == Spec => NoResendWithinWindow
<1>1. IInv /\ Spacing /\ [Next]_vars =>
        [\A n, m \in Requests :
            prompt /\ pc[n] = "none" /\ pc'[n] # "none" /\ pc[m] = "sent"
               => age[m] >= Window]_vars
  <2> SUFFICES ASSUME IInv, Spacing, Next, NEW n \in Requests, NEW m \in Requests,
                      prompt, pc[n] = "none", pc'[n] # "none", pc[m] = "sent"
               PROVE  age[m] >= Window
    BY DEF vars, sendVars
  <2>1. AcquireSendLock(n)
    <3>1. ~Tick /\ ~AcceptGuess /\ ~RefuseGuess
      BY DEF Tick, AcceptGuess, RefuseGuess, sendVars
    <3>2. ASSUME NEW k \in Requests, Aside(k) \/ StoreCode(k) PROVE k = n
      BY <3>2, AsideStep, GotoType DEF StoreCode, Goto, IInv, TypeOK
    <3>3. "none" \notin InFlight \cup {"store"}
      BY DEF InFlight, Waiting, Untimed
    <3>4. Aside(n)
      BY <3>1, <3>2, <3>3, NextSplit DEF StoreCode
    <3> QED BY <3>3, <3>4, AsideCooldown
  <2>2. cooldown = 0
    BY <2>1 DEF AcquireSendLock, KeyIsAbsent
  <2> QED BY <2>2, OtpAssumption DEF Spacing, Covered, IInv, TypeOK
<1> QED BY <1>1, SpacingInvariant, PTL DEF Spec, NoResendWithinWindow
=============================================================================
