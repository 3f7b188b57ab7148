---------------------------- MODULE OneTimeCode ----------------------------
(***************************************************************************)
(* What a login code promises, whatever stores it: a code becomes valid    *)
(* once, makes the one before it worthless, is accepted at most once, and  *)
(* is worthless after MaxAttempts wrong guesses or when its time is up.    *)
(***************************************************************************)
EXTENDS Naturals

CONSTANTS Codes, MaxAttempts

VARIABLES life,    \* of each code: unborn, valid, used or dead
          wrong    \* wrong guesses held against each code

codeVars == <<life, wrong>>

CodesInit ==
    /\ life = [c \in Codes |-> "unborn"]
    /\ wrong = [c \in Codes |-> 0]

Issue(c) ==
    /\ life[c] = "unborn"
    /\ life' = [d \in Codes |-> IF d = c THEN "valid"
                                ELSE IF life[d] = "valid" THEN "dead" ELSE life[d]]
    /\ UNCHANGED wrong

Accept(c) ==
    /\ life[c] = "valid"
    /\ life' = [life EXCEPT ![c] = "used"]
    /\ UNCHANGED wrong

Miss(c) ==
    /\ life[c] = "valid"
    /\ wrong[c] < MaxAttempts
    /\ wrong' = [wrong EXCEPT ![c] = @ + 1]
    /\ life' = [life EXCEPT ![c] = IF wrong[c] + 1 = MaxAttempts THEN "dead" ELSE @]

Expire(c) ==
    /\ life[c] = "valid"
    /\ life' = [life EXCEPT ![c] = "dead"]
    /\ UNCHANGED wrong

CodesNext == \E c \in Codes : Issue(c) \/ Accept(c) \/ Miss(c) \/ Expire(c)

CodesSpec == CodesInit /\ [][CodesNext]_codeVars
=============================================================================
