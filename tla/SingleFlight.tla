----------------------------- MODULE SingleFlight -----------------------------
(***************************************************************************)
(* singleFlight of apps/api/src/lib/cache-stampede.ts: the callers of one  *)
(* cache key, spread over the API processes, and the two Redis keys they   *)
(* meet at, cache:<key> and cache:lock:<key>.                              *)
(*                                                                         *)
(* Time is counted in poll intervals.  A step of a caller takes no time of *)
(* its own; a producer takes at most ProducerTime, from winning the lock   *)
(* to the release or, for a caller that fails open, on its own.  What the  *)
(* cached value says is left to whoever calls singleFlight: an entry is    *)
(* there, is not, or does not parse.                                       *)
(***************************************************************************)
EXTENDS Integers, FiniteSets

CONSTANTS Callers,        \* concurrent calls of singleFlight with one key
          NoOne,          \* the lock key does not exist
          Orphan,         \* it holds a token no running call knows
          LockTtl,        \* lockTtlMs
          LockTimeout,    \* lockTimeoutMs
          CacheTtl,       \* ttlSec
          ProducerTime    \* the longest a producer takes

ASSUME TimingAssumption ==
    /\ NoOne \notin Callers /\ Orphan \notin Callers /\ NoOne # Orphan
    /\ LockTtl \in Nat \ {0}
    /\ LockTimeout \in Nat \ {0}
    /\ CacheTtl \in Nat \ {0}
    /\ ProducerTime \in Nat

VARIABLES cache, cacheLeft,   \* the entry, and the time until it expires
          lock, lockLeft,     \* whose token the lock key holds, and for how long
          pc,                 \* where each call is
          spent,              \* how long it has led, waited or produced
          calm                \* history: time since the last disturbance

redisVars == <<cache, cacheLeft, lock, lockLeft>>
vars == <<redisVars, pc, spent, calm>>

-----------------------------------------------------------------------------
(* The history `calm' counts up to the time after which a disturbance can  *)
(* no longer be felt: an orphaned lock has expired, whoever waited for it  *)
(* has given up, and what they then produced is done.                      *)
CalmTime == LockTtl + LockTimeout + ProducerTime

Leading(c)   == pc[c] \in {"produce", "write", "release"}
Producing    == {c \in Callers : pc[c] \in {"produce", "open"}}
MinOf(a, b)  == IF a < b THEN a ELSE b

Goto(c, at) == pc' = [pc EXCEPT ![c] = at]

(* A call goes on to a phase that is timed from its beginning. *)
Begin(c, at) ==
    /\ Goto(c, at)
    /\ spent' = [spent EXCEPT ![c] = 0]

Disturbed == calm' = 0

Init ==
    /\ cache \in {"none", "corrupt"}
    /\ cacheLeft = IF cache = "none" THEN 0 ELSE CacheTtl
    /\ lock = NoOne /\ lockLeft = 0
    /\ pc = [c \in Callers |-> "idle"]
    /\ spent = [c \in Callers |-> 0]
    /\ calm = CalmTime

-----------------------------------------------------------------------------
(* readCache.  A hit returns at once and changes nothing; a miss and an    *)
(* entry that does not parse go on to the lock; an error bypasses it.      *)
ReadCache(c) ==
    /\ pc[c] = "idle"
    /\ \/ cache # "filled" /\ Goto(c, "lock") /\ UNCHANGED <<spent, calm>>
       \/ Begin(c, "open") /\ Disturbed
    /\ UNCHANGED redisVars

AnyLock == TRUE                                                         \* mutant
Unlocked == lock = NoOne

(* tryAcquireLock: SET NX PX.  The entry is not looked at again.           *)
TryAcquireLock(c) ==
    /\ pc[c] = "lock"
    /\ \/ /\ Unlocked
          /\ lock' = c /\ lockLeft' = LockTtl
          /\ Begin(c, "produce")
       \/ /\ ~Unlocked
          /\ Begin(c, "poll")
          /\ UNCHANGED <<lock, lockLeft>>
    /\ UNCHANGED <<cache, cacheLeft, calm>>

(* The command fails, before or after Redis carried it out. *)
AcquireFails(c) ==
    /\ pc[c] = "lock"
    /\ \/ UNCHANGED <<lock, lockLeft>>
       \/ lock = NoOne /\ lock' = Orphan /\ lockLeft' = LockTtl
    /\ Begin(c, "open") /\ Disturbed
    /\ UNCHANGED <<cache, cacheLeft>>

(* The leader's producer returns a value, or throws and nothing is cached. *)
Produce(c) ==
    /\ pc[c] = "produce"
    /\ \/ Goto(c, "write") /\ UNCHANGED calm
       \/ Goto(c, "release") /\ Disturbed
    /\ UNCHANGED <<redisVars, spent>>

(* SETEX, whose failure is ignored. *)
WriteCache(c) ==
    /\ pc[c] = "write"
    /\ Goto(c, "release")
    /\ \/ cache' = "filled" /\ cacheLeft' = CacheTtl /\ UNCHANGED calm
       \/ UNCHANGED <<cache, cacheLeft>> /\ Disturbed
    /\ UNCHANGED <<lock, lockLeft, spent>>

DeleteLock(c) == lock' = NoOne /\ lockLeft' = 0                         \* mutant

(* RELEASE_LOCK_LUA deletes the key only if it still holds c's token.      *)
DeleteOwnLock(c) ==
    IF lock = c THEN lock' = NoOne /\ lockLeft' = 0 ELSE UNCHANGED <<lock, lockLeft>>

(* A token whose call has ended is nobody's: the key stays until it expires.*)
AbandonLock(c) == lock' = (IF lock = c THEN Orphan ELSE lock) /\ UNCHANGED lockLeft

ReleaseLock(c) ==
    /\ pc[c] = "release"
    /\ Goto(c, "idle")
    /\ \/ DeleteOwnLock(c) /\ UNCHANGED calm
       \/ AbandonLock(c) /\ Disturbed
    /\ UNCHANGED <<cache, cacheLeft, spent>>

(* waitForLeader, one GET: a hit is returned, a miss is slept on, and what *)
(* does not parse, or an error, makes the follower produce for itself.     *)
Poll(c) ==
    /\ pc[c] = "poll"
    /\ \/ /\ cache = "filled"
          /\ Goto(c, "idle")
          /\ UNCHANGED <<spent, calm>>
       \/ /\ cache = "none"
          /\ Goto(c, "sleep")
          /\ UNCHANGED <<spent, calm>>
       \/ Begin(c, "open") /\ Disturbed
    /\ UNCHANGED redisVars

(* The producer run without the lock: its value is returned, not cached.   *)
ProduceLocally(c) ==
    /\ pc[c] = "open"
    /\ Goto(c, "idle")
    /\ UNCHANGED <<redisVars, spent, calm>>

(* The process that runs the call dies. *)
Crash(c) ==
    /\ pc[c] # "idle"
    /\ Goto(c, "idle")
    /\ AbandonLock(c) /\ Disturbed
    /\ UNCHANGED <<cache, cacheLeft, spent>>

(* invalidatePublicEventCache and invalidatePublicOrganizerCache: DEL.     *)
Invalidate ==
    /\ cache # "none"
    /\ cache' = "none" /\ cacheLeft' = 0
    /\ Disturbed
    /\ UNCHANGED <<lock, lockLeft, pc, spent>>

-----------------------------------------------------------------------------
NeverTimesOut(c) == FALSE                                               \* mutant

(* The follower wakes at its deadline, and does not look once more.        *)
TimesOut(c) == pc[c] = "sleep" /\ spent[c] + 1 >= LockTimeout

(* A follower loses its patience, or a leader its lock. *)
Overdue == \E c \in Callers : TimesOut(c) \/ (Leading(c) /\ spent[c] + 1 >= LockTtl)

CountDown(left) == IF left > 0 THEN left - 1 ELSE 0

(* A poll interval passes.  A poll that is due and a producer that has     *)
(* used up its time come first.  A follower's time counts to its deadline. *)
Tick ==
    /\ \A c \in Callers :
          /\ pc[c] # "poll"
          /\ Leading(c) \/ pc[c] = "open" => spent[c] < ProducerTime
    /\ cacheLeft' = CountDown(cacheLeft)
    /\ cache' = IF cacheLeft' = 0 THEN "none" ELSE cache
    /\ lockLeft' = CountDown(lockLeft)
    /\ lock' = IF lockLeft' = 0 THEN NoOne ELSE lock
    /\ pc' = [c \in Callers |-> IF TimesOut(c) THEN "open"
                                ELSE IF pc[c] = "sleep" THEN "poll" ELSE pc[c]]
    /\ spent' = [c \in Callers |-> IF TimesOut(c) \/ pc[c] \in {"idle", "lock"} THEN 0
                                   ELSE IF pc[c] = "sleep" THEN MinOf(spent[c] + 1, LockTimeout)
                                   ELSE spent[c] + 1]
    /\ calm' = IF Overdue THEN 0 ELSE MinOf(calm + 1, CalmTime)

CallStep(c) ==
    \/ TryAcquireLock(c) \/ AcquireFails(c) \/ Produce(c) \/ WriteCache(c)
    \/ ReleaseLock(c) \/ Poll(c) \/ ProduceLocally(c)

Next == \/ \E c \in Callers : ReadCache(c) \/ CallStep(c) \/ Crash(c)
        \/ Invalidate
        \/ Tick

Spec == Init /\ [][Next]_vars

(* A call that can go on does, and time passes although new calls keep     *)
(* arriving: only finitely many do in one poll interval.                   *)
Fairness == SF_vars(Tick) /\ \A c \in Callers : WF_vars(CallStep(c))
FairSpec == Spec /\ Fairness

-----------------------------------------------------------------------------
Phases == {"idle", "lock", "produce", "write", "release", "poll", "sleep", "open"}

(* Keys and timers stay within what Redis and the options allow: neither   *)
(* key exists without a time to live, and no phase outlasts its limit.     *)
TypeOK ==
    /\ cache \in {"none", "corrupt", "filled"}
    /\ cacheLeft \in 0 .. CacheTtl
    /\ cache = "none" <=> cacheLeft = 0
    /\ lock \in Callers \cup {NoOne, Orphan}
    /\ lockLeft \in 0 .. LockTtl
    /\ lock = NoOne <=> lockLeft = 0
    /\ pc \in [Callers -> Phases]
    /\ spent \in [Callers -> Nat]
    /\ calm \in 0 .. CalmTime

(* No caller loses the lock to another one's release: a leader that has    *)
(* led for less than the lock's time to live still holds it, whoever else  *)
(* released, crashed, failed or outlived its own lock meanwhile.           *)
LeaderHoldsLock ==
    \A c \in Callers : Leading(c) /\ spent[c] < LockTtl => lock = c

(* What single flight is for: when no Redis failure, crash, throwing       *)
(* producer, unreadable entry or DEL fell into the last CalmTime, and no   *)
(* leader outlived its lock or the followers' patience, one producer runs  *)
(* at a time.                                                              *)
OneProducerWhenCalm ==
    calm = CalmTime => Cardinality(Producing) <= 1

(* Every call ends, whatever happens to the leader it waits for.           *)
EveryCallReturns == \A c \in Callers : pc[c] # "idle" ~> pc[c] = "idle"
=============================================================================
