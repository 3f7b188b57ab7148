--------------------------- MODULE PublicPageProofs ---------------------------
(***************************************************************************)
(* Proofs about SingleFlight, for every number of callers and all timings, *)
(* and about PublicPage, which puts the public event page on top of it.    *)
(* Every behaviour of PublicPage is one of SingleFlight, so what the first *)
(* part proves holds of the page as well.                                  *)
(***************************************************************************)
EXTENDS PublicPage, FiniteSetTheorems, TLAPS

-----------------------------------------------------------------------------
(* SingleFlight *)

CacheOK ==
    /\ cache \in {"none", "corrupt", "filled"}
    /\ cacheLeft \in 0 .. CacheTtl
    /\ cache = "none" <=> cacheLeft = 0

LockOK ==
    /\ lock \in Callers \cup {NoOne, Orphan}
    /\ lockLeft \in 0 .. LockTtl
    /\ lock = NoOne <=> lockLeft = 0

CallsOK ==
    /\ pc \in [Callers -> Phases]
    /\ spent \in [Callers -> Nat]

HistoryOK == calm \in 0 .. CalmTime

(* The lease of a leader: what is left of the lock's time to live is what  *)
(* the leader has not spent.  Knowing only who holds the lock would not be *)
(* inductive: a Tick might expire the lock of a leader that is not overdue.*)
Lease ==
    \A c \in Callers :
        Leading(c) /\ spent[c] < LockTtl => lock = c /\ lockLeft = LockTtl - spent[c]

Inv == CacheOK /\ LockOK /\ CallsOK /\ HistoryOK /\ Lease

(* The timers stay in their ranges. *)
LEMMA Timers ==
    /\ CalmTime \in Nat
    /\ \A n \in Nat : CountDown(n) \in 0 .. n /\ (n > 0 => CountDown(n) = n - 1)
    /\ \A a, b \in Nat : MinOf(a + 1, b) \in 0 .. b
BY TimingAssumption DEF CalmTime, CountDown, MinOf

(* Moving one caller on, to a phase timed anew or not, keeps all well-typed.*)
LEMMA Moves ==
    ASSUME CallsOK, HistoryOK, NEW c \in Callers, NEW at \in Phases
    PROVE  /\ Goto(c, at) /\ UNCHANGED spent => CallsOK'
           /\ Begin(c, at) => CallsOK'
           /\ Disturbed => calm' \in 0 .. CalmTime
<1>1. CalmTime \in Nat
  BY Timers
<1> QED
  BY <1>1 DEF CallsOK, HistoryOK, Goto, Begin, Disturbed

(* The steps of the callers and the outside world, Tick aside, leave the   *)
(* types of both keys, of all calls and of the history intact.             *)
LEMMA StepTypes ==
    ASSUME CacheOK, LockOK, CallsOK, HistoryOK, Next, ~Tick
    PROVE  CacheOK' /\ LockOK' /\ CallsOK' /\ HistoryOK'
<1>0. /\ {"lock", "open", "produce", "poll", "write", "release", "idle", "sleep"}
             \subseteq Phases
      /\ CacheTtl \in Nat \ {0} /\ LockTtl \in Nat \ {0}
  BY TimingAssumption DEF Phases
<1>1. ASSUME NEW c \in Callers, ReadCache(c) PROVE CacheOK' /\ LockOK' /\ CallsOK' /\ HistoryOK'
  BY <1>0, <1>1, Moves DEF ReadCache, redisVars, CacheOK, LockOK, HistoryOK
<1>2. ASSUME NEW c \in Callers, TryAcquireLock(c)
      PROVE  CacheOK' /\ LockOK' /\ CallsOK' /\ HistoryOK'
  BY <1>0, <1>2, Moves, TimingAssumption DEF TryAcquireLock, Unlocked, CacheOK, LockOK, HistoryOK
<1>3. ASSUME NEW c \in Callers, AcquireFails(c)
      PROVE  CacheOK' /\ LockOK' /\ CallsOK' /\ HistoryOK'
  BY <1>0, <1>3, Moves, TimingAssumption DEF AcquireFails, CacheOK, LockOK, HistoryOK
<1>4. ASSUME NEW c \in Callers, Produce(c) PROVE CacheOK' /\ LockOK' /\ CallsOK' /\ HistoryOK'
  BY <1>0, <1>4, Moves DEF Produce, redisVars, CacheOK, LockOK, HistoryOK
<1>5. ASSUME NEW c \in Callers, WriteCache(c) PROVE CacheOK' /\ LockOK' /\ CallsOK' /\ HistoryOK'
  BY <1>0, <1>5, Moves DEF WriteCache, CacheOK, LockOK, HistoryOK
<1>6. ASSUME NEW c \in Callers, ReleaseLock(c) PROVE CacheOK' /\ LockOK' /\ CallsOK' /\ HistoryOK'
  BY <1>0, <1>6, Moves, TimingAssumption DEF ReleaseLock, DeleteOwnLock, AbandonLock,
     CacheOK, LockOK, HistoryOK
<1>7. ASSUME NEW c \in Callers, Poll(c) PROVE CacheOK' /\ LockOK' /\ CallsOK' /\ HistoryOK'
  BY <1>0, <1>7, Moves DEF Poll, redisVars, CacheOK, LockOK, HistoryOK
<1>8. ASSUME NEW c \in Callers, ProduceLocally(c)
      PROVE  CacheOK' /\ LockOK' /\ CallsOK' /\ HistoryOK'
  BY <1>0, <1>8, Moves DEF ProduceLocally, redisVars, CacheOK, LockOK, HistoryOK
<1>9. ASSUME NEW c \in Callers, Crash(c) PROVE CacheOK' /\ LockOK' /\ CallsOK' /\ HistoryOK'
  BY <1>0, <1>9, Moves, TimingAssumption DEF Crash, AbandonLock, CacheOK, LockOK, HistoryOK
<1>10. ASSUME Invalidate PROVE CacheOK' /\ LockOK' /\ CallsOK' /\ HistoryOK'
  BY <1>0, <1>10, Timers DEF Invalidate, Disturbed, CacheOK, LockOK, CallsOK, HistoryOK
<1> QED
  BY <1>1, <1>2, <1>3, <1>4, <1>5, <1>6, <1>7, <1>8, <1>9, <1>10, Zenon DEF Next, CallStep

(* So does the passing of time. *)
LEMMA TickTypes ==
    ASSUME CacheOK, LockOK, CallsOK, HistoryOK, Tick
    PROVE  CacheOK' /\ LockOK' /\ CallsOK' /\ HistoryOK'
<1>1. CacheOK'
  BY TimingAssumption DEF CacheOK, Tick, CountDown
<1>2. LockOK'
  BY TimingAssumption DEF LockOK, Tick, CountDown
<1>3. CallsOK'
  BY TimingAssumption DEF CallsOK, Tick, Phases, MinOf
<1>4. HistoryOK'
  BY Timers, TimingAssumption DEF HistoryOK, Tick
<1> QED
  BY <1>1, <1>2, <1>3, <1>4

-----------------------------------------------------------------------------
(* A step that moves one caller anywhere but into the lead, and touches    *)
(* the lock only if it is that caller's, leaves the other leases alone.    *)
LEMMA LeaseKept ==
    ASSUME Lease, CallsOK, LockOK, NEW c \in Callers, NEW at \in Phases,
           \/ Goto(c, at) /\ UNCHANGED spent /\ (at \in {"write", "release"} => Leading(c))
              /\ at # "produce"
           \/ Begin(c, at) /\ at \in {"open", "poll"},
           \/ UNCHANGED <<lock, lockLeft>>
           \/ lock = c /\ at \notin {"produce", "write", "release"}
           \/ lock = NoOne
    PROVE  Lease'
<1> SUFFICES ASSUME NEW d \in Callers, Leading(d)', spent'[d] < LockTtl
             PROVE  lock' = d /\ lockLeft' = LockTtl - spent'[d]
  BY DEF Lease
<1>1. d # c => pc'[d] = pc[d] /\ spent'[d] = spent[d]
  BY DEF Goto, Begin, CallsOK
<1>2. pc'[c] = at
  BY DEF Goto, Begin, CallsOK
<1>3. CASE d = c
  <2>1. at \in {"write", "release"} /\ UNCHANGED spent /\ Leading(c)
    BY <1>2, <1>3 DEF Leading
  <2>2. lock = c /\ lockLeft = LockTtl - spent[c]
    BY <1>3, <2>1 DEF Lease
  <2> QED
    BY <1>3, <2>1, <2>2, TimingAssumption
<1>4. CASE d # c
  <2>1. Leading(d) /\ spent[d] < LockTtl
    BY <1>1, <1>4 DEF Leading
  <2>2. lock = d /\ lockLeft = LockTtl - spent[d]
    BY <2>1 DEF Lease
  <2> QED
    BY <1>1, <1>4, <2>2, TimingAssumption
<1> QED
  BY <1>3, <1>4

(* The lease survives every step.  Winning the lock starts a fresh one;    *)
(* a release or a crash touches only the caller's own lock; a Tick takes   *)
(* as much from the lock as it adds to what the leader has spent.          *)
LEMMA LeaseStep ==
    ASSUME Inv, [Next]_vars
    PROVE  Lease'
<1> USE DEF Inv
<1>0. {"lock", "open", "produce", "poll", "write", "release", "idle", "sleep"} \subseteq Phases
  BY DEF Phases
<1>1. ASSUME NEW c \in Callers, ReadCache(c) PROVE Lease'
  BY <1>0, <1>1, LeaseKept DEF ReadCache, redisVars
<1>2. ASSUME NEW c \in Callers, TryAcquireLock(c) PROVE Lease'
  <2>1. CASE lock = NoOne /\ lock' = c /\ lockLeft' = LockTtl /\ Begin(c, "produce")
    <3> SUFFICES ASSUME NEW d \in Callers, Leading(d)', spent'[d] < LockTtl
                 PROVE  lock' = d /\ lockLeft' = LockTtl - spent'[d]
      BY DEF Lease
    <3>1. CASE d = c
      BY <2>1, <3>1, TimingAssumption DEF Begin, CallsOK
    <3>2. CASE d # c
      <4>1. Leading(d) /\ spent[d] < LockTtl
        BY <2>1, <3>2 DEF Begin, Goto, CallsOK, Leading
      <4> QED
        BY <2>1, <4>1, TimingAssumption DEF Lease
    <3> QED
      BY <3>1, <3>2
  <2>2. CASE Begin(c, "poll") /\ UNCHANGED <<lock, lockLeft>>
    BY <1>0, <2>2, LeaseKept
  <2> QED
    BY <1>2, <2>1, <2>2 DEF TryAcquireLock, Unlocked
<1>3. ASSUME NEW c \in Callers, AcquireFails(c) PROVE Lease'
  BY <1>0, <1>3, LeaseKept DEF AcquireFails
<1>4. ASSUME NEW c \in Callers, Produce(c) PROVE Lease'
  BY <1>0, <1>4, LeaseKept DEF Produce, redisVars, Leading
<1>5. ASSUME NEW c \in Callers, WriteCache(c) PROVE Lease'
  BY <1>0, <1>5, LeaseKept DEF WriteCache, Leading
<1>6. ASSUME NEW c \in Callers, ReleaseLock(c) PROVE Lease'
  BY <1>0, <1>6, LeaseKept DEF ReleaseLock, DeleteOwnLock, AbandonLock
<1>7. ASSUME NEW c \in Callers, Poll(c) PROVE Lease'
  BY <1>0, <1>7, LeaseKept DEF Poll, redisVars
<1>8. ASSUME NEW c \in Callers, ProduceLocally(c) PROVE Lease'
  BY <1>0, <1>8, LeaseKept DEF ProduceLocally, redisVars
<1>9. ASSUME NEW c \in Callers, Crash(c) PROVE Lease'
  BY <1>0, <1>9, LeaseKept DEF Crash, AbandonLock
<1>10. ASSUME Invalidate PROVE Lease'
  BY <1>10 DEF Invalidate, Lease, Leading
<1>11. ASSUME Tick PROVE Lease'
  <2> SUFFICES ASSUME NEW d \in Callers, Leading(d)', spent'[d] < LockTtl
               PROVE  lock' = d /\ lockLeft' = LockTtl - spent'[d]
    BY DEF Lease
  <2>1. Leading(d) /\ spent'[d] = spent[d] + 1 /\ spent[d] \in Nat
    BY <1>11 DEF Tick, Leading, TimesOut, CallsOK, Phases
  <2>2. lock = d /\ lockLeft = LockTtl - spent[d]
    BY <2>1, TimingAssumption DEF Lease
  <2>3. lockLeft' = LockTtl - spent'[d] /\ lockLeft' > 0
    BY <1>11, <2>1, <2>2, TimingAssumption DEF Tick, CountDown
  <2> QED
    BY <1>11, <2>2, <2>3 DEF Tick
<1>12. ASSUME UNCHANGED vars PROVE Lease'
  BY <1>12 DEF vars, redisVars, Lease, Leading
<1> QED
  BY <1>1, <1>2, <1>3, <1>4, <1>5, <1>6, <1>7, <1>8, <1>9, <1>10, <1>11, <1>12, Zenon
     DEF Next, CallStep

(* Inv holds of every reachable state. *)
LEMMA Invariance == Spec => []Inv
<1>1. Init => Inv
  BY Timers, TimingAssumption DEF Init, Inv, CacheOK, LockOK, CallsOK, HistoryOK, Lease,
     Leading, Phases
<1>2. Inv /\ [Next]_vars => Inv'
  <2> SUFFICES ASSUME Inv, [Next]_vars PROVE Inv'
    OBVIOUS
  <2>1. CASE Next
    BY <2>1, StepTypes, TickTypes, LeaseStep DEF Inv
  <2>2. CASE UNCHANGED vars
    BY <2>2, LeaseStep DEF vars, redisVars, Inv, CacheOK, LockOK, CallsOK, HistoryOK
  <2> QED
    BY <2>1, <2>2
<1> QED
  BY <1>1, <1>2, PTL DEF Spec

(* Neither Redis key exists without a time to live, and every timer and    *)
(* every call stays in its range.                                          *)
THEOREM TypeCorrect == Spec => []TypeOK
<1>1. Inv => TypeOK
  BY DEF Inv, CacheOK, LockOK, CallsOK, HistoryOK, TypeOK
<1> QED
  BY <1>1, Invariance, PTL

(* A leader loses its lock to nothing but the lock's own time to live, for *)
(* every choice of the three timeouts and every speed of the producer.     *)
THEOREM LockKept == Spec => []LeaderHoldsLock
<1>1. Inv => LeaderHoldsLock
  BY DEF Inv, Lease, LeaderHoldsLock
<1> QED
  BY <1>1, Invariance, PTL

-----------------------------------------------------------------------------
(* How long the echo of a disturbance lasts: a call that fails open began  *)
(* with one, and a leader that outlived its lock is one all the time.      *)
Echo ==
    \A c \in Callers :
        /\ Leading(c) \/ pc[c] = "open" => spent[c] <= ProducerTime
        /\ pc[c] = "open" => calm <= spent[c]
        /\ Leading(c) /\ spent[c] >= LockTtl => calm = 0

LEMMA EchoStep ==
    ASSUME Inv, Echo, [Next]_vars
    PROVE  Echo'
<1> SUFFICES ASSUME NEW d \in Callers
             PROVE  /\ Leading(d)' \/ pc'[d] = "open" => spent'[d] <= ProducerTime
                    /\ pc'[d] = "open" => calm' <= spent'[d]
                    /\ Leading(d)' /\ spent'[d] >= LockTtl => calm' = 0
  BY DEF Echo, Leading
<1> DEFINE Goal == /\ Leading(d)' \/ pc'[d] = "open" => spent'[d] <= ProducerTime
                   /\ pc'[d] = "open" => calm' <= spent'[d]
                   /\ Leading(d)' /\ spent'[d] >= LockTtl => calm' = 0
<1>0. /\ Leading(d) \/ pc[d] = "open" => spent[d] <= ProducerTime
      /\ pc[d] = "open" => calm <= spent[d]
      /\ Leading(d) /\ spent[d] >= LockTtl => calm = 0
      /\ pc \in [Callers -> Phases] /\ spent \in [Callers -> Nat] /\ calm \in Nat
      /\ LockTtl \in Nat \ {0} /\ LockTimeout \in Nat \ {0} /\ ProducerTime \in Nat
  BY Timers, TimingAssumption DEF Echo, Inv, CallsOK, HistoryOK
<1> USE DEF Leading, Goto, Begin, Disturbed
<1>1. ASSUME NEW c \in Callers, ReadCache(c) PROVE Goal
  BY <1>0, <1>1 DEF ReadCache
<1>2. ASSUME NEW c \in Callers, TryAcquireLock(c) PROVE Goal
  BY <1>0, <1>2 DEF TryAcquireLock
<1>3. ASSUME NEW c \in Callers, AcquireFails(c) PROVE Goal
  BY <1>0, <1>3 DEF AcquireFails
<1>4. ASSUME NEW c \in Callers, Produce(c) PROVE Goal
  BY <1>0, <1>4 DEF Produce
<1>5. ASSUME NEW c \in Callers, WriteCache(c) PROVE Goal
  BY <1>0, <1>5 DEF WriteCache
<1>6. ASSUME NEW c \in Callers, ReleaseLock(c) PROVE Goal
  BY <1>0, <1>6 DEF ReleaseLock
<1>7. ASSUME NEW c \in Callers, Poll(c) PROVE Goal
  BY <1>0, <1>7 DEF Poll
<1>8. ASSUME NEW c \in Callers, ProduceLocally(c) PROVE Goal
  BY <1>0, <1>8 DEF ProduceLocally
<1>9. ASSUME NEW c \in Callers, Crash(c) PROVE Goal
  BY <1>0, <1>9 DEF Crash
<1>10. ASSUME Invalidate PROVE Goal
  BY <1>0, <1>10 DEF Invalidate
<1>11. ASSUME Tick PROVE Goal
  <2>1. CASE TimesOut(d)
    <3>1. pc'[d] = "open" /\ spent'[d] = 0 /\ Overdue
      BY <1>11, <2>1 DEF Tick, Overdue
    <3> QED
      BY <1>0, <1>11, <3>1 DEF Tick
  <2>2. CASE ~TimesOut(d)
    <3>1. pc'[d] = IF pc[d] = "sleep" THEN "poll" ELSE pc[d]
      BY <1>11, <2>2 DEF Tick
    <3>2. Leading(d) \/ pc[d] = "open" => spent'[d] = spent[d] + 1 /\ spent[d] < ProducerTime
      <4>1. /\ Leading(d) \/ pc[d] = "open" => spent[d] < ProducerTime
            /\ spent'[d] = IF TimesOut(d) \/ pc[d] \in {"idle", "lock"} THEN 0
                           ELSE IF pc[d] = "sleep" THEN MinOf(spent[d] + 1, LockTimeout)
                           ELSE spent[d] + 1
        BY <1>11 DEF Tick
      <4> QED
        BY <2>2, <4>1
    <3>3. calm' \in Nat /\ calm' <= calm + 1
      <4>1. calm' \in {0, MinOf(calm + 1, CalmTime)} /\ calm + 1 \in Nat /\ CalmTime \in Nat
        BY <1>0, <1>11, Timers DEF Tick
      <4> QED
        BY <1>0, <4>1 DEF MinOf
    <3>4. Leading(d) /\ spent[d] + 1 >= LockTtl => calm' = 0
      BY <1>11 DEF Tick, Overdue
    <3> QED
      BY <1>0, <3>1, <3>2, <3>3, <3>4
  <2> QED
    BY <2>1, <2>2
<1>12. ASSUME UNCHANGED vars PROVE Goal
  BY <1>0, <1>12 DEF vars
<1> QED
  BY <1>1, <1>2, <1>3, <1>4, <1>5, <1>6, <1>7, <1>8, <1>9, <1>10, <1>11, <1>12, Zenon
     DEF Next, CallStep

(* Once the last disturbance is CalmTime ago one producer runs at a time,  *)
(* for any number of callers: nobody fails open any more, no leader has    *)
(* outlived its lock, and there is only one lock.                          *)
THEOREM OneProducer == Spec => []OneProducerWhenCalm
<1>1. Init => Echo
  BY DEF Init, Echo, Leading
<1>2. Inv /\ Echo => OneProducerWhenCalm
  <2> SUFFICES ASSUME Inv, Echo, calm = CalmTime PROVE Cardinality(Producing) <= 1
    BY DEF OneProducerWhenCalm
  <2>1. ASSUME NEW c \in Producing PROVE lock = c
    <3>1. c \in Callers /\ pc[c] \in {"produce", "open"} /\ spent[c] \in Nat
      BY DEF Producing, Inv, CallsOK
    <3>2. pc[c] = "produce"
      BY <3>1, TimingAssumption DEF Echo, CalmTime
    <3>3. spent[c] < LockTtl
      BY <3>1, <3>2, TimingAssumption DEF Echo, CalmTime, Leading
    <3> QED
      BY <3>1, <3>2, <3>3 DEF Inv, Lease, Leading
  <2>2. Producing \subseteq {lock}
    BY <2>1
  <2>3. IsFiniteSet({lock}) /\ Cardinality({lock}) = 1
    BY FS_Singleton
  <2> QED
    BY <2>2, <2>3, FS_Subset, FS_CardinalityType
<1> QED
  BY <1>1, <1>2, Invariance, EchoStep, PTL DEF Spec

-----------------------------------------------------------------------------
(* PublicPage *)

(* The page does to Redis what singleFlight does, and nothing else: every  *)
(* behaviour of PublicPage is one of SingleFlight.                         *)
THEOREM UsesSingleFlight == PageSpec => Spec
<1>1. PageInit => Init
  BY DEF PageInit
<1>2. [PageNext]_allVars => [Next]_vars
  <2> SUFFICES ASSUME [PageNext]_allVars PROVE [Next]_vars
    OBVIOUS
  <2> USE DEF flightVars, vars
  <2>1. ASSUME NEW c \in Callers, PageLookUp(c) PROVE Next
    BY <2>1 DEF PageLookUp, Next, CallStep
  <2>2. ASSUME NEW c \in Callers, Hit(c) PROVE UNCHANGED vars
    BY <2>2 DEF Hit
  <2>3. ASSUME NEW c \in Callers, PageCall(c) PROVE [Next]_vars
    BY <2>3 DEF PageCall, PagePoll, PageProduce, PageWrite, PageRelease, Respond, Next, CallStep
  <2>4. ASSUME NEW c \in Callers, PageCrash(c) PROVE Next
    BY <2>4 DEF PageCrash, Next
  <2>5. ASSUME Commit \/ DeleteFails PROVE UNCHANGED vars
    BY <2>5 DEF Commit, DeleteFails
  <2>6. ASSUME DeleteEntry PROVE [Next]_vars
    BY <2>6 DEF DeleteEntry, DropEntry, Next
  <2>7. ASSUME NEW v \in Commits, Purge(v) PROVE UNCHANGED vars
    BY <2>7 DEF Purge
  <2>8. ASSUME PageTick PROVE Next
    BY <2>8 DEF PageTick, Next
  <2>9. ASSUME UNCHANGED allVars PROVE UNCHANGED vars
    BY <2>9 DEF allVars
  <2> QED
    BY <2>1, <2>2, <2>3, <2>4, <2>5, <2>6, <2>7, <2>8, <2>9, Zenon DEF PageNext
<1> QED
  BY <1>1, <1>2, PTL DEF PageSpec, Spec

-----------------------------------------------------------------------------
Old(v) == v \notin {NoVersion, version}

(* What a call holds and the entry says are versions.  Who is about to     *)
(* cache a row has read one, and who waits for another has none.           *)
GotOK ==
    /\ version \in Nat
    /\ value \in Nat \cup {NoVersion}
    /\ got \in [Callers -> Nat \cup {NoVersion}]

Holding ==
    \A c \in Callers :
        /\ pc[c] \in {"produce", "write"} => got[c] # NoVersion
        /\ pc[c] \in {"lock", "poll", "sleep"} => got[c] = NoVersion

(* Why a cache that is up to date stays so: no leader will put an older    *)
(* row into the entry, and no request will show the CDN one.               *)
Clean ==
    /\ "origin" \in clean => /\ \A c \in Callers : ~MayRefill(c)
                             /\ cache = "filled" => value = version
    /\ "edge" \in clean => /\ "origin" \in clean
                           /\ \A c \in Callers : ~Overtaken(c)
                           /\ edge \in {NoVersion, version}

PageInv == GotOK /\ Holding /\ Clean

(* What a call read stays well-typed. *)
LEMMA GotStep ==
    ASSUME GotOK, [PageNext]_allVars
    PROVE  GotOK'
<1> USE DEF GotOK
<1>1. ASSUME NEW c \in Callers, PageLookUp(c) PROVE GotOK'
  BY <1>1 DEF PageLookUp, ReadRow
<1>2. ASSUME NEW c \in Callers, Hit(c) PROVE GotOK'
  BY <1>2 DEF Hit
<1>3. ASSUME NEW c \in Callers, PagePoll(c) PROVE GotOK'
  BY <1>3 DEF PagePoll, ReadRow
<1>4. ASSUME NEW c \in Callers, PageProduce(c) \/ Respond(c) PROVE GotOK'
  BY <1>4 DEF PageProduce, Respond
<1>5. ASSUME NEW c \in Callers, PageWrite(c) \/ PageRelease(c) PROVE GotOK'
  BY <1>5 DEF PageWrite, PageRelease, pageVars
<1>6. ASSUME NEW c \in Callers, PageCrash(c) PROVE GotOK'
  BY <1>6 DEF PageCrash
<1>7. ASSUME Commit \/ DeleteFails PROVE GotOK'
  BY <1>7 DEF Commit, DeleteFails
<1>8. ASSUME DeleteEntry PROVE GotOK'
  BY <1>8 DEF DeleteEntry, DropEntry
<1>9. ASSUME NEW v \in Commits, Purge(v) PROVE GotOK'
  BY <1>9 DEF Purge
<1>10. ASSUME PageTick PROVE GotOK'
  BY <1>10 DEF PageTick
<1>11. ASSUME UNCHANGED allVars PROVE GotOK'
  BY <1>11 DEF allVars, pageVars
<1> QED
  BY <1>1, <1>2, <1>3, <1>4, <1>5, <1>6, <1>7, <1>8, <1>9, <1>10, <1>11, Zenon
     DEF PageNext, PageCall

LEMMA HoldingStep ==
    ASSUME CallsOK, GotOK, Holding, [PageNext]_allVars
    PROVE  Holding'
<1> SUFFICES ASSUME NEW d \in Callers
             PROVE  /\ pc'[d] \in {"produce", "write"} => got'[d] # NoVersion
                    /\ pc'[d] \in {"lock", "poll", "sleep"} => got'[d] = NoVersion
  BY DEF Holding
<1> DEFINE Goal == /\ pc'[d] \in {"produce", "write"} => got'[d] # NoVersion
                   /\ pc'[d] \in {"lock", "poll", "sleep"} => got'[d] = NoVersion
<1>0. /\ pc[d] \in {"produce", "write"} => got[d] # NoVersion
      /\ pc[d] \in {"lock", "poll", "sleep"} => got[d] = NoVersion
  BY DEF Holding
<1> USE DEF GotOK, CallsOK, NoVersion
<1>1. ASSUME NEW c \in Callers, PageLookUp(c) PROVE Goal
  BY <1>0, <1>1 DEF PageLookUp, Rendering, ReadRow, ReadCache, TryAcquireLock, AcquireFails,
     Begin, Goto
<1>2. ASSUME NEW c \in Callers, Hit(c) PROVE Goal
  BY <1>0, <1>2 DEF Hit, flightVars
<1>3. ASSUME NEW c \in Callers, PagePoll(c) PROVE Goal
  BY <1>0, <1>3 DEF PagePoll, ReadRow, Poll, Begin, Goto
<1>4. ASSUME NEW c \in Callers, PageProduce(c) PROVE Goal
  BY <1>0, <1>4 DEF PageProduce, Produce, Goto
<1>5. ASSUME NEW c \in Callers, PageWrite(c) PROVE Goal
  BY <1>0, <1>5 DEF PageWrite, WriteCache, Goto
<1>6. ASSUME NEW c \in Callers, PageRelease(c) PROVE Goal
  BY <1>0, <1>6 DEF PageRelease, pageVars, ReleaseLock, ProduceLocally, Goto
<1>7. ASSUME NEW c \in Callers, PageCrash(c) PROVE Goal
  BY <1>0, <1>7 DEF PageCrash, Crash, Goto
<1>8. ASSUME NEW c \in Callers, Respond(c) PROVE Goal
  BY <1>0, <1>8 DEF Respond, Rendering, flightVars
<1>9. ASSUME Commit \/ DeleteFails \/ DeleteEntry PROVE Goal
  BY <1>0, <1>9 DEF Commit, DeleteFails, DeleteEntry, DropEntry, Invalidate, flightVars
<1>10. ASSUME NEW v \in Commits, Purge(v) PROVE Goal
  BY <1>0, <1>10 DEF Purge, flightVars
<1>11. ASSUME PageTick PROVE Goal
  BY <1>0, <1>11 DEF PageTick, Tick, TimesOut
<1>12. ASSUME UNCHANGED allVars PROVE Goal
  BY <1>0, <1>12 DEF allVars, pageVars, flightVars
<1> QED
  BY <1>1, <1>2, <1>3, <1>4, <1>5, <1>6, <1>7, <1>8, <1>9, <1>10, <1>11, <1>12, Zenon
     DEF PageNext, PageCall

(* How long ago a request may have last seen the database, by what it is   *)
(* doing: for as long as it has produced, or it renders an entry that was  *)
(* written by a producer.                                                  *)
SeenBefore(c) ==
    IF pc[c] = "idle" THEN ProducerTime + CacheTtl + rendering[c] ELSE spent[c]

(* A step that neither commits nor takes time lets a request hold an older *)
(* row only if it did, or found one in the entry.                          *)
LEMMA CallMoves ==
    ASSUME CallsOK, GotOK, Holding, [PageNext]_allVars, ~Commit, ~PageTick, NEW d \in Callers
    PROVE  /\ MayRefill(d)' => MayRefill(d)
           /\ Overtaken(d)' => \/ Overtaken(d) /\ SeenBefore(d)' = SeenBefore(d)
                               \/ Overtaken(d) /\ pc[d] # "idle" /\ pc'[d] = "idle"
                               \/ cache = "filled" /\ Old(value) /\ pc'[d] = "idle"
<1> DEFINE Goal ==
             /\ MayRefill(d)' => MayRefill(d)
             /\ Overtaken(d)' => \/ Overtaken(d) /\ SeenBefore(d)' = SeenBefore(d)
                                 \/ Overtaken(d) /\ pc[d] # "idle" /\ pc'[d] = "idle"
                                 \/ cache = "filled" /\ Old(value) /\ pc'[d] = "idle"
<1>0. pc[d] \in {"lock", "poll", "sleep"} => got[d] = NoVersion
  BY DEF Holding
<1> USE DEF GotOK, CallsOK, MayRefill, Overtaken, SeenBefore, Old
<1>1. ASSUME NEW c \in Callers, PageLookUp(c) PROVE Goal
  BY <1>0, <1>1 DEF PageLookUp, Rendering, ReadRow, ReadCache, TryAcquireLock, AcquireFails,
     Begin, Goto
<1>2. ASSUME NEW c \in Callers, Hit(c) PROVE Goal
  BY <1>0, <1>2 DEF Hit, flightVars
<1>3. ASSUME NEW c \in Callers, PagePoll(c) PROVE Goal
  BY <1>0, <1>3 DEF PagePoll, ReadRow, Poll, Begin, Goto
<1>4. ASSUME NEW c \in Callers, PageProduce(c) PROVE Goal
  BY <1>0, <1>4 DEF PageProduce, Produce, Goto
<1>5. ASSUME NEW c \in Callers, PageWrite(c) PROVE Goal
  BY <1>0, <1>5 DEF PageWrite, WriteCache, Goto
<1>6. ASSUME NEW c \in Callers, PageRelease(c) PROVE Goal
  BY <1>0, <1>6 DEF PageRelease, pageVars, ReleaseLock, ProduceLocally, Goto
<1>7. ASSUME NEW c \in Callers, PageCrash(c) PROVE Goal
  BY <1>0, <1>7 DEF PageCrash, Crash, Goto
<1>8. ASSUME NEW c \in Callers, Respond(c) PROVE Goal
  BY <1>0, <1>8 DEF Respond, flightVars
<1>9. ASSUME DeleteFails \/ DeleteEntry PROVE Goal
  BY <1>0, <1>9 DEF DeleteFails, DeleteEntry, DropEntry, Invalidate, flightVars
<1>10. ASSUME NEW v \in Commits, Purge(v) PROVE Goal
  BY <1>0, <1>10 DEF Purge, flightVars
<1>11. ASSUME UNCHANGED allVars PROVE Goal
  BY <1>0, <1>11 DEF allVars, pageVars, flightVars
<1> QED
  BY <1>1, <1>2, <1>3, <1>4, <1>5, <1>6, <1>7, <1>8, <1>9, <1>10, <1>11, Zenon
     DEF PageNext, PageCall

(* Nor does the passing of time: who then starts to produce reads the row. *)
LEMMA CallsWait ==
    ASSUME CallsOK, Holding, PageTick, NEW d \in Callers, Overtaken(d)'
    PROVE  /\ Overtaken(d) /\ (MayRefill(d)' => MayRefill(d))
           /\ rendering[d] \in Nat => SeenBefore(d)' = SeenBefore(d) + 1
<1>1. /\ got'[d] = IF TimesOut(d) THEN version ELSE got[d]
      /\ pc'[d] = IF TimesOut(d) THEN "open" ELSE IF pc[d] = "sleep" THEN "poll" ELSE pc[d]
      /\ spent'[d] = IF TimesOut(d) \/ pc[d] \in {"idle", "lock"} THEN 0
                     ELSE IF pc[d] = "sleep" THEN MinOf(spent[d] + 1, LockTimeout)
                     ELSE spent[d] + 1
      /\ rendering'[d] = IF Rendering(d) THEN rendering[d] + 1 ELSE 0
      /\ version' = version
  BY DEF PageTick, Tick
<1>2. ~TimesOut(d) /\ Overtaken(d)
  BY <1>1 DEF Overtaken
<1>3. pc[d] \notin {"lock", "poll", "sleep"}
  BY <1>2 DEF Holding, Overtaken
<1>4. pc'[d] = pc[d] /\ got'[d] = got[d]
  BY <1>1, <1>2, <1>3
<1>5. CASE pc[d] = "idle"
  <2>1. Rendering(d)
    BY <1>2, <1>5 DEF Rendering, Overtaken
  <2> QED
    BY <1>1, <1>2, <1>4, <1>5, <2>1, TimingAssumption DEF SeenBefore, MayRefill
<1>6. CASE pc[d] # "idle"
  BY <1>1, <1>2, <1>3, <1>4, <1>6 DEF SeenBefore, MayRefill
<1> QED
  BY <1>5, <1>6

(* The entry is as before, gone, or what a leader held; the CDN has what   *)
(* it had, nothing, or what a request rendered.                            *)
LEMMA CacheMoves ==
    ASSUME CallsOK, [PageNext]_allVars, ~Commit, ~PageTick
    PROVE  /\ \/ cache' # "filled"
              \/ cache' = cache /\ value' = value /\ cacheLeft' = cacheLeft
              \/ /\ cacheLeft' = CacheTtl
                 /\ \E c \in Callers : pc[c] = "write" /\ value' = got[c]
           /\ \/ edge' = edge /\ edgeLeft' = edgeLeft
              \/ edge' = NoVersion /\ edgeLeft' = 0
              \/ /\ edgeLeft' = EdgeTtl
                 /\ \E c \in Callers : Rendering(c) /\ edge' = got[c]
<1> DEFINE Entry == \/ cache' # "filled"
                    \/ cache' = cache /\ value' = value /\ cacheLeft' = cacheLeft
                    \/ /\ cacheLeft' = CacheTtl
                       /\ \E c \in Callers : pc[c] = "write" /\ value' = got[c]
           Edge  == \/ edge' = edge /\ edgeLeft' = edgeLeft
                    \/ edge' = NoVersion /\ edgeLeft' = 0
                    \/ /\ edgeLeft' = EdgeTtl
                       /\ \E c \in Callers : Rendering(c) /\ edge' = got[c]
<1>1. ASSUME NEW c \in Callers, PageLookUp(c) PROVE Entry /\ Edge
  BY <1>1 DEF PageLookUp, ReadCache, TryAcquireLock, AcquireFails, redisVars, cdnVars
<1>2. ASSUME NEW c \in Callers, Hit(c) PROVE Entry /\ Edge
  BY <1>2 DEF Hit, flightVars, redisVars, cdnVars
<1>3. ASSUME NEW c \in Callers, PagePoll(c) PROVE Entry /\ Edge
  BY <1>3 DEF PagePoll, Poll, redisVars, cdnVars
<1>4. ASSUME NEW c \in Callers, PageProduce(c) PROVE Entry /\ Edge
  BY <1>4 DEF PageProduce, Produce, redisVars, cdnVars
<1>5. ASSUME NEW c \in Callers, PageWrite(c) PROVE Entry /\ Edge
  BY <1>5 DEF PageWrite, WriteCache, cdnVars
<1>6. ASSUME NEW c \in Callers, PageRelease(c) PROVE Entry /\ Edge
  BY <1>6 DEF PageRelease, ReleaseLock, ProduceLocally, redisVars, pageVars, cdnVars
<1>7. ASSUME NEW c \in Callers, PageCrash(c) PROVE Entry /\ Edge
  BY <1>7 DEF PageCrash, Crash, cdnVars
<1>8. ASSUME NEW c \in Callers, Respond(c) PROVE Entry /\ Edge
  BY <1>8 DEF Respond, flightVars, redisVars
<1>9. ASSUME DeleteFails \/ DeleteEntry PROVE Entry /\ Edge
  BY <1>9 DEF DeleteFails, DeleteEntry, DropEntry, Invalidate, flightVars, redisVars, cdnVars
<1>10. ASSUME NEW v \in Commits, Purge(v) PROVE Entry /\ Edge
  BY <1>10 DEF Purge, ForgetEdge, flightVars, redisVars
<1>11. ASSUME UNCHANGED allVars PROVE Entry /\ Edge
  BY <1>11 DEF allVars, pageVars, flightVars, redisVars, cdnVars
<1> QED
  BY <1>1, <1>2, <1>3, <1>4, <1>5, <1>6, <1>7, <1>8, <1>9, <1>10, <1>11, Zenon
     DEF PageNext, PageCall

(* Only a commit changes what the database says, and only a DEL or a purge *)
(* that is carried out counts a cache as clean.                            *)
LEMMA Standing ==
    ASSUME [PageNext]_allVars, ~Commit
    PROVE  /\ version' = version
           /\ PageTick \/ age' = age
           /\ DeleteEntry \/ (\E v \in Commits : Purge(v)) \/ clean' = clean
BY DEF PageNext, allVars, pageVars, PageLookUp, Hit, PageCall, PagePoll, PageProduce, PageWrite,
       PageRelease, Respond, PageCrash, DeleteEntry, DeleteFails, Purge, PageTick

(* The entry is written only with a row its leader holds, and the CDN is   *)
(* given only what a request shows, both of them current as long as the    *)
(* cache counts as clean.                                                  *)
LEMMA CleanStep ==
    ASSUME CallsOK, PageInv, [PageNext]_allVars
    PROVE  Clean'
<1> USE DEF PageInv
<1>1. CASE Commit
  BY <1>1 DEF Commit, Clean
<1>2. CASE PageTick
  <2>1. version' = version /\ clean' = clean /\ edge' \in {edge, NoVersion}
        /\ (cache' = "filled" => cache = "filled" /\ value' = value)
    BY <1>2 DEF PageTick, Tick
  <2>2. \A c \in Callers : /\ MayRefill(c)' => MayRefill(c)
                           /\ Overtaken(c)' => Overtaken(c)
    BY <1>2, CallsWait DEF MayRefill
  <2> QED
    BY <2>1, <2>2 DEF Clean
<1>3. CASE ~Commit /\ ~PageTick
  <2>1. \A c \in Callers : /\ MayRefill(c)' => MayRefill(c)
                           /\ Overtaken(c)' => Overtaken(c) \/ (cache = "filled" /\ Old(value))
    BY <1>3, CallMoves
  <2>2. version' = version
    BY <1>3, Standing
  <2>3. ASSUME "origin" \in clean, cache' = "filled" PROVE value' = version
    <3>1. \A c \in Callers : pc[c] = "write" => got[c] = version
      BY <2>3 DEF Clean, Holding, MayRefill, Overtaken
    <3> QED
      BY <1>3, <2>3, <3>1, CacheMoves DEF Clean
  <2>4. ASSUME "edge" \in clean PROVE edge' \in {NoVersion, version}
    <3>1. \A c \in Callers : Rendering(c) => got[c] = version
      BY <2>4 DEF Clean, Rendering, Overtaken
    <3> QED
      BY <1>3, <2>4, <3>1, CacheMoves DEF Clean
  <2>5. "edge" \in clean => \A c \in Callers : ~Overtaken(c)'
    BY <2>1 DEF Clean, Old
  <2>6. "origin" \in clean => \A c \in Callers : ~MayRefill(c)'
    BY <2>1 DEF Clean
  <2>7. CASE clean' = clean
    BY <2>2, <2>3, <2>4, <2>5, <2>6, <2>7 DEF Clean
  <2>8. CASE DeleteEntry
    <3>1. cache' # "filled"
      BY <2>8 DEF DeleteEntry, DropEntry, Invalidate, flightVars, redisVars
    <3>2. \/ clean' = clean
          \/ clean' = clean \cup {"origin"} /\ \A c \in Callers : ~MayRefill(c)
      BY <2>8 DEF DeleteEntry
    <3> QED
      BY <2>1, <2>2, <2>4, <2>5, <2>6, <3>1, <3>2 DEF Clean
  <2>9. CASE \E v \in Commits : Purge(v)
    <3>1. \/ clean' = clean
          \/ /\ clean' = clean \cup {"edge"} /\ "origin" \in clean
             /\ edge' = NoVersion
             /\ \A c \in Callers : ~Overtaken(c)
      BY <2>9 DEF Purge, ForgetEdge
    <3>2. \A c \in Callers : Overtaken(c)' = Overtaken(c)
      BY <2>9 DEF Purge, Overtaken
    <3> QED
      BY <2>2, <2>3, <2>4, <2>5, <2>6, <3>1, <3>2 DEF Clean
  <2> QED
    BY <1>3, <2>7, <2>8, <2>9, Standing
<1> QED
  BY <1>1, <1>2, <1>3

(* However producers, failures and commits interleave, a cache that was    *)
(* invalidated while nobody held an older row, to cache it or to show it,  *)
(* follows the database until the next commit.                             *)
THEOREM InvalidationWorks == PageSpec => []FreshOnceInvalidated
<1>1. PageInit => PageInv
  BY DEF PageInit, PageInv, GotOK, Holding, Clean, Init, MayRefill, Overtaken, NoVersion
<1>2. Inv /\ PageInv /\ [PageNext]_allVars => PageInv'
  BY GotStep, HoldingStep, CleanStep DEF PageInv, Inv
<1>3. PageInv => FreshOnceInvalidated
  BY DEF PageInv, Clean, FreshOnceInvalidated
<1> QED
  BY <1>1, <1>2, <1>3, UsesSingleFlight, Invariance, PTL DEF PageSpec

(* The lease of a leader holds where single flight is used. *)
THEOREM PageLeadersHoldLock == PageSpec => []LeaderHoldsLock
BY UsesSingleFlight, LockKept, PTL

(* And so does the promise of single flight. *)
THEOREM PageOneProducer == PageSpec => []OneProducerWhenCalm
BY UsesSingleFlight, OneProducer, PTL

-----------------------------------------------------------------------------
(* The columns of the page, and its two caches: the entry is filled when   *)
(* it says something, and no more deletions are on their way than commits. *)
PageTyped ==
    /\ version \in Versions
    /\ value \in Versions \cup {NoVersion}
    /\ cache = "filled" <=> value # NoVersion
    /\ got \in [Callers -> Versions \cup {NoVersion}]
    /\ rendering \in [Callers -> 0 .. RenderTime]
    /\ edge \in Versions \cup {NoVersion}
    /\ deletes \in 0 .. version
    /\ purges \in [Commits -> 0 .. Attempts]
    /\ clean \subseteq {"origin", "edge"}

LEMMA TypedStep ==
    ASSUME CacheOK, CallsOK, Holding, PageTyped, [PageNext]_allVars
    PROVE  PageTyped'
<1>0. MaxVersion \in Nat /\ Attempts \in Nat \ {0} /\ RenderTime \in Nat /\ NoVersion \notin Versions
  BY PageAssumption DEF Versions, NoVersion
<1> USE <1>0 DEF PageTyped, CallsOK, Versions
<1>1. ASSUME NEW c \in Callers, PageLookUp(c) PROVE PageTyped'
  BY <1>1 DEF PageLookUp, ReadRow, ReadCache, TryAcquireLock, AcquireFails, redisVars, cdnVars
<1>2. ASSUME NEW c \in Callers, Hit(c) PROVE PageTyped'
  BY <1>2 DEF Hit, flightVars, redisVars, cdnVars
<1>3. ASSUME NEW c \in Callers, PagePoll(c) PROVE PageTyped'
  BY <1>3 DEF PagePoll, Poll, ReadRow, redisVars, cdnVars
<1>4. ASSUME NEW c \in Callers, PageProduce(c) PROVE PageTyped'
  BY <1>4 DEF PageProduce, Produce, redisVars, cdnVars
<1>5. ASSUME NEW c \in Callers, PageWrite(c) PROVE PageTyped'
  BY <1>5 DEF PageWrite, WriteCache, Holding, cdnVars
<1>6. ASSUME NEW c \in Callers, PageRelease(c) PROVE PageTyped'
  BY <1>6 DEF PageRelease, ReleaseLock, ProduceLocally, redisVars, pageVars, cdnVars
<1>7. ASSUME NEW c \in Callers, PageCrash(c) PROVE PageTyped'
  BY <1>7 DEF PageCrash, Crash, cdnVars
<1>8. ASSUME Commit PROVE PageTyped'
  <2>1. version + 1 \in Commits
    BY <1>8 DEF Commit, Commits
  <2> QED
    BY <1>8, <2>1 DEF Commit, EnqueuePurge, flightVars, redisVars
<1>9. ASSUME DeleteEntry PROVE PageTyped'
  BY <1>9 DEF DeleteEntry, DropEntry, Invalidate, flightVars, redisVars, cdnVars
<1>10. ASSUME DeleteFails PROVE PageTyped'
  BY <1>10 DEF DeleteFails, flightVars, redisVars, cdnVars
<1>11. ASSUME NEW v \in Commits, Purge(v) PROVE PageTyped'
  <2>1. purges' \in [Commits -> 0 .. Attempts]
    BY <1>11 DEF Purge
  <2>2. edge' \in Versions \cup {NoVersion} /\ clean' \subseteq {"origin", "edge"}
    BY <1>11 DEF Purge, ForgetEdge
  <2> QED
    BY <1>11, <2>1, <2>2 DEF Purge, flightVars, redisVars
<1>12. ASSUME PageTick PROVE PageTyped'
  <2>1. cache' \in {"none", cache} /\ value' \in {value, NoVersion}
        /\ (cache' = "filled" <=> value' # NoVersion)
    BY <1>12 DEF PageTick, Tick
  <2>2. got' \in [Callers -> Versions \cup {NoVersion}] /\ edge' \in {edge, NoVersion}
    BY <1>12 DEF PageTick
  <2>3. rendering' \in [Callers -> 0 .. RenderTime]
    BY <1>12 DEF PageTick
  <2> QED
    BY <1>12, <2>1, <2>2, <2>3 DEF PageTick
<1>13. ASSUME NEW c \in Callers, Respond(c) PROVE PageTyped'
  BY <1>13 DEF Respond, flightVars, redisVars
<1>14. ASSUME UNCHANGED allVars PROVE PageTyped'
  BY <1>14 DEF allVars, pageVars, flightVars, redisVars, cdnVars
<1> QED
  BY <1>1, <1>2, <1>3, <1>4, <1>5, <1>6, <1>7, <1>8, <1>9, <1>10, <1>11, <1>12, <1>13, <1>14,
     Zenon DEF PageNext, PageCall

(* How old a version can be where it is found: a call that produces has    *)
(* done so since before the commit, the entry was written by such a call,  *)
(* a request renders one or the other, and the CDN keeps what was rendered.*)
StaleInv ==
    /\ age \in 0 .. MaxStale
    /\ \A c \in Callers : Overtaken(c) => age <= SeenBefore(c)
    /\ cache = "filled" /\ Old(value) => age + cacheLeft <= ProducerTime + CacheTtl
    /\ Old(edge) => age + edgeLeft <= MaxStale
    /\ edgeLeft \in 0 .. EdgeTtl /\ (edge = NoVersion <=> edgeLeft = 0)

LEMMA MaxStaleIsLong ==
    /\ MaxStale \in Nat /\ ProducerTime \in Nat /\ CacheTtl \in Nat /\ EdgeTtl \in Nat
    /\ RenderTime \in Nat
    /\ MaxStale = ProducerTime + CacheTtl + RenderTime + EdgeTtl
    /\ CacheTtl > 0 /\ EdgeTtl > 0
BY TimingAssumption, PageAssumption DEF MaxStale

(* Nobody has seen the database longer ago than a producer, the entry and  *)
(* the rendering take together; a call that has not returned has produced. *)
LEMMA SeenLately ==
    ASSUME Inv, Echo, Holding, PageTyped, NEW c \in Callers, Overtaken(c)
    PROVE  /\ SeenBefore(c) \in Nat
           /\ SeenBefore(c) <= ProducerTime + CacheTtl + RenderTime
           /\ pc[c] # "idle" => SeenBefore(c) <= ProducerTime
<1>1. pc[c] \in Phases /\ spent[c] \in Nat /\ rendering[c] \in 0 .. RenderTime
  BY DEF Inv, CallsOK, PageTyped
<1>2. pc[c] \notin {"lock", "poll", "sleep"}
  BY DEF Holding, Overtaken
<1>3. pc[c] # "idle" => spent[c] <= ProducerTime
  BY <1>1, <1>2 DEF Phases, Echo, Leading
<1> QED
  BY <1>1, <1>3, MaxStaleIsLong DEF SeenBefore

(* A step that takes no time and commits nothing. *)
LEMMA TimelessStep ==
    ASSUME Inv, Echo, PageInv, PageTyped, PageTyped', StaleInv, [PageNext]_allVars,
           ~Commit, ~PageTick
    PROVE  StaleInv'
<1> USE DEF PageInv
<1>1. /\ age' = age /\ version' = version
      /\ age \in Nat /\ age <= MaxStale /\ cacheLeft \in Nat /\ edgeLeft \in Nat
      /\ \A c \in Callers : rendering'[c] \in Nat
  BY Standing, MaxStaleIsLong, TimingAssumption DEF StaleInv, Inv, CacheOK, PageTyped
<1>2. \A c \in Callers : Overtaken(c) => age <= ProducerTime + CacheTtl + RenderTime
                                        /\ (pc[c] # "idle" => age <= ProducerTime)
  BY <1>1, SeenLately, MaxStaleIsLong DEF StaleInv
<1>3. ASSUME NEW c \in Callers, Overtaken(c)' PROVE age' <= SeenBefore(c)'
  <2>1. CASE Overtaken(c) /\ SeenBefore(c)' = SeenBefore(c)
    BY <1>1, <2>1 DEF StaleInv
  <2>2. CASE pc'[c] = "idle" /\ Overtaken(c) /\ pc[c] # "idle"
    BY <1>1, <1>2, <2>2, MaxStaleIsLong DEF SeenBefore
  <2>3. CASE pc'[c] = "idle" /\ cache = "filled" /\ Old(value)
    BY <1>1, <2>3, MaxStaleIsLong DEF StaleInv, SeenBefore
  <2> QED
    BY <1>3, <2>1, <2>2, <2>3, CallMoves DEF Inv
<1>4. cache' = "filled" /\ Old(value)' => age' + cacheLeft' <= ProducerTime + CacheTtl
  <2>1. ASSUME NEW c \in Callers, pc[c] = "write", Old(got[c]) PROVE age <= ProducerTime
    BY <1>2, <2>1 DEF Overtaken, Old
  <2> QED
    BY <1>1, <2>1, CacheMoves, MaxStaleIsLong DEF StaleInv, Old, Inv
<1>5. edgeLeft' \in 0 .. EdgeTtl /\ (edge' = NoVersion <=> edgeLeft' = 0)
  BY CacheMoves, MaxStaleIsLong DEF StaleInv, Inv, Rendering
<1>6. Old(edge)' => age' + edgeLeft' <= MaxStale
  <2>1. ASSUME NEW c \in Callers, Old(got[c]) PROVE age <= ProducerTime + CacheTtl + RenderTime
    BY <1>2, <2>1 DEF Overtaken, Old
  <2> QED
    BY <1>1, <2>1, CacheMoves, MaxStaleIsLong DEF StaleInv, Old, Inv
<1> QED
  BY <1>1, <1>3, <1>4, <1>5, <1>6 DEF StaleInv

(* A commit is younger than everything; a tick ages what it found.         *)
LEMMA StaleStep ==
    ASSUME Inv, Echo, PageInv, PageTyped, PageTyped', StaleInv, Inv', [PageNext]_allVars
    PROVE  StaleInv'
<1> USE DEF PageInv
<1>1. CASE Commit
  <2>1. /\ age' = 0 /\ cacheLeft' = cacheLeft
        /\ edge' = edge /\ edgeLeft' = edgeLeft
    BY <1>1 DEF Commit, flightVars, redisVars
  <2>2. /\ cacheLeft \in 0 .. CacheTtl
        /\ edgeLeft \in 0 .. EdgeTtl /\ (edge = NoVersion <=> edgeLeft = 0)
    BY DEF Inv, CacheOK, StaleInv
  <2>3. \A c \in Callers : spent'[c] \in Nat /\ rendering'[c] \in Nat
    BY DEF Inv, CallsOK, PageTyped
  <2>4. \A c \in Callers : age' <= SeenBefore(c)'
    BY <2>1, <2>3, MaxStaleIsLong DEF SeenBefore
  <2> QED
    BY <2>1, <2>2, <2>4, MaxStaleIsLong DEF StaleInv
<1>2. CASE PageTick
  <2>1. /\ version' = version /\ age \in 0 .. MaxStale /\ age' \in 0 .. MaxStale
        /\ age' <= age + 1
    BY <1>2, MaxStaleIsLong DEF PageTick, StaleInv, MinOf
  <2>2. ASSUME NEW c \in Callers, Overtaken(c)' PROVE age' <= SeenBefore(c)'
    <3>1. Overtaken(c) /\ SeenBefore(c)' = SeenBefore(c) + 1
      BY <1>2, <2>2, CallsWait DEF Inv, PageTyped
    <3>2. SeenBefore(c) \in Nat /\ age <= SeenBefore(c)
      BY <3>1, SeenLately DEF StaleInv
    <3> QED
      BY <2>1, <3>1, <3>2
  <2>3. cache' = "filled" /\ Old(value)' => age' + cacheLeft' <= ProducerTime + CacheTtl
    <3>1. cacheLeft \in 0 .. CacheTtl /\ cacheLeft' = CountDown(cacheLeft)
          /\ cache' = (IF cacheLeft' = 0 THEN "none" ELSE cache)
          /\ value' = (IF cache' = "filled" THEN value ELSE NoVersion)
      BY <1>2 DEF PageTick, Tick, Inv, CacheOK
    <3>2. cache' = "filled" => cache = "filled" /\ value' = value /\ cacheLeft' = cacheLeft - 1
      BY <3>1, MaxStaleIsLong DEF CountDown
    <3> QED
      BY <2>1, <3>1, <3>2, MaxStaleIsLong DEF StaleInv, Old
  <2>4. /\ edgeLeft' \in 0 .. EdgeTtl
        /\ edge' = NoVersion <=> edgeLeft' = 0
        /\ edge' # NoVersion => edgeLeft' = edgeLeft - 1 /\ edge' = edge
    <3>1. /\ edgeLeft \in 0 .. EdgeTtl /\ edgeLeft' = CountDown(edgeLeft)
          /\ edge = NoVersion <=> edgeLeft = 0
          /\ edge' = IF edgeLeft' = 0 THEN NoVersion ELSE edge
      BY <1>2 DEF PageTick, StaleInv
    <3> QED
      BY <3>1, MaxStaleIsLong DEF CountDown
  <2>5. ASSUME Old(edge)' PROVE age' + edgeLeft' <= MaxStale
    <3>1. Old(edge) /\ edgeLeft' = edgeLeft - 1
      BY <2>1, <2>4, <2>5 DEF Old
    <3>2. edgeLeft \in Int /\ age + edgeLeft <= MaxStale
      BY <3>1, MaxStaleIsLong DEF StaleInv
    <3>3. PICK later \in Nat : age' = later /\ later <= age + 1
      BY <2>1, MaxStaleIsLong
    <3>4. age \in Nat /\ MaxStale \in Nat
      BY <2>1, MaxStaleIsLong
    <3>5. later + (edgeLeft - 1) <= MaxStale
      BY <3>2, <3>3, <3>4
    <3> QED
      BY <3>1, <3>3, <3>5
  <2> QED
    BY <2>1, <2>2, <2>3, <2>4, <2>5 DEF StaleInv
<1>3. CASE ~Commit /\ ~PageTick
  BY <1>3, TimelessStep
<1> QED
  BY <1>1, <1>2, <1>3

LEMMA PageInvariance ==
    PageSpec => [](Inv /\ Echo /\ PageInv /\ PageTyped /\ StaleInv)
<1>1. PageInit => PageInv /\ PageTyped /\ Echo /\ StaleInv
  <2>1. PageInit => PageInv
    BY DEF PageInit, PageInv, GotOK, Holding, Clean, Init, MayRefill, Overtaken, NoVersion
  <2>2. PageInit => PageTyped
    BY PageAssumption DEF PageInit, PageTyped, Init, Versions, NoVersion
  <2>3. PageInit => Echo
    BY DEF PageInit, Init, Echo, Leading
  <2>4. PageInit => StaleInv
    BY MaxStaleIsLong DEF PageInit, Init, StaleInv, Overtaken, Old
  <2> QED
    BY <2>1, <2>2, <2>3, <2>4
<1>2. [PageNext]_allVars /\ Inv /\ Inv' /\ PageInv /\ PageTyped /\ Echo /\ StaleInv /\ [Next]_vars =>
         PageInv' /\ PageTyped' /\ Echo' /\ StaleInv'
  BY GotStep, HoldingStep, CleanStep, TypedStep, EchoStep, StaleStep DEF PageInv, Inv
<1> QED
  BY <1>1, <1>2, UsesSingleFlight, Invariance, PTL DEF PageSpec, Spec

(* Every version, timer and job of the page stays in its range.            *)
THEOREM PageTypeCorrect == PageSpec => []PageTypeOK
<1>1. PageTyped /\ StaleInv => PageTypeOK
  BY PageAssumption DEF PageTyped, StaleInv, PageTypeOK, Versions
<1> QED
  BY <1>1, PageInvariance, PTL

(* Nothing shows a replaced version for longer than a producer, the entry, *)
(* a request that renders and the CDN can keep it one after the other,     *)
(* whatever is lost and however long each of the four is.                  *)
THEOREM StaleNoLonger == PageSpec => []StalenessBounded
<1>1. Inv /\ Echo /\ PageInv /\ PageTyped /\ StaleInv => StalenessBounded
  <2> SUFFICES ASSUME Inv, Echo, PageInv, PageTyped, StaleInv, age = MaxStale
               PROVE  /\ \A c \in Callers : ~Overtaken(c)
                      /\ cache = "filled" => value = version
                      /\ edge \in {NoVersion, version}
    BY DEF StalenessBounded
  <2>1. \A c \in Callers : Overtaken(c) =>
            /\ age <= SeenBefore(c) /\ SeenBefore(c) \in Nat
            /\ SeenBefore(c) <= ProducerTime + CacheTtl + RenderTime
    BY SeenLately DEF StaleInv, PageInv
  <2>2. cacheLeft \in Nat
    BY DEF Inv, CacheOK
  <2>3. \A c \in Callers : ~Overtaken(c)
    BY <2>1, MaxStaleIsLong
  <2>4. cache = "filled" => value = version
    BY <2>2, MaxStaleIsLong DEF StaleInv, PageTyped, Old
  <2>5. edge \in {NoVersion, version}
    BY MaxStaleIsLong DEF StaleInv, Old
  <2> QED
    BY <2>3, <2>4, <2>5
<1> QED
  BY <1>1, PageInvariance, PTL
=============================================================================
