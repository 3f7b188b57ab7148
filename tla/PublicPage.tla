------------------------------ MODULE PublicPage ------------------------------
(***************************************************************************)
(* One public event page and the two caches in front of the database: the  *)
(* Redis entry of singleFlight (SingleFlight, extended here by what the    *)
(* entry says) and the page as the CDN keeps it.  A request renders what   *)
(* its call of singleFlight returned, and only then can the CDN keep it.   *)
(*                                                                         *)
(* The content of the page is a version, counted up by every commit that   *)
(* ends in invalidateEventCache (modules/events/service.ts): publish,      *)
(* unpublish, approve, reject and the edits of a published event.  The DEL *)
(* of the entry and the purge of the CDN follow the commit separately, and *)
(* either may be lost.  An unpublished page is an error of the producer,   *)
(* which no cache keeps; it is covered by Produce's error.                 *)
(***************************************************************************)
EXTENDS SingleFlight

CONSTANTS MaxVersion,     \* bound: commits
          Attempts,       \* attempts of QUEUE_CONFIGS[cdnPurge]
          RenderTime,     \* the longest from the call's return to the answer
          EdgeTtl         \* s-maxage and stale-while-revalidate together

ASSUME PageAssumption ==
    /\ MaxVersion \in Nat
    /\ Attempts \in Nat \ {0}
    /\ RenderTime \in Nat
    /\ EdgeTtl \in Nat \ {0}

VARIABLES version,            \* what the database says
          value,              \* what the Redis entry says, while it is filled
          got,                \* what each call's producer read or the entry said
          rendering,          \* how long the request has rendered it
          edge, edgeLeft,     \* what the CDN keeps, and for how long
          deletes,            \* commits whose DEL is on its way
          purges,             \* attempts left of each purge job, 0: no job
          age,                \* history: time since the last commit
          clean               \* history: the caches known to follow it

flightVars == <<redisVars, pc, spent, calm>>
cdnVars    == <<edge, edgeLeft, purges>>
pageVars   == <<version, value, got, rendering, cdnVars, deletes, age, clean>>
allVars    == <<flightVars, pageVars>>

-----------------------------------------------------------------------------
NoVersion == -1
Versions == 0 .. MaxVersion
Commits  == 1 .. MaxVersion

(* The longest a version may outlive the commit that replaced it: a        *)
(* producer read it, then cached it, a request found the entry just before *)
(* it expired and rendered it, and the CDN kept the answer.                *)
MaxStale == ProducerTime + CacheTtl + RenderTime + EdgeTtl

PageInit ==
    /\ Init
    /\ cache # "filled"
    /\ version = 0 /\ value = NoVersion
    /\ got = [c \in Callers |-> NoVersion]
    /\ rendering = [c \in Callers |-> 0]
    /\ edge = NoVersion /\ edgeLeft = 0
    /\ deletes = 0
    /\ purges = [v \in Commits |-> 0]
    /\ age = MaxStale /\ clean = {"origin", "edge"}

(* The call has returned, and its answer is on its way. *)
Rendering(c) == pc[c] = "idle" /\ got[c] # NoVersion

(* A request is about to use what was replaced after it was read, and one  *)
(* that leads is about to put it into the entry.                           *)
Overtaken(c) == got[c] \notin {NoVersion, version}
MayRefill(c) == pc[c] \in {"produce", "write"} /\ Overtaken(c)

-----------------------------------------------------------------------------
ReadMemo(c) ==                                                          \* mutant
    got' = IF pc'[c] \in {"produce", "open"} THEN [got EXCEPT ![c] = 0] ELSE got
(* A call that starts a producer reads the row first. *)
ReadRow(c) ==
    got' = IF pc'[c] \in {"produce", "open"} THEN [got EXCEPT ![c] = version] ELSE got

PageLookUp(c) ==
    /\ ~Rendering(c)
    /\ ReadCache(c) \/ TryAcquireLock(c) \/ AcquireFails(c)
    /\ ReadRow(c)
    /\ UNCHANGED <<version, value, rendering, cdnVars, deletes, age, clean>>

(* readCache finds the entry, and the call returns what it says. *)
Hit(c) ==
    /\ pc[c] = "idle" /\ ~Rendering(c)
    /\ cache = "filled"
    /\ got' = [got EXCEPT ![c] = value]
    /\ UNCHANGED <<flightVars, version, value, rendering, cdnVars, deletes, age, clean>>

(* So does a follower, or it goes on waiting, or produces for itself. *)
PagePoll(c) ==
    /\ Poll(c)
    /\ IF pc'[c] = "idle" THEN got' = [got EXCEPT ![c] = value] ELSE ReadRow(c)
    /\ UNCHANGED <<version, value, rendering, cdnVars, deletes, age, clean>>

(* The page is rendered and answered to a visitor, or kept by the CDN too; *)
(* or the web process dies, or nobody waits for the answer any more.       *)
Respond(c) ==
    /\ Rendering(c)
    /\ \/ UNCHANGED <<edge, edgeLeft>>
       \/ edge' = got[c] /\ edgeLeft' = EdgeTtl
    /\ got' = [got EXCEPT ![c] = NoVersion]
    /\ rendering' = [rendering EXCEPT ![c] = 0]
    /\ UNCHANGED <<flightVars, version, value, purges, deletes, age, clean>>

(* The producer's error reaches the caller, and there is nothing to show.  *)
PageProduce(c) ==
    /\ Produce(c)
    /\ got' = IF pc'[c] = "release" THEN [got EXCEPT ![c] = NoVersion] ELSE got
    /\ UNCHANGED <<version, value, rendering, cdnVars, deletes, age, clean>>

PageWrite(c) ==
    /\ WriteCache(c)
    /\ \/ UNCHANGED <<cache, cacheLeft, value>>
       \/ cache' = "filled" /\ cacheLeft' = CacheTtl /\ value' = got[c]
    /\ UNCHANGED <<version, got, rendering, cdnVars, deletes, age, clean>>

(* The call returns what its producer read. *)
PageRelease(c) ==
    /\ ReleaseLock(c) \/ ProduceLocally(c)
    /\ UNCHANGED pageVars

PageCrash(c) ==
    /\ Crash(c)
    /\ got' = [got EXCEPT ![c] = NoVersion]
    /\ UNCHANGED <<version, value, rendering, cdnVars, deletes, age, clean>>

-----------------------------------------------------------------------------
(* enqueueCdnPurge, whose error is only logged. *)
EnqueuePurge == purges' \in {purges, [purges EXCEPT ![version + 1] = Attempts]}

(* A mutation commits, starts the DEL, enqueues the purge and answers; the *)
(* process may die after the commit.  A job runs no earlier than this.     *)
Commit ==
    /\ version < MaxVersion
    /\ version' = version + 1
    /\ deletes' = deletes + 1
    /\ EnqueuePurge
    /\ age' = 0 /\ clean' = {}
    /\ UNCHANGED <<flightVars, value, got, rendering, edge, edgeLeft>>

DropOther == UNCHANGED <<flightVars, value>>                            \* mutant
DropEntry ==
    /\ Invalidate \/ (cache = "none" /\ UNCHANGED flightVars)
    /\ value' = NoVersion

(* The DEL.  From here on no entry can be older than the last commit if no *)
(* leader is about to write what it read before that.                      *)
DeleteEntry ==
    /\ deletes > 0
    /\ deletes' = deletes - 1
    /\ DropEntry
    /\ clean' = IF \E c \in Callers : MayRefill(c) THEN clean ELSE clean \cup {"origin"}
    /\ UNCHANGED <<version, got, rendering, cdnVars, age>>

(* The command fails, or the process dies first. *)
DeleteFails ==
    /\ deletes > 0
    /\ deletes' = deletes - 1
    /\ UNCHANGED <<flightVars, version, value, got, rendering, cdnVars, age, clean>>

ForgetEdge == edge' = NoVersion /\ edgeLeft' = 0

(* An attempt of a purge job.  One that failed may have reached the CDN.   *)
Purge(v) ==
    /\ purges[v] > 0
    /\ \/ /\ ForgetEdge
          /\ purges' = [purges EXCEPT ![v] = 0]
          /\ clean' = IF "origin" \notin clean \/ \E c \in Callers : Overtaken(c)
                      THEN clean ELSE clean \cup {"edge"}
       \/ /\ ForgetEdge \/ UNCHANGED <<edge, edgeLeft>>
          /\ purges' = [purges EXCEPT ![v] = @ - 1]
          /\ UNCHANGED clean
    /\ UNCHANGED <<flightVars, version, value, got, rendering, deletes, age>>

-----------------------------------------------------------------------------
(* An answer that has used up its time comes first. *)
PageTick ==
    /\ \A c \in Callers : Rendering(c) => rendering[c] < RenderTime
    /\ Tick
    /\ rendering' = [c \in Callers |-> IF Rendering(c) THEN rendering[c] + 1 ELSE 0]
    /\ got' = [c \in Callers |-> IF TimesOut(c) THEN version ELSE got[c]]
    /\ value' = IF cache' = "filled" THEN value ELSE NoVersion
    /\ edgeLeft' = CountDown(edgeLeft)
    /\ edge' = IF edgeLeft' = 0 THEN NoVersion ELSE edge
    /\ age' = MinOf(age + 1, MaxStale)
    /\ UNCHANGED <<version, purges, deletes, clean>>

PageCall(c) ==
    \/ PagePoll(c) \/ PageProduce(c) \/ PageWrite(c) \/ PageRelease(c) \/ Respond(c)

PageNext ==
    \/ \E c \in Callers : PageLookUp(c) \/ Hit(c) \/ PageCall(c) \/ PageCrash(c)
    \/ Commit \/ DeleteEntry \/ DeleteFails
    \/ \E v \in Commits : Purge(v)
    \/ PageTick

PageSpec == PageInit /\ [][PageNext]_allVars

PageFairness ==
    /\ SF_allVars(PageTick)
    /\ \A c \in Callers : WF_allVars(PageCall(c)) /\ WF_allVars(PageLookUp(c) /\ pc[c] = "lock")

FairPageSpec == PageSpec /\ PageFairness

-----------------------------------------------------------------------------
PageTypeOK ==
    /\ version \in Versions
    /\ value \in Versions \cup {NoVersion}
    /\ cache = "filled" <=> value # NoVersion
    /\ got \in [Callers -> Versions \cup {NoVersion}]
    /\ rendering \in [Callers -> 0 .. RenderTime]
    /\ edge \in Versions \cup {NoVersion}
    /\ edgeLeft \in 0 .. EdgeTtl
    /\ edge = NoVersion <=> edgeLeft = 0
    /\ deletes \in 0 .. MaxVersion
    /\ purges \in [Commits -> 0 .. Attempts]
    /\ age \in 0 .. MaxStale
    /\ clean \subseteq {"origin", "edge"}

(* Whatever is lost, nothing shows a version for longer than MaxStale after*)
(* it was replaced: not the producers still running, not the Redis entry,  *)
(* not the answers being rendered, not the CDN.                            *)
StalenessBounded ==
    age = MaxStale => /\ \A c \in Callers : ~Overtaken(c)
                      /\ cache = "filled" => value = version
                      /\ edge \in {NoVersion, version}

(* What the invalidation is for: once the entry was deleted while no leader*)
(* held an older row, and then the CDN purged while no request held one,   *)
(* producing or rendering, each stays up to date until the next commit,    *)
(* whatever calls race, fail or die.                                       *)
FreshOnceInvalidated ==
    /\ "origin" \in clean /\ cache = "filled" => value = version
    /\ "edge" \in clean => edge \in {NoVersion, version}
=============================================================================
