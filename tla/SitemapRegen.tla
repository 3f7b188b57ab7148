----------------------------- MODULE SitemapRegen -----------------------------
(***************************************************************************)
(* The sitemap: the changes that ask for a new one, the sitemap-regen      *)
(* queue with its debounced and its nightly job, the worker that builds    *)
(* the XML and writes sitemap:current, and the route that serves this      *)
(* entry and builds it itself when it is not there                         *)
(* (apps/api/src/queues/sitemap-regen.ts, modules/sitemap).                *)
(*                                                                         *)
(* buildSitemapXml reads the events and then the organizers, in two        *)
(* statements without a transaction.  The XML is what it is made from: the *)
(* number of changes each table had seen when it was read.  A route's      *)
(* builder is the leader of a single flight (module SingleFlight); its     *)
(* lock may have expired, so there may be several.                         *)
(***************************************************************************)
EXTENDS Naturals, FiniteSets

CONSTANTS Leaders,        \* requests to the route that find no entry and build one
          NoEntry,
          Attempts,       \* attempts of the queue's jobs
          Concurrency,    \* jobs the worker runs at once
          MaxChanges      \* bound on the changes of each table

Tables == {"events", "organizers"}
Jobs == {"debounced", "nightly"}
Builders == Jobs \cup Leaders

ASSUME SitemapAssumption ==
    /\ Leaders \cap Jobs = {}
    /\ Attempts \in Nat \ {0} /\ Concurrency \in Nat \ {0} /\ MaxChanges \in Nat

VARIABLES changes,       \* how often the public rows of each table have changed
          announcing,    \* changes that have committed and not enqueued
          job, tries,    \* what BullMQ keeps of each job
          stalled,       \* the jobs that stalled once
          pc, seen,      \* each builder: where it is, what it has read
          entry,         \* sitemap:current
          newest,        \* history: the last XML a job wrote
          missed         \* history: a change may show in no XML that a job has
                         \* begun, nor is its announcement to come

askVars == <<changes, announcing>>
jobVars == <<job, tries, stalled>>
vars == <<askVars, jobVars, pc, seen, entry, newest, missed>>

-----------------------------------------------------------------------------
Xml == [Tables -> 0 .. MaxChanges]
Nothing == [t \in Tables |-> 0]

Init ==
    /\ changes = Nothing /\ announcing = 0
    /\ job = [j \in Jobs |-> "absent"]
    /\ tries = [j \in Jobs |-> 0] /\ stalled = {}
    /\ pc = [b \in Builders |-> "idle"]
    /\ seen = [b \in Builders |-> Nothing]
    /\ entry = NoEntry /\ newest = Nothing
    /\ missed = FALSE

Active == {j \in Jobs : job[j] = "active"}
QueueIsIdle == announcing = 0 /\ \A j \in Jobs : job[j] \notin {"waiting", "active"}

-----------------------------------------------------------------------------
(* A published event or a verified organizer changes: a commit after which *)
(* invalidateEventCache or approveOrganizer asks for a new sitemap, or one *)
(* that nobody announces (an organizer's profile or slug, an event's end). *)
Change(t) ==
    /\ changes[t] < MaxChanges
    /\ changes' = [changes EXCEPT ![t] = @ + 1]
    /\ \/ announcing' = announcing + 1 /\ UNCHANGED missed
       \/ missed' = TRUE /\ UNCHANGED announcing
    /\ UNCHANGED <<jobVars, pc, seen, entry, newest>>

SetJob(j, state) == job' = [job EXCEPT ![j] = state]

(* Queue.add with the debounce id does nothing while a job of that id is   *)
(* retained: waiting, running, or failed.  Its error is only logged.       *)
AddDebounced ==
    IF job["debounced"] = "absent"
    THEN /\ SetJob("debounced", "waiting")
         /\ tries' = [tries EXCEPT !["debounced"] = 0]
         /\ stalled' = stalled \ {"debounced"}
         /\ UNCHANGED missed
    ELSE /\ missed' = (missed \/ job["debounced"] \in {"active", "failed"})
         /\ UNCHANGED jobVars

EnqueueSitemapRegen ==
    /\ announcing > 0
    /\ announcing' = announcing - 1
    /\ \/ AddDebounced
       \/ missed' = TRUE /\ UNCHANGED jobVars
    /\ UNCHANGED <<changes, pc, seen, entry, newest>>

SharedId == "debounced"                                                 \* mutant
CronId == "nightly"

(* The repeatable job of 03:00; the next one is scheduled when it is taken.*)
NightlyTick ==
    /\ job[CronId] = "absent"
    /\ SetJob(CronId, "waiting")
    /\ tries' = [tries EXCEPT ![CronId] = 0]
    /\ stalled' = stalled \ {CronId}
    /\ UNCHANGED <<askVars, pc, seen, entry, newest, missed>>

-----------------------------------------------------------------------------
AnyNumber == TRUE                                                       \* mutant
SlotFree == Cardinality(Active) < Concurrency

TakeJob(j) ==
    /\ job[j] = "waiting"
    /\ SlotFree
    /\ SetJob(j, "active")
    /\ pc' = [pc EXCEPT ![j] = "events"]
    /\ UNCHANGED <<askVars, tries, stalled, seen, entry, newest, missed>>

(* buildSitemapXml: a job's first read sees every change committed so far. *)
ReadTable(b, t, next) ==
    /\ pc[b] = t
    /\ seen' = [seen EXCEPT ![b] = [@ EXCEPT ![t] = changes[t]]]
    /\ pc' = [pc EXCEPT ![b] = next]
    /\ UNCHANGED <<askVars, jobVars, entry, newest>>

ReadEvents(b) ==
    /\ ReadTable(b, "events", "organizers")
    /\ missed' = (missed /\ b \notin Jobs)

ReadOrganizers(b) == ReadTable(b, "organizers", "store") /\ UNCHANGED missed

Stop(b) ==
    /\ pc' = [pc EXCEPT ![b] = "idle"]
    /\ seen' = [seen EXCEPT ![b] = Nothing]

RetainCompleted(j) == IF j = "debounced" THEN "completed" ELSE "absent" \* mutant
Removed(j) == "absent"

(* The SETEX, after which the job is done and removed (removeOnComplete).  *)
StoreXml(j) ==
    /\ j \in Jobs /\ pc[j] = "store"
    /\ entry' = seen[j] /\ newest' = seen[j]
    /\ SetJob(j, Removed(j))
    /\ Stop(j)
    /\ UNCHANGED <<askVars, tries, stalled, missed>>

(* A SETEX whose answer is lost may have had its effect. *)
MayHaveStored(j) ==
    \/ UNCHANGED <<entry, newest>>
    \/ pc[j] = "store" /\ entry' = seen[j] /\ newest' = seen[j]

(* A job that is given up stays under its id (removeOnFail); the id of the *)
(* nightly one is not used again.                                          *)
GivenUp(j) == IF j = "debounced" THEN "failed" ELSE "absent"

RunFails(j) ==
    /\ pc[j] \in {"events", "organizers", "store"}
    /\ MayHaveStored(j)
    /\ tries' = [tries EXCEPT ![j] = @ + 1]
    /\ SetJob(j, IF tries[j] + 1 < Attempts THEN "waiting" ELSE GivenUp(j))
    /\ missed' = TRUE
    /\ Stop(j)
    /\ UNCHANGED <<askVars, stalled>>

(* The worker process dies, and another finds the job stalled: it waits    *)
(* once more, then it has failed.                                          *)
WorkerDies(j) ==
    /\ pc[j] \in {"events", "organizers", "store"}
    /\ MayHaveStored(j)
    /\ pc' = [pc EXCEPT ![j] = "lost"]
    /\ missed' = TRUE
    /\ UNCHANGED <<askVars, jobVars, seen>>

Stall(j) ==
    /\ pc[j] = "lost"
    /\ SetJob(j, IF j \in stalled THEN GivenUp(j) ELSE "waiting")
    /\ stalled' = stalled \cup {j}
    /\ Stop(j)
    /\ UNCHANGED <<askVars, tries, entry, newest, missed>>

(* Two hundred later failures push a failed job out. *)
Evict ==
    /\ job["debounced"] = "failed"
    /\ SetJob("debounced", "absent")
    /\ UNCHANGED <<askVars, tries, stalled, pc, seen, entry, newest, missed>>

-----------------------------------------------------------------------------
(* GET /sitemap.xml that finds the entry changes nothing.  One that does   *)
(* not builds the XML and writes it, outside the queue.                    *)
LeadFlight(l) ==
    /\ pc[l] = "idle"
    /\ entry = NoEntry
    /\ pc' = [pc EXCEPT ![l] = "events"]
    /\ UNCHANGED <<askVars, jobVars, seen, entry, newest, missed>>

LeaderStores(l) ==
    /\ pc[l] = "store"
    /\ entry' = seen[l]
    /\ missed' = (missed \/ seen[l] # changes)
    /\ Stop(l)
    /\ UNCHANGED <<askVars, jobVars, newest>>

(* The build throws, the SETEX fails or the API process dies. *)
LeaderFails(l) ==
    /\ pc[l] # "idle"
   
    /\ Stop(l)
    /\ UNCHANGED <<askVars, jobVars, entry, newest, missed>>

(* After 25 h, or when Redis is short of memory (volatile-lru). *)
EntryGoes ==
    /\ entry # NoEntry
    /\ entry' = NoEntry
    /\ UNCHANGED <<askVars, jobVars, pc, seen, newest, missed>>

-----------------------------------------------------------------------------
Build(b) == ReadEvents(b) \/ ReadOrganizers(b)

Next ==
    \/ \E t \in Tables : Change(t)
    \/ EnqueueSitemapRegen \/ NightlyTick \/ Evict \/ EntryGoes
    \/ \E b \in Builders : Build(b)
    \/ \E j \in Jobs : TakeJob(j) \/ StoreXml(j) \/ RunFails(j) \/ WorkerDies(j) \/ Stall(j)
    \/ \E l \in Leaders : LeadFlight(l) \/ LeaderStores(l) \/ LeaderFails(l)

Spec == Init /\ [][Next]_vars

(* Nights come, workers run, and the nightly job is not kept from the slot *)
(* nor failed by PostgreSQL or Redis for ever (strong fairness of each of  *)
(* its steps).  The route finishes what it began; nobody has to ask for    *)
(* the sitemap.                                                            *)
RunStep(j) == Build(j) \/ StoreXml(j) \/ RunFails(j) \/ Stall(j)

Fairness ==
    /\ WF_vars(NightlyTick)
    /\ \A j \in Jobs : WF_vars(RunStep(j))
    /\ SF_vars(TakeJob("nightly")) /\ SF_vars(ReadEvents("nightly"))
    /\ SF_vars(ReadOrganizers("nightly")) /\ SF_vars(StoreXml("nightly"))
    /\ \A l \in Leaders : WF_vars(Build(l) \/ LeaderStores(l))
FairSpec == Spec /\ Fairness

-----------------------------------------------------------------------------
(* Every value is one it may have, and a job runs exactly while active.    *)
TypeOK ==
    /\ changes \in Xml /\ announcing \in Nat
    /\ job \in [Jobs -> {"absent", "waiting", "active", "failed"}]
    /\ tries \in [Jobs -> 0 .. Attempts] /\ stalled \subseteq Jobs
    /\ pc \in [Builders -> {"idle", "events", "organizers", "store", "lost"}]
    /\ \A j \in Jobs : pc[j] # "idle" <=> job[j] = "active"
    /\ seen \in [Builders -> Xml]
    /\ entry \in Xml \cup {NoEntry} /\ newest \in Xml
    /\ missed \in BOOLEAN

(* Once the queue is idle, the sitemap shows every change, unless one was  *)
(* announced to a job that was already running or had failed, or not       *)
(* announced at all, or a run was given up, or the route wrote what it had *)
(* read before: whatever was committed before a run began is in its XML,   *)
(* and a burst of changes needs one run (enqueueSitemapRegen).             *)
IdleQueueIsFresh ==
    QueueIsIdle /\ ~missed => entry \in {NoEntry, changes}

(* "Multiple regens in flight would race on the SETEX": a run never writes *)
(* an older state of a table than an earlier run wrote, through retries,   *)
(* crashes and nightly runs beside debounced ones.                         *)
RunsNeverGoBack ==
    [][\A t \in Tables : newest'[t] >= newest[t]]_vars

(* "The cron still picks it up": when nothing changes any more, the route  *)
(* comes to serve the sitemap as it is, and for good, whatever enqueues,   *)
(* runs and processes were lost before.                                    *)
EventuallyCurrent == <>[](entry \in {NoEntry, changes})
=============================================================================
