-------------------------- MODULE SitemapRegenProofs --------------------------
(***************************************************************************)
(* Proofs about SitemapRegen for every number of changes, attempts and     *)
(* route requests.  That a run never writes an older sitemap, and that an  *)
(* idle queue leaves a fresh one, rests on one job running at a time.      *)
(***************************************************************************)
EXTENDS SitemapRegen, FiniteSetTheorems, TLAPS

Points == {"idle", "events", "organizers", "store", "lost"}
JobStates == {"absent", "waiting", "active", "failed"}

(* The types, for all jobs but the relation of pc and job. *)
Typed ==
    /\ changes \in Xml /\ announcing \in Nat
    /\ job \in [Jobs -> JobStates]
    /\ tries \in [Jobs -> 0 .. Attempts] /\ stalled \subseteq Jobs
    /\ pc \in [Builders -> Points]
    /\ seen \in [Builders -> Xml]
    /\ entry \in Xml \cup {NoEntry} /\ newest \in Xml
    /\ missed \in BOOLEAN

(* A job runs exactly while it is active, and fails less than Attempts     *)
(* times before it is given up.                                            *)
RunsWhileActive ==
    \A j \in Jobs : /\ pc[j] # "idle" <=> job[j] = "active"
                    /\ job[j] \in {"waiting", "active"} => tries[j] < Attempts

TypeInv == Typed /\ RunsWhileActive

LEMMA NothingIsXml == Nothing \in Xml
BY SitemapAssumption DEF Nothing, Xml

(* Next, one action per disjunct. *)
LEMMA Steps ==
    ASSUME Next
    PROVE  \/ \E t \in Tables : Change(t)
           \/ EnqueueSitemapRegen \/ NightlyTick \/ Evict \/ EntryGoes
           \/ \E b \in Builders : ReadEvents(b) \/ ReadOrganizers(b)
           \/ \E j \in Jobs : TakeJob(j) \/ StoreXml(j) \/ RunFails(j) \/ WorkerDies(j) \/ Stall(j)
           \/ \E l \in Leaders : LeadFlight(l) \/ LeaderStores(l) \/ LeaderFails(l)
BY Zenon DEF Next, Build

LEMMA TypeStep ==
    ASSUME TypeInv, [Next]_vars
    PROVE  TypeInv'
<1> USE SitemapAssumption DEF TypeInv, Typed, RunsWhileActive, Points, JobStates, Builders, Jobs
<1>1. ASSUME NEW t \in Tables, Change(t) PROVE TypeInv'
  <2>1. changes[t] \in 0 .. MaxChanges
    BY DEF Xml
  <2>2. changes' \in Xml /\ announcing' \in Nat
    BY <1>1, <2>1 DEF Change, Xml
  <2> QED BY <1>1, <2>2 DEF Change, jobVars
<1>2. ASSUME EnqueueSitemapRegen PROVE TypeInv'
  <2>1. announcing' \in Nat
    BY <1>2 DEF EnqueueSitemapRegen
  <2>2. missed' \in BOOLEAN
    BY <1>2 DEF EnqueueSitemapRegen, AddDebounced
  <2>3. CASE UNCHANGED jobVars
    BY <1>2, <2>1, <2>2, <2>3 DEF EnqueueSitemapRegen, jobVars
  <2>4. CASE /\ job["debounced"] = "absent" /\ SetJob("debounced", "waiting")
             /\ tries' = [tries EXCEPT !["debounced"] = 0]
             /\ stalled' = stalled \ {"debounced"}
    <3>1. tries' \in [Jobs -> 0 .. Attempts] /\ job' \in [Jobs -> JobStates]
      BY <2>4 DEF SetJob
    <3>2. RunsWhileActive'
      BY <1>2, <2>4 DEF EnqueueSitemapRegen, SetJob
    <3> QED BY <1>2, <2>1, <2>2, <2>4, <3>1, <3>2 DEF EnqueueSitemapRegen
  <2>5. UNCHANGED jobVars \/ (/\ job["debounced"] = "absent" /\ SetJob("debounced", "waiting")
             /\ tries' = [tries EXCEPT !["debounced"] = 0]
             /\ stalled' = stalled \ {"debounced"})
    <3> HIDE DEF TypeInv
    <3> QED BY <1>2, Zenon DEF EnqueueSitemapRegen, AddDebounced
  <2> QED BY <2>3, <2>4, <2>5
<1>3. ASSUME NightlyTick PROVE TypeInv'
  BY <1>3 DEF NightlyTick, CronId, SetJob, askVars
<1>4. ASSUME Evict \/ EntryGoes PROVE TypeInv'
  BY <1>4 DEF Evict, EntryGoes, SetJob, askVars, jobVars
<1>5. ASSUME NEW b \in Builders, ReadEvents(b) \/ ReadOrganizers(b) PROVE TypeInv'
  <2>1. ASSUME NEW t \in Tables, NEW next, ReadTable(b, t, next)
        PROVE  seen' \in [Builders -> Xml]
    <3>1. [seen[b] EXCEPT ![t] = changes[t]] \in Xml
      BY DEF Xml
    <3> QED BY <2>1, <3>1 DEF ReadTable
  <2>2. seen' \in [Builders -> Xml]
    BY <1>5, <2>1 DEF ReadEvents, ReadOrganizers, Tables
  <2> QED BY <1>5, <2>2 DEF ReadEvents, ReadOrganizers, ReadTable, askVars, jobVars
<1>6. ASSUME NEW j \in Jobs, TakeJob(j) PROVE TypeInv'
  BY <1>6 DEF TakeJob, SetJob, askVars
<1>7. ASSUME NEW j \in Jobs, StoreXml(j) PROVE TypeInv'
  BY <1>7, NothingIsXml DEF StoreXml, Removed, Stop, SetJob, askVars
<1>8. ASSUME NEW j \in Jobs, RunFails(j) PROVE TypeInv'
  <2>1. entry' \in Xml \cup {NoEntry} /\ newest' \in Xml
    BY <1>8 DEF RunFails, MayHaveStored
  <2>2. pc' \in [Builders -> Points] /\ seen' \in [Builders -> Xml]
    BY <1>8, NothingIsXml DEF RunFails, Stop
  <2>3. tries' \in [Jobs -> 0 .. Attempts] /\ job' \in [Jobs -> JobStates]
    BY <1>8 DEF RunFails, SetJob, GivenUp
  <2>4. RunsWhileActive'
    BY <1>8 DEF RunFails, SetJob, GivenUp, Stop
  <2> QED BY <1>8, <2>1, <2>2, <2>3, <2>4 DEF RunFails, askVars
<1>9. ASSUME NEW j \in Jobs, WorkerDies(j) PROVE TypeInv'
  BY <1>9 DEF WorkerDies, MayHaveStored, askVars, jobVars
<1>10. ASSUME NEW j \in Jobs, Stall(j) PROVE TypeInv'
  <2>1. pc' \in [Builders -> Points] /\ seen' \in [Builders -> Xml]
    BY <1>10, NothingIsXml DEF Stall, Stop
  <2>2. job' \in [Jobs -> JobStates] /\ stalled' \subseteq Jobs
    BY <1>10 DEF Stall, SetJob, GivenUp
  <2>3. RunsWhileActive'
    BY <1>10 DEF Stall, SetJob, GivenUp, Stop
  <2> QED BY <1>10, <2>1, <2>2, <2>3 DEF Stall, askVars
<1>11. ASSUME NEW l \in Leaders, LeadFlight(l) \/ LeaderStores(l) \/ LeaderFails(l) PROVE TypeInv'
  <2>1. l \in Builders /\ l \notin Jobs
    OBVIOUS
  <2>2. pc' \in [Builders -> Points] /\ seen' \in [Builders -> Xml]
    BY <1>11, <2>1, NothingIsXml DEF LeadFlight, LeaderStores, LeaderFails, Stop
  <2>3. missed' \in BOOLEAN
    BY <1>11 DEF LeadFlight, LeaderStores, LeaderFails
  <2>4. entry' \in Xml \cup {NoEntry}
    BY <1>11, <2>1 DEF LeadFlight, LeaderStores, LeaderFails
  <2>5. UNCHANGED <<askVars, jobVars, newest>>
    BY <1>11 DEF LeadFlight, LeaderStores, LeaderFails
  <2>6. \A j \in Jobs : pc'[j] = pc[j]
    BY <1>11, <2>1 DEF LeadFlight, LeaderStores, LeaderFails, Stop
  <2> QED BY <2>2, <2>3, <2>4, <2>5, <2>6 DEF askVars, jobVars
<1>12. ASSUME UNCHANGED vars PROVE TypeInv'
  BY <1>12 DEF vars, askVars, jobVars
<1> HIDE DEF TypeInv, Typed, RunsWhileActive
<1> QED
  BY <1>1, <1>2, <1>3, <1>4, <1>5, <1>6, <1>7, <1>8, <1>9, <1>10, <1>11, <1>12, Steps, Zenon

LEMMA TypeInit == Init => TypeInv
<1> SUFFICES ASSUME Init PROVE TypeInv
  OBVIOUS
<1> USE SitemapAssumption DEF Init
<1>1. job \in [Jobs -> JobStates] /\ tries \in [Jobs -> 0 .. Attempts]
  BY DEF JobStates
<1>2. pc \in [Builders -> Points] /\ seen \in [Builders -> Xml]
  BY NothingIsXml DEF Points
<1>3. changes \in Xml /\ newest \in Xml /\ announcing \in Nat /\ stalled \subseteq Jobs
  BY NothingIsXml
<1>4. entry \in Xml \cup {NoEntry} /\ missed \in BOOLEAN
  OBVIOUS
<1>5. RunsWhileActive
  BY DEF RunsWhileActive, Jobs, Builders
<1> QED BY <1>1, <1>2, <1>3, <1>4, <1>5 DEF TypeInv, Typed

(* Every value is one it may have, whatever fails and overlaps. *)
THEOREM TypeCorrect == Spec => []TypeOK
<1>1. TypeInv => TypeOK
  BY DEF TypeInv, Typed, RunsWhileActive, TypeOK, Points, JobStates
<1> QED BY TypeInit, TypeStep, <1>1, PTL DEF Spec

-----------------------------------------------------------------------------
(* With one slot, one job is under way at a time, a lost one included. *)
OneRun == \A i, j \in Jobs : pc[i] # "idle" /\ pc[j] # "idle" => i = j

LEMMA SlotMeansNoRun ==
    ASSUME TypeInv, Concurrency = 1, SlotFree
    PROVE  \A j \in Jobs : pc[j] = "idle"
<1>1. IsFiniteSet(Active)
  <2>1. IsFiniteSet(Jobs)
    <3>1. Jobs = ({} \cup {"debounced"}) \cup {"nightly"}
      BY DEF Jobs
    <3>2. IsFiniteSet({} \cup {"debounced"})
      BY FS_EmptySet, FS_AddElement, Zenon
    <3> QED BY <3>1, <3>2, FS_AddElement, Zenon
  <2> QED BY <2>1, FS_Subset DEF Active
<1>2. Cardinality(Active) = 0
  BY <1>1, FS_CardinalityType DEF SlotFree
<1>3. Active = {}
  BY <1>1, <1>2, FS_EmptySet
<1> QED BY <1>3 DEF Active, TypeInv, RunsWhileActive

(* No step but TakeJob starts a job. *)
LEMMA StartedByTake ==
    ASSUME TypeInv, [Next]_vars, NEW j \in Jobs, pc[j] = "idle", pc'[j] # "idle"
    PROVE  TakeJob(j)
<1> USE SitemapAssumption DEF TypeInv, Typed, Builders
<1>1. ASSUME NEW b \in Builders, ReadEvents(b) \/ ReadOrganizers(b) PROVE FALSE
  BY <1>1 DEF ReadEvents, ReadOrganizers, ReadTable
<1>2. ASSUME NEW i \in Jobs, TakeJob(i) PROVE TakeJob(j)
  BY <1>2 DEF TakeJob
<1>3. ASSUME NEW i \in Jobs, StoreXml(i) \/ RunFails(i) \/ WorkerDies(i) \/ Stall(i) PROVE FALSE
  BY <1>3 DEF StoreXml, RunFails, WorkerDies, Stall, Stop
<1>4. ASSUME NEW l \in Leaders, LeadFlight(l) \/ LeaderStores(l) \/ LeaderFails(l) PROVE FALSE
  BY <1>4 DEF LeadFlight, LeaderStores, LeaderFails, Stop
<1>5. ASSUME NEW t \in Tables, Change(t) PROVE FALSE
  BY <1>5 DEF Change
<1>6. ASSUME EnqueueSitemapRegen \/ NightlyTick \/ Evict \/ EntryGoes PROVE FALSE
  BY <1>6 DEF EnqueueSitemapRegen, NightlyTick, Evict, EntryGoes
<1>7. ASSUME UNCHANGED vars PROVE FALSE
  BY <1>7 DEF vars
<1> HIDE DEF TypeInv, Typed, Builders
<1> QED BY <1>1, <1>2, <1>3, <1>4, <1>5, <1>6, <1>7, Steps, Zenon

LEMMA OneRunStep ==
    ASSUME TypeInv, OneRun, Concurrency = 1, [Next]_vars
    PROVE  OneRun'
<1> SUFFICES ASSUME NEW i \in Jobs, NEW j \in Jobs, pc'[i] # "idle", pc'[j] # "idle"
             PROVE  i = j
  BY DEF OneRun
<1>1. CASE pc[i] # "idle" /\ pc[j] # "idle"
  BY <1>1 DEF OneRun
<1>2. ASSUME NEW k \in Jobs, TakeJob(k), pc'[i] # "idle", pc'[j] # "idle" PROVE i = j
  <2>1. \A m \in Jobs : pc[m] = "idle"
    BY <1>2, SlotMeansNoRun DEF TakeJob
  <2>2. \A m \in Jobs : m # k => pc'[m] = pc[m]
    BY <1>2 DEF TakeJob, TypeInv, Typed, Builders
  <2> QED BY <1>2, <2>1, <2>2
<1> QED BY <1>1, <1>2, StartedByTake

-----------------------------------------------------------------------------
(* What a job has read is no older than what the last run wrote. *)
Ordered ==
    /\ \A t \in Tables : /\ newest[t] <= changes[t]
                         /\ \A j \in Jobs : seen[j][t] <= changes[t]
    /\ \A j \in Jobs :
          /\ pc[j] \in {"organizers", "store"} => newest["events"] <= seen[j]["events"]
          /\ pc[j] = "store" => newest["organizers"] <= seen[j]["organizers"]

OrderInv == TypeInv /\ OneRun /\ Ordered

(* A job that writes or may have written has read both tables after the    *)
(* last write, and no other job has begun.                                 *)
LEMMA WriteInOrder ==
    ASSUME OrderInv, NEW j \in Jobs, pc[j] \in {"store", "organizers", "events"},
           \/ UNCHANGED newest
           \/ pc[j] = "store" /\ newest' = seen[j]
    PROVE  /\ \A t \in Tables : newest[t] <= newest'[t] /\ newest'[t] <= changes[t]
           /\ \A i \in Jobs : i # j => pc[i] = "idle"
<1> USE DEF OrderInv
<1>1. \A i \in Jobs : i # j => pc[i] = "idle"
  BY DEF OneRun
<1>2. \A t \in Tables : newest[t] \in Nat /\ changes[t] \in Nat
  BY SitemapAssumption DEF TypeInv, Typed, Xml
<1>3. CASE UNCHANGED newest
  BY <1>1, <1>2, <1>3 DEF Ordered
<1>4. CASE pc[j] = "store" /\ newest' = seen[j]
  BY <1>1, <1>4 DEF Ordered, Tables
<1> QED BY <1>3, <1>4

LEMMA OrderedInit == Init => OneRun /\ Ordered
BY SitemapAssumption DEF Init, OneRun, Ordered, Builders, Nothing, Tables

LEMMA OrderedStep ==
    ASSUME OrderInv, [Next]_vars
    PROVE  Ordered' /\ \A t \in Tables : newest'[t] >= newest[t]
<1> DEFINE Goal == Ordered' /\ \A t \in Tables : newest'[t] >= newest[t]
<1> USE SitemapAssumption DEF OrderInv
<1>t. /\ \A t \in Tables : newest[t] \in Nat /\ changes[t] \in Nat
      /\ \A b \in Builders : \A t \in Tables : seen[b][t] \in Nat
      /\ pc \in [Builders -> Points] /\ seen \in [Builders -> Xml]
      /\ changes \in Xml /\ Jobs \subseteq Builders /\ Leaders \subseteq Builders
  BY DEF TypeInv, Typed, Xml, Builders
<1>1. ASSUME NEW t \in Tables, Change(t) PROVE Goal
  <2>1. \A u \in Tables : changes[u] <= changes'[u] /\ changes'[u] \in Nat
    BY <1>1, <1>t DEF Change, Xml
  <2>2. UNCHANGED <<pc, seen, newest>>
    BY <1>1 DEF Change
  <2> QED BY <1>t, <2>1, <2>2 DEF Ordered
<1>2. ASSUME UNCHANGED <<changes, pc, seen, newest>> PROVE Goal
  BY <1>2, <1>t DEF Ordered
<1>3. ASSUME EnqueueSitemapRegen \/ NightlyTick \/ Evict \/ EntryGoes \/ UNCHANGED vars PROVE Goal
  BY <1>2, <1>3 DEF EnqueueSitemapRegen, NightlyTick, Evict, EntryGoes, vars, askVars
<1>4. ASSUME NEW b \in Builders, ReadEvents(b) \/ ReadOrganizers(b) PROVE Goal
  <2>1. UNCHANGED <<changes, newest>>
    BY <1>4 DEF ReadEvents, ReadOrganizers, ReadTable, askVars
  <2>2. CASE ReadEvents(b)
    <3>1. seen'[b]["events"] = changes["events"] /\ seen'[b]["organizers"] = seen[b]["organizers"]
      BY <2>2, <1>t DEF ReadEvents, ReadTable, Xml, Tables
    <3>2. pc'[b] = "organizers" /\ \A i \in Builders : i # b => seen'[i] = seen[i] /\ pc'[i] = pc[i]
      BY <2>2, <1>t DEF ReadEvents, ReadTable
    <3> QED BY <1>t, <2>1, <3>1, <3>2 DEF Ordered, Tables
  <2>3. CASE ReadOrganizers(b)
    <3>1. seen'[b]["organizers"] = changes["organizers"] /\ seen'[b]["events"] = seen[b]["events"]
      BY <2>3, <1>t DEF ReadOrganizers, ReadTable, Xml, Tables
    <3>2. pc[b] = "organizers" /\ \A i \in Builders : i # b => seen'[i] = seen[i] /\ pc'[i] = pc[i]
      BY <2>3, <1>t DEF ReadOrganizers, ReadTable
    <3> QED BY <1>t, <2>1, <3>1, <3>2 DEF Ordered, Tables
  <2> QED BY <1>4, <2>2, <2>3
<1>5. ASSUME NEW j \in Jobs, TakeJob(j) PROVE Goal
  <2>1. UNCHANGED <<changes, seen, newest>>
    BY <1>5 DEF TakeJob, askVars
  <2>2. pc'[j] = "events" /\ \A i \in Jobs : i # j => pc'[i] = pc[i]
    BY <1>5, <1>t DEF TakeJob
  <2> QED BY <1>t, <2>1, <2>2 DEF Ordered
<1>6. ASSUME NEW j \in Jobs, StoreXml(j) \/ RunFails(j) PROVE Goal
  <2>1. /\ pc[j] \in {"store", "organizers", "events"}
        /\ UNCHANGED newest \/ (pc[j] = "store" /\ newest' = seen[j])
        /\ changes' = changes
    BY <1>6 DEF StoreXml, RunFails, MayHaveStored, askVars
  <2>2. pc'[j] = "idle" /\ \A i \in Jobs : i # j => pc'[i] = pc[i]
    BY <1>6, <1>t DEF StoreXml, RunFails, Stop
  <2>3. \A i \in Jobs, u \in Tables : seen'[i][u] <= changes[u]
    BY <1>6, <1>t DEF StoreXml, RunFails, Stop, Nothing, Ordered
  <2> QED BY <1>t, <2>1, <2>2, <2>3, WriteInOrder DEF Ordered
<1>7. ASSUME NEW j \in Jobs, WorkerDies(j) PROVE Goal
  <2>1. /\ pc[j] \in {"store", "organizers", "events"}
        /\ UNCHANGED newest \/ (pc[j] = "store" /\ newest' = seen[j])
        /\ UNCHANGED <<changes, seen>>
    BY <1>7 DEF WorkerDies, MayHaveStored, askVars
  <2>2. pc'[j] = "lost" /\ \A i \in Jobs : i # j => pc'[i] = pc[i]
    BY <1>7, <1>t DEF WorkerDies
  <2> QED BY <1>t, <2>1, <2>2, WriteInOrder DEF Ordered
<1>8. ASSUME NEW j \in Jobs, Stall(j) PROVE Goal
  <2>1. UNCHANGED <<changes, newest>>
    BY <1>8 DEF Stall, askVars
  <2>2. pc'[j] = "idle" /\ \A i \in Jobs : i # j => pc'[i] = pc[i] /\ seen'[i] = seen[i]
    BY <1>8, <1>t DEF Stall, Stop
  <2>3. seen'[j] = Nothing
    BY <1>8, <1>t DEF Stall, Stop
  <2>4. \A i \in Jobs, u \in Tables : seen'[i][u] <= changes[u]
    BY <1>t, <2>2, <2>3 DEF Nothing, Ordered
  <2> QED BY <1>t, <2>1, <2>2, <2>4 DEF Ordered
<1>9. ASSUME NEW l \in Leaders, LeadFlight(l) \/ LeaderStores(l) \/ LeaderFails(l) PROVE Goal
  <2>1. UNCHANGED <<changes, newest>>
    BY <1>9 DEF LeadFlight, LeaderStores, LeaderFails, askVars
  <2>2. l \notin Jobs
    OBVIOUS
  <2>3. \A j \in Jobs : pc'[j] = pc[j] /\ seen'[j] = seen[j]
    BY <1>9, <1>t, <2>2 DEF LeadFlight, LeaderStores, LeaderFails, Stop
  <2> QED BY <1>t, <2>1, <2>3 DEF Ordered
<1> HIDE DEF Goal
<1>10. Goal
  BY <1>1, <1>3, <1>4, <1>5, <1>6, <1>7, <1>8, <1>9, Steps, Zenon
<1> QED BY <1>10 DEF Goal

(* With one slot, a run never writes an older state of a table than an     *)
(* earlier run wrote, through retries, crashes and nightly runs.           *)
THEOREM SitemapMovesForward ==
    ASSUME Concurrency = 1
    PROVE  Spec => RunsNeverGoBack
<1>1. Init => OrderInv
  BY TypeInit, OrderedInit DEF OrderInv
<1>2. OrderInv /\ [Next]_vars => OrderInv'
  BY TypeStep, OneRunStep, OrderedStep DEF OrderInv
<1>3. OrderInv /\ [Next]_vars => [\A t \in Tables : newest'[t] >= newest[t]]_vars
  BY OrderedStep
<1> QED BY <1>1, <1>2, <1>3, PTL DEF Spec, RunsNeverGoBack

-----------------------------------------------------------------------------
(* A run that has yet to read the events is announced, queued or begun. *)
Pending ==
    announcing > 0 \/ job["debounced"] = "waiting" \/ pc["debounced"] = "events"

(* Without one, and with nothing missed, a run under way has seen every    *)
(* change of what it has read, and without a run the entry shows them all. *)
Covered ==
    missed = FALSE /\ ~Pending =>
      /\ \A j \in Jobs : /\ pc[j] = "organizers" => seen[j]["events"] = changes["events"]
                         /\ pc[j] = "store" => seen[j] = changes
      /\ (\A j \in Jobs : pc[j] \notin {"organizers", "store"}) => entry \in {NoEntry, changes}

LEMMA CoveredStep ==
    ASSUME OrderInv, Covered, [Next]_vars
    PROVE  Covered'
<1> USE SitemapAssumption DEF OrderInv
<1>t. /\ pc \in [Builders -> Points] /\ seen \in [Builders -> Xml] /\ changes \in Xml
      /\ job \in [Jobs -> JobStates] /\ announcing \in Nat /\ missed \in BOOLEAN
      /\ Jobs \subseteq Builders /\ Leaders \subseteq Builders /\ "debounced" \in Jobs
  BY DEF TypeInv, Typed, Builders, Jobs
<1>m. ASSUME missed' # FALSE PROVE Covered'
  BY <1>m DEF Covered
<1>1. ASSUME NEW t \in Tables, Change(t) PROVE Covered'
  <2>1. missed' = TRUE \/ announcing' > 0
    BY <1>1, <1>t DEF Change
  <2> QED BY <2>1 DEF Covered, Pending
<1>2. ASSUME EnqueueSitemapRegen PROVE Covered'
  <2>1. UNCHANGED <<changes, pc, seen, entry>>
    BY <1>2 DEF EnqueueSitemapRegen
  <2>2. CASE AddDebounced
    <3>1. CASE job["debounced"] \in {"absent", "waiting"}
      <4>1. job'["debounced"] = "waiting"
        BY <2>2, <3>1, <1>t DEF AddDebounced, SetJob, jobVars
      <4> QED BY <4>1 DEF Covered, Pending
    <3>2. CASE job["debounced"] \in {"active", "failed"}
      <4>1. missed' # FALSE
        BY <2>2, <3>2 DEF AddDebounced
      <4> QED BY <4>1, <1>m
    <3> QED BY <3>1, <3>2, <1>t DEF JobStates
  <2>3. CASE missed' = TRUE
    BY <2>3, <1>m
  <2> QED BY <1>2, <2>2, <2>3 DEF EnqueueSitemapRegen
<1>3. ASSUME NightlyTick PROVE Covered'
  <2>1. UNCHANGED <<changes, announcing, pc, seen, entry, missed>>
    BY <1>3 DEF NightlyTick, askVars
  <2>2. job'["debounced"] = job["debounced"]
    BY <1>3, <1>t DEF NightlyTick, SetJob, CronId, Jobs
  <2> QED BY <2>1, <2>2 DEF Covered, Pending
<1>4. ASSUME Evict PROVE Covered'
  <2>1. UNCHANGED <<changes, announcing, pc, seen, entry, missed>>
    BY <1>4 DEF Evict, askVars
  <2>2. job["debounced"] = "failed"
    BY <1>4 DEF Evict
  <2> QED BY <2>1, <2>2 DEF Covered, Pending
<1>5. ASSUME EntryGoes PROVE Covered'
  BY <1>5 DEF EntryGoes, askVars, jobVars, Covered, Pending
<1>6. ASSUME NEW b \in Leaders, ReadEvents(b) \/ ReadOrganizers(b) PROVE Covered'
  <2>1. UNCHANGED <<changes, announcing, job, entry>>
    BY <1>6 DEF ReadEvents, ReadOrganizers, ReadTable, askVars, jobVars
  <2>2. b \notin Jobs
    OBVIOUS
  <2>3. \A j \in Jobs : pc'[j] = pc[j] /\ seen'[j] = seen[j]
    BY <1>6, <1>t, <2>2 DEF ReadEvents, ReadOrganizers, ReadTable
  <2>4. missed' = missed
    BY <1>6, <1>t, <2>2 DEF ReadEvents, ReadOrganizers
  <2> QED BY <1>t, <2>1, <2>3, <2>4 DEF Covered, Pending
<1>7. ASSUME NEW b \in Jobs, ReadEvents(b) PROVE Covered'
  <2>1. changes' = changes
    BY <1>7 DEF ReadEvents, ReadTable, askVars
  <2>2. pc'[b] = "organizers" /\ seen'[b]["events"] = changes["events"]
    BY <1>7, <1>t DEF ReadEvents, ReadTable, Xml, Tables
  <2>3. \A j \in Jobs : j # b => pc'[j] = "idle"
    BY <1>7, <1>t DEF ReadEvents, ReadTable, OneRun
  <2> QED BY <2>1, <2>2, <2>3 DEF Covered
<1>8. ASSUME NEW b \in Jobs, ReadOrganizers(b) PROVE Covered'
  <2>1. UNCHANGED <<changes, announcing, job, entry, missed>>
    BY <1>8 DEF ReadOrganizers, ReadTable, askVars, jobVars
  <2>2. pc[b] = "organizers" /\ pc'[b] = "store"
    BY <1>8, <1>t DEF ReadOrganizers, ReadTable
  <2>3. \A j \in Jobs : j # b => pc[j] = "idle" /\ pc'[j] = "idle"
    BY <1>8, <1>t DEF ReadOrganizers, ReadTable, OneRun
  <2>4. Pending' <=> Pending
    BY <1>t, <2>1, <2>2, <2>3 DEF Pending
  <2>5. ASSUME missed = FALSE, ~Pending PROVE seen'[b] = changes
    <3>1. seen[b]["events"] = changes["events"]
      BY <2>2, <2>5 DEF Covered
    <3>2. seen'[b] = [seen[b] EXCEPT !["organizers"] = changes["organizers"]]
      BY <1>8, <1>t DEF ReadOrganizers, ReadTable
    <3> QED BY <3>1, <3>2, <1>t DEF Xml, Tables
  <2> QED BY <2>1, <2>2, <2>3, <2>4, <2>5 DEF Covered
<1>9. ASSUME NEW j \in Jobs, TakeJob(j) PROVE Covered'
  <2>1. UNCHANGED <<changes, announcing, seen, entry, missed>>
    BY <1>9 DEF TakeJob, askVars
  <2>2. pc'[j] = "events" /\ \A i \in Jobs : i # j => pc'[i] = pc[i] /\ job'[i] = job[i]
    BY <1>9, <1>t DEF TakeJob, SetJob
  <2>3. pc[j] = "idle"
    BY <1>9 DEF TakeJob, TypeInv, RunsWhileActive
  <2>4. Pending => Pending'
    BY <1>t, <2>1, <2>2 DEF Pending
  <2> QED BY <2>1, <2>2, <2>3, <2>4 DEF Covered
<1>10. ASSUME NEW j \in Jobs, StoreXml(j) PROVE Covered'
  <2>1. UNCHANGED <<changes, announcing, missed>> /\ entry' = seen[j] /\ pc[j] = "store"
    BY <1>10 DEF StoreXml, askVars
  <2>2. \A i \in Jobs : pc'[i] = "idle"
    BY <1>10, <1>t DEF StoreXml, Stop, OneRun
  <2>3. job[j] = "active"
    BY <2>1 DEF TypeInv, RunsWhileActive
  <2>4. \A i \in Jobs : i # j => job'[i] = job[i]
    BY <1>10, <1>t DEF StoreXml, SetJob
  <2>5. \A i \in Jobs : i # j => pc[i] = "idle"
    BY <2>1 DEF OneRun
  <2>6. Pending => Pending'
    BY <1>t, <2>1, <2>3, <2>4, <2>5 DEF Pending
  <2> QED BY <2>1, <2>2, <2>6 DEF Covered
<1>11. ASSUME NEW j \in Jobs, RunFails(j) \/ WorkerDies(j) PROVE Covered'
  BY <1>11, <1>m DEF RunFails, WorkerDies
<1>12. ASSUME NEW j \in Jobs, Stall(j) PROVE Covered'
  <2>1. UNCHANGED <<changes, announcing, entry, missed>> /\ pc[j] = "lost"
    BY <1>12 DEF Stall, askVars
  <2>2. /\ \A i \in Jobs : i # j => pc'[i] = pc[i] /\ seen'[i] = seen[i] /\ job'[i] = job[i]
        /\ pc'[j] = "idle"
    BY <1>12, <1>t DEF Stall, Stop, SetJob
  <2>3. job[j] = "active"
    BY <2>1 DEF TypeInv, RunsWhileActive
  <2>4. Pending => Pending'
    BY <1>t, <2>1, <2>2, <2>3 DEF Pending
  <2> QED BY <2>1, <2>2, <2>4 DEF Covered
<1>13. ASSUME NEW l \in Leaders, LeadFlight(l) \/ LeaderStores(l) \/ LeaderFails(l) PROVE Covered'
  <2>1. UNCHANGED <<changes, announcing, job>>
    BY <1>13 DEF LeadFlight, LeaderStores, LeaderFails, askVars, jobVars
  <2>2. l \notin Jobs
    OBVIOUS
  <2>3. \A j \in Jobs : pc'[j] = pc[j] /\ seen'[j] = seen[j]
    BY <1>13, <1>t, <2>2 DEF LeadFlight, LeaderStores, LeaderFails, Stop
  <2>4. entry' = changes \/ UNCHANGED <<entry, missed>> \/ missed' # FALSE
    BY <1>13 DEF LeadFlight, LeaderStores, LeaderFails
  <2>5. missed' = FALSE => missed = FALSE
    BY <1>13, <1>t DEF LeadFlight, LeaderStores, LeaderFails
  <2> QED BY <1>t, <1>m, <2>1, <2>3, <2>4, <2>5 DEF Covered, Pending
<1>14. ASSUME UNCHANGED vars PROVE Covered'
  BY <1>14 DEF vars, askVars, jobVars, Covered, Pending
<1>15. Builders = Jobs \cup Leaders
  BY DEF Builders
<1> HIDE DEF OrderInv
<1> QED
  BY <1>1, <1>2, <1>3, <1>4, <1>5, <1>6, <1>7, <1>8, <1>9, <1>10, <1>11, <1>12, <1>13, <1>14,
     <1>15, Steps, Zenon

(* With one slot, an idle queue leaves every change in the sitemap, unless *)
(* one was not announced, announced to a run under way or a failed job,    *)
(* lost with a run, or overwritten by the route.                           *)
THEOREM IdleIsFresh ==
    ASSUME Concurrency = 1
    PROVE  Spec => []IdleQueueIsFresh
<1>1. Init => OrderInv /\ Covered
  <2>1. Init => Covered
    BY DEF Init, Covered, Builders
  <2> QED BY <2>1, TypeInit, OrderedInit DEF OrderInv
<1>2. OrderInv /\ Covered /\ [Next]_vars => (OrderInv /\ Covered)'
  BY TypeStep, OneRunStep, OrderedStep, CoveredStep DEF OrderInv
<1>3. OrderInv /\ Covered => IdleQueueIsFresh
  <2> SUFFICES ASSUME OrderInv, Covered, QueueIsIdle, ~missed PROVE entry \in {NoEntry, changes}
    BY DEF IdleQueueIsFresh
  <2>1. missed = FALSE
    BY DEF OrderInv, TypeInv, Typed
  <2>2. \A j \in Jobs : pc[j] = "idle"
    BY DEF QueueIsIdle, OrderInv, TypeInv, RunsWhileActive
  <2>3. ~Pending
    BY <2>2 DEF QueueIsIdle, Pending, Jobs
  <2> QED BY <2>1, <2>2, <2>3 DEF Covered
<1> QED BY <1>1, <1>2, <1>3, PTL DEF Spec
=============================================================================
