----------------------------- MODULE SlugsProofs -----------------------------
(***************************************************************************)
(* Slugs, for any number of resources, requests and titles.  Redirects     *)
(* point home because a rename still finds the slug it read.  Old links    *)
(* lead because, from the moment a request has seen its candidate active   *)
(* nowhere, another resource needs one change to take the candidate and a  *)
(* second to leave it behind as a redirect.                                *)
(***************************************************************************)
EXTENDS Slugs, TLAPS

RequestOK(t) ==
    /\ pc[t] = "idle" => target[t] = None /\ read[t] = None /\ try[t] = 1
    /\ pc[t] # "idle" => target[t] \in Resources
    /\ read[t] # None => slug[target[t]] # None

(* While renames do not overlap, each finds what it read.                  *)
RenamesAlone ==
    OneRenameAtATime =>
        \A t \in Requests : read[t] # None =>
            /\ slug[target[t]] = read[t]
            /\ \A u \in Requests : Renames(u, target[t]) => u = t

RedirectsLead == \A s \in Slugs : owner[s] # None => leads[s] # None

IInv ==
    /\ TypeOK
    /\ \A t \in Requests : RequestOK(t)
    /\ RenamesAlone
    /\ RedirectsLead
    /\ RedirectsPointHome

LEMMA CandidateIsSlug ==
    ASSUME TypeOK, NEW t \in Requests, pc[t] # "idle"
    PROVE  Candidate(t) \in Slugs
BY SlugsAssumption DEF TypeOK, Candidate

LEMMA LengthIsPositive ==
    ASSUME NEW ti \in Titles
    PROVE  Len(Candidates[ti]) \in Nat \ {0}
<1>1. Candidates[ti] \in Seq(Slugs) /\ Candidates[ti] # <<>>
  BY SlugsAssumption
<1> QED BY <1>1

LEMMA InitIInv == Init => IInv
<1> SUFFICES ASSUME Init PROVE IInv
  OBVIOUS
<1>1. TypeOK
  <2>1. 1 \in 1 .. Attempts
    BY SlugsAssumption
  <2>2. behind \in [Requests -> [Resources -> 0 .. 2]]
    BY DEF Init, NoneBehind
  <2>3. /\ pc \in [Requests -> Steps]
        /\ \A t \in Requests : pc[t] # "idle" =>
              title[t] \in Titles /\ try[t] <= Len(Candidates[title[t]])
    BY DEF Init, Steps
  <2>4. /\ slug \in [Resources -> Slugs \cup {None}]
        /\ owner \in [Slugs -> Resources \cup {None}]
        /\ leads \in [Slugs -> Slugs \cup {None}]
        /\ had \in [Resources -> SUBSET Slugs]
    BY DEF Init
  <2>5. /\ target \in [Requests -> Resources \cup {None}]
        /\ title \in [Requests -> Titles \cup {None}]
        /\ read \in [Requests -> Slugs \cup {None}]
    BY DEF Init
  <2>6. try \in [Requests -> Nat \ {0}] /\ attempt \in [Requests -> 1 .. Attempts]
    BY <2>1 DEF Init
  <2>7. kind \in {"event", "organizer"} /\ lapped \in BOOLEAN /\ overlapped \in BOOLEAN
    BY DEF Init
  <2> QED BY <2>2, <2>3, <2>4, <2>5, <2>6, <2>7 DEF TypeOK
<1>2. ASSUME NEW t \in Requests PROVE RequestOK(t)
  BY DEF Init, RequestOK
<1>3. RenamesAlone /\ RedirectsLead /\ RedirectsPointHome
  BY DEF Init, RenamesAlone, RedirectsLead, RedirectsPointHome
<1> QED BY <1>1, <1>2, <1>3 DEF IInv

LEMMA ForgetType ==
    ASSUME TypeOK, NEW t \in Requests, Forget(t)
    PROVE  behind' \in [Requests -> [Resources -> 0 .. 2]]
BY DEF TypeOK, Forget, NoneBehind

(* A request that ends without a change.                                   *)
LEMMA FinishIInv ==
    ASSUME IInv, NEW t \in Requests, Finish(t), Forget(t),
           UNCHANGED <<kind, rows, had, lapped, overlapped>>
    PROVE  IInv'
<1> USE DEF IInv, Finish, rows
<1>1. TypeOK'
  <2>1. behind' \in [Requests -> [Resources -> 0 .. 2]]
    BY ForgetType
  <2>2. 1 \in 1 .. Attempts /\ "idle" \in Steps
    BY SlugsAssumption DEF Steps
  <2>3. /\ pc' \in [Requests -> Steps]
        /\ try' \in [Requests -> Nat \ {0}] /\ attempt' \in [Requests -> 1 .. Attempts]
    BY <2>2 DEF TypeOK
  <2>4. /\ target' \in [Requests -> Resources \cup {None}]
        /\ title' \in [Requests -> Titles \cup {None}]
        /\ read' \in [Requests -> Slugs \cup {None}]
    BY DEF TypeOK
  <2>5. \A u \in Requests : pc'[u] # "idle" =>
            title'[u] \in Titles /\ try'[u] <= Len(Candidates[title'[u]])
    BY DEF TypeOK
  <2> QED BY <2>1, <2>3, <2>4, <2>5 DEF TypeOK
<1>2. ASSUME NEW u \in Requests PROVE RequestOK(u)'
  BY DEF RequestOK, TypeOK
<1>3. RenamesAlone'
  BY DEF RenamesAlone, OneRenameAtATime, Renames, TypeOK
<1>4. RedirectsLead' /\ RedirectsPointHome'
  BY DEF RedirectsLead, RedirectsPointHome, OneRenameAtATime
<1> QED BY <1>1, <1>2, <1>3, <1>4

LEMMA StartIInv ==
    ASSUME IInv, NEW t \in Requests, NEW r \in Resources, NEW ti \in Titles,
           StartCreate(t, r, ti) \/ StartRename(t, r, ti)
    PROVE  IInv'
<1> USE DEF IInv, Start, rows
<1>1. TypeOK'
  <2>1. 1 <= Len(Candidates[ti]) /\ try[t] = 1
    BY LengthIsPositive DEF StartCreate, StartRename, RequestOK
  <2>2. \A u \in Requests : pc'[u] # "idle" =>
            title'[u] \in Titles /\ try'[u] <= Len(Candidates[title'[u]])
    BY <2>1 DEF StartCreate, StartRename, TypeOK
  <2>3. read' \in [Requests -> Slugs \cup {None}] /\ overlapped' \in BOOLEAN
    BY DEF StartCreate, StartRename, TypeOK
  <2>4. /\ pc' \in [Requests -> Steps]
        /\ target' \in [Requests -> Resources \cup {None}]
        /\ title' \in [Requests -> Titles \cup {None}]
    <3>1. /\ pc' = [pc EXCEPT ![t] = "active"] /\ target' = [target EXCEPT ![t] = r]
          /\ title' = [title EXCEPT ![t] = ti]
      BY DEF StartCreate, StartRename
    <3>2. pc' \in [Requests -> Steps]
      BY <3>1 DEF TypeOK, Steps
    <3> QED BY <3>1, <3>2 DEF TypeOK
  <2>5. UNCHANGED <<kind, slug, owner, leads, try, attempt, behind, had, lapped>>
    BY DEF StartCreate, StartRename
  <2> QED BY <2>2, <2>3, <2>4, <2>5 DEF TypeOK
<1>2. ASSUME NEW u \in Requests PROVE RequestOK(u)'
  BY SlugsAssumption DEF StartCreate, StartRename, RequestOK, TypeOK
<1>3. RenamesAlone'
  <2>1. CASE StartCreate(t, r, ti)
    <3>1. /\ UNCHANGED <<kind, slug, overlapped>> /\ read'[t] = None
          /\ \A u \in Requests \ {t} : /\ target'[u] = target[u] /\ read'[u] = read[u]
                                      /\ pc'[u] = pc[u]
      BY <2>1 DEF StartCreate, TypeOK
    <3> QED BY <3>1 DEF RenamesAlone, OneRenameAtATime, Renames
  <2>2. CASE StartRename(t, r, ti)
    <3> SUFFICES ASSUME OneRenameAtATime', NEW w \in Requests, read'[w] # None
                 PROVE  /\ slug'[target'[w]] = read'[w]
                        /\ \A u \in Requests : Renames(u, target[w])' => u = w
      BY DEF RenamesAlone, Renames
    <3>1. OneRenameAtATime /\ \A u \in Requests : ~Renames(u, r)
      BY <2>2 DEF StartRename, OneRenameAtATime
    <3>2. /\ target'[t] = r /\ read'[t] = slug[r] /\ slug' = slug
          /\ \A u \in Requests \ {t} : /\ target'[u] = target[u] /\ read'[u] = read[u]
                                      /\ pc'[u] = pc[u]
      BY <2>2 DEF StartRename, TypeOK
    <3> QED BY <3>1, <3>2 DEF RenamesAlone, Renames, RequestOK
  <2> QED BY <2>1, <2>2
<1>4. RedirectsLead' /\ RedirectsPointHome'
  BY DEF StartCreate, StartRename, RedirectsLead, RedirectsPointHome, OneRenameAtATime, TypeOK
<1> QED BY <1>1, <1>2, <1>3, <1>4

(* A request that goes on without a change: only pc, try, attempt and its  *)
(* own history move.                                                       *)
LEMMA GoOnIInv ==
    ASSUME IInv, NEW t \in Requests, pc[t] # "idle",
           UNCHANGED <<kind, rows, target, title, read, had, lapped, overlapped>>,
           pc' \in [Requests -> Steps], pc'[t] # "idle",
           \A u \in Requests \ {t} : pc'[u] = pc[u] /\ try'[u] = try[u],
           try' \in [Requests -> Nat \ {0}], try'[t] <= Len(Candidates[title[t]]),
           attempt' \in [Requests -> 1 .. Attempts],
           behind' \in [Requests -> [Resources -> 0 .. 2]]
    PROVE  IInv'
<1> USE DEF IInv, rows
<1>1. TypeOK'
  BY DEF TypeOK
<1>2. ASSUME NEW u \in Requests PROVE RequestOK(u)'
  BY DEF RequestOK
<1>3. RenamesAlone'
  BY DEF RenamesAlone, OneRenameAtATime, Renames
<1>4. RedirectsLead' /\ RedirectsPointHome'
  BY DEF RedirectsLead, RedirectsPointHome, OneRenameAtATime
<1> QED BY <1>1, <1>2, <1>3, <1>4

LEMMA CheckIInv ==
    ASSUME IInv, NEW t \in Requests, CheckActive(t) \/ CheckRedirects(t)
    PROVE  IInv'
<1> USE DEF IInv
<1>1. title[t] \in Titles /\ pc[t] # "idle" /\ try[t] \in Nat \ {0}
  BY DEF CheckActive, CheckRedirects, TypeOK
<1>2. Len(Candidates[title[t]]) \in Nat \ {0}
  BY <1>1, LengthIsPositive
<1>3. CASE Finish(t) /\ Forget(t)
  <2>1. UNCHANGED <<kind, rows, had, lapped, overlapped>>
    BY <1>3 DEF CheckActive, CheckRedirects
  <2> QED BY <1>3, <2>1, FinishIInv
<1>4. CASE ~(Finish(t) /\ Forget(t))
  <2>1. UNCHANGED <<kind, rows, target, title, read, attempt, had, lapped, overlapped>>
    BY <1>4 DEF CheckActive, CheckRedirects, NextCandidate
  <2>2. /\ pc' \in [Requests -> Steps] /\ pc'[t] # "idle"
        /\ \A u \in Requests \ {t} : pc'[u] = pc[u] /\ try'[u] = try[u]
    BY <1>4 DEF CheckActive, CheckRedirects, NextCandidate, TypeOK, Steps
  <2>3. try' \in [Requests -> Nat \ {0}] /\ try'[t] <= Len(Candidates[title[t]])
    <3>1. \/ try' = try
          \/ try' = [try EXCEPT ![t] = @ + 1] /\ try[t] < Len(Candidates[title[t]])
      BY <1>4 DEF CheckActive, CheckRedirects, NextCandidate
    <3>2. try[t] <= Len(Candidates[title[t]]) /\ try \in [Requests -> Nat \ {0}]
      BY <1>1 DEF TypeOK
    <3>3. CASE try' = try
      BY <3>2, <3>3
    <3>4. CASE try' = [try EXCEPT ![t] = @ + 1] /\ try[t] < Len(Candidates[title[t]])
      BY <1>2, <3>2, <3>4
    <3> QED BY <3>1, <3>3, <3>4
  <2>4. behind' \in [Requests -> [Resources -> 0 .. 2]]
    <3>1. behind' = behind \/ Forget(t)
      BY <1>4 DEF CheckActive, CheckRedirects, NextCandidate
    <3> QED BY <3>1, ForgetType DEF TypeOK
  <2>5. attempt' \in [Requests -> 1 .. Attempts]
    BY <2>1 DEF TypeOK
  <2> QED BY <1>1, <2>1, <2>2, <2>3, <2>4, <2>5, GoOnIInv
<1> QED BY <1>3, <1>4

LEMMA ViolatesIInv ==
    ASSUME IInv, NEW t \in Requests, InsertViolates(t)
    PROVE  IInv'
<1> USE DEF IInv
<1>1. title[t] \in Titles /\ pc[t] # "idle"
  BY DEF InsertViolates, TypeOK
<1>2. Len(Candidates[title[t]]) \in Nat \ {0}
  BY <1>1, LengthIsPositive
<1>3. UNCHANGED <<kind, rows, had, lapped, overlapped>> /\ Forget(t)
  BY DEF InsertViolates
<1>4. CASE Finish(t)
  BY <1>3, <1>4, FinishIInv
<1>5. CASE ~Finish(t)
  <2>1. UNCHANGED <<target, title, read>>
    BY <1>5 DEF InsertViolates
  <2>2. /\ pc' \in [Requests -> Steps] /\ pc'[t] # "idle"
        /\ \A u \in Requests \ {t} : pc'[u] = pc[u] /\ try'[u] = try[u]
    BY <1>5 DEF InsertViolates, TypeOK, Steps
  <2>3. try' \in [Requests -> Nat \ {0}] /\ try'[t] <= Len(Candidates[title[t]])
    BY <1>1, <1>2, <1>5 DEF InsertViolates, TypeOK
  <2>4. attempt' \in [Requests -> 1 .. Attempts]
    BY <1>5, SlugsAssumption DEF InsertViolates, TypeOK
  <2>5. behind' \in [Requests -> [Resources -> 0 .. 2]]
    BY <1>3, ForgetType
  <2> QED BY <1>1, <1>3, <2>1, <2>2, <2>3, <2>4, <2>5, GoOnIInv
<1> QED BY <1>4, <1>5

LEMMA TakeSlugTypes ==
    ASSUME IInv, NEW t \in Requests, pc[t] = "write", TakeSlug(t),
           UNCHANGED <<kind, overlapped>>,
           owner' \in [Slugs -> Resources \cup {None}],
           leads' \in [Slugs -> Slugs \cup {None}]
    PROVE  TypeOK'
<1>1. target[t] \in Resources /\ Candidate(t) \in Slugs
  BY CandidateIsSlug DEF IInv, RequestOK
<1>2. behind' \in [Requests -> [Resources -> 0 .. 2]]
  BY DEF TakeSlug, IInv, TypeOK
<1>3. slug' \in [Resources -> Slugs \cup {None}] /\ had' \in [Resources -> SUBSET Slugs]
  BY <1>1 DEF TakeSlug, IInv, TypeOK
<1>4. lapped' \in BOOLEAN
  BY DEF TakeSlug, IInv, TypeOK
<1>5. /\ pc' \in [Requests -> Steps]
      /\ target' \in [Requests -> Resources \cup {None}]
      /\ title' \in [Requests -> Titles \cup {None}]
      /\ try' \in [Requests -> Nat \ {0}] /\ attempt' \in [Requests -> 1 .. Attempts]
      /\ read' \in [Requests -> Slugs \cup {None}]
  BY SlugsAssumption DEF TakeSlug, Finish, IInv, TypeOK, Steps
<1>6. \A u \in Requests : pc'[u] # "idle" =>
          title'[u] \in Titles /\ try'[u] <= Len(Candidates[title'[u]])
  BY DEF TakeSlug, Finish, IInv, TypeOK
<1> QED BY <1>2, <1>3, <1>4, <1>5, <1>6 DEF IInv, TypeOK

LEMMA InsertIInv ==
    ASSUME IInv, NEW t \in Requests, Insert(t)
    PROVE  IInv'
<1>1. target[t] \in Resources /\ Candidate(t) \in Slugs
  BY CandidateIsSlug DEF Insert, IInv, RequestOK
<1>2. TypeOK'
  BY TakeSlugTypes DEF Insert, IInv, TypeOK
<1>3. ASSUME NEW u \in Requests PROVE RequestOK(u)'
  BY <1>1, SlugsAssumption DEF Insert, TakeSlug, Finish, IInv, RequestOK, TypeOK
<1>4. RenamesAlone'
  BY <1>1, SlugsAssumption
     DEF Insert, TakeSlug, Finish, IInv, RequestOK, RenamesAlone, OneRenameAtATime, Renames, TypeOK
<1>5. RedirectsLead'
  BY DEF Insert, IInv, RedirectsLead
<1>6. RedirectsPointHome'
  BY <1>1 DEF Insert, TakeSlug, IInv, RedirectsLead, RedirectsPointHome, OneRenameAtATime, TypeOK
<1> QED BY <1>2, <1>3, <1>4, <1>5, <1>6 DEF IInv

LEMMA RenameIInv ==
    ASSUME IInv, NEW t \in Requests, Rename(t)
    PROVE  IInv'
<1>1. /\ target[t] \in Resources /\ Candidate(t) \in Slugs
      /\ read[t] \in Slugs /\ read[t] # Candidate(t)
  BY CandidateIsSlug DEF Rename, IInv, RequestOK, TypeOK
<1>2. /\ owner' \in [Slugs -> Resources \cup {None}]
      /\ leads' \in [Slugs -> Slugs \cup {None}]
  BY <1>1 DEF Rename, RecordRedirect, IInv, TypeOK
<1>3. TypeOK'
  BY <1>2, TakeSlugTypes DEF Rename
<1>4. ASSUME NEW u \in Requests PROVE RequestOK(u)'
  BY <1>1, SlugsAssumption DEF Rename, TakeSlug, Finish, IInv, RequestOK, TypeOK
<1>5. RenamesAlone'
  BY <1>1, SlugsAssumption
     DEF Rename, TakeSlug, Finish, IInv, RequestOK, RenamesAlone, OneRenameAtATime, Renames, TypeOK
<1>6. RedirectsLead'
  BY <1>1, SlugsAssumption DEF Rename, RecordRedirect, IInv, RedirectsLead
<1>7. RedirectsPointHome'
  <2> SUFFICES ASSUME OneRenameAtATime', NEW s \in Slugs, owner'[s] # None
               PROVE  leads'[s] = slug'[owner'[s]]
    BY DEF RedirectsPointHome
  <2>1. OneRenameAtATime
    BY DEF Rename, OneRenameAtATime
  <2>2. slug[target[t]] = read[t] /\ (owner[s] # None => leads[s] = slug[owner[s]])
    BY <1>1, <2>1, SlugsAssumption DEF IInv, RenamesAlone, RedirectsPointHome
  <2>3. \A o \in Resources :
            slug'[o] = IF o = target[t] THEN Candidate(t) ELSE slug[o]
    BY <1>1 DEF Rename, TakeSlug, IInv, TypeOK
  <2> QED BY <1>1, <2>2, <2>3, SlugsAssumption DEF Rename, RecordRedirect, IInv, TypeOK
<1> QED BY <1>3, <1>4, <1>5, <1>6, <1>7 DEF IInv

LEMMA NextIInv == IInv /\ [Next]_vars => IInv'
<1> SUFFICES ASSUME IInv, [Next]_vars PROVE IInv'
  OBVIOUS
<1>1. ASSUME NEW t \in Requests, NEW r \in Resources, NEW ti \in Titles,
             StartCreate(t, r, ti) \/ StartRename(t, r, ti)
      PROVE  IInv'
  BY <1>1, StartIInv
<1>2. ASSUME NEW t \in Requests, CheckActive(t) \/ CheckRedirects(t) PROVE IInv'
  BY <1>2, CheckIInv
<1>3. ASSUME NEW t \in Requests, Insert(t) PROVE IInv'
  BY <1>3, InsertIInv
<1>4. ASSUME NEW t \in Requests, InsertViolates(t) PROVE IInv'
  BY <1>4, ViolatesIInv
<1>5. ASSUME NEW t \in Requests, Rename(t) PROVE IInv'
  BY <1>5, RenameIInv
<1>6. ASSUME NEW t \in Requests, KeepSlug(t) \/ Abort(t) PROVE IInv'
  BY <1>6, FinishIInv DEF KeepSlug, Abort
<1>7. CASE UNCHANGED vars
  BY <1>7 DEF IInv, TypeOK, RequestOK, RenamesAlone, RedirectsLead, RedirectsPointHome,
              OneRenameAtATime, Renames, vars, rows, requests
<1> QED BY <1>1, <1>2, <1>3, <1>4, <1>5, <1>6, <1>7 DEF Next

THEOREM Invariance == Spec => []IInv
BY InitIInv, NextIInv, PTL DEF Spec

(* The type invariant holds in every reachable state.                      *)
THEOREM TypeCorrect == Spec => []TypeOK
<1>1. IInv => TypeOK
  BY DEF IInv
<1> QED BY <1>1, Invariance, PTL

(* Every redirect leads straight to the slug its resource has now, in any  *)
(* number of renames, as long as renames of one organizer do not overlap.  *)
THEOREM RedirectsHome == Spec => []RedirectsPointHome
<1>1. IInv => RedirectsPointHome
  BY DEF IInv
<1> QED BY <1>1, Invariance, PTL

-----------------------------------------------------------------------------
Calm == OneRenameAtATime /\ ~lapped

(* Whoever had a slug has it or its redirect, and nobody else has it.      *)
LinkOK(r) ==
    /\ slug[r] # None => slug[r] \in had[r]
    /\ slug[r] = None => had[r] = {}
    /\ \A s \in had[r] : slug[r] = s \/ owner[s] = r
    /\ \A s \in Slugs : owner[s] = r => s \in had[r] /\ slug[r] # s
    /\ \A o \in Resources \ {r}, s \in had[r] : slug[o] # s

(* What request t knows of resource o, by the changes of o since t saw its *)
(* candidate active nowhere.                                               *)
WindowOK(t, o) ==
    /\ pc[t] \in {"redirects", "write"} /\ behind[t][o] = 0 =>
          slug[o] # Candidate(t)
    /\ pc[t] = "write" /\ behind[t][o] \in {0, 1} =>
          slug[o] = Candidate(t) \/ Candidate(t) \notin had[o]

LinkInv ==
    Calm => /\ \A r \in Resources : LinkOK(r)
            /\ \A t \in Requests, o \in Resources :
                  o # target[t] => WindowOK(t, o)

LEMMA InitLinkInv == Init => LinkInv
BY SlugsAssumption DEF Init, LinkInv, LinkOK, WindowOK

LEMMA CalmBefore ==
    ASSUME IInv, [Next]_vars, Calm'
    PROVE  Calm
<1>1. \/ UNCHANGED <<kind, lapped, overlapped>>
      \/ \E t \in Requests, r \in Resources, ti \in Titles :
            StartCreate(t, r, ti) \/ StartRename(t, r, ti)
      \/ \E t \in Requests : Insert(t) \/ Rename(t)
  BY DEF Next, CheckActive, CheckRedirects, InsertViolates, KeepSlug, Abort, vars, requests
<1>2. UNCHANGED kind /\ (lapped => lapped') /\ (overlapped => overlapped')
  <2>1. CASE UNCHANGED <<kind, lapped, overlapped>>
    BY <2>1
  <2>2. ASSUME NEW t \in Requests, NEW r \in Resources, NEW ti \in Titles,
               StartCreate(t, r, ti) \/ StartRename(t, r, ti)
        PROVE  UNCHANGED <<kind, lapped>> /\ (overlapped => overlapped')
    <3>1. UNCHANGED <<kind, lapped>>
      BY <2>2 DEF StartCreate, StartRename, Start
    <3>2. CASE StartCreate(t, r, ti)
      BY <3>1, <3>2 DEF StartCreate
    <3>3. CASE StartRename(t, r, ti)
      <4>1. overlapped => overlapped'
        BY <3>3, Zenon DEF StartRename
      <4> QED BY <3>1, <4>1
    <3> QED BY <2>2, <3>2, <3>3
  <2>3. ASSUME NEW t \in Requests, Insert(t) \/ Rename(t)
        PROVE  UNCHANGED <<kind, overlapped>> /\ (lapped => lapped')
    BY <2>3, Zenon DEF Insert, Rename, TakeSlug
  <2> QED BY <1>1, <2>1, <2>2, <2>3
<1> QED BY <1>2 DEF Calm, OneRenameAtATime

(* A step that writes no row and finishes or starts a request.             *)
LEMMA QuietLinkInv ==
    ASSUME IInv, LinkInv, Calm, NEW t \in Requests,
           UNCHANGED <<slug, owner, had>>,
           pc'[t] \in {"idle", "active"},
           \A u \in Requests \ {t} :
              /\ pc'[u] = pc[u] /\ target'[u] = target[u] /\ behind'[u] = behind[u]
              /\ title'[u] = title[u] /\ try'[u] = try[u]
    PROVE  LinkInv'
<1>1. ASSUME NEW r \in Resources PROVE LinkOK(r)'
  BY DEF LinkInv, LinkOK
<1>2. ASSUME NEW u \in Requests, NEW o \in Resources, (o # target[u])'
      PROVE  WindowOK(u, o)'
  BY <1>2 DEF LinkInv, WindowOK, Candidate
<1> QED BY <1>1, <1>2 DEF LinkInv

LEMMA CheckActiveLinkInv ==
    ASSUME IInv, LinkInv, Calm, NEW t \in Requests, CheckActive(t)
    PROVE  LinkInv'
<1>1. CASE ActiveElsewhere(t)
  <2>1. UNCHANGED <<slug, owner, had>>
    BY <1>1 DEF CheckActive, rows
  <2>2. /\ pc'[t] \in {"idle", "active"}
        /\ \A u \in Requests \ {t} :
              /\ pc'[u] = pc[u] /\ target'[u] = target[u] /\ behind'[u] = behind[u]
              /\ title'[u] = title[u] /\ try'[u] = try[u]
    BY <1>1 DEF CheckActive, NextCandidate, Forget, Finish, IInv, TypeOK
  <2> QED BY <2>1, <2>2, QuietLinkInv
<1>2. CASE ~ActiveElsewhere(t)
  <2>1. /\ UNCHANGED <<slug, owner, had, target, title, try, read>>
        /\ pc'[t] = "redirects" /\ behind'[t] = NoneBehind
        /\ \A u \in Requests \ {t} : pc'[u] = pc[u] /\ behind'[u] = behind[u]
    BY <1>2 DEF CheckActive, Forget, rows, IInv, TypeOK
  <2>2. ASSUME NEW r \in Resources PROVE LinkOK(r)'
    BY <2>1 DEF LinkInv, LinkOK
  <2>3. ASSUME NEW u \in Requests, NEW o \in Resources, (o # target[u])'
        PROVE  WindowOK(u, o)'
    BY <1>2, <2>1, <2>3 DEF LinkInv, WindowOK, Candidate, ActiveElsewhere
  <2> QED BY <2>2, <2>3 DEF LinkInv
<1> QED BY <1>1, <1>2

(* Nothing redirects the candidate elsewhere: whoever had it has it now.   *)
LEMMA CheckRedirectsLinkInv ==
    ASSUME IInv, LinkInv, Calm, NEW t \in Requests, CheckRedirects(t)
    PROVE  LinkInv'
<1>1. CASE RedirectsElsewhere(t)
  <2>1. UNCHANGED <<slug, owner, had>>
    BY <1>1 DEF CheckRedirects, rows
  <2>2. /\ pc'[t] \in {"idle", "active"}
        /\ \A u \in Requests \ {t} :
              /\ pc'[u] = pc[u] /\ target'[u] = target[u] /\ behind'[u] = behind[u]
              /\ title'[u] = title[u] /\ try'[u] = try[u]
    BY <1>1 DEF CheckRedirects, NextCandidate, Forget, Finish, IInv, TypeOK
  <2> QED BY <2>1, <2>2, QuietLinkInv
<1>2. CASE ~RedirectsElsewhere(t)
  <2>1. /\ UNCHANGED <<slug, owner, had, target, title, try, read, behind>>
        /\ pc[t] = "redirects"
        /\ \A u \in Requests \ {t} : pc'[u] = pc[u]
    BY <1>2 DEF CheckRedirects, rows, IInv, TypeOK
  <2>2. ASSUME NEW r \in Resources PROVE LinkOK(r)'
    BY <2>1 DEF LinkInv, LinkOK
  <2>3. ASSUME NEW o \in Resources, o # target[t]
        PROVE  slug[o] = Candidate(t) \/ Candidate(t) \notin had[o]
    BY <1>2, <2>3, SlugsAssumption DEF LinkInv, LinkOK, RedirectsElsewhere
  <2>4. ASSUME NEW u \in Requests, NEW o \in Resources, (o # target[u])'
        PROVE  WindowOK(u, o)'
    BY <2>1, <2>3, <2>4 DEF LinkInv, WindowOK, Candidate
  <2> QED BY <2>2, <2>4 DEF LinkInv
<1> QED BY <1>1, <1>2

(* The candidate a request takes was never anyone else's.                  *)
LEMMA TakenIsNew ==
    ASSUME IInv, LinkInv, Calm, NEW t \in Requests, pc[t] = "write",
           TakeSlug(t), ~lapped', NEW o \in Resources, o # target[t]
    PROVE  Candidate(t) \notin had[o] /\ slug[o] # Candidate(t)
<1>1. slug[o] # Candidate(t)
  BY DEF TakeSlug, Collides
<1>2. behind[t][o] # 2
  BY Zenon DEF TakeSlug
<1>3. behind[t][o] \in {0, 1}
  BY <1>2 DEF IInv, TypeOK
<1> QED BY <1>1, <1>3 DEF LinkInv, WindowOK

(* The others' windows after a slug is taken: one change more.             *)
LEMMA TakeSlugWindows ==
    ASSUME IInv, LinkInv, Calm, NEW t \in Requests, pc[t] = "write", TakeSlug(t),
           NEW u \in Requests, NEW o \in Resources, (o # target[u])'
    PROVE  WindowOK(u, o)'
<1>1. target[t] \in Resources
  BY DEF IInv, RequestOK
<1>2. CASE u = t
  BY <1>2 DEF TakeSlug, Finish, WindowOK, IInv, TypeOK
<1>3. CASE u # t
  <2>1. /\ pc'[u] = pc[u] /\ target'[u] = target[u]
        /\ title'[u] = title[u] /\ try'[u] = try[u]
    BY <1>3 DEF TakeSlug, Finish, IInv, TypeOK
  <2>2. Candidate(u)' = Candidate(u)
    BY <2>1 DEF Candidate
  <2>3. CASE o = target[t]
    <3>1. pc[u] \in {"redirects", "write"} /\ behind'[u][o] \in {0, 1} =>
              behind[u][o] = 0 /\ behind'[u][o] = 1
      BY <1>3, <2>3 DEF TakeSlug, IInv, TypeOK
    <3>2. had'[o] = had[o] \cup {Candidate(t)} /\ slug'[o] = Candidate(t)
      BY <1>1, <2>3 DEF TakeSlug, IInv, TypeOK
    <3>3. pc[u] = "write" /\ behind[u][o] = 0 => Candidate(u) \notin had[o]
      BY <2>1 DEF LinkInv, WindowOK
    <3> QED BY <2>1, <2>2, <3>1, <3>2, <3>3 DEF WindowOK
  <2>4. CASE o # target[t]
    <3>1. behind'[u][o] = behind[u][o] /\ had'[o] = had[o] /\ slug'[o] = slug[o]
      BY <1>1, <1>3, <2>4 DEF TakeSlug, IInv, TypeOK
    <3> QED BY <2>1, <2>2, <3>1 DEF LinkInv, WindowOK
  <2> QED BY <2>3, <2>4
<1> QED BY <1>2, <1>3

LEMMA InsertLinkInv ==
    ASSUME IInv, LinkInv, Calm, Calm', NEW t \in Requests, Insert(t)
    PROVE  LinkInv'
<1>1. /\ pc[t] = "write" /\ TakeSlug(t) /\ ~lapped' /\ owner' = owner
      /\ slug[target[t]] = None
  BY DEF Insert, Calm
<1>2. target[t] \in Resources /\ Candidate(t) \in Slugs
  BY <1>1, CandidateIsSlug DEF IInv, RequestOK
<1>3. \A o \in Resources :
          /\ slug'[o] = IF o = target[t] THEN Candidate(t) ELSE slug[o]
          /\ had'[o] = IF o = target[t] THEN had[o] \cup {Candidate(t)} ELSE had[o]
  BY <1>1, <1>2 DEF TakeSlug, IInv, TypeOK
<1>4. \A o \in Resources : o # target[t] =>
          Candidate(t) \notin had[o] /\ slug[o] # Candidate(t)
  BY <1>1, TakenIsNew
<1>5. had[target[t]] = {}
  BY <1>1, <1>2 DEF LinkInv, LinkOK
<1>6. ASSUME NEW r \in Resources PROVE LinkOK(r)'
  <2> USE DEF LinkOK
  <2>1. LinkOK(r)
    BY DEF LinkInv
  <2>2. CASE r = target[t]
    <3>1. slug'[r] = Candidate(t) /\ had'[r] = {Candidate(t)}
      BY <1>2, <1>3, <1>5, <2>2
    <3>2. \A s \in Slugs : owner'[s] # r
      BY <1>1, <1>5, <2>1, <2>2
    <3>3. \A o \in Resources \ {r} : slug'[o] # Candidate(t)
      BY <1>3, <1>4, <2>2
    <3> QED BY <1>2, <3>1, <3>2, <3>3, SlugsAssumption
  <2>3. CASE r # target[t]
    <3>1. slug'[r] = slug[r] /\ had'[r] = had[r]
      BY <1>3, <2>3
    <3>2. ASSUME NEW o \in Resources \ {r}, NEW s \in had[r] PROVE slug'[o] # s
      <4>1. CASE o = target[t]
        BY <1>3, <1>4, <2>3, <4>1
      <4>2. CASE o # target[t]
        BY <1>3, <2>1, <4>2
      <4> QED BY <4>1, <4>2
    <3> QED BY <1>1, <2>1, <3>1, <3>2
  <2> QED BY <2>2, <2>3
<1>7. ASSUME NEW u \in Requests, NEW o \in Resources, (o # target[u])'
      PROVE  WindowOK(u, o)'
  BY <1>1, <1>7, TakeSlugWindows
<1> QED BY <1>6, <1>7 DEF LinkInv

LEMMA RenameLinkInv ==
    ASSUME IInv, LinkInv, Calm, Calm', NEW t \in Requests, Rename(t)
    PROVE  LinkInv'
<1> DEFINE r == target[t]
           old == read[t]
           new == Candidate(t)
<1>1. pc[t] = "write" /\ TakeSlug(t) /\ ~lapped'
  BY DEF Rename, Calm
<1>2. /\ r \in Resources /\ new \in Slugs /\ old \in Slugs
      /\ slug[r] = old /\ old # new
  BY <1>1, CandidateIsSlug DEF Rename, Calm, IInv, TypeOK, RequestOK, RenamesAlone
<1>3. \A o \in Resources :
          /\ slug'[o] = IF o = r THEN new ELSE slug[o]
          /\ had'[o] = IF o = r THEN had[o] \cup {new} ELSE had[o]
  BY <1>1, <1>2 DEF TakeSlug, IInv, TypeOK
<1>4. \A o \in Resources : o # r => new \notin had[o] /\ slug[o] # new
  BY <1>1, TakenIsNew
<1>5. \A s \in Slugs :
          owner'[s] = IF s = old THEN r
                      ELSE IF s = new /\ owner[s] = r THEN None ELSE owner[s]
  BY DEF Rename, RecordRedirect
<1>6. old \in had[r] /\ \A o \in Resources : o # r => old \notin had[o]
  BY <1>2, SlugsAssumption DEF LinkInv, LinkOK
<1>7. \A o \in Resources : had[o] \in SUBSET Slugs
  BY DEF IInv, TypeOK
<1>8. ASSUME NEW o \in Resources PROVE LinkOK(o)'
  <2> HIDE DEF r, old, new
  <2>0. LinkOK(o) /\ LinkOK(r)
    BY <1>2 DEF LinkInv
  <2> USE <2>0 DEF LinkOK
  <2>1. CASE o = r
    <3>0. had'[o] = had[r] \cup {new} /\ slug'[o] = new /\ had[r] \in SUBSET Slugs
      BY <1>2, <1>3, <1>7, <2>1
    <3>1. slug'[o] # None /\ slug'[o] \in had'[o]
      BY <1>2, <1>3, <2>1, SlugsAssumption
    <3>2. ASSUME NEW s \in had'[o] PROVE slug'[o] = s \/ owner'[s] = o
      <4>1. s \in Slugs /\ (s = new \/ s \in had[r])
        BY <1>2, <3>0
      <4>2. CASE s = new \/ s = old
        BY <1>2, <1>3, <1>5, <2>1, <4>2
      <4>3. CASE s # new /\ s # old
        BY <1>2, <1>5, <2>1, <4>1, <4>3
      <4> QED BY <4>2, <4>3
    <3>3. ASSUME NEW s \in Slugs, owner'[s] = o PROVE s \in had'[o] /\ slug'[o] # s
      <4>1. s = old \/ (s # new /\ owner[s] = r)
        BY <1>2, <1>5, <2>1, <3>3, SlugsAssumption
      <4> QED BY <1>2, <1>6, <2>1, <3>0, <4>1
    <3>4. ASSUME NEW p \in Resources \ {o}, NEW s \in had'[o] PROVE slug'[p] # s
      <4>1. slug'[p] = slug[p] /\ slug[p] # new /\ (s = new \/ s \in had[r])
        BY <1>3, <1>4, <2>1, <3>0
      <4> QED BY <2>1, <4>1
    <3> QED BY <3>1, <3>2, <3>3, <3>4 DEF LinkOK
  <2>2. CASE o # r
    <3>1. (slug'[o] # None => slug'[o] \in had'[o]) /\ (slug'[o] = None => had'[o] = {})
      BY <1>3, <2>2
    <3>2. ASSUME NEW s \in had'[o] PROVE slug'[o] = s \/ owner'[s] = o
      BY <1>3, <1>4, <1>5, <1>6, <1>7, <2>2
    <3>3. ASSUME NEW s \in Slugs, owner'[s] = o PROVE s \in had'[o] /\ slug'[o] # s
      BY <1>3, <1>5, <2>2, <3>3, SlugsAssumption
    <3>4. ASSUME NEW p \in Resources \ {o}, NEW s \in had'[o] PROVE slug'[p] # s
      <4>1. s \in had[o] /\ slug'[p] = IF p = r THEN new ELSE slug[p]
        BY <1>3, <2>2
      <4> QED BY <1>4, <2>2, <4>1
    <3> QED BY <3>1, <3>2, <3>3, <3>4 DEF LinkOK
  <2> QED BY <2>1, <2>2
<1>9. ASSUME NEW u \in Requests, NEW o \in Resources, (o # target[u])'
      PROVE  WindowOK(u, o)'
  BY <1>1, <1>9, TakeSlugWindows
<1> QED BY <1>8, <1>9 DEF LinkInv

LEMMA NextLinkInv == IInv /\ LinkInv /\ [Next]_vars => LinkInv'
<1> SUFFICES ASSUME IInv, LinkInv, [Next]_vars, Calm' PROVE LinkInv'
  BY DEF LinkInv
<1>1. Calm
  BY CalmBefore
<1>2. ASSUME NEW t \in Requests, NEW r \in Resources, NEW ti \in Titles,
             StartCreate(t, r, ti) \/ StartRename(t, r, ti)
      PROVE  LinkInv'
  <2>1. UNCHANGED <<slug, owner, had>>
    BY <1>2 DEF StartCreate, StartRename, Start, rows
  <2>2. /\ pc'[t] \in {"idle", "active"}
        /\ \A u \in Requests \ {t} :
              /\ pc'[u] = pc[u] /\ target'[u] = target[u] /\ behind'[u] = behind[u]
              /\ title'[u] = title[u] /\ try'[u] = try[u]
    BY <1>2 DEF StartCreate, StartRename, Start, IInv, TypeOK
  <2> QED BY <1>1, <2>1, <2>2, QuietLinkInv
<1>3. ASSUME NEW t \in Requests, CheckActive(t) PROVE LinkInv'
  BY <1>1, <1>3, CheckActiveLinkInv
<1>4. ASSUME NEW t \in Requests, CheckRedirects(t) PROVE LinkInv'
  BY <1>1, <1>4, CheckRedirectsLinkInv
<1>5. ASSUME NEW t \in Requests, Insert(t) PROVE LinkInv'
  BY <1>1, <1>5, InsertLinkInv
<1>6. ASSUME NEW t \in Requests, Rename(t) PROVE LinkInv'
  BY <1>1, <1>6, RenameLinkInv
<1>7. ASSUME NEW t \in Requests, InsertViolates(t) \/ KeepSlug(t) \/ Abort(t)
      PROVE  LinkInv'
  <2>1. UNCHANGED <<slug, owner, had>>
    BY <1>7 DEF InsertViolates, KeepSlug, Abort, rows
  <2>2. /\ pc'[t] \in {"idle", "active"}
        /\ \A u \in Requests \ {t} :
              /\ pc'[u] = pc[u] /\ target'[u] = target[u] /\ behind'[u] = behind[u]
              /\ title'[u] = title[u] /\ try'[u] = try[u]
    BY <1>7 DEF InsertViolates, KeepSlug, Abort, Forget, Finish, IInv, TypeOK
  <2> QED BY <1>1, <2>1, <2>2, QuietLinkInv
<1>8. CASE UNCHANGED vars
  BY <1>1, <1>8 DEF LinkInv, LinkOK, WindowOK, Candidate, vars, rows, requests
<1> QED BY <1>2, <1>3, <1>4, <1>5, <1>6, <1>7, <1>8 DEF Next

LEMMA LinksFollow == IInv /\ LinkInv => OldLinksLead
<1> SUFFICES ASSUME IInv, LinkInv, Calm, NEW r \in Resources, NEW s \in had[r]
             PROVE  Lookup(s) = r
  BY DEF OldLinksLead, Calm
<1>1. LinkOK(r) /\ s \in Slugs
  BY DEF LinkInv, IInv, TypeOK
<1>2. CASE slug[r] = s
  <2>1. \A o \in Resources : slug[o] = s => o = r
    BY <1>1 DEF LinkOK
  <2> QED BY <1>2, <2>1 DEF Lookup
<1>3. CASE slug[r] # s
  <2>1. owner[s] = r /\ \A o \in Resources : slug[o] # s
    BY <1>1, <1>3 DEF LinkOK
  <2>2. leads[s] = slug[r]
    BY <1>1, <2>1, SlugsAssumption DEF IInv, RedirectsPointHome, Calm
  <2> QED BY <1>3, <2>1, <2>2, SlugsAssumption DEF Lookup
<1> QED BY <1>2, <1>3

(* Links to old slugs lead to their resource, for any number of resources, *)
(* requests and renames, unless a candidate was taken after another        *)
(* resource changed twice, or renames of one organizer overlapped.         *)
THEOREM OldLinks == Spec => []OldLinksLead
<1>1. Init => IInv /\ LinkInv
  BY InitIInv, InitLinkInv
<1>2. IInv /\ LinkInv /\ [Next]_vars => (IInv /\ LinkInv)'
  BY NextIInv, NextLinkInv
<1> QED BY <1>1, <1>2, LinksFollow, PTL DEF Spec
=============================================================================
