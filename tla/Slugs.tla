-------------------------------- MODULE Slugs --------------------------------
(***************************************************************************)
(* The public slugs of one namespace, events or organizers, and the        *)
(* redirects that keep old links working (table slug_redirects).           *)
(*                                                                         *)
(* A slug is reserved by reading: whose row has it, then whose redirect;   *)
(* the unique index on the row decides later.  An event is renamed under   *)
(* its row lock (updateDraftEvent, FOR UPDATE), an organizer is not        *)
(* (updateOrganizer).  Transactions are READ COMMITTED.  The writes of a   *)
(* rename and its commit are one step: the UPDATE holds the row and the    *)
(* index entry to the end, and nobody else writes the resource's redirects.*)
(*                                                                         *)
(* A title is what normalizeSlug makes of it, the list of slugs it tries   *)
(* in order, without the reserved ones.                                    *)
(***************************************************************************)
EXTENDS Naturals, Sequences

CONSTANTS Resources,    \* the events, or the organizers
          Requests,     \* API requests that create or rename, reused
          Titles, Slugs, None,
          Candidates,   \* the slugs each title tries: base, base-2, ...
          Attempts      \* tries of createDraftEvent at a unique slug

ASSUME SlugsAssumption ==
    /\ None \notin Resources /\ None \notin Slugs
    /\ Attempts \in Nat \ {0}
    /\ \A ti \in Titles : /\ Candidates[ti] \in Seq(Slugs)
                          /\ Candidates[ti] # <<>>

VARIABLES kind,          \* resource_type: "event" or "organizer"
          slug,          \* column slug of each row, None before the insert
          owner, leads,  \* each redirect row: resource_id and new_slug
          pc, target, title, try, attempt,
          read,          \* the slug a rename found in the row, None: a creation
          had,           \* history: every slug each resource has had
          behind,        \* history: slug changes of each resource since the
                         \* request saw its candidate active nowhere, up to 2
          lapped,        \* history: a slug was taken after two such changes
          overlapped     \* history: two renames of one resource overlapped

rows     == <<slug, owner, leads>>
requests == <<pc, target, title, try, attempt, read, behind>>
vars     == <<kind, rows, requests, had, lapped, overlapped>>

-----------------------------------------------------------------------------
Candidate(t) == Candidates[title[t]][try[t]]
Renames(t, r) == pc[t] # "idle" /\ target[t] = r /\ read[t] # None
NoneBehind   == [r \in Resources |-> 0]

Init ==
    /\ kind \in {"event", "organizer"}
    /\ slug = [r \in Resources |-> None]
    /\ owner = [s \in Slugs |-> None] /\ leads = [s \in Slugs |-> None]
    /\ pc = [t \in Requests |-> "idle"]
    /\ target = [t \in Requests |-> None]
    /\ title = [t \in Requests |-> None]
    /\ try = [t \in Requests |-> 1] /\ attempt = [t \in Requests |-> 1]
    /\ read = [t \in Requests |-> None]
    /\ had = [r \in Resources |-> {}]
    /\ behind = [t \in Requests |-> NoneBehind]
    /\ lapped = FALSE /\ overlapped = FALSE

-----------------------------------------------------------------------------
Forget(t) == behind' = [behind EXCEPT ![t] = NoneBehind]

(* The request is answered, and its place is free for another.             *)
Finish(t) ==
    /\ pc' = [pc EXCEPT ![t] = "idle"]
    /\ target' = [target EXCEPT ![t] = None]
    /\ title' = [title EXCEPT ![t] = None]
    /\ try' = [try EXCEPT ![t] = 1] /\ attempt' = [attempt EXCEPT ![t] = 1]
    /\ read' = [read EXCEPT ![t] = None]

Start(t, r, ti, current) ==
    /\ pc[t] = "idle"
    /\ pc' = [pc EXCEPT ![t] = "active"]
    /\ target' = [target EXCEPT ![t] = r]
    /\ title' = [title EXCEPT ![t] = ti]
    /\ read' = [read EXCEPT ![t] = current]
    /\ UNCHANGED <<kind, rows, try, attempt, behind, had, lapped>>

(* createDraftEvent, whose row is its own, or registerOrganizer, for a     *)
(* user whose organizer it does not find.                                  *)
StartCreate(t, r, ti) ==
    /\ slug[r] = None
    /\ kind = "event" => \A u \in Requests : target[u] # r
    /\ Start(t, r, ti, None)
    /\ UNCHANGED overlapped

RenameUnlocked(t, r, ti) ==      \* mutant: updateDraftEvent without FOR UPDATE
    /\ slug[r] # None
    /\ Start(t, r, ti, slug[r])
    /\ overlapped' = (overlapped \/ \E u \in Requests : Renames(u, r))

(* updateDraftEvent waits for the row lock; updateOrganizer only reads.    *)
StartRename(t, r, ti) ==
    /\ slug[r] # None
    /\ kind = "event" => \A u \in Requests : ~Renames(u, r)
    /\ Start(t, r, ti, slug[r])
    /\ overlapped' = (overlapped \/ \E u \in Requests : Renames(u, r))

NextCandidate(t) ==
    /\ Forget(t)
    /\ \/ /\ try[t] < Len(Candidates[title[t]])
          /\ try' = [try EXCEPT ![t] = @ + 1]
          /\ pc' = [pc EXCEPT ![t] = "active"]
          /\ UNCHANGED <<target, title, attempt, read>>
       \/ /\ try[t] = Len(Candidates[title[t]])
          /\ Finish(t)

ActiveElsewhere(t) ==
    \E r \in Resources : slug[r] = Candidate(t) /\ (read[t] = None \/ r # target[t])

OthersForCreate(t) ==      \* mutant: a rename takes a slug that redirects elsewhere
    owner[Candidate(t)] # None /\ read[t] = None

RedirectsElsewhere(t) ==
    /\ owner[Candidate(t)] # None
    /\ read[t] = None \/ owner[Candidate(t)] # target[t]

CheckActive(t) ==
    /\ pc[t] = "active"
    /\ \/ ActiveElsewhere(t) /\ NextCandidate(t)
       \/ /\ ~ActiveElsewhere(t)
          /\ pc' = [pc EXCEPT ![t] = "redirects"]
          /\ Forget(t)
          /\ UNCHANGED <<target, title, try, attempt, read>>
    /\ UNCHANGED <<kind, rows, had, lapped, overlapped>>

CheckRedirects(t) ==
    /\ pc[t] = "redirects"
    /\ \/ RedirectsElsewhere(t) /\ NextCandidate(t)
       \/ /\ ~RedirectsElsewhere(t)
          /\ pc' = [pc EXCEPT ![t] = "write"]
          /\ UNCHANGED <<target, title, try, attempt, read, behind>>
    /\ UNCHANGED <<kind, rows, had, lapped, overlapped>>

-----------------------------------------------------------------------------
(* The unique index on the slug column.                                    *)
Collides(t) ==
    \E r \in Resources : r # target[t] /\ slug[r] = Candidate(t)

(* The row of the request's resource gets the slug it reserved.            *)
TakeSlug(t) ==
    LET r == target[t] IN
    /\ ~Collides(t)
    /\ slug' = [slug EXCEPT ![r] = Candidate(t)]
    /\ had' = [had EXCEPT ![r] = @ \cup {Candidate(t)}]
    /\ lapped' = (lapped \/ \E o \in Resources : o # r /\ behind[t][o] = 2)
    /\ behind' = [u \in Requests |-> [o \in Resources |->
          IF u = t THEN 0
          ELSE IF o = r /\ pc[u] \in {"redirects", "write"} /\ behind[u][o] < 2
          THEN behind[u][o] + 1 ELSE behind[u][o]]]
    /\ Finish(t)

Insert(t) ==
    /\ pc[t] = "write" /\ read[t] = None
    /\ slug[target[t]] = None
    /\ TakeSlug(t)
    /\ UNCHANGED <<kind, owner, leads, overlapped>>

(* A unique violation: of the slug, or of the user who has an organizer    *)
(* by now.  Only the creation of an event tries again.                     *)
InsertViolates(t) ==
    /\ pc[t] = "write" /\ read[t] = None
    /\ slug[target[t]] # None \/ Collides(t)
    /\ \/ /\ kind = "event" /\ attempt[t] < Attempts
          /\ attempt' = [attempt EXCEPT ![t] = @ + 1]
          /\ try' = [try EXCEPT ![t] = 1]
          /\ pc' = [pc EXCEPT ![t] = "active"]
          /\ UNCHANGED <<target, title, read>>
       \/ (kind = "organizer" \/ attempt[t] = Attempts) /\ Finish(t)
    /\ Forget(t)
    /\ UNCHANGED <<kind, rows, had, lapped, overlapped>>

(* recordEventSlugRedirect, recordOrganizerSlugRedirect: the resource's    *)
(* redirect from its new slug goes, those to the old one move on, and the  *)
(* old one gets its own, whoever had it.                                   *)
RecordRedirect(r, old, new) ==
    /\ owner' = [s \in Slugs |->
          IF s = old THEN r
          ELSE IF s = new /\ owner[s] = r THEN None ELSE owner[s]]
    /\ leads' = [s \in Slugs |->
          IF s = old THEN new
          ELSE IF s = new /\ owner[s] = r THEN None
          ELSE IF owner[s] = r /\ leads[s] = old THEN new ELSE leads[s]]

Rename(t) ==
    /\ pc[t] = "write" /\ read[t] \notin {None, Candidate(t)}
    /\ TakeSlug(t)
    /\ RecordRedirect(target[t], read[t], Candidate(t))
    /\ UNCHANGED <<kind, overlapped>>

(* The title leads to the slug the resource had: the column is not set.    *)
KeepSlug(t) ==
    /\ pc[t] = "write" /\ read[t] = Candidate(t)
    /\ Finish(t)
    /\ Forget(t)
    /\ UNCHANGED <<kind, rows, had, lapped, overlapped>>

(* A request ends without a trace: the UPDATE violates the unique index,   *)
(* a statement fails, or the process dies and its transaction with it.     *)
Abort(t) ==
    /\ pc[t] # "idle"
    /\ Finish(t)
    /\ Forget(t)
    /\ UNCHANGED <<kind, rows, had, lapped, overlapped>>

Next ==
    \/ \E t \in Requests, r \in Resources, ti \in Titles :
          StartCreate(t, r, ti) \/ StartRename(t, r, ti)
    \/ \E t \in Requests :
          \/ CheckActive(t) \/ CheckRedirects(t)
          \/ Insert(t) \/ InsertViolates(t) \/ Rename(t) \/ KeepSlug(t)
          \/ Abort(t)

Spec == Init /\ [][Next]_vars

-----------------------------------------------------------------------------
Steps == {"idle", "active", "redirects", "write"}

(* The type invariant.                                                     *)
TypeOK ==
    /\ kind \in {"event", "organizer"}
    /\ slug \in [Resources -> Slugs \cup {None}]
    /\ owner \in [Slugs -> Resources \cup {None}]
    /\ leads \in [Slugs -> Slugs \cup {None}]
    /\ pc \in [Requests -> Steps]
    /\ target \in [Requests -> Resources \cup {None}]
    /\ title \in [Requests -> Titles \cup {None}]
    /\ try \in [Requests -> Nat \ {0}] /\ attempt \in [Requests -> 1 .. Attempts]
    /\ \A t \in Requests : pc[t] # "idle" =>
          title[t] \in Titles /\ try[t] <= Len(Candidates[title[t]])
    /\ read \in [Requests -> Slugs \cup {None}]
    /\ had \in [Resources -> SUBSET Slugs]
    /\ behind \in [Requests -> [Resources -> 0 .. 2]]
    /\ lapped \in BOOLEAN /\ overlapped \in BOOLEAN

(* What the lookups by slug answer: the page of the row that has the slug, *)
(* else the row a redirect names, if its slug is still the redirect's.     *)
Lookup(s) ==
    IF \E r \in Resources : slug[r] = s THEN CHOOSE r \in Resources : slug[r] = s
    ELSE IF /\ owner[s] # None /\ leads[s] # s
            /\ slug[owner[s]] = leads[s]
    THEN owner[s] ELSE None

OneRenameAtATime == kind = "event" \/ ~overlapped

(* However often a resource is renamed, back and forth included, each of   *)
(* its redirects leads straight to the slug it has now, never to one that  *)
(* is itself a redirect.  An organizer must not be saved twice at once:    *)
(* its row is read without a lock.                                         *)
RedirectsPointHome ==
    OneRenameAtATime =>
        \A s \in Slugs : owner[s] # None => leads[s] = slug[owner[s]]

(* A link to any slug a resource ever had leads to that resource, and no   *)
(* other row takes the slug over, although a slug is checked first and     *)
(* taken later.  The checks tolerate any one change in between by each     *)
(* other resource; two (it takes the slug and leaves it) defeat them.      *)
OldLinksLead ==
    OneRenameAtATime /\ ~lapped =>
        \A r \in Resources : \A s \in had[r] : Lookup(s) = r
=============================================================================
