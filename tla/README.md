# Formal model of EventKart

EventKart sells race registrations: organizers are verified, publish paid events, and
the public reads event pages through several caches. This directory holds TLA+ models of
the API (`apps/api`), the TLC runs that check them on small instances, and TLAPS proofs
of the properties that matter most for every size. Every definition is a translation of
source code; `PROJECT.json` maps each one to its lines, and lists the hazards of the code
at the lines where they bite, each with the properties that watch it.

## 1. The system

The API is a set of Fastify processes without shared memory. They meet in PostgreSQL
(READ COMMITTED, row locks where the code asks for them), Redis (sessions, OTPs, caches,
BullMQ queues), object storage, Razorpay, MSG91, Resend and Cloudflare. Worker processes
(`workers/`) consume the queues. Processes may die at any await.

| Part | State | Operations | Talks to |
|---|---|---|---|
| Event lifecycle (`modules/events/service.ts`) | `events` row: status, three timestamps, policies; categories, price tiers, hero image | draft edits, publish, admin approve and reject, unpublish, patch of a published event | organizer row (read), cache, CDN purge queue, sitemap queue, audit log |
| Event images (`event-image-service.ts`) | `event_images`, objects | request, confirm, delete | storage, event row (lock) |
| Organizer verification (`organizer/document-service.ts`, `policy-service.ts`, `admin/verification-service.ts`) | documents, consents, organizer's verification columns, audit rows | request, confirm and delete a document, accept policies, evaluate, approve, reject | storage, linked-account queue, sitemap queue |
| Linked payout account (`payment/razorpay-account-service.ts`, its queue and worker) | `razorpay_account_status`, account id, jobs | create, retry | Razorpay, organizer row |
| Single-flight cache and public pages (`lib/cache-stampede.ts`, `lib/cdn-invalidation.ts`) | cache key, lock key, CDN | read through, invalidate, purge | database, Redis, Cloudflare |
| Sitemap (`queues/sitemap-regen.ts`, `modules/sitemap`) | job with a fixed id, nightly job, cache entry | announce, regenerate, serve | single-flight cache, database |
| OTP login (`lib/otp.ts`, `lib/msg91.ts`) | code key, cooldown key | send, verify and consume | MSG91, WhatsApp |
| Sessions (`lib/session.ts`, `modules/auth/service.ts`, `plugins/auth.ts`) | session in Redis and PostgreSQL, cookie | log in, authenticate, refresh the role, log out | users |
| Email verification (`auth/email-verification-service.ts`) | tokens, rate-limit key, mail jobs, users | send, verify, mail | email queue, sessions |
| Slugs (`organizer/slug-service.ts`, organizer and events services) | slug columns, redirects | reserve, create, rename, look up | organizer and event rows |
| Audit log, review desk, listings, schemas, web UI, clients | none the properties speak of | projections, validation, I/O | |

What is hard in each part, and what makes it correct:

- **Event lifecycle.** Readiness, the organizer row and the review count are read before
  the write that depends on them; the invalidation follows the commit and may be lost.
  Only complete events of eligible organizers become public, unreviewed ones only above
  the threshold; timestamps survive any sequence of transitions; no commit goes
  unannounced.
- **Organizer verification.** Almost no transactions: every evaluation is three reads and
  a blind UPDATE, racing with other evaluations and with administrators. Decisions fall
  only on complete organizers, the review columns match the status, and the status fits
  the documents once everything is quiet.
- **Linked account.** Answers get lost, statements fail after the account exists, jobs
  stall and repeat, approvals reset the status. No account is created without a reason,
  and an active one stays active.
- **Public pages.** Leaders crash, locks expire under slow producers, followers time out,
  the refill overtakes the DEL, an answer is still being rendered when the purge comes, or
  the purge is lost. Nobody frees another's lock, one producer
  runs when nothing is wrong, no page is stale for longer than a bound.
- **Sitemap.** A fixed job id debounces, a nightly job runs beside it, the route writes the
  same entry. An idle queue leaves it fresh, it never goes back, the last change shows.
- **OTP, sessions, email.** Keys that expire under their owner, two stores written one
  after the other, scripts that race with deletions. A code is accepted once and the
  newest wins, a deleted session stays deleted, only a proved address is kept.
- **Slugs.** Checked by two reads and taken later, chained and reversed renames. Every old
  link keeps leading to its resource, directly.

## 2. Plan and order

`EventLifecycle` with its abstract specification `EventWorkflow`, `OrganizerVerification` and
`SingleFlight` came first: they decide what the public sees and who may sell. Then the parts
that move money or identity (`LinkedAccount`, `OtpLogin` with its abstract specification
`OneTimeCode`, `Sessions`, `EmailVerification`), the composition of the cache with the pages
and the CDN (`PublicPage` extends `SingleFlight`), and what search engines and old links see
(`SitemapRegen`, `Slugs`).

What is left, in order: the other kinds of event images with their quotas and the objects
behind them; what becomes of the objects of verification documents; category capacity.

Modules to be proved about use no RECURSIVE operator, have named assumptions on their
constants, one action per handler step, and their proofs in a module of their own.
An operator marked `\* mutant` is a plausible bug, defined beside the definition that it
stands in for when the corresponding property is put to the test.

## 3. What is modelled

### EventLifecycle

The events of one organizer. A handler that does more than one thing between locks is a
record in `req` whose `pc` names the point it has reached:

| Code | Actions |
|---|---|
| `publishEvent` | `BeginPublish` (organizer read without lock), `LockForPublish` (`FOR UPDATE`; no-op returns), `AssessReadiness` or `DenyReadiness`, `SubmitForReview` or `PublishDirectly`, `InvalidateEventCache` |
| `adminApproveEvent` | `BeginApproval`, `AssessReadiness` or `DenyReadiness`, `ApproveEvent`, `InvalidateEventCache` |
| `unpublishEvent`, `adminRejectEvent` | `UnpublishEvent`, `AdminRejectEvent` (lock, check, write and commit in one step: nothing else is read), `InvalidateEventCache` |
| `updateDraftEvent`, `replaceEventCategories`, `replaceEventPricing`, hero image | one action each, under `EditDraft` (row free, status draft) |
| `updateEventPolicies`, `updatePublishedEvent` | one action each, and an invalidation when the code issues one |
| organizer row written elsewhere | `OrganizerChanges` |
| process death | `Crash`: rollback, locks freed, a pending invalidation lost |

`lock` is the row lock; a step that waits for it is disabled while another holds it.
Atomic steps stand for transactions that read nothing another transaction can change.
Every event is paid (the table's CHECK), so the review count is over all events of the
organizer. Statuses `completed` and `cancelled` are never written by the code and left
out. `slug_available` concerns rows of other organizers; it is a free choice to deny.

`EventWorkflow` is what these handlers promise: `Edit`, `Submit`, `PublishUnreviewed`,
`PublishReviewed` and `Return`, each deciding and writing in one step, and `Vet` for the
organizer. Its state is read off the rows (`complete` is the events that are `ConfigReady`).
Two things it leaves out on purpose, because the code does not promise them: that the
organizer is still eligible when the event is shown, and that the policies are.

### OrganizerVerification

One organizer; a document is a pair of type and copy. `confirmDocumentUpload` is
`BeginConfirm`, `HeadObject`, then its transaction as `FindUploaded` (snapshot of the first
UPDATE), `ReplaceUploaded` (row locks) and `CommitUpload`; `deleteVerificationDocument` is
`BeginDelete`, `EraseObject`, `MarkDeleted`; `acceptPolicies` is `AcceptPolicies`; all three
continue with `maybeUpdateOrganizerVerificationStatus`: `ReadDocuments`, `ReadOrganizer`,
`ReadPolicies`, `UpdateStatus`. `ApproveOrganizer` and `RejectOrganizer` are single
conditional UPDATEs. Timestamps of a review are set or NULL. Object storage is left out: the
outcome of `headObject` is a free choice. PostgreSQL locks the rows of one UPDATE one at a
time; the model takes them together, so deadlocks between three overlapping confirmations
of one type, which PostgreSQL resolves by an error, do not appear. Two histories carry the
conditions under which the handlers achieve what they aim at: `alone` (no two requests ever
ran at once) and `unevaluated` (a committed change has not been evaluated since, because its
request died or overlapped with another).

### LinkedAccount

The jobs for one organizer: that of the approval, with the fixed id `razorpay-<org>`, and
those of retry requests. `Approve` resets the status and commits, `EnqueueApproved` may be
lost; `BeginRetry` and `EnqueueRetry` are the administrator's retry. A job takes the steps of
`createLinkedAccount`:

| Action | Statement | What it does when it takes effect |
|---|---|---|
| `ReadOrganizer` | the SELECT and the first check | nothing |
| `GuardStatus` | the compare-and-set | `MarkPending` |
| `LeaveDisabled` | the UPDATE without Razorpay keys | `MarkNotStarted` |
| `CreateAccount` | `accounts.create` | `CreateAtRazorpay` |
| `RecordAccount` | the UPDATE of account and status | `WriteAccount` |
| `Blame` | the UPDATE of the catch | `MarkFailed` |

Each fails before or after its effect, and `Crash` kills the worker before or after it, after
which the job stalls once and is then failed. The catch covers the call and the UPDATE after
it: a job that recorded its account and lost the reply goes on to blame itself (`Unsure`). An
error of any other statement leaves the job as it is for BullMQ. A statement takes effect
no later than its caller sees the error. BullMQ keeps completed and failed jobs, so an `add`
under a retained id does nothing. Histories: `reasons` counts what may ask for one more account,
`reopenings` how often others were let in beside a job at work (by an approval that reset a
status which was not retryable, or by a recorded `needs_action` whose reply was lost),
`faulty` says that something failed. Left out: BullMQ declaring the job of a live worker stalled.

### OneTimeCode and OtpLogin

`OneTimeCode` is what a login code promises, whatever stores it. `OtpLogin` is one phone
number, its two Redis keys and the two-stage delivery (SMS, then WhatsApp), with the code's
time in units of the constants. Requests are numbered by the order in which they take the
cooldown key; those that find it change nothing. `RefinesOneTimeCode` maps the key and the
histories to the abstract life of each code. The abort timer is cleared when the headers
arrive, so a slow body can outlast the cooldown key; `prompt` says that none has.
`codeTtl` 0 is the last half second, in which TTL reports 0 and a miss is not counted. The
chance that two codes are the same digits is left out.

### Sessions

The sessions of one account: login (user, Redis, row, undo, answer), the onRequest hook that
drops a cookie without session, logout (DEL, then UPDATE), and the role refresh of an email
verification, each command failing before or after it took effect. A session that was
written to Redis and given up is possible and unreachable: no browser holds its id.

### EmailVerification

Users, addresses and tokens numbered by the order in which their requests take the
rate-limit key. Sending is the key, the transaction, the enqueue. In the transaction
`DeletePending` is the DELETE's snapshot, `LockPending` its wait for the rows in it that others
have locked (those it then takes are `doomed`), `CommitToken` the INSERT and the commit. The
mail is a BullMQ job with attempts. Verification is a transaction of two writes: `ConsumeToken`
locks the token's row, `Elevate` the user's and the entry of the unique index on the address,
for which it waits as PostgreSQL does, and `CommitVerified` makes both visible; `VerifyConflict`
and `VerifyTokenFails` undo both. Participants become organizers, organizers and administrators
keep their role and change their address. The key may go before its transaction ends, by a slow
database or by eviction (`volatile-lru`); `keyHeld` holds the users to whom this never
happened. The code looks for unique violations in `error.code`; the pinned drizzle-orm wraps
driver errors, and the model follows what the check intends.

### SingleFlight and PublicPage

`SingleFlight` is the concurrent calls for one key. Time is counted in poll intervals: `Tick`
ages both keys and every caller that leads, waits or produces, and wakes sleeping followers.
Redis operations may fail before or after taking effect, the producer may throw, the caller
may die at any point. A producer is bounded by `ProducerTime`, which a run may choose above
or below the lock's time to live. `calm` is the time since the last disturbance.

`PublicPage` extends it by contents: the page is a version, counted up by every commit that
ends in `invalidateEventCache`; callers carry the version that their producer or the entry
gave them (`got`), through the return of the call and the rendering of the page, until
`Respond` answers it to a visitor or lets the CDN keep it; the Redis entry and the CDN hold
one version each. The DEL and the purge follow the commit separately and may be lost; a purge
has its queue's attempts, and a disabled client counts as a failing one. `EdgeTtl` is
`s-maxage` and `stale-while-revalidate` together. `age` is the time since the last commit;
`clean` are the caches that were invalidated since: the entry at a moment when no leader was
about to write an older row, the CDN after that and when no request held one at all. A
rendering takes `RenderTime` at most; nothing in the code bounds it but the server's own
timeouts, so the staleness bound is stated relative to it.

### SitemapRegen

Two tables that change, the announcement of a change (committed, then enqueued), the
debounced and the nightly job with attempts, stalls and removal, the builder's two reads
without a transaction, and the leaders of the route that write the entry themselves. An XML
is the number of changes each table had when it was read. The end of an event and the
organizer's profile are changes that nothing announces. `missed` collects what the code does
not promise to show: a change not announced, one announced to a job already running or
retained as failed, a run given up, a write of the route that overtook a job.

### Slugs

One namespace, events or organizers (`kind`): creation and rename with the two reads that
reserve a candidate, the next candidate after a collision, the insert or UPDATE that the
unique index may refuse and `createDraftEvent`'s attempts, and the redirect row with its
collapse and clean-up. Events are renamed under their row lock, organizers are not. Titles
are the list of candidates that normalization makes of them, so the text is left out.
Histories: `had` (all slugs a resource ever had), `behind` and `lapped` (a candidate was
taken after another resource changed its slug twice since the check), `overlapped` (two
renames of one organizer ran at once).

## 4. The runs

| Run | Instance | Checks |
|---|---|---|
| `lifecycle_gate` | 2 events, 2 handlers, threshold 1 | `CompleteOncePublic`, `PublishedOnlyIfEverEligible`, `CachesPurgedAfterCommit`, `UnreviewedOnlyAboveThreshold` |
| `lifecycle_fair` | 1 event, 2 handlers, 3 moments, threshold 0 | `TimestampsAgree`, `RefinesEventWorkflow`, `RequestsFinish` |
| `verification` | 2 types, 2 copies, 2 requests | `DecidedOnlyAfterComplete`, `ReviewFieldsAgree`, `VerifiedAsAudited`, `SettledStatusFitsReadiness`, `OneUploadedPerType` |
| `account` | 2 jobs, 2 attempts, 2 accounts | `TypeOK`, `EveryAccountHasAReason`, `OneCreator`, `StatusHasAccount`, `ActiveSurvives`, `JobsAreWorkedOff` |
| `otp` | 3 requests, window 3, code 4, 2 attempts | `RefinesOneTimeCode`, `LatestCodeStands`, `NoResendWithinWindow`, `RequestsEnd` |
| `sessions` | 2 sessions | `CookieHasRow`, `RevokedIsGone`, `RolesFollow`, `DeletedStaysDeleted` |
| `email` | 2 users, 2 addresses, 2 tokens, 2 attempts | `EmailTypeOK`, `NewestTokenVerifies`, `AddressIsProved`, `MailIsSettled` |
| `public_page` | 2 callers, lock 2, patience 2, producer 2, entry 1, rendering 1, CDN 1, 1 commit, 1 attempt | `LeaderHoldsLock`, `OneProducerWhenCalm`, `StalenessBounded`, `FreshOnceInvalidated`, `EveryCallReturns` |
| `sitemap` | 1 change of each table, 2 attempts, 1 leader | `IdleQueueIsFresh`, `RunsNeverGoBack`, `EventuallyCurrent` |
| `slugs` | 2 resources, 2 requests, 3 titles over 4 slugs | `RedirectsPointHome`, `OldLinksLead` |
| `verification_approved` | 1 document, 1 request | violated: `ApprovedIsNeverChanged` |
| `account_stuck` | 2 jobs | violated: `RepeatedJobSkipsForAnAccount` |

Type invariants are proved for every module (section 5); two runs check theirs as well.

**Bounds.** Two handlers suffice for a race over one event row; two events and a threshold of
1 (the code has 3) let the review count sit below, at and above it, with events that alternate
between draft and published. Three moments order submission, first and later publication. Two
copies of two types allow replacement and a set that is complete, incomplete and complete
again. Two jobs and two accounts are one race for the compare-and-set and one account too
many. Three login requests are one that is slow, one that overtakes it and one that comes
after; a code lives longer than the cooldown, as in the code. Two callers are a leader and a
follower that fails open; the lock's time to live, the followers' patience and the producer's
time are equal, so that each may come first; one commit is what a call can be overtaken by; an
attempt of a purge fails or does not, and a second one would repeat the first. Two tokens are
enough for two verifications at once, of one user or of two users who claim one address, and
for a resend under a verification. One change of each table is one that a reader of both can
have half seen. The titles of `slugs` share their candidates, so that renames collide, chain
and return. The constraint of that run cuts behaviours at the first pair of renames of one
organizer that overlap, after which its properties promise nothing. Symmetry is used for
interchangeable values in runs without liveness. Deadlock is checked except in `sessions` and
`email`, whose sessions and tokens are finitely many and end.

**Fairness.** In `EventLifecycle` a running handler continues (weak) and PostgreSQL grants a
row lock to its waiters in turn (strong fairness of `LockForPublish`). In `SingleFlight` a
call that can continue does, and time passes although new calls keep arriving (strong fairness
of `Tick`: the calls of one interval are finitely many). In `LinkedAccount` and
`EmailVerification` a worker runs. In `OtpLogin` time passes, timers fire and Redis answers;
the gateway need not send headers, whose absence the abort timer ends, but a body that it
began comes or breaks off: `fetchWithTimeout` clears its timer at the headers (`msg91.ts:28`),
and only the default body timeout of Node's `fetch` (undici), which is outside this
repository, ends that wait. In `SitemapRegen` the nightly tick comes, leaders go on, and the
steps of the nightly job are strongly fair, since crashes that come back for ever between its
reads and its write would keep anything from being written. No fairness is assumed of users,
administrators, crashes or failures.

**What the violations show.** An approval between the evaluation's read and its UPDATE
is overwritten: the organizer returns to `pending_documents` with `is_verified` still set,
against the comment on that function (`document-service.ts:330`). A worker that dies when its
compare-and-set has taken effect leaves an organizer `pending` without account. BullMQ runs
the job again, and it completes at the guard, although it should skip only "if account already
exists" (`razorpay-account-service.ts:42`); an administrator's retry refuses `pending` too
(`verification-service.ts:500`). The property is about Razorpay enabled and jobs that
stalled: with Razorpay disabled, an error of the UPDATE at :107 has the same end.

**Other divergences met while modelling**, which no run is spent on:

- `updatePublishedEvent` clears policies (`events/service.ts:2454`) that publishing required
  and `docs/requirements.md:393` keeps.
- Overlapping requests leave an organizer in the review queue without documents
  (`document-service.ts:340`, against :327) until the next evaluation that runs alone.
- A call of `singleFlight` that missed before the leader wrote wins the freed lock and
  produces again at once (`cache-stampede.ts:188`, against the comment in
  `modules/sitemap/routes.ts:24`). The comment at `events/service.ts:413` gives stale pages
  one window of 60 s; the bound that holds is the producer's time, the entry's, the rendering's
  and the CDN's.
- An announcement is ignored while the debounced job runs (`sitemap-regen.ts:82`), so the
  sitemap stays old until the nightly job; the CDN is purged at the mutation rather than
  at the regeneration (`docs/operations/cloudflare-cdn-setup.md:149`) and may fetch the old XML.
- A slow body lets a request outlast its 60 s key, and its EXPIRE then shortens another's
  (`otp.ts:96`, against :89). Errors of `pipeline.exec` are not read (`otp.ts:130`). The
  WhatsApp fallback carries no code (`msg91.ts:93`). Misses of the last half second are not
  counted (`otp.ts:225`).
- When the rate-limit key goes early two tokens of a user are pending
  (`email-verification-service.ts:98`). The worker is created without options
  (`workers/index.ts:130`), so mails are only logged.
- If the UPDATE that records an account commits and only its reply is lost, the catch takes
  this for a failure and overwrites `active` with `failed` by id
  (`razorpay-account-service.ts:211`); BullMQ's retry then creates a second account.
- The production worker gets no Razorpay dependencies (`workers/index.ts:233`): nothing
  consumes the jobs of approvals.
- Overlapping saves of one organizer lose a redirect (`organizer/service.ts:224`). A slug
  that another resource took and left between check and write has its redirect shadowed
  (`slug-service.ts:101`). `docs/impl-plan/feature-2.4-I-2.4.6.md:100` says that a second
  rename keeps the redirect row of the first; `recordEventSlugRedirect` collapses it.

## 5. The proofs

Type correctness is proved for every module, and with it every safety property that a
passing run checks, for every value of the constants. Each proof module has an
inductive invariant, one lemma or step per action, and one theorem per property.

- **`EventLifecycleProofs`** (from `LifecycleAssumption`). `LockInv`, that a handler between
  taking and releasing an event row holds its lock and is the only one there, is inductive
  and a theorem (`RowLockHeld`). From it follow `CompletePublication`, as no edit fits
  between the readiness check and the write, and `TimestampsTellOneStory` (with `StampInv`:
  no timestamp lies ahead of the clock, and the pair of publication stamps is set and
  ordered). `OrganizerGate` needs that a handler past its first check saw an eligible
  organizer (`everEligible` is a history). `ReviewGate` needs that the number of reviewed
  events never falls (`ReviewCountMonotone`), so a count read early is a lower bound.
  `FirstPublishedOnce` and `PurgeAfterCommit` are cases over the actions.
  `PublishingIsAtomic` puts the three invariants together: a write of `publishEvent` or
  `adminApproveEvent` is one step of `EventWorkflow`, since the event it assessed is still
  complete, the organizer it read was eligible, and the count it took is a lower bound;
  every other step of a handler stutters.
- **`OrganizerVerificationProofs`** (from `VerificationAssumption`). The invariant `Inv` says
  of each request that what it remembers was true at some moment (`Sound`) and that those
  facts last: `everComplete` and accepted policies are never undone. Without it the
  properties are not inductive, as an UPDATE writes what was read before. It gives
  `DecisionAfterComplete`, `ReviewFields` and `VerifiedIsAudited`. Two more invariants speak
  of undisturbed requests. `OneInv`: as long as no two ran at once, the rows a
  confirmation found are all that are uploaded of its type; hence `SingleUpload`. `FitInv`:
  unless something is left unevaluated, one request at most runs, what it remembers is
  still so (`Current`), and only its own evaluation can be what keeps the status from fitting;
  hence `StatusFits`.
- **`PublicPageProofs`**, first part (from `TimingAssumption`), about `SingleFlight`. `Lease`: a
  leader whose lock has not expired still has its own token in Redis, with as much time as
  its own count says (`LockKept`). `Echo`: whoever fails open began after the last
  disturbance, and a leader that outlived its lock is one; hence `OneProducer`.
- **`PublicPageProofs`**, second part (from `PageAssumption`), about `PublicPage`.
  `UsesSingleFlight`: every behaviour of a page is one of `SingleFlight`, so what is proved of
  the helper holds of the page (`PageLeadersHoldLock`, `PageOneProducer`).
  `InvalidationWorks`: as long as the entry is `clean` no leader is about to write an older row,
  and as long as the CDN is, no request holds one, producing or rendering; what a call takes
  up next is the row or a clean entry (`CallMoves`, `CleanStep`). `StaleInv` dates every
  old version by where it is found: with a producer since before the commit, in an entry such a
  producer wrote, with a request that renders one or the other (`SeenBefore`), at a CDN that was
  given it; hence `StaleNoLonger`.
- **`OtpLoginProofs`** (from `OtpAssumption`). `CodeInv` relates the Redis key to the life of
  each code, so that every step of `OtpLogin` is a step of `OneTimeCode` or a stutter
  (`Refinement`, by step simulation); `AttemptsAlwaysBounded` is the invariant behind it.
  `Spacing` orders requests by their cooldown keys: a code that is being delivered is of the
  last request, or its cooldown key has run out; hence `LatestStands` and
  `NoEarlyResend`.
- **`LinkedAccountProofs`** (from `AccountAssumption`). `created <= reasons` is not inductive: a
  job past the compare-and-set will add an account without a new reason. `Ledger` counts
  these jobs (`Owing`), and the status that would let one more pass (`Ticket`), beside the
  accounts that exist; each step moves one unit from one of the three to another or adds
  to `reasons`. That gives `AccountsHaveReasons`. `Balance` counts the same ticket beside all
  jobs between the compare-and-set and their outcome: a job takes it, or gives it back when it
  ends, and only a reopening adds one; hence `CompareAndSetExcludes`. `ActiveHeld`: unless the
  status was reopened, the jobs that could still write over "active" are those that recorded it
  and do not know; hence `ActiveStays`. Two counting lemmas (`AtMoves`, `AtIsFinite`) say
  what a job that enters or leaves a set of phases does to its size.
- **`AuthProofs`**, first part, about `Sessions`. Three invariants per session, one for each
  kind of request that handles it (`LoginInv`, `LogoutInv`, `VerifyInv`), say what the rows in
  the two stores can be at each point of it. They give `CookiesHaveRows`, `RevokedStayGone`,
  `RolesAgree` and `NoResurrection`.
- **`AuthProofs`**, second part (from `EmailAssumption`), about `EmailVerification`.
  `AddressesAreProved` relates two tables that separate statements write, and rests on the row
  locks (`Locks`): a row that a verification holds is pending until it commits
  (`HeldIsPending`), no DELETE takes it meanwhile (`DoomedAreLocked`), and two verifications
  between the user's UPDATE and the commit are of different users and addresses that no third
  has (`ElevatedApart`). `CommitProves` is the commit; nothing else touches what it wrote.
  `NewestVerifies` needs the whole path: requests take the key in the order of their numbers
  (`InOrder`), a running one still has it (`KeyCovers`), so no two requests of a covered user
  run at once (`OneAtATime`), so what the DELETE locked is all that is pending when the INSERT
  commits (`DoomedAreAll`), so at most the newest stored token is pending (`Newest`). All of
  it is claimed only of users in `keyHeld`; without the key a second DELETE misses the first
  one's row, as in the code.
- **`SitemapRegenProofs`** (from `SitemapAssumption`). Type correctness for any `Concurrency`;
  the two theorems assume that it is 1, which is the worker's setting and holds for one worker
  process. `OneRun` and `Ordered` (what a run has read is no older than what was written
  before it) give `SitemapMovesForward`; `Covered` (each change that the entry misses is on
  its way or in `missed`) gives `IdleIsFresh`.
- **`SlugsProofs`** (from `SlugsAssumption`). `RedirectsHome` from the invariant that
  redirects and renames agree (`RedirectsLead`, `RenamesAlone`, `RequestOK`); `OldLinks` from
  `LinkInv`, that every slug a resource ever had is its own, or redirects to it, or was lost
  in a way the histories name.

Only model-checked: all liveness (`RequestsFinish`, `EveryCallReturns`, `JobsAreWorkedOff`,
`RequestsEnd`, `MailIsSettled`, `EventuallyCurrent`), which TLAPS does not do.

## 6. Not modelled

The models cover the state machines of the API. Of the roughly 50,000 lines the rest is the
web application, UI components, route and schema declarations, projections, configuration
and infrastructure, which keep no state that several actors change.

- **Event images** beyond the hero image's status, and **object storage** as such: uploads go
  from the browser to the store, and the code promises nothing about an object whose
  deletion was cut short.
- **Category capacity** and the **registration form** of a draft: one UPDATE under the event's
  lock that nothing else reads yet.
- **Review desk, listings, profile and status pages**: projections of rows modelled here.
- **Audit log**: written on a connection of its own, errors swallowed, read by no handler.
- **Queues without a worker** (payment webhooks, cleanup, exports), the dead-letter copy and
  purges by tag: nothing reads or enqueues them.
- **Schemas, clients, configuration, logging, metrics, rate limits, CSRF**: their outcome is
  the range of the models' inputs, or no state the properties speak of.
