# Alloy Works: specifications, model checks and proofs

Alloy Works is a web application for writing, versioning and publishing structured
documents. A Fastify service (`src/apps/service`) answers requests, one or more worker
processes (`src/apps/worker`) run queued jobs, and both keep everything in PostgreSQL and
an object store through `src/packages/db` and `src/packages/objects`. The rules that are
hard to get right are in `packages/db`: who may write what, under which lock, read at
which moment, and what a job that fails half way leaves behind. These modules specify
those rules as the source has them.

Contents: [the system](#the-system), [the modules](#the-modules),
[the runs](#the-runs), [what the code does otherwise](#what-the-code-does-otherwise),
[the proofs](#the-proofs), [what is not modelled](#what-is-not-modelled),
[the plan](#the-plan), [running it](#running-it).

## The system

### Parts, their state and their operations

| Part | State | Operations | What is hard | What makes it correct |
|---|---|---|---|---|
| Component editing (`db/editing.ts`, `promotion.ts`, `versions.ts`, `lines.ts`) | `component_lock`, `iteration`, `artifact_version`, `artifact_line`, `line_closed`, `editing_policy` | claim, ask for, take, save, cut, release; diverge and close lines | requests delayed, repeated and reordered; locks that lapse or are taken; two principals using one client-chosen session id | one writer of a line at a time; nobody's words lost or published as another's |
| Other writers of a component (`restore.ts`, `suggestions.ts`, `translation-jobs.ts`, `moving.ts`, `deletion.ts`) | the same | restore, accept a suggestion, a translation's return, move, delete, undelete | each asks a different question of the lock | none overtakes a session that has something to lose |
| Retention and recovery (`retention.ts`, `recovery.ts`) | `iteration` | sweep what is past its window; offer what was never cut | versions of several lines compared by number | nothing swept early or kept late; what was cut is not offered again |
| Job queue (`db/queue.ts`, `worker/src/worker.ts`, `main.ts`) | `platform.job` | enqueue, claim, complete, fail, fail the abandoned, count the waiting and the given up | leases, crashes, retries, late answers, suspension | no job run twice at once; every job ends |
| Publications (`db/publishing.ts`, `worker/src/jobs/publish.ts`, `check.ts`, `sweep.ts`) | `publication_request`, `publication`, `publication_check`, `publication_check_given_up`, events | ask, record, fail, check, sweep | a handler's reads and writes are separate transactions; two workers may run one job | one outcome of a request; a check for every publication, so many times and no more |
| Object store, previews, derivatives (`object-store.ts`, `derivatives.ts`, `range-previews.ts`) | objects, the rows naming them | put, name, sweep | put before the row, deleted after it | no row names what a sweep deleted |
| Editor's session (`web/src/editor/session.ts`, `stored-session.ts`, `ComponentEditor.tsx`) | a page's phase and save state, the window's stored session, calls in flight | open, type, claim with a deadline, save, repeat after a reload, cut, finish, leave | answers later than their deadline; a page gone before its answer; a duplicated tab | what the page says was saved, was, and is what a version would say; no page waits for ever |
| Reported jobs (`jobs.ts`, `cohorts.ts`, `worker/src/jobs/impact-report.ts`, `cohort.ts`) | `api_job`, `cohort`, `cohort_row` | submit, cancel, start, progress, make a row, finish, fail, rerun | a cancel racing each of these; two attempts and two runs over the same rows | one end of a job; one document of a row; no row left to nobody |
| Idempotency keys (`db/idempotency.ts`, `service/src/idempotency.ts`) | `idempotency_record`, the key's lock | recall, work, remember | repeats beside the first; work done after the deciding transaction | one effect of a key in a day |
| Webhooks (`webhooks.ts`, `worker/src/webhooks.ts`) | `webhook_subscription`, `webhook_delivery`, `webhook_attempt` | queue, claim, send, record, give up, disable, enable, change types, sweep | a lease lapsing while its request is out; what was claimed changed before it is sent | an attempt recorded only by who holds it; nothing done sent again; disabled for failing and nothing else |
| Mail (`mail.ts`, `worker/src/mail.ts`) | `mail_channel`, `email_delivery` | queue, tell of a closing, cancel it, claim, hold back, give up, send, record, give the rest back, set the channel | a lease lapsing while its mail is sent; a relay that fails; the channel moved under what is claimed | what one holds none else ends; each relay answers for itself; every mail ends |
| Tenant lifecycle (`tenant-lifecycle.ts`, `tenant-purge.ts`, ...) | `tenant.state`, holds | suspend, close, retain, delete, restore | jobs under way as the state changes | no job of a kind the state does not let runs; nothing purged under a hold |
| Workflow, gates, rounds, waivers (`workflow*.ts`, `rounds.ts`, `revisions.ts`) | definitions, positions, rounds, acts | advance, designate, open, act, close | a version cut while its review is open | a designation rests on the acts for that very version |
| Connector supervisor (`apps/connector/src/supervisor.ts`) | children, waiters | run, cancel, kill | deadlines racing answers | every caller answered once; caps kept |
| Documents, structure, numbering (`documents.ts`, `placement.ts`, `numbering.ts`, `packages/domain`) | outline, placements | place, move, number | recursion and boundaries | an order without gaps or cycles |
| Threads, inbox, presence, stream (`threads.ts`, `inbox.ts`, `realtime.ts`, `presence.ts`, `stream.ts`) | threads, notices, subscribers | post, notify, subscribe | missed events | what is shown converges on what is stored |
| Access (`grants.ts`, `groups.ts`, `shares.ts`, `spaces.ts`, `roles.ts`) | grants, memberships | grant, revoke, ask | sets of rows read in one transaction | what is asked is what was granted |
| Sign-in, tokens, SCIM (`sign-in.ts`, `api-tokens.ts`, `scim.ts`, `oidc.ts`) | sessions, tokens, identities | sign in, refresh, provision | external protocols | no session outlives its principal |
| Generation (`generation-budget.ts`, `machine-drafts.ts`) | budgets, proposals | reserve, settle | two requests for the last of a budget | never spent twice |
| Data, imports, exports, search, terms, audit, web and desktop shells, composition | rows and pure functions | | mostly data | |

`PROJECT.json` lists every part with its sources and whether it is modelled.

### How they interact

* Every write to a component runs in one transaction behind a per-component advisory lock
  (`serialise`), shared by editing, cutting, restoring, accepting, lines, moves and
  deletion. So one write is one action, and what interleaves is the requests.
* What a transaction queues, it queues in itself: a publication request and its job, a
  publication and its check job, appear together.
* The worker's loop is not one transaction. It fails the abandoned jobs, tells their
  handlers, claims, runs, and completes or fails, each in a transaction of its own; the
  handler reads its inputs in one and records its results in another. Anything may happen
  between.
* A webhook's delivery is queued by a trigger in the act's own transaction. The delivery loop
  claims in one transaction, asks and sends outside any, and records in another.
* Mail is queued by triggers in the acts it tells of, and sent as deliveries are, but one after
  another by one of two relays, whose failure is everyone's who sends by it: it ends the pass,
  gives back the rest, and holds back all that leaves by that relay.
* A page calls the service over a network that loses and delays; the service does not know
  a page from another page under the same session, and a page does not know whether a call
  it gave up on arrives. What it keeps for a reload, in its window's session storage, is a
  third party to that.
* A keyed request's recall, its work and its remembering share one transaction, except where
  the work follows the transaction that decided it, which then recalls again.
* The check sweep reads the queue twice with the worker's role, then writes as the tenant.

## The modules

| Module | Models | State |
|---|---|---|
| `Authoring` | one component: every writer of its locks, iterations, versions and lines, the sweep, the policies and the clock | the tables, by line |
| `OneWriter` | abstract: what editing promises an author | `holder`, `text`, `author`, `draft` of each line |
| `AuthoringImplements` | the refinement mapping of `Authoring` onto `OneWriter` | none of its own |
| `MCAuthoring` | instances and symmetry for TLC | |
| `Recovery`, `MCRecovery` | what a component offers to recover: a query over `Authoring`'s state | none of its own |
| `JobQueue` | `platform.job` and `processNext` | `jobs`, `worker`, `active`, `troubles` |
| `Publishing` | requests, publications, checks and the check sweep, composed with `JobQueue`: a step of a handler is taken together with the worker's step | the queue's and the tenant's tables |
| `Webhooks` | one webhook subscription, its deliveries and the workers' delivery loops | `subscription`, `deliveries`, `pass`, `troubles` |
| `EditorSession`, `MCEditorSession` | one author's tabs on one component, their storage, their calls and the service's answers | `page`, `kept`, `requests`, `answers`, `lock`, `versions`, `iterations` |
| `ReportedJobs`, `MCReportedJobs` | impact reports and cohorts' runs, composed with `JobQueue` | `reported`, `cohort`, `documents`, `rerunning`, `walk`, `neverTold` beside the queue's |
| `Mail`, `MCMail` | an environment's mail, its channel and the workers' mail loops | `closing`, `channel`, `mails`, `pass`, `troubles` |
| `Keyed` | the requests that come with one idempotency key | `call`, `holder`, `record`, `worked` |
| `AuthoringProofs`, `JobQueueProofs`, `PublishingProofs`, `WebhooksProofs`, `ReportedJobsProofs`, `KeyedProofs`, `MailProofs`, `EditorSessionProofs` | theorems of the eight | |

### Authoring

Each operation of `editing.ts` is an action named for it (`ClaimLock`, `AskForLock` and
`TakeLock`, the two halves of `takeLock`; `SaveIteration`, `CutVersion`, `ReleaseLock`),
as is each other writer (`RestoreVersion`, `AcceptSuggestion`, `CutReturned`,
`BringLineBack`, `MoveToSpace`, `DeleteArtifact`, ...). A lock is a row whose `expires`
may be past; a lapse is therefore no action, only time going by, as in the code. Time is a
counter in units of no particular length; a policy's periods are whole numbers of them,
with taking always shorter than releasing, as the settings' bounds have it.

Requests are not modelled as messages. A session may make any request in any state, so a
request that was delayed, sent twice or overtaken is the same action taken later, and a
refused one changes nothing. A repeated save with an already saved sequence is answered
from the row and changes nothing, so it is no step.

Words stand for a version's content and values together, told apart only by digest, which
is how `record` and the recovery query tell them apart. Rights, comparison, listing and the
content's own validity are not modelled. The line of a language differs only in where it
may be begun from and in who may write to it.

An iteration's `made` is its `created_at`, told by its order only: later than every save its
author still has, on whichever line and in whichever session. Nothing asks how much later, and
only recovery asks which was last.

`cutBy` on a version is the one thing kept that the tables do not have: the session whose
iteration a version was made from, which only properties read.

`Recovery` is what is offered to an author on a line: their newest save there by `made`, across
all their sessions, unless a version after the one it was opened from says the same.

`OneWriter` says what an author is promised: one writer of a line at a time; a writer's
draft is what they wrote last since the line's text last changed, and survives losing the
lock; and under a holder the text changes only to the holder's own draft, or by their own
act when they have none. The mapping reads a line's holder from its live lock, its text
from its head, and a draft from the iteration a cut of that line would promote.

### JobQueue and Publishing

`JobQueue` has one action for each statement the loop makes on `platform.job`, so that a
worker may stop between any two. There is no clock: a lease is none, held or lapsed, a
retry is due or not yet. `Stalls` says whether a living worker may still be going when its
lease lapses. The code does not prevent it: a claim's lease is fixed and never renewed, so
a run longer than the lease stalls. What holds with `Stalls` holds however long a run takes;
what holds only without it rests on the lease being longer than any run.

`troubles` bounds how often a worker stops, an answer is lost after its commit, a sweep
fails or a tenant is suspended.

`Publishing` adds the two handlers and the check sweep. A handler reads (`PublicationInputs`,
`PublicationToCheck`), then records (`RecordPublication`, `RecordPublicationCheck`) or
fails; what it read may be stale when it records. Compiling is a run that returns, throws or
refuses; nothing about the bytes is modelled. A publication is named by its request, since a
request can have only one, and the property `OneOutcome` counts them rather than assuming it.

### Webhooks

One subscription: several share only the pass that claims them and the order they are sent
in, which nothing here rests on. `QueueDelivery` is the trigger; `ClaimDeliveries` the
claiming statement; `Deliver` is what a pass does for one delivery outside any transaction,
ending in one of the outcomes `recordAttempt` tells apart (an answer other than 2xx is
`failed`); `RecordAttempt` is the whole of that function, with the subscription's disabling
and the giving up of what waits. `ChangeWebhookSubscription` and `DisableIdentity` are the
administrator's acts, `SweepWebhookDeliveries` the sweep. A delivery deleted keeps its place
in the model, in a state of its own that no row has.

Time goes by in `Tick`, without end: a moment is kept as how long ago it was, counted no further
than anything asks of it (the day a delivery is tried for, a quiet day, the days to a
disabling). A lease and a backoff are shorter than its unit and end at some moment
(`LeaseLapses`, `FallsDue`), and so do the thirty days a delivery is kept: a sweep takes the
oldest, as many of them as are past it. The code fences a record by the
text of the lease's end; here the lease is told by the worker that claimed under it, which is
the same because a worker's passes do not overlap (`main.ts` 290-300). `Stallers` are the workers
whose passes may outlast their leases: the theorems are for any of them, and the run has one.
A lease lapsing under a pass is one of the `troubles`, as a stop and an error are.

The state keeps each delivery's last attempt only, since the code reads no earlier one.

### EditorSession

`page[w]` is the closure of `createSession`: its phase, the sequence it sent last, what the
component's text was when it opened, whether the text is changed since (`dirty`), what the
indicator says (`save`), and which call it awaits in each of its two chains, `sending` (the
saves, one at a time) and `asking` (claims and finishing). `kept[w]` is what the window's
session storage holds: the session, the version and the words, the number sent last and what
the service is known to have made of it.

A text is a number, a new one for each change. A call is a member of `requests` until the
service serves or loses it, its answer a member of `answers` until its page hears it. A call
goes in a chain: `send` and `ask` are the page's own; `gone` is the save a page makes as it
leaves, whose answer reaches its window's storage only, with any save that waits for it in
its `then`; `deaf` is a call given up on, or one whose page has gone. A deaf call may be
served at any later time, or never, which is what a deadline of ten seconds leaves open.
`Serve` is one step of the service for each kind of call, with what
`editing.ts` and `promotion.ts` decide; `Authoring` has these in full. Steps of other
authors are what this one can tell of them: the lock taken when free (`OtherClaims`), a
version cut under it (`OtherCuts`), and a lapse (`LapseLock`).

`Hear...` actions are the continuations after an `await`: what a page does with an answer,
or with a call given up on (`GivesUp`), in the phase it is in by then. Between a call and its
continuation the author may type, leave, reload, or duplicate the tab. A page takes no change
while it cuts or releases, as the surface does not (`ComponentEditor.tsx` 482), so the branch
of `finish` for a change during a release has no step.

`Copies` says whether a tab is ever duplicated, with its storage and so its session id;
`ReopensEarly` whether a page opens while one left in the same window has a save waiting
behind another, of which more [below](#what-the-code-does-otherwise).

### ReportedJobs

`reported` is `api_job`, one row beside each row of the queue, made in one transaction with
it. `walk[w]` is where the handler a worker runs has got, each transaction of it a step:
`StartJob`; for a report `ReportReadable` or `ReportRefused` and then a depth at a time
(`WalkDepth`); for a cohort `ReadCohort`, `PendingRows`, and for each row `MakeCohortRow` and
`ProgressJob`; then `FinishJob`. A handler may throw between any two (`HandlerThrows`), its
worker stop, its lease lapse, or another attempt of the same job overtake it. A rerun is one
step where some row has failed, since it locks those rows; where none has, two reruns may
both find no run, so finding and submitting are two (`FindNoRun`, `RerunPending`).

`documents` counts what has been made of each row, `late` the rows an attempt makes after
its job was asked to stop, and `neverTold` the jobs given up of which a stop kept the handler
from being told; the code has none of them, and only properties read them.

### Keyed

One principal's one key: keys share nothing. `holder` is whose transaction holds the key's
advisory lock. A request recalls under the lock and keeps its answer before it lets it go,
so both are steps that no other request's come between (`Decide`, `Keep`); one that does its
work after (`creationAct`, the only one that remembers so) lets it go in between (`Defer`) and
recalls again (`Make`). A record's day may end at any time (`DayEnds`). What is asked is a
member of `Acts`, which stands for the route and the digest.

### Mail

`mails[d]` is a row of `email_delivery`, `channel` the environment's one `mail_channel`. A pass
lists the tenants by state (`ListTenant`), and later claims (`ClaimMail`, the whole of
`claimMail`: giving up what is past its age, holding back what leaves by a relay that failed,
claiming, and dropping what may no longer be sent). It sends one mail at a time by the relay it
was claimed by (`Deliver`, outside any transaction), records it (`Record`, which is
`recordMailAttempt`, or `dropMail` where the environment has no hostname for its link), and at a
relay's failure or a wait gives back the rest (`ReturnRest`). An error or a stop ends it
(`PassEnds`). `SetMailChannel`, `QueueMail`, `TellClosing`, `CancelClosing` and `Deletes` come
between any two.

There is no clock: a wait ends (`FallsDue`), a lease lapses (`LeaseLapses`) and an age counted is
past (`Ages`) at some moment, so how long each backoff is, and which is longer, is not told. A
lease is told by the worker it was claimed by, and `Stallers` are those who may outlast theirs,
as for webhooks. A notice is `closing` (both the first and the one of seven days) or
`cancelled`; both have the purpose `closure` in the code. Whether whom a mail is to may still be
mailed is any subset of what is claimed, but for a notification while the channel is off.

## The runs

| Run | Instance | Shows |
|---|---|---|
| `authoring_lock` | two principals, two session ids, one line, two policies, four ticks, three saves at one time | `TypeOK`; a lock is taken only from the idle (`TakenOnlyFromTheIdle`); who it was taken from is told so (`TheTakenAreTold`); `KeepsThePromise` |
| `authoring_lines` | two principals with the *same* session id, or one with two; two texts, the main line and another, three versions of the two together, two where there are two sessions | nothing gone is held (`NothingGoneIsHeld`); a cut says what its session saved last on its own line, and that save outlasts its window (`CutSaysWhatWasSavedLast`), and is offered no more once cut, but for a line's first cut (`LaterCutOffersNothing`); `KeptThroughItsWindow`; `KeepsThePromise`, with restores, suggestions, returns, moves and the sweep between |
| `recovery_own_cut` | one author, two lines | violation, see below |
| `queue_stalls` | two workers, one job, stalls | violation, see below |
| `publishing_checks` | two workers without stalls, one request, two attempts, two checks that may give up, two troubles, one sweep at a time, under fairness | `TypeOK`, `ExclusiveRun`, `OneOutcome`, `OneCheckComing`, `TriedSoOften`; `EveryJobEnds`; `CheckedOrLeft` |
| `publishing_ends` | one worker, one attempt, one trouble | violation, see below |
| `webhooks_ends` | two workers, one of whose passes may outlast its lease, two deliveries, days without end, one trouble, under fairness | `TypeOK`; what a lease not past holds is its claimer's to record, or ended for everyone (`FencedByTheLease`); `DisabledOnlyForFailing`; `DoneIsNotSentAgain`, of the worker that keeps to its leases; `EveryDeliveryEnds`, though its endpoint never answers |
| `session_windows` | two tabs, one perhaps a duplicate of the other under the same session, two texts, one trouble | what either shows as saved the service keeps (`SavedIsKept`); one text at each number (`OneTextANumber`) |
| `session_turns` | one tab, two texts, two troubles, one turn (a refusal, a lapse, another author), under fairness | `TypeOK`; a change shown as saved is what a version would say (`TypedIsWhatACutSays`); `EveryWaitEnds` |
| `reported_jobs` | two workers, a cohort of two rows, one report, two jobs, two attempts, one trouble | `TypeOK`; `EndsOnce`; a job the queue has finished has ended (`FinishedHasEnded`); a cancel is heard at the next row (`HeardAtItsNextStep`); `MadeOnce`; a row left pending has a run that will be tried or told of, a rerun to ask for or a requester told, unless a stop kept its run's handler from being told (`PendingIsWaitedFor`) |
| `mail_ends` | two workers without stalls, two mails beside a closing's notices, a relay of the environment's own beside the operator's, one trouble, under fairness | `TypeOK`; while a pass sends a mail under its lease none else frees or ends it (`HeldWhileItIsSent`); where the relays stand as a pass claimed by them, only a mail that left by the channel's relay marks it failing or clears it (`EachRelayForItself`); `EveryMailEnds` |
| `keyed` | three requests with one key, an act done within its transaction and one done after, under fairness | `TypeOK`; `DoneOnceADay`; `EveryRequestIsAnswered` |

### The bounds

* *Authoring.* A take needs an idle holder, an ask, a grace and an asker: two principals
  with two pages each have every pair of roles (two pages of one principal, one page id of
  two principals). Four ticks hold a claim, a take period, a grace, a take and an ask that
  has gone stale. Three versions are the least with a head, a
  version before it and one to restore; a second line is the least with words of one line to
  confuse with another's. `authoring_lines` takes one policy and fewer ticks, since
  `authoring_lock` covers the lock over time, and one sequence: which of a session's saves
  counts, in whatever order they arrive, is what `session_turns` and `session_windows` show.
  It goes no further (`Few`) once there are two principals and two session ids at once, since
  ids shared and ids of one's own each have their hazards and `authoring_lock` has the four
  together; nor once its two lines have more than three versions together: two of either, the
  least for a cut of it, and one of the other to be held against; the version restored to a
  line of two is the last. With two sessions of one author it has two versions: a save left in
  either session while a version is cut of the other's, and what is then offered.
  In `authoring_lock` `MaxSequence` 2 is the least for a later save and an earlier one in
  either order, and three saves at one time (`FewSaves`) the least for both of one session
  beside another's.
* *Queue and publications.* Two workers are the least for one to overtake another; a second
  attempt is the least that is both a retry and a last one. `CheckGiveUps` is 2 and
  `MaxAttempts` 2 where the code has 3 and 3: enough for a give-up that is not the last. Four
  jobs are the publish job, its check and the check asked again, with one to spare so that
  asking once too often would show. Two troubles let one trouble hit the recovery from
  another. The bounds also hold back the step that would pass them (`MaxJobs`,
  `MaxDeliveries`); no liveness property's progress waits on one in the instances
  run.
* *Webhooks.* Two deliveries are the least for one's failure to give up the other, and for
  one to be swept while another is tried. A delivery is tried for one day and an endpoint
  disabled after two, where the code has one and three: what matters is their order. Days have
  no bound. The one trouble is a stop, an error, or a lease outlasted, once which another pass
  claims and sends what the late one holds, and the late answer comes while that one sends; one
  worker may be late and the other is not, so that both sides of the fence are there. That it
  holds however many are late, and how often, is the theorem's. A pass's limit of fifty is
  never reached.
* *Sessions.* Two tabs are the least for a duplicate, and two texts for one to be taken for
  the other. With one tab, two troubles let a reload follow a timeout or a timeout a reload.
  `session_windows` takes no turns of the lock, since `session_turns` does, and has two calls
  under way at once (`FewCalls`): one of each tab's, or one given up on and one after it.
* *Reported jobs.* Two rows are the least for one to fail before one that waits; two jobs for
  a run and a rerun of it, or for a report beside; two attempts as for the queue. One trouble
  is one worker's stop, one lost answer or a suspension; handlers throw, and rows fail, as
  often as may be.
* *Mail.* Two mails are the least for one's failure to hold back, or its pass to give back, the
  other, and for two of different relays; two workers the least for one to claim past another's
  lease, or to meet what another sends. Besides notices only notifications are queued, which
  leave by the environment's relay and may want a hostname. No worker outlasts a lease in the
  run; that none takes what another sends however many do is the theorem's. A pass's limit of
  fifty is never reached.
* *Keys.* Two requests are the least to race and a third to come after; two acts are one of
  each shape, and the least for one key to be used for another request.
* *Deadlock* is checked in every run but those of the sessions and the keys, whose authors
  and callers may have nothing left to ask.

### Fairness

Safety and refinement are checked with none. The liveness runs assume:

* each worker's loop goes on (`WF` of a worker's own steps): `main.ts` (359-392) loops for
  ever, catching whatever `processNext` throws, and a process that dies is started again.
  A worker whose run hangs for ever is excluded, as the run's own deadlines do;
* a lease nobody is on lapses and a retry's delay passes, since the database's clock does;
  nothing is assumed of the lease of a living worker;
* a suspended tenant is resumed. Without it nothing about its jobs can be said: the queue
  passes over an inactive tenant's jobs by design. Other holds on a tenant are not modelled;
* the check sweep runs again and again, as the worker's interval has it, and a publication
  grows old enough for it.

* the delivery loop claims what is due, and sends and records what it claimed, as its interval
  has it, each pass waiting for the last. A lease lapses once no pass is under it and a
  backoff ends, and days go by. Nothing is assumed of an endpoint, which may fail every time:
  what it fails is given up a day after its first attempt, and that is what makes
  `EveryDeliveryEnds` hold. Nor is anything assumed of the sweep. A connector too full to send
  costs no attempt (`webhooks.ts` 375-382), so a delivery it turned away each time would wait
  for the sweep: the property is of one it does not turn away for ever, which it states as its
  premise. A disabled subscription's deliveries wait, by design, so it is of one that stays on.
* the mail loop goes on as the delivery loop does, leases no pass is under lapse, waits end and
  an age counted is past in the end. Nothing is assumed of a relay: `EveryMailEnds` holds though
  it fails, or the connector is full, every time. What fails holds back the rest no longer than
  its own age, and what waits is aged from its first claim. It is of an environment that is not
  closing, or of its notices;
* a page hears what it is answered and its timers run out (`WF` of `Runs`), and the service
  answers a call its page waits for, once one does not fail: a call may fail, or be given up
  on, as often as the bound on troubles allows. Nothing is assumed of the author, nor that a
  deaf call ever arrives.
* a keyed request's transaction ends, as statement timeouts have it, and PostgreSQL grants an
  advisory lock let go to one who waits. `WF` is enough: a lock is let go a bounded number of
  times before a request's own turn, there being so many requests.

`Stalls` is FALSE in `publishing_checks`, and with it the run fails, which is the finding of
`queue_stalls`. It is FALSE in `reported_jobs` for size, and for `PendingIsWaitedFor`,
which that finding would break: the other theorems there have either. Two sweeps under way at once may each ask for one check, as the code's own comment allows, so
`OneCheckComing` and `TriedSoOften` are checked with one at a time.

## What the code does otherwise

Three runs end in a violation of what a comment in the code says.

1. **`recovery_own_cut`** (`recovery.ts:192`). A line's versions carry a negative revision
   number, so ordering versions across lines by `(revision_no, version_no)` puts them all
   before the main line's. The first version cut on a line is not "at or after" the main-line
   version its iteration was opened from, and the author is offered work they have cut. The
   comment at 161-163 says their own cut offers nothing.
2. **`queue_stalls`** (`queue.ts:193`). `fail` writes by id alone and clears `locked_until`,
   whoever holds the row by then. A worker late from an earlier attempt clears the lease of
   the last attempt; if its holder then dies, the row has no attempts left to be claimed and
   no past lease to be abandoned by, and is never settled.
3. **`publishing_ends`** (`worker.ts:100`). A job is failed in one transaction and its
   handler told in another. A worker that stops between leaves a failed job and a request
   queued for ever.
More divergences are modelled as the code has them, and no property of the runs is
about them:

* A page left with a save in flight queues its last text to go after it, under the next number
  (`session.ts:1188`). A page opened in that window before then goes on from the same number; the
  service keeps one of the two texts, and its answer is kept as the answer to the number. A
  reload then shows the other as saved. The comment at `stored-session.ts:411-413` says the worst
  of it is a notice, "never a save taken for this window's that was not". `SavedIsKept` is
  therefore checked of windows not reopened so early; with `ReopensEarly` TRUE it fails in one
  tab with three texts and two troubles.
* A mail's attempt is recorded by the channel as it is by then (`mail.ts:678`): with the
  environment moved from one relay to the other while a mail is sent, the old one's failure marks
  the new one failing, its success clears it, and the mail that failed is taken to hold back what
  leaves by the new one, though the comment at 225-226 says that neither relay's failing or
  succeeding stands for the other's. `EachRelayForItself` is what does hold.
* Cancelling a closing drops the notices still waiting, and takes their leases; a pass that has
  claimed one sends it all the same (`worker/src/mail.ts:118`), and its record finds nothing to
  write to. The comment at `0208_mail_invitations_and_closures.sql:62` says that what still waits
  to say an environment is closing is never sent.
* `retention.ts:94` asks for a later `version_no` than that of the version an iteration was
  opened from, unless that is the main line's. On a line diverged from *another* line it
  compares two lines' numbering: the next cut is not found and the iteration outlives its
  window, whatever the comment at 88-89 says. The error is on the safe side
  (`KeptThroughItsWindow` holds).
* `webhooks.ts:440` tells a quiet endpoint by the attempt before this one, but attempts go
  with their delivery when it is swept or its type is no longer wanted. With none left the
  endpoint does not count as quiet (434): its count of failing days stands from its last
  failure, however long ago, and one failure disables it. `DisabledOnlyForFailing` allows it,
  since nothing was delivered in that time either.
* Unwanting a type deletes what waits of it (`webhooks.ts:206`), claimed or not, while a pass
  sends what it claimed without reading it again (`worker/src/webhooks.ts:69`): a delivery of
  a type no longer wanted may be sent, its attempt recorded nowhere.
* As with a cancelled closing's notice, a notification whose channel is turned off, or which is
  read, after its claim is sent (`worker/src/mail.ts:105`); and a pass that listed an environment
  before it began closing (59-61) sends its other mail, though a closing one sends its notices
  and nothing else (50).
* A run stops at a failed row, as asked (`cohort.ts:16-18`), by what it failed itself. With
  two runs of one cohort under way (a rerun beside a run not yet ended, or two attempts past a
  lease) one fails a row and the other makes the rows after it.
* So a run that reads a cohort as stopped at a failed row, does nothing and succeeds may leave
  a pending row before that row, once an earlier attempt still going has made the rows after it:
  nobody is told, and the cohort's page offers the failed row's rerun, which takes the pending one too.
  `PendingIsWaitedFor` allows such a row as left at the failed one.
* Two reruns of a cohort with no failed row, only rows a cancelled run left, may both find no
  run and both submit one (`cohorts.ts:331`). Each row is still made once.
* A worker that stops between failing a reported job and telling its handler leaves the
  `api_job` running for ever, as in the third finding, and a rerun of its cohort then counts
  none of the rows it left pending (331): where none has failed it is refused as having
  nothing to run, and its rows wait for nobody. `running` (279-286) counts such a job as one that
  will make the rows. `PendingIsWaitedFor` does not: a run to come is one the queue will try
  again, has out under a lease or will find abandoned, or one whose handler a worker is about to
  tell. What such a stop leaves is the one exception it states (`LeftUntold`), and it holds of
  nothing else: `neverTold` has a job only where a worker stopped in that very gap.
* A reload whose claim is refused puts the surface back to the version's text, under the
  same session; claiming again and saving a version then cuts what the session had saved
  earlier, which is not what the surface shows. `TypedIsWhatACutSays` is of a change made and
  shown as saved, not of a surface unchanged since it opened.
* A page opened over a session another tab has saved under goes on above the service's latest
  number, and so over the other tab's save (`docs/design/component-editor.md` 816-817).
* `docs/design/component-editor.md` 990-992 says a cut sends an idempotency key. `cut` in
  `service.ts` sends none, so a cut whose answer is lost is refused when repeated, its version
  no longer the head, and the page comes to be lost though its version was made.

## The proofs

TLC checks the instances above; these theorems hold for every value of the constants that
satisfies the modules' assumptions (`PeriodsAssumption`, `CountsAssumption`, `NoneAssumption`,
`QueueAssumption`, `PublishingAssumption`, `WebhooksAssumption`, `ReportedAssumption`,
`KeyedAssumption`, `MailAssumption`, `WindowsAssumption`). Some take a hypothesis more, which is
the code's own scheduling or the edge of what it does:

* `~Stalls`, that no living worker outlasts its lease, in the two theorems of `ExclusiveRun`, and
  in that of `PendingIsWaitedFor`: where one does, a late failure clears the lease of a job's last
  attempt (the finding of `queue_stalls`), and a cohort's run may be among those nobody settles.
* One sweep at a time, in `OneCheckOfEach` and `TriedOftenEnough`. Sweeps come ten minutes apart
  in one worker process, and nothing keeps two workers' from overlapping; the comment at
  `sweep.ts:253-255` grants that two may each queue a check and count a give-up twice.
* `~ReopensEarly`, in `SavedKept` and `CutSaysIt`: no page opens in a window while a left one's
  last text waits behind a save in flight. Where one does, `SavedIsKept` is false of the code,
  as [above](#what-the-code-does-otherwise).


| Theorem | States |
|---|---|
| `AuthoringProofs!TypeCorrect` | `Spec => []TypeOK` |
| `AuthoringProofs!NothingGoneStaysHeld` | `Spec => []NothingGoneIsHeld` |
| `AuthoringProofs!TakesOnlyFromTheIdle` | `Spec => TakenOnlyFromTheIdle` |
| `AuthoringProofs!TheTakenAreAlwaysTold` | `Spec => TheTakenAreTold` |
| `AuthoringProofs!KeptUntilTheWindowIsOver` | `Spec => KeptThroughItsWindow` |
| `AuthoringProofs!CutsSayWhatWasSavedLast` | `Spec => []CutSaysWhatWasSavedLast` |
| `AuthoringProofs!LaterCutsOfferNothing` | `Spec => []LaterCutOffersNothing` |
| `AuthoringProofs!ThePromiseIsKept` | `Spec => KeepsThePromise`, the refinement of `OneWriter` |
| `JobQueueProofs!QueueTypeCorrect` | `QueueSpec => []QueueTypeOK` |
| `JobQueueProofs!RunsAreExclusive` | `~Stalls` implies `QueueSpec => []ExclusiveRun` |
| `PublishingProofs!RequestsEndOnce` | `Spec => []OneOutcome` |
| `PublishingProofs!PublishingTypeCorrect` | `Spec => []TypeOK` |
| `PublishingProofs!HandlersAreExclusive` | `~Stalls` implies `Spec => []ExclusiveRun` |
| `PublishingProofs!OneCheckOfEach` | one sweep at a time implies `Spec => []OneCheckComing` |
| `PublishingProofs!TriedOftenEnough` | one sweep at a time implies `Spec => []TriedSoOften` |
| `WebhooksProofs!WebhooksTypeCorrect` | `Spec => []TypeOK` |
| `WebhooksProofs!AttemptsAreFenced` | `Spec => FencedByTheLease` |
| `WebhooksProofs!DisablingIsForFailing` | `Spec => DisabledOnlyForFailing` |
| `WebhooksProofs!DoneIsDone` | `Spec => []DoneIsNotSentAgain`, of the workers that do not stall |
| `ReportedJobsProofs!ReportedTypeCorrect` | `Spec => []TypeOK` |
| `ReportedJobsProofs!JobsEndOnce` | `Spec => EndsOnce` |
| `ReportedJobsProofs!FinishedJobsHaveEnded` | `Spec => []FinishedHasEnded` |
| `ReportedJobsProofs!CancelsAreHeard` | `Spec => []HeardAtItsNextStep` |
| `ReportedJobsProofs!RowsAreMadeOnce` | `Spec => []MadeOnce` |
| `ReportedJobsProofs!PendingRowsAreWaitedFor` | `~Stalls` implies `Spec => []PendingIsWaitedFor` |
| `MailProofs!MailTypeCorrect` | `Spec => []TypeOK` |
| `MailProofs!MailIsHeldWhileSent` | `Spec => HeldWhileItIsSent` |
| `MailProofs!RelaysAreApart` | `Spec => EachRelayForItself` |
| `KeyedProofs!TypeCorrect` | `Spec => []TypeOK` |
| `KeyedProofs!WorkedOnceADay` | `Spec => []DoneOnceADay` |
| `EditorSessionProofs!Typed` | `Spec => []TypeOK` |
| `EditorSessionProofs!OneText` | `Spec => []OneTextANumber` |
| `EditorSessionProofs!SavedKept` | `~ReopensEarly` implies `Spec => []SavedIsKept` |
| `EditorSessionProofs!CutSaysIt` | `~ReopensEarly` implies `Spec => []TypedIsWhatACutSays` |

* **Type correctness** is inductive as it stands, one step per action. `QueueTypeOK` has the
  attempts of a row bounded by `MaxAttempts`, so it says that no claim passes the last.
* **`NothingGoneIsHeld`** is inductive with `TypeOK`: what makes it so is that a claim asks
  whether the component is deleted and the line open, and a delete and a close ask about
  every lock they end.
* **`TakenOnlyFromTheIdle`** needs `AskedOfTheIdle`: every ask in a row, standing or stale,
  comes due no sooner than a grace after a take period (of *some* policy, the one at the
  time) past the moment its holder was last active. A save clears the asks and moves that
  moment; a claim writes a fresh row; an ask adds one that keeps it.
* **`TheTakenAreTold`** needs only the types: of a live lock each step leaves its holder and
  whom it was taken from, ends it, or is a take, which writes whom it was taken from
  (`LiveLockStaysOrIsTaken`).
* **The refinement** needs `Shape`: a line not begun has no versions and no iterations; a
  begun one has a head, and diverged from another line, if it is not the main one; an iteration
  is opened from a version there is, and the main line's from one of its own. Then a save writes the draft of one author on one line, a cut puts the line's text at a
  draft its holder has, and every other writer's change of a head is either of an unheld line
  or its holder's own act. `NoneAssumption` keeps the abstract `Nobody` and `NoText` apart
  from writers and words.
* **`KeptThroughItsWindow`** adds `Dated`: along a line versions' dates run on, and none is
  ahead of the clock. So when any later cut's window is over, the next one's is.
* **`CutSaysWhatWasSavedLast`** adds `OneSave`: a session's sequence names one save of its
  author's. What is opened now is opened from the head, so from no version that a cut was made
  from; the saves a version was cut from are then only ever taken, and the sweep takes a line's
  saves of one opening together.
* **`LaterCutOffersNothing`** follows from `OneSave`, `CutSaysWhatWasSavedLast` and `InOrder`: along
  a session's saves of one line the later number is the later made. What an author is offered
  is their newest save, in whichever of their sessions. Where that session was cut from the
  version it was opened from, the sweep, while it keeps it, keeps the session's every save from
  that version; so it is the last of those by number as by time, and the cut says it. A cut
  that is not its line's first is from a version of the line itself, where the columns' order is the true one. For a
  line's first cut it is not, which is the finding of `recovery_own_cut`.
* **`ExclusiveRun`** needs `LeaseKept`: a job some worker is on has a held lease or is
  settled, and no two are on it. Without stalls such a lease cannot lapse, so no claim finds
  the job; only its own worker's write ends the lease. The assumption `~Stalls` cannot be
  dropped: with it two workers do run one job, which is why the next theorem matters.
* **`OneOutcome`** is inductive with the types of what it counts (`Outcomes`), and assumes
  nothing of leases: each outcome is written with the request's row locked and only where it
  is still queued, so however many workers run it, with whatever they read before, the first
  to write decides.
* **Publishing's types** need `Kept`: the types, `Outcomes`, the queue within its bound and
  finitely many requests published. A sweep queues `SetToSeq` of what it found: a sequence
  of that set's size, since what it found is among the finitely many published. `ExclusiveRun`
  carries over from the queue alone because every step of publishing is a step of the queue
  or one of `Adds`: jobs appended, and at most a running handler returning or throwing.
* **`OneCheckComing`** needs `ComingInv`: a check is of what was published; no two coming are of
  one publication; and of what a sweep may ask a check for, none is coming that it has not
  seen. A publish queues a check only of what had none, and nothing else but the sweep itself
  queues one, so what it read of the queue stays true of it until it writes. With a second
  sweep that last step fails.
* **`TriedSoOften`** adds `TriedInv`. What a check finished, or is about to, was recorded
  (`RanIsChecked`); so of a publication that is unrecorded with no check coming, every check
  gave up, and what the sweep counted as given up is every check there is. A step adds one
  check of a publication at most, its first or one the sweep found too few of
  (`StepAddsOne`), so there are never more than `CheckGiveUps`; each is tried `MaxAttempts`
  times by the types. One is left only where the count is full, and a check that gave up
  stays so. Stalls change none of it, so it takes no `~Stalls`.
* **`FencedByTheLease`** needs of the state only its types and that every delivery is within
  each pass (`TypeInv`), whatever outlasts its lease: no claim takes what is held and not
  past, and a record by any but the holder changes nothing.
* **`DisabledOnlyForFailing`** needs `CountedAfterSuccess`: the count of failing days is never
  begun before the last success, so in ages never the older. A success ends it, a failure
  begins it now or keeps it, enabling ends it, and a day ages both. A record disables only past
  a count so old, so past a success as old.

* **`DoneIsNotSentAgain`** needs `KeptToItsLease`: what a pass has under way is under its own
  lease, not past, or was ended for everyone, wherever its worker keeps to its leases. So
  what it claimed none has recorded. Other workers may outlast theirs as they like.
* **Reported jobs.** `EndsOnce` rests on every write of a job's row moving it on (`Onward`):
  never from an end, never back to accepted. `FinishedHasEnded`, `HeardAtItsNextStep` and
  `MadeOnce` are one inductive invariant with `Sound`: a handler that has begun has a job
  accepted no more, one that has returned a job that has ended, and one that has made a row
  after its job was asked to stop is next to hear of it. None assumes anything of leases, so
  any number of attempts of one job may be under way. `PendingIsWaitedFor` first needs `AwaitsInv`:
  while a handler has rows before it, every pending row of its cohort is among them, or is left
  at a failed row, told of, or waits for a run queued *after* its own. Runs may end in any
  order: one that succeeds hands what is pending to a later one, and the last has none to hand.
  That leaves a row to a job not ended, which the queue must not have dropped. One finished has
  ended (`FinishedHasEnded`); one given up is a worker's to tell of, or was never told
  (`GivenUpIsTold`); and one not settled has attempts left or a lease, to run or be past
  (`LeasedOnTheLast`), because a worker's own count of its job's attempts is never behind the
  row's (`AttemptsKept`, `StepKeepsTheAttempts` in `JobQueueProofs`). This last is what leases
  outlasted would break.
* **`DoneOnceADay`** needs `ReadHolds`: nothing is recorded while a request that read nothing
  holds the key. The types say that only such a request is deciding or making.

* **`HeldWhileItIsSent`** needs `Apart`: what a pass is sending is no longer among its rest. So to record
  it or give the rest back is to carry it no more. Every other write is either of its own lease, or of what no lease
  not past keeps.

* **`EachRelayForItself`** needs the types alone: only what is recorded marks the channel, and
  it is asked there by which relay its purpose leaves.

* **The editor's session.** Three invariants, each over the one before.
  `TypeInv` has the types, with what makes them inductive: which phases wait for which calls
  (`Shape`), one call or answer out for each chain a page waits on and none for the others
  (`OneOut`), and a last iteration of every session that has any (`Topped`), which a cut
  chooses. `OneTextANumber` needs nothing else: the service asks for a later number.
* **`SavedIsKept`** needs `SoundInv`, of each window: of what its storage keeps (`KeptSound`: a
  text not changed since it was sent is the text sent, and a last save accepted is kept by
  the service), of its page (`PageSound`: one that is neither changed nor waiting for a save shows what
  the service keeps, or what it is about to repeat), and of each call and answer it may still hear
  (`RequestSound`, `AnswerSound`: a save under the last number, the text unchanged since, says
  that text or one the service has). Nothing is said of what other tabs send under the same
  session but what the service's own check of numbers gives, so it holds with copies. A step
  carries a call over when the record goes to a new session, to a later number, or leaves no
  text standing that did not stand (`Carries`). The save that waits behind another as a page
  leaves is followed into the window it is heard in (`FollowsOn`); `~ReopensEarly` says that
  nobody opens a page there meanwhile.
* **`TypedIsWhatACutSays`** adds `OwnInv`, of the windows whose session no other took: every save
  under the session, sent or kept, has a number no later than the last one, and one under
  the last says the window's text from the version the page cuts (`Under`). So nothing sent is
  ahead of what is shown, and what is accepted is the last (`Drafted`).

Only model-checked: the liveness properties (`CheckedOrLeft`, `EveryJobEnds`, `EveryRequestEnds`,
`EveryDeliveryEnds`, `EveryMailEnds`, `EveryRequestIsAnswered`, `EveryWaitEnds`), since liveness under
fairness and `ENABLED` are out of the prover's reach. Every invariant and action property of the
passing runs is a theorem. Induction over data and `RECURSIVE` operators are out of reach too; the
modules have neither: `Attempts` counts the tries of a publication's checks as the size of a set of
pairs, of which the prover's theorems on finite sets say enough.

## What is not modelled

Of the modelled parts: rights and sharing (an action is one the service has let through);
setting aside what is offered to recover (Discard);
the content of versions, their comparison and validity; previews and ranges, resolving and
compiling what is published; a webhook's URL, secrets, payload and removal, and the telling
of its administrator; taking over, the recovery panel, other lines and the storage's limits in
the editor's session; why a person may not be mailed, the limits on invitations, the telling of administrators and the
channel's password; a row's document and parameters, and what a job tells of its progress;
the queue's `postpone` and the kinds a closing tenant runs,
which belong to the tenant's lifecycle; records kept beside an action for audit. The other
parts of the table are not modelled yet, or, where they are pure I/O, formats, user
interface or set algebra in one transaction, not at all; each has its reason in
`PROJECT.json`.

## The plan

In order:

1. `EditorSession` with taking over and the recovery panel, and its service refined by
   `Authoring`.
2. `Supervisor`: the connector's children, caps, deadlines and answers.
3. `ObjectSweeps`: objects put before the rows that name them, and what the sweeps delete.
4. `TenantLifecycle`: states, the kinds each lets run, postponing, holds against a purge.
5. `Gates`: rounds, acts, designations; a version cut under an open round.
6. Structure and numbering as functions against a reference definition; the generation
   budget; presence and the stream.

Proofs to add: once `EditorSession`'s service is refined by `Authoring`, that refinement; and each
new component's types and invariants with it.

## Running it

    tlc -workers 2 -config authoring_lock.cfg MCAuthoring
    tlapm AuthoringProofs.tla

Each run's module and configuration are in `PROJECT.json`. The runs that pass take up to four
minutes; each proof module takes a few minutes.
