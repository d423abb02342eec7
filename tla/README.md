# TLA+ models of the GitHub release notifier

A user subscribes an e-mail address to the releases of a GitHub repository,
confirms by a link, is mailed about each new release and may unsubscribe. The
work is split over three processes that share Redis (BullMQ queues) and two
PostgreSQL databases. This directory models the parts where they can disagree.

Paths below are relative to the repository root: the Main API is `src/`, the
Notification Service `services/notification-service/src/`, the GitHub Scanner
Service `services/github-scanner-service/src/`.

## 1. The system

| Part | State it keeps | Operations | Talks to |
|---|---|---|---|
| Subscription saga orchestrator (`src/modules/subscriptions/saga/subscription-saga.orchestrator.ts`) | tables Repository, Subscription, SubscriptionSaga | `start`: verify, one transaction, mark, enqueue the mail; catch: compensate | scanner (verify), email-queue |
| Compensation (`.../subscription-saga-compensation.service.ts`) | the same tables | `compensate`: four statements, each its own transaction | called by `start` and by the result handler |
| Notification result worker and handler (`.../notification-result.*.ts`) | SubscriptionSaga.status | `confirmation-email-sent` completes, `-failed` compensates; concurrency 5, 3 attempts | notification-result-queue |
| Subscription service (`src/modules/subscriptions/subscription.service.ts`) | Subscription.status | confirm, cancel, list; then sync of the tracking | scanner-command-queue |
| Email worker (`services/notification-service/src/email.worker.ts`) | job progress (the `email-sent` checkpoint) | confirmations: mail, checkpoint, report; new releases: mail; 3 attempts, concurrency 5 | email-queue, SMTP, notification-result-queue |
| Repository tracking (scanner: `workers/scanner-command.worker.ts`, `app/repository-tracking.service.ts`) | TrackedRepository.active, sourceRepositoryId | activate, deactivate; concurrency 5 | scanner-command-queue |
| Release scan (scanner: `app/repository-scanner.service.ts`) | TrackedRepository.lastSeenTag, `scanInProgress` | cron scan: ask GitHub, publish, save the tag | GitHub, scanner-event-queue |
| Scanner event handler (`src/modules/scanner/`) | Repository.lastSeenTag | new-release mails for ACTIVE rows, then save the tag; concurrency 1 | scanner-event-queue, email-queue |
| Release cache and GitHub client (scanner: `cache/`, `github/`) | Redis key per repository with tag and ETag, TTL 600 s | conditional GET | GitHub, Redis |
| Repository verification (scanner: `grpc/`, `controllers/`; Main API: `infrastructure/scanner/`) | none | verify over gRPC or REST, errors mapped twice | GitHub |
| Process lifecycle (`services/*/src/index.ts`, scanner: `grpc/grpc-server.ts`) | what is listening or closing, the exit code | start, SIGTERM and SIGINT, close one part after the other, exit | Docker (`restart: unless-stopped`) |
| HTTP plumbing, metrics, dashboard, Swagger, web page, benchmarks | none that the rest reads | | |

Behaviours that are hard, and to which `PROJECT.json` "hazards" gives the lines:

- the two results of one saga, the catch block of `start`, user clicks and later
  requests for the same row all run between each other's SQL statements;
- every handler reads a row, awaits, and writes by id what it decided on;
- BullMQ retries what threw, hands out again what stalled, and adds a job with a
  known id only once;
- a process may die anywhere (the Main API has no shutdown handler), a lock may
  expire under a running activation, a call may throw after it took effect;
- a signal arrives while mails are sent, commands applied and verifications
  answered, or before the scanner has started: its start and its stop are two
  coroutines of one thread.

What makes each part correct:

- saga: a COMPENSATED saga has taken its PENDING row back, and only two
  activations at once can revive it; nobody becomes ACTIVE before a confirmation of
  that row was mailed; a reported failure is undone however often it is retried;
  COMPLETED means that the mail was accepted; no compensation touches an ACTIVE row;
  a repository that a failed saga created is left to nobody only when another failed
  saga shared it;
- email worker: `sent` is told only of an accepted mail, a job completes only
  after telling it, nothing is mailed again after its checkpoint, a failure is
  told only by the last attempt, a release is mailed once however often its event
  is handled, every job ends, and a graceful stop costs none anything;
- saga and worker together: a saga ends, or stays in one of the few windows that
  the code leaves open; a temporary SMTP error compensates nothing;
- tracking: a link that is served while nothing else runs brings the scanner back
  in step with the subscriptions, whatever was lost, stale or overtaken before;
- release scan: no release of a tracked repository stays unseen, no tag is marked
  as seen before it was announced, who was ACTIVE when a release was announced
  and stays so gets exactly one mail job for it, and nobody else gets one who was
  not ACTIVE while it was announced;
- verification: a request is refused only for the reason its status names, the
  same over both transports; a gRPC call is answered by its deadline, and what the
  scanner has accepted is settled although GitHub is silent and a stop comes between;
- process lifecycle: a signal always ends the process, and an exit with code 0
  has cut nothing short that was accepted before.

## 2. Modules

| Module | What it is |
|---|---|
| `BullJob` | a BullMQ job as the services use it: state, attempts used, stalls (external, fixed by how `src/` adds its jobs) |
| `ConfirmationDelivery` | abstract: what the Notification Service promises of one confirm-subscription command |
| `EmailWorker` | the worker itself; implements `ConfirmationDelivery` |
| `SubscriptionPromise` | abstract: what the Main API promises to subscribers: double opt-in, what may be taken back and by whom, when a saga settles |
| `SubscriptionSaga` | implements `SubscriptionPromise`: orchestrator, compensation, result handlers, confirm and cancel over the database |
| `MCSubscriptionSaga` | `SubscriptionSaga` for TLC: the symmetry of requests and addresses |
| `SubscriptionFlow` | `SubscriptionSaga` and `EmailWorker` over the queues they share |
| `RepositoryTracking` | links, `syncRepositoryTracking`, the command queue and its worker, the scanner's row |
| `ReleaseNotice` | abstract: who is mailed a release, and when its event is done |
| `ReleaseScan` | implements `ReleaseNotice`: cron scan, conditional request and cache, event queue, event handler, new-release mail jobs |
| `RepositoryVerification` | one verification over gRPC or REST: the deadline of gRPC, the timeout of GitHub and the error tables |
| `ScannerService` | the scanner as a process: `RepositoryVerification` and the command worker between its start and its stop |
| `BullJobTheorems` | lemmas about `BullJob` |
| `SubscriptionFlowProofs` | the theorems about `SubscriptionFlow`, and those of its two parts carried over to it |
| `SubscriptionSagaProofs`, `EmailWorkerProofs`, `RepositoryTrackingProofs`, `ReleaseScanProofs` | the theorems about the module of that name, for all constants |
| `RepositoryVerificationProofs`, `ScannerServiceProofs` | the same, for any calls and commands |

Where modules interact, most meet at a promise and not in one state:
`SubscriptionSaga` takes from the Notification Service what `ConfirmationDelivery`
promises and `EmailWorker` is proved to keep; `SubscriptionFlow` puts the two in
one state for what the promise is silent about, the jobs that are given up.
`ScannerService` runs `RepositoryVerification` in one state, and its every step is
proved to be one of that module or none. `RepositoryTracking` takes from the saga that rows become
PENDING (`FindUnsubscribed`, `Resubscribe`) and change by links; `ReleaseScan` takes
from both that rows become and cease to be ACTIVE and that `active` may change at
any time (`Confirm`, `Cancel`, `SyncTracking`).

A definition marked "Fault" is not part of a model. It is a plausible bug: the
definition after it with a guard dropped or an update missing. `PROJECT.json`
"mutants" says which property must reject it.

### SubscriptionSaga

`call[r]` is one POST /api/subscribe; its `pc` names the statement that runs
next. `task[s][a]` is an activation `a`: of `compensate` in the catch block
(`Start`), or of the handler of a result, `compensate` for `"failed"` and
`handleEmailSent` for `"sent"`. `result[s][k]` is the BullMQ job of that result.
`click[c]` is one visit of a confirm or unsubscribe link. `repository`,
`subscription` and `saga` are the tables. `overlapped` is history: the sagas of
which one activation began while another was at work.

- An activation of a result is named by how often its job had stalled when it was
  taken. A lock that expires (`LoseLock`, or `LoseLockFirst` before the handler has
  read anything) counts a stall and hands the job out again, so a second activation
  of the same result runs beside the first, which goes on with its statements but can
  no longer finish the job (`HasLock`, `Finish`).

- Ids and tokens are random uuids and each request inserts at most one row in
  each table, so a row, its tokens and its saga are named by the request that
  drew them. `confirmToken` and `unsubscribeToken` are always drawn together.
- The transaction of `start` is READ COMMITTED: its two reads are steps of their
  own (`FindRepository`, `FindSubscription`); its writes take effect together at
  the commit, where unique and foreign keys are checked (`UniqueViolation`,
  `RowGone`). A transaction whose commit succeeds but whose reply is lost looks
  like a crash right after the commit.
- Verification happens before anything is read or written; it may fail or go
  straight on to the first read.
- Taking a result job and its first read (`findById`) are one step, unless the
  lock expires in between (`LoseLockFirst`, then `Find`): nothing else that can come
  between them could be told from its coming before. The other fields of a saga never
  change after the commit, so only its status matters.
- `TaskFails` is a statement that throws, before or after it took effect (after:
  the step and then `TaskFails`).
- `Crash` ends every activation; the result jobs it held stall at once. Waiting
  for the lock to expire would only delay them.
- The result worker's concurrency of 5 is not a bound: every waiting job may run.
- `Deliver`, `ReportSent` and `ReportFailed` are the Notification Service, with
  exactly the guarantees that `EmailWorker` is proved to keep. A second delivery or
  report changes nothing the Main API sees and is no step of this module; in
  `SubscriptionFlow` it is the worker's step alone.
- The tracking command that follows a confirmation touches none of these tables;
  it is the subject of `RepositoryTracking`.
- Unsubscribe links reach users by release mails, which go to ACTIVE rows: the
  link is there from the confirmation on.

### SubscriptionPromise

`status` and `token` are the rows, `row` and `outcome` the sagas, `mailed` the
confirmations. A row begins with a saga, or again with a row that was confirmed
before; a link is answered only on a row whose confirmation was mailed; only a
PENDING row is taken back, by a saga that has it; a saga is completed only after
its mail and compensated only when no row waits for it. The promise is silent
where findings 1 to 4 are: a settled saga may settle again, an UNSUBSCRIBED row may
be confirmed again, two requests may get one UNSUBSCRIBED row, and a saga takes
back whatever is PENDING in its row.

### EmailWorker

`job[m]` is a job of email-queue: the confirm-subscription job of a saga, or the
new-release job of a subscription and a tag, which `AddRelease` adds again
whenever its event is handled again. `progress` is the set of confirmations whose
checkpoint is set, `slot[w]` one concurrent activation of `processJob` with the
`attemptsMade` it read, `delivered` what SMTP accepted and `reported` what was
added to the result queue. `lock[m]` is the slot BullMQ listens to: a slot that
lost it (`LoseLock`) goes on mailing and publishing, but its outcome is refused.
Each awaited call may throw before or after it took effect. `acked` is history:
the releases whose acceptance an activation saw. Back-off delays are waiting jobs.

`Shutdown` is a signal: from then on nothing is taken, the activations go on, and
the process ends (`Exit`) when all are idle. `Crash` is its death, or the kill
that Docker sends when the stop takes too long. Either way it is started again at
once: the time it is down would only delay. A second signal begins a second
`close()`, which BullMQ answers with the first one's promise; there is no step for
it. The order in which the result publisher is closed after the worker does not
matter, because nothing runs any more.

### ConfirmationDelivery

The promise: `sent` is reported only of a delivered mail, a command completes
only after that report, nothing is delivered or reported unasked. It does not
promise that a failure means "not delivered" (an SMTP acknowledgement may be
lost), nor that some result is always reported (see the abandoned jobs).

### SubscriptionFlow

Each service takes the steps of its own module. A step of the Main API that adds
a mail is also the worker's `AddEmail`, a step of the worker that mails or reports
is, the first time, also the saga's `Deliver` or `ReportSent` or `ReportFailed`, and `Shared` says
what the two have in common: the jobs, the links mailed, the results added.
`unpublished` and `cutShort` are history. `unpublished` has the sagas of which an
activation had a result to report and reported none; `cutShort` those of which work
was cut short that no job repeats: a request between its commit and its answer, or a
compensation of the catch block or of a handler without its lock. That every
behaviour of `SubscriptionFlow` is one of `SubscriptionSaga` and one of `EmailWorker`
is proved, so what holds of either holds beside the other.
New-release jobs have no part in it (`Release <- {}`).

### RepositoryTracking

One repository: commands of different repositories touch different rows.
`click[c]` is a link that is being served, statement by statement (`UpdateStatus`,
`Count`, `Publish`); `command[i]` is the i-th command published with its job;
`slot[w]` is one of the worker's activations and whether it still holds its lock;
`tracked` is the scanner's row. A new request takes two statements to make an
UNSUBSCRIBED row PENDING and publishes nothing, so a link that is followed
between the two is overwritten. `alone` is a history variable: nothing in the model
reads it. It is TRUE as long as the last link was followed while nothing else ran,
its command was not lost for good, and its row was not overwritten.

### ReleaseScan

`latest` is what GitHub would answer and `cache` whose ETag Redis has. An entry
that expired and a release that was edited both look like a 200 with the tag
already seen, so `AskGitHub` allows a 200 at any time and a 304 only when the
cached tag still is the latest. `scan` holds what `findActive` returned, the
repository being scanned and the statement that runs next. `event[i]` is the i-th
event with its job; `owed` in it is history: who was ACTIVE at the publication
and has not cancelled since. `entitled` is history, too: the mails to those who
were ACTIVE at some time while an event that notifies was not at its end. `handler` is the event worker's one activation
(concurrency 1). `mails` are the ids of the new-release jobs, which
`createNewReleaseJobId` builds from the subscription and the tag: adding one that
exists does nothing. A subscription is a pair of a repository and a user here;
its row keeps its id through cancellation and re-subscription.

The ids of the repositories and their names do not change, so the handler's two
"ignored" branches are not in the model. What the mail jobs become is in
`EmailWorker`. A lock that expires under the event worker is a `MainCrash` just
before `Return`, as there is no second activation that the first could overlap.

### ReleaseNotice

`notice[i]` is an announcement: open, handled or dropped, of a first tag or of a
release, and whom it is owed to. A mail goes to somebody `entitled` only and for an
open announcement that is not a first tag; an announcement is handled only when
everybody it is owed to is mailed. Announcements may be handled in any order and
mailed again; that each ends is `OwedGetMailed` of `ReleaseScan`.

### RepositoryVerification

`call[c]` is the Main API's side of one verification, `work[c]` the scanner's,
which a deadline does not stop: the gRPC deadline is 3 s, the scanner's GitHub
timeout 5 s (`GitHubTimesOut`). Only a gRPC call has a deadline (`Deadline`): nothing
under `src/` gives `RestRepositoryVerifier` a timeout, so a REST call waits for the
scanner's reply or the end of the connection. The tables are operators with the names
of the functions they translate. The container of the Main API builds the gRPC
adapter only; `RestRepositoryVerifier` is built by its tests and is modelled because
ADR-007 says that both support the same logic: what is said of it is said of the
adapter and the scanner's REST route, not of the Main API as it is deployed. A gRPC answer with an empty
`full_name`, which is mapped to 502, is not modelled: the scanner never sends one.

### ScannerService

`boot` and `stop` are the awaits of `bootstrap()` and `shutdown()`; `rest`, `grpc`
and `worker` are what they start and close; `jobs` are the tracking commands that
are running. Each coroutine runs from one await to the next in one step.

- Only `grpcServer.start` is awaited at the start. A signal before it resolves
  finds nothing to close and goes straight to the release of the resources, while
  `bootstrap` may still start the rest behind it: the exit with code 0 then cuts
  short what those parts took on. `orderly` is history and tells such a stop from
  one that came after the start.
- Express 5 hands a failed `listen` to the callback, which takes no argument: the
  REST server is `"deaf"`, the service runs without it, and its stop ends with
  exit code 1, before the gRPC server and the worker are closed, because closing a
  server that is not listening rejects.
- `tryShutdown` and the HTTP close wait for the calls they have accepted. A call
  ends for them when it is replied or its caller stops waiting: over gRPC at the latest
  at its deadline, over REST at the latest when the scanner's GitHub request times out.
- `Kill` is a death of any kind. The scanner's Dockerfile starts node through
  `sh -c`, so whether SIGTERM gets to node depends on the shell; if it does not,
  Docker kills.
- The cron task is stopped but a scan in progress is not awaited: for a scan every
  stop is the `ScannerCrash` of `ReleaseScan`.

The Main API has no shutdown handler: every end of it is the `Crash` of its models.

## 3. Runs

| Run | Bounds | Question |
|---|---|---|
| `email_worker` | 1 confirmation, 1 new release, 2 slots, 3 attempts, 1 stall, 1 crash, 1 lost lock, 1 stop | Is the promise kept whatever fails between two steps, is a release mailed once, does a stop do no harm, and does every job end? |
| `saga_safety` | 2 requests, 1 address, 1 repository, 1 link at a time, 1 fault | Are the compensations right among handlers, clicks and later requests? For whom does a repository stay? Is `SubscriptionPromise` kept? |
| `subscription_flow` | 1 request, no links, 1 slot, 2 attempts, 1 stall, 2 faults of the Main API, 1 crash and 1 lost lock of the worker | Over both services: when does a saga stay unfinished, and what starts a compensation? |
| `saga_settles` | 1 request, 1 link at a time, 2 attempts, 1 stall, 2 faults | Does a reported failure always end undone, and stay so unless two activations overlap? |
| `saga_confirm_again` | 1 request, 1 link | finding: an old confirmation link re-activates |
| `saga_final` | 1 request | finding: COMPENSATED is overwritten |
| `saga_duplicate` | 3 requests, 1 link | finding: two re-subscriptions accepted |
| `saga_late_undo` | 2 requests, 1 link | finding: a late compensation removes a later saga's row |
| `tracking` | 2 subscriptions, 2 links at a time, 3 in all, 2 activations, 2 attempts, 1 stall, 1 fault | Does a link that is served alone heal the projection, whatever went wrong before? |
| `tracking_drift` | 1 subscription, 3 links, 2 activations | finding: an ACTIVE subscription is not scanned |
| `release_scan` | 1 repository, 1 subscriber, 2 tags, 2 changes of the latest release, 2 attempts, 1 fault | Who is owed a mail gets a job, who is not entitled gets none, no release stays unseen |
| `scanner_service` | 2 calls, each over either transport, 1 command | Is a request refused only for its reason, alike over both transports, and answered when it has a deadline or was accepted, while the service starts and stops? Does a stop end, and cut nothing short? |

The bounds are named constants: `MaxAttempts` and `MaxStalls` are the code's (3
attempts; BullMQ's default of 1 stall) or smaller where no more can be used up
within the faults allowed; `MaxFaults`, `MaxCrashes`, `MaxLockLosses` and
`MaxStops` limit what goes wrong and who is stopped, not what the program does; `MaxReleases`, `MaxCommands` and
`MaxEvents` limit what GitHub and users do. `MaxEvents` is the number of
publications the other bounds can cause: one for a repository's first tag, one
for each change of it and one for each failure that kept a tag from being saved.
Two requests are what an overlap of sagas on one row needs; one link process is
enough because it may follow any number of links one after the other; two slots
are enough for an attempt whose lock expired to overlap the next one, and one
fault for a handler to be retried from every statement. What takes two faults is in
the runs with one request, `saga_settles` and `subscription_flow`: a lock that
expires under a handler and a crash or an error after it, a lost reply of `queue.add`
and the compensation cut short. They hand out a stalled job once more; `saga_safety`,
which has two requests and one fault, gives it up (the theorems of section 4 cover
every number of requests, faults and stalls). `saga_safety` has one address, which is
enough for `OrphanWasShared` to meet an orphan: the second request finds the
repository of the first, the first is compensated, the second commits a row of its
own, the first keeps the repository for it, and then the second fails, too. `email_worker` has one job
of each kind, because jobs of one kind meet only in the slots they share, and two
slots for each job to be run by both. `subscription_flow` needs no second slot: in it a
lock that expires only puts the job back, which the one slot takes when it is idle; what two
activations of one confirmation can do to each other is the subject of `email_worker`,
and the theorems about `SubscriptionFlow` hold for any slots. Three commands are what it
takes to overtake, to lose and to heal; `tracking` was also checked once with
two faults (2.3 million states). Two changes of the latest release let a tag be
announced twice and another one appear in between. Symmetry is used only where
no liveness is checked.

Deadlock is not checked in the runs of the worker, the saga, the flow, the tracking
and the scanner's process: requests are finite and every answer, job and saga
reaches a state in which nothing is left to do, and a process that has exited does
nothing. `release_scan` checks it: the cron never stops.

Fairness. `EmailWorker!FairSpec`: a running worker polls its queue and each
awaited call ends (weak fairness of a slot's steps together, and of taking some
job); a process that is stopping and idle ends and is started again (weak fairness
of `Exit`: `docker-compose.yml` has `restart: unless-stopped`, and what an operator
stops is started by the next deployment). `SubscriptionSaga!FairSpec`: the same of the result worker and of the
handlers it runs. `RepositoryTracking!FairSpec`: a served link and an activation
go on, waiting commands are taken. `ReleaseScan!FairSpec`: the cron ticks, a
scan and a handler go on (every call they await ends; the GitHub request has a
timeout), waiting events are taken. `ScannerService!ServiceFairSpec`: the timers fire,
that of a gRPC call's deadline and that of the scanner's request to GitHub, while the
scanner runs it replies what it has; a command that runs ends, and so does a close whose
turn it is. GitHub's answers are not forced, nor does a caller over REST ever have to
give up. Nothing forces users, SMTP success, requests or crashes; the
number of faults is bounded, which is what lets a retry succeed in the end.

### Findings

Five runs end in a violation on purpose. Each states what a document or a test
says of the program; `PROJECT.json` "findings" quotes it.

1. `UnsubscribedNeedsNewRequest`: `confirmSubscription` refuses only ACTIVE rows.
2. `CompensatedIsFinal`: `markCompleted` does not look at the status again. It
   takes two activations at work on the saga at once: of its two results, of one of
   them and the catch block of a request whose `queue.add` lost its reply, or of one
   result whose lock had expired (`markCompensating` asks for no status either).
   `OnlyOverlapReopens` says that retries and restarts, one after the other, never do.
3. `NoDuplicateAcceptance`: the re-subscription updates by id, and no unique
   constraint is involved. Where one is, it works: of the requests for a
   subscription that does not exist yet one is accepted, and its row keeps its
   token (`FirstRequestKeepsItsRow`). The property speaks of a row that is PENDING
   before and after the step, so what refutes it is two re-subscriptions of one
   UNSUBSCRIBED row at once, and not finding 1.
4. `CompletedStaysPending`: a compensation takes back whatever PENDING row has
   the id it read, whichever saga made it PENDING.
5. `ActiveIsScanned`: the scanner applies tracking commands five at a time and
   retries them later, so confirm, unsubscribe, confirm can end with the
   unsubscribe applied last. The next link that is served alone heals it
   (`AloneClickHeals`).

Not a run: the sequence diagram in section 5.2 of `docs/system-design.md` (lines
243-248) saves the tag before it publishes the event, and saves the Main API's tag
before it adds the mail jobs. The code does both the other way round, which is
what `SeenWasAnnounced` and `OwedAreMailed` rest on.

### Where a saga stays unfinished

`StuckOnlyInItsWindows` lists the ways a saga can end up neither COMPLETED nor
COMPENSATED once nothing is left to do:

1. the request, or the compensation in its catch block, was cut short after the
   commit, and no mail was requested (ADR-006 names it);
2. a result could not be published on the last attempt, and none was before
   (ADR-006 names it). This includes a case that no document names: the mail was
   accepted, the checkpoint or `confirmation-email-sent` failed on the last
   attempt, and the job is given up. The user has a link that works; the saga stays
   EMAIL_SEND_REQUESTED;
3. the mail's job stalled once too often: BullMQ fails it, and the worker never
   gets to report;
4. a result's job used up its own attempts or stalls. Its id is taken for good, so
   the result cannot be queued again;
5. a compensation that no job repeats was cut short after it had marked the saga
   COMPENSATING. Either it is that of the catch block: `queue.add` added the mail's
   job but its reply was lost, the mail's result was handled to its end in the
   meantime, and the compensation wrote COMPENSATING over that and was cut short. Or it is that of a handler that had lost
   its lock: it read EMAIL_SEND_REQUESTED, the next activation compensated the saga and
   completed the job, the first wrote COMPENSATING over it (`markCompensating` does not
   ask for the status) and died. No document names these two. Each takes two faults,
   which `subscription_flow` has.

The windows are told apart per saga by the histories `cutShort` and `unpublished`:
that something failed elsewhere excuses no saga.

That these five are all is not a matter of the bounds: `StuckIsInAWindow` proves it.

### Which repository stays for nobody

`compensation.service.ts:56-57` asks only the saga that created the repository to
drop it, and only if no subscription holds it then. When the requests of two
subscribers share a new repository and both fail, the first compensation keeps the row
for the second subscriber, and the second does not ask for a repository it has not
created: the row stays for nobody. Nothing has to go wrong for it but the two mails,
and no document promises otherwise, so it is no finding. `OrphanWasShared` says that it
is the only way: the other saga named the repository and is COMPENSATING, COMPENSATED
or overwritten with COMPLETED, or two activations of the creating saga overlapped.

## 4. Proofs

`SubscriptionSagaProofs` proves for any sets of requests, addresses,
repositories and clicks and any bounds:

| Theorem | Statement |
|---|---|
| `TypeCorrect` | `Spec => []TypeOK` |
| `CompensationSticks` | `Spec => []CompensatedUndone` |
| `FailureReportsCompensate` | `Spec => []FailureReportHandled` |
| `CompletionWasMailed` | `Spec => []CompletedWasMailed` |
| `ActiveIsSafe` | `Spec => ActiveEndsOnPurpose` |
| `RepositoriesUndone` | `Spec => []OrphanWasShared` |
| `RetriesDoNotReopen` | `Spec => OnlyOverlapReopens` |
| `FirstRequestWins` | `Spec => FirstRequestKeepsItsRow` |
| `ImplementsSubscriptionPromise` | `Spec => ImplementsPromise`, the refinement of `SubscriptionPromise` |
| `OptInIsDouble` | `Spec => []Promise!DoubleOptIn`: who is ACTIVE or UNSUBSCRIBED has a row of which some saga's confirmation was mailed; not which token, nor that the link was followed |

Assumptions: `None` is no id, the bounds are natural numbers, `MaxAttempts` is
not 0. `TypeInv` adds to `TypeOK` what typing depends on: a handler of a result
runs only for a job, which it may have lost, and a job's attempts and stalls stay below
their limits while it is unfinished (`JobsSound`), a link that is being followed
has found a row (`ClicksFound`), a row has a token (`TokensDrawn`). The argument
for the rest is that a row can get token `s` only from the commit of request `s`, and that commit happens once, before saga `s` exists. So
`Undone(s)`, once true of an existing saga, is stable (`UndoneStable`), and the
compensation's one update establishes it because the token can only be on the
row the saga names (`TokenRow`, `UndoSubscriptionUndoes`). `SafeInv` states what
is needed: what exists before a commit (nothing), what was asked for, where a
token can be and how far a handler has come. The lemmas `RowSteps`, `CallSteps`,
`TaskSteps`, `SagaSteps`, `ResultSteps` and `QueueSteps` say once what one step
can make of one entry of each table, so that each conjunct of the invariant is
checked against them and not against every action again.

`OverlapInv` is what `RetriesDoNotReopen` needs. Two activations are at work on a saga
at once only if `overlapped` says so (`Overlapping`). Until the catch block compensates,
nobody but the request is at work on its saga (`StartAlone`), and whoever is past its
first write, or completed its job, has moved the saga on (`TouchedBy`, `JobsTouch`). So
an activation that is about to write and finds the saga COMPENSATED since it read it has
been overtaken by another (`OvertakenOverlap`); a retry starts with that read again. Writing this
proof showed that `AfterFind` had been stated as a CASE with overlapping arms: TLC
takes the first that holds, TLA+ leaves the value open, and the theorem did not
follow. It is an IF now, in the order of the code's early returns.

`RepositoryInv` is what `RepositoriesUndone` needs beyond that. A row never changes
its repository, so a saga, the row it names and a request that found that row agree
on the repository as long as the row exists (`SagasKnowRows`, `CallsKnowRows`). Whoever
is done with the repository has seen it settled (`Settled`, `UndoneSettled`): it is
gone, or a row holds it, or another saga that named it has been taken up by a
compensation or a completion, or its own activations overlapped. A row goes only by a
compensation of a saga that names it, so losing the row makes the third of these true
when it ends the second (`SettledStable`).

`OptInInv` is what `FirstRequestWins` and the refinement need. That a confirmation
of a row was mailed (`Mailed`) stays true once it is (`MailedStable`), and an ACTIVE
or UNSUBSCRIBED row, a saga that did not insert its row, a request that found a row
UNSUBSCRIBED and a link that is followed all presuppose it (`RowsMailed`,
`SagasMailed`, `CallsMailed`, `LinksMailed`). A first row is taken over by nobody: a
request that read the row UNSUBSCRIBED finds it, if it is PENDING again, with another
token than its first (`CallsMailed`), and one that read no row fails at the unique
key. The refinement takes the commit to `Begin`
(`CommitBegins`), the one update of a compensation to `TakeBack`, the three statuses
to `Settle`, a link's update to `Answer`, and every other statement to a stutter
(`PromiseStep`). That a saga is marked COMPENSATED only when no row waits for it is
`Undone` of the invariant before.

`SubscriptionFlowProofs`, for any requests, addresses, repositories, clicks, slots
and bounds:

| Theorem | Statement |
|---|---|
| `FlowRunsSaga` | `FlowSpec => Spec`, the specification of `SubscriptionSaga` |
| `FlowRunsWorker` | `FlowSpec => Worker!Spec`, that of `EmailWorker` |
| `FlowTypeCorrect` | `FlowSpec => []FlowTypeOK` |
| `CompensatesOnLastAttempt` | `FlowSpec => []CompensatedOnLastAttempt` |
| `StuckIsInAWindow` | `FlowSpec => []StuckOnlyInItsWindows` |
| `FlowKeepsPromise` | `FlowSpec => ImplementsPromise` |
| `ActiveRowsWereDelivered` | `FlowSpec => []ActiveWasDelivered`: of a row that is ACTIVE or UNSUBSCRIBED, the confirmation of some saga that names it was accepted by SMTP, not necessarily that of the token it now has |
| `AllSagasEnd` | `FlowSpec => []RestIsTheEnd`: at rest, and outside the five windows, every saga is COMPLETED and delivered, or COMPENSATED with no subscription waiting for it; of repositories it says nothing |

With the first two, every invariant of either service is an invariant of both
together, and `Shared` says that a job or a result one of them added is the one the
other takes. `CompensationInv` is about the time before the first fault of the Main
API: only a request that never queued its mail, or a reported failure, starts a
compensation; `AttemptsInv` of the worker then says at which attempt.

`StuckIsInAWindow` asks of every unfinished saga what will go on with it.
`ProgressInv` is the Main API's half, for any number of faults: a saga that has not
queued its mail is in the hands of its request or of the request's compensation, or
was cut short (`UnqueuedGoesOn`); and a COMPENSATING saga is in the hands of an
activation that compensates it or of a failed result that will be taken again, or was
cut short (`CompensationGoesOn`). An activation that ends without its lock is what puts
a saga in `cutShort`; one that has its lock gives the job back (`ActivationEnds`,
`JobGoesBack`). `ToldInv` is the worker's
half: whoever gives a confirmation up on its last attempt has reported something or
was kept from it (`unpublished`), which needs that an activation with the lock has
read the very `attemptsMade` its job has (`HoldsAttempts`); and a completed
confirmation was reported (`CompletedSagaReported`). With nothing left to run, the
cases that remain are the five windows (`StuckIsExplained`). `AllSagasEnd` turns that
round, with what the invariants say of each end, and `ActiveRowsWereDelivered`
follows the promise through the link (`OptInIsDouble`) to the worker's delivery.

`ReleaseScanProofs`, for any finite set of repositories, any subscribers and tags
and any bounds:

| Theorem | Statement |
|---|---|
| `TypeCorrect` | `Spec => []TypeOK` |
| `SeenTagsWereAnnounced` | `Spec => []SeenWasAnnounced` |
| `OwedAlwaysMailed` | `Spec => []OwedAreMailed` |
| `EventsLeaveTheirTags` | `Spec => EventLeavesItsTag` |
| `ProjectionIsLastEvent` | `Spec => []ProjectionFollows` |
| `ImplementsReleaseNotice` | `Spec => ImplementsNotice`, the refinement of `ReleaseNotice` |
| `OnlyEntitledAreMailed` | `Spec => []Notice!MailsOnlyEntitled` |

`TypeInv` adds to `TypeOK` that only published events differ from `NoEvent`, that
an event names a repository and a release once it has a job, and that the handler
runs only while its event's job is active. `SeenInv` adds that the tag about to be
saved is announced already. `OwedInv` follows a mail through the handler: who is
owed one is ACTIVE until the event is completed, so the rows that
`FindSubscriptions` reads include everybody owed, so after `AddBulkEmails` all of
them have jobs, however often the event was started before. `PublishAppends`,
`CancelTakesOff`, `TakeEventMoves`, `EndMoves` and `JobMoves` say what each step
makes of the events; `OwedSteps` sums them up. The repositories must be finite
because `MaxEvents` counts them.

`ProjectionInv` says what the handler may rely on when it skips its last statement:
only this handler writes `projection`, one event at a time, so the tag it read is
still there when it returns. `OrderInv` is needed for `ProjectionFollows`: as long
as nothing had to be retried (`AllClean`), what is active or completed comes after
completed events only (`InOrder`), and the row has the tag of the last completed
event of its repository, except while the handler of a later one is about to return
(`LastIsSaved`). `JobsMove` lists what can become of one event's job, `CleanBefore`
that a clean state has only clean states before it.

`EntitledInv` is the other half of `OwedInv`: everybody ACTIVE is entitled while an
event that notifies is not at its end, so those whom `FindSubscriptions` reads are,
and stay so when they cancel before their job is added. A list is read only for an
event that notifies, so a first tag mails nobody. With both halves each statement is
a step of `ReleaseNotice` (`NoticeStep`): publishing announces, `addBulk` mails, a
completed job handles (`OwedInv`: everybody is mailed), a job given up drops, and a
retried or stalled one changes nothing that `ReleaseNotice` sees.

`RepositoryVerificationProofs`, for any set of calls:

| Theorem | Statement |
|---|---|
| `TypeCorrect` | `Spec => []TypeOK` |
| `AdaptersAlwaysAgree` | `Spec => []AdaptersAgree` |
| `RefusalsHaveTheirReason` | `Spec => []RefusedForItsReason` |

The invariant says that an answered call carries the answer its verdict means, or
a 5xx if it has none; the lemmas before it go through the tables case by case.

`ScannerServiceProofs`, for any calls and tracking commands:

| Theorem | Statement |
|---|---|
| `ServiceVerifies` | `ServiceSpec => Spec`: the process takes steps of `RepositoryVerification` or none |
| `ServiceTypeCorrect` | `ServiceSpec => []ServiceTypeOK` |
| `ServiceAnswersRightly` | `ServiceSpec => [](AdaptersAgree /\ RefusedForItsReason)` |
| `StopsGracefully` | `ServiceSpec => []GracefulExit` |

`ServiceAnswersRightly` is the theorems of `RepositoryVerificationProofs` carried
over by `ServiceVerifies`. `StopInv` says that an orderly stop leaves closed and
empty what it has gone past: a server that is not up accepts nothing
(`AcceptedOnly`), so what was empty stays empty (`StaysEmpty`).

`EmailWorkerProofs`, for any sagas, releases (no id is both), slots and bounds:

| Theorem | Statement |
|---|---|
| `TypeCorrect` | `Spec => []TypeOK` |
| `ReportsFailureLast` | `Spec => []FailureReportedLast` |
| `CompletesMailedReleases` | `Spec => []CompletedReleaseWasMailed` |
| `ImplementsConfirmationDelivery` | `Spec => ImplementsDelivery`, the refinement of `ConfirmationDelivery` |
| `NeverResends` | `Spec => NoResendAfterCheckpoint` |
| `NeverFailsAfterSent` | `Spec => NoFailureAfterSent` |
| `MailsReleaseOnce` | `Spec => []ReleaseMailedOnce` |
| `StopsHarmlessly` | `Spec => []StopIsHarmless` |

`TypeInv` adds to `TypeOK` that a job is active exactly while an activation that
runs it has its lock. The worker's difficulty is an activation that lost its lock,
so each argument says what survives that. `AttemptsInv`: the `attemptsMade` an
activation read never exceeds what its job has counted since, so a failure it
reports is the last even when it comes late. `DeliveryInv`: an activation has
earned its place, whether it has the lock or not: what it checkpoints and reports
was accepted, and it returns only after publishing. From these three follows the
refinement, step by step (`StepRefines`): an ended activation completes or abandons
one command, a restart abandons any number at once, all else is a stutter or the
step of the same name. `CheckpointInv` and `CalmInv` are about the time before a
lock expires: each activation then has its lock, so no two run the same job, no
activation is before the mail of a checkpointed job, and the activation that saw a
release accepted is the one that completes its job.

`RepositoryTrackingProofs`, for any subscriptions, links, activations and bounds:

| Theorem | Statement |
|---|---|
| `TypeCorrect` | `Spec => []TypeOK` |
| `AloneHeals` | `Spec => []AloneClickHeals` |

`TypeInv` adds that a link that is being served has a command left to publish and
that whoever holds a command's lock runs it alone. `AloneInv` follows a link that
is served alone: either the Main API is serving it, nothing is queued and nobody
runs, or its command is the only one open, every activation that is left is one of
that command and would write the same value, and once none is left the scanner is
in step.

Only model-checked: liveness (`JobSettles`, `FailureReportSettles`,
`LastClickSettles`, `OwedGetMailed`, `ReleaseIsSeen`, `EveryCallAnswered`,
`AcceptedIsAnswered`, `StopEnds`), because liveness under fairness is out of this prover's reach. Every
other property of a passing run is a theorem. No module uses a RECURSIVE operator.

## 5. Plan

Every safety property of a passing run is proved, the three refinements included;
the runs show the same on small instances, with the liveness that cannot be proved
here.

Left to prove: what the promises say together about the whole path, from a request
to the release mails it leads to, for which a module over `SubscriptionSaga` and
`ReleaseScan` is missing; and an abstract specification of the tracking, which
`AloneClickHeals` states as an invariant only.

Left to model: the deletion of a repository by a compensation beside the scanner's
events for it, with the handler's branches for an unknown id or another name. The
scanner tracks a repository only after a confirmation, and a compensation drops one
only when it has no subscription left, so the two meet only behind finding 4.

## 6. Not modelled

Templates, wording, SMTP and HTTP details, authentication, validation, metrics,
logging, the dashboard, Swagger, the web page, benchmarks and generated code
keep no state that the modelled parts read.
`SubscriptionSagaRepository.createStarted` and `markSubscriptionCreated` are
called by nothing.
