# TLA+ models and proofs for spnetgram-adminbot

spnetgram-adminbot is a Telegram bot with a REST API through which the staff of
SPNETGRAM work: tickets, approvals, moderation, an economy of credits, premium
subscriptions, SLAs. It is one Node.js process on one PostgreSQL database (through
Prisma) and one Redis, and it exchanges events with a second system, SPNET-ADMIN.

This directory holds TLA+ modules for the parts of the bot whose behaviour depends on
order: what several requests, timers and messages do to the same rows while each of
them waits for the database. For each part there is a model, a configuration under
which TLC explores it, and a module of proofs that TLAPS checks. `PROJECT.json` maps
every definition to the lines it models, lists the hazards and says which property
watches which.

    tlc -workers 2 -config pipeline.cfg MCSyncPipeline.tla     # one run
    tlapm SyncPipeline_proofs.tla                              # one module of proofs

## 1. The system

### 1.1 How the program runs

There is one thread. Between two `await`s nothing else runs; at an `await` anything
may. No lock and no row version is used anywhere, and `$transaction` only in
`economy.transfer` (nested creates and `updateMany` are atomic by themselves). So every
service method of the form *read, check, await, write* is a race with every other method
on that row, and with itself; a method with two writes can fail between them. All the
models are built on this one fact:

> an action is what happens from the return of one awaited call to the return of the
> next, and a variable says which call each invocation waits for.

A database call either throws and has changed nothing, or takes effect.
Modules call each other in two ways: by method calls (awaited), and through an
in-process event bus (`infrastructure/event-bus`). Its `emit` starts every handler, each of
which runs to its first `await`, and resolves when all have ended (`Promise.all`): who awaits an
`emit` waits for the handlers and gets the first error of theirs, while the other handlers go on.

### 1.2 Components

The state of a component is the table it keeps, unless noted.

| component | state | operations that change it | how it interacts | what is hard |
|---|---|---|---|---|
| **sync pipeline** (`modules/sync/sync.processor.ts`, `sync.service.ts`, `inbound-sync.service.ts`) | table `sync_events` (status, retryCount); the flag `processing` | create, processBatch, markProcessed, markFailed, moveToDlq, retryFromDlq, update | timer (30 s) -> batch -> HTTP to SPNET-ADMIN or dispatcher; REST operators | ticks during a batch, operators during a batch, lost answers, crashes between effect and record, rows no query selects |
| **sync capture** (`sync.processor.ts:67-168`, `sync.consumers.ts`) | the same table; the set `syncOriginEvents` | onModuleEvent, checkIdempotency, the consumers of `sync:event:*` | all modules -> event bus -> outbox; outcomes -> notifications and audit logs -> event bus | check-then-insert, feedback of side effects, marks that outlive their event |
| **dispatcher and notifications** | `notifications` | dispatch, deliverWithRetry, notifyRole, create, markRead | called by pipeline, consumers, every module | retries after a partial success, fan-out that fails half-way |
| **approvals** | `approval_requests`, `approval_steps` | createRequest, approveStep, rejectStep, requestInfo, cancelRequest | emits to notifications and sync | several deciders at once, two tables without a transaction |
| **economy** | `economy_accounts`, `economy_transactions` | ensureAccount, createTransaction, transfer, freeze, unfreeze | REST, bot commands | lost updates, freezes during a call, a ledger and a balance that must agree |
| **premium** | `premium_plans`, `user_subscriptions` | createSubscription, cancelSubscription, expireSubscriptions | task every 30 min | expiry against cancellation and renewal |
| **SLA** | `sla_entries` | startSla, resolveSla, checkForBreaches | task every 5 min | a breach written over a resolution |
| **incidents, monitoring** | a status each | create, update, resolve; upsertService, updateServiceStatus | events for whoever follows the statuses | a change is announced by comparing with a status read before |
| **deep links, analytics, AI** | clicks, default dashboards, recommendations | resolveLink, setDefaultDashboard, applyRecommendation, ... | REST | a row is checked and then written by another call |
| **REST server, controllers** | none | routing, guards, answers | calls every service; 4xx and 5xx go to the audit log | the order of 211 routes, what each handler is given, what it throws |
| **Telegram bot** | none | 58 commands and buttons, behind the guard for staff | calls the services, replies by Telegram | a reply that fails after a write, an update handed out again, a page Telegram refuses |
| **tickets, cases, investigations** | a status machine each, plus replies, evidence, root causes | create, assign, transitionStatus, addReply, addEvidence, ... | notifications, sync, audit | transitions checked against a status that has changed; lists read, changed and written back |
| **moderation, users** | `moderation_actions`, `users.status` | create, updateStatus | an action sets the status of a user | two actions, or an action and an expiry, on one user |
| **staff, permissions, governance** | staff, roles, permissions, overrides, temporary permissions | assignRole, grant, revoke, grantOverride, processExpiredPermissions | read by the guard of every route | revocation against a check that is under way; sources of permission that disagree |
| **auth** | Redis: refresh tokens, blacklist | login, refresh, logout, revoke-all | guard of every route | a token used twice, a revocation between check and use |
| **dashboard and its cache** | Redis: a key for each view, a set of keys for each tag | getOrSet, invalidateByTag | views are read by REST and bot; the sweep of permissions invalidates them | filling and sweeping are several commands each |
| rate limiter, IP reputation, lockdown | Redis keys with expiry | check, reset, recordFailure, activate | the server never calls `securityGuard`, so nothing reads them | - |
| **job queue** | Redis list | enqueue, dequeue, complete, fail | nothing instantiates it at this commit | a job lost between dequeue and complete |
| **scheduler, start and stop** (`app.ts`) | timers | start, shutdown | runs the tasks above | overlapping runs of one task; shutdown with work in flight |
| departments, KPI, security events, audit | rows | inserts, single writes, aggregations | REST | little that depends on order |
| DI, logging, metrics, config | none | - | - | - |

### 1.3 What makes each part correct

- *pipeline*: one batch at a time; an outcome is recorded once and only operators revise
  it; PROCESSED only after the effect; every repeated delivery has a cause; no row is
  left in the queue for ever.
- *capture*: synchronising has no feedback; an event is dropped as a duplicate only if
  there is one; captured twice only in a race.
- *approvals*: approved only if every step was; the last decision always settles the
  request; a settled request stays settled.
- *economy*: an account is below zero only by what was booked without a check; the ledger explains the balance; a freeze takes effect.
- *premium, SLA*: a deadline is enforced unless it was met or lifted, and never overrides
  an earlier end.
- *status machines*: only transitions of the table happen; no reply or evidence is lost.
- *access*: a request is let through only on a right it had at some moment of the guard, and
  refused only without one that it had throughout.
- *sessions*: a refresh token that was given and not used can be used; revoked sessions end.
- *REST server*: every endpoint is served by its own handler, with what the handler reads,
  behind its own guards, whose permissions somebody can have, and a success is answered only
  for what was done.
- *dispatcher*: an event that names a user is processed only when a notice for the user is
  stored; no more notices than there are reasons for.
- *cache*: an invalidation leaves nothing older than itself, outside races.
- *staff, incidents, monitoring*: two places that hold one fact agree, outside races.
- *links, dashboards, recommendations*: a limit is exceeded, a default is doubled and a
  decision is taken twice only in races.
- *bot*: what the chat is answered agrees with what was done, and there is an answer.

## 2. The modules

| module | models | checked by | proofs |
|---|---|---|---|
| `SyncOutbox` | what the outbox promises (abstract) | as a property of `SyncPipeline` | `SyncPipeline_proofs` |
| `SyncPipeline` | batch, delivery, retries, DLQ, operators, crashes | `pipeline`, `pipeline_live`, `pipeline_failed` | `SyncPipeline_proofs` |
| `SyncCapture` | capture, deduplication, marks, consumers; on top of `SyncOutbox` | `capture`, `capture_suppressed` | `SyncCapture_proofs` |
| `Approvals` | one request, its steps, the calls that decide them | `approvals`, `approvals_published` | `Approvals_proofs` |
| `Economy` | accounts and ledger, transactions, transfers, freezes | `economy` | `Economy_proofs` |
| `Subscriptions` | premium subscriptions and the expiry task | `deadlines` | `Deadlines_proofs` |
| `SlaEntries` | SLA entries and the breach check | `deadlines` | `Deadlines_proofs` |
| `Workflow` | tickets, cases and investigations: status, replies, evidence | `workflow` | `Workflow_proofs` |
| `Moderation` | moderation actions and the status of users | `workflow` | `Workflow_proofs` |
| `Access` | roles, overrides, temporary permissions, special access; the guard | `platform` | `Platform_proofs` |
| `Routes`, `Router` | the table of routes and what their handlers read; a request from match to audit | `platform`, `documented` | `Platform_proofs` |
| `NoticeBoard` | what the dispatcher promises (abstract) | as a property of `Notices` | `Notices_proofs` |
| `Notices` | dispatch, audiences, deliverWithRetry, Telegram | `platform`, `documented` | `Notices_proofs` |
| `DashboardCache` | the cached views, filled and swept | `platform` | `Platform_proofs` |
| `Staffing` | a member's isActive and the isStaff of their user | `platform` | `Platform_proofs` |
| `Watch` | statuses of incidents and services and their events | `platform` | `Platform_proofs` |
| `Records` | clicks of a link, default dashboards, recommendations | `platform` | `Platform_proofs` |
| `Bot` | the commands and buttons and the handling of an update | `platform`, `documented` | `Platform_proofs` |
| `Sessions` | token pairs, refresh, logout, revoke-all, blacklist | `documented` | - |

The modules `MC*` give constants their values for TLC and define symmetry; `MCPlatform` and
`MCDocumented` also put parts together (2.11). Definitions
whose comment begins with *Faulty* are not part of a specification: each is a variant of
the definition after it, with a plausible mistake, and the property listed with it in
`PROJECT.json` fails when it takes that definition's place. They show that a property
can fail at all.

### 2.1 SyncOutbox and SyncPipeline

`SyncOutbox` is the promise: a row is submitted, its effect takes place (perhaps more
than once), an outcome is recorded. The pipeline may not revise an outcome of its own,
may record PROCESSED only after the effect, and may put an event into the DLQ only if an
operator has touched it. It has four variables and knows nothing of batches.

`SyncPipeline` is the code. `pc[b]` names the awaited call batch `b` is at:

| action | code |
|---|---|
| `CreateEvent` | `SyncService.createEvent`, called from three places |
| `Tick` | the entry of `processBatch`: flag tested and set with no await in between |
| `Fetch` | `getPendingEvents`: the oldest PENDING rows, at most `BatchLimit` |
| `Post` | the HTTP call: accepted and answered, accepted and the answer lost, or not accepted |
| `Dispatch` | an inbound event: the dispatcher resolves or throws |
| `Mark`, `Reject`, `Fail` | the writes: markProcessed, markFailed of the inbound service, handleFailure with moveToDlq |
| `FetchError`, `WriteError`, `FailError` | the same calls throwing: each goes to the handler the code has around it |
| `UpdateEvent`, `MarkByOperator`, `RetryFromDlqCheck`, `RetryFromDlqReset` | the REST routes, in the middle of anything |
| `Crash` | the process dies; the table survives, flag and locals do not |

`seenRetry` is the `retryCount` as the batch read it: `handleFailure` writes from it,
over whatever an operator has written since. `handled` records which rows of its page a
batch is done with. A refinement needs no mapping here: the four variables of
`SyncOutbox` are variables of `SyncPipeline` (`writer` and `effected` are history), and
`Outbox == INSTANCE SyncOutbox`.

The columns that decide the route of a row (source, target, type, validity of the
payload) are one value, `kind`: *outbound*, *unsupported*, *invalid*, *valid*. What
happens when an operator changes `source`, `target` or the payload is not modelled: the
routes that exist change status, `retryCount` and `errorMessage` only.

### 2.2 SyncCapture

The same outbox seen from the other side: how rows get in, and what an outcome sets off.
It uses the actions of `SyncOutbox` (`Outbox!Submit`, `Outbox!RecordOutcome`, ...)
instead of the batches, so what is shown here holds for the code behind it as far as
`SyncPipeline` implements `SyncOutbox`. `OnModuleEvent` is the synchronous part of
`onModuleEvent` and is a conjunct of every action that emits; `CheckIdempotency` and
`CreateCaptured` are its two awaited calls. The consumers mark the name of the side
effect they are about to cause (`MarkAsSyncOrigin`), cause it, and the emission arrives
at `OnModuleEvent` in the same step. `depth` counts how many side effects of
synchronising led to a row.

### 2.3 Approvals

One request (requests do not interact). A call is known by the status it will write;
`at` is the awaited call it is at: the write of the step, the read of the steps
(`checkRequestResolution`), the write of the request, the two emissions. `Fail` loses a
call at any of these points: a throw or a crash, which are the same here since nothing
is kept in memory.

### 2.4 Economy

A call reads its account(s), checks, and writes what it computed. `createTransaction` has
two writes (`Book`, `UpdateBalance`), `transfer` two reads and one database transaction
(`Commit`). The rows of the ledger are abstracted to what the properties tell apart: the
sum of their amounts (`booked`), the set of their `balanceAfter` (`afters`) and whether one of
them took money without the check (`uncovered`). An amount is any integer: `createTransaction`
never looks at its sign and the REST route hands it on from the body, so a credit may take and a
debit may give; only `transfer` refuses what is not positive.
`raced`, `torn` and `excused` are history: accounts used by two calls at once, accounts
with a row whose balance update was lost, and calls that had read an account before it
was frozen.

### 2.5 Subscriptions and SlaEntries

Two tables with deadlines, each with a scheduled task that looks for the rows whose time
is over. Time itself is a set: `ended` (`late`) holds the rows whose deadline has passed,
and grows by an action that may happen at any moment; a run of a task works with the set
as it was when it took `new Date()`. `setInterval` does not wait for the last run and the
REST routes start runs as well, so several runs are in progress at once.

The two tasks are written differently, and the models keep the difference.
`expireSubscriptions` reads the rows, writes all of them with one `updateMany` by id
(`WriteExpired`) and then announces them one by one. `checkForBreaches` writes and
announces one row after the other (`Breach`, `Alarm`). Both write over rows as they read
them before an await, whatever their status is by then. `over` and `done` (history) are
what a run found settled when it began, `swept` and `checked` what completed runs have
dealt with, `unannounced` and `silent` the announcements that a restart lost.

A subscription is a pair of a user and a plan: `(userId, planId)` is unique. Deadlines of
SLA entries are given by the caller; the model assumes they lie ahead when the entry is
started.

`MCDeadlines` extends both modules. They share no state, so it lets TLC explore each with
the other at rest (variable `task`) rather than their product. `TasksAreTheirOwn` proves that
this composition runs each of them by its own specification.

### 2.6 Workflow and Moderation

Tickets, cases and investigations have the same `transitionStatus` with different tables:
`Transitions`, `Closing` (the status that comes with `closedAt` or `completedAt`) and
`Publishing` depend on the kind of the item, the actions do not. A call reads its item and
checks (`Begin...`), writes (`Write...`) and, for an end, publishes (`Publish`). A ticket is
also written by `update` and by `addReply`, which look at no table. The evidence of an
investigation is one JSON column, so `WriteAdded` and `WriteRemoved` write the list as it
was read. `update` of an investigation puts a record in its place, on which addEvidence and
removeEvidence throw; a call that read the list before puts a list back. `update` is given
what its type allows.

`revised`, `byUpdate`, `raced`, `unpublished`, `added`, `removed` and `over` are history: the
ends that a call wrote over although it had read the item before its end (or, on tickets,
that a reply or an update wrote over), the tickets last set by an update, the evidence that
changed while another call was at the list, and so on. Each property excuses exactly these.
Replies themselves are rows that nothing changes, and a reporter's own reply leaves the
ticket alone.

In `Moderation` a call reads the target, records the action (`Record`), writes the status
(`Apply`), and announces it if it is not the status it read (`AnnounceStatus`). `Set` is
`UsersService.updateStatus`, which always announces. `ordered` (history) is the status the
last record stands for. A new user starts ACTIVE, the default of the column.

Items share no state with each other, nor with users, so `MCWorkflow` lets TLC explore one
of them at a time (variable `focus`); `ServicesAreTheirOwn` proves that the composition runs
both modules by their own specifications.

### 2.7 Access

A member may do one action on one resource by a role (`RoleAllows`), by an override that
grants (`OverrideAllows`) or by a temporary permission (`TemporaryAllows`); the three are
`Sources(m)`. `requirePermission` is `BeginGuard`, `Check`, `HasOverride`, `ReadRoles`,
`ReadOverride`, `ReadTemporary`, `EndGuard`: a step for each query, the last three being
`checkAccess`. Administrators' calls with two statements are pairs (`BeginReassign`,
`EndReassign`; `BeginRemove`, `EndRemove`), as is the sweep (`ExpireOverrides` to
`ExpireSpecials`); a call that fails in the middle is one that never takes its second step.
Time is the `Lapse...` actions. `seen` and `held` (history, `Watch`) are the sources that
allowed the member at some and at every moment of the guard. An answered guard no longer
collects.

### 2.8 Routes and Router

`Routes` is the sequence of registrations of `server.ts` with the method, the path, the
guards and, from the controllers, what the handler reads and how it answers and fails. In
`Router` a request for an endpoint goes to the first route that matches (`FirstMatch`),
through the guards of that route, to the handler, to an answer and to a row of the audit log.
The decisions of guards and services are inputs here, but for what the table itself decides: a
guard whose action or resource is in no enum of the database asks a query that Prisma refuses,
and so ends in the error handler for every member of the staff (`IsAskable`, `Authorize`).
`RoutesAssumption` says what all rows of the table have in common. `EndpointsAnswer` holds a
success to the endpoint that was *asked for*: its own handler was given all that it reads and
all of its guards were passed. That every documented endpoint can succeed is stated by
`ListedEndpointsSucceed` and `ListedPermissionsOpen`, which the code violates (findings 5 and 6).

### 2.9 Notices and NoticeBoard

`NoticeBoard` says what the pipeline relies on: an event that names a user is resolved only
after this dispatch stored a notice for that user, and is begun again only after it was rejected
or its end was not recorded. It says nothing of Telegram, since the code does not: a stored
notice is in the user's list, and whether a message told of it is another matter (finding 7). `Notices` is the dispatcher. `Dispatch` is `buildDispatchInfo`
with the choice of an audience, `ReadAudience` its query, `InsertNotice` and `FailInsert`
what `deliverWithRetry` sees of `create`, `SendNotice` and `FailSend` the loop inside
`deliverViaTelegram`, whose failures never get out. An insert may report an error after
having written. `addressed`, `unheard`, `lost` and `unconfirmed` count the reasons for a
difference, exactly: `NoticesAddUp` says that for each user the calls of `deliverWithRetry`
and the rows with an unheard insert are the rows, the losses and the inserts under way.
`Board` is the refinement mapping: of each dispatch `PhaseOf` (idle, working, resolved,
rejected), `Addressee` (whom its event names; nobody, for a type with no mapping) and
`StoredOf` (for whom a notice was stored). `unreached` keeps the users whom no attempt reached.

### 2.10 DashboardCache, Staffing, Watch, Records

`DashboardCache` has one step for each command to Redis: `GetOrSet`, `Load`, `SetEx`, `SAdd`
twice; `SMembers`, `DelKeys`, `DelTag`. (SADD and the EXPIRE after it are one step: between
them a tag lacks only its ttl.) A value is the version of the data it was computed
from. `loose` (history) marks what was filled while an invalidation was under way.

`Staffing` writes a member and then the flag of their user (`WriteMember`, `WriteUser`).
`Watch` reads a status, writes one and compares (`ReadStatus`, `WriteStatus`, `TellStatus`);
incidents and services differ in `Calls` and `Tells`. `Records` has three kinds of rows that are
checked and then written by another call. `setDefaultDashboard` clears the defaults of the
owner that the *request* names, which nobody compares with the owner of the dashboard, or those
of everybody when it names none (`Named`, `DefaultsOf`). So a request with another owner's id
leaves two defaults without any overlap, and `ChosenIsDefault` promises the single default to
the owner for whom a request with the right name, or with none, was the last to write. In each, history variables (`skewed`, `muddled`,
`stale`, `chosen`, `crossed`) name the races and losses that a property excuses.

### 2.11 Bot and Sessions

`Bot` lists the commands and buttons, each with the number of arguments it asks for, whether
it writes and whether it catches what is thrown, in the two groups before and behind
`staffGuard`. An update arrives, is identified, runs, and is replied to; every step may fail,
and the process may end, after which Telegram hands the update out again. Telegraf and
Telegram are external (`Arrive`, `FailReply`, `Again`). What is not a failure is not counted as
one: an argument may name what does not exist, or be one that the service or the database does
not accept (`named`: `NotFound`, `Rejected`), and Telegram may refuse a text every time it is sent
(`sendable`: `RefuseReply`), for certain with the pages of `RefusedPages`, since replies are sent
as HTML. `granted` is the table in which a permission was put. `AnswersTellTheEffect` compares
the answer with whether something was written, and lists the only reasons for which an update
stays without an answer (`SilenceIsExplained`); what the documents promise beyond that is in five
properties of their own, which the code violates (findings 9 to 13).

`MCDocumented` puts ten statements of the documentation, each a property of its own in `Router`,
`Bot`, `Notices` or `Sessions`, to the test in the order of `Order`. The part that a statement is
about takes its own steps until it refutes it (`TryHttp`, `TryBot`, `TryNotices`, `TrySessions`);
then the next one is tried (`TakeNext`), with a new request and a new update. The parts share no
state, so what a part does in such a behaviour it does alone as well. `SomeStatementHolds`, the
weakest thing the ten statements imply, is violated only by a behaviour that refutes them all:
TLC's trace has 43 states and a counterexample to each statement, in the state before each
`TakeNext`.

`Sessions` keeps what Redis holds of token pairs. `ObjectKey` is the key that login stores
under (finding 4), `revoked` what revoke-all was about (finding 8).

`MCPlatform` extends the modules of 2.7 to 2.10 and `Bot`, which share no state that their
properties speak of; TLC explores one of them at a time (variable `focus`, twelve initial
states). `PartsAreTheirOwn` proves that this composition runs each part by that part's own
specification, so that what is proved of a part is so of the platform.

## 3. What the runs show

| run | bounds | question | result |
|---|---|---|---|
| `pipeline` | 2 batches, 2 events of each kind, page of 2, 3 retries, 2 operator writes, 1 fault | do ticks, operators, lost answers and crashes break the pipeline? | all five properties hold |
| `pipeline_live` | 1 batch, 2 events, page of 1, 1 operator write, 1 fault | is every PENDING row decided in the end? | holds under fairness |
| `pipeline_failed` | 1 event, no fault, no operator | is FAILED retried? | **no** (finding 1) |
| `capture` | 3 rows, 2 captures and 1 consumer at once, 1 emission, 1 restart or operator write | feedback, deduplication | holds |
| `capture_suppressed` | 1 row, 2 emissions | are only side effects of synchronising skipped? | **no** (finding 2) |
| `approvals` | 2 steps (one with an approver, one with a role), 3 calls at once, loss anywhere | complete approvals, no lost resolution | holds |
| `approvals_published` | 2 steps, 2 calls | is every approval published? | **no** (finding 3) |
| `economy` | 2 accounts, 2 calls at once, 4 calls in all, amounts -1, 1 and 2 | overdrafts, ledger, freezes | holds |
| `deadlines` | 2 pairs, 1 create or cancel call, 2 sweeps at once, 1 fault; 2 entries, 1 resolve call, 2 checks at once, 1 fault | is an end that came first respected, is nothing missed, is it announced? | all eight properties hold |
| `workflow` | a ticket, a case, an investigation; 2 calls at once, 3 pieces of evidence, 1 call lost; a user, 2 moderators at once, 1 call lost | do status, date and publication of an end agree, is evidence kept and sealed, is the announced status of a user the real one? | holds outside the races the properties name |
| `platform` | 1 request on each of 211 routes; 1 member, 1 role with 2 assignments, 1 override, 1 temporary permission, 1 administrator and 1 guard at once; 1 event, 2 users, 2 attempts, 3 faults; 1 view, 2 readers, 1 sweep, 2 changes; 1 member, 3 calls; 1 incident or service, 2 calls; 1 link, 3 dashboards of 2 owners, 1 recommendation, 2 calls; 1 update, 2 faults, 1 restart | the twelve questions of 2.7 to 2.11 | all hold, outside the races the properties name |
| `documented` | 1 request; 1 update, 1 fault; 1 event, 1 user, 3 attempts, 3 faults; 2 token pairs, 2 refreshes at once | is any of ten statements of the documentation true? | **none** (findings 4 to 13) |

Why the bounds are enough for the questions:

- *pipeline*. Two batches are what the flag must keep apart. Two events give a head of the
  queue and a row behind it, and a page with a row still to come. `MaxRetries = 3` is the
  value of the code. Two operator writes are a requeue followed by a change in the middle
  of the delivery that it caused. One fault at any place: the properties count faults, so
  a second one repeats the first. The theorems remove all these bounds.
- *pipeline_live*. A page of one row with two events makes a queue whose head could block.
- *capture*. A chain of side effects needs three rows to be too long; a race of captures
  needs two handlers. One consumer at a time is the serial order the batch produces
  in the absence of operators; the theorem covers any number.
- *approvals*. A race needs two calls; the third is the one that comes after, or the
  cancellation of a request two others are deciding.
- *economy*. Two accounts are the two ends of a transfer, each the source of the other's;
  amounts 1 and 2 make a balance sufficient for one and not for the other, -1 turns every type
  of transaction into its opposite; four calls are
  two that give credit and two that race for it.
- *deadlines*. Two rows make a list with a row still to come; two runs overlap; one call is
  enough to end or create a row in the middle of both. A fault ends a run in the middle of
  its list, and the properties count what it lost. The theorems remove these bounds.

- *workflow*. Two calls overlap; a third would repeat what the second does to the first,
  since a write depends only on what its own call read. Three pieces of evidence are one in
  the list, one added and one removed at the same time. The theorems remove these bounds.

- *platform*. Rights: a guard depends on its own member only, so one member with one row of
  each kind, two assignments of the role (so that revoking one leaves the other) and one
  other call suffice; the theorems remove these bounds. Notices: two attempts are a first
  and a last one (the code has 3), two users a broadcast with someone still to come, three
  faults end one delivery and begin a second. Cache: two readers fill one key while one sweep
  goes by; other views have other keys. Staffing: three calls are two that overlap
  and one that comes after. Records: two calls overlap, and come after each other as often as
  TLC likes; three dashboards are two of one owner and one of another. Watch: two calls overlap, and come after each other as often as
  TLC likes. Bot: two faults are a failed command and a failed report of it. The theorems
  remove all of these bounds.

`CHECK_DEADLOCK FALSE` is set where the bounds on rows, calls and emissions let a
behaviour stop (the program waits for input there).

### Fairness

`pipeline_live`, `pipeline_failed` and `deadlines` assume any. `WF(\E b : Tick(b))`: `setInterval`
keeps firing, and a tick is enabled for as long as no batch runs. `WF(BatchStep(b))` for
each batch: an awaited call returns or throws, since Prisma has a pool timeout and `fetch`
a timeout of the platform. In `deadlines` likewise: some
run of a task is started again and again, and each run goes on. Nothing is assumed of users, of operators or of crashes. Weak
fairness is enough because a batch that waits stays enabled until it moves.

### Findings

The first three have a run each; the others are the statements of `documented`.

1. *FAILED is not retried.* `ADMIN_SYNC_REFERENCE.md:53` calls FAILED retryable and `:98`
   says three attempts, then DLQ. The only query of the batch selects PENDING, so a failed
   event stays FAILED with `retryCount` 1; the dead letter queue is reached only by events
   an operator has requeued with a `retryCount` of 2 or that were in it before.
2. *Whole event names are suppressed.* `ADMIN_SYNC_REFERENCE.md:99` says that events created
   as side effects of synchronising are skipped. The mark is the name of the event and is
   never removed: after the first delivered event, no `audit:logged` of any module is
   synchronised until the next restart, and after the first inbound one, no
   `notification:sent`.
3. *Approvals without a named approver are not published.* `approval:approved` is emitted
   only if some step has an `approverId`.
4. *The refresh token of a login cannot be used.* `API_REFERENCE.md:18-19` has login return a
   refresh token and `/api/auth/refresh` take one. Login hands `storeRefreshToken` the decoded
   token where it wants the jti, so the key is `auth:refresh:[object Object]`, and the refresh,
   which asks for the key of the jti, answers 401. No pair but those that refresh itself would
   store is ever found.
5. *Twelve documented endpoints never succeed.* `API_REFERENCE.md:134`, `228`, `232`, `246`,
   `258`, `260-261`, `263`, `304-305`, `329` and `339` and `COMMAND_REFERENCE.md:286` and `444-445`
   list them. Three are hidden by an `:id` registered before them, nine hand their handler less
   than it reads.
6. *Twenty-one guarded endpoints let nobody in.* `API_REFERENCE.md:59-60`, `135`, `270-278`,
   `311-316` and `335-349` name permissions with an action (GRANT, REVOKE, EXPORT) or a resource
   (PERMISSIONS, AI, DEEPLINKS, GOVERNANCE) that the enums of the schema do not have. The guard
   passes them to Prisma `as any`, which throws, and the answer is 500.
7. *An event whose message failed is PROCESSED.* `ADMIN_SYNC_REFERENCE.md:144` says that after
   three failed attempts the exception propagates and the event is marked FAILED. The loop in
   `deliverViaTelegram` logs the third failure and returns.
8. *Revoking all sessions ends none.* `API_REFERENCE.md:26`. `auth:version:<staffId>`, which
   revoke-all writes, is read by nothing.
9. *Ten commands besides /start do not catch.* `BOT_FINAL_AUDIT.md:76` says that 51 of 53 do, all but /start
   and /help. The lists (/staff, /cases, /tickets, /investigations, /departments), moderation
   (/warn, /mute, /ban, /unban, /unmute) and /start have no `try`; what they throw is logged by
   `bot.catch` and the chat hears nothing.
10. *Arguments are not validated.* `BOT_FINAL_AUDIT.md:157` says that all commands validate them.
    `/tickets anything`, or `/mute` with a length that is no number, reaches Prisma as it is, and
    since these commands do not catch either there is no answer, whatever one sends.
11. */commands lists nothing.* `BOT_FINAL_AUDIT.md:88`. The page holds bare `<...>`, which Telegram
    refuses as unknown tags; the command answers the error. So do `/guide` of five other pages,
    and *Next* on the main page does nothing.
12. *Temporary access is permanent.* `COMMAND_REFERENCE.md:32`. `/temporaryaccess` grants the
    permission to the role of the member, without an end, and answers with a date.
13. *A permission override is a permission of the role.* `COMMAND_REFERENCE.md:30`.
    `/grantpermission` writes no override; everybody with the role of the member gets it.

Two more sentences of the repository are wrong about code that no model has, because nothing
calls it. `BOT_FINAL_AUDIT.md:165` says that rate limits are integrated by `securityGuard()`, and
`COMMAND_REFERENCE.md:129` that `/lockdown` activates an emergency lockdown which exempt roles
bypass: the only reader of the limits and of the lockdown is `securityGuard`, which no route and
no bot middleware calls, so the command writes its key and nothing is locked.

### Other things the models make visible

No sentence of the repository that we know of says otherwise, so they are no findings; the
hazards in `PROJECT.json` have the lines of most.

- `guessEntityId` takes the first of 24 fields. `userId` comes before `ticketId` and
  `accountId` before `transactionId`, so two events of one type about different tickets of a
  user, or different transactions of an account, have one key: the second is dropped if the
  first is still PENDING and less than five minutes old. The same key is used for rows a
  batch is delivering at that moment.
- The row of an inbound event that failed keeps `retryCount` 0.
- `requestInfo` does not look at the request: it turns REJECTED into REQUIRE_INFO. Nothing
  but a cancellation leads out of REQUIRE_INFO.
- A failure between the write of the last step and the write of the request leaves a
  PENDING request that no call can settle (`PendingHasWork` excuses exactly this).
- Two calls on one account lose one of the updates (`LedgerExplainsBalance` excuses exactly
  these accounts). `createTransaction` accepts negative amounts: a CREDIT of a negative amount
  takes money without the check of a debit, and may leave the account below zero with no race
  (`OverdraftIsExplained` allows exactly this and ADMIN_DEDUCT).
- Nobody subscribes to a plan twice: rows stay after a cancellation or an expiry, the
  service lets such a user pass, and the insert fails on the unique pair. That no row
  becomes ACTIVE again is what `SweptIsOver` and `CancellationHolds` rest on.
- The expiry selects ACTIVE rows: a subscription that starts TRIALING never expires
  (`EndedIsSwept` is stated for the ACTIVE).
- EXPIRED is written over a cancellation, and BREACHED over a resolution, if the two overlap
  with the run (`CancellationHolds` and `ResolutionHolds` allow exactly this). A restart
  between write and announcement loses the announcement, since the next run does not
  select the row.
- `calculateCompliance` counts the status BREACHED only, so resolving a breached entry
  takes the breach out of the figure; `breachedAt` still has it (`CheckedIsBreached`).

- A reply by anyone but the reporter sets WAITING_REPLY and an update any status: both move a
  ticket past the table and out of CLOSED, and `closedAt` stays. A ticket closed by an update
  has no `closedAt` and is not published (`EndHolds` and `ClosingIsPublished` allow exactly
  this).
- A ticket or case that is RESOLVED and then ended publishes its end twice. No transition
  leads to APPEALED, although one leads out of it.
- Evidence is lost only between overlapping calls or by an update (`EvidenceIsKept`); an
  update changes the evidence of a completed investigation too (`EvidenceIsSealed` allows
  it), and after it addEvidence and removeEvidence throw.
- A moderation action is on record without its effect if the write of the status fails.
  Whether a change is announced depends on the status read at the start, so overlapping
  actions can leave the other system with a status the user does not have
  (`StatusIsHeard` allows exactly these two).

- A path parameter that cannot be decoded throws before any handler of errors, and the request gets no answer.
- An override that denies never refuses what a role or a temporary permission allows: the
  guard asks the roles first. `check` does not look at isActive. `grantOverride` without an
  expiry keeps the expiry of the row it revives. Special access is read by no guard.
- `/revokerole` revokes one of several rows of a role (`assignRole` makes a second).
- `assignRoleToStaff` leaves the member without a role if its second statement fails.
- A security event with a `staffId` and no `userId` is given to an id that is no user's: its
  insert always fails, and it is rejected after the attempts. A broadcast counts as processed
  whoever was missed (`NoticePromise` promises nothing for it).
- `setDefaultDashboard` with another owner's id clears that owner's defaults and leaves two for
  the owner of the dashboard; without an id it clears everybody's (`ChosenIsDefault` promises
  nothing about the first and counts the second as a write on all).
- A view whose filling overlaps an invalidation stays in the cache, listed nowhere, until its
  ttl (`loose`). Only the sweep of expired permissions invalidates; other changes wait for
  the ttl.
- A `create` of staff lost between its writes leaves a member whom the bot refuses until they
  are activated.
- Overlapping updates of a status may leave followers with a wrong one until the next change
  that meets no other (`muddled`).
- `splitTelegramMessage` does not end on a remainder longer than the limit whose only newline
  is the one of its own *continued* prefix, and closing tags may take a part over the limit.
- Logout leaves the refresh token.

## 4. What is proved

Every theorem holds for all values of the constants: any number of rows, batches, handlers,
consumers, steps, calls, accounts, subscriptions, entries, runs of the tasks, items, pieces of
evidence, users, members, roles, guards, dispatches, recipients, readers and sweeps of the
cache, services, links, dashboards, updates and requests, any limits, and any bound on faults
and operator writes. For TLC's instances the same formulas are checked as invariants. Every
safety invariant, every action property and both refinements that the runs check are stated by
a theorem. Most type invariants are proved only; `platform` also checks its own.

Each proof has the same plan. An inductive invariant (`IInv`, or `NoticesIInv`, `CacheIInv` and
so on where a module holds several) is a conjunction of named parts; `Init => IInv`; one lemma
for each action shows `IInv /\ action => IInv'`, or that the action leaves the part in question
alone; the invariance lemma is `Spec => []IInv`; the theorems follow from it. Steps that move
one invocation share a lemma (`Moved`, `Finished`, `OthersKeep`, `AccountKeeps`, `CallMoves`,
`ReaderStep`, `SweeperStep`, `RequestMoves`, `Turns`), so that an action only argues about what
it changes. The invariants were checked by TLC on the instances of the runs before they were
proved.

| module | theorems | inductive invariant |
|---|---|---|
| `SyncPipeline_proofs` | `TypeCorrect`, `LockCorrect`, `NoFalseSuccess`, `AtLeastOnceAccounted`, `PageIsCleared`, `PipelineImplementsOutbox` | `TypeOK`, `FlagIsLock`, `BatchShape` (where a batch is says what its locals are), `RowShape`, `EffectBeforeProcessed`, `AheadUndecided` (the rows a batch has still to write are undecided, or an operator wrote them), `FreshRetries` (a row no operator touched has retry 0 as read), `NoRowLeftPending`, `Credit` (attempts so far are covered by requeues and faults, with one to spare for a row still to be delivered) |
| `SyncCapture_proofs` | `TypeCorrect`, `NoFeedback`, `DedupOutsideRaces` | `TypeOK`, `ChainsAreShort`, `DedupHolds`, `Chains` (what each handler and consumer in flight is about to add is short too, and its name is marked), `SawInserted` |
| `Approvals_proofs` | `TypeCorrect`, `ApprovalIsComplete`, `NoLostResolution`, `ResolutionIsRespected` | `TypeOK`, `NothingTooEarly`, `CallsOK`, `ApprovalsRecorded`, `ApprovedByAll`, `RefusalGoesOn` and `ApprovalGoesOn` (a PENDING request with a refused step, or with all steps approved, has a call on its way to settle it, or one was lost) |
| `Economy_proofs` | `TypeCorrect`, `OverdraftsAreExplained`, `BalancesAreBooked`, `LedgerAddsUp`, `FreezeIsImmediate` | `TypeOK`, `CallsOK` (a call in flight carries a result that is not negative, or a row that the check does not cover and that marks its account, and its row is booked), `AccountsOK` (an account that is not raced: its one call read the current balance), `OverdraftIsExplained`, `EveryBalanceIsBooked`, `FreezeHolds` |
| `Deadlines_proofs` (subscriptions) | `TypeCorrect`, `CancellationIsRespected`, `SweepsAreFinal`, `ExpiriesAreAnnounced` | `TypeOK`, `RequestOK`, `SweepOK` (the list of a sweep is over, was not settled when it began and misses no ACTIVE row that was over; what it is about to announce is EXPIRED or cancelled), `swept` has no ACTIVE row, `ExpiryIsAnnounced` |
| `Deadlines_proofs` (SLA entries) | `SlaTypeCorrect`, `ResolutionIsRespected`, `NoBreachIsMissed`, `BreachesAreAnnounced`, `TasksAreTheirOwn` | `SlaTypeOK`, `CheckOK` (what a check had to find is still in its list, or breached, or resolved since), `BreachesDated`, `CheckedIsBreached`, `BreachIsAnnounced` |
| `Platform_proofs` (Access) | `AccessTypes`, `GuardsAreRight` | `AccessTypeOK`, and for each guard (`Told`) what `seen` and `held` say at each of its queries: what is held is a source now and every source now is seen; a source that was asked for and answered no is not held; a role that was read was seen |
| `Workflow_proofs` | `TypeCorrect`, `EndsAreRespected`, `EndsArePublished`, `NoEvidenceIsLost`, `EvidenceStaysSealed`, `ChangesAreHeard`, `ServicesAreTheirOwn` | `TypeOK`, `CallOK` (a call under way read an item that was not over; what it adds is new and what it removes was in the list it read), `PiecesDiffer` (two calls that add have different pieces), `ListsOK` (only what was added is in a list or removed), `EndHolds`, `ClosingIsPublished`, `EvidenceIsKept`; for users `Alone` (a user that is neither crossed nor dropped has one call) and `ActorOK` (how far record, status and announcement are at each of its steps) |
| `Notices_proofs` | `NoticesTypes`, `AccountsAreSquare`, `DispatcherKeepsPromise` | `NoticesTypeOK`, `JobOK` (whom a dispatch is telling at each of its places: a user that exists once there is a row, the user the event names if it names one), `Square` (the two accounts of a user, in which a dispatch between insert and answer counts for one) |
| `Platform_proofs` (Router) | `HttpTypes`, `EndpointsAreAnswered` | `RequestOK`: a request under way was given to the first match, has passed only guards of that route, none that cannot be asked for, and all of them at the handler, and has an outcome exactly with its status |
| `Platform_proofs` (DashboardCache) | `CacheTypes`, `SweptAreFresh` | `CacheTypeOK`, `ReaderOK` (a filling beside an invalidation is marked; what another one loaded is not older than the last invalidation), `ViewOK` (a view that met none is not older, is in the tag or about to be, and is among the keys of every invalidation that has read the tag) |
| `Platform_proofs` (Staffing) | `StaffTypes`, `FlagsAgree` | `StaffTypeOK`, `StaffCallOK`, `BetweenOK` (a member that is not skewed has one call at most between its two writes, and it knows the flag it will write) |
| `Platform_proofs` (Watch) | `WatchTypes`, `NewsIsTrue` | `WatchTypeOK`, `WatcherOK` (a call that met no other read the status of now, and wrote it), `PairOK` (beside a call that wrote and met none, all others have met it), `NewsOK` |
| `Platform_proofs` (Records) | `RecordsTypes`, `ClicksAreBounded`, `DefaultIsAlone`, `TipsAreDecidedOnce` | `RecordsTypeOK`, `RecorderOK` (a call read a count that was not full; one that cleared alone for an owner left that owner no default), `TipOK` (a recommendation that is PENDING has no stamp; one decided while a call is about to decide it is crossed), and the three properties |
| `Platform_proofs` (Bot) | `BotTypes`, `AnswersAreTrue` | `UpdateOK`: the type of an update with its handler, `TextOK` (what it is about to answer agrees with what was written, at each place, and why it may have nothing to say) and `AnswerOK` |
| `Platform_proofs` (MCPlatform) | `PartsAreTheirOwn`, `PlatformTypes` | none: a step of the platform is a step of one part, beside which the others stutter |

Why the strengthening is needed, where it is not obvious.

- *pipeline*. An outcome is recorded only for a row that is undecided; but the row was read
  long before, so `AheadUndecided` must say of the whole rest of the page that nobody but an
  operator has decided it since, which in turn needs that only one batch runs (`FlagIsLock`).
  And `NoRowLeftPending` rests on `FreshRetries`: `moveToDlq` swallows its errors, so a row one
  failure away from the DLQ could be left PENDING; no such row is fresh, because `MaxRetries`
  is greater than 1 and a fresh row has failed zero times. With `MAX_RETRIES = 1` the property
  would be false.
- *dispatcher*. That an event which names a user is resolved only with a stored notice rests on
  `JobOK`: a dispatch that sends has a row, of the very user its event names, whatever number
  of attempts came before. The steps of the sending loop are stutters of `NoticeBoard`, so a
  failing Telegram cannot make a row; that it cannot fail the event either is finding 7.
- *cache*. A sweep reads the tag in one step and deletes the keys and the tag in two later
  ones. That a view which is cached and unmarked in between does not survive, unlisted, needs
  `ViewOK` to speak of the keys each sweep holds, and `ReaderOK` to say that a filling which
  overlaps any step of a sweep is marked before it can be cached.
- *watched services*. `NewsMatchesStatus` speaks of one call at a time; that two calls cannot
  both believe to be alone is `PairOK`, a statement about pairs.
- *REST server*. `EndpointsAreAnswered` speaks of the guards and the handler of the endpoint that
  was asked for, while a request goes through those of its first match. That the two are one
  when something was done is `RequestOK` with `Outcomes`, for any table of routes that satisfies
  `RoutesAssumption`.

What proving changed in the models. Three operators were written with `CASE` arms that
overlapped (`Outcomes`, `StatusOf`, `Tells`): TLC takes the first arm that holds, but the
language leaves open which, so nothing about the others could be proved; they are chains of
`IF` now, in the order of the code. `NoticesAddUp` was an inequality and is the exact account.
And the type invariants say what the records of calls are, which TLC never needed.

Assumptions, all named, each evaluated by TLC in the runs:

| assumption | why the code justifies it |
|---|---|
| `BoundsAssumption` (pipeline) | bounds are natural numbers, a page is not empty (50) |
| `RetriesAssumption` (`MaxRetries > 1`) | `MAX_RETRIES = 3` |
| `NamesAssumption`, `PayloadAssumption` (capture) | the two side effects are event names; ids found in payloads are ids |
| `StepsAssumption` (approvals) | "no step" is no step |
| `KindsAssumption` (workflow) | tickets, cases and investigations are rows of three tables |
| `UsersAssumption` (moderation) | "no user" is no user |
| `MaxRowsAssumption` (access) | a bound is a natural number |
| `AttemptsAssumption`, `NoticeBoundsAssumption` (notices) | `deliverWithRetry` makes 3 attempts; bounds are natural numbers |
| `DispatchesAssumption` (notices), `RecordCallsAssumption` (records) | the process has finitely many calls in progress, which the properties count |
| `RecipientsAssumption` (notices) | "nobody" and "an id that is no user's" are no users |
| `ShownAssumption`, `VersionsAssumption` (cache) | the views are those of the service, none of which is called "dashboard"; a bound is a natural number |
| `ClicksAssumption` (records) | `maxClicks` is a count; a bound is a natural number |
| `WatchedAssumption` (watch) | incidents and services are rows of two tables |
| `BotBoundsAssumption` (bot) | bounds are natural numbers |
| `RoutesAssumption` (router) | no constant occurs in it: every route has a first match, guards among none, `auth`, and `auth` with `permission`, and a handler with a success code and an error code of its own or none. TLC evaluates it over the whole table |
| `CallersAssumption` (economy) | amounts are integers, types are those of the enum, and "no account" is no account |
| `OwnersAssumption` (records) | every dashboard has an owner; "missing" is none |

Only model-checked: `PendingDrains`, `EndedIsSwept` and `LateIsBreached`, since liveness and
`ENABLED` are out of the prover's reach, and the table of routes (`RoutesAssumption`), whose two
hundred rows are built by functions that the provers would have to unfold and TLC evaluates. The
thirteen findings rest on counterexamples and need no proof; `Sessions`, which only two of them are
about, has no theorem.

## 5. What is not modelled

- *Content*: texts of notifications, audit logs and replies, their layout and the splitting of
  long ones, formats, queries, aggregations. They change no state that a property is about.
- *Single writes*: departments, KPI targets and records, security events, alerts, reports and
  root cause findings, AI summaries, metrics, the read flags of notifications. An endpoint that
  makes one such write is in `Routes`, its row is in no module.
- *What nothing calls*: the job queue is never instantiated; `securityGuard`, and with it the
  rate limiter, IP reputation and the check of the lockdown, is never called, nor is the bot's
  rate limiter registered; `invalidateSession`, `clear` and `refresh` of the cache have no
  caller.
- *Time within a handler*: Telegraf gives up on a handler after 30 seconds and the handler goes
  on; the model lets a handler end.
- *The database under the code.* Prisma calls are atomic and PostgreSQL's default isolation
  is assumed for `$transaction`: its writes happen together, its reads do not lock.
- *Two instances of the process.* The code is started once and keeps its lock in memory;
  with two processes `FlagIsLock` would say nothing.
- Premium plans (`createPlan`, `updatePlan`) and the shutdown of the process, which leaves
  the timer of the pipeline running.
- `replayFromDlq` and `replayFromFailed` of the inbound service, which nothing calls yet.

## 6. Plan

1. Proofs: what `NoticeBoard` and `SyncOutbox` imply on their own, stated of the abstract
   specifications and carried over by the refinements; what is true of `Sessions` in spite of
   findings 4 and 8 (a pair spent by a refresh stays spent), as a property of a passing run and a theorem.
2. The replay methods of the inbound service in `SyncPipeline`, once something calls them.
3. A composition of `SyncCapture` with `SyncPipeline` in place of `SyncOutbox`, and of
   `Notices` with the dispatch of `SyncPipeline` in place of its one step.
